----------------------- MODULE FrontierPlanningProofs -----------------------
(***************************************************************************)
(* Proofs about FrontierPlanning: the clusters that one search reports are  *)
(* the connected frontiers around the free space of the robot, and the      *)
(* order that is planned for them is a cheapest one.                        *)
(***************************************************************************)
EXTENDS FrontierPlanning, InductionLemmas, FiniteSetTheorems, FunctionTheorems

-----------------------------------------------------------------------------
(* Sequences.                                                              *)

\* A sequence is one over every set that holds its elements.
LEMMA OfElements ==
  ASSUME NEW T, NEW s \in Seq(T), NEW U, ToSet(s) \subseteq U
  PROVE  s \in Seq(U)
<1>1. \A i \in 1..Len(s) : s[i] \in U
  BY ElementsByIndex
<1>2. s = [i \in 1..Len(s) |-> s[i]] /\ Len(s) \in Nat
  OBVIOUS
<1> QED
  BY <1>1, <1>2

\* What is appended to a sequence of T makes it one of T and more.
LEMMA AppendMore ==
  ASSUME NEW T, NEW s \in Seq(T), NEW e
  PROVE  /\ Append(s, e) \in Seq(T \cup {e}) /\ Len(Append(s, e)) = Len(s) + 1
         /\ DOMAIN Append(s, e) = 1..(Len(s) + 1) /\ DOMAIN s = 1..Len(s)
         /\ \A i \in 1..Len(s) : Append(s, e)[i] = s[i]
         /\ Append(s, e)[Len(s) + 1] = e
<1>1. s \in Seq(T \cup {e})
  <2>1. ToSet(s) \subseteq T \cup {e}
    BY ElementsByIndex
  <2> QED
    BY <2>1, OfElements
<1> QED
  BY <1>1

\* A sequence has no more elements than its length.
LEMMA NoMoreThanLength ==
  ASSUME NEW T, NEW s \in Seq(T)
  PROVE  Cardinality(ToSet(s)) <= Len(s)
<1>1. s \in Surjection(1..Len(s), ToSet(s))
  <2>1. s \in [1..Len(s) -> ToSet(s)]
    BY ElementsByIndex
  <2>2. \A x \in ToSet(s) : \E i \in 1..Len(s) : s[i] = x
    BY ElementsByIndex
  <2> QED
    BY <2>1, <2>2 DEF Surjection
<1>2. IsFiniteSet(1..Len(s)) /\ Cardinality(1..Len(s)) = Len(s)
  <2>1. 1 \in Int /\ Len(s) \in Int /\ Len(s) >= 0
    OBVIOUS
  <2> QED
    BY <2>1, FS_Interval, SMTT(60)
<1> QED
  BY <1>1, <1>2, FS_Surjection

-----------------------------------------------------------------------------
(* The grid.                                                               *)

\* A scene whose cells are where the assumption about the constants has them.
IsScene(s) ==
  /\ s.w \in Nat /\ s.h \in Nat /\ s.robot \in Cells(s)
  /\ s.free \subseteq Cells(s) /\ s.blocked \subseteq Cells(s)

\* The map of a scene is finite.
LEMMA CellsAreFinite ==
  ASSUME NEW s, IsScene(s)
  PROVE  IsFiniteSet(Cells(s))
<1> DEFINE X == 0..(s.w - 1)
           Y == 0..(s.h - 1)
<1>1. IsFiniteSet(X) /\ IsFiniteSet(Y)
  <2>1. 0 \in Int /\ s.w - 1 \in Int /\ s.h - 1 \in Int
    BY DEF IsScene
  <2> QED
    BY <2>1, FS_Interval
<1> HIDE DEF X, Y
<1>2. IsFiniteSet(X \X Y)
  BY <1>1, FS_Product
<1>3. X \X Y = {<<x, y>> : x \in X, y \in Y}
  OBVIOUS
<1> QED
  BY <1>2, <1>3 DEF X, Y, Cells

\* Neighbourhood is symmetric, and a cell is its own neighbour.
LEMMA NearBothWays ==
  ASSUME NEW s, IsScene(s), NEW a \in Cells(s)
  PROVE  /\ a \in Near(s, a) /\ Near(s, a) \subseteq Cells(s)
         /\ \A b \in Cells(s) : b \in Near(s, a) <=> a \in Near(s, b)
<1>1. \A b \in Cells(s) : b[1] \in Int /\ b[2] \in Int
  BY DEF Cells, IsScene
<1>2. \A i, j \in Int : (i - j \in -1..1) <=> (j - i \in -1..1)
  OBVIOUS
<1>3. \A b \in Cells(s) : (b[1] - a[1] \in -1..1 /\ b[2] - a[2] \in -1..1)
                          <=> (a[1] - b[1] \in -1..1 /\ a[2] - b[2] \in -1..1)
  BY <1>1, <1>2
<1>4. a[1] - a[1] \in -1..1 /\ a[2] - a[2] \in -1..1
  BY <1>1
<1> QED
  BY <1>3, <1>4 DEF Near

\* for_each_neighbor meets exactly the cells at most one step away.
LEMMA NeighborsAreNear ==
  ASSUME NEW s, IsScene(s), NEW c \in Cells(s)
  PROVE  Neighbors(s, c) \in Seq(Near(s, c)) /\ ToSet(Neighbors(s, c)) = Near(s, c)
<1> DEFINE all == [i \in DOMAIN Offsets |-> <<c[1] + Offsets[i][1], c[2] + Offsets[i][2]>>]
<1>1. c[1] \in Int /\ c[2] \in Int
  BY DEF Cells, IsScene
<1>2. all \in Seq(Int \X Int)
  BY <1>1 DEF Offsets
<1>3. DOMAIN Offsets = 1..9 /\ Len(all) = 9
  BY DEF Offsets
<1>4. ToSet(all) = {all[i] : i \in 1..9}
  BY <1>2, <1>3, ElementsByIndex
<1>5. ASSUME NEW d \in Cells(s)
      PROVE  d \in ToSet(all) <=> d \in Near(s, c)
  <2>1. d = <<d[1], d[2]>> /\ d[1] \in Int /\ d[2] \in Int
    BY DEF Cells, IsScene
  <2> DEFINE dx == d[1] - c[1]
             dy == d[2] - c[2]
  <2>2. d \in Near(s, c) <=> dx \in -1..1 /\ dy \in -1..1
    BY DEF Near
  <2>3. ASSUME NEW i \in 1..9
        PROVE  d = all[i] <=> Offsets[i] = <<dx, dy>>
    <3>1. Offsets[i] = <<Offsets[i][1], Offsets[i][2]>> /\ Offsets[i][1] \in Int /\ Offsets[i][2] \in Int
      BY DEF Offsets
    <3>2. all[i] = <<c[1] + Offsets[i][1], c[2] + Offsets[i][2]>>
      BY <1>3
    <3> QED
      BY <1>1, <2>1, <3>1, <3>2
  <2>4. dx \in -1..1 /\ dy \in -1..1 <=> \E i \in 1..9 : Offsets[i] = <<dx, dy>>
    <3>1. \A p, q : p \in -1..1 /\ q \in -1..1 <=> \E i \in 1..9 : Offsets[i] = <<p, q>>
      BY DEF Offsets
    <3> QED
      BY <3>1
  <2> HIDE DEF all, dx, dy
  <2> QED
    BY <1>4, <2>2, <2>3, <2>4
<1> HIDE DEF all
<1>6. Near(s, c) \subseteq Cells(s)
  BY DEF Near
<1>7. Neighbors(s, c) = Only(all, Cells(s))
  BY DEF Neighbors, all
<1>8. /\ Only(all, Cells(s)) \in Seq(Int \X Int)
      /\ ToSet(Only(all, Cells(s))) = ToSet(all) \cap Cells(s)
  BY <1>2, OnlyFacts
<1>9. ToSet(all) \cap Cells(s) = Near(s, c)
  BY <1>5, <1>6
<1> QED
  BY <1>7, <1>8, <1>9, OfElements

-----------------------------------------------------------------------------
(* Reachability.                                                           *)

\* A set of cells of S that no neighbour in S leads out of.
ClosedIn(s, S, X) == \A c \in S : Near(s, c) \cap X # {} => c \in X

\* A set and the cells of S next to it.
Wider(s, S, X) == X \cup {c \in S : Near(s, c) \cap X # {}}

\* The rings of ReachableIn: each one adds the neighbours of the last.
LEMMA RingsUnfold ==
  ASSUME NEW s, NEW S, NEW start, Cardinality(S) \in Nat
  PROVE  \E f : /\ f \in [0..Cardinality(S) -> SUBSET S] /\ f[0] = start \cap S
                /\ ReachableIn(s, S, start) = f[Cardinality(S)]
                /\ \A n \in 1..Cardinality(S) :
                     f[n] = Wider(s, S, f[n - 1])
<1> DEFINE N == Cardinality(S)
           Step(f, n) == IF n = 0 THEN start \cap S ELSE Wider(s, S, f[n - 1])
           Rings(m) == {f \in [0..m -> SUBSET S] : \A n \in 0..m : f[n] = Step(f, n)}
           Good == {m \in Nat : Rings(m) # {}}
<1>1. 0 \in Good
  <2>1. [n \in 0..0 |-> start \cap S] \in Rings(0)
    OBVIOUS
  <2> QED BY <2>1
<1>2. ASSUME NEW m \in Nat, m \in Good
      PROVE  m + 1 \in Good
  <2>1. PICK f \in Rings(m) : TRUE
    <3> HIDE DEF Rings
    <3> QED BY <1>2
  <2> DEFINE next == Wider(s, S, f[m])
             g == [n \in 0..(m + 1) |-> IF n = m + 1 THEN next ELSE f[n]]
  <2>2. next \in SUBSET S
    BY <2>1 DEF Wider
  <2>3. g \in [0..(m + 1) -> SUBSET S]
    <3> HIDE DEF next
    <3> QED BY <2>1, <2>2
  <2>4. ASSUME NEW n \in 0..(m + 1)
        PROVE  g[n] = Step(g, n)
    <3>1. CASE n = m + 1
      BY <3>1
    <3>2. CASE n # m + 1
      <4>1. n \in 0..m /\ g[n] = f[n] /\ (n # 0 => g[n - 1] = f[n - 1])
        BY <3>2
      <4>2. f[n] = Step(f, n)
        BY <2>1, <4>1
      <4> QED BY <4>1, <4>2
    <3> QED BY <3>1, <3>2
  <2> HIDE DEF g, Step
  <2>5. g \in Rings(m + 1)
    BY <2>3, <2>4
  <2> QED BY <2>5
<1>3. Nat \subseteq Good
  <2> HIDE DEF Good
  <2> QED BY <1>1, <1>2, NatSetInduction
<1>4. PICK f \in Rings(N) : TRUE
  <2> HIDE DEF Rings
  <2> QED BY <1>3
<1>5. f = [n \in 0..N |-> Step(f, n)]
  <2> HIDE DEF Step
  <2> QED BY <1>4
<1> DEFINE ring == CHOOSE g : g = [n \in 0..N |-> Step(g, n)]
<1>6. ring = [n \in 0..N |-> Step(ring, n)]
  <2> HIDE DEF Step
  <2> QED BY <1>5
<1>7. ReachableIn(s, S, start) = ring[N]
  BY DEF ReachableIn, Wider
<1> HIDE DEF ring
<1>8. \A n \in 0..N : ring[n] = Step(ring, n)
  <2> HIDE DEF Step
  <2> QED BY <1>6
<1>9. \A X \in SUBSET S : Wider(s, S, X) \in SUBSET S
  BY DEF Wider
<1>10. \A n \in 0..N : ring[n] \in SUBSET S
  <2> DEFINE Typed == {n \in Nat : n <= N => ring[n] \in SUBSET S}
  <2>1. 0 \in Typed
    BY <1>8
  <2>2. ASSUME NEW n \in Nat, n \in Typed
        PROVE  n + 1 \in Typed
    <3>1. SUFFICES ASSUME n + 1 <= N PROVE ring[n + 1] \in SUBSET S
      OBVIOUS
    <3>2. ring[n] \in SUBSET S /\ n + 1 \in 0..N
      BY <2>2, <3>1
    <3>3. ring[n + 1] = Wider(s, S, ring[n])
      BY <1>8, <3>2
    <3> QED BY <1>9, <3>2, <3>3
  <2>3. Nat \subseteq Typed
    <3> HIDE DEF Typed
    <3> QED BY <2>1, <2>2, NatSetInduction
  <2> QED BY <2>3
<1>11. ring \in [0..N -> SUBSET S]
  BY <1>6, <1>10
<1>12. ring[0] = start \cap S
  BY <1>8
<1>13. \A n \in 1..N : ring[n] = Wider(s, S, ring[n - 1])
  <2>1. \A n \in 1..N : n \in 0..N /\ n # 0
    OBVIOUS
  <2> QED BY <1>8, <2>1
<1> QED BY <1>7, <1>11, <1>12, <1>13

\* What is reached in S from start: it holds start, no neighbour in S leads out
\* of it, and it is within every set that has both properties.
LEMMA ReachableFacts ==
  ASSUME NEW s, NEW S, IsFiniteSet(S), NEW start
  PROVE  /\ start \cap S \subseteq ReachableIn(s, S, start)
         /\ ReachableIn(s, S, start) \subseteq S
         /\ ClosedIn(s, S, ReachableIn(s, S, start))
         /\ \A T : start \cap S \subseteq T /\ ClosedIn(s, S, T)
                     => ReachableIn(s, S, start) \subseteq T
<1> DEFINE N == Cardinality(S)
<1>1. N \in Nat
  BY FS_CardinalityType
<1>2. PICK f : /\ f \in [0..N -> SUBSET S] /\ f[0] = start \cap S
               /\ ReachableIn(s, S, start) = f[N]
               /\ \A n \in 1..N : f[n] = Wider(s, S, f[n - 1])
  <2>1. PICK R : R = ReachableIn(s, S, start)
    OBVIOUS
  <2>2. \E f : /\ f \in [0..N -> SUBSET S] /\ f[0] = start \cap S
               /\ R = f[N]
               /\ \A n \in 1..N : f[n] = Wider(s, S, f[n - 1])
    BY <1>1, <2>1, RingsUnfold
  <2> QED
    BY <2>1, <2>2
<1>3. \A n \in Nat : n + 1 <= N =>
        n \in 0..N /\ f[n + 1] = Wider(s, S, f[n])
  <2> TAKE n \in Nat
  <2> HAVE n + 1 <= N
  <2>1. n + 1 \in 1..N /\ n + 1 - 1 = n /\ n \in 0..N
    BY <1>1
  <2> QED BY <1>2, <2>1
<1> DEFINE Fixed(X) == ClosedIn(s, S, X)
           Big == {n \in Nat : n <= N => /\ start \cap S \subseteq f[n]
                                         /\ Fixed(f[n]) \/ Cardinality(f[n]) >= n}
<1>4. 0 \in Big
  <2>1. f[0] \in SUBSET S
    BY <1>1, <1>2
  <2>2. Cardinality(f[0]) \in Nat
    BY <2>1, FS_Subset, FS_CardinalityType
  <2>3. Cardinality(f[0]) >= 0 /\ start \cap S \subseteq f[0]
    BY <1>2, <2>2
  <2> HIDE DEF Fixed
  <2> QED BY <2>3
<1>5. ASSUME NEW n \in Nat, n \in Big
      PROVE  n + 1 \in Big
  <2>1. SUFFICES ASSUME n + 1 <= N
                 PROVE  /\ start \cap S \subseteq f[n + 1]
                        /\ Fixed(f[n + 1]) \/ Cardinality(f[n + 1]) >= n + 1
    OBVIOUS
  <2>2. n \in 0..N /\ n + 1 \in 0..N
    BY <1>1, <2>1
  <2>3. f[n] \in SUBSET S /\ f[n + 1] \in SUBSET S
    BY <1>2, <2>2
  <2>4. f[n + 1] = Wider(s, S, f[n])
    BY <1>3, <2>1
  <2>5. start \cap S \subseteq f[n] /\ (Fixed(f[n]) \/ Cardinality(f[n]) >= n)
    BY <1>5, <2>2
  <2>6. CASE Fixed(f[n])
    <3>1. f[n + 1] = f[n]
      BY <2>3, <2>4, <2>6 DEF ClosedIn, Wider
    <3> QED BY <2>5, <2>6, <3>1
  <2>7. CASE ~Fixed(f[n])
    <3>1. f[n] \subseteq f[n + 1] /\ f[n + 1] # f[n]
      BY <2>4, <2>7 DEF ClosedIn, Wider
    <3>2. IsFiniteSet(f[n + 1])
      BY <2>3, FS_Subset
    <3>3. Cardinality(f[n]) <= Cardinality(f[n + 1]) /\ Cardinality(f[n]) # Cardinality(f[n + 1])
      BY <3>1, <3>2, FS_Subset
    <3>4. Cardinality(f[n]) \in Nat /\ Cardinality(f[n + 1]) \in Nat
      BY <2>3, FS_Subset, FS_CardinalityType
    <3>5. Cardinality(f[n]) >= n
      BY <2>5, <2>7
    <3>6. Cardinality(f[n + 1]) >= n + 1
      BY <3>3, <3>4, <3>5
    <3> QED BY <2>5, <3>1, <3>6
  <2> QED BY <2>6, <2>7
<1>6. N \in Big
  <2> HIDE DEF Big
  <2>1. Nat \subseteq Big
    BY <1>4, <1>5, NatSetInduction
  <2> QED BY <1>1, <2>1
<1>7. f[N] \in SUBSET S
  BY <1>1, <1>2
<1>8. Fixed(f[N])
  <2>1. CASE Cardinality(f[N]) >= N
    <3>1. Cardinality(f[N]) = N
      BY <1>1, <1>7, <2>1, FS_Subset, FS_CardinalityType
    <3>2. f[N] = S
      BY <1>7, <3>1, FS_Subset
    <3> QED BY <3>2 DEF ClosedIn
  <2> QED BY <1>1, <1>6, <2>1
<1>9. ASSUME NEW T, start \cap S \subseteq T, ClosedIn(s, S, T)
      PROVE  f[N] \subseteq T
  <2> DEFINE In == {n \in Nat : n <= N => f[n] \subseteq T}
  <2>1. 0 \in In
    BY <1>2, <1>9
  <2>2. ASSUME NEW n \in Nat, n \in In
        PROVE  n + 1 \in In
    <3>1. SUFFICES ASSUME n + 1 <= N PROVE f[n + 1] \subseteq T
      OBVIOUS
    <3>2. f[n] \subseteq T
      BY <1>1, <2>2, <3>1
    <3>3. f[n + 1] = Wider(s, S, f[n])
      BY <1>3, <3>1
    <3> QED BY <1>9, <3>2, <3>3 DEF ClosedIn, Wider
  <2>3. Nat \subseteq In
    <3> HIDE DEF In
    <3> QED BY <2>1, <2>2, NatSetInduction
  <2> QED BY <1>1, <2>3
<1>10. start \cap S \subseteq f[N]
  BY <1>1, <1>6
<1> HIDE DEF N
<1> QED BY <1>2, <1>7, <1>8, <1>9, <1>10

\* The connected frontier of a frontier cell is that of each of its cells.
LEMMA ComponentFacts ==
  ASSUME NEW s, IsScene(s), NEW c \in FrontierCells(s)
  PROVE  /\ c \in Component(s, c) /\ Component(s, c) \subseteq FrontierCells(s)
         /\ ClosedIn(s, FrontierCells(s), Component(s, c))
         /\ \A d \in Component(s, c) : Component(s, d) = Component(s, c)
<1> DEFINE F == FrontierCells(s)
<1>1. F \subseteq Cells(s)
  BY DEF FrontierCells
<1>2. IsFiniteSet(F)
  BY <1>1, CellsAreFinite, FS_Subset
<1> HIDE DEF F
<1>3. \A d \in F : /\ d \in Component(s, d) /\ Component(s, d) \subseteq F
                    /\ ClosedIn(s, F, Component(s, d))
                    /\ \A T : d \in T /\ ClosedIn(s, F, T) => Component(s, d) \subseteq T
  <2> TAKE d \in F
  <2>1. Component(s, d) = ReachableIn(s, F, {d}) /\ {d} \cap F = {d}
    BY DEF Component, F
  <2> QED
    BY <1>2, <2>1, ReachableFacts
<1>4. \A d \in F : \A e \in Component(s, d) : Component(s, e) \subseteq Component(s, d)
  BY <1>3
<1>5. ASSUME NEW d \in Component(s, c)
      PROVE  Component(s, c) = Component(s, d)
  <2> DEFINE Back == {e \in F : c \in Component(s, e)}
  <2>1. c \in F /\ d \in F
    BY <1>3 DEF F
  <2>2. ASSUME NEW x \in F, Near(s, x) \cap Back # {}
        PROVE  x \in Back
    <3>1. PICK e \in Near(s, x) : e \in F /\ c \in Component(s, e)
      BY <2>2
    <3>2. x \in Near(s, e)
      BY <1>1, <3>1, NearBothWays
    <3>3. e \in Component(s, x)
      <4>1. x \in Component(s, x) /\ ClosedIn(s, F, Component(s, x))
        BY <1>3
      <4> QED
        BY <3>1, <3>2, <4>1 DEF ClosedIn
    <3> QED
      BY <1>4, <3>1, <3>3
  <2>3. c \in Back /\ ClosedIn(s, F, Back)
    BY <1>3, <2>1, <2>2 DEF ClosedIn
  <2>4. Component(s, c) \subseteq Back
    BY <1>3, <2>1, <2>3
  <2>5. c \in Component(s, d)
    BY <2>4
  <2> QED
    BY <1>4, <2>1, <2>5
<1>6. c \in F
  BY DEF F
<1> QED
  BY <1>3, <1>5, <1>6 DEF F

\* A part of a connected frontier that holds one cell and that nothing leads out
\* of is all of it.
LEMMA WholeComponent ==
  ASSUME NEW s, IsScene(s), NEW c \in FrontierCells(s), NEW X,
         c \in X, X \subseteq Component(s, c), ClosedIn(s, FrontierCells(s), X)
  PROVE  X = Component(s, c)
<1> DEFINE F == FrontierCells(s)
<1>1. IsFiniteSet(F) /\ {c} \cap F \subseteq X
  BY CellsAreFinite, FS_Subset DEF FrontierCells
<1>2. Component(s, c) = ReachableIn(s, F, {c})
  BY DEF Component
<1>3. ClosedIn(s, F, X)
  OBVIOUS
<1> HIDE DEF F
<1> QED
  BY <1>1, <1>2, <1>3, ReachableFacts

-----------------------------------------------------------------------------
(* The types of the search.                                                *)

SearchTypeOK ==
  /\ scene \in Scenes
  /\ phase \in {"recover", "map", "cluster", "done"}
  /\ queue \in Seq(Cells(scene)) /\ growing \in Seq(Cells(scene))
  /\ cluster \in Seq(Cells(scene)) /\ at \in Cells(scene)
  /\ open \subseteq Cells(scene) /\ closed \subseteq Cells(scene)
  /\ frontOpen \subseteq Cells(scene) /\ frontDone \subseteq Cells(scene)
  /\ \E T : found \in Seq(T)
  /\ phase = "recover" => queue # <<>>
  /\ phase = "cluster" => queue # <<>> /\ Head(queue) = at

\* The scene at hand is one of the constants.
LEMMA SceneIsScene ==
  ASSUME scene \in Scenes
  PROVE  IsScene(scene)
BY SearchAssumption DEF IsScene

\* The neighbours that a step keeps, by their set.
LEMMA KeptNeighbors ==
  ASSUME scene \in Scenes, NEW c \in Cells(scene), NEW S, S \subseteq Cells(scene)
  PROVE  /\ Only(Neighbors(scene, c), S) \in Seq(Cells(scene))
         /\ ToSet(Only(Neighbors(scene, c), S)) = Near(scene, c) \cap S
<1>1. Neighbors(scene, c) \in Seq(Near(scene, c)) /\ ToSet(Neighbors(scene, c)) = Near(scene, c)
  BY SceneIsScene, NeighborsAreNear
<1>2. /\ Only(Neighbors(scene, c), S) \in Seq(Near(scene, c))
      /\ ToSet(Only(Neighbors(scene, c), S)) = Near(scene, c) \cap S
  BY <1>1, OnlyFacts
<1> QED
  BY <1>2, OfElements

\* What the map queue takes on at p.
Fresh(p, done) ==
  {n \in Near(scene, p) : n \notin open \cup done /\ Near(scene, n) \cap scene.free # {}}

\* The pass over p, by the sets it changes.
LEMMA ExpandSets ==
  ASSUME SearchTypeOK, queue # <<>>, NEW p \in Cells(scene), NEW done, done \subseteq Cells(scene),
         CloseAndExpand(p, done)
  PROVE  /\ queue' \in Seq(Cells(scene)) /\ open' \subseteq Cells(scene)
         /\ closed' \subseteq Cells(scene)
         /\ ToSet(queue) = {Head(queue)} \cup ToSet(Tail(queue))
         /\ ToSet(queue') = ToSet(Tail(queue)) \cup Fresh(p, done)
         /\ open' = open \cup Fresh(p, done) /\ closed' = done \cup {p}
<1> DEFINE C == Cells(scene)
           new == Unvisited(p, done)
           S == {n \in C \ (open \cup done) : Near(scene, n) \cap scene.free # {}}
<1>1. scene \in Scenes /\ queue \in Seq(C) /\ open \subseteq C
  BY DEF SearchTypeOK
<1>2. Near(scene, p) \subseteq C
  BY DEF Near
<1>3. new = Only(Neighbors(scene, p), S) /\ S \subseteq C /\ Near(scene, p) \cap S = Fresh(p, done)
  BY <1>2 DEF Unvisited, Fresh
<1>4. new \in Seq(C) /\ ToSet(new) = Fresh(p, done)
  <2> HIDE DEF S, new
  <2> QED
    BY <1>1, <1>3, KeptNeighbors
<1>5. queue' = Tail(queue) \o new /\ open' = open \cup ToSet(new) /\ closed' = done \cup {p}
  BY DEF CloseAndExpand
<1>6. Tail(queue) \in Seq(C) /\ ToSet(queue) = {Head(queue)} \cup ToSet(Tail(queue))
  BY <1>1, TailElements
<1> HIDE DEF new, S
<1>7. queue' \in Seq(C) /\ ToSet(queue') = ToSet(Tail(queue)) \cup Fresh(p, done)
  <2> HIDE DEF C
  <2> DEFINE rest == Tail(queue)
  <2>2. rest \in Seq(C) /\ new \in Seq(C)
    BY <1>4, <1>6
  <2> HIDE DEF rest
  <2>1. rest \o new \in Seq(C) /\ ToSet(rest \o new) = ToSet(rest) \cup ToSet(new)
    BY <2>2, ConcatElements
  <2> QED
    BY <1>4, <1>5, <2>1 DEF rest
<1>8. Fresh(p, done) \subseteq C
  BY <1>2 DEF Fresh
<1> QED
  BY <1>1, <1>4, <1>5, <1>6, <1>7, <1>8

\* What the frontier queue takes on at c.
FreshFrontier(c) == Near(scene, c) \ (frontOpen \cup frontDone \cup closed)

\* A step of the frontier queue passes over a cell, meets one that is no frontier,
\* or adds one to the cluster.
LEMMA GrowSets ==
  ASSUME SearchTypeOK, Grow
  PROVE  LET c == Head(growing)
         IN /\ c \in Cells(scene) /\ growing # <<>> /\ phase = "cluster"
            /\ UNCHANGED <<scene, phase, queue, open, closed, at, found>>
            /\ ToSet(growing) = {c} \cup ToSet(Tail(growing))
            /\ growing' \in Seq(Cells(scene))
            /\ \/ /\ c \in closed \cup frontDone
                  /\ growing' = Tail(growing) /\ UNCHANGED <<cluster, frontOpen, frontDone>>
               \/ /\ c \notin closed \cup frontDone /\ c \notin FrontierCells(scene)
                  /\ growing' = Tail(growing) /\ frontDone' = frontDone \cup {c}
                  /\ UNCHANGED <<cluster, frontOpen>>
               \/ /\ c \notin closed \cup frontDone /\ c \in FrontierCells(scene)
                  /\ frontDone' = frontDone \cup {c}
                  /\ cluster' \in Seq(Cells(scene)) /\ ToSet(cluster') = ToSet(cluster) \cup {c}
                  /\ ToSet(growing') = ToSet(Tail(growing)) \cup FreshFrontier(c)
                  /\ frontOpen' = frontOpen \cup FreshFrontier(c)
<1> DEFINE C == Cells(scene)
           c == Head(growing)
           S == C \ (frontOpen \cup frontDone \cup closed)
           new == Only(Neighbors(scene, c), S)
<1>1. scene \in Scenes /\ growing \in Seq(C) /\ cluster \in Seq(C) /\ growing # <<>>
  BY DEF SearchTypeOK, Grow
<1>2. c \in C /\ Tail(growing) \in Seq(C) /\ ToSet(growing) = {c} \cup ToSet(Tail(growing))
  BY <1>1, TailElements
<1>3. Near(scene, c) \cap S = FreshFrontier(c) /\ S \subseteq C
  BY DEF Near, FreshFrontier
<1>4. new \in Seq(C) /\ ToSet(new) = FreshFrontier(c)
  <2> HIDE DEF S, c
  <2> QED
    BY <1>1, <1>2, <1>3, KeptNeighbors
<1>5. c \in FrontierCells(scene) <=> IsFrontier(scene, c)
  BY <1>2 DEF FrontierCells
<1>6. /\ phase = "cluster" /\ UNCHANGED <<scene, phase, queue, open, closed, at, found>>
      /\ IF c \in closed \cup frontDone
         THEN growing' = Tail(growing) /\ UNCHANGED <<cluster, frontOpen, frontDone>>
         ELSE /\ frontDone' = frontDone \cup {c}
              /\ IF IsFrontier(scene, c)
                 THEN /\ cluster' = Append(cluster, c) /\ growing' = Tail(growing) \o new
                      /\ frontOpen' = frontOpen \cup ToSet(new)
                 ELSE growing' = Tail(growing) /\ UNCHANGED <<cluster, frontOpen>>
  BY DEF Grow
<1>7. Append(cluster, c) \in Seq(C) /\ ToSet(Append(cluster, c)) = ToSet(cluster) \cup {c}
  BY <1>1, <1>2, AppendElements
<1> HIDE DEF c, S, new
<1>8. /\ Tail(growing) \o new \in Seq(C)
      /\ ToSet(Tail(growing) \o new) = ToSet(Tail(growing)) \cup FreshFrontier(c)
  <2> HIDE DEF C
  <2> DEFINE rest == Tail(growing)
  <2>2. rest \in Seq(C) /\ new \in Seq(C)
    BY <1>4, <1>2
  <2> HIDE DEF rest
  <2>1. rest \o new \in Seq(C) /\ ToSet(rest \o new) = ToSet(rest) \cup ToSet(new)
    BY <2>2, ConcatElements
  <2> QED
    BY <1>4, <2>1 DEF rest
<1>9. CASE c \in closed \cup frontDone
  BY <1>1, <1>2, <1>6, <1>9 DEF c
<1>10. CASE c \notin closed \cup frontDone /\ ~IsFrontier(scene, c)
  BY <1>1, <1>2, <1>5, <1>6, <1>10 DEF c
<1>11. CASE c \notin closed \cup frontDone /\ IsFrontier(scene, c)
  BY <1>1, <1>2, <1>4, <1>5, <1>6, <1>7, <1>8, <1>11 DEF c
<1> QED
  BY <1>9, <1>10, <1>11

\* A step of find_free starts the search at a free cell or at the robot, or goes on.
LEMMA RecoverSets ==
  ASSUME SearchTypeOK, Recover
  PROVE  /\ Head(queue) \in Cells(scene) /\ queue # <<>>
         /\ UNCHANGED <<scene, frontOpen, frontDone, at, growing, cluster, found>>
         /\ \/ Head(queue) \in scene.free /\ StartFrom(Head(queue), closed)
            \/ /\ Head(queue) \notin scene.free
               /\ \E visited \in SUBSET Cells(scene) : StartFrom(scene.robot, visited)
            \/ /\ Head(queue) \notin scene.free
               /\ queue' \in Seq(Cells(scene)) /\ queue' # <<>> /\ closed' \subseteq Cells(scene)
               /\ UNCHANGED <<phase, open>>
<1> DEFINE C == Cells(scene)
           c == Head(queue)
           S == C \ closed
           new == Only(Neighbors(scene, c), S)
           rest == Tail(queue)
<1>1. scene \in Scenes /\ queue \in Seq(C) /\ queue # <<>> /\ closed \subseteq C
  BY DEF SearchTypeOK, Recover
<1>2. c \in C /\ rest \in Seq(C)
  BY <1>1, TailElements
<1>3. new \in Seq(C) /\ ToSet(new) \subseteq C
  <2>1. S \subseteq C
    OBVIOUS
  <2> HIDE DEF S, c
  <2> QED
    BY <1>1, <1>2, <2>1, KeptNeighbors, ElementsByIndex
<1>4. \/ c \in scene.free /\ StartFrom(c, closed)
      \/ c \notin scene.free /\ StartFrom(scene.robot, closed \cup ToSet(new))
      \/ /\ c \notin scene.free /\ rest \o new # <<>>
         /\ queue' = rest \o new /\ closed' = closed \cup ToSet(new)
         /\ UNCHANGED <<scene, phase, open, frontOpen, frontDone, at, growing, cluster, found>>
  BY DEF Recover
<1> HIDE DEF S, new, rest
<1>5. rest \o new \in Seq(C)
  <2> HIDE DEF C
  <2> QED
    BY <1>2, <1>3, ConcatElements
<1>6. closed \cup ToSet(new) \in SUBSET C
  BY <1>1, <1>3
<1>7. CASE c \in scene.free /\ StartFrom(c, closed)
  BY <1>1, <1>2, <1>7 DEF StartFrom
<1>8. CASE c \notin scene.free /\ StartFrom(scene.robot, closed \cup ToSet(new))
  <2>1. UNCHANGED <<scene, frontOpen, frontDone, at, growing, cluster, found>>
    BY <1>8 DEF StartFrom
  <2> QED
    BY <1>1, <1>2, <1>6, <1>8, <2>1
<1>9. CASE /\ c \notin scene.free /\ rest \o new # <<>>
           /\ queue' = rest \o new /\ closed' = closed \cup ToSet(new)
           /\ UNCHANGED <<scene, phase, open, frontOpen, frontDone, at, growing, cluster, found>>
  BY <1>1, <1>2, <1>5, <1>6, <1>9
<1> QED
  BY <1>4, <1>7, <1>8, <1>9

\* The end of a cluster: what the flags become, and the candidate, if there is one.
LEMMA EndClusterSets ==
  ASSUME SearchTypeOK, EndCluster, queue # <<>>
  PROVE  /\ phase = "cluster" /\ phase' = "map" /\ growing = <<>>
         /\ UNCHANGED <<scene, frontOpen, frontDone, at, growing, cluster>>
         /\ queue' \in Seq(Cells(scene)) /\ open' \subseteq Cells(scene)
         /\ closed' \subseteq Cells(scene)
         /\ ToSet(queue) = {Head(queue)} \cup ToSet(Tail(queue))
         /\ ToSet(queue') = ToSet(Tail(queue)) \cup Fresh(at, closed \cup ToSet(cluster))
         /\ open' = open \cup Fresh(at, closed \cup ToSet(cluster))
         /\ closed' = closed \cup ToSet(cluster) \cup {at}
<1> DEFINE done == closed \cup ToSet(cluster)
<1>1. at \in Cells(scene) /\ done \subseteq Cells(scene)
  <2>1. closed \subseteq Cells(scene) /\ cluster \in Seq(Cells(scene)) /\ at \in Cells(scene)
    BY DEF SearchTypeOK
  <2> QED
    BY <2>1, ElementsByIndex
<1>2. /\ phase = "cluster" /\ phase' = "map" /\ growing = <<>> /\ CloseAndExpand(at, done)
      /\ UNCHANGED <<scene, frontOpen, frontDone, at, growing, cluster>>
  BY DEF EndCluster
<1> HIDE DEF done
<1>3. /\ queue' \in Seq(Cells(scene)) /\ open' \subseteq Cells(scene)
      /\ closed' \subseteq Cells(scene)
      /\ ToSet(queue) = {Head(queue)} \cup ToSet(Tail(queue))
      /\ ToSet(queue') = ToSet(Tail(queue)) \cup Fresh(at, done)
      /\ open' = open \cup Fresh(at, done) /\ closed' = done \cup {at}
  BY <1>1, <1>2, ExpandSets
<1> QED
  BY <1>2, <1>3 DEF done

\* found only grows, by the cells of the cluster.
LEMMA FoundGrows ==
  ASSUME SearchTypeOK, EndCluster
  PROVE  /\ \E T : found' \in Seq(T)
         /\ \/ found' = found /\ ~HasCandidate(scene, cluster)
            \/ /\ HasCandidate(scene, cluster)
               /\ Len(found) \in Nat /\ DOMAIN found = 1..Len(found)
               /\ DOMAIN found' = 1..(Len(found) + 1)
               /\ \A i \in DOMAIN found : found'[i] = found[i]
               /\ found'[Len(found) + 1].cells = ToSet(cluster)
               /\ found'[Len(found) + 1].size \in Nat
<1>1. PICK T : found \in Seq(T)
  BY DEF SearchTypeOK
<1>2. found' = IF HasCandidate(scene, cluster)
               THEN Append(found, Candidate(scene, cluster)) ELSE found
  BY DEF EndCluster
<1>3. CASE ~HasCandidate(scene, cluster)
  BY <1>1, <1>2, <1>3
<1>4. CASE HasCandidate(scene, cluster)
  <2> DEFINE e == Candidate(scene, cluster)
  <2>1. e.cells = ToSet(cluster) /\ e.size \in Nat
    <3>1. e.cells = ToSet(cluster) /\ e.size = Len(cluster)
      BY DEF Candidate
    <3>2. Len(cluster) \in Nat
      BY DEF SearchTypeOK
    <3> QED
      BY <3>1, <3>2
  <2>2. found' = Append(found, e)
    BY <1>2, <1>4
  <2> HIDE DEF e
  <2>3. /\ Append(found, e) \in Seq(T \cup {e})
        /\ DOMAIN Append(found, e) = 1..(Len(found) + 1) /\ DOMAIN found = 1..Len(found)
        /\ \A i \in 1..Len(found) : Append(found, e)[i] = found[i]
        /\ Append(found, e)[Len(found) + 1] = e
    BY <1>1, AppendMore
  <2>4. Len(found) \in Nat
    BY <1>1
  <2> QED
    BY <1>4, <2>1, <2>2, <2>3, <2>4
<1> QED
  BY <1>3, <1>4

\* The search starts with the right types, ...
LEMMA TypesInit ==
  ASSUME SearchInit
  PROVE  SearchTypeOK
<1>1. scene \in Scenes /\ scene.robot \in Cells(scene)
  BY SceneIsScene DEF SearchInit, IsScene
<1>2. <<scene.robot>> \in Seq(Cells(scene)) /\ <<>> \in Seq(Cells(scene)) /\ <<scene.robot>> # <<>>
  BY <1>1
<1>3. \E T : found \in Seq(T)
  BY <1>2 DEF SearchInit
<1> QED
  BY <1>1, <1>2, <1>3 DEF SearchInit, SearchTypeOK

\* ... and every step keeps them.
LEMMA TypesKept ==
  ASSUME SearchTypeOK, SearchNext
  PROVE  SearchTypeOK'
<1> DEFINE C == Cells(scene)
<1>1. /\ scene \in Scenes /\ queue \in Seq(C) /\ growing \in Seq(C) /\ cluster \in Seq(C) /\ at \in C
      /\ open \subseteq C /\ closed \subseteq C /\ frontOpen \subseteq C /\ frontDone \subseteq C
  BY DEF SearchTypeOK
<1>2. IsScene(scene) /\ scene.robot \in C
  BY <1>1, SceneIsScene DEF IsScene
<1>3. \E T : found \in Seq(T)
  BY DEF SearchTypeOK
<1>4. CASE Recover
  <2>1. \A c \in C : <<c>> \in Seq(C)
    OBVIOUS
  <2>2. ASSUME NEW c \in C, NEW visited \in SUBSET C, StartFrom(c, visited)
        PROVE  SearchTypeOK'
    BY <1>1, <1>3, <2>1, <2>2 DEF StartFrom, SearchTypeOK
  <2>3. phase = "recover"
    BY <1>4 DEF Recover
  <2> QED
    BY <1>1, <1>2, <1>3, <1>4, <2>2, <2>3, RecoverSets DEF SearchTypeOK
<1>5. CASE SkipClosed
  <2>1. Tail(queue) \in Seq(C)
    BY <1>1, <1>5, TailElements DEF SkipClosed
  <2> QED
    BY <1>1, <1>3, <1>5, <2>1 DEF SkipClosed, SearchTypeOK
<1>6. CASE Walk
  <2>1. queue # <<>> /\ Head(queue) \in C
    BY <1>1, <1>6, TailElements DEF Walk
  <2>2. CloseAndExpand(Head(queue), closed)
    BY <1>6 DEF Walk
  <2>3. queue' \in Seq(C) /\ open' \subseteq C /\ closed' \subseteq C
    BY <1>1, <2>1, <2>2, ExpandSets
  <2> QED
    BY <1>1, <1>3, <1>6, <2>3 DEF Walk, SearchTypeOK
<1>7. CASE BeginCluster
  <2>1. queue # <<>> /\ Head(queue) \in C
    BY <1>1, <1>7, TailElements DEF BeginCluster
  <2>2. <<Head(queue)>> \in Seq(C) /\ <<>> \in Seq(C)
    BY <2>1
  <2> QED
    BY <1>1, <1>3, <1>7, <2>1, <2>2 DEF BeginCluster, SearchTypeOK
<1>8. CASE Grow
  <2>1. /\ Head(growing) \in C /\ phase = "cluster"
        /\ UNCHANGED <<scene, phase, queue, open, closed, at, found>> /\ growing' \in Seq(C)
    BY <1>8, GrowSets
  <2>2. /\ cluster' \in Seq(C)
        /\ frontDone' \subseteq C /\ frontOpen' \subseteq C
    <3>1. FreshFrontier(Head(growing)) \subseteq C
      BY DEF FreshFrontier, Near
    <3> QED
      BY <1>1, <1>8, <2>1, <3>1, GrowSets
  <2> QED
    BY <1>1, <1>3, <2>1, <2>2 DEF SearchTypeOK
<1>9. CASE EndCluster
  <2>1. queue # <<>>
    BY <1>9 DEF EndCluster, SearchTypeOK
  <2>2. /\ phase' = "map" /\ UNCHANGED <<scene, frontOpen, frontDone, at, growing, cluster>>
        /\ queue' \in Seq(C) /\ open' \subseteq C /\ closed' \subseteq C
    BY <1>9, <2>1, EndClusterSets
  <2>3. \E T : found' \in Seq(T)
    BY <1>9, FoundGrows
  <2> QED
    BY <1>1, <2>2, <2>3 DEF SearchTypeOK
<1>10. CASE EndSearch
  BY <1>1, <1>3, <1>10 DEF EndSearch, SearchTypeOK
<1> QED
  BY <1>4, <1>5, <1>6, <1>7, <1>8, <1>9, <1>10 DEF SearchNext

-----------------------------------------------------------------------------
(* No cell is in two clusters.                                             *)

\* A cell in a cluster carries FrontierClosed, and a cell with it joins no cluster.
ClustersApart ==
  /\ \A i \in DOMAIN found : found[i].cells \subseteq frontDone
  /\ phase = "cluster" =>
       /\ ToSet(cluster) \subseteq frontDone
       /\ \A i \in DOMAIN found : found[i].cells \cap ToSet(cluster) = {}
  /\ \A i, j \in DOMAIN found : i # j => found[i].cells \cap found[j].cells = {}

\* Every step keeps the clusters apart.
LEMMA ApartKept ==
  ASSUME SearchTypeOK, ClustersApart, SearchNext
  PROVE  ClustersApart'
<1>1. CASE Recover
  <2>1. UNCHANGED <<frontDone, found>> /\ phase = "recover"
    BY <1>1, RecoverSets DEF Recover
  <2>2. phase' # "cluster"
    BY <1>1, <2>1, RecoverSets DEF StartFrom
  <2> QED
    BY <2>1, <2>2 DEF ClustersApart
<1>2. CASE SkipClosed \/ Walk \/ EndSearch
  BY <1>2 DEF SkipClosed, Walk, EndSearch, ClustersApart
<1>3. CASE BeginCluster
  <2>1. ToSet(<<>>) = {}
    BY DEF ToSet
  <2> QED
    BY <1>3, <2>1 DEF BeginCluster, ClustersApart
<1>4. CASE Grow
  <2>1. phase = "cluster" /\ UNCHANGED <<phase, found>>
    BY <1>4, GrowSets
  <2>2. \/ frontDone' = frontDone /\ cluster' = cluster
        \/ frontDone' = frontDone \cup {Head(growing)} /\ cluster' = cluster
        \/ /\ Head(growing) \notin frontDone
           /\ frontDone' = frontDone \cup {Head(growing)}
           /\ ToSet(cluster') = ToSet(cluster) \cup {Head(growing)}
    BY <1>4, GrowSets
  <2> QED
    BY <2>1, <2>2 DEF ClustersApart
<1>5. CASE EndCluster
  <2>1. phase = "cluster" /\ phase' = "map" /\ frontDone' = frontDone
    BY <1>5 DEF EndCluster
  <2>2. CASE found' = found
    BY <2>1, <2>2 DEF ClustersApart
  <2>3. CASE /\ Len(found) \in Nat /\ DOMAIN found = 1..Len(found)
             /\ DOMAIN found' = 1..(Len(found) + 1)
             /\ \A i \in DOMAIN found : found'[i] = found[i]
             /\ found'[Len(found) + 1].cells = ToSet(cluster)
    <3>1. \A i \in DOMAIN found' : i \in DOMAIN found \/ i = Len(found) + 1
      BY <2>3
    <3> DEFINE last == Len(found) + 1
    <3> HIDE DEF last
    <3>2. \A i \in DOMAIN found' : \/ i \in DOMAIN found /\ found'[i] = found[i]
                                   \/ i = last
      BY <2>3, <3>1 DEF last
    <3>3. found'[last].cells = ToSet(cluster)
      BY <2>3 DEF last
    <3> QED
      BY <2>1, <3>2, <3>3 DEF ClustersApart
  <2> QED
    BY <1>5, <2>2, <2>3, FoundGrows
<1> QED
  BY <1>1, <1>2, <1>3, <1>4, <1>5 DEF SearchNext

-----------------------------------------------------------------------------
(* A cluster is a whole connected frontier.                                *)

\* From a free cell: no frontier is closed in part; the flags of the frontier
\* queue are those of cells that are closed, in the cluster or in the queue; and
\* what leads out of the cluster at hand is in the queue.
ClustersWhole ==
  LET F == FrontierCells(scene)
  IN /\ phase = "recover" => queue = <<scene.robot>> /\ closed = {}
     /\ ClosedIn(scene, F, closed \cap F)
     /\ frontDone \cap F \subseteq closed \cup ToSet(cluster)
     /\ frontOpen \subseteq closed \cup frontDone \cup ToSet(growing)
     /\ phase # "cluster" => growing = <<>> /\ ToSet(cluster) \subseteq closed
     /\ phase = "cluster" =>
          /\ at \in F \ closed /\ at \in ToSet(cluster) \cup ToSet(growing)
          /\ ToSet(cluster) \cap closed = {}
          /\ ToSet(cluster) \cup (ToSet(growing) \cap F) \subseteq Component(scene, at)
          /\ \A c \in ToSet(cluster) :
               Near(scene, c) \cap F \subseteq closed \cup ToSet(cluster) \cup ToSet(growing)
     /\ \A i \in DOMAIN found : \A c \in found[i].cells : found[i].cells = Component(scene, c)

\* At the end of a cluster it is the connected frontier of the cell it began at.
LEMMA ClusterIsComponent ==
  ASSUME SearchTypeOK, ClustersWhole, phase = "cluster", growing = <<>>
  PROVE  /\ at \in FrontierCells(scene) \ closed
         /\ ToSet(cluster) = Component(scene, at)
         /\ ClosedIn(scene, FrontierCells(scene), ToSet(cluster))
<1> DEFINE F == FrontierCells(scene)
           CL == ToSet(cluster)
<1>1. IsScene(scene) /\ F \subseteq Cells(scene)
  BY SceneIsScene DEF SearchTypeOK, FrontierCells
<1>2. ToSet(growing) = {}
  BY DEF ToSet
<1>3. /\ at \in F \ closed /\ at \in CL /\ CL \cap closed = {} /\ CL \subseteq Component(scene, at)
      /\ \A c \in CL : Near(scene, c) \cap F \subseteq closed \cup CL
      /\ ClosedIn(scene, F, closed \cap F)
  BY <1>2 DEF ClustersWhole
<1>4. CL \subseteq F
  BY <1>1, <1>3, ComponentFacts
<1> HIDE DEF F, CL
<1>5. ASSUME NEW c \in F, Near(scene, c) \cap CL # {}
      PROVE  c \in CL
  <2>1. PICK d \in CL : d \in Near(scene, c)
    BY <1>5
  <2>2. c \in Near(scene, d) /\ d \in F /\ d \notin closed
    BY <1>1, <1>3, <1>4, <2>1, NearBothWays
  <2>3. c \in closed \cup CL
    BY <1>3, <2>1, <2>2
  <2>4. c \notin closed
    BY <1>3, <2>1, <2>2 DEF ClosedIn
  <2> QED
    BY <2>3, <2>4
<1>6. ClosedIn(scene, F, CL)
  BY <1>5 DEF ClosedIn
<1>7. CL = Component(scene, at)
  BY <1>1, <1>3, <1>6, WholeComponent DEF F
<1> QED
  BY <1>3, <1>6, <1>7 DEF F, CL

\* A free cell is no frontier.
LEMMA FreeIsNoFrontier == FrontierCells(scene) \cap scene.free = {}
BY DEF FrontierCells, IsFrontier

\* From a free robot every step keeps the clusters whole.
LEMMA WholeKept ==
  ASSUME SearchTypeOK, ClustersWhole, scene.robot \in scene.free, SearchNext
  PROVE  ClustersWhole'
<1> DEFINE F == FrontierCells(scene)
<1>1. IsScene(scene) /\ F \subseteq Cells(scene)
  BY SceneIsScene DEF SearchTypeOK, FrontierCells
<1>2. CASE Recover
  <2>1. phase = "recover" /\ queue = <<scene.robot>> /\ closed = {}
    BY <1>2 DEF Recover, ClustersWhole
  <2>2. Head(queue) = scene.robot
    BY <2>1
  <2>3. /\ phase' = "map" /\ closed' = {}
        /\ UNCHANGED <<scene, frontOpen, frontDone, at, growing, cluster, found>>
    BY <1>2, <2>1, <2>2, RecoverSets DEF StartFrom
  <2> QED
    BY <2>1, <2>3 DEF ClustersWhole
<1>3. CASE SkipClosed \/ EndSearch
  BY <1>3 DEF SkipClosed, EndSearch, ClustersWhole
<1>4. CASE Walk
  <2>1. queue # <<>> /\ Head(queue) \in Cells(scene) /\ phase = "map"
    BY <1>4, TailElements DEF Walk, SearchTypeOK
  <2>2. Head(queue) \notin F
    BY <1>4 DEF Walk, FrontierCells
  <2>3. closed' = closed \cup {Head(queue)}
    BY <1>4 DEF Walk, CloseAndExpand
  <2>4. UNCHANGED <<scene, phase, frontOpen, frontDone, at, growing, cluster, found>>
    BY <1>4 DEF Walk
  <2>5. closed' \cap F = closed \cap F /\ closed \subseteq closed'
    BY <2>2, <2>3
  <2> HIDE DEF F
  <2> QED
    BY <2>1, <2>4, <2>5 DEF ClustersWhole, F
<1>5. CASE BeginCluster
  <2> DEFINE c == Head(queue)
  <2>1. c \in F \ closed /\ phase = "map"
    <3>1. queue # <<>> /\ c \in Cells(scene)
      BY <1>5, TailElements DEF BeginCluster, SearchTypeOK
    <3> QED
      BY <1>5, <3>1 DEF BeginCluster, FrontierCells
  <2>2. /\ phase' = "cluster" /\ at' = c /\ growing' = <<c>> /\ cluster' = <<>>
        /\ frontOpen' = frontOpen \cup {c} /\ UNCHANGED <<scene, queue, closed, frontDone, found>>
    BY <1>5 DEF BeginCluster
  <2>3. ToSet(growing') = {c} /\ ToSet(cluster') = {}
    BY <2>2 DEF ToSet
  <2>4. c \in Component(scene, c)
    BY <1>1, <2>1, ComponentFacts
  <2>5. ToSet(growing) = {} /\ ToSet(cluster) \subseteq closed
    BY <2>1 DEF ClustersWhole, ToSet
  <2> HIDE DEF c
  <2> QED
    BY <2>1, <2>2, <2>3, <2>4, <2>5 DEF ClustersWhole
<1>6. CASE Grow
  <2> DEFINE c == Head(growing)
             rest == ToSet(Tail(growing))
  <2>1. /\ c \in Cells(scene) /\ phase = "cluster" /\ ToSet(growing) = {c} \cup rest
        /\ UNCHANGED <<scene, phase, queue, open, closed, at, found>>
    BY <1>6, GrowSets
  <2>2. /\ ClosedIn(scene, F, closed \cap F)
        /\ frontDone \cap F \subseteq closed \cup ToSet(cluster)
        /\ frontOpen \subseteq closed \cup frontDone \cup {c} \cup rest
        /\ at \in F \ closed /\ at \in ToSet(cluster) \cup {c} \cup rest
        /\ ToSet(cluster) \cap closed = {}
        /\ ToSet(cluster) \cup (({c} \cup rest) \cap F) \subseteq Component(scene, at)
        /\ \A d \in ToSet(cluster) :
             Near(scene, d) \cap F \subseteq closed \cup ToSet(cluster) \cup {c} \cup rest
        /\ \A i \in DOMAIN found : \A d \in found[i].cells : found[i].cells = Component(scene, d)
    <3> HIDE DEF c, rest
    <3> QED
      BY <2>1 DEF ClustersWhole
  <2>3. \/ /\ c \in closed \cup frontDone
           /\ ToSet(growing') = rest /\ UNCHANGED <<cluster, frontOpen, frontDone>>
        \/ /\ c \notin closed \cup frontDone /\ c \notin F
           /\ ToSet(growing') = rest /\ frontDone' = frontDone \cup {c}
           /\ UNCHANGED <<cluster, frontOpen>>
        \/ /\ c \notin closed \cup frontDone /\ c \in F
           /\ frontDone' = frontDone \cup {c} /\ ToSet(cluster') = ToSet(cluster) \cup {c}
           /\ ToSet(growing') = rest \cup FreshFrontier(c)
           /\ frontOpen' = frontOpen \cup FreshFrontier(c)
    BY <1>6, GrowSets
  <2> DEFINE After ==
        /\ frontDone' \cap F \subseteq closed \cup ToSet(cluster')
        /\ frontOpen' \subseteq closed \cup frontDone' \cup ToSet(growing')
        /\ at \in ToSet(cluster') \cup ToSet(growing')
        /\ ToSet(cluster') \cap closed = {}
        /\ ToSet(cluster') \cup (ToSet(growing') \cap F) \subseteq Component(scene, at)
        /\ \A d \in ToSet(cluster') :
             Near(scene, d) \cap F \subseteq closed \cup ToSet(cluster') \cup ToSet(growing')
  <2> SUFFICES After
    <3>1. UNCHANGED <<scene, phase, queue, closed, at, found>> /\ phase = "cluster"
      BY <2>1
    <3> QED
      BY <2>2, <3>1 DEF ClustersWhole
  <2> HIDE DEF c, rest, F
  <2>4. CASE c \in closed \cup frontDone
    BY <2>2, <2>3, <2>4
  <2>5. CASE c \notin closed \cup frontDone /\ c \notin F
    BY <2>2, <2>3, <2>5
  <2>6. CASE c \notin closed \cup frontDone /\ c \in F
    <3>1. /\ frontDone' = frontDone \cup {c} /\ ToSet(cluster') = ToSet(cluster) \cup {c}
          /\ ToSet(growing') = rest \cup FreshFrontier(c)
          /\ frontOpen' = frontOpen \cup FreshFrontier(c)
      BY <2>3, <2>6
    <3>2. c \in Component(scene, at) /\ ClosedIn(scene, F, Component(scene, at))
      BY <1>1, <2>2, <2>6, ComponentFacts DEF F
    <3>3. Near(scene, c) \cap F \subseteq Component(scene, at)
      <4> SUFFICES ASSUME NEW n \in Near(scene, c) \cap F
                   PROVE  n \in Component(scene, at)
        OBVIOUS
      <4>1. c \in Near(scene, n)
        BY <1>1, <2>1, NearBothWays
      <4> QED
        BY <3>2, <4>1 DEF ClosedIn
    <3>4. Near(scene, c) \cap F \subseteq closed \cup ToSet(cluster) \cup {c} \cup rest \cup FreshFrontier(c)
      BY <2>2 DEF FreshFrontier
    <3>5. FreshFrontier(c) \subseteq Near(scene, c)
      BY DEF FreshFrontier
    <3> HIDE DEF After
    <3>6. frontDone' \cap F \subseteq closed \cup ToSet(cluster')
      BY <2>2, <3>1
    <3>7. frontOpen' \subseteq closed \cup frontDone' \cup ToSet(growing')
      BY <2>2, <3>1
    <3>8. at \in ToSet(cluster') \cup ToSet(growing') /\ ToSet(cluster') \cap closed = {}
      BY <2>2, <2>6, <3>1
    <3>9. ToSet(cluster') \cup (ToSet(growing') \cap F) \subseteq Component(scene, at)
      BY <2>2, <3>1, <3>2, <3>3, <3>5
    <3>10. \A d \in ToSet(cluster') :
             Near(scene, d) \cap F \subseteq closed \cup ToSet(cluster') \cup ToSet(growing')
      BY <2>2, <3>1, <3>4
    <3> QED
      BY <3>6, <3>7, <3>8, <3>9, <3>10 DEF After
  <2> HIDE DEF After
  <2> QED
    BY <2>4, <2>5, <2>6
<1>7. CASE EndCluster
  <2>1. queue # <<>>
    BY <1>7 DEF EndCluster, SearchTypeOK
  <2>2. /\ phase = "cluster" /\ phase' = "map" /\ growing = <<>>
        /\ UNCHANGED <<scene, frontOpen, frontDone, at, growing, cluster>>
        /\ closed' = closed \cup ToSet(cluster) \cup {at}
    BY <1>7, <2>1, EndClusterSets
  <2>3. /\ at \in F \ closed /\ ToSet(cluster) = Component(scene, at)
        /\ ClosedIn(scene, F, ToSet(cluster))
    BY <2>2, ClusterIsComponent
  <2>4. at \in ToSet(cluster) /\ ToSet(cluster) \subseteq F
    BY <1>1, <2>3, ComponentFacts
  <2>5. \A c \in ToSet(cluster) : ToSet(cluster) = Component(scene, c)
    BY <1>1, <2>3, ComponentFacts
  <2>6. \A i \in DOMAIN found' : \A c \in found'[i].cells : found'[i].cells = Component(scene, c)
    <3>1. \A i \in DOMAIN found : \A c \in found[i].cells : found[i].cells = Component(scene, c)
      BY DEF ClustersWhole
    <3>2. CASE found' = found
      BY <3>1, <3>2
    <3>3. CASE /\ Len(found) \in Nat /\ DOMAIN found = 1..Len(found)
               /\ DOMAIN found' = 1..(Len(found) + 1)
               /\ \A i \in DOMAIN found : found'[i] = found[i]
               /\ found'[Len(found) + 1].cells = ToSet(cluster)
      <4>1. \A i \in DOMAIN found' : i \in DOMAIN found \/ i = Len(found) + 1
        BY <3>3
      <4> QED
        BY <2>5, <3>1, <3>3, <4>1
    <3> QED
      BY <1>7, <3>2, <3>3, FoundGrows
  <2>7. closed' \cap F = (closed \cap F) \cup ToSet(cluster) /\ closed \subseteq closed'
    BY <2>2, <2>3, <2>4
  <2> HIDE DEF F
  <2>8. ClosedIn(scene, F, closed' \cap F)
    <3>1. ClosedIn(scene, F, closed \cap F)
      BY DEF ClustersWhole, F
    <3> QED
      BY <2>3, <2>7, <3>1 DEF ClosedIn
  <2>9. ToSet(cluster) \subseteq closed'
    BY <2>7
  <2> QED
    BY <2>2, <2>6, <2>7, <2>8, <2>9 DEF ClustersWhole, F
<1> QED
  BY <1>2, <1>3, <1>4, <1>5, <1>6, <1>7 DEF SearchNext

-----------------------------------------------------------------------------
(* No frontier is missed.                                                  *)

\* From a free cell: what the map queue has taken on is closed or queued; around a
\* closed free cell everything is taken on; a closed frontier that is due is found.
NoneMissed ==
  /\ open \subseteq closed \cup ToSet(queue)
  /\ \A p \in closed \cap scene.free : Near(scene, p) \subseteq open \cup closed
  /\ phase # "recover" => scene.robot \in open \cup closed
  /\ \A c \in closed \cap FrontierCells(scene) :
       Due(scene, Component(scene, c)) => \E i \in DOMAIN found : c \in found[i].cells

\* A cluster that is due yields a candidate.
LEMMA DueIsFound ==
  ASSUME SearchTypeOK, ToSet(cluster) # {}, Due(scene, ToSet(cluster))
  PROVE  HasCandidate(scene, cluster)
<1>1. cluster \in Seq(Cells(scene)) /\ MinSize \in Nat
  BY SearchAssumption DEF SearchTypeOK
<1>2. Cardinality(ToSet(cluster)) <= Len(cluster) /\ Len(cluster) \in Nat /\ Len(cluster) >= 1
  <2>1. Cardinality(ToSet(cluster)) <= Len(cluster)
    BY <1>1, NoMoreThanLength
  <2>2. 1..Len(cluster) # {}
    BY <1>1, ElementsByIndex
  <2>3. Len(cluster) \in Nat /\ Len(cluster) >= 1
    BY <1>1, <2>2
  <2> QED
    BY <2>1, <2>3
<1>3. Cardinality(ToSet(cluster)) \in Nat
  <2>1. ToSet(cluster) \subseteq Cells(scene) /\ IsScene(scene)
    BY <1>1, ElementsByIndex, SceneIsScene DEF SearchTypeOK
  <2> QED
    BY <2>1, CellsAreFinite, FS_Subset, FS_CardinalityType
<1>4. Cardinality(ToSet(cluster)) >= MinSize
  BY DEF Due
<1>5. Len(cluster) >= (IF MinSize > 1 THEN MinSize ELSE 1)
  BY <1>1, <1>2, <1>3, <1>4
<1>6. \E c \in ToSet(cluster) : Near(scene, c) \cap (scene.free \ scene.blocked) # {}
  BY DEF Due
<1> QED
  BY <1>5, <1>6 DEF HasCandidate

\* Around a cell that the pass over p reaches from a free p, nothing is left out.
LEMMA FreeIsExpanded ==
  ASSUME IsScene(scene), NEW p \in scene.free, NEW done
  PROVE  Near(scene, p) \subseteq open \cup done \cup Fresh(p, done)
<1>1. ASSUME NEW n \in Near(scene, p)
      PROVE  Near(scene, n) \cap scene.free # {}
  <2>1. p \in Cells(scene) /\ n \in Cells(scene)
    BY DEF IsScene, Near
  <2>2. p \in Near(scene, n)
    BY <1>1, <2>1, NearBothWays
  <2> QED
    BY <2>2
<1> QED
  BY <1>1 DEF Fresh

\* From a free robot every step leaves nothing out.
LEMMA MissedKept ==
  ASSUME SearchTypeOK, ClustersWhole, NoneMissed, scene.robot \in scene.free, SearchNext
  PROVE  NoneMissed'
<1> DEFINE F == FrontierCells(scene)
<1>1. IsScene(scene) /\ F \subseteq Cells(scene)
  BY SceneIsScene DEF SearchTypeOK, FrontierCells
<1>2. /\ open \subseteq closed \cup ToSet(queue)
      /\ \A p \in closed \cap scene.free : Near(scene, p) \subseteq open \cup closed
      /\ phase # "recover" => scene.robot \in open \cup closed
      /\ \A c \in closed \cap F :
           Due(scene, Component(scene, c)) => \E i \in DOMAIN found : c \in found[i].cells
  BY DEF NoneMissed
<1>3. CASE Recover
  <2>1. queue = <<scene.robot>> /\ closed = {}
    BY <1>3 DEF Recover, ClustersWhole
  <2>2. Head(queue) = scene.robot
    BY <2>1
  <2>3. /\ closed' = {} /\ open' = {scene.robot} /\ queue' = <<scene.robot>>
        /\ scene' = scene
    BY <1>3, <2>1, <2>2, RecoverSets DEF StartFrom
  <2>4. scene.robot \in ToSet(queue')
    BY <2>3 DEF ToSet
  <2> QED
    BY <2>3, <2>4 DEF NoneMissed
<1>4. CASE SkipClosed
  <2>1. /\ queue # <<>> /\ Head(queue) \in closed /\ queue' = Tail(queue) /\ phase = "map"
        /\ UNCHANGED <<scene, phase, open, closed, found>>
    BY <1>4 DEF SkipClosed
  <2>2. ToSet(queue) = {Head(queue)} \cup ToSet(queue')
    BY <2>1, TailElements DEF SearchTypeOK
  <2> QED
    BY <2>1, <2>2 DEF NoneMissed
<1>5. CASE Walk
  <2> DEFINE p == Head(queue)
  <2>1. /\ queue # <<>> /\ p \in Cells(scene) /\ phase = "map" /\ closed \subseteq Cells(scene)
    BY <1>5, TailElements DEF Walk, SearchTypeOK
  <2>2. p \notin F /\ CloseAndExpand(p, closed) /\ UNCHANGED <<scene, phase, found>>
    BY <1>5 DEF Walk, FrontierCells
  <2> HIDE DEF p, F
  <2>3. /\ ToSet(queue) = {p} \cup ToSet(Tail(queue))
        /\ ToSet(queue') = ToSet(Tail(queue)) \cup Fresh(p, closed)
        /\ open' = open \cup Fresh(p, closed) /\ closed' = closed \cup {p}
    BY <2>1, <2>2, ExpandSets DEF p
  <2>4. p \in scene.free => Near(scene, p) \subseteq open' \cup closed'
    BY <1>1, <2>3, FreeIsExpanded
  <2>5. open' \subseteq closed' \cup ToSet(queue')
    BY <1>2, <2>3
  <2>6. \A q \in closed' \cap scene.free : Near(scene, q) \subseteq open' \cup closed'
    BY <1>2, <2>3, <2>4
  <2>7. closed' \cap F = closed \cap F
    BY <2>2, <2>3
  <2>8. scene.robot \in open' \cup closed'
    BY <1>2, <2>1, <2>3
  <2> QED
    BY <1>2, <2>2, <2>5, <2>6, <2>7, <2>8 DEF NoneMissed, F
<1>6. CASE BeginCluster
  <2>1. UNCHANGED <<scene, queue, open, closed, found>> /\ phase = "map"
    BY <1>6 DEF BeginCluster
  <2> QED
    BY <2>1 DEF NoneMissed
<1>7. CASE Grow
  <2>1. UNCHANGED <<scene, phase, queue, open, closed, found>>
    BY <1>7, GrowSets
  <2> QED
    BY <2>1 DEF NoneMissed
<1>8. CASE EndCluster
  <2> DEFINE CL == ToSet(cluster)
             done == closed \cup CL
  <2>1. queue # <<>> /\ Head(queue) = at
    BY <1>8 DEF EndCluster, SearchTypeOK
  <2>2. /\ phase = "cluster" /\ phase' = "map" /\ growing = <<>> /\ scene' = scene
        /\ ToSet(queue) = {at} \cup ToSet(Tail(queue))
        /\ ToSet(queue') = ToSet(Tail(queue)) \cup Fresh(at, done)
        /\ open' = open \cup Fresh(at, done)
        /\ closed' = closed \cup CL \cup {at}
    BY <1>8, <2>1, EndClusterSets
  <2>3. at \in F /\ CL = Component(scene, at)
    BY <2>2, ClusterIsComponent
  <2>4. at \in CL /\ CL \subseteq F /\ \A c \in CL : Component(scene, c) = CL
    BY <1>1, <2>3, ComponentFacts
  <2>5. F \cap scene.free = {}
    BY FreeIsNoFrontier
  <2>6. /\ \A i \in DOMAIN found : i \in DOMAIN found' /\ found'[i] = found[i]
        /\ Due(scene, CL) => \E i \in DOMAIN found' : found'[i].cells = CL
    <3>1. Due(scene, CL) => HasCandidate(scene, cluster)
      BY <2>4, DueIsFound
    <3>2. CASE found' = found /\ ~HasCandidate(scene, cluster)
      BY <3>1, <3>2
    <3>3. CASE /\ Len(found) \in Nat /\ DOMAIN found = 1..Len(found)
               /\ DOMAIN found' = 1..(Len(found) + 1)
               /\ \A i \in DOMAIN found : found'[i] = found[i]
               /\ found'[Len(found) + 1].cells = CL
      <4>1. \A i \in 1..Len(found) : i \in 1..(Len(found) + 1)
        BY <3>3
      <4>2. Len(found) + 1 \in 1..(Len(found) + 1)
        BY <3>3
      <4> HIDE DEF CL
      <4> QED
        BY <3>3, <4>1, <4>2
    <3> QED
      BY <1>8, <3>2, <3>3, FoundGrows
  <2> HIDE DEF CL, F
  <2>7. open' \subseteq closed' \cup ToSet(queue')
    BY <1>2, <2>2
  <2>8. \A q \in closed' \cap scene.free : Near(scene, q) \subseteq open' \cup closed'
    BY <1>2, <2>2, <2>3, <2>4, <2>5
  <2>9. scene.robot \in open' \cup closed'
    BY <1>2, <2>2
  <2>10. \A c \in closed' \cap F :
           Due(scene, Component(scene, c)) => \E i \in DOMAIN found' : c \in found'[i].cells
    BY <1>2, <2>2, <2>4, <2>6
  <2> QED
    BY <2>2, <2>7, <2>8, <2>9, <2>10 DEF NoneMissed, F
<1>9. CASE EndSearch
  <2>1. UNCHANGED <<scene, queue, open, closed, found>> /\ phase = "map"
    BY <1>9 DEF EndSearch
  <2> QED
    BY <2>1 DEF NoneMissed
<1> QED
  BY <1>3, <1>4, <1>5, <1>6, <1>7, <1>8, <1>9 DEF SearchNext

-----------------------------------------------------------------------------
(* The theorem.                                                            *)

\* In the end the queue is empty.
QueueIsEmpty == phase = "done" => queue = <<>>

\* The size of a candidate is a number.
SizesAreNumbers == \A i \in DOMAIN found : found[i].size \in Nat

\* Every step of the search keeps it.
LEMMA SizesKept ==
  ASSUME SearchTypeOK, SizesAreNumbers, SearchNext
  PROVE  SizesAreNumbers'
<1>1. CASE EndCluster
  <2>1. CASE found' = found
    BY <2>1 DEF SizesAreNumbers
  <2>2. CASE found' # found
    <3>1. \A i \in DOMAIN found' : i \in DOMAIN found \/ i = Len(found) + 1
      BY <1>1, <2>2, FoundGrows
    <3> QED
      BY <1>1, <2>2, <3>1, FoundGrows DEF SizesAreNumbers
  <2> QED
    BY <2>1, <2>2
<1>2. CASE Recover
  <2>1. found' = found
    BY <1>2, RecoverSets
  <2> QED
    BY <2>1 DEF SizesAreNumbers
<1>3. CASE SkipClosed \/ Walk \/ BeginCluster \/ Grow \/ EndSearch
  <2>1. found' = found
    BY <1>3 DEF SkipClosed, Walk, BeginCluster, Grow, EndSearch
  <2> QED
    BY <2>1 DEF SizesAreNumbers
<1> QED
  BY <1>1, <1>2, <1>3 DEF SearchNext

\* The inductive invariant of the search.
SearchInv ==
  /\ SearchTypeOK /\ ClustersApart /\ QueueIsEmpty /\ SizesAreNumbers
  /\ scene.robot \in scene.free => ClustersWhole /\ NoneMissed

\* The search starts with it, ...
LEMMA SearchInvInit ==
  ASSUME SearchInit
  PROVE  SearchInv
<1>1. SearchTypeOK
  BY TypesInit
<1>2. /\ phase = "recover" /\ queue = <<scene.robot>> /\ open = {} /\ closed = {}
      /\ frontOpen = {} /\ frontDone = {} /\ growing = <<>> /\ cluster = <<>> /\ found = <<>>
  BY DEF SearchInit
<1>3. ToSet(<<>>) = {} /\ DOMAIN <<>> = {}
  BY DEF ToSet
<1>4. ClustersApart /\ QueueIsEmpty /\ SizesAreNumbers
  BY <1>2, <1>3 DEF ClustersApart, QueueIsEmpty, SizesAreNumbers
<1>5. ClustersWhole
  BY <1>2, <1>3 DEF ClustersWhole, ClosedIn
<1>6. NoneMissed
  BY <1>2, <1>3 DEF NoneMissed
<1> QED
  BY <1>1, <1>4, <1>5, <1>6 DEF SearchInv

\* ... and every step keeps it.
LEMMA SearchInvKept ==
  ASSUME SearchInv, [Next]_vars
  PROVE  SearchInv'
<1>1. CASE SearchNext
  <2>1. SearchTypeOK' /\ ClustersApart' /\ SizesAreNumbers'
    BY <1>1, TypesKept, ApartKept, SizesKept DEF SearchInv
  <2>2. scene' = scene
    <3>1. CASE Recover
      BY <3>1, RecoverSets DEF SearchInv
    <3> QED
      BY <1>1, <3>1 DEF SearchNext, SkipClosed, Walk, BeginCluster, Grow, EndCluster, EndSearch
  <2>3. scene.robot \in scene.free => ClustersWhole' /\ NoneMissed'
    BY <1>1, WholeKept, MissedKept DEF SearchInv
  <2>4. QueueIsEmpty'
    <3>1. CASE EndSearch
      BY <3>1 DEF EndSearch, QueueIsEmpty
    <3>2. CASE Recover
      <4>1. phase = "recover"
        BY <3>2 DEF Recover
      <4>2. phase' # "done"
        BY <3>2, <4>1, RecoverSets DEF SearchInv, StartFrom
      <4> QED
        BY <4>2 DEF QueueIsEmpty
    <3>3. CASE SkipClosed \/ Walk \/ BeginCluster \/ Grow \/ EndCluster
      <4>1. phase' # "done"
        BY <3>3 DEF SkipClosed, Walk, BeginCluster, Grow, EndCluster
      <4> QED
        BY <4>1 DEF QueueIsEmpty
    <3> QED
      BY <1>1, <3>1, <3>2, <3>3 DEF SearchNext
  <2> QED
    BY <2>1, <2>2, <2>3, <2>4 DEF SearchInv
<1>2. CASE UNCHANGED searchVars
  BY <1>2 DEF searchVars, SearchInv, SearchTypeOK, ClustersApart, QueueIsEmpty, SizesAreNumbers, ClustersWhole, NoneMissed
<1> QED
  BY <1>1, <1>2 DEF Next, Plan, vars

\* What the invariant says of a search that has ended.
LEMMA EndedSearch ==
  ASSUME SearchInv
  PROVE  FoundIsTheFrontier
<1> SUFFICES ASSUME phase = "done" PROVE FoundIsTheFrontier
  BY DEF FoundIsTheFrontier
<1> DEFINE F == FrontierCells(scene)
<1>1. \A i, j \in DOMAIN found : i # j => found[i].cells \cap found[j].cells = {}
  BY DEF SearchInv, ClustersApart
<1>2. ASSUME scene.robot \in scene.free
      PROVE  /\ \A i \in DOMAIN found : \A c \in found[i].cells : found[i].cells = Component(scene, c)
             /\ \A c \in AroundFreeSpace(scene, scene.robot) :
                  Due(scene, Component(scene, c)) => \E i \in DOMAIN found : c \in found[i].cells
  <2>1. \A i \in DOMAIN found : \A c \in found[i].cells : found[i].cells = Component(scene, c)
    BY <1>2 DEF SearchInv, ClustersWhole
  <2>2. IsScene(scene) /\ IsFiniteSet(scene.free) /\ scene.free \subseteq Cells(scene)
    <3>1. IsScene(scene) /\ scene.free \subseteq Cells(scene)
      BY SceneIsScene DEF SearchInv, SearchTypeOK, IsScene
    <3> QED
      BY <3>1, CellsAreFinite, FS_Subset
  <2>3. open \subseteq closed
    <3>1. queue = <<>>
      BY DEF SearchInv, QueueIsEmpty
    <3>2. ToSet(queue) = {}
      BY <3>1 DEF ToSet
    <3> QED
      BY <1>2, <3>2 DEF SearchInv, NoneMissed
  <2>4. /\ \A p \in closed \cap scene.free : Near(scene, p) \subseteq closed
        /\ scene.robot \in closed
    BY <1>2, <2>3 DEF SearchInv, NoneMissed
  <2>5. ASSUME NEW c \in Cells(scene), Near(scene, c) \cap (closed \cap scene.free) # {}
        PROVE  c \in closed
    <3>1. PICK p \in closed \cap scene.free : p \in Near(scene, c)
      BY <2>5
    <3>2. c \in Near(scene, p)
      BY <2>2, <3>1, NearBothWays
    <3> QED
      BY <2>4, <3>1, <3>2
  <2> DEFINE space == ReachableIn(scene, scene.free, {scene.robot})
  <2>6. space \subseteq closed \cap scene.free
    <3>1. ClosedIn(scene, scene.free, closed \cap scene.free)
      BY <2>2, <2>5 DEF ClosedIn
    <3>2. {scene.robot} \cap scene.free \subseteq closed \cap scene.free
      BY <2>4
    <3> QED
      BY <2>2, <3>1, <3>2, ReachableFacts
  <2>7. AroundFreeSpace(scene, scene.robot) \subseteq closed \cap F
    <3>1. \A c \in AroundFreeSpace(scene, scene.robot) : c \in F /\ Near(scene, c) \cap space # {}
      BY DEF AroundFreeSpace
    <3>2. F \subseteq Cells(scene)
      BY DEF FrontierCells
    <3> HIDE DEF F, space
    <3> QED
      BY <2>5, <2>6, <3>1, <3>2
  <2>8. \A c \in closed \cap F :
          Due(scene, Component(scene, c)) => \E i \in DOMAIN found : c \in found[i].cells
    BY <1>2 DEF SearchInv, NoneMissed
  <2> HIDE DEF F
  <2> QED
    BY <2>1, <2>7, <2>8
<1> QED
  BY <1>1, <1>2 DEF FoundIsTheFrontier

\* Whatever the map: no cell is in two candidates; and from a free robot cell every
\* candidate is a whole connected frontier, and every frontier around the free space
\* of the robot that is large enough and has a usable goal is among them
\* (get_frontier and build_new_frontier).
THEOREM FrontiersAreComplete == Spec => []FoundIsTheFrontier
<1>1. Init => SearchInv
  BY SearchInvInit DEF Init
<1>2. SearchInv /\ [Next]_vars => SearchInv'
  BY SearchInvKept
<1>3. SearchInv => FoundIsTheFrontier
  BY EndedSearch
<1> QED
  BY <1>1, <1>2, <1>3, PTL DEF Spec

-----------------------------------------------------------------------------
(* Least elements.                                                         *)

\* A finite set with a total order has a least element.
LEMMA FiniteLeast ==
  ASSUME NEW S, IsFiniteSet(S), S # {}, NEW R,
         \A a, b \in S : <<a, b>> \in R \/ <<b, a>> \in R,
         \A a, b, c \in S : <<a, b>> \in R /\ <<b, c>> \in R => <<a, c>> \in R
  PROVE  \E least \in S : \A x \in S : <<least, x>> \in R
<1> DEFINE HasLeast(T) == \E least \in T : \A x \in T : <<least, x>> \in R
           Good == {n \in Nat : \A T \in SUBSET S : Cardinality(T) = n /\ T # {} => HasLeast(T)}
<1>1. 0 \in Good
  <2>1. \A T \in SUBSET S : IsFiniteSet(T) /\ (Cardinality(T) = 0 => T = {})
    BY FS_Subset, FS_EmptySet
  <2> HIDE DEF HasLeast
  <2> QED BY <2>1
<1>2. ASSUME NEW n \in Nat, n \in Good
      PROVE  n + 1 \in Good
  <2> SUFFICES ASSUME NEW T \in SUBSET S, Cardinality(T) = n + 1, T # {}
               PROVE  HasLeast(T)
    <3> HIDE DEF HasLeast
    <3> QED OBVIOUS
  <2>1. PICK x \in T : TRUE
    OBVIOUS
  <2> DEFINE rest == T \ {x}
  <2>2. IsFiniteSet(T) /\ rest \in SUBSET S
    BY FS_Subset
  <2>3. Cardinality(rest) = n
    <3>1. Cardinality(rest) = Cardinality(T) - 1
      BY <2>1, <2>2, FS_RemoveElement
    <3> QED BY <3>1
  <2>4. CASE rest = {}
    <3>1. T = {x}
      BY <2>1, <2>4
    <3> QED BY <3>1
  <2>5. CASE rest # {}
    <3>1. HasLeast(rest)
      <4> HIDE DEF HasLeast, rest
      <4> QED BY <1>2, <2>2, <2>3, <2>5
    <3>2. PICK least \in rest : \A y \in rest : <<least, y>> \in R
      BY <3>1
    <3>3. CASE <<least, x>> \in R
      <4>1. \A y \in T : <<least, y>> \in R
        BY <3>2, <3>3
      <4> QED BY <3>2, <4>1
    <3>4. CASE <<least, x>> \notin R
      <4>1. <<x, least>> \in R /\ <<x, x>> \in R
        BY <2>1, <3>2, <3>4
      <4>2. \A y \in T : <<x, y>> \in R
        BY <2>1, <3>2, <4>1
      <4> QED BY <2>1, <4>2
    <3> QED BY <3>3, <3>4
  <2> QED BY <2>4, <2>5
<1>3. Cardinality(S) \in Nat
  BY FS_CardinalityType
<1>4. Cardinality(S) \in Good
  <2> HIDE DEF Good
  <2> QED BY <1>1, <1>2, <1>3, NatSetInduction
<1> QED BY <1>4

\* The loop that keeps the first of the smallest ends with one of the smallest.
LEMMA CheapestIsCheapest ==
  ASSUME NEW D, D \subseteq Nat, IsFiniteSet(D), D # {}, NEW price \in [D -> Int]
  PROVE  FirstCheapest(price) \in D /\ \A k \in D : price[FirstCheapest(price)] <= price[k]
<1> DEFINE First(i, k) == price[i] < price[k] \/ (price[i] = price[k] /\ i <= k)
           R == {e \in D \X D : First(e[1], e[2])}
<1>1. \A i, k \in D : <<i, k>> \in R <=> First(i, k)
  OBVIOUS
<1>2. \A i \in D : price[i] \in Int /\ i \in Nat
  OBVIOUS
<1>3. \A i, k \in D : First(i, k) \/ First(k, i)
  BY <1>2
<1>4. \A i, k, m \in D : First(i, k) /\ First(k, m) => First(i, m)
  BY <1>2
<1>5. \E i \in D : \A k \in D : First(i, k)
  <2> HIDE DEF First, R
  <2>1. \A i, k \in D : <<i, k>> \in R \/ <<k, i>> \in R
    BY <1>1, <1>3
  <2>2. \A i, k, m \in D : <<i, k>> \in R /\ <<k, m>> \in R => <<i, m>> \in R
    BY <1>1, <1>4
  <2>3. \E i \in D : \A k \in D : <<i, k>> \in R
    BY <2>1, <2>2, FiniteLeast
  <2> QED BY <1>1, <2>3
<1>6. DOMAIN price = D
  OBVIOUS
<1>7. FirstCheapest(price) \in D /\ \A k \in D : First(FirstCheapest(price), k)
  BY <1>5, <1>6 DEF FirstCheapest
<1> DEFINE best == FirstCheapest(price)
<1> HIDE DEF best
<1>8. best \in D /\ \A k \in D : First(best, k)
  BY <1>7 DEF best
<1>9. \A k \in D : price[best] <= price[k]
  BY <1>2, <1>8
<1> QED
  BY <1>8, <1>9 DEF best

\* The order of the masks compares any two sets of positions, ...
LEMMA MasksCompare ==
  ASSUME pool \in Seq(Nat), NEW v \in SUBSET Positions, NEW w \in SUBSET Positions, v # w
  PROVE  LowerMask(v, w) \/ LowerMask(w, v)
<1> DEFINE D == (v \ w) \cup (w \ v)
           R == {e \in D \X D : e[1] >= e[2]}
<1>1. D \in SUBSET Positions /\ D # {}
  OBVIOUS
<1>2. \A a, b \in D : <<a, b>> \in R <=> a >= b
  OBVIOUS
<1> HIDE DEF R, D
<1>3. Positions \subseteq Nat /\ IsFiniteSet(Positions)
  <2>1. 1 \in Int /\ Len(pool) \in Int
    OBVIOUS
  <2> QED
    BY <2>1, FS_Interval DEF Positions
<1>4. IsFiniteSet(D) /\ \A a \in D : a \in Nat
  BY <1>1, <1>3, FS_Subset
<1>7. \A a, b \in D : a \in Nat /\ b \in Nat /\ (<<a, b>> \in R <=> a >= b)
  BY <1>2, <1>4
<1>8. \A a, b \in D : <<a, b>> \in R \/ <<b, a>> \in R
  <2> SUFFICES ASSUME NEW a \in D, NEW b \in D PROVE <<a, b>> \in R \/ <<b, a>> \in R
    OBVIOUS
  <2>0. a \in Nat /\ b \in Nat
    BY <1>4
  <2>1. a >= b \/ b >= a
    BY ONLY <2>0
  <2> QED BY <1>7, <2>1
<1>9. \A a, b, c \in D : <<a, b>> \in R /\ <<b, c>> \in R => <<a, c>> \in R
  BY <1>7
<1>5. PICK top \in D : \A k \in D : <<top, k>> \in R
  BY <1>1, <1>4, <1>8, <1>9, FiniteLeast
<1>6. \A k \in Positions : k > top => k \notin D
  <2>1. \A k \in D : top >= k /\ top \in Nat /\ k \in Nat
    BY <1>5, <1>7
  <2> QED BY <2>1
<1> QED
  BY <1>5, <1>6 DEF LowerMask, D

\* ... and is transitive.
LEMMA MasksInOrder ==
  ASSUME pool \in Seq(Nat), NEW u \in SUBSET Positions, NEW v \in SUBSET Positions, NEW w \in SUBSET Positions,
         LowerMask(u, v), LowerMask(v, w)
  PROVE  LowerMask(u, w)
<1>1. PICK i \in v \ u : \A k \in Positions : k > i => (k \in u <=> k \in v)
  BY DEF LowerMask
<1>2. PICK j \in w \ v : \A k \in Positions : k > j => (k \in v <=> k \in w)
  BY DEF LowerMask
<1>3. i \in Nat /\ j \in Nat /\ i # j /\ i \in Positions /\ j \in Positions /\ Positions \subseteq Nat
  BY DEF Positions
<1>4. CASE i > j
  <2>1. i \in w \ u
    BY <1>1, <1>2, <1>3, <1>4
  <2>2. \A k \in Positions : k > i => k > j
    BY <1>3, <1>4
  <2>3. \A k \in Positions : k > i => (k \in u <=> k \in w)
    BY <1>1, <1>2, <2>2
  <2> QED BY <2>1, <2>3 DEF LowerMask
<1>5. CASE j > i
  <2>1. j \in w \ u
    BY <1>1, <1>2, <1>3, <1>5
  <2>2. \A k \in Positions : k > j => k > i
    BY <1>3, <1>5
  <2>3. \A k \in Positions : k > j => (k \in u <=> k \in w)
    BY <1>1, <1>2, <2>2
  <2> QED BY <2>1, <2>3 DEF LowerMask
<1> QED BY <1>3, <1>4, <1>5

-----------------------------------------------------------------------------
(* The pool.                                                               *)

\* What a call hands to the planner.
JobOK(j) ==
  /\ j.sizes \in Seq(Nat) /\ j.limit \in Nat /\ j.horizon \in Nat
  /\ j.cost \in [Edges(Len(j.sizes)) -> Int]

\* The order of the candidates is total.
LEMMA BetterOrders ==
  ASSUME NEW j, JobOK(j)
  PROVE  /\ \A a \in DOMAIN j.sizes : ~Better(j, a, a)
         /\ \A a, b \in DOMAIN j.sizes : a # b => Better(j, a, b) \/ Better(j, b, a)
         /\ \A a, b, c \in DOMAIN j.sizes : Better(j, a, b) /\ Better(j, b, c) => Better(j, a, c)
         /\ \A a, b \in DOMAIN j.sizes : Better(j, a, b) => j.cost[<<0, a>>] <= j.cost[<<0, b>>]
<1> DEFINE N == DOMAIN j.sizes
           price(a) == j.cost[<<0, a>>]
<1>1. \A a \in N : a \in Nat /\ price(a) \in Int /\ j.sizes[a] \in Nat
  <2>1. \A a \in N : <<0, a>> \in Edges(Len(j.sizes)) /\ a \in Nat /\ j.sizes[a] \in Nat
    BY DEF Edges, JobOK
  <2> QED
    BY <2>1 DEF JobOK
<1>2. \A a, b : Better(j, a, b) <=>
        \/ price(a) < price(b)
        \/ price(a) = price(b) /\ (j.sizes[a] > j.sizes[b] \/ (j.sizes[a] = j.sizes[b] /\ a < b))
  BY DEF Better
<1> HIDE DEF price, N
<1>3. \A a \in N : ~Better(j, a, a)
  BY <1>1, <1>2
<1>4. \A a, b \in N : a # b => Better(j, a, b) \/ Better(j, b, a)
  BY <1>1, <1>2
<1>5. \A a, b, c \in N : Better(j, a, b) /\ Better(j, b, c) => Better(j, a, c)
  BY <1>1, <1>2
<1>6. \A a, b \in N : Better(j, a, b) => price(a) <= price(b)
  BY <1>1, <1>2
<1> QED
  BY <1>3, <1>4, <1>5, <1>6 DEF N, price

\* The number of better candidates tells any two apart: every number occurs once.
LEMMA RanksAreNumbers ==
  ASSUME NEW j, JobOK(j),
         NEW ahead \in [DOMAIN j.sizes -> Nat],
         \A a \in DOMAIN j.sizes :
           ahead[a] = Cardinality({b \in DOMAIN j.sizes : Better(j, b, a)})
  PROVE  /\ \A a, b \in DOMAIN j.sizes : Better(j, a, b) => ahead[a] < ahead[b]
         /\ \A k \in 1..Len(j.sizes) : \E a \in DOMAIN j.sizes : ahead[a] = k - 1
<1> DEFINE N == DOMAIN j.sizes
           Over(a) == {b \in N : Better(j, b, a)}
           n == Len(j.sizes)
<1>1. N = 1..n /\ n \in Nat /\ IsFiniteSet(N) /\ Cardinality(N) = n
  <2>1. N = 1..n /\ n \in Nat
    BY DEF JobOK
  <2> HIDE DEF N, n
  <2> QED
    BY <2>1, FS_Interval
<1>2. \A a \in N : Over(a) \subseteq N \ {a} /\ IsFiniteSet(Over(a)) /\ ahead[a] = Cardinality(Over(a))
  <2> TAKE a \in N
  <2>1. Over(a) \subseteq N \ {a}
    BY BetterOrders
  <2> QED
    BY <1>1, <2>1, FS_Subset
<1>3. ASSUME NEW a \in N, NEW b \in N, Better(j, a, b)
      PROVE  ahead[a] < ahead[b]
  <2>1. Over(a) \subseteq Over(b) /\ a \in Over(b) /\ a \notin Over(a)
    BY <1>3, BetterOrders
  <2> HIDE DEF Over
  <2>2. /\ Cardinality(Over(a)) <= Cardinality(Over(b))
        /\ Cardinality(Over(a)) # Cardinality(Over(b))
    BY <1>2, <2>1, FS_Subset
  <2>3. ahead[a] \in Nat /\ ahead[b] \in Nat
    OBVIOUS
  <2>4. ahead[a] = Cardinality(Over(a)) /\ ahead[b] = Cardinality(Over(b))
    BY <1>2
  <2>5. ahead[a] <= ahead[b] /\ ahead[a] # ahead[b]
    BY <2>2, <2>4
  <2> QED
    BY ONLY <2>3, <2>5
<1>4. \A a \in N : ahead[a] \in 0..(n - 1)
  <2> TAKE a \in N
  <2>1. IsFiniteSet(N \ {a}) /\ Cardinality(N \ {a}) = n - 1
    BY <1>1, FS_RemoveElement
  <2> HIDE DEF Over
  <2>2. Cardinality(Over(a)) <= n - 1
    BY <1>2, <2>1, FS_Subset
  <2> QED
    BY <1>1, <1>2, <2>2
<1>5. \A a, b \in N : ahead[a] = ahead[b] => a = b
  <2> SUFFICES ASSUME NEW a \in N, NEW b \in N, a # b PROVE ahead[a] # ahead[b]
    OBVIOUS
  <2>1. ahead[a] \in Nat /\ ahead[b] \in Nat
    OBVIOUS
  <2>2. Better(j, a, b) \/ Better(j, b, a)
    BY BetterOrders
  <2> QED
    BY <1>3, <2>1, <2>2
<1>6. ahead \in Injection(N, 0..(n - 1))
  <2>1. ahead \in [N -> 0..(n - 1)]
    BY <1>4
  <2> QED
    BY <1>5, <2>1 DEF Injection, IsInjective
<1>7. IsFiniteSet(0..(n - 1)) /\ Cardinality(0..(n - 1)) = n
  <2>1. n \in Nat
    BY <1>1
  <2> HIDE DEF n
  <2>2. 0 \in Int /\ n - 1 \in Int
    BY <2>1
  <2>3. IsFiniteSet(0..(n - 1)) /\ Cardinality(0..(n - 1)) = IF 0 > n - 1 THEN 0 ELSE n - 1 - 0 + 1
    BY <2>2, FS_Interval
  <2> QED
    BY <2>1, <2>3
<1>8. ahead \in Surjection(N, 0..(n - 1))
  <2> HIDE DEF N, n
  <2> QED
    BY <1>1, <1>6, <1>7, FS_Injection
<1>9. ASSUME NEW k \in 1..n
      PROVE  \E a \in N : ahead[a] = k - 1
  <2>1. k - 1 \in 0..(n - 1)
    BY <1>1
  <2> QED
    BY <1>8, <2>1 DEF Surjection
<1> QED
  BY <1>3, <1>9

\* The pool of dp: no candidate outside is closer to the robot than one inside.
LEMMA PrunedFacts ==
  ASSUME NEW j, JobOK(j)
  PROVE  /\ Pruned(j) \in Seq(DOMAIN j.sizes)
         /\ \A i \in DOMAIN Pruned(j) : \A k \in DOMAIN j.sizes \ ToSet(Pruned(j)) :
              j.cost[<<0, Pruned(j)[i]>>] <= j.cost[<<0, k>>]
<1> DEFINE N == DOMAIN j.sizes
           n == Len(j.sizes)
           ahead == [a \in N |-> Cardinality({b \in N : Better(j, b, a)})]
           m == Smaller(Clamped(j.limit, 1, MaxPool), n)
           P == Pruned(j)
<1>1. n \in Nat /\ m \in Nat /\ m <= n
  <2>1. n \in Nat /\ j.limit \in Nat /\ MaxPool \in Nat
    BY PlannerAssumption DEF JobOK
  <2> HIDE DEF n
  <2> QED
    BY <2>1 DEF Smaller, Clamped
<1>2. ahead \in [N -> Nat]
  <2>1. N = 1..n
    BY DEF JobOK
  <2>2. IsFiniteSet(N)
    <3> HIDE DEF N, n
    <3> QED
      BY <1>1, <2>1, FS_Interval
  <2>3. \A a \in N : {b \in N : Better(j, b, a)} \in SUBSET N
    OBVIOUS
  <2> HIDE DEF N
  <2>4. \A a \in N : Cardinality({b \in N : Better(j, b, a)}) \in Nat
    BY <2>2, <2>3, FS_Subset, FS_CardinalityType
  <2> QED
    BY <2>4
<1>3. \A a \in N : ahead[a] = Cardinality({b \in N : Better(j, b, a)})
  OBVIOUS
<1> DEFINE Nth(k) == CHOOSE a \in N : Cardinality({b \in N : Better(j, b, a)}) = k - 1
<1>4. P = [k \in 1..m |-> Nth(k)]
  BY DEF Pruned
<1> HIDE DEF ahead, m, P, Nth
<1>5. /\ \A a, b \in N : Better(j, a, b) => ahead[a] < ahead[b]
      /\ \A k \in 1..n : \E a \in N : ahead[a] = k - 1
  BY <1>2, <1>3, RanksAreNumbers
<1> HIDE DEF n
<1>6. \A k \in 1..m : P[k] \in N /\ ahead[P[k]] = k - 1
  <2> SUFFICES ASSUME NEW k \in 1..m PROVE P[k] \in N /\ ahead[P[k]] = k - 1
    OBVIOUS
  <2>1. k \in 1..n
    BY <1>1
  <2>2. P[k] = Nth(k)
    BY <1>4
  <2>3. \E a \in N : Cardinality({b \in N : Better(j, b, a)}) = k - 1
    BY <1>3, <1>5, <2>1
  <2>4. P[k] \in N /\ Cardinality({b \in N : Better(j, b, P[k])}) = k - 1
    BY <2>2, <2>3 DEF Nth
  <2> QED
    BY <1>3, <2>4
<1>7. P \in Seq(N) /\ DOMAIN P = 1..m /\ Len(P) = m
  <2>1. P = [k \in 1..m |-> P[k]]
    BY <1>4
  <2>2. \A k \in 1..m : P[k] \in N
    BY <1>6
  <2> HIDE DEF N
  <2>3. P \in [1..m -> N]
    BY <2>1, <2>2
  <2> QED
    BY <1>1, <2>3
<1>8. ASSUME NEW i \in 1..m, NEW k \in N \ ToSet(P)
      PROVE  j.cost[<<0, P[i]>>] <= j.cost[<<0, k>>]
  <2>1. P[i] \in N /\ ahead[P[i]] = i - 1 /\ ahead[k] \in Nat
    BY <1>2, <1>6
  <2>2. ASSUME NEW a \in N, a # k
        PROVE  ahead[a] # ahead[k]
    <3>1. Better(j, a, k) \/ Better(j, k, a)
      BY <2>2, BetterOrders
    <3>2. ahead[a] < ahead[k] \/ ahead[k] < ahead[a]
      BY <1>5, <3>1
    <3>3. ahead[a] \in Nat /\ ahead[k] \in Nat
      BY <1>2
    <3> QED
      BY ONLY <3>2, <3>3
  <2>3. ~(ahead[k] + 1 <= m)
    <3> SUFFICES ASSUME ahead[k] + 1 <= m PROVE FALSE
      OBVIOUS
    <3> DEFINE q == ahead[k] + 1
    <3>1. q \in 1..m /\ q - 1 = ahead[k]
      BY <1>1, <2>1
    <3>2. P[q] \in N /\ ahead[P[q]] = ahead[k]
      BY <1>6, <3>1
    <3>3. P[q] = k
      BY <2>2, <3>2
    <3>4. k \in ToSet(P)
      BY <1>7, <3>1, <3>3 DEF ToSet
    <3> QED
      BY <3>4
  <2>4. ~(ahead[k] < ahead[P[i]]) /\ P[i] # k
    <3>1. i \in Nat /\ i <= m
      BY <1>1
    <3>2. ~(ahead[k] < ahead[P[i]])
      BY <1>1, <2>1, <2>3, <3>1
    <3>3. P[i] \in ToSet(P)
      BY <1>7 DEF ToSet
    <3> QED
      BY <3>2, <3>3
  <2>5. Better(j, P[i], k)
    BY <1>5, <2>1, <2>4, BetterOrders
  <2> QED
    BY <2>1, <2>5, BetterOrders
<1> QED
  BY <1>7, <1>8 DEF P

-----------------------------------------------------------------------------
(* Routes and what they cost.                                              *)

\* A call is being planned.
PoolOK == JobOK(job) /\ pool \in Seq(DOMAIN job.sizes)

\* The costs between the robot and the positions of the pool.
LEMMA CostsAreNumbers ==
  ASSUME PoolOK
  PROVE  /\ Len(pool) \in Nat /\ Positions \subseteq Nat \ {0} /\ IsFiniteSet(Positions)
         /\ \A i \in {0} \cup Positions : \A k \in Positions : Cost(i, k) \in Int
<1> DEFINE n == Len(job.sizes)
<1>1. DOMAIN job.sizes = 1..n /\ n \in Nat /\ pool \in Seq(1..n) /\ job.cost \in [Edges(n) -> Int]
  BY DEF PoolOK, JobOK
<1>2. Len(pool) \in Nat
  BY <1>1
<1>3. IsFiniteSet(Positions)
  BY <1>2, FS_Interval DEF Positions
<1> HIDE DEF n
<1>4. ASSUME NEW i \in {0} \cup Positions, NEW k \in Positions
      PROVE  Cost(i, k) \in Int
  <2>1. pool[k] \in 1..n /\ (i # 0 => pool[i] \in 1..n)
    BY <1>1, <1>4 DEF Positions
  <2>2. (IF i = 0 THEN 0 ELSE pool[i]) \in 0..n
    BY <1>1, <2>1
  <2>3. <<IF i = 0 THEN 0 ELSE pool[i], pool[k]>> \in Edges(n)
    BY <2>1, <2>2 DEF Edges
  <2> QED
    BY <1>1, <2>3 DEF Cost
<1> QED
  BY <1>2, <1>3, <1>4 DEF Positions

\* The sums of the first terms of a sequence of numbers.
LEMMA SumsExist ==
  ASSUME NEW N \in Nat, NEW term \in [1..N -> Int]
  PROVE  \E f \in [0..N -> Int] : f[0] = 0 /\ \A n \in 1..N : f[n] = f[n - 1] + term[n]
<1> DEFINE Sums(m) == {f \in [0..m -> Int] : f[0] = 0 /\ \A n \in 1..m : f[n] = f[n - 1] + term[n]}
           Good == {m \in Nat : m <= N => Sums(m) # {}}
<1>1. 0 \in Good
  <2>1. [n \in 0..0 |-> 0] \in Sums(0)
    OBVIOUS
  <2> QED BY <2>1
<1>2. ASSUME NEW m \in Nat, m \in Good
      PROVE  m + 1 \in Good
  <2> SUFFICES ASSUME m + 1 <= N PROVE Sums(m + 1) # {}
    <3> HIDE DEF Sums
    <3> QED OBVIOUS
  <2>1. PICK f \in Sums(m) : TRUE
    <3>1. m <= N
      OBVIOUS
    <3> HIDE DEF Sums
    <3> QED BY <1>2, <3>1
  <2> DEFINE g == [n \in 0..(m + 1) |-> IF n = m + 1 THEN f[m] + term[m + 1] ELSE f[n]]
  <2>2. f[m] \in Int /\ term[m + 1] \in Int
    BY <2>1
  <2>3. g \in [0..(m + 1) -> Int] /\ g[0] = 0
    BY <2>1, <2>2
  <2>4. ASSUME NEW n \in 1..(m + 1)
        PROVE  g[n] = g[n - 1] + term[n]
    <3>1. CASE n = m + 1
      BY <3>1
    <3>2. CASE n # m + 1
      <4>1. n \in 1..m /\ g[n] = f[n] /\ g[n - 1] = f[n - 1]
        BY <3>2
      <4>2. f[n] = f[n - 1] + term[n]
        BY <2>1, <4>1
      <4> QED BY <4>1, <4>2
    <3> QED BY <3>1, <3>2
  <2> HIDE DEF g
  <2>5. g \in Sums(m + 1)
    BY <2>3, <2>4
  <2> QED BY <2>5
<1>3. N \in Good
  <2> HIDE DEF Good
  <2> QED BY <1>1, <1>2, NatSetInduction
<1>4. Sums(N) # {}
  <2> HIDE DEF Sums
  <2> QED BY <1>3
<1> QED BY <1>4

\* The total is the sum of the edges.
LEMMA TotalUnfold ==
  ASSUME PoolOK, NEW r \in Seq(Positions)
  PROVE  \E f : /\ f \in [0..Len(r) -> Int] /\ f[0] = 0 /\ Total(r) = f[Len(r)]
                /\ \A n \in 1..Len(r) : f[n] = f[n - 1] + Edge(r, n)
<1> DEFINE N == Len(r)
           Step(f, n) == IF n = 0 THEN 0 ELSE f[n - 1] + Edge(r, n)
           term == [n \in 1..N |-> Edge(r, n)]
<1>1. N \in Nat
  OBVIOUS
<1>2. \A n \in 1..N : Edge(r, n) \in Int
  <2> SUFFICES ASSUME NEW n \in 1..N PROVE Edge(r, n) \in Int
    OBVIOUS
  <2>1. r[n] \in Positions /\ (n # 1 => r[n - 1] \in Positions)
    OBVIOUS
  <2>2. (IF n = 1 THEN 0 ELSE r[n - 1]) \in {0} \cup Positions
    BY <2>1
  <2> QED
    BY <2>1, <2>2, CostsAreNumbers DEF Edge
<1>3. term \in [1..N -> Int] /\ \A n \in 1..N : term[n] = Edge(r, n)
  BY <1>2
<1> HIDE DEF term, N
<1>4. PICK f \in [0..N -> Int] : f[0] = 0 /\ \A n \in 1..N : f[n] = f[n - 1] + term[n]
  BY <1>1, <1>3, SumsExist
<1>5. \A n \in 0..N : f[n] = Step(f, n)
  <2>1. \A n \in 0..N : n = 0 \/ n \in 1..N
    BY <1>1
  <2> QED
    BY <1>3, <1>4, <2>1
<1>6. f = [n \in 0..N |-> Step(f, n)]
  <2> HIDE DEF Step
  <2> QED BY <1>4, <1>5
<1> DEFINE upto == CHOOSE g : g = [n \in 0..N |-> Step(g, n)]
<1>7. upto = [n \in 0..N |-> Step(upto, n)]
  <2> HIDE DEF Step
  <2> QED BY <1>6
<1>8. Total(r) = upto[N]
  BY DEF Total, N
<1> HIDE DEF upto
<1>9. \A n \in 0..N : upto[n] = Step(upto, n)
  <2> HIDE DEF Step
  <2> QED BY <1>7
<1>10. upto[0] = 0 /\ \A n \in 1..N : upto[n] = upto[n - 1] + Edge(r, n)
  <2>1. 0 \in 0..N /\ \A n \in 1..N : n \in 0..N /\ n # 0
    BY <1>1
  <2> QED
    BY <1>9, <2>1
<1>11. \A n \in 0..N : upto[n] \in Int
  <2> DEFINE Typed == {n \in Nat : n <= N => upto[n] \in Int}
  <2>1. 0 \in Typed
    BY <1>10
  <2>2. ASSUME NEW n \in Nat, n \in Typed
        PROVE  n + 1 \in Typed
    <3>1. SUFFICES ASSUME n + 1 <= N PROVE upto[n + 1] \in Int
      OBVIOUS
    <3>2. n + 1 \in 1..N /\ n + 1 - 1 = n /\ n <= N
      BY <1>1, <3>1
    <3>3. upto[n + 1] = upto[n] + Edge(r, n + 1)
      BY <1>10, <3>2
    <3>4. upto[n] \in Int /\ Edge(r, n + 1) \in Int
      BY <1>2, <2>2, <3>2
    <3> QED BY <3>3, <3>4
  <2>3. Nat \subseteq Typed
    <3> HIDE DEF Typed
    <3> QED BY <2>1, <2>2, NatSetInduction
  <2> QED BY <2>3
<1>12. upto \in [0..N -> Int]
  BY <1>7, <1>11
<1> QED
  BY <1>8, <1>10, <1>12 DEF N

\* A longer route costs its last edge more.
LEMMA TotalAppend ==
  ASSUME PoolOK, NEW r \in Seq(Positions), NEW l \in Positions
  PROVE  LET edge == Cost(IF r = <<>> THEN 0 ELSE r[Len(r)], l)
         IN /\ Total(r) \in Int /\ edge \in Int
            /\ Total(Append(r, l)) = Total(r) + edge
<1> DEFINE N == Len(r)
           s == Append(r, l)
           edge == Cost(IF r = <<>> THEN 0 ELSE r[Len(r)], l)
<1>1. N \in Nat /\ s \in Seq(Positions) /\ Len(s) = N + 1
  OBVIOUS
<1>2. \A n \in 1..N : s[n] = r[n] /\ s[N + 1] = l
  OBVIOUS
<1>3. \A n \in 1..N : Edge(s, n) = Edge(r, n)
  <2> SUFFICES ASSUME NEW n \in 1..N PROVE Edge(s, n) = Edge(r, n)
    OBVIOUS
  <2>1. s[n] = r[n] /\ (n # 1 => s[n - 1] = r[n - 1])
    OBVIOUS
  <2> HIDE DEF s
  <2> QED
    BY <2>1 DEF Edge
<1>4. Edge(s, N + 1) = edge
  <2>1. s[N + 1] = l /\ (N + 1 = 1 <=> r = <<>>) /\ (N # 0 => s[N + 1 - 1] = r[N])
    OBVIOUS
  <2> HIDE DEF s, N
  <2>2. (IF N + 1 = 1 THEN 0 ELSE s[N + 1 - 1]) = (IF r = <<>> THEN 0 ELSE r[N])
    BY <1>1, <2>1
  <2> QED
    BY <2>1, <2>2 DEF Edge, N
<1> HIDE DEF s, N
<1>5. PICK f : /\ f \in [0..N -> Int] /\ f[0] = 0 /\ Total(r) = f[N]
               /\ \A n \in 1..N : f[n] = f[n - 1] + Edge(r, n)
  BY TotalUnfold DEF N
<1>6. PICK g : /\ g \in [0..(N + 1) -> Int] /\ g[0] = 0 /\ Total(s) = g[N + 1]
               /\ \A n \in 1..(N + 1) : g[n] = g[n - 1] + Edge(s, n)
  BY <1>1, TotalUnfold
<1>7. N \in {n \in Nat : n <= N => g[n] = f[n]}
  <2> DEFINE Same == {n \in Nat : n <= N => g[n] = f[n]}
  <2>1. 0 \in Same
    BY <1>5, <1>6
  <2>2. ASSUME NEW n \in Nat, n \in Same
        PROVE  n + 1 \in Same
    <3>1. SUFFICES ASSUME n + 1 <= N PROVE g[n + 1] = f[n + 1]
      OBVIOUS
    <3>2. n + 1 \in 1..N /\ n + 1 \in 1..(N + 1) /\ n + 1 - 1 = n /\ n <= N
      BY <1>1, <3>1
    <3>3. f[n + 1] = f[n] + Edge(r, n + 1) /\ g[n + 1] = g[n] + Edge(s, n + 1)
      BY <1>5, <1>6, <3>2
    <3>4. g[n] = f[n] /\ Edge(s, n + 1) = Edge(r, n + 1)
      BY <1>3, <2>2, <3>2
    <3> QED BY <3>3, <3>4
  <2>3. Nat \subseteq Same
    <3> HIDE DEF Same
    <3> QED BY <2>1, <2>2, NatSetInduction
  <2> QED BY <1>1, <2>3
<1>8. g[N + 1] = g[N] + Edge(s, N + 1) /\ g[N] = f[N]
  <2>1. N + 1 \in 1..(N + 1) /\ N + 1 - 1 = N
    BY <1>1
  <2> QED
    BY <1>1, <1>6, <1>7, <2>1
<1>9. edge \in Int
  <2>1. (IF r = <<>> THEN 0 ELSE r[N]) \in {0} \cup Positions
    BY <1>1 DEF N
  <2> QED
    BY <2>1, CostsAreNumbers DEF N
<1>10. f[N] \in Int
  BY <1>1, <1>5
<1> HIDE DEF edge
<1>11. Total(s) = Total(r) + edge /\ Total(r) \in Int
  BY <1>4, <1>5, <1>6, <1>8, <1>10
<1> QED
  BY <1>9, <1>11 DEF s, edge

\* A route of k stops is a sequence of k different positions.
LEMMA RouteBasics ==
  ASSUME PoolOK, NEW k \in Nat, NEW r \in Routes(k)
  PROVE  /\ r \in Seq(Positions) /\ Len(r) = k
         /\ ToSet(r) = {r[i] : i \in 1..k} /\ ToSet(r) \in SUBSET Positions
         /\ IsFiniteSet(ToSet(r)) /\ Cardinality(ToSet(r)) = k
<1>1. r \in [1..k -> Positions] /\ IsInjective(r)
  BY DEF Routes
<1>2. r \in Seq(Positions) /\ Len(r) = k
  BY <1>1
<1>3. ToSet(r) = {r[i] : i \in 1..k} /\ ToSet(r) \in SUBSET Positions
  BY <1>2, ElementsByIndex
<1>4. r \in Surjection(1..k, ToSet(r)) /\ r \in Injection(1..k, ToSet(r))
  BY <1>1, <1>3 DEF Surjection, Injection
<1>5. IsFiniteSet(1..k) /\ Cardinality(1..k) = k
  BY FS_Interval
<1>6. IsFiniteSet(ToSet(r)) /\ Cardinality(ToSet(r)) = Cardinality(1..k)
  BY <1>4, <1>5, FS_Surjection
<1> QED
  BY <1>2, <1>3, <1>5, <1>6

\* The first stops of a route are a route.
LEMMA RoutePrefix ==
  ASSUME PoolOK, NEW m \in Nat, NEW k \in Nat, k <= m, NEW r \in Routes(m)
  PROVE  [i \in 1..k |-> r[i]] \in Routes(k)
<1> DEFINE s == [i \in 1..k |-> r[i]]
<1>1. r \in [1..m -> Positions] /\ IsInjective(r) /\ \A i \in 1..m : Finite(Edge(r, i))
  BY DEF Routes
<1>2. \A i \in 1..k : i \in 1..m /\ s[i] = r[i] /\ (i # 1 => s[i - 1] = r[i - 1])
  OBVIOUS
<1>3. s \in [1..k -> Positions] /\ DOMAIN s = 1..k
  BY <1>1, <1>2
<1> HIDE DEF s
<1>4. IsInjective(s)
  BY <1>1, <1>2, <1>3 DEF IsInjective
<1>5. \A i \in 1..k : Edge(s, i) = Edge(r, i)
  BY <1>2 DEF Edge
<1>6. s \in Routes(k)
  BY <1>1, <1>2, <1>3, <1>4, <1>5 DEF Routes
<1> QED
  BY <1>6 DEF s

\* A route goes on to any position that it has not visited, at a finite cost.
LEMMA RouteLonger ==
  ASSUME PoolOK, NEW k \in Nat \ {0}, NEW r \in Routes(k),
         NEW l \in Positions \ ToSet(r), Finite(Cost(r[k], l))
  PROVE  /\ Append(r, l) \in Routes(k + 1) /\ ToSet(Append(r, l)) = ToSet(r) \cup {l}
         /\ Append(r, l)[k + 1] = l /\ \A i \in 1..k : Append(r, l)[i] = r[i]
         /\ Total(Append(r, l)) = Total(r) + Cost(r[k], l)
<1> DEFINE s == Append(r, l)
<1>1. r \in Seq(Positions) /\ Len(r) = k /\ k \in Nat /\ k # 0 /\ l \in Positions
  BY RouteBasics
<1>2. /\ r \in [1..k -> Positions] /\ IsInjective(r) /\ \A i \in 1..k : Finite(Edge(r, i))
      /\ \A i \in 1..k : r[i] \in ToSet(r)
  BY <1>1, ElementsByIndex DEF Routes
<1>3. s \in [1..(k + 1) -> Positions] /\ DOMAIN s = 1..(k + 1) /\ s[k + 1] = l
  <2>1. s \in Seq(Positions) /\ Len(s) = k + 1 /\ s[k + 1] = l
    BY <1>1
  <2> HIDE DEF s
  <2>2. \A q \in Seq(Positions) : q \in [1..Len(q) -> Positions]
    OBVIOUS
  <2>3. s \in [1..Len(s) -> Positions]
    BY <2>1, <2>2
  <2> QED
    BY <2>1, <2>3
<1>4. \A i \in 1..k : s[i] = r[i]
  BY <1>1
<1>5. ToSet(s) = ToSet(r) \cup {l}
  BY <1>1, AppendElements
<1>6. Total(s) = Total(r) + Cost(r[k], l)
  <2>1. (IF r = <<>> THEN 0 ELSE r[Len(r)]) = r[k]
    BY <1>1
  <2> QED
    BY <1>1, <2>1, TotalAppend
<1> HIDE DEF s
<1>7. IsInjective(s)
  <2>1. \A i \in 1..(k + 1) : i \in 1..k \/ i = k + 1
    BY <1>1
  <2> QED
    BY <1>2, <1>3, <1>4, <2>1 DEF IsInjective
<1>8. ASSUME NEW i \in 1..(k + 1)
      PROVE  Finite(Edge(s, i))
  <2>1. CASE i \in 1..k
    <3>1. s[i] = r[i] /\ (i # 1 => s[i - 1] = r[i - 1])
      BY <1>1, <1>4, <2>1
    <3>2. Edge(s, i) = Edge(r, i)
      BY <3>1 DEF Edge
    <3> QED
      BY <1>2, <2>1, <3>2
  <2>2. CASE i = k + 1
    <3>1. s[i] = l /\ i # 1 /\ s[i - 1] = r[k]
      BY <1>1, <1>3, <1>4, <2>2
    <3>2. Edge(s, i) = Cost(r[k], l)
      BY <3>1 DEF Edge
    <3> QED
      BY <3>2
  <2> QED
    BY <1>1, <2>1, <2>2
<1>9. s \in Routes(k + 1)
  BY <1>3, <1>7, <1>8 DEF Routes
<1> QED
  BY <1>3, <1>4, <1>5, <1>6, <1>9 DEF s

\* A route of more than one stop is one with a stop less, and its last edge.
LEMMA RouteFront ==
  ASSUME PoolOK, NEW k \in Nat \ {0}, NEW r \in Routes(k + 1)
  PROVE  LET front == [i \in 1..k |-> r[i]]
         IN /\ front \in Routes(k) /\ front[k] = r[k] /\ r[k] \in Positions
            /\ r[k + 1] \in Positions \ ToSet(front)
            /\ ToSet(front) = ToSet(r) \ {r[k + 1]} /\ r[k + 1] \in ToSet(r)
            /\ Finite(Cost(r[k], r[k + 1]))
            /\ Total(r) = Total(front) + Cost(r[k], r[k + 1])
<1> DEFINE front == [i \in 1..k |-> r[i]]
           l == r[k + 1]
<1>1. /\ r \in [1..(k + 1) -> Positions] /\ IsInjective(r) /\ Finite(Edge(r, k + 1))
      /\ k + 1 \in 1..(k + 1) /\ k \in Nat /\ k # 0 /\ k \in 1..(k + 1)
  BY DEF Routes
<1>2. front \in Routes(k)
  BY <1>1, RoutePrefix
<1>3. front \in Seq(Positions) /\ Len(front) = k /\ ToSet(front) = {front[i] : i \in 1..k}
  BY <1>1, <1>2, RouteBasics
<1>4. l \in Positions /\ r[k] \in Positions /\ front[k] = r[k] /\ \A i \in 1..k : front[i] = r[i]
  BY <1>1
<1>5. \A i \in 1..k : i \in 1..(k + 1) /\ i # k + 1
  BY <1>1
<1>6. l \notin ToSet(front)
  BY <1>1, <1>3, <1>4, <1>5 DEF IsInjective
<1>7. ToSet(r) = {r[i] : i \in 1..(k + 1)}
  BY <1>1, RouteBasics
<1>8. ToSet(front) = ToSet(r) \ {l} /\ l \in ToSet(r)
  <2>1. \A i \in 1..(k + 1) : i \in 1..k \/ i = k + 1
    BY <1>1
  <2> HIDE DEF front
  <2> QED
    BY <1>1, <1>3, <1>4, <1>5, <1>6, <1>7, <2>1
<1>9. Edge(r, k + 1) = Cost(r[k], l)
  <2>1. k + 1 # 1 /\ k + 1 - 1 = k
    BY <1>1
  <2> QED
    BY <2>1 DEF Edge
<1>10. r = Append(front, l)
  <2> HIDE DEF front
  <2>1. Append(front, l) \in [1..(k + 1) -> Positions]
    <3> DEFINE q == Append(front, l)
    <3>1. q \in Seq(Positions) /\ Len(q) = k + 1
      BY <1>1, <1>3, <1>4
    <3> HIDE DEF q
    <3>2. q \in [1..Len(q) -> Positions]
      BY <3>1
    <3> QED
      BY <3>1, <3>2 DEF q
  <2>2. \A i \in 1..(k + 1) : Append(front, l)[i] = r[i]
    BY <1>1, <1>3, <1>4
  <2> QED
    BY <1>1, <2>1, <2>2
<1> HIDE DEF front, l
<1>11. Total(r) = Total(front) + Cost(r[k], l)
  <2>1. (IF front = <<>> THEN 0 ELSE front[Len(front)]) = r[k]
    BY <1>1, <1>3, <1>4
  <2> QED
    BY <1>3, <1>4, <1>10, <2>1, TotalAppend
<1> QED
  BY <1>1, <1>2, <1>4, <1>6, <1>8, <1>9, <1>11 DEF front, l

-----------------------------------------------------------------------------
(* The layers of dp.                                                       *)

\* Where the first k stops of r lead: the positions visited, and the last one.
Key(r, k) == <<{r[i] : i \in 1..k}, r[k]>>

\* The parents lead from stop k of r back to its first.
Traced(r, k, parents) ==
  \A i \in 2..k : Key(r, i) \in DOMAIN parents /\ parents[Key(r, i)] = r[i - 1]

\* Every entry of a layer of d stops is the cost of a route that the parents trace,
\* and every route of d stops has an entry that costs no more.
LayerFits(d, costs, parents) ==
  /\ \A q \in DOMAIN costs : \E r \in Routes(d) :
       q = Key(r, d) /\ costs[q] = Total(r) /\ Traced(r, d, parents)
  /\ \A r \in Routes(d) : Key(r, d) \in DOMAIN costs /\ costs[Key(r, d)] <= Total(r)

\* Routes and totals are those of the call.
LEMMA RoutesStay ==
  ASSUME UNCHANGED <<job, pool>>
  PROVE  /\ \A k : Routes(k)' = Routes(k)
         /\ \A r : Total(r)' = Total(r)
         /\ \A i, k : Cost(i, k)' = Cost(i, k)
<1>1. \A k : Routes(k)' = Routes(k)
  BY DEF Routes, Edge, Cost, Positions
<1>2. \A r : Total(r)' = Total(r)
  BY DEF Total, Edge, Cost
<1>3. \A i, k : Cost(i, k)' = Cost(i, k)
  BY DEF Cost
<1> QED
  BY <1>1, <1>2, <1>3

\* The entries of a layer are integers, and a route has one for the stops it visits.
LEMMA LayerFacts ==
  ASSUME PoolOK, NEW d \in Nat, LayerFits(d, layer, parent)
  PROVE  /\ \A q \in DOMAIN layer : /\ q = <<q[1], q[2]>> /\ q[1] \in SUBSET Positions
                                    /\ layer[q] \in Int /\ Cardinality(q[1]) = d
         /\ \A r \in Routes(d) : Key(r, d) = <<ToSet(r), r[d]>> /\ Total(r) \in Int
<1>1. ASSUME NEW r \in Routes(d)
      PROVE  /\ Key(r, d) = <<ToSet(r), r[d]>> /\ Total(r) \in Int
             /\ ToSet(r) \in SUBSET Positions /\ Cardinality(ToSet(r)) = d
  <2>1. /\ r \in Seq(Positions) /\ Len(r) = d /\ ToSet(r) = {r[i] : i \in 1..d}
        /\ ToSet(r) \in SUBSET Positions /\ Cardinality(ToSet(r)) = d
    BY RouteBasics
  <2>2. PICK f : f \in [0..Len(r) -> Int] /\ Total(r) = f[Len(r)]
    BY <2>1, TotalUnfold
  <2>3. f[Len(r)] \in Int
    BY <2>1, <2>2
  <2> QED
    BY <2>1, <2>2, <2>3 DEF Key
<1>2. ASSUME NEW q \in DOMAIN layer
      PROVE  /\ q = <<q[1], q[2]>> /\ q[1] \in SUBSET Positions
             /\ layer[q] \in Int /\ Cardinality(q[1]) = d
  <2>1. PICK r \in Routes(d) : q = Key(r, d) /\ layer[q] = Total(r)
    BY DEF LayerFits
  <2>2. q = <<ToSet(r), r[d]>> /\ q[1] = ToSet(r)
    BY <1>1, <2>1
  <2> QED
    BY <1>1, <2>1, <2>2
<1> QED
  BY <1>1, <1>2

\* The relaxation of one state: the stop before it that it is cheapest to come from.
LEMMA ExtendFacts ==
  ASSUME PoolOK, NEW d \in Nat, LayerFits(d, layer, parent),
         NEW v \in SUBSET Positions, NEW l \in Positions, Before(v, l) # {}
  PROVE  LET price(i) == layer[<<v \ {l}, i>>] + Cost(i, l)
         IN /\ Extend(v, l) \in Before(v, l)
            /\ \A i \in Before(v, l) : price(Extend(v, l)) <= price(i)
<1> DEFINE price(i) == layer[<<v \ {l}, i>>] + Cost(i, l)
           D == Before(v, l)
           p == [i \in D |-> price(i)]
<1>1. D \subseteq Positions /\ \A i \in D : <<v \ {l}, i>> \in DOMAIN layer
  BY DEF Before
<1>2. D \subseteq Nat /\ IsFiniteSet(D)
  BY <1>1, CostsAreNumbers, FS_Subset
<1>3. \A i \in D : layer[<<v \ {l}, i>>] \in Int
  BY <1>1, LayerFacts
<1>4. \A i \in D : Cost(i, l) \in Int
  BY <1>1, CostsAreNumbers
<1>5. p \in [D -> Int]
  BY <1>3, <1>4
<1>6. Extend(v, l) = FirstCheapest(p)
  BY DEF Extend
<1>7. \A i \in D : p[i] = price(i)
  OBVIOUS
<1> HIDE DEF p, D, price
<1>8. FirstCheapest(p) \in D /\ \A i \in D : p[FirstCheapest(p)] <= p[i]
  BY <1>2, <1>5, CheapestIsCheapest DEF D
<1>9. Extend(v, l) \in D /\ \A i \in D : price(Extend(v, l)) <= price(i)
  BY <1>6, <1>7, <1>8
<1> QED
  BY <1>9 DEF D, price

\* The next layer and its parents, entry by entry.
LEMMA NextEntries ==
  /\ DOMAIN NextCosts(Previous) = NextStates
  /\ DOMAIN NextParents(Previous) = DOMAIN parent \cup NextStates
  /\ \A q \in NextStates :
       LET stop == Extend(q[1], q[2])
       IN /\ NextCosts(Previous)[q] = layer[<<q[1] \ {q[2]}, stop>>] + Cost(stop, q[2])
          /\ NextParents(Previous)[q] = stop
  /\ \A q \in DOMAIN parent \ NextStates : NextParents(Previous)[q] = parent[q]
<1>1. DOMAIN Previous = NextStates /\ \A q \in NextStates : Previous[q] = Extend(q[1], q[2])
  BY DEF Previous
<1> QED
  BY <1>1 DEF NextCosts, NextParents

\* A state of the next layer is a state of this one and one position more.
LEMMA StateFacts ==
  ASSUME PoolOK, depth \in Nat, LayerFits(depth, layer, parent), NEW q \in NextStates
  PROVE  LET v == q[1]  l == q[2]
         IN /\ q = <<v, l>> /\ v \in SUBSET Positions /\ l \in v /\ l \in Positions
            /\ Cardinality(v) = depth + 1 /\ Extend(v, l) \in Before(v, l)
            /\ \A i \in Before(v, l) :
                 layer[<<v \ {l}, Extend(v, l)>>] + Cost(Extend(v, l), l)
                   <= layer[<<v \ {l}, i>>] + Cost(i, l)
<1> DEFINE v == q[1]
           l == q[2]
<1>1. PICK r \in DOMAIN layer, k \in Positions : q = <<r[1] \cup {k}, k>>
  BY DEF NextStates
<1>2. r[1] \in SUBSET Positions
  BY LayerFacts
<1>3. q = <<v, l>> /\ v \in SUBSET Positions /\ l \in v /\ l \in Positions
  BY <1>1, <1>2
<1>4. Cardinality(v) = depth + 1 /\ Before(v, l) # {}
  BY DEF NextStates
<1> HIDE DEF v, l
<1>5. /\ Extend(v, l) \in Before(v, l)
      /\ \A i \in Before(v, l) :
           layer[<<v \ {l}, Extend(v, l)>>] + Cost(Extend(v, l), l)
             <= layer[<<v \ {l}, i>>] + Cost(i, l)
  BY <1>3, <1>4, ExtendFacts
<1> QED
  BY <1>3, <1>4, <1>5 DEF v, l

\* Every entry of the next layer is the cost of a route that the parents trace.
LEMMA NextIsTraced ==
  ASSUME PoolOK, depth \in Nat \ {0}, LayerFits(depth, layer, parent), NEW q \in NextStates
  PROVE  \E r \in Routes(depth + 1) :
           /\ q = Key(r, depth + 1) /\ NextCosts(Previous)[q] = Total(r)
           /\ Traced(r, depth + 1, NextParents(Previous))
<1> DEFINE v == q[1]
           l == q[2]
           e == Extend(v, l)
<1>1. /\ q = <<v, l>> /\ v \in SUBSET Positions /\ l \in v /\ l \in Positions
      /\ e \in Before(v, l)
  BY StateFacts
<1>2. NextCosts(Previous)[q] = layer[<<v \ {l}, e>>] + Cost(e, l)
  BY NextEntries
<1>3. NextParents(Previous)[q] = e /\ q \in DOMAIN NextParents(Previous)
  BY NextEntries
<1> HIDE DEF v, l, e
<1>4. e \in v \ {l} /\ <<v \ {l}, e>> \in DOMAIN layer /\ Finite(Cost(e, l))
  BY <1>1 DEF Before
<1>5. PICK r \in Routes(depth) : /\ <<v \ {l}, e>> = Key(r, depth)
                             /\ layer[<<v \ {l}, e>>] = Total(r) /\ Traced(r, depth, parent)
  BY <1>4 DEF LayerFits
<1>6. ToSet(r) = v \ {l} /\ r[depth] = e /\ ToSet(r) = {r[i] : i \in 1..depth} /\ depth \in Nat /\ depth # 0
  BY <1>5, RouteBasics DEF Key
<1> DEFINE s == Append(r, l)
<1>7. /\ s \in Routes(depth + 1) /\ s[depth + 1] = l /\ \A i \in 1..depth : s[i] = r[i]
      /\ Total(s) = Total(r) + Cost(e, l)
  BY <1>1, <1>4, <1>6, RouteLonger
<1> HIDE DEF s
<1>8. {s[i] : i \in 1..(depth + 1)} = v
  <2>1. \A i \in 1..(depth + 1) : i \in 1..depth \/ i = depth + 1
    BY <1>6
  <2>2. depth + 1 \in 1..(depth + 1) /\ \A i \in 1..depth : i \in 1..(depth + 1)
    BY <1>6
  <2>3. \A x : x \in {s[i] : i \in 1..(depth + 1)} <=> x \in {r[i] : i \in 1..depth} \/ x = l
    BY <1>7, <2>1, <2>2
  <2> QED
    BY <1>1, <1>6, <2>3
<1>9. Key(s, depth + 1) = q
  BY <1>1, <1>7, <1>8 DEF Key
<1>10. ASSUME NEW i \in 2..(depth + 1)
       PROVE  /\ Key(s, i) \in DOMAIN NextParents(Previous)
              /\ NextParents(Previous)[Key(s, i)] = s[i - 1]
  <2>1. CASE i = depth + 1
    <3>1. s[i - 1] = e
      BY <1>6, <1>7, <2>1
    <3> QED
      BY <1>3, <1>9, <2>1, <3>1
  <2>2. CASE i # depth + 1
    <3>1. i \in 2..depth /\ i \in Nat /\ i <= depth
      BY <1>6, <2>2
    <3>2. \A k \in 1..i : s[k] = r[k]
      BY <1>7, <3>1
    <3>3. Key(s, i) = Key(r, i) /\ s[i - 1] = r[i - 1]
      <4>1. i \in 1..i /\ i - 1 \in 1..i
        BY <3>1
      <4>2. {s[k] : k \in 1..i} = {r[k] : k \in 1..i}
        BY <3>2
      <4> QED
        BY <3>2, <4>1, <4>2 DEF Key
    <3>4. Key(r, i) \in DOMAIN parent /\ parent[Key(r, i)] = r[i - 1]
      BY <1>5, <3>1 DEF Traced
    <3>5. Cardinality(Key(r, i)[1]) = i
      <4> DEFINE u == [k \in 1..i |-> r[k]]
      <4>1. u \in Routes(i)
        BY <1>6, <3>1, RoutePrefix
      <4>2. \A k \in 1..i : u[k] = r[k]
        OBVIOUS
      <4> HIDE DEF u
      <4>3. {u[k] : k \in 1..i} = {r[k] : k \in 1..i}
        BY <4>2
      <4>4. Cardinality({u[k] : k \in 1..i}) = i
        BY <3>1, <4>1, RouteBasics
      <4> QED
        BY <4>3, <4>4 DEF Key
    <3>6. Key(r, i) \notin NextStates
      <4>1. i # depth + 1
        BY <2>2
      <4> QED
        BY <3>5, <4>1 DEF NextStates
    <3> QED
      BY <3>3, <3>4, <3>6, NextEntries
  <2> QED
    BY <2>1, <2>2
<1>11. Traced(s, depth + 1, NextParents(Previous))
  BY <1>10 DEF Traced
<1>12. NextCosts(Previous)[q] = Total(s)
  BY <1>2, <1>5, <1>7
<1> QED
  BY <1>7, <1>9, <1>11, <1>12

\* Every route has an entry in the next layer that costs no more.
LEMMA NextIsCheapest ==
  ASSUME PoolOK, depth \in Nat \ {0}, LayerFits(depth, layer, parent), NEW r \in Routes(depth + 1)
  PROVE  Key(r, depth + 1) \in NextStates /\ NextCosts(Previous)[Key(r, depth + 1)] <= Total(r)
<1> DEFINE front == [i \in 1..depth |-> r[i]]
           l == r[depth + 1]
           v == ToSet(r)
           i == r[depth]
<1>0. PICK d : d = depth /\ d \in Nat \ {0} /\ r \in Routes(d + 1)
  OBVIOUS
<1>1. /\ front \in Routes(depth) /\ front[depth] = i /\ i \in Positions
      /\ l \in Positions \ ToSet(front) /\ ToSet(front) = v \ {l} /\ l \in v
      /\ Finite(Cost(i, l)) /\ Total(r) = Total(front) + Cost(i, l)
  <2> DEFINE f == [j \in 1..d |-> r[j]]
  <2>1. f \in Routes(d) /\ f[d] = r[d] /\ r[d] \in Positions
    BY <1>0, RouteFront
  <2>2. r[d + 1] \in Positions \ ToSet(f) /\ ToSet(f) = ToSet(r) \ {r[d + 1]} /\ r[d + 1] \in ToSet(r)
    BY <1>0, RouteFront
  <2>3. Finite(Cost(r[d], r[d + 1])) /\ Total(r) = Total(f) + Cost(r[d], r[d + 1])
    BY <1>0, RouteFront
  <2>4. d = depth /\ f = front
    BY <1>0
  <2> HIDE DEF f, front
  <2> QED
    BY <2>1, <2>2, <2>3, <2>4
<1>2. Key(r, depth + 1) = <<v, l>> /\ Cardinality(v) = depth + 1
  <2>1. depth + 1 \in Nat
    OBVIOUS
  <2> QED
    BY <2>1, RouteBasics DEF Key
<1>3. i \in ToSet(front)
  <2>1. depth \in Nat /\ depth \in 1..depth
    OBVIOUS
  <2> HIDE DEF front
  <2>2. ToSet(front) = {front[k] : k \in 1..depth}
    BY <1>1, <2>1, RouteBasics
  <2> QED
    BY <1>1, <2>1, <2>2
<1> HIDE DEF front, l, v, i
<1>4. /\ Key(front, depth) = <<v \ {l}, i>> /\ Total(front) \in Int
      /\ <<v \ {l}, i>> \in DOMAIN layer /\ layer[<<v \ {l}, i>>] <= Total(front)
      /\ layer[<<v \ {l}, i>>] \in Int
  <2>1. Key(front, depth) = <<v \ {l}, i>> /\ Total(front) \in Int
    BY <1>1, LayerFacts
  <2>2. Key(front, depth) \in DOMAIN layer /\ layer[Key(front, depth)] <= Total(front)
    BY <1>1 DEF LayerFits
  <2>3. layer[Key(front, depth)] \in Int
    BY <2>2, LayerFacts
  <2> QED
    BY <2>1, <2>2, <2>3
<1>5. i \in Before(v, l)
  BY <1>1, <1>3, <1>4 DEF Before
<1>6. <<v, l>> \in NextStates
  <2> DEFINE q == <<v \ {l}, i>>
  <2>1. q \in DOMAIN layer /\ q[1] \cup {l} = v
    BY <1>1, <1>4
  <2>2. <<v, l>> = <<q[1] \cup {l}, l>>
    BY <2>1
  <2> HIDE DEF q
  <2>3. <<v, l>> \in {<<u[1] \cup {k}, k>> : u \in DOMAIN layer, k \in Positions}
    BY <1>1, <2>1, <2>2
  <2> QED
    BY <1>2, <1>5, <2>3 DEF NextStates
<1> DEFINE e == Extend(v, l)
<1>7. /\ e \in Before(v, l)
      /\ layer[<<v \ {l}, e>>] + Cost(e, l) <= layer[<<v \ {l}, i>>] + Cost(i, l)
  BY <1>5, <1>6, StateFacts
<1>8. NextCosts(Previous)[<<v, l>>] = layer[<<v \ {l}, e>>] + Cost(e, l)
  BY <1>6, NextEntries
<1>9. layer[<<v \ {l}, e>>] \in Int /\ Cost(e, l) \in Int /\ Cost(i, l) \in Int
  <2>1. e \in v /\ <<v \ {l}, e>> \in DOMAIN layer
    BY <1>7 DEF Before
  <2>2. v \in SUBSET Positions
    <3>1. depth + 1 \in Nat
      OBVIOUS
    <3> QED
      BY <3>1, RouteBasics DEF v
  <2> HIDE DEF e
  <2>3. layer[<<v \ {l}, e>>] \in Int
    BY <2>1, LayerFacts
  <2> QED
    BY <1>1, <2>1, <2>2, <2>3, CostsAreNumbers
<1> HIDE DEF e
<1>10. layer[<<v \ {l}, e>>] + Cost(e, l) <= Total(front) + Cost(i, l)
  BY <1>4, <1>7, <1>9
<1> QED
  BY <1>1, <1>2, <1>6, <1>8, <1>10

\* The next layer fits.
LEMMA NextFits ==
  ASSUME PoolOK, depth \in Nat \ {0}, LayerFits(depth, layer, parent)
  PROVE  LayerFits(depth + 1, NextCosts(Previous), NextParents(Previous))
BY NextEntries, NextIsTraced, NextIsCheapest DEF LayerFits

\* The first layer fits: the routes of one stop.
LEMMA FirstFits ==
  ASSUME PoolOK, NEW parents
  PROVE  LayerFits(1, FirstLayer(job, pool), parents)
<1> DEFINE L == FirstLayer(job, pool)
           Start == {k \in DOMAIN pool : Finite(job.cost[<<0, pool[k]>>])}
           single(i) == [n \in 1..1 |-> i]
<1>1. DOMAIN pool = Positions
  BY DEF PoolOK, Positions
<1>2. \A k \in Positions : Cost(0, k) = job.cost[<<0, pool[k]>>]
  BY DEF Cost
<1>3. L = [q \in {<<{i}, i>> : i \in Start} |-> job.cost[<<0, pool[q[2]]>>]]
  BY DEF FirstLayer
<1>4. Start = {k \in Positions : Finite(Cost(0, k))}
  BY <1>1, <1>2
<1> HIDE DEF L, Start
<1>5. \A q \in Routes(1) : q[1] \in Positions /\ q = single(q[1]) /\ Finite(Cost(0, q[1]))
  <2> SUFFICES ASSUME NEW q \in Routes(1)
               PROVE  q[1] \in Positions /\ q = single(q[1]) /\ Finite(Cost(0, q[1]))
    OBVIOUS
  <2>1. q \in [1..1 -> Positions] /\ Finite(Edge(q, 1))
    BY DEF Routes
  <2>2. Edge(q, 1) = Cost(0, q[1])
    BY DEF Edge
  <2> QED
    BY <2>1, <2>2
<1>6. \A i \in Start : single(i) \in Routes(1)
  <2> SUFFICES ASSUME NEW i \in Start PROVE single(i) \in Routes(1)
    OBVIOUS
  <2>1. single(i) \in [1..1 -> Positions] /\ single(i)[1] = i
    BY <1>4
  <2>2. IsInjective(single(i))
    BY DEF IsInjective
  <2>3. Edge(single(i), 1) = Cost(0, i)
    BY <2>1 DEF Edge
  <2> HIDE DEF single
  <2>4. \A n \in 1..1 : n = 1
    OBVIOUS
  <2> QED
    BY <1>4, <2>1, <2>2, <2>3, <2>4 DEF Routes
<1>7. \A q : Key(q, 1) = <<{q[1]}, q[1]>>
  <2>1. 1..1 = {1}
    OBVIOUS
  <2>2. \A q : {q[i] : i \in 1..1} = {q[1]}
    BY <2>1
  <2> QED
    BY <2>2 DEF Key
<1>8. \A q, p : Traced(q, 1, p)
  BY DEF Traced
<1>9. \A i \in Positions : single(i)[1] = i
  OBVIOUS
<1>10. \A q \in Routes(1) : Total(q) = Cost(0, q[1])
  <2> SUFFICES ASSUME NEW q \in Routes(1) PROVE Total(q) = Cost(0, q[1])
    OBVIOUS
  <2>1. q \in Seq(Positions) /\ Len(q) = 1
    BY RouteBasics
  <2>2. PICK f : /\ f \in [0..Len(q) -> Int] /\ f[0] = 0 /\ Total(q) = f[Len(q)]
                 /\ \A n \in 1..Len(q) : f[n] = f[n - 1] + Edge(q, n)
    BY <2>1, TotalUnfold
  <2>3. f[1] = f[1 - 1] + Edge(q, 1) /\ 1 - 1 = 0
    BY <2>1, <2>2
  <2>4. Edge(q, 1) = Cost(0, q[1])
    BY DEF Edge
  <2>5. Cost(0, q[1]) \in Int
    BY <1>5, CostsAreNumbers
  <2> QED
    BY <2>1, <2>2, <2>3, <2>4, <2>5
<1> HIDE DEF single
<1>11. ASSUME NEW q \in DOMAIN L
       PROVE  \E r \in Routes(1) : q = Key(r, 1) /\ L[q] = Total(r) /\ Traced(r, 1, parents)
  <2>1. PICK i \in Start : q = <<{i}, i>>
    BY <1>3
  <2>2. single(i) \in Routes(1) /\ single(i)[1] = i /\ i \in Positions
    BY <1>4, <1>6, <1>9
  <2>3. L[q] = Cost(0, i)
    BY <1>2, <1>3, <2>1, <2>2
  <2> QED
    BY <1>7, <1>8, <1>10, <2>1, <2>2, <2>3
<1>12. ASSUME NEW r \in Routes(1)
       PROVE  Key(r, 1) \in DOMAIN L /\ L[Key(r, 1)] <= Total(r)
  <2>1. r[1] \in Start /\ Key(r, 1) = <<{r[1]}, r[1]>>
    BY <1>4, <1>5, <1>7
  <2>2. Key(r, 1) \in DOMAIN L /\ L[Key(r, 1)] = job.cost[<<0, pool[r[1]]>>]
    BY <1>3, <2>1
  <2>3. L[Key(r, 1)] = Total(r) /\ Total(r) \in Int
    BY <1>2, <1>5, <1>10, <2>2, CostsAreNumbers
  <2> QED
    BY <2>2, <2>3
<1>13. LayerFits(1, L, parents)
  BY <1>11, <1>12 DEF LayerFits
<1> QED
  BY <1>13 DEF L

\* Routes lead to every entry, so a layer without one means that there is no route.
LEMMA NoLongerRoute ==
  ASSUME PoolOK, NEW d \in Nat, NEW m \in Nat, d <= m, Routes(d) = {}
  PROVE  Routes(m) = {}
BY RoutePrefix

\* The order in which dp looks for its best entry: cost, then mask, then last stop.
NoLater(q, s) ==
  \/ layer[q] < layer[s]
  \/ /\ layer[q] = layer[s]
     /\ \/ LowerMask(q[1], s[1])
        \/ q[1] = s[1] /\ q[2] <= s[2]

\* A layer has a best entry.
LEMMA BestExists ==
  ASSUME PoolOK, NEW d \in Nat \ {0}, LayerFits(d, layer, parent), DOMAIN layer # {}
  PROVE  \E q \in DOMAIN layer : \A s \in DOMAIN layer : NoLater(q, s)
<1> DEFINE D == DOMAIN layer
           R == {e \in D \X D : NoLater(e[1], e[2])}
<1>1. \A q, s \in D : <<q, s>> \in R <=> NoLater(q, s)
  OBVIOUS
<1>2. \A q \in D : /\ q = <<q[1], q[2]>> /\ q[1] \in SUBSET Positions
                   /\ q[2] \in Positions /\ layer[q] \in Int
  <2> SUFFICES ASSUME NEW q \in D
               PROVE  /\ q = <<q[1], q[2]>> /\ q[1] \in SUBSET Positions
                      /\ q[2] \in Positions /\ layer[q] \in Int
    OBVIOUS
  <2>1. q = <<q[1], q[2]>> /\ q[1] \in SUBSET Positions /\ layer[q] \in Int
    BY LayerFacts
  <2>2. PICK r \in Routes(d) : q = Key(r, d)
    BY DEF LayerFits
  <2>3. q[2] = r[d] /\ r[d] \in Positions
    BY <2>2 DEF Key, Routes
  <2> QED
    BY <2>1, <2>3
<1>3. Positions \subseteq Nat /\ IsFiniteSet(Positions) /\ pool \in Seq(Nat)
  BY CostsAreNumbers DEF PoolOK, JobOK
<1>4. IsFiniteSet(D)
  <2>1. IsFiniteSet(SUBSET Positions)
    BY <1>3, FS_SUBSET
  <2>2. IsFiniteSet((SUBSET Positions) \X Positions)
    BY <1>3, <2>1, FS_Product
  <2>3. D \subseteq (SUBSET Positions) \X Positions
    BY <1>2
  <2> HIDE DEF D
  <2> QED
    BY <2>2, <2>3, FS_Subset
<1> HIDE DEF R
<1>5. \A q, s \in D : NoLater(q, s) \/ NoLater(s, q)
  <2> SUFFICES ASSUME NEW q \in D, NEW s \in D PROVE NoLater(q, s) \/ NoLater(s, q)
    OBVIOUS
  <2>1. q[1] = s[1] \/ LowerMask(q[1], s[1]) \/ LowerMask(s[1], q[1])
    BY <1>2, <1>3, MasksCompare
  <2>2. q[2] \in Nat /\ s[2] \in Nat /\ layer[q] \in Int /\ layer[s] \in Int
    BY <1>2, <1>3
  <2> QED
    BY <2>1, <2>2 DEF NoLater
<1>6. \A q, s, u \in D : NoLater(q, s) /\ NoLater(s, u) => NoLater(q, u)
  <2> SUFFICES ASSUME NEW q \in D, NEW s \in D, NEW u \in D, NoLater(q, s), NoLater(s, u)
               PROVE  NoLater(q, u)
    OBVIOUS
  <2>1. LowerMask(q[1], s[1]) /\ LowerMask(s[1], u[1]) => LowerMask(q[1], u[1])
    BY <1>2, <1>3, MasksInOrder
  <2>2. /\ q[2] \in Nat /\ s[2] \in Nat /\ u[2] \in Nat
        /\ layer[q] \in Int /\ layer[s] \in Int /\ layer[u] \in Int
    BY <1>2, <1>3
  <2> QED
    BY <2>1, <2>2 DEF NoLater
<1> HIDE DEF D
<1>7. \A q, s \in D : <<q, s>> \in R \/ <<s, q>> \in R
  BY <1>1, <1>5
<1>8. \A q, s, u \in D : <<q, s>> \in R /\ <<s, u>> \in R => <<q, u>> \in R
  BY <1>1, <1>6
<1>9. D # {}
  BY DEF D
<1>10. \E q \in D : \A s \in D : <<q, s>> \in R
  BY <1>4, <1>7, <1>8, <1>9, FiniteLeast
<1>11. \E q \in D : \A s \in D : NoLater(q, s)
  BY <1>1, <1>10
<1> QED
  BY <1>11 DEF D

\* The walk back along the parents gives the stops of the route that they trace.
LEMMA WalkedBack ==
  ASSUME PoolOK, depth \in Nat \ {0},
         NEW r \in Routes(depth), Traced(r, depth, parent), NEW last, last = Key(r, depth)
  PROVE  WalkBack(last) = r
<1>0. PICK d \in Nat \ {0} : d = depth
  OBVIOUS
<1> DEFINE On(q) == <<q[1] \ {q[2]}, parent[q]>>
           Step(f, k) == IF k = 0 THEN last ELSE On(f[k - 1])
           N == 0..(d - 1)
           key == [k \in N |-> Key(r, d - k)]
           back == CHOOSE f : f = [k \in N |-> IF k = 0 THEN last
                                               ELSE <<f[k - 1][1] \ {f[k - 1][2]}, parent[f[k - 1]]>>]
<1>1. r \in [1..d -> Positions] /\ IsInjective(r) /\ Traced(r, d, parent) /\ last = Key(r, d)
  BY <1>0 DEF Routes
<1>2. ASSUME NEW i \in 2..d
      PROVE  On(Key(r, i)) = Key(r, i - 1)
  <2>1. parent[Key(r, i)] = r[i - 1]
    BY <1>1 DEF Traced
  <2>2. \A j \in 1..i : j \in 1..d /\ (j \in 1..(i - 1) \/ j = i)
    OBVIOUS
  <2>3. \A j \in 1..(i - 1) : j \in 1..i /\ j # i
    OBVIOUS
  <2>4. i \in 1..i /\ i \in 1..d
    OBVIOUS
  <2>5. \A j \in 1..(i - 1) : r[j] # r[i]
    BY <1>1, <2>2, <2>3, <2>4 DEF IsInjective
  <2>6. {r[j] : j \in 1..i} \ {r[i]} = {r[j] : j \in 1..(i - 1)}
    BY <2>2, <2>3, <2>5
  <2> QED
    BY <2>1, <2>6 DEF Key
<1> HIDE DEF On
<1>3. ASSUME NEW k \in N
      PROVE  key[k] = Step(key, k)
  <2>1. CASE k = 0
    BY <1>1, <2>1
  <2>2. CASE k # 0
    <3>1. d - k + 1 \in 2..d /\ k - 1 \in N /\ d - (k - 1) = d - k + 1 /\ (d - k + 1) - 1 = d - k
      BY <2>2
    <3>2. On(Key(r, d - k + 1)) = Key(r, d - k)
      BY <1>2, <3>1
    <3> QED
      BY <2>2, <3>1, <3>2
  <2> QED
    BY <2>1, <2>2
<1>4. key = [k \in N |-> Step(key, k)]
  <2>1. DOMAIN key = N
    OBVIOUS
  <2> HIDE DEF N, Step
  <2>2. \A k \in N : key[k] = Step(key, k)
    BY <1>3
  <2>3. key = [k \in N |-> key[k]]
    OBVIOUS
  <2> HIDE DEF key
  <2> QED
    BY <2>2, <2>3
<1>5. back = [k \in N |-> Step(back, k)]
  <2>1. key = [k \in N |-> IF k = 0 THEN last
                           ELSE <<key[k - 1][1] \ {key[k - 1][2]}, parent[key[k - 1]]>>]
    BY <1>4 DEF On
  <2> HIDE DEF key, N
  <2>2. back = [k \in N |-> IF k = 0 THEN last
                            ELSE <<back[k - 1][1] \ {back[k - 1][2]}, parent[back[k - 1]]>>]
    BY <2>1
  <2> HIDE DEF back
  <2> QED
    BY <2>2 DEF On
<1> HIDE DEF back
<1>6. \A k \in N : back[k] = Step(back, k)
  <2> HIDE DEF Step, N
  <2> QED
    BY <1>5
<1> DEFINE Good == {k \in Nat : k \in N => back[k] = key[k]}
<1>7. 0 \in Good
  BY <1>3, <1>6
<1>8. ASSUME NEW k \in Nat, k \in Good
      PROVE  k + 1 \in Good
  <2> SUFFICES ASSUME k + 1 \in N PROVE back[k + 1] = key[k + 1]
    BY DEF Good
  <2>1. k \in N /\ k + 1 # 0 /\ k + 1 - 1 = k
    OBVIOUS
  <2> HIDE DEF N, key
  <2>2. back[k] = key[k]
    BY <1>8, <2>1
  <2>3. back[k + 1] = On(back[k]) /\ key[k + 1] = On(key[k])
    BY <1>3, <1>6, <2>1
  <2> QED
    BY <2>2, <2>3
<1>9. \A k \in Nat : k \in Good
  <2> HIDE DEF Good
  <2> QED
    BY <1>7, <1>8, NatSetInduction
<1>10. \A k \in 1..d : back[d - k][2] = r[k]
  <2> SUFFICES ASSUME NEW k \in 1..d PROVE back[d - k][2] = r[k]
    OBVIOUS
  <2>1. d - k \in Nat /\ d - k \in N /\ d - (d - k) = k
    OBVIOUS
  <2>2. back[d - k] = key[d - k]
    <3> HIDE DEF key, N
    <3> QED
      BY <1>9, <2>1
  <2>3. key[d - k] = Key(r, k)
    BY <2>1
  <2> QED
    BY <2>2, <2>3 DEF Key
<1>11. [k \in 1..d |-> back[d - k][2]] = r
  BY <1>1, <1>10
<1>12. WalkBack(last) = [k \in 1..depth |-> back[depth - k][2]]
  BY <1>0 DEF back, WalkBack
<1> QED
  BY <1>0, <1>11, <1>12

\* PickRoute picks a cheapest route.
LEMMA PickedIsCheapest ==
  ASSUME PoolOK, depth \in Nat \ {0}, LayerFits(depth, layer, parent), DOMAIN layer # {}, PickRoute
  PROVE  route' \in Routes(depth) /\ \A r \in Routes(depth) : Total(route') <= Total(r)
<1> DEFINE best == CHOOSE r \in DOMAIN layer : \A s \in DOMAIN layer :
                     \/ layer[r] < layer[s]
                     \/ /\ layer[r] = layer[s]
                        /\ \/ LowerMask(r[1], s[1])
                           \/ r[1] = s[1] /\ r[2] <= s[2]
<1>1. best \in DOMAIN layer /\ \A s \in DOMAIN layer : NoLater(best, s)
  BY BestExists DEF NoLater
<1>2. route' = WalkBack(best)
  BY DEF PickRoute
<1> HIDE DEF best
<1>3. PICK r \in Routes(depth) :
        best = Key(r, depth) /\ layer[best] = Total(r) /\ Traced(r, depth, parent)
  BY <1>1 DEF LayerFits
<1>4. route' = r
  BY <1>2, <1>3, WalkedBack
<1>5. ASSUME NEW s \in Routes(depth)
      PROVE  Total(r) <= Total(s)
  <2>1. Key(s, depth) \in DOMAIN layer /\ layer[Key(s, depth)] <= Total(s)
    BY DEF LayerFits
  <2>2. layer[Key(s, depth)] \in Int /\ layer[best] \in Int /\ Total(s) \in Int
    BY <1>1, <2>1, LayerFacts
  <2>3. layer[best] <= layer[Key(s, depth)]
    BY <1>1, <2>1, <2>2 DEF NoLater
  <2> QED
    BY <1>3, <2>1, <2>2, <2>3
<1> QED
  BY <1>4, <1>5

-----------------------------------------------------------------------------
(* The greedy walk.                                                        *)

\* Every stop so far is a cheapest of those that were left.
Greedily(r) ==
  /\ r \in Seq(Positions) /\ IsInjective(r)
  /\ \A i \in DOMAIN r : \A k \in Positions \ ToSet(SubSeq(r, 1, i - 1)) :
       Edge(r, i) <= Cost(IF i = 1 THEN 0 ELSE r[i - 1], k)

\* A stop on top of a sequence leaves its first parts as they are.
LEMMA AppendParts ==
  ASSUME NEW T, NEW r \in Seq(T), NEW l \in T
  PROVE  /\ \A m \in 0..Len(r) : SubSeq(Append(r, l), 1, m) = SubSeq(r, 1, m)
         /\ SubSeq(r, 1, Len(r)) = r
<1>1. SubSeq(r, 1, Len(r)) = r
  OBVIOUS
<1>2. ASSUME NEW m \in 0..Len(r)
      PROVE  SubSeq(Append(r, l), 1, m) = SubSeq(r, 1, m)
  <2>1. m \in Nat /\ m <= Len(r) /\ Len(r) \in Nat
    OBVIOUS
  <2> DEFINE s == Append(r, l)
  <2>2. s \in Seq(T) /\ Len(s) = Len(r) + 1 /\ \A i \in 1..Len(r) : s[i] = r[i]
    OBVIOUS
  <2> HIDE DEF s
  <2>3. SubSeq(s, 1, m) = [i \in 1..m |-> s[i]]
    BY <2>1, <2>2
  <2>4. SubSeq(r, 1, m) = [i \in 1..m |-> r[i]]
    BY <2>1
  <2>5. \A i \in 1..m : s[i] = r[i]
    BY <2>1, <2>2
  <2>6. SubSeq(s, 1, m) = SubSeq(r, 1, m)
    BY <2>3, <2>4, <2>5
  <2> QED
    BY <2>6 DEF s
<1> QED
  BY <1>1, <1>2

\* The walk takes a cheapest of the stops that are left, or ends for want of any.
LEMMA GreedyGoesOn ==
  ASSUME PoolOK, Greedily(route), GreedyStop
  PROVE  \/ stage' = "planned" /\ route' = route /\ IsGreedy(route)
         \/ stage' = "greedy" /\ Greedily(route')
<1> DEFINE here == IF route = <<>> THEN 0 ELSE Last(route)
           left == {i \in Positions \ ToSet(route) : Finite(Cost(here, i))}
           price == [i \in left |-> Cost(here, i)]
           n == Len(route)
<1>1. /\ route \in Seq(Positions) /\ IsInjective(route) /\ n \in Nat /\ DOMAIN route = 1..n
      /\ ToSet(route) = {route[i] : i \in 1..n}
  <2>1. route \in Seq(Positions) /\ IsInjective(route)
    BY DEF Greedily
  <2> QED
    BY <2>1, ElementsByIndex
<1>2. here \in {0} \cup Positions /\ here = IF n = 0 THEN 0 ELSE route[n]
  BY <1>1 DEF Last
<1>3. \/ left = {} /\ stage' = "planned" /\ route' = route
      \/ left # {} /\ stage' = "greedy" /\ route' = Append(route, FirstCheapest(price))
  BY DEF GreedyStop
<1>4. CASE left = {}
  <2>1. \A k \in Positions \ ToSet(route) : ~Finite(Cost(here, k))
    BY <1>4
  <2>2. IsGreedy(route)
    BY <2>1 DEF IsGreedy, Greedily
  <2> QED
    BY <1>3, <1>4, <2>2
<1>5. CASE left # {}
  <2> DEFINE l == FirstCheapest(price)
             s == Append(route, l)
  <2>1. left \subseteq Positions \ ToSet(route) /\ left \subseteq Nat /\ IsFiniteSet(left)
    BY CostsAreNumbers, FS_Subset
  <2>2. price \in [left -> Int]
    BY <1>2, CostsAreNumbers
  <2>3. l \in left /\ \A k \in left : price[l] <= price[k]
    <3> HIDE DEF price, left
    <3> QED
      BY <1>5, <2>1, <2>2, CheapestIsCheapest
  <2>4. \A k \in left : price[k] = Cost(here, k)
    OBVIOUS
  <2> HIDE DEF price, l
  <2>5. \A k \in Positions \ ToSet(route) : Cost(here, l) <= Cost(here, k)
    <3> SUFFICES ASSUME NEW k \in Positions \ ToSet(route) PROVE Cost(here, l) <= Cost(here, k)
      OBVIOUS
    <3>1. Cost(here, l) \in Int /\ Cost(here, k) \in Int /\ Infinity \in Int
      BY <1>2, <2>1, <2>3, CostsAreNumbers, PlannerAssumption
    <3>2. Cost(here, l) < Infinity
      BY <2>3 DEF Finite
    <3>3. CASE k \in left
      BY <2>3, <2>4, <3>3
    <3>4. CASE k \notin left
      <4>1. ~(Cost(here, k) < Infinity)
        BY <3>4 DEF Finite
      <4> HIDE DEF here
      <4> QED
        BY <3>1, <3>2, <4>1
    <3> QED
      BY <3>3, <3>4
  <2>6. l \in Positions /\ l \notin ToSet(route)
    BY <2>1, <2>3
  <2> HIDE DEF left, here
  <2>7. /\ s \in Seq(Positions) /\ Len(s) = n + 1 /\ DOMAIN s = 1..(n + 1)
        /\ s[n + 1] = l /\ \A i \in 1..n : s[i] = route[i]
    BY <1>1, <2>6
  <2>8. IsInjective(s)
    <3> HIDE DEF s
    <3>1. \A i \in 1..(n + 1) : i \in 1..n \/ i = n + 1
      BY <1>1
    <3> QED
      BY <1>1, <2>6, <2>7, <3>1 DEF IsInjective
  <2>9. ASSUME NEW i \in DOMAIN s, NEW k \in Positions \ ToSet(SubSeq(s, 1, i - 1))
        PROVE  Edge(s, i) <= Cost(IF i = 1 THEN 0 ELSE s[i - 1], k)
    <3>1. CASE i \in 1..n
      <4>1. SubSeq(s, 1, i - 1) = SubSeq(route, 1, i - 1)
        <5>1. i - 1 \in 0..Len(route)
          BY <1>1, <3>1
        <5> QED
          BY <1>1, <2>6, <5>1, AppendParts
      <4>2. s[i] = route[i] /\ (i # 1 => s[i - 1] = route[i - 1])
        BY <1>1, <2>7, <3>1
      <4> HIDE DEF s
      <4>3. Edge(s, i) = Edge(route, i)
        BY <4>2 DEF Edge
      <4>4. Edge(route, i) <= Cost(IF i = 1 THEN 0 ELSE route[i - 1], k)
        BY <1>1, <2>9, <3>1, <4>1 DEF Greedily
      <4> QED
        BY <4>2, <4>3, <4>4
    <3>2. CASE i = n + 1
      <4>1. i - 1 = n /\ (i = 1 <=> n = 0)
        BY <1>1, <3>2
      <4>2. SubSeq(s, 1, i - 1) = route
        BY <1>1, <2>6, <4>1, AppendParts
      <4> HIDE DEF s, n
      <4>3. n # 0 => s[n] = route[n]
        BY <1>1, <2>7
      <4>4. (IF i = 1 THEN 0 ELSE s[i - 1]) = here
        BY <1>2, <4>1, <4>3
      <4>5. Edge(s, i) = Cost(here, l)
        BY <2>7, <3>2, <4>4 DEF Edge
      <4> QED
        BY <2>5, <2>9, <4>2, <4>4, <4>5
    <3> QED
      BY <1>1, <2>7, <3>1, <3>2
  <2> HIDE DEF s
  <2>10. Greedily(s)
    BY <2>7, <2>8, <2>9 DEF Greedily
  <2> QED
    BY <1>3, <1>5, <2>10 DEF s, l
<1> QED
  BY <1>4, <1>5

-----------------------------------------------------------------------------
(* The invariant of the planner.                                           *)

\* dp has a route to plan.
DpHasRoute == job.solver = "dp" /\ Horizon > 0 /\ Routes(Horizon) # {}

\* No candidate outside the pool is closer to the robot than one inside.
PoolIsClosest ==
  \A i \in Positions : \A k \in DOMAIN job.sizes \ ToSet(pool) :
    job.cost[<<0, pool[i]>>] <= job.cost[<<0, k>>]

\* The inductive invariant of the planner: the layers hold the cheapest routes of
\* their depth, and the walk is greedy so far, where dp has no route.
PlanInv ==
  /\ stage \in {"idle", "layers", "greedy", "planned"}
  /\ stage # "idle" => PoolOK /\ PoolIsClosest
  /\ stage = "layers" =>
       /\ job.solver = "dp" /\ depth \in Nat \ {0} /\ depth <= Horizon /\ route = <<>>
       /\ LayerFits(depth, layer, parent) /\ DOMAIN layer # {}
  /\ stage = "greedy" => Greedily(route) /\ ~DpHasRoute
  /\ stage = "planned" =>
       /\ IsInjective(route)
       /\ DpHasRoute => /\ route \in Routes(Horizon)
                        /\ \A r \in Routes(Horizon) : Total(route) <= Total(r)
       /\ ~DpHasRoute => IsGreedy(route)

\* What BeginPlan leaves.
Begun ==
  /\ JobOK(job)
  /\ pool = IF job.solver = "dp" THEN Pruned(job) ELSE [i \in DOMAIN job.sizes |-> i]
  /\ layer = IF job.solver = "dp" THEN FirstLayer(job, pool) ELSE <<>>
  /\ depth = 1 /\ route = <<>>
  /\ stage = IF job.sizes = <<>> THEN "planned"
             ELSE IF job.solver # "dp" \/ job.horizon = 0 \/ DOMAIN layer = {}
             THEN "greedy" ELSE "layers"

\* The pool of a call that has begun.
LEMMA BegunPool ==
  ASSUME Begun
  PROVE  PoolOK /\ PoolIsClosest
<1> DEFINE N == DOMAIN job.sizes
<1>1. JobOK(job) /\ job.sizes \in Seq(Nat)
  BY DEF Begun, JobOK
<1>2. CASE job.solver = "dp"
  <2>1. pool = Pruned(job)
    BY <1>2 DEF Begun
  <2>2. pool \in Seq(N)
    BY <1>1, <2>1, PrunedFacts
  <2>3. DOMAIN pool = Positions
    BY <2>2 DEF Positions
  <2> QED
    BY <1>1, <2>1, <2>2, <2>3, PrunedFacts DEF PoolOK, PoolIsClosest
<1>3. CASE job.solver # "dp"
  <2>1. pool = [i \in N |-> i]
    BY <1>3 DEF Begun
  <2>2. pool \in Seq(N) /\ Len(pool) = Len(job.sizes) /\ \A k \in N : pool[k] = k
    BY <1>1, <2>1
  <2>3. ToSet(pool) = N
    <3>1. ToSet(pool) = {pool[k] : k \in 1..Len(pool)} /\ N = 1..Len(pool)
      BY <1>1, <2>2, ElementsByIndex
    <3> HIDE DEF N
    <3> QED
      BY <2>2, <3>1, SMTT(60)
  <2> QED
    BY <1>1, <2>2, <2>3 DEF PoolOK, PoolIsClosest
<1> QED
  BY <1>2, <1>3

\* A call begins with the invariant.
LEMMA BegunFits == Begun => PlanInv
<1> SUFFICES ASSUME Begun PROVE PlanInv
  OBVIOUS
<1>1. PoolOK /\ PoolIsClosest
  BY BegunPool
<1>2. Len(pool) \in Nat /\ job.horizon \in Nat /\ depth = 1 /\ route = <<>>
  BY <1>1, CostsAreNumbers DEF PoolOK, JobOK, Begun
<1>3. /\ Horizon \in Nat /\ (job.horizon = 0 => Horizon = 0) /\ (Len(pool) = 0 => Horizon = 0)
      /\ (job.horizon # 0 /\ Len(pool) # 0 => Horizon >= 1)
  BY <1>2 DEF Horizon, Smaller
<1>4. IsInjective(<<>>) /\ <<>> \in Seq(Positions) /\ DOMAIN <<>> = {}
  BY DEF IsInjective
<1>5. Greedily(<<>>)
  BY <1>4 DEF Greedily
<1>6. CASE job.sizes = <<>>
  <2>1. stage = "planned"
    BY <1>6 DEF Begun
  <2>2. pool \in Seq({})
    BY <1>1, <1>6, <1>4 DEF PoolOK
  <2>3. Len(pool) = 0
    <3>1. \A i \in 1..Len(pool) : pool[i] \in {}
      BY <2>2
    <3> QED
      BY <1>2, <3>1
  <2>4. Positions = {} /\ ~DpHasRoute
    BY <1>3, <2>3 DEF Positions, DpHasRoute
  <2>5. IsGreedy(<<>>)
    BY <1>4, <2>4 DEF IsGreedy
  <2> QED
    BY <1>1, <1>2, <1>4, <2>1, <2>4, <2>5 DEF PlanInv
<1>7. CASE job.sizes # <<>> /\ job.solver # "dp"
  <2>1. stage = "greedy"
    BY <1>7 DEF Begun
  <2>2. ~DpHasRoute
    BY <1>7 DEF DpHasRoute
  <2> QED
    BY <1>1, <1>2, <1>5, <2>1, <2>2 DEF PlanInv
<1>8. CASE job.sizes # <<>> /\ job.solver = "dp"
  <2>1. layer = FirstLayer(job, pool)
    BY <1>8 DEF Begun
  <2>2. LayerFits(1, layer, parent)
    BY <1>1, <2>1, FirstFits
  <2>3. CASE job.horizon = 0
    <3>1. stage = "greedy"
      BY <1>8, <2>3 DEF Begun
    <3>2. ~DpHasRoute
      BY <1>3, <2>3 DEF DpHasRoute
    <3> QED
      BY <1>1, <1>2, <1>5, <3>1, <3>2 DEF PlanInv
  <2>4. CASE DOMAIN layer = {}
    <3>1. stage = "greedy"
      BY <1>8, <2>4 DEF Begun
    <3>2. Routes(1) = {}
      BY <2>2, <2>4 DEF LayerFits
    <3>3. Horizon > 0 => Routes(Horizon) = {}
      <4>1. Horizon > 0 => 1 <= Horizon
        BY <1>3
      <4>2. 1 \in Nat
        OBVIOUS
      <4> QED
        BY <1>1, <1>3, <3>2, <4>1, <4>2, NoLongerRoute
    <3> QED
      BY <1>1, <1>2, <1>5, <3>1, <3>3 DEF PlanInv, DpHasRoute
  <2>5. CASE job.horizon # 0 /\ DOMAIN layer # {}
    <3>1. stage = "layers"
      BY <1>8, <2>5 DEF Begun
    <3>2. Len(pool) # 0
      <4>1. DOMAIN pool # {}
        BY <2>1, <2>5 DEF FirstLayer
      <4>2. DOMAIN pool = 1..Len(pool)
        BY <1>1 DEF PoolOK
      <4> QED
        BY <1>2, <4>1, <4>2
    <3> QED
      BY <1>1, <1>2, <1>3, <1>8, <2>2, <2>5, <3>1, <3>2 DEF PlanInv
  <2> QED
    BY <2>3, <2>4, <2>5
<1> QED
  BY <1>6, <1>7, <1>8

\* The invariant says that the route is what it should be.
LEMMA PlannedRoute ==
  ASSUME PlanInv
  PROVE  RouteIsCheapest
BY DEF PlanInv, PoolIsClosest, DpHasRoute, RouteIsCheapest

\* What the planner calls a route or a walk depends on the call and its pool only.
LEMMA WordsStay ==
  ASSUME UNCHANGED <<job, pool>>
  PROVE  /\ (PoolOK' <=> PoolOK) /\ (PoolIsClosest' <=> PoolIsClosest)
         /\ (DpHasRoute' <=> DpHasRoute) /\ Horizon' = Horizon
         /\ \A r : (Greedily(r)' <=> Greedily(r)) /\ (IsGreedy(r)' <=> IsGreedy(r))
<1>1. (PoolOK' <=> PoolOK) /\ (PoolIsClosest' <=> PoolIsClosest) /\ Horizon' = Horizon
  BY DEF PoolOK, JobOK, PoolIsClosest, Horizon, Positions
<1>2. DpHasRoute' <=> DpHasRoute
  BY <1>1, RoutesStay DEF DpHasRoute
<1>3. \A r : (Greedily(r)' <=> Greedily(r)) /\ (IsGreedy(r)' <=> IsGreedy(r))
  BY DEF Greedily, IsGreedy, Edge, Cost, Positions
<1> QED
  BY <1>1, <1>2, <1>3

\* A layer fits after a step that leaves the call alone as it did before.
LEMMA FitsAfter ==
  ASSUME UNCHANGED <<job, pool>>
  PROVE  LayerFits(depth, layer, parent)' <=> LayerFits(depth', layer', parent')
<1>1. Routes(depth)' = Routes(depth') /\ \A r : Total(r)' = Total(r)
  BY RoutesStay DEF Routes, Edge, Cost, Positions
<1>2. \A r : /\ Key(r, depth)' = Key(r, depth')
             /\ (Traced(r, depth, parent)' <=> Traced(r, depth', parent'))
  BY DEF Key, Traced
<1> QED
  BY <1>1, <1>2 DEF LayerFits

\* A call is one for the candidates that the search has found.
LEMMA PlanBegins ==
  ASSUME SearchInv, Plan
  PROVE  Begun'
<1>1. PICK solver \in Solvers, cost \in Costs[Len(found)] :
        BeginPlan([sizes |-> [i \in DOMAIN found |-> found[i].size], cost |-> cost,
                   solver |-> solver.solver, limit |-> solver.limit, horizon |-> solver.horizon])
  BY DEF Plan
<1> DEFINE sizes == [i \in DOMAIN found |-> found[i].size]
           j == [sizes |-> sizes, cost |-> cost,
                 solver |-> solver.solver, limit |-> solver.limit, horizon |-> solver.horizon]
<1>2. JobOK(j)
  <2>1. PICK T : found \in Seq(T)
    BY DEF SearchInv, SearchTypeOK
  <2>2. \A i \in DOMAIN found : found[i].size \in Nat
    BY DEF SearchInv, SizesAreNumbers
  <2>3. sizes \in Seq(Nat) /\ Len(sizes) = Len(found) /\ Len(found) \in Nat
    BY <2>1, <2>2
  <2>4. Len(found) \in 0..MaxFound
    BY <2>3, PlanningAssumption DEF Plan
  <2>5. cost \in [Edges(Len(found)) -> Int]
    BY <2>4, PlanningAssumption
  <2>6. solver.limit \in Nat /\ solver.horizon \in Nat
    BY PlanningAssumption
  <2> HIDE DEF sizes
  <2> QED
    BY <2>3, <2>5, <2>6 DEF JobOK
<1> HIDE DEF j
<1>3. BeginPlan(j)
  BY <1>1 DEF j
<1>4. /\ job' = j
      /\ pool' = IF j.solver = "dp" THEN Pruned(j) ELSE [i \in DOMAIN j.sizes |-> i]
      /\ layer' = IF j.solver = "dp" THEN FirstLayer(j, pool') ELSE <<>>
      /\ depth' = 1 /\ route' = <<>>
      /\ stage' = IF j.sizes = <<>> THEN "planned"
                  ELSE IF j.solver # "dp" \/ j.horizon = 0 \/ DOMAIN layer' = {}
                  THEN "greedy" ELSE "layers"
  BY <1>3 DEF BeginPlan
<1>5. JobOK(job')
  BY <1>2, <1>4
<1>6. JobOK(job)'
  BY <1>5 DEF JobOK
<1>7. Pruned(job)' = Pruned(job') /\ FirstLayer(job, pool)' = FirstLayer(job', pool')
  BY DEF Pruned, FirstLayer, Better
<1> QED
  BY <1>4, <1>6, <1>7 DEF Begun

\* Every step of the planner keeps its invariant.
LEMMA PlanInvKept ==
  ASSUME SearchInv, PlanInv, [Next]_vars
  PROVE  PlanInv'
<1>1. CASE Plan
  <2>1. Begun'
    BY <1>1, PlanBegins
  <2> QED
    BY <2>1, BegunFits, PTL
<1>2. CASE ExpandLayer
  <2>1. /\ stage = "layers" /\ depth < Horizon /\ UNCHANGED <<job, pool, route>>
        /\ \/ NextStates = {} /\ stage' = "greedy" /\ UNCHANGED <<layer, parent, depth>>
           \/ /\ NextStates # {} /\ depth' = depth + 1 /\ UNCHANGED stage
              /\ layer' = NextCosts(Previous) /\ parent' = NextParents(Previous)
    BY <1>2 DEF ExpandLayer
  <2>2. /\ PoolOK /\ PoolIsClosest /\ job.solver = "dp" /\ route = <<>> /\ Horizon \in Nat
        /\ depth \in Nat \ {0} /\ LayerFits(depth, layer, parent)
    <3>1. /\ PoolOK /\ PoolIsClosest /\ job.solver = "dp" /\ route = <<>>
          /\ depth \in Nat \ {0} /\ LayerFits(depth, layer, parent)
      BY <2>1 DEF PlanInv
    <3>2. Len(pool) \in Nat /\ job.horizon \in Nat
      BY <3>1, CostsAreNumbers DEF PoolOK, JobOK
    <3> QED
      BY <3>1, <3>2 DEF Horizon, Smaller
  <2>3. LayerFits(depth + 1, NextCosts(Previous), NextParents(Previous))
    BY <2>2, NextFits
  <2>4. PoolOK' /\ PoolIsClosest' /\ Horizon' = Horizon /\ (DpHasRoute' <=> DpHasRoute)
    BY <2>1, <2>2, WordsStay
  <2>5. CASE NextStates = {}
    <3>1. Routes(depth + 1) = {}
      BY <2>3, <2>5 DEF LayerFits, NextCosts, Previous
    <3>2. Routes(Horizon) = {}
      <4>1. depth + 1 \in Nat /\ depth + 1 <= Horizon
        BY <2>1, <2>2
      <4> QED
        BY <2>2, <3>1, <4>1, NoLongerRoute
    <3>3. Greedily(<<>>)
      BY DEF Greedily, IsInjective
    <3>4. Greedily(<<>>)'
      BY <2>1, <3>3, WordsStay
    <3>5. Greedily(route)'
      BY <2>1, <2>2, <3>4 DEF Greedily
    <3>6. ~DpHasRoute'
      BY <2>4, <3>2 DEF DpHasRoute
    <3> QED
      BY <2>1, <2>4, <2>5, <3>5, <3>6 DEF PlanInv
  <2>6. CASE NextStates # {}
    <3>1. LayerFits(depth', layer', parent')
      BY <2>1, <2>3, <2>6
    <3>2. LayerFits(depth, layer, parent)'
      BY <2>1, <3>1, FitsAfter
    <3>3. DOMAIN layer' # {}
      BY <2>1, <2>6, NextEntries
    <3>4. depth' \in Nat \ {0} /\ depth' <= Horizon'
      BY <2>1, <2>2, <2>4, <2>6
    <3> QED
      BY <2>1, <2>2, <2>4, <2>6, <3>2, <3>3, <3>4 DEF PlanInv
  <2> QED
    BY <2>5, <2>6
<1>3. CASE PickRoute
  <2>1. /\ stage = "layers" /\ depth = Horizon /\ stage' = "planned"
        /\ UNCHANGED <<job, pool, layer, parent, depth>>
    BY <1>3 DEF PickRoute
  <2>2. /\ PoolOK /\ PoolIsClosest /\ job.solver = "dp" /\ depth \in Nat \ {0}
        /\ LayerFits(depth, layer, parent) /\ DOMAIN layer # {}
    BY <2>1 DEF PlanInv
  <2>3. route' \in Routes(depth) /\ \A r \in Routes(depth) : Total(route') <= Total(r)
    BY <1>3, <2>2, PickedIsCheapest
  <2>4. IsInjective(route') /\ DpHasRoute
    BY <2>1, <2>2, <2>3 DEF Routes, DpHasRoute
  <2>5. PoolOK' /\ PoolIsClosest' /\ Horizon' = Horizon /\ DpHasRoute'
    BY <2>1, <2>2, <2>4, WordsStay
  <2>6. /\ Routes(Horizon)' = Routes(Horizon)
        /\ Total(route)' = Total(route') /\ \A r : Total(r)' = Total(r)
    BY <2>1, <2>5, RoutesStay DEF Total, Edge, Cost
  <2> QED
    BY <2>1, <2>3, <2>4, <2>5, <2>6 DEF PlanInv
<1>4. CASE GreedyStop
  <2>1. stage = "greedy" /\ UNCHANGED <<job, pool, layer, parent, depth>>
    BY <1>4 DEF GreedyStop
  <2>2. PoolOK /\ PoolIsClosest /\ Greedily(route) /\ ~DpHasRoute
    BY <2>1 DEF PlanInv
  <2>3. \/ stage' = "planned" /\ route' = route /\ IsGreedy(route)
        \/ stage' = "greedy" /\ Greedily(route')
    BY <1>4, <2>2, GreedyGoesOn
  <2>4. /\ PoolOK' /\ PoolIsClosest' /\ ~DpHasRoute'
    BY <2>1, <2>2, WordsStay
  <2>5. CASE stage' = "planned" /\ route' = route /\ IsGreedy(route)
    <3>1. IsInjective(route')
      BY <2>2, <2>5 DEF Greedily
    <3>2. IsGreedy(route)'
      BY <2>1, <2>5 DEF IsGreedy, Edge, Cost, Positions
    <3> QED
      BY <2>4, <2>5, <3>1, <3>2 DEF PlanInv
  <2>6. CASE stage' = "greedy" /\ Greedily(route')
    <3>1. Greedily(route)'
      BY <2>1, <2>6 DEF Greedily, Edge, Cost, Positions
    <3> QED
      BY <2>4, <2>6, <3>1 DEF PlanInv
  <2> QED
    BY <2>3, <2>5, <2>6
<1>5. CASE UNCHANGED planVars
  <2>1. UNCHANGED <<stage, job, pool, layer, parent, depth, route>>
    BY <1>5 DEF planVars
  <2>2. /\ (PoolOK' <=> PoolOK) /\ (PoolIsClosest' <=> PoolIsClosest)
        /\ (DpHasRoute' <=> DpHasRoute) /\ Horizon' = Horizon
    BY <2>1, WordsStay
  <2>3. (Greedily(route)' <=> Greedily(route)) /\ (IsGreedy(route)' <=> IsGreedy(route))
    BY <2>1 DEF Greedily, IsGreedy, Edge, Cost, Positions
  <2>4. LayerFits(depth, layer, parent)' <=> LayerFits(depth, layer, parent)
    <3>1. depth' = depth /\ layer' = layer /\ parent' = parent
      BY <2>1
    <3> QED
      BY <2>1, <3>1, FitsAfter
  <2>5. /\ Routes(Horizon)' = Routes(Horizon)
        /\ Total(route)' = Total(route) /\ \A r : Total(r)' = Total(r)
    BY <2>1, <2>2, RoutesStay DEF Total, Edge, Cost
  <2> QED
    BY <2>1, <2>2, <2>3, <2>4, <2>5 DEF PlanInv
<1> QED
  BY <1>1, <1>2, <1>3, <1>4, <1>5 DEF Next, PlanStep, vars

\* Whatever the candidates and their costs: dp plans a cheapest of all the routes of
\* its horizon over its pool, and walks greedily where there is none; every stop of a
\* greedy walk is a cheapest of those that are left, and it goes on while one has a
\* finite cost; no candidate is visited twice, and none that pruning left out is closer
\* to the robot than one in the pool (build_mrtsp_frontier_sequence).
THEOREM RoutesAreCheapest == Spec => []RouteIsCheapest
<1>1. Init => SearchInv /\ PlanInv
  <2>1. Init => PlanInv
    BY DEF Init, PlanInit, PlanInv
  <2> QED
    BY <2>1, SearchInvInit DEF Init
<1>2. SearchInv /\ PlanInv /\ [Next]_vars => SearchInv' /\ PlanInv'
  BY SearchInvKept, PlanInvKept
<1>3. PlanInv => RouteIsCheapest
  BY PlannedRoute
<1> QED
  BY <1>1, <1>2, <1>3, PTL DEF Spec

=============================================================================
