------------------------ MODULE TargetSelectionProofs ------------------------
(***************************************************************************)
(* Proofs about FailureMemory and TargetSelection.  The operators map one   *)
(* content of the memory, one core, to the next, and are composed: there is *)
(* a lemma for each of them, which says what it keeps in order and what it  *)
(* may do to the goal and the memory; a step is one of the compositions.    *)
(***************************************************************************)
EXTENDS TargetSelection, InductionLemmas, FiniteSetTheorems

-----------------------------------------------------------------------------
(* The failure memory.                                                      *)

Region == [center : Int \X Int, side : {n \in Nat : n >= BaseSize}, at : Nat]
Attempt == [point : Int \X Int, count : 1..(Threshold - 1), at : Nat]

\* A table of attempt records within its limit.
AttemptsOK(t) ==
  /\ IsFiniteSet(DOMAIN t) /\ Cardinality(DOMAIN t) <= MaxAttempts
  /\ \A k \in DOMAIN t : t[k] \in Attempt /\ Bucket(t[k].point) = k

\* A list of regions within its limit.
RegionsOK(s) == s \in Seq(Region) /\ Len(s) <= MaxRegions

\* No record lies in a region.
Clear(t, s) == \A k \in DOMAIN t : ~InSome(t[k].point, s)

MemoryOK(m) ==
  /\ DOMAIN m = {"attempts", "regions"}
  /\ AttemptsOK(m.attempts) /\ RegionsOK(m.regions) /\ Clear(m.attempts, m.regions)

\* A memory in order absorbs its failures.
LEMMA MemoryAbsorbs == ASSUME NEW m, MemoryOK(m) PROVE Absorbed(m)
BY DEF MemoryOK, AttemptsOK, RegionsOK, Clear, Absorbed, Attempt

\* Being in some region is about the regions, not their places in the list.
LEMMA InSomeElement ==
  ASSUME NEW s \in Seq(Region), NEW p
  PROVE  InSome(p, s) <=> \E r \in ToSet(s) : PointIn(p, r)
BY DEF InSome, ToSet

\* The memory of a new session is in order.
LEMMA FreshMemoryOK == MemoryOK(FreshMemory)
<1>1. DOMAIN <<>> = {} /\ <<>> \in Seq(Region) /\ Len(<<>>) = 0
  OBVIOUS
<1>2. AttemptsOK(<<>>)
  BY <1>1, FS_EmptySet, MemoryAssumption DEF AttemptsOK
<1>3. RegionsOK(<<>>)
  BY <1>1, MemoryAssumption DEF RegionsOK
<1>4. Clear(<<>>, <<>>)
  BY <1>1 DEF Clear
<1>5. /\ DOMAIN FreshMemory = {"attempts", "regions"}
      /\ FreshMemory.attempts = <<>> /\ FreshMemory.regions = <<>>
  BY DEF FreshMemory
<1> QED BY <1>2, <1>3, <1>4, <1>5 DEF MemoryOK

\* What is kept of a table is unchanged.
LEMMA KeptFacts ==
  ASSUME NEW t, NEW keys
  PROVE  /\ DOMAIN Kept(t, keys) = DOMAIN t \cap keys
         /\ \A k : k \in DOMAIN t /\ k \in keys => Kept(t, keys)[k] = t[k]
BY DEF Kept

\* A part of a table in order is in order.
LEMMA KeptOK ==
  ASSUME NEW t, AttemptsOK(t), NEW keys
  PROVE  AttemptsOK(Kept(t, keys)) /\ \A s : Clear(t, s) => Clear(Kept(t, keys), s)
<1>1. DOMAIN Kept(t, keys) \subseteq DOMAIN t
  BY KeptFacts
<1>2. IsFiniteSet(DOMAIN Kept(t, keys)) /\ Cardinality(DOMAIN Kept(t, keys)) <= Cardinality(DOMAIN t)
  BY <1>1, FS_Subset DEF AttemptsOK
<1>3. Cardinality(DOMAIN Kept(t, keys)) \in Nat /\ Cardinality(DOMAIN t) \in Nat
  BY <1>2, FS_CardinalityType DEF AttemptsOK
<1>4. Cardinality(DOMAIN Kept(t, keys)) <= MaxAttempts
  BY <1>2, <1>3, MemoryAssumption DEF AttemptsOK
<1>5. \A k \in DOMAIN Kept(t, keys) : k \in DOMAIN t /\ Kept(t, keys)[k] = t[k]
  BY KeptFacts
<1>6. AttemptsOK(Kept(t, keys))
  BY <1>2, <1>4, <1>5 DEF AttemptsOK
<1>7. ASSUME NEW s, Clear(t, s)
      PROVE  Clear(Kept(t, keys), s)
  BY <1>5, <1>7 DEF Clear
<1> QED BY <1>6, <1>7

\* What expires leaves; the rest stays.
LEMMA PrunedOK ==
  ASSUME NEW m, MemoryOK(m), NEW time
  PROVE  LET n == Pruned(m, time)
         IN /\ MemoryOK(n)
            /\ ToSet(n.regions) = {r \in ToSet(m.regions) : ~Expired(r.at, time)}
            /\ Len(n.regions) <= Len(m.regions)
            /\ Len(n.regions) = Len(m.regions) => ToSet(n.regions) = ToSet(m.regions)
<1> DEFINE live == {r \in ToSet(m.regions) : ~Expired(r.at, time)}
           keys == {k \in DOMAIN m.attempts : ~Expired(m.attempts[k].at, time)}
           n == Pruned(m, time)
<1>1. m.regions \in Seq(Region) /\ Len(m.regions) <= MaxRegions
  BY DEF MemoryOK, RegionsOK
<1>2. /\ DOMAIN n = {"attempts", "regions"}
      /\ n.regions = Only(m.regions, live) /\ n.attempts = Kept(m.attempts, keys)
  BY DEF Pruned
<1>3. /\ n.regions \in Seq(Region) /\ Len(n.regions) <= Len(m.regions)
      /\ ToSet(n.regions) = live
      /\ Len(n.regions) = Len(m.regions) => ToSet(n.regions) = ToSet(m.regions)
  <2> HIDE DEF n
  <2>1. live \subseteq ToSet(m.regions)
    OBVIOUS
  <2> HIDE DEF live
  <2>2. /\ Only(m.regions, live) \in Seq(Region) /\ Len(Only(m.regions, live)) <= Len(m.regions)
        /\ ToSet(Only(m.regions, live)) = ToSet(m.regions) \cap live
        /\ Len(Only(m.regions, live)) = Len(m.regions) => ToSet(m.regions) \subseteq live
    BY <1>1, OnlyFacts
  <2>3. ToSet(m.regions) \cap live = live
    BY <2>1
  <2>4. ToSet(m.regions) \subseteq live => ToSet(m.regions) = live
    BY <2>1
  <2> QED BY <1>2, <2>2, <2>3, <2>4
<1>4. AttemptsOK(n.attempts) /\ Clear(n.attempts, m.regions)
  BY <1>2, KeptOK DEF MemoryOK
<1>5. Len(n.regions) <= MaxRegions
  BY <1>1, <1>3, MemoryAssumption
<1>6. Clear(n.attempts, n.regions)
  <2>1. \A p : InSome(p, n.regions) => InSome(p, m.regions)
    BY <1>1, <1>3, InSomeElement
  <2> QED BY <1>4, <2>1 DEF Clear
<1> HIDE DEF n
<1>7. MemoryOK(n)
  BY <1>2, <1>3, <1>4, <1>5, <1>6 DEF MemoryOK, RegionsOK
<1> QED BY <1>3, <1>7 DEF n

\* A list of regions has an oldest one, and the first of them makes room.
LEMMA RoomForRegion ==
  ASSUME NEW s, RegionsOK(s)
  PROVE  LET room == WithRoomForRegion(s)
         IN /\ room \in Seq(Region) /\ Len(room) < MaxRegions
            /\ ToSet(room) \subseteq ToSet(s)
            /\ \A r \in ToSet(s) \ ToSet(room) :
                 Len(s) = MaxRegions /\ \A q \in ToSet(s) : r.at <= q.at
<1>1. s \in Seq(Region) /\ Len(s) <= MaxRegions /\ MaxRegions \in Nat \ {0} /\ Len(s) \in Nat
  BY MemoryAssumption DEF RegionsOK
<1>2. CASE Len(s) < MaxRegions
  BY <1>1, <1>2 DEF WithRoomForRegion
<1>3. CASE ~(Len(s) < MaxRegions)
  <2> DEFINE oldest == {i \in 1..Len(s) : \A j \in DOMAIN s : s[i].at <= s[j].at}
             k == Min(oldest)
  <2>1. Len(s) = MaxRegions
    BY <1>1, <1>3
  <2>2. \A i \in 1..Len(s) : s[i] \in Region /\ s[i].at \in Nat
    <3>1. \A r \in Region : r.at \in Nat
      BY DEF Region
    <3> QED BY <1>1, <3>1
  <2>3. oldest # {}
    <3> DEFINE times == {s[i].at : i \in 1..Len(s)}
    <3>1. times \subseteq Nat /\ times # {}
      BY <1>1, <2>1, <2>2
    <3>2. PICK least \in times : \A t \in times : least <= t
      <4> HIDE DEF times
      <4> QED BY <3>1, LeastNatural
    <3>3. PICK i \in 1..Len(s) : s[i].at = least
      OBVIOUS
    <3>4. DOMAIN s = 1..Len(s)
      BY <1>1
    <3> QED BY <3>2, <3>3, <3>4
  <2>4. k \in oldest
    <3>1. oldest \subseteq Nat
      OBVIOUS
    <3>2. \E least \in oldest : \A n \in oldest : least <= n
      <4> HIDE DEF oldest
      <4> QED BY <2>3, <3>1, LeastNatural
    <3> HIDE DEF oldest
    <3> QED BY <3>2 DEF Min
  <2>5. WithRoomForRegion(s) = RemoveAt(s, k)
    <3>1. SelectInSeq(s, LAMBDA r : \A i \in DOMAIN s : r.at <= s[i].at) = k
      BY <2>3 DEF SelectInSeq
    <3> HIDE DEF k
    <3> QED BY <1>3, <3>1 DEF WithRoomForRegion
  <2> HIDE DEF k
  <2>6. k \in 1..Len(s) /\ \A j \in DOMAIN s : s[k].at <= s[j].at
    BY <2>4
  <2> HIDE DEF oldest
  <2>7. /\ RemoveAt(s, k) \in Seq(Region) /\ Len(RemoveAt(s, k)) = Len(s) - 1
        /\ ToSet(RemoveAt(s, k)) = {s[i] : i \in (1..Len(s)) \ {k}}
    BY <1>1, <2>6, RemoveAtElements
  <2>8. ToSet(s) = {s[i] : i \in 1..Len(s)}
    BY <1>1, ElementsByIndex
  <2>9. \A r \in ToSet(s) \ ToSet(RemoveAt(s, k)) : r = s[k]
    BY <2>7, <2>8
  <2>10. \A q \in ToSet(s) : s[k].at <= q.at
    BY <2>6 DEF ToSet
  <2> QED BY <1>1, <2>1, <2>5, <2>7, <2>8, <2>9, <2>10
<1> QED BY <1>2, <1>3

\* Room for one more record.
LEMMA RoomForRecord ==
  ASSUME NEW t, AttemptsOK(t), NEW u \in WithRoom(t)
  PROVE  /\ AttemptsOK(u) /\ Cardinality(DOMAIN u) < MaxAttempts
         /\ \A s : Clear(t, s) => Clear(u, s)
         /\ DOMAIN u \subseteq DOMAIN t
<1>1. IsFiniteSet(DOMAIN t) /\ Cardinality(DOMAIN t) \in Nat /\ MaxAttempts \in Nat
  BY FS_CardinalityType, MemoryAssumption DEF AttemptsOK
<1>2. CASE Cardinality(DOMAIN t) < MaxAttempts
  BY <1>2 DEF WithRoom
<1>3. CASE ~(Cardinality(DOMAIN t) < MaxAttempts)
  <2>1. PICK k \in DOMAIN t : u = Kept(t, DOMAIN t \ {k})
    BY <1>3 DEF WithRoom, Oldest
  <2>2. DOMAIN u = DOMAIN t \ {k}
    <3>1. DOMAIN u = DOMAIN t \cap (DOMAIN t \ {k})
      BY <2>1, KeptFacts
    <3> QED BY <3>1
  <2>3. Cardinality(DOMAIN u) = Cardinality(DOMAIN t) - 1
    BY <1>1, <2>1, <2>2, FS_RemoveElement
  <2>4. Cardinality(DOMAIN t) <= MaxAttempts
    BY DEF AttemptsOK
  <2>5. AttemptsOK(u) /\ \A s : Clear(t, s) => Clear(u, s)
    BY <2>1, KeptOK
  <2>6. Cardinality(DOMAIN u) < MaxAttempts
    BY <1>1, <2>3, <2>4
  <2>7. DOMAIN u \subseteq DOMAIN t
    BY <2>2
  <2> QED BY <2>5, <2>6, <2>7
<1> QED BY <1>2, <1>3

\* A region keeps its form when it grows.
LEMMA GrownIsRegion ==
  ASSUME NEW r \in Region, NEW p \in Int \X Int, NEW time \in Nat
  PROVE  Grown(r, p, time) \in Region
<1>1. /\ r.center[1] \in Int /\ r.center[2] \in Int
      /\ r.side \in Nat /\ r.side >= BaseSize /\ p[1] \in Int /\ p[2] \in Int
  BY DEF Region
<1>2. /\ (r.center[1] + p[1]) \div 2 \in Int /\ (r.center[2] + p[2]) \div 2 \in Int
      /\ 2 * r.side \in Nat /\ 2 * r.side >= BaseSize
  BY <1>1, MemoryAssumption
<1> QED BY <1>2 DEF Region, Grown

\* A magnitude bounds on both sides.
LEMMA MagnitudeFacts ==
  ASSUME NEW i \in Int, NEW n \in Int
  PROVE  Magnitude(i) <= n <=> -n <= i /\ i <= n
BY DEF Magnitude

\* Along one axis: what is within half a side of the old center is within a
\* whole side of the midpoint.
LEMMA AxisCovered ==
  ASSUME NEW c \in Int, NEW p \in Int, NEW x \in Int, NEW side \in Nat, NEW ring \in Nat,
         ring < side,
         2 * Magnitude(p - c) <= side + ring,
         2 * Magnitude(x - c) <= side
  PROVE  2 * Magnitude(x - ((c + p) \div 2)) <= 2 * side
<1> DEFINE m == (c + p) \div 2
<1>1. m \in Int /\ 2 * m <= c + p /\ c + p <= 2 * m + 1
  OBVIOUS
<1> HIDE DEF m
<1>2. Magnitude(x - m) <= side
  BY <1>1 DEF Magnitude
<1> QED BY <1>1, <1>2 DEF m, Magnitude

\* The square around the midpoint holds the old one, where the ring is smaller
\* than the square.
LEMMA GrownCovers ==
  ASSUME ExpansionSize < BaseSize,
         NEW r \in Region, NEW p \in Int \X Int, NEW time, InRing(p, r),
         NEW x \in Int \X Int, PointIn(x, r)
  PROVE  PointIn(x, Grown(r, p, time))
<1>1. /\ r.center[1] \in Int /\ r.center[2] \in Int
      /\ r.side \in Nat /\ r.side >= BaseSize /\ p[1] \in Int /\ p[2] \in Int
      /\ x[1] \in Int /\ x[2] \in Int
  BY DEF Region
<1>2. ExpansionSize \in Nat /\ ExpansionSize < r.side
  BY <1>1, MemoryAssumption
<1> DEFINE ring == [r EXCEPT !.side = @ + ExpansionSize]
<1>3. ring.side = r.side + ExpansionSize /\ ring.center = r.center
  BY DEF Region
<1>4. /\ 2 * Magnitude(p[1] - r.center[1]) <= r.side + ExpansionSize
      /\ 2 * Magnitude(p[2] - r.center[2]) <= r.side + ExpansionSize
  BY <1>3 DEF InRing, PointIn
<1>5. /\ 2 * Magnitude(x[1] - r.center[1]) <= r.side
      /\ 2 * Magnitude(x[2] - r.center[2]) <= r.side
  BY DEF PointIn
<1>6. 2 * Magnitude(x[1] - ((r.center[1] + p[1]) \div 2)) <= 2 * r.side
  BY <1>1, <1>2, <1>4, <1>5, AxisCovered
<1>7. 2 * Magnitude(x[2] - ((r.center[2] + p[2]) \div 2)) <= 2 * r.side
  BY <1>1, <1>2, <1>4, <1>5, AxisCovered
<1>8. /\ Grown(r, p, time).center[1] = (r.center[1] + p[1]) \div 2
      /\ Grown(r, p, time).center[2] = (r.center[2] + p[2]) \div 2
      /\ Grown(r, p, time).side = 2 * r.side
  BY DEF Grown
<1> QED BY <1>6, <1>7, <1>8 DEF PointIn

\* A square is not negative.
LEMMA SquareIsNatural == \A i \in Int : i * i \in Nat
OBVIOUS

\* There is a first of the nearest regions.
LEMMA CompatibleIsOne ==
  ASSUME NEW p \in Int \X Int, NEW s \in Seq(Region), Rings(p, s) # {}
  PROVE  Compatible(p, s) \in Rings(p, s)
<1> DEFINE R == Rings(p, s)
           d(i) == Distance2(p, s[i].center)
           distances == {d(i) : i \in R}
<1>1. R \subseteq Nat /\ \A i \in R : d(i) \in Nat
  <2>1. R \subseteq 1..Len(s) /\ \A i \in R : s[i] \in Region
    BY DEF Rings
  <2>2. ASSUME NEW i \in R PROVE d(i) \in Nat
    <3>1. s[i].center[1] \in Int /\ s[i].center[2] \in Int /\ p[1] \in Int /\ p[2] \in Int
      BY <2>1 DEF Region
    <3> DEFINE dx == p[1] - s[i].center[1]
               dy == p[2] - s[i].center[2]
    <3>2. dx \in Int /\ dy \in Int
      BY <3>1
    <3>3. d(i) = dx * dx + dy * dy
      BY DEF Distance2
    <3> HIDE DEF dx, dy
    <3>4. dx * dx \in Nat /\ dy * dy \in Nat
      BY <3>2, SquareIsNatural
    <3> HIDE DEF d
    <3> QED BY <3>3, <3>4
  <2> QED BY <2>1, <2>2
<1> HIDE DEF R, d
<1>2. PICK least \in distances : \A n \in distances : least <= n
  <2>1. distances \subseteq Nat /\ distances # {}
    BY <1>1 DEF R
  <2> HIDE DEF distances
  <2> QED BY <2>1, LeastNatural
<1> DEFINE nearest == {i \in R : d(i) = least}
<1>3. PICK first \in nearest : \A i \in nearest : first <= i
  <2>1. nearest \subseteq Nat /\ nearest # {}
    BY <1>1, <1>2
  <2> HIDE DEF nearest
  <2> QED BY <2>1, LeastNatural
<1>4. first \in R /\ \A j \in R : d(first) < d(j) \/ (d(first) = d(j) /\ first <= j)
  <2>1. first \in R /\ d(first) = least /\ least \in Nat
    BY <1>1, <1>3
  <2>2. ASSUME NEW j \in R
        PROVE  d(first) < d(j) \/ (d(first) = d(j) /\ first <= j)
    <3>1. least <= d(j) /\ d(j) \in Nat
      BY <1>1, <1>2
    <3>2. d(j) = least => first <= j
      BY <1>3
    <3> QED BY <2>1, <3>1, <3>2
  <2> QED BY <2>1, <2>2
<1>5. \E i \in R : \A j \in R : d(i) < d(j) \/ (d(i) = d(j) /\ i <= j)
  BY <1>4
<1>6. Compatible(p, s) = CHOOSE i \in R : \A j \in R : d(i) < d(j) \/ (d(i) = d(j) /\ i <= j)
  BY DEF Compatible, R, d
<1> QED BY <1>5, <1>6 DEF R

\* What a region list promises of another one that replaces it at a time, after a
\* failure at p: each live region lies in a live one, or it was the oldest of a full
\* table and gave way to one around p.
Lives(r, s, time) ==
  \E q \in ToSet(s) : ~Expired(q.at, time) /\ \A x \in Int \X Int : PointIn(x, r) => PointIn(x, q)
GaveWay(r, old, s, p, time) ==
  /\ Len(old) = MaxRegions /\ \A q \in ToSet(old) : r.at <= q.at
  /\ \E q \in ToSet(s) : ~Expired(q.at, time) /\ q.center = p
Lasting(old, s, p, time) ==
  \A r \in ToSet(old) : Expired(r.at, time) \/ Lives(r, s, time) \/ GaveWay(r, old, s, p, time)

\* A record counted once more: its table, but for its own bucket, is unchanged.
LEMMA CountedFacts ==
  ASSUME NEW t, AttemptsOK(t), NEW p \in Int \X Int, NEW time \in Nat
  PROVE  LET u == Counted(t, p, time)
         IN /\ DOMAIN u = DOMAIN t \cup {Bucket(p)}
            /\ \A k : k \in DOMAIN t /\ k # Bucket(p) => u[k] = t[k]
            /\ u[Bucket(p)].point = p
            /\ u[Bucket(p)].count \in Nat \ {0}
            /\ u[Bucket(p)].count < Threshold => u[Bucket(p)] \in Attempt
<1> DEFINE b == Bucket(p)
           before == IF b \in DOMAIN t THEN t[b].count ELSE 0
           new == [point |-> p, count |-> before + 1, at |-> time]
           v == [k \in DOMAIN t \cup {b} |-> IF k = b THEN new ELSE t[k]]
<1>1. Counted(t, p, time) = v
  BY DEF Counted
<1>2. before \in Nat
  BY DEF AttemptsOK, Attempt
<1> HIDE DEF before, b
<1>3. new.point = p /\ new.count \in Nat \ {0} /\ (new.count < Threshold => new \in Attempt)
  BY <1>2, MemoryAssumption DEF Attempt
<1> HIDE DEF new
<1>4. DOMAIN v = DOMAIN t \cup {b} /\ v[b] = new /\ \A k \in DOMAIN t \ {b} : v[k] = t[k]
  OBVIOUS
<1> HIDE DEF v
<1> QED BY <1>1, <1>3, <1>4 DEF b

\* promote_attempt_to_region: a region around p, new or grown, and no record in it.
LEMMA PromotedFacts ==
  ASSUME NEW t, NEW s, RegionsOK(s), NEW m, m.attempts = t, m.regions = s,
         NEW p \in Int \X Int, NEW time \in Nat
  PROVE  LET n == Promoted(m, p, time)
         IN /\ DOMAIN n = {"attempts", "regions"}
            /\ RegionsOK(n.regions)
            /\ \E keys : n.attempts = Kept(t, keys)
            /\ Clear(n.attempts, s) => Clear(n.attempts, n.regions)
            /\ ExpansionSize < BaseSize => Lasting(s, n.regions, p, time)
<1> DEFINE n == Promoted(m, p, time)
<1>1. /\ s \in Seq(Region) /\ Len(s) <= MaxRegions /\ MaxRegions \in Nat \ {0}
      /\ Len(s) \in Nat /\ DOMAIN s = 1..Len(s)
  BY MemoryAssumption DEF RegionsOK
<1>2. ~Expired(time, time)
  BY MemoryAssumption DEF Expired
<1>3. ASSUME NEW g, NEW u, Clear(u, s), u = Outside(t, g), NEW w \in Seq(Region),
             \A r \in ToSet(w) : r = g \/ r \in ToSet(s)
      PROVE  Clear(u, w)
  <2>1. \A k \in DOMAIN u : ~PointIn(u[k].point, g)
    <3> DEFINE K == {k \in DOMAIN t : ~PointIn(t[k].point, g)}
    <3>1. u = Kept(t, K)
      BY <1>3 DEF Outside
    <3>2. DOMAIN u = DOMAIN t \cap K /\ \A k \in DOMAIN u : u[k] = t[k]
      <4> HIDE DEF K
      <4> QED BY <3>1 DEF Kept
    <3> QED BY <3>2
  <2> QED BY <1>1, <1>3, <2>1, InSomeElement DEF Clear
<1>4. CASE Rings(p, s) # {}
  <2> DEFINE i == Compatible(p, s)
             g == Grown(s[i], p, time)
             w == [s EXCEPT ![i] = g]
  <2>1. i \in 1..Len(s) /\ InRing(p, s[i]) /\ s[i] \in Region
    BY <1>1, <1>4, CompatibleIsOne DEF Rings
  <2>2. n = [attempts |-> Outside(t, g), regions |-> w]
    BY <1>4 DEF Promoted
  <2>3. g \in Region /\ g.at = time
    BY <2>1, GrownIsRegion DEF Grown
  <2>4. /\ \A x \in Int \X Int : ExpansionSize < BaseSize /\ PointIn(x, s[i]) => PointIn(x, g)
    BY <2>1, GrownCovers
  <2> HIDE DEF i, g
  <2>5. /\ w \in Seq(Region) /\ Len(w) = Len(s) /\ w[i] = g
        /\ \A j \in 1..Len(s) : j # i => w[j] = s[j]
    BY <1>1, <2>1, <2>3
  <2> HIDE DEF w
  <2>6. /\ \A r \in ToSet(w) : r = g \/ r \in ToSet(s)
        /\ g \in ToSet(w)
        /\ \A r \in ToSet(s) : r = s[i] \/ r \in ToSet(w)
    BY <1>1, <2>1, <2>5, ElementsByIndex
  <2>7. ExpansionSize < BaseSize => Lasting(s, w, p, time)
    BY <1>2, <2>3, <2>4, <2>6 DEF Lasting, Lives
  <2>8. \E keys : Outside(t, g) = Kept(t, keys)
    BY DEF Outside
  <2>9. Clear(Outside(t, g), s) => Clear(Outside(t, g), w)
    BY <1>3, <2>5, <2>6
  <2>10. DOMAIN n = {"attempts", "regions"} /\ n.attempts = Outside(t, g) /\ n.regions = w
    BY <2>2
  <2>11. RegionsOK(w)
    BY <1>1, <2>5 DEF RegionsOK
  <2> HIDE DEF n
  <2> QED BY <2>7, <2>8, <2>9, <2>10, <2>11 DEF n
<1>5. CASE Rings(p, s) = {}
  <2> DEFINE g == [center |-> p, side |-> BaseSize, at |-> time]
             room == WithRoomForRegion(s)
             w == Append(room, g)
  <2>1. n = [attempts |-> Outside(t, g), regions |-> w]
    BY <1>5 DEF Promoted
  <2>2. g \in Region /\ g.at = time /\ g.center = p
    BY MemoryAssumption DEF Region
  <2>3. /\ room \in Seq(Region) /\ Len(room) < MaxRegions
        /\ ToSet(room) \subseteq ToSet(s)
        /\ \A r \in ToSet(s) \ ToSet(room) :
             Len(s) = MaxRegions /\ \A q \in ToSet(s) : r.at <= q.at
    BY RoomForRegion
  <2> HIDE DEF g, room
  <2>4. w \in Seq(Region) /\ Len(w) <= MaxRegions /\ ToSet(w) = ToSet(room) \cup {g}
    <3>1. w \in Seq(Region) /\ Len(w) = Len(room) + 1 /\ Len(room) \in Nat
      BY <2>2, <2>3
    <3>2. ToSet(w) = ToSet(room) \cup {g}
      BY <2>2, <2>3, AppendElements
    <3>3. MaxRegions \in Nat /\ Len(room) < MaxRegions
      BY <2>3, MemoryAssumption
    <3>4. Len(w) <= MaxRegions
      BY <3>1, <3>3
    <3> QED BY <3>1, <3>2, <3>4
  <2> HIDE DEF w
  <2>5. Lasting(s, w, p, time)
    BY <1>2, <2>2, <2>3, <2>4 DEF Lasting, Lives, GaveWay
  <2>6. \E keys : Outside(t, g) = Kept(t, keys)
    BY DEF Outside
  <2>7. Clear(Outside(t, g), s) => Clear(Outside(t, g), w)
    BY <1>3, <2>3, <2>4
  <2>8. DOMAIN n = {"attempts", "regions"} /\ n.attempts = Outside(t, g) /\ n.regions = w
    BY <2>1
  <2>9. RegionsOK(w)
    BY <2>4 DEF RegionsOK
  <2> HIDE DEF n
  <2> QED BY <2>5, <2>6, <2>7, <2>8, <2>9 DEF n
<1> QED BY <1>4, <1>5

\* record_failed_attempt with room for a record: the table stays within its limits,
\* no record is left in a region, and no region lets go of what it covers.
LEMMA MaturedOK ==
  ASSUME NEW m, MemoryOK(m), NEW p \in Int \X Int, NEW time \in Nat,
         ~InSome(p, m.regions),
         Bucket(p) \in DOMAIN m.attempts \/ Cardinality(DOMAIN m.attempts) < MaxAttempts
  PROVE  LET n == Matured(m, p, time)
         IN /\ MemoryOK(n)
            /\ ExpansionSize < BaseSize => Lasting(m.regions, n.regions, p, time)
<1> DEFINE b == Bucket(p)
           counted == Counted(m.attempts, p, time)
           s == m.regions
           c == [m EXCEPT !.attempts = counted]
           promoted == Promoted(c, p, time)
           n == Matured(m, p, time)
           rest == Kept(promoted.attempts, DOMAIN promoted.attempts \ {b})
<1>1. AttemptsOK(m.attempts) /\ RegionsOK(s) /\ Clear(m.attempts, s) /\ DOMAIN m = {"attempts", "regions"}
  BY DEF MemoryOK
<1>2. /\ DOMAIN counted = DOMAIN m.attempts \cup {b}
      /\ \A k : k \in DOMAIN m.attempts /\ k # b => counted[k] = m.attempts[k]
      /\ counted[b].point = p /\ counted[b].count \in Nat \ {0}
      /\ counted[b].count < Threshold => counted[b] \in Attempt
  <2> HIDE DEF b
  <2> QED BY <1>1, CountedFacts DEF b
<1>3. c.attempts = counted /\ c.regions = s /\ DOMAIN c = {"attempts", "regions"}
  BY <1>1
<1>4. n = IF counted[b].count < Threshold THEN c ELSE [promoted EXCEPT !.attempts = rest]
  BY DEF Matured
<1> HIDE DEF counted, c, promoted, n
<1>5. IsFiniteSet(DOMAIN counted) /\ Cardinality(DOMAIN counted) <= MaxAttempts
  <2>1. IsFiniteSet(DOMAIN m.attempts) /\ Cardinality(DOMAIN m.attempts) \in Nat
    BY <1>1, FS_CardinalityType DEF AttemptsOK
  <2>2. /\ IsFiniteSet(DOMAIN m.attempts \cup {b})
        /\ b \in DOMAIN m.attempts => DOMAIN m.attempts \cup {b} = DOMAIN m.attempts
        /\ b \notin DOMAIN m.attempts =>
             Cardinality(DOMAIN m.attempts \cup {b}) = Cardinality(DOMAIN m.attempts) + 1
    BY <2>1, FS_AddElement
  <2>3. Cardinality(DOMAIN m.attempts) <= MaxAttempts /\ MaxAttempts \in Nat
    BY <1>1, MemoryAssumption DEF AttemptsOK
  <2>4. DOMAIN counted = DOMAIN m.attempts \cup {b}
    BY <1>2
  <2>5. CASE b \in DOMAIN m.attempts
    <3>1. DOMAIN counted = DOMAIN m.attempts
      BY <2>2, <2>4, <2>5
    <3> QED BY <2>1, <2>3, <3>1
  <2>6. CASE b \notin DOMAIN m.attempts
    <3>1. Cardinality(DOMAIN m.attempts) < MaxAttempts
      BY <2>6
    <3>2. Cardinality(DOMAIN counted) = Cardinality(DOMAIN m.attempts) + 1
      BY <2>2, <2>4, <2>6
    <3>3. Cardinality(DOMAIN counted) <= MaxAttempts
      BY <2>1, <2>3, <3>1, <3>2
    <3> QED BY <2>2, <2>4, <3>3
  <2> QED BY <2>5, <2>6
<1>6. Clear(counted, s)
  <2>1. \A k \in DOMAIN counted : ~InSome(counted[k].point, s)
    BY <1>1, <1>2 DEF Clear
  <2> QED BY <2>1 DEF Clear
<1>7. s \in Seq(Region)
  BY <1>1 DEF RegionsOK
<1>8. CASE counted[b].count < Threshold
  <2>1. AttemptsOK(counted)
    <3>1. \A k \in DOMAIN counted : counted[k] \in Attempt /\ Bucket(counted[k].point) = k
      BY <1>1, <1>2, <1>8 DEF AttemptsOK
    <3> QED BY <1>5, <3>1 DEF AttemptsOK
  <2>2. MemoryOK(c)
    BY <1>1, <1>3, <1>6, <2>1 DEF MemoryOK
  <2>3. Lasting(s, s, p, time)
    BY DEF Lasting, Lives
  <2> QED BY <1>3, <1>4, <1>8, <2>2, <2>3 DEF n
<1>9. CASE ~(counted[b].count < Threshold)
  <2>1. /\ DOMAIN promoted = {"attempts", "regions"}
        /\ RegionsOK(promoted.regions)
        /\ \E keys : promoted.attempts = Kept(counted, keys)
        /\ Clear(promoted.attempts, s) => Clear(promoted.attempts, promoted.regions)
        /\ ExpansionSize < BaseSize => Lasting(s, promoted.regions, p, time)
    BY <1>1, <1>3, PromotedFacts DEF promoted
  <2>2. PICK keys : promoted.attempts = Kept(counted, keys)
    BY <2>1
  <2>3. /\ DOMAIN promoted.attempts = DOMAIN counted \cap keys
        /\ \A k \in DOMAIN promoted.attempts : promoted.attempts[k] = counted[k]
    BY <2>2 DEF Kept
  <2>4. /\ DOMAIN rest = DOMAIN promoted.attempts \ {b}
        /\ \A k \in DOMAIN rest : rest[k] = promoted.attempts[k]
    <3>1. DOMAIN rest = DOMAIN promoted.attempts \cap (DOMAIN promoted.attempts \ {b})
      BY KeptFacts
    <3>2. \A k \in DOMAIN rest : rest[k] = promoted.attempts[k]
      BY <3>1 DEF Kept
    <3> QED BY <3>1, <3>2
  <2> HIDE DEF rest
  <2>5. /\ DOMAIN rest \subseteq DOMAIN m.attempts
        /\ \A k \in DOMAIN rest : rest[k] = m.attempts[k] /\ k \in DOMAIN counted /\ rest[k] = counted[k]
    BY <1>2, <2>3, <2>4
  <2>6. AttemptsOK(rest)
    <3>1. IsFiniteSet(DOMAIN m.attempts)
      BY <1>1 DEF AttemptsOK
    <3>2. IsFiniteSet(DOMAIN rest) /\ Cardinality(DOMAIN rest) <= Cardinality(DOMAIN m.attempts)
      BY <2>5, <3>1, FS_Subset
    <3>3. /\ Cardinality(DOMAIN rest) \in Nat /\ Cardinality(DOMAIN m.attempts) \in Nat
          /\ MaxAttempts \in Nat /\ Cardinality(DOMAIN m.attempts) <= MaxAttempts
      BY <1>1, <3>1, <3>2, FS_CardinalityType, MemoryAssumption DEF AttemptsOK
    <3>4. Cardinality(DOMAIN rest) <= MaxAttempts
      BY <3>2, <3>3
    <3>5. \A k \in DOMAIN rest : rest[k] \in Attempt /\ Bucket(rest[k].point) = k
      BY <1>1, <2>5 DEF AttemptsOK
    <3> QED BY <3>2, <3>4, <3>5 DEF AttemptsOK
  <2>7. Clear(rest, promoted.regions)
    <3>1. Clear(promoted.attempts, s)
      BY <1>6, <2>3 DEF Clear
    <3> QED BY <2>1, <2>4, <3>1 DEF Clear
  <2>8. n.attempts = rest /\ n.regions = promoted.regions /\ DOMAIN n = {"attempts", "regions"}
    BY <1>4, <1>9, <2>1 DEF rest
  <2>9. MemoryOK(n)
    BY <2>1, <2>6, <2>7, <2>8 DEF MemoryOK
  <2> QED BY <2>1, <2>8, <2>9 DEF n
<1> QED BY <1>8, <1>9

\* A region that lives on is still alive after the clean-up of the same moment.
LEMMA LastingComposes ==
  ASSUME NEW m, MemoryOK(m), NEW time, NEW p, NEW s,
         Lasting(Pruned(m, time).regions, s, p, time)
  PROVE  Lasting(m.regions, s, p, time)
<1> DEFINE clean == Pruned(m, time).regions
<1>1. /\ ToSet(clean) = {r \in ToSet(m.regions) : ~Expired(r.at, time)}
      /\ Len(clean) <= Len(m.regions)
      /\ Len(clean) = Len(m.regions) => ToSet(clean) = ToSet(m.regions)
      /\ Len(m.regions) <= MaxRegions /\ clean \in Seq(Region) /\ m.regions \in Seq(Region)
  BY PrunedOK DEF MemoryOK, RegionsOK
<1> HIDE DEF clean
<1>2. Len(clean) \in Nat /\ Len(m.regions) \in Nat /\ MaxRegions \in Nat
  BY <1>1, MemoryAssumption
<1>3. Len(clean) = MaxRegions => Len(m.regions) = MaxRegions /\ ToSet(clean) = ToSet(m.regions)
  <2> SUFFICES ASSUME Len(clean) = MaxRegions
               PROVE  Len(m.regions) = MaxRegions /\ ToSet(clean) = ToSet(m.regions)
    OBVIOUS
  <2>1. Len(m.regions) <= MaxRegions /\ Len(clean) <= Len(m.regions)
    BY <1>1
  <2>2. Len(m.regions) = MaxRegions
    BY <1>2, <2>1
  <2> QED BY <1>1, <2>2
<1>4. \A r \in ToSet(clean) : GaveWay(r, clean, s, p, time) => GaveWay(r, m.regions, s, p, time)
  BY <1>3 DEF GaveWay
<1>5. \A r \in ToSet(clean) : Expired(r.at, time) \/ Lives(r, s, time) \/ GaveWay(r, clean, s, p, time)
  BY DEF Lasting, clean
<1> QED BY <1>1, <1>4, <1>5 DEF Lasting

\* record_failed_attempt: what is left keeps its form, and no region lets go of what
\* it covers.
LEMMA RecordedOK ==
  ASSUME NEW m, MemoryOK(m), NEW p \in Int \X Int, NEW time \in Nat,
         NEW n \in Recorded(m, p, time)
  PROVE  /\ MemoryOK(n)
         /\ ExpansionSize < BaseSize => Lasting(m.regions, n.regions, p, time)
<1> DEFINE clean == Pruned(m, time)
<1>1. MemoryOK(clean)
  BY PrunedOK
<1>2. \A s : Lasting(clean.regions, s, p, time) => Lasting(m.regions, s, p, time)
  BY LastingComposes
<1>3. \/ InSome(p, clean.regions) /\ n = clean
      \/ /\ ~InSome(p, clean.regions)
         /\ \E t : /\ n = Matured([clean EXCEPT !.attempts = t], p, time)
                   /\ \/ Bucket(p) \in DOMAIN clean.attempts /\ t = clean.attempts
                      \/ t \in WithRoom(clean.attempts)
  BY DEF Recorded
<1> HIDE DEF clean
<1>4. CASE n = clean
  <2>1. Lasting(clean.regions, clean.regions, p, time)
    BY DEF Lasting, Lives
  <2> QED BY <1>1, <1>2, <1>4, <2>1
<1>5. ASSUME NEW t, ~InSome(p, clean.regions),
             n = Matured([clean EXCEPT !.attempts = t], p, time),
             \/ Bucket(p) \in DOMAIN clean.attempts /\ t = clean.attempts
             \/ t \in WithRoom(clean.attempts)
      PROVE  /\ MemoryOK(n)
             /\ ExpansionSize < BaseSize => Lasting(m.regions, n.regions, p, time)
  <2> DEFINE roomy == [clean EXCEPT !.attempts = t]
  <2>1. AttemptsOK(clean.attempts) /\ RegionsOK(clean.regions) /\ Clear(clean.attempts, clean.regions)
        /\ DOMAIN clean = {"attempts", "regions"}
    BY <1>1 DEF MemoryOK
  <2>2. AttemptsOK(t) /\ Clear(t, clean.regions)
        /\ (Bucket(p) \in DOMAIN t \/ Cardinality(DOMAIN t) < MaxAttempts)
    BY <1>5, <2>1, RoomForRecord
  <2>3. roomy.attempts = t /\ roomy.regions = clean.regions /\ DOMAIN roomy = {"attempts", "regions"}
    BY <2>1
  <2> HIDE DEF roomy
  <2>4. MemoryOK(roomy)
    BY <2>1, <2>2, <2>3 DEF MemoryOK
  <2>5. ~InSome(p, roomy.regions)
    BY <1>5, <2>3
  <2>6. n = Matured(roomy, p, time)
    BY <1>5 DEF roomy
  <2>7. /\ MemoryOK(n)
        /\ ExpansionSize < BaseSize => Lasting(roomy.regions, n.regions, p, time)
    BY <2>2, <2>3, <2>4, <2>5, <2>6, MaturedOK
  <2> QED BY <1>2, <2>3, <2>7
<1> QED BY <1>3, <1>4, <1>5

\* What lasts is not swept away by the clean-up of the same moment.
LEMMA LastingSurvives ==
  ASSUME NEW m, MemoryOK(m), NEW time, NEW p, NEW s, Lasting(s, m.regions, p, time)
  PROVE  Lasting(s, Pruned(m, time).regions, p, time)
<1>1. ToSet(Pruned(m, time).regions) = {r \in ToSet(m.regions) : ~Expired(r.at, time)}
  BY PrunedOK
<1>2. \A r : Lives(r, m.regions, time) => Lives(r, Pruned(m, time).regions, time)
  BY <1>1 DEF Lives
<1>3. \A r : GaveWay(r, s, m.regions, p, time) => GaveWay(r, s, Pruned(m, time).regions, p, time)
  BY <1>1 DEF GaveWay
<1> QED BY <1>2, <1>3 DEF Lasting

-----------------------------------------------------------------------------
(* A core in order.                                                         *)

Fields ==
  {"raw", "dirty", "decided", "mapGen", "global", "globalGen", "globalPending", "local",
   "localGen", "localPending", "snapshot", "order", "memory", "returning", "goal"}

Goals == {NoGoal, ReturnGoal} \cup {FrontierGoal(p) : p \in Points}

\* What the core holds of its maps, and the search it keeps.
Typed(c) ==
  /\ c.raw \in Maps \cup {None} /\ c.decided \in {Decision(m) : m \in Maps} \cup {None}
  /\ c.global \in Costs \cup {None} /\ c.local \in Costs \cup {None}
  /\ c.dirty \in BOOLEAN /\ c.globalPending \in BOOLEAN /\ c.localPending \in BOOLEAN
  /\ c.mapGen \in Nat /\ c.globalGen \in Nat /\ c.localGen \in Nat
  /\ c.snapshot \in Snapshots \cup {None}

\* SnapshotIsFresh of a core.
Fresh(c) ==
  c.snapshot # None =>
    /\ c.snapshot.mapGen = c.mapGen
    /\ c.snapshot.globalGen = c.globalGen /\ c.snapshot.localGen = c.localGen
    /\ ~c.globalPending =>
         c.snapshot.points = Search(c.decided, c.global, c.snapshot.cell, c.snapshot.distance)

\* An order was made for some set of points, and goes to some of them.
OrderOf(order, points) == order.signature = Signature(points) /\ order.stops \subseteq points
OrderOK(order) == order # None => \E points \in SUBSET Points : OrderOf(order, points)

InOrder(c) ==
  /\ DOMAIN c = Fields
  /\ Typed(c) /\ Fresh(c) /\ OrderOK(c.order) /\ MemoryOK(c.memory)
  /\ c.returning \in BOOLEAN /\ c.goal \in Goals

\* What the search of this update saw is in the cache.
Seen(c) ==
  /\ c.snapshot \in Snapshots /\ c.snapshot.cell = robot
  /\ ~c.globalPending =>
       c.snapshot.points = Search(c.decided, c.global, robot, c.snapshot.distance)

\* The order in the cache is for what that search saw.
Planned(c) ==
  /\ InOrder(c) /\ Seen(c)
  /\ c.order.signature = Signature(Candidates(c))
  /\ \E points \in SUBSET Points : OrderOf(c.order, points)

\* DispatchesCurrentTargets of a core.
Current(d) ==
  /\ SkipBlocked => ~Blocked(d, d.goal.target)
  /\ ~d.globalPending =>
       \E distance \in MinDistances :
         \E p \in Search(d.decided, d.global, robot, distance) :
           /\ Bucket(p) = Bucket(d.goal.target)
           /\ SuppressionActive => ~InSome(p, d.memory.regions)

\* A goal that is sent for a frontier is current.
Sends(c, d) == InOrder(d) /\ (d.goal = c.goal \/ d.goal.kind # "frontier" \/ Current(d))

\* What a function of the core may do to its argument.
Outcome(c, d) == Sends(c, d) /\ d.memory \in {c.memory, Pruned(c.memory, now)}

-----------------------------------------------------------------------------
(* The functions of the core.                                               *)

\* What neither the maps nor the search are about may change.
LEMMA OtherFields ==
  ASSUME NEW c, InOrder(c)
  PROVE  /\ \A v : OrderOK(v) => InOrder([c EXCEPT !.order = v])
         /\ \A v : MemoryOK(v) => InOrder([c EXCEPT !.memory = v])
         /\ \A v \in Goals : InOrder([c EXCEPT !.goal = v])
         /\ \A v \in BOOLEAN : InOrder([c EXCEPT !.returning = v])
         /\ InOrder([c EXCEPT !.dirty = FALSE])
BY DEF InOrder, Typed, Fresh, Fields

\* refresh_decision_map: a new decision map discards the snapshot.
LEMMA RefreshedInOrder ==
  ASSUME NEW c, InOrder(c)
  PROVE  /\ InOrder(Refreshed(c))
         /\ c.raw # None => Refreshed(c).decided # None
         /\ \A f \in Fields \ {"dirty", "decided", "mapGen", "snapshot"} : Refreshed(c)[f] = c[f]
<1>1. CASE c.raw = None \/ Decision(c.raw) = c.decided
  <2>1. Refreshed(c) = [c EXCEPT !.dirty = FALSE]
    BY <1>1 DEF Refreshed
  <2>2. c.raw # None => c.decided # None
    BY <1>1, SelectionAssumption DEF InOrder, Typed
  <2>3. InOrder(Refreshed(c))
    BY <2>1, OtherFields
  <2> QED
    BY <2>1, <2>2, <2>3 DEF InOrder, Fields
<1>2. CASE ~(c.raw = None \/ Decision(c.raw) = c.decided)
  <2> DEFINE d == Refreshed(c)
  <2>1. c.raw \in Maps /\ c.mapGen \in Nat
    BY <1>2 DEF InOrder, Typed
  <2>2. /\ DOMAIN d = Fields /\ d.snapshot = None /\ d.decided = Decision(c.raw)
        /\ d.mapGen = c.mapGen + 1 /\ d.dirty = FALSE
        /\ \A f \in Fields \ {"dirty", "decided", "mapGen", "snapshot"} : d[f] = c[f]
    BY <1>2 DEF Refreshed, InOrder, Fields
  <2> HIDE DEF d
  <2>3. d.decided # None
    BY <2>1, <2>2, SelectionAssumption
  <2>4. /\ d.raw = c.raw /\ d.global = c.global /\ d.local = c.local
        /\ d.globalPending = c.globalPending /\ d.localPending = c.localPending
        /\ d.globalGen = c.globalGen /\ d.localGen = c.localGen
        /\ d.order = c.order /\ d.memory = c.memory /\ d.returning = c.returning /\ d.goal = c.goal
    BY <2>2 DEF Fields
  <2>5. d.mapGen \in Nat /\ d.decided \in {Decision(m) : m \in Maps}
    BY <2>1, <2>2
  <2>6. Typed(d) /\ Fresh(d)
    BY <2>2, <2>4, <2>5 DEF InOrder, Typed, Fresh
  <2>7. InOrder(d)
    BY <2>2, <2>4, <2>6 DEF InOrder
  <2> QED
    BY <2>2, <2>3, <2>7 DEF d
<1> QED
  BY <1>1, <1>2

\* A raw map only marks the decision map as old.
LEMMA IngestedInOrder ==
  ASSUME NEW c, InOrder(c), NEW m \in Maps
  PROVE  InOrder(Ingested(c, m)) /\ Ingested(c, m).memory = c.memory /\ Ingested(c, m).goal = c.goal
BY DEF Ingested, InOrder, Typed, Fresh, Fields

\* Committing cost maps discards the snapshot with the old generations.
LEMMA CommittedInOrder ==
  ASSUME NEW c, InOrder(c)
  PROVE  /\ InOrder(Committed(c))
         /\ Committed(c).memory = c.memory /\ Committed(c).goal = c.goal
         /\ Committed(c).raw = c.raw /\ Committed(c).global = c.global
<1>1. CASE ~c.globalPending /\ ~c.localPending
  BY <1>1 DEF Committed
<1>2. CASE ~(~c.globalPending /\ ~c.localPending)
  <2> DEFINE d == Committed(c)
  <2>1. c.globalGen \in Nat /\ c.localGen \in Nat
    BY DEF InOrder, Typed
  <2>2. /\ DOMAIN d = Fields /\ d.snapshot = None
        /\ d.globalGen = (IF c.globalPending THEN c.globalGen + 1 ELSE c.globalGen)
        /\ d.localGen = (IF c.localPending THEN c.localGen + 1 ELSE c.localGen)
        /\ d.globalPending = FALSE /\ d.localPending = FALSE
        /\ d.raw = c.raw /\ d.global = c.global /\ d.local = c.local
        /\ d.dirty = c.dirty /\ d.decided = c.decided /\ d.mapGen = c.mapGen
        /\ d.order = c.order /\ d.memory = c.memory /\ d.returning = c.returning /\ d.goal = c.goal
    BY <1>2 DEF Committed, InOrder, Fields
  <2> HIDE DEF d
  <2>3. d.globalGen \in Nat /\ d.localGen \in Nat
    BY <2>1, <2>2
  <2>4. InOrder(d)
    BY <2>2, <2>3 DEF InOrder, Typed, Fresh
  <2> QED
    BY <2>2, <2>4 DEF d
<1> QED
  BY <1>1, <1>2

\* A search fills the cache from what it searched, or finds it there.
LEMMA LookedInOrder ==
  ASSUME NEW c, InOrder(c), NEW distance \in MinDistances, c.raw # None, c.global # None,
         robot \in Robots
  PROVE  LET d == Looked(c, distance)
         IN InOrder(d) /\ Seen(d) /\ d.memory = c.memory /\ d.goal = c.goal
<1> DEFINE d == IF c.decided = None \/ c.dirty THEN Refreshed(c) ELSE c
           points == Search(d.decided, d.global, robot, distance)
           found == [mapGen |-> d.mapGen, globalGen |-> d.globalGen, localGen |-> d.localGen,
                     cell |-> robot, distance |-> distance, points |-> points]
           e == [d EXCEPT !.snapshot = found]
<1>1. InOrder(d) /\ d.decided # None
  BY RefreshedInOrder
<1>2. d.global = c.global /\ d.memory = c.memory /\ d.goal = c.goal
  <2>1. {"global", "memory", "goal"} \subseteq Fields \ {"dirty", "decided", "mapGen", "snapshot"}
    BY DEF Fields
  <2> QED
    BY <2>1, RefreshedInOrder
<1>3. Looked(c, distance) = IF KeyMatches(d.snapshot, d, distance) THEN d ELSE e
  BY DEF Looked
<1> HIDE DEF d
<1>4. points \subseteq Points
  <2>1. d.decided \in {Decision(m) : m \in Maps} /\ d.global \in Costs
    BY <1>1, <1>2 DEF InOrder, Typed
  <2> QED
    BY <2>1, SelectionAssumption
<1> HIDE DEF points
<1>5. CASE KeyMatches(d.snapshot, d, distance)
  <2>1. Seen(d)
    BY <1>1, <1>5 DEF Seen, KeyMatches, InOrder, Typed, Fresh
  <2> QED
    BY <1>1, <1>2, <1>3, <1>5, <2>1
<1>6. CASE ~KeyMatches(d.snapshot, d, distance)
  <2>1. d.mapGen \in Nat /\ d.globalGen \in Nat /\ d.localGen \in Nat
    BY <1>1 DEF InOrder, Typed
  <2>2. found \in Snapshots
    BY <1>4, <2>1 DEF Snapshots
  <2>3. e.snapshot = found /\ DOMAIN e = Fields /\ \A f \in Fields \ {"snapshot"} : e[f] = d[f]
    BY <1>1 DEF InOrder, Fields
  <2>4. /\ e.raw = d.raw /\ e.decided = d.decided /\ e.dirty = d.dirty /\ e.mapGen = d.mapGen
        /\ e.global = d.global /\ e.local = d.local
        /\ e.globalPending = d.globalPending /\ e.localPending = d.localPending
        /\ e.globalGen = d.globalGen /\ e.localGen = d.localGen
        /\ e.order = d.order /\ e.memory = d.memory /\ e.returning = d.returning /\ e.goal = d.goal
    BY <2>3 DEF Fields
  <2>5. /\ found.mapGen = d.mapGen /\ found.globalGen = d.globalGen /\ found.localGen = d.localGen
        /\ found.cell = robot /\ found.distance = distance
        /\ found.points = Search(d.decided, d.global, robot, distance)
    BY DEF points
  <2> HIDE DEF e, found
  <2>6. Fresh(e) /\ Seen(e)
    BY <2>2, <2>3, <2>4, <2>5 DEF Fresh, Seen
  <2>7. Typed(e)
    BY <1>1, <2>2, <2>3, <2>4 DEF Typed, InOrder
  <2>8. InOrder(e)
    BY <1>1, <2>3, <2>4, <2>6, <2>7 DEF InOrder
  <2> QED
    BY <1>2, <1>3, <1>6, <2>4, <2>6, <2>8
<1> QED
  BY <1>5, <1>6

\* The clean-up of the memory is not about the search.
LEMMA CleanedInOrder ==
  ASSUME NEW c, InOrder(c), Seen(c)
  PROVE  LET d == Cleaned(c)
         IN /\ InOrder(d) /\ Seen(d) /\ d.goal = c.goal
            /\ d.memory \in {c.memory, Pruned(c.memory, now)}
<1> DEFINE d == [c EXCEPT !.memory = Pruned(c.memory, now)]
<1>1. MemoryOK(Pruned(c.memory, now))
  BY PrunedOK DEF InOrder
<1>2. InOrder(d)
  BY <1>1, OtherFields
<1>3. /\ d.memory = Pruned(c.memory, now) /\ d.goal = c.goal /\ d.snapshot = c.snapshot
      /\ d.globalPending = c.globalPending /\ d.decided = c.decided /\ d.global = c.global
  BY DEF InOrder, Fields
<1>4. Seen(d)
  BY <1>3 DEF Seen
<1>5. Cleaned(c) = IF SuppressionActive THEN d ELSE c
  BY DEF Cleaned
<1> HIDE DEF d
<1> QED
  BY <1>2, <1>3, <1>4, <1>5

\* What a search saw, cleaned of what is suppressed.
LEMMA SurveyedInOrder ==
  ASSUME NEW c, InOrder(c), NEW distance \in MinDistances, c.raw # None, c.global # None,
         robot \in Robots
  PROVE  LET d == Cleaned(Looked(c, distance))
         IN /\ InOrder(d) /\ Seen(d) /\ d.goal = c.goal
            /\ d.memory \in {c.memory, Pruned(c.memory, now)}
BY LookedInOrder, CleanedInOrder

\* A temporary return that ends changes nothing that was seen or planned.
LEMMA ReturningEnds ==
  ASSUME NEW c, InOrder(c), Seen(c), NEW v \in BOOLEAN
  PROVE  LET d == [c EXCEPT !.returning = v]
         IN /\ InOrder(d) /\ Seen(d) /\ d.goal = c.goal /\ d.memory = c.memory
            /\ Candidates(d) = Candidates(c) /\ d.order = c.order
<1> DEFINE d == [c EXCEPT !.returning = v]
<1>1. InOrder(d)
  BY OtherFields
<1>2. /\ d.memory = c.memory /\ d.goal = c.goal /\ d.snapshot = c.snapshot /\ d.order = c.order
      /\ d.globalPending = c.globalPending /\ d.decided = c.decided /\ d.global = c.global
  BY DEF InOrder, Fields
<1> HIDE DEF d
<1>3. Seen(d) /\ Candidates(d) = Candidates(c)
  BY <1>2 DEF Seen, Candidates
<1> QED
  BY <1>1, <1>2, <1>3 DEF d

\* Candidates are goal points.
LEMMA CandidatesSeen ==
  ASSUME NEW c, Seen(c)
  PROVE  Candidates(c) \in SUBSET Points
BY DEF Seen, Snapshots, Candidates, Unsuppressed

\* An order, new or from the cache, counts the same frontiers per bucket.
LEMMA OrderedInOrder ==
  ASSUME NEW c, InOrder(c), Seen(c), NEW d \in Ordered(c)
  PROVE  Planned(d) /\ d.goal = c.goal /\ d.memory = c.memory
<1> DEFINE signature == Signature(Candidates(c))
<1>1. CASE d = c /\ c.order # None /\ c.order.signature = signature
  BY <1>1 DEF Planned, InOrder, OrderOK
<1>2. CASE \E stops \in SUBSET Candidates(c) :
             d = [c EXCEPT !.order = [signature |-> signature, pose |-> Bucket(robot), stops |-> stops]]
  <2>1. PICK stops \in SUBSET Candidates(c) :
             d = [c EXCEPT !.order = [signature |-> signature, pose |-> Bucket(robot), stops |-> stops]]
    BY <1>2
  <2> DEFINE order == [signature |-> signature, pose |-> Bucket(robot), stops |-> stops]
  <2>2. order.signature = signature /\ order.stops = stops
    OBVIOUS
  <2> HIDE DEF order
  <2>3. OrderOf(order, Candidates(c)) /\ Candidates(c) \in SUBSET Points
    BY <2>2, CandidatesSeen DEF OrderOf
  <2>4. OrderOK(order)
    BY <2>3 DEF OrderOK
  <2>5. d = [c EXCEPT !.order = order]
    BY <2>1 DEF order
  <2>6. InOrder(d)
    BY <2>4, <2>5, OtherFields
  <2>7. /\ d.order = order /\ d.memory = c.memory /\ d.goal = c.goal /\ d.snapshot = c.snapshot
        /\ d.globalPending = c.globalPending /\ d.decided = c.decided /\ d.global = c.global
    BY <2>5 DEF InOrder, Fields
  <2>8. Seen(d) /\ Candidates(d) = Candidates(c)
    BY <2>7 DEF Seen, Candidates
  <2> QED
    BY <2>2, <2>3, <2>6, <2>7, <2>8 DEF Planned
<1> QED
  BY <1>1, <1>2 DEF Ordered

\* A target that is sent is, to within a bucket, one of those seen.
LEMMA DispatchedOutcome ==
  ASSUME NEW c, Planned(c), NEW d \in Dispatched(c)
  PROVE  Sends(c, d) /\ d.memory = c.memory
<1>1. InOrder(c) /\ Seen(c) /\ c.order.signature = Signature(Candidates(c))
  BY DEF Planned
<1>2. CASE d = c
  BY <1>1, <1>2 DEF Sends
<1>3. CASE \E p \in c.order.stops : /\ ~SkipBlocked \/ ~Blocked(c, p)
                                    /\ d = [c EXCEPT !.goal = FrontierGoal(p)]
  <2>1. PICK p \in c.order.stops : /\ ~SkipBlocked \/ ~Blocked(c, p)
                                   /\ d = [c EXCEPT !.goal = FrontierGoal(p)]
    BY <1>3
  <2>2. PICK points \in SUBSET Points : OrderOf(c.order, points)
    BY DEF Planned
  <2>3. p \in points /\ Signature(points) = Signature(Candidates(c))
    BY <1>1, <2>2 DEF OrderOf
  <2>4. /\ d.goal = FrontierGoal(p) /\ d.memory = c.memory /\ d.snapshot = c.snapshot
        /\ d.globalPending = c.globalPending /\ d.decided = c.decided
        /\ d.global = c.global /\ d.local = c.local
    BY <1>1, <2>1 DEF InOrder, Fields
  <2>5. InOrder(d)
    BY <1>1, <2>1, <2>3, OtherFields DEF Goals
  <2>6. FrontierGoal(p).target = p
    BY DEF FrontierGoal
  <2>7. PICK q \in Candidates(c) : Bucket(q) = Bucket(p)
    <3>1. \A set : DOMAIN Signature(set) = {Bucket(x) : x \in set}
      BY DEF Signature
    <3>2. {Bucket(x) : x \in points} = {Bucket(x) : x \in Candidates(c)}
      BY <2>3, <3>1
    <3> QED
      BY <2>3, <3>2
  <2>8. q \in c.snapshot.points /\ (SuppressionActive => ~InSome(q, c.memory.regions))
    BY <2>7 DEF Candidates, Unsuppressed
  <2>9. SkipBlocked => ~Blocked(d, p)
    BY <2>1, <2>4 DEF Blocked
  <2>10. c.snapshot.distance \in MinDistances
    BY <1>1 DEF Seen, Snapshots
  <2>11. Current(d)
    BY <1>1, <2>4, <2>6, <2>7, <2>8, <2>9, <2>10 DEF Current, Seen
  <2> QED
    BY <2>4, <2>5, <2>11 DEF Sends
<1> QED
  BY <1>2, <1>3 DEF Dispatched

\* Waiting, or driving back for a while, sends no frontier.
LEMMA AllSuppressedOutcome ==
  ASSUME NEW c, InOrder(c), NEW d \in AllSuppressed(c)
  PROVE  Sends(c, d) /\ d.memory = c.memory
<1> DEFINE waiting == [c EXCEPT !.returning = TRUE]
           leaving == [c EXCEPT !.returning = TRUE, !.goal = ReturnGoal]
<1>1. InOrder(waiting) /\ InOrder([waiting EXCEPT !.goal = ReturnGoal])
  <2>1. ReturnGoal \in Goals
    BY DEF Goals
  <2>2. InOrder(waiting)
    BY OtherFields
  <2> HIDE DEF waiting
  <2> QED
    BY <2>1, <2>2, OtherFields
<1>2. leaving = [waiting EXCEPT !.goal = ReturnGoal]
  BY DEF InOrder, Fields
<1>3. /\ waiting.memory = c.memory /\ waiting.goal = c.goal
      /\ leaving.memory = c.memory /\ leaving.goal = ReturnGoal
  BY DEF InOrder, Fields
<1>4. ReturnGoal.kind # "frontier"
  BY DEF ReturnGoal
<1>5. d \in {c, waiting, leaving}
  BY DEF AllSuppressed
<1> HIDE DEF waiting, leaving
<1> QED
  BY <1>1, <1>2, <1>3, <1>4, <1>5 DEF Sends

\* try_send_next_goal, from the commit to the goal that is sent.
LEMMA TrySendOutcome ==
  ASSUME NEW c, InOrder(c), NEW d \in TrySend(c), robot \in Robots
  PROVE  Outcome(c, d)
<1> DEFINE committed == Committed(c)
           Waiting(e) == [e EXCEPT !.returning = FALSE]
           Chosen(e) ==
             IF Candidates(e) # {}
             THEN UNION {Dispatched(f) : f \in Ordered(Waiting(e))}
             ELSE IF e.snapshot.points # {} THEN AllSuppressed(e)
             ELSE {Waiting(e)}
<1>1. /\ InOrder(committed) /\ committed.memory = c.memory /\ committed.goal = c.goal
      /\ committed.raw = c.raw /\ committed.global = c.global
  BY CommittedInOrder
<1> HIDE DEF committed
<1>2. ASSUME NEW e, InOrder(e), Seen(e), NEW f \in Chosen(e)
      PROVE  Sends(e, f) /\ f.memory = e.memory
  <2>1. /\ InOrder(Waiting(e)) /\ Seen(Waiting(e))
        /\ Waiting(e).goal = e.goal /\ Waiting(e).memory = e.memory
    BY <1>2, ReturningEnds
  <2>2. CASE Candidates(e) # {}
    <3>1. PICK g \in Ordered(Waiting(e)) : f \in Dispatched(g)
      BY <1>2, <2>2
    <3> HIDE DEF Waiting, Chosen
    <3>2. Planned(g) /\ g.goal = e.goal /\ g.memory = e.memory
      BY <2>1, <3>1, OrderedInOrder
    <3>3. Sends(g, f) /\ f.memory = g.memory
      BY <3>1, <3>2, DispatchedOutcome
    <3> QED
      BY <3>2, <3>3 DEF Sends
  <2>3. CASE Candidates(e) = {}
    <3>1. f = Waiting(e) \/ f \in AllSuppressed(e)
      BY <1>2, <2>3
    <3>2. Sends(e, Waiting(e))
      BY <2>1 DEF Sends
    <3> QED
      BY <1>2, <2>1, <3>1, <3>2, AllSuppressedOutcome
  <2> QED
    BY <2>2, <2>3
<1>3. ASSUME NEW distance \in MinDistances, c.raw # None, c.global # None
      PROVE  LET e == Cleaned(Looked(committed, distance))
             IN /\ InOrder(e) /\ Seen(e) /\ e.goal = committed.goal
                /\ e.memory \in {committed.memory, Pruned(committed.memory, now)}
  BY <1>1, <1>3, SurveyedInOrder
<1> HIDE DEF Chosen
<1>4. \/ d \in {c, committed, Refreshed(committed)}
      \/ /\ c.raw # None /\ c.global # None /\ c.goal = NoGoal
         /\ \E distance \in MinDistances : d \in Chosen(Cleaned(Looked(committed, distance)))
  BY DEF TrySend, committed, Chosen
<1>5. Outcome(c, c) /\ Outcome(c, committed) /\ Outcome(c, Refreshed(committed))
  <2>1. {"memory", "goal"} \subseteq Fields \ {"dirty", "decided", "mapGen", "snapshot"}
    BY DEF Fields
  <2>2. /\ InOrder(Refreshed(committed))
        /\ Refreshed(committed).memory = c.memory /\ Refreshed(committed).goal = c.goal
    BY <1>1, <2>1, RefreshedInOrder
  <2> QED
    BY <1>1, <2>2 DEF Outcome, Sends
<1>6. ASSUME c.raw # None, c.global # None, c.goal = NoGoal,
             NEW distance \in MinDistances, d \in Chosen(Cleaned(Looked(committed, distance)))
      PROVE  Outcome(c, d)
  <2> DEFINE e == Cleaned(Looked(committed, distance))
  <2>1. /\ InOrder(e) /\ Seen(e) /\ e.goal = c.goal
        /\ e.memory \in {c.memory, Pruned(c.memory, now)}
    BY <1>1, <1>3, <1>6
  <2>2. Sends(e, d) /\ d.memory = e.memory
    BY <1>2, <1>6, <2>1
  <2> HIDE DEF e
  <2> QED
    BY <2>1, <2>2 DEF Outcome, Sends
<1> QED
  BY <1>4, <1>5, <1>6

\* A preemption looks at the present maps before it replaces a goal.
LEMMA ConsiderPreemptOutcome ==
  ASSUME NEW c, InOrder(c), NEW d \in ConsiderPreempt(c), robot \in Robots
  PROVE  Outcome(c, d)
<1> DEFINE looked == Cleaned(Looked(c, BaseDistance))
<1>1. c.raw # None /\ c.global # None =>
        /\ InOrder(looked) /\ Seen(looked) /\ looked.goal = c.goal
        /\ looked.memory \in {c.memory, Pruned(c.memory, now)}
  BY SelectionAssumption, SurveyedInOrder
<1>2. \/ d = c
      \/ /\ c.raw # None /\ c.global # None
         /\ d = looked \/ \E e \in Ordered(looked) : d \in Dispatched(e)
  BY DEF ConsiderPreempt
<1> HIDE DEF looked
<1>3. CASE d = c \/ (c.raw # None /\ c.global # None /\ d = looked)
  BY <1>1, <1>3 DEF Outcome, Sends
<1>4. CASE c.raw # None /\ c.global # None /\ \E e \in Ordered(looked) : d \in Dispatched(e)
  <2>1. PICK e \in Ordered(looked) : d \in Dispatched(e)
    BY <1>4
  <2>2. Planned(e) /\ e.goal = looked.goal /\ e.memory = looked.memory
    BY <1>1, <1>4, OrderedInOrder
  <2>3. Sends(e, d) /\ d.memory = e.memory
    BY <2>1, <2>2, DispatchedOutcome
  <2> QED
    BY <1>1, <1>4, <2>2, <2>3 DEF Outcome, Sends
<1> QED
  BY <1>2, <1>3, <1>4

\* So does the end of a temporary return.
LEMMA ConsiderCancelReturnOutcome ==
  ASSUME NEW c, InOrder(c), NEW d \in ConsiderCancelReturn(c), robot \in Robots
  PROVE  Outcome(c, d)
<1> DEFINE looked == Cleaned(Looked(c, BaseDistance))
           Over(e) == [e EXCEPT !.returning = FALSE]
<1>1. c.raw # None /\ c.global # None =>
        /\ InOrder(looked) /\ Seen(looked) /\ looked.goal = c.goal
        /\ looked.memory \in {c.memory, Pruned(c.memory, now)}
  BY SelectionAssumption, SurveyedInOrder
<1>2. \/ d = c
      \/ /\ c.raw # None /\ c.global # None
         /\ d = looked \/ \E e \in Ordered(looked) : d \in Dispatched(Over(e))
  BY DEF ConsiderCancelReturn
<1> HIDE DEF looked
<1>3. CASE d = c \/ (c.raw # None /\ c.global # None /\ d = looked)
  BY <1>1, <1>3 DEF Outcome, Sends
<1>4. CASE c.raw # None /\ c.global # None /\ \E e \in Ordered(looked) : d \in Dispatched(Over(e))
  <2>1. PICK e \in Ordered(looked) : d \in Dispatched(Over(e))
    BY <1>4
  <2>2. Planned(e) /\ e.goal = looked.goal /\ e.memory = looked.memory
    BY <1>1, <1>4, OrderedInOrder
  <2>3. /\ InOrder(Over(e)) /\ Seen(Over(e)) /\ Over(e).goal = e.goal /\ Over(e).memory = e.memory
        /\ Candidates(Over(e)) = Candidates(e) /\ Over(e).order = e.order
    BY <2>2, ReturningEnds DEF Planned
  <2> HIDE DEF Over
  <2>4. Planned(Over(e))
    BY <2>2, <2>3 DEF Planned
  <2>5. Sends(Over(e), d) /\ d.memory = Over(e).memory
    BY <2>1, <2>4, DispatchedOutcome
  <2> QED
    BY <1>1, <1>4, <2>2, <2>3, <2>5 DEF Outcome, Sends
<1> QED
  BY <1>2, <1>3, <1>4

\* A map update, by the goal that is driven.
LEMMA OnMapOutcome ==
  ASSUME NEW c, InOrder(c), NEW d \in OnMap(c), robot \in Robots
  PROVE  Outcome(c, d)
BY ConsiderPreemptOutcome, ConsiderCancelReturnOutcome, TrySendOutcome DEF OnMap

\* A cost map update.
LEMMA OnCostOutcome ==
  ASSUME NEW c, InOrder(c), NEW d \in OnCost(c), robot \in Robots
  PROVE  Outcome(c, d)
<1>1. /\ InOrder(Committed(c)) /\ Committed(c).memory = c.memory /\ Committed(c).goal = c.goal
  BY CommittedInOrder
<1>2. d \in {c, Committed(c)} => Outcome(c, d)
  BY <1>1 DEF Outcome, Sends
<1>3. d \in TrySend(Committed(c)) => Outcome(c, d)
  <2>1. d \in TrySend(Committed(c)) => Outcome(Committed(c), d)
    BY <1>1, TrySendOutcome
  <2> QED
    BY <1>1, <2>1 DEF Outcome, Sends
<1> QED
  BY <1>2, <1>3, ConsiderCancelReturnOutcome DEF OnCost

\* A cost map that is not committed yet is announced by its flag.
LEMMA DeferredInOrder ==
  ASSUME NEW c, InOrder(c), NEW g \in Costs
  PROVE  /\ InOrder(DeferredGlobal(c, g)) /\ InOrder(DeferredLocal(c, g))
         /\ DeferredGlobal(c, g).memory = c.memory /\ DeferredGlobal(c, g).goal = c.goal
         /\ DeferredLocal(c, g).memory = c.memory /\ DeferredLocal(c, g).goal = c.goal
<1>1. /\ InOrder(DeferredGlobal(c, g))
      /\ DeferredGlobal(c, g).memory = c.memory /\ DeferredGlobal(c, g).goal = c.goal
  BY DEF DeferredGlobal, InOrder, Typed, Fresh, Fields
<1>2. /\ InOrder(DeferredLocal(c, g))
      /\ DeferredLocal(c, g).memory = c.memory /\ DeferredLocal(c, g).goal = c.goal
  BY DEF DeferredLocal, InOrder, Typed, Fresh, Fields
<1> QED
  BY <1>1, <1>2

\* A session starts and ends in order.
LEMMA EmptyInOrder == \A goal \in Goals : InOrder([EmptyCore EXCEPT !.goal = goal])
<1>1. MemoryOK(FreshMemory)
  BY FreshMemoryOK
<1> QED
  BY <1>1 DEF EmptyCore, InOrder, Typed, Fresh, OrderOK, Fields

-----------------------------------------------------------------------------
(* The steps.                                                               *)

\* The inductive invariant: the core is in order, and so is the rest.
Ready ==
  /\ InOrder(core)
  /\ enabled \in BOOLEAN /\ timer \in BOOLEAN /\ robot \in Robots
  /\ now \in 0..MaxTime /\ spent \in 0..MaxUpdates /\ activeAt \in Nat

\* Each region that is not gone by its time is covered, or gave its place away.
Lasts == Lasting(core.memory.regions, core'.memory.regions, core.goal.target, now)

\* What a step does to the core.
Effect ==
  /\ Sends(core, core')
  /\ enabled' = enabled /\ ExpansionSize < BaseSize => Lasts

\* Nothing is out of order at the start.
LEMMA InitReady == Init => Ready
<1> SUFFICES ASSUME Init PROVE Ready
  OBVIOUS
<1>1. NoGoal \in Goals /\ MemoryOK(FreshMemory)
  BY FreshMemoryOK DEF Goals
<1>2. InOrder(EmptyCore)
  BY <1>1 DEF EmptyCore, InOrder, Typed, Fresh, OrderOK, Fields
<1>3. /\ enabled \in BOOLEAN /\ timer \in BOOLEAN /\ robot \in Robots
      /\ now = 0 /\ spent = 0 /\ activeAt = 0
  BY DEF Init
<1>4. now \in 0..MaxTime /\ spent \in 0..MaxUpdates /\ activeAt \in Nat
  BY <1>3, SelectionAssumption
<1>5. InOrder(core)
  BY <1>2 DEF Init
<1> QED
  BY <1>3, <1>4, <1>5 DEF Ready

\* Where the memory is as it was, or cleaned, every live region is left.
LEMMA CleanedLasts ==
  ASSUME NEW m, MemoryOK(m), NEW n \in {m, Pruned(m, now)}, NEW p
  PROVE  Lasting(m.regions, n.regions, p, now)
<1>1. Lasting(m.regions, m.regions, p, now)
  BY DEF Lasting, Lives
<1> QED
  BY <1>1, LastingSurvives

\* A function of the core, after a change of what the maps hold.
LEMMA OutcomeEffect ==
  ASSUME NEW c, Outcome(c, core'), c.memory = core.memory, MemoryOK(core.memory),
         c.goal \in {core.goal, NoGoal}
  PROVE  Effect
<1>1. NoGoal.kind # "frontier"
  BY DEF NoGoal
<1>2. Lasts
  BY CleanedLasts DEF Outcome, Lasts
<1> QED
  BY <1>1, <1>2 DEF Outcome, Sends, Effect

\* Every step is one of these functions, or leaves the core alone.
LEMMA NextEffect ==
  ASSUME Ready, [Next]_vars
  PROVE  Effect
<1>1. InOrder(core) /\ MemoryOK(core.memory) /\ robot \in Robots
  BY DEF Ready, InOrder
<1>2. CASE MapArrives
  <2>1. PICK m \in Maps : \/ core' = Ingested(core, m)
                          \/ core' \in OnMap(Refreshed(Ingested(core, m)))
    BY <1>2 DEF MapArrives
  <2> DEFINE c == Ingested(core, m)
             d == Refreshed(c)
  <2>2. InOrder(c) /\ c.memory = core.memory /\ c.goal = core.goal
    BY <1>1, IngestedInOrder
  <2> HIDE DEF c
  <2>3. InOrder(d) /\ d.memory = core.memory /\ d.goal = core.goal
    <3>1. {"memory", "goal"} \subseteq Fields \ {"dirty", "decided", "mapGen", "snapshot"}
      BY DEF Fields
    <3> QED
      BY <2>2, <3>1, RefreshedInOrder
  <2>4. core' = c \/ core' \in OnMap(d)
    BY <2>1 DEF c
  <2> HIDE DEF d
  <2>5. CASE core' = c
    BY <1>1, <2>2, <2>5, OutcomeEffect DEF Outcome, Sends
  <2>6. CASE core' \in OnMap(d)
    <3>1. Outcome(d, core')
      BY <1>1, <2>3, <2>6, OnMapOutcome
    <3> QED
      BY <1>1, <2>3, <3>1, OutcomeEffect
  <2> QED
    BY <2>4, <2>5, <2>6
<1>3. CASE TimerFires
  <2>1. Outcome(core, core')
    BY <1>1, <1>3, OnMapOutcome DEF TimerFires
  <2> QED
    BY <1>1, <2>1, OutcomeEffect
<1>4. ASSUME NEW c, InOrder(c), c.memory = core.memory, c.goal = core.goal, core' \in OnCost(c)
      PROVE  Effect
  <2>1. Outcome(c, core')
    BY <1>1, <1>4, OnCostOutcome
  <2> QED
    BY <1>1, <1>4, <2>1, OutcomeEffect
<1>5. CASE CostArrives
  <2>1. PICK g \in Costs : core' \in OnCost(core) \/ core' \in OnCost(DeferredGlobal(core, g))
    BY <1>5 DEF CostArrives
  <2> QED
    BY <1>1, <1>4, <2>1, DeferredInOrder
<1>6. CASE LocalCostArrives
  <2>1. PICK g \in Costs : core' \in OnCost(core) \/ core' \in OnCost(DeferredLocal(core, g))
    BY <1>6 DEF LocalCostArrives
  <2> QED
    BY <1>1, <1>4, <2>1, DeferredInOrder
<1> DEFINE over == [core EXCEPT !.goal = NoGoal]
<1>7. InOrder(over) /\ over.memory = core.memory /\ over.goal = NoGoal
  <2>1. NoGoal \in Goals
    BY DEF Goals
  <2>2. InOrder(over)
    BY <1>1, <2>1, OtherFields
  <2> QED
    BY <1>1, <2>2 DEF InOrder, Fields
<1> HIDE DEF over
<1>8. CASE GoalEnds
  <2>1. core' = over \/ core' \in TrySend(over)
    BY <1>8 DEF GoalEnds, AfterFrontier, over
  <2>2. Outcome(over, core')
    BY <1>1, <1>7, <2>1, TrySendOutcome DEF Outcome, Sends
  <2> QED
    BY <1>1, <1>7, <2>2, OutcomeEffect
<1>9. CASE GoalFails
  <2>1. \/ core' = [over EXCEPT !.returning = FALSE]
        \/ /\ core.goal # NoGoal /\ core.goal.kind # "return"
           /\ \E memory : /\ \/ memory = core.memory
                             \/ memory \in Recorded(core.memory, core.goal.target, now)
                          /\ core' \in AfterFrontier([over EXCEPT !.memory = memory])
    BY <1>9 DEF GoalFails, over
  <2>2. CASE core' = [over EXCEPT !.returning = FALSE]
    <3>1. InOrder(core') /\ core'.memory = over.memory /\ core'.goal = NoGoal
      <4>1. InOrder([over EXCEPT !.returning = FALSE])
        BY <1>7, OtherFields
      <4> QED
        BY <1>7, <2>2, <4>1 DEF InOrder, Fields
    <3> QED
      BY <1>1, <1>7, <3>1, OutcomeEffect DEF Outcome, Sends
  <2>3. ASSUME NEW memory, core' \in AfterFrontier([over EXCEPT !.memory = memory]),
               core.goal # NoGoal, core.goal.kind # "return",
               memory = core.memory \/ memory \in Recorded(core.memory, core.goal.target, now)
        PROVE  Effect
    <3> DEFINE c == [over EXCEPT !.memory = memory]
    <3>1. core.goal.target \in Int \X Int
      <4>1. core.goal \in {NoGoal, ReturnGoal} \/ \E p \in Points : core.goal = FrontierGoal(p)
        BY <1>1 DEF InOrder, Goals
      <4>2. ReturnGoal.kind = "return" /\ \A p : FrontierGoal(p).target = p
        BY DEF ReturnGoal, FrontierGoal
      <4> QED
        BY <2>3, <4>1, <4>2, SelectionAssumption
    <3>2. now \in Nat
      BY SelectionAssumption DEF Ready
    <3>3. /\ MemoryOK(memory)
          /\ ExpansionSize < BaseSize =>
               Lasting(core.memory.regions, memory.regions, core.goal.target, now)
      <4>1. CASE memory = core.memory
        BY <1>1, <4>1, CleanedLasts
      <4>2. CASE memory \in Recorded(core.memory, core.goal.target, now)
        BY <1>1, <3>1, <3>2, <4>2, RecordedOK
      <4> QED
        BY <2>3, <4>1, <4>2
    <3>4. InOrder(c) /\ c.memory = memory /\ c.goal = NoGoal
      <4>1. InOrder(c)
        BY <1>7, <3>3, OtherFields
      <4> QED
        BY <1>7, <4>1 DEF InOrder, Fields
    <3> HIDE DEF c
    <3>5. Outcome(c, core')
      <4>1. core' = c \/ core' \in TrySend(c)
        BY <2>3 DEF AfterFrontier, c
      <4> QED
        BY <1>1, <3>4, <4>1, TrySendOutcome DEF Outcome, Sends
    <3>6. ExpansionSize < BaseSize => Lasts
      <4>1. core'.memory = memory \/ core'.memory = Pruned(memory, now)
        BY <3>4, <3>5 DEF Outcome
      <4> QED
        BY <3>3, <4>1, LastingSurvives DEF Lasts
    <3>7. NoGoal.kind # "frontier"
      BY DEF NoGoal
    <3> QED
      BY <3>4, <3>5, <3>6, <3>7 DEF Outcome, Sends, Effect
  <2> QED
    BY <2>1, <2>2, <2>3
<1>10. CASE StartSession \/ StopSession
  <2>1. core' = [EmptyCore EXCEPT !.goal = core.goal] /\ enabled' # enabled
    BY <1>10 DEF StartSession, StopSession
  <2>2. core.goal \in Goals
    BY <1>1 DEF InOrder
  <2>3. InOrder(core')
    BY <2>1, <2>2, EmptyInOrder
  <2>4. core'.goal = core.goal
    BY <2>1 DEF EmptyCore
  <2> QED
    BY <2>1, <2>3, <2>4 DEF Effect, Sends
<1>11. CASE RobotMoves \/ Tick \/ UNCHANGED vars
  <2>1. core' = core
    BY <1>11 DEF RobotMoves, Tick, vars
  <2> QED
    BY <1>1, <2>1, OutcomeEffect DEF Outcome, Sends
<1> QED
  BY <1>2, <1>3, <1>5, <1>6, <1>8, <1>9, <1>10, <1>11 DEF Next

\* Ready is inductive.
LEMMA NextReady ==
  ASSUME Ready, [Next]_vars
  PROVE  Ready'
<1>1. InOrder(core')
  BY NextEffect DEF Effect, Sends
<1>2. /\ enabled' \in BOOLEAN /\ timer' \in BOOLEAN /\ robot' \in Robots
      /\ now' \in 0..MaxTime /\ spent' \in 0..MaxUpdates /\ activeAt' \in Nat
  <2>1. /\ now \in Nat /\ Grace \in Nat /\ MaxTime \in Nat /\ MaxUpdates \in Nat
        /\ now \in 0..MaxTime /\ spent \in 0..MaxUpdates
        /\ enabled \in BOOLEAN /\ timer \in BOOLEAN /\ robot \in Robots /\ activeAt \in Nat
    BY SelectionAssumption DEF Ready
  <2>2. ASSUME Spend PROVE spent' \in 0..MaxUpdates
    BY <2>1, <2>2 DEF Spend
  <2>3. CASE MapArrives \/ CostArrives \/ LocalCostArrives
    BY <2>1, <2>2, <2>3 DEF MapArrives, CostArrives, LocalCostArrives, Rest
  <2>4. CASE TimerFires \/ GoalEnds \/ GoalFails
    BY <2>1, <2>4 DEF TimerFires, GoalEnds, GoalFails, Rest
  <2>5. CASE StartSession \/ StopSession
    <3>1. spent' \in 0..MaxUpdates
      BY <2>1, <2>2, <2>5 DEF StartSession, StopSession
    <3>2. activeAt' \in Nat
      <4>1. activeAt' = now + Grace \/ activeAt' = 0
        BY <2>5 DEF StartSession, StopSession
      <4> QED
        BY <2>1, <4>1
    <3>3. enabled' \in BOOLEAN
      BY <2>5 DEF StartSession, StopSession
    <3>4. UNCHANGED <<robot, timer, now>>
      BY <2>5 DEF StartSession, StopSession
    <3> QED
      BY <2>1, <3>1, <3>2, <3>3, <3>4
  <2>6. CASE RobotMoves
    BY <2>1, <2>6 DEF RobotMoves
  <2>7. CASE Tick
    BY <2>1, <2>7 DEF Tick
  <2>8. CASE UNCHANGED vars
    BY <2>1, <2>8 DEF vars
  <2> QED
    BY <2>3, <2>4, <2>5, <2>6, <2>7, <2>8 DEF Next
<1>3. InOrder(core)' <=> InOrder(core')
  BY DEF InOrder, Typed, Fresh, OrderOK, OrderOf, MemoryOK
<1> QED
  BY <1>1, <1>2, <1>3 DEF Ready

\* Ready always holds.
LEMMA AlwaysReady == Spec => []Ready
BY InitReady, NextReady, PTL DEF Spec

-----------------------------------------------------------------------------
(* The results.                                                             *)

\* The variables keep their types: the generations count, the snapshot and the
\* targets are made of goal points.
THEOREM SelectionTypeOK == Spec => []TypeOK
<1>1. Ready => TypeOK
  BY DEF Ready, TypeOK, InOrder, Typed, OrderOK, OrderOf, Goals
<1> QED
  BY <1>1, AlwaysReady, PTL

\* A snapshot that frontier_snapshot_matches could accept was searched on the
\* decision map and the cost map the core holds, unless one waits to be committed.
THEOREM CacheFollowsInputs == Spec => []SnapshotIsFresh
<1>1. Ready => SnapshotIsFresh
  BY DEF Ready, InOrder, Fresh, SnapshotIsFresh
<1> QED
  BY <1>1, AlwaysReady, PTL

\* After record_failed_attempt no record is left in a region, no count has reached
\* the threshold, and both tables stay within their limits.
THEOREM FailuresAreAbsorbed == Spec => []RegionsAbsorbFailures
<1>1. Ready => RegionsAbsorbFailures
  BY MemoryAbsorbs DEF Ready, InOrder, RegionsAbsorbFailures
<1> QED
  BY <1>1, AlwaysReady, PTL

\* What send_frontier_goal sends straight after a search, whatever the snapshot and
\* the order cache held: no blocked target, if goal_skip_on_blocked_goal is set, and,
\* unless a global cost map waits to be committed, one that shares its bucket with a
\* frontier of the present maps seen from where the robot is, outside every
\* suppressed region.  A replacement sent from the queue is not part of the module.
THEOREM TargetsAreCurrent == Spec => DispatchesCurrentTargets
<1> DEFINE Kind == core'.goal # core.goal /\ core'.goal.kind = "frontier" => Current(core')
<1>1. Ready /\ [Next]_vars => Kind
  BY NextEffect DEF Effect, Sends
<1>2. Kind =>
  (core'.goal # core.goal /\ core'.goal.kind = "frontier" =>
       LET target == core'.goal.target
       IN /\ SkipBlocked => ~Blocked(core', target)
          /\ ~core'.globalPending =>
               \E distance \in MinDistances :
                 \E p \in Search(core'.decided, core'.global, robot, distance) :
                   /\ Bucket(p) = Bucket(target)
                   /\ SuppressionActive => ~InSome(p, core'.memory.regions))
  BY DEF Current
<1> QED
  BY <1>1, <1>2, AlwaysReady, PTL DEF Spec, DispatchesCurrentTargets

\* filter_frontiers never lets go of a place before its time: with a ring that is
\* narrower than a region, growing a region, making room and pruning only give up
\* what has expired or was the oldest of a full table.
THEOREM SuppressionHolds == ExpansionSize < BaseSize => (Spec => SuppressionLasts)
<1> SUFFICES ASSUME ExpansionSize < BaseSize PROVE Spec => SuppressionLasts
  OBVIOUS
<1>1. ASSUME Ready, [Next]_vars, enabled' = enabled
      PROVE  LET before == core.memory.regions
                 after == core'.memory.regions
                 MadeRoom(r) ==
                   /\ Len(before) = MaxRegions /\ \A i \in DOMAIN before : r.at <= before[i].at
                   /\ \E i \in DOMAIN after : after[i].center = core.goal.target
             IN \A p \in Points :
                  InSome(p, after)
                    \/ \A i \in DOMAIN before :
                         PointIn(p, before[i]) => Expired(before[i].at, now) \/ MadeRoom(before[i])
  <2> DEFINE before == core.memory.regions
             after == core'.memory.regions
             target == core.goal.target
  <2>1. Lasting(before, after, target, now)
    BY <1>1, NextEffect DEF Effect, Lasts
  <2>2. before \in Seq(Region) /\ after \in Seq(Region)
    <3>1. InOrder(core) /\ InOrder(core')
      BY <1>1, NextEffect DEF Ready, Effect, Sends
    <3> QED
      BY <3>1 DEF InOrder, MemoryOK, RegionsOK
  <2> HIDE DEF before, after, target
  <2> SUFFICES ASSUME NEW p \in Points, ~InSome(p, after),
                      NEW i \in DOMAIN before, PointIn(p, before[i]), ~Expired(before[i].at, now)
               PROVE  /\ Len(before) = MaxRegions
                      /\ \A j \in DOMAIN before : before[i].at <= before[j].at
                      /\ \E j \in DOMAIN after : after[j].center = target
    BY DEF before, after, target
  <2>3. before[i] \in ToSet(before) /\ p \in Int \X Int
    BY SelectionAssumption DEF ToSet
  <2>4. ~Lives(before[i], after, now)
    BY <2>2, <2>3, InSomeElement DEF Lives
  <2>5. GaveWay(before[i], before, after, target, now)
    BY <2>1, <2>3, <2>4 DEF Lasting
  <2> QED
    BY <2>5 DEF GaveWay, ToSet
<1>2. Ready /\ [Next]_vars =>
  (LET before == core.memory.regions
         after == core'.memory.regions
         MadeRoom(r) ==
           /\ Len(before) = MaxRegions /\ \A i \in DOMAIN before : r.at <= before[i].at
           /\ \E i \in DOMAIN after : after[i].center = core.goal.target
     IN enabled' = enabled =>
          \A p \in Points :
            InSome(p, after)
              \/ \A i \in DOMAIN before :
                   PointIn(p, before[i]) => Expired(before[i].at, now) \/ MadeRoom(before[i]))
  BY <1>1
<1> QED
  BY <1>2, AlwaysReady, PTL DEF Spec, SuppressionLasts

=============================================================================
