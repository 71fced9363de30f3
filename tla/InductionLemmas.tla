--------------------------- MODULE InductionLemmas ---------------------------
(***************************************************************************)
(* Lemmas about natural numbers and sequences.  Induction is stated of a    *)
(* set: every set of numbers with 0 and with the successors of its members  *)
(* is all of Nat.  With it a recursive function can be unfolded: that one   *)
(* satisfying the equations exists is shown for one bound after the other.  *)
(***************************************************************************)
EXTENDS Subsequences, SequencesExt, SequenceTheorems, WellFoundedInduction, TLAPS

\* A set with 0 and the successor of every member holds every natural number.
LEMMA NatSetInduction ==
  ASSUME NEW S, 0 \in S, \A n \in Nat : n \in S => n + 1 \in S
  PROVE  Nat \subseteq S
<1> DEFINE Outside == Nat \ S
<1>1. SUFFICES ASSUME Outside # {} PROVE FALSE
  OBVIOUS
<1>2. PICK least \in Outside : \A n \in Outside : ~(<<n, least>> \in OpToRel(<, Nat))
  <2>1. Outside \subseteq Nat
    OBVIOUS
  <2> HIDE DEF OpToRel, Outside
  <2> QED
    BY <1>1, <2>1, NatLessThanWellFounded, WFMin
<1>3. \A n \in Outside : ~(n < least)
  BY <1>2 DEF OpToRel
<1>4. least # 0 /\ least - 1 \in Nat /\ least - 1 + 1 = least
  OBVIOUS
<1>5. least - 1 \in S
  BY <1>3, <1>4
<1> QED
  BY <1>4, <1>5

\* A set of natural numbers has a least member.
LEMMA LeastNatural ==
  ASSUME NEW S, S \subseteq Nat, S # {}
  PROVE  \E least \in S : \A n \in S : least <= n
<1>1. PICK least \in S : \A n \in S : ~(<<n, least>> \in OpToRel(<, Nat))
  <2> HIDE DEF OpToRel
  <2> QED
    BY NatLessThanWellFounded, WFMin
<1>2. \A n \in S : ~(n < least)
  BY <1>1 DEF OpToRel
<1> QED
  BY <1>2

\* The elements of a sequence are what its indices lead to.
LEMMA ElementsByIndex ==
  ASSUME NEW T, NEW s \in Seq(T)
  PROVE  ToSet(s) = {s[i] : i \in 1..Len(s)} /\ ToSet(s) \subseteq T
BY DEF ToSet

\* Append adds one element.
LEMMA AppendElements ==
  ASSUME NEW T, NEW s \in Seq(T), NEW e \in T
  PROVE  ToSet(Append(s, e)) = ToSet(s) \cup {e}
<1>1. Append(s, e) \in Seq(T) /\ Len(Append(s, e)) = Len(s) + 1
  OBVIOUS
<1>2. \A i \in 1..(Len(s) + 1) : Append(s, e)[i] = IF i = Len(s) + 1 THEN e ELSE s[i]
  OBVIOUS
<1>3. 1..(Len(s) + 1) = (1..Len(s)) \cup {Len(s) + 1}
  OBVIOUS
<1>4. \A x : (\E i \in 1..(Len(s) + 1) : Append(s, e)[i] = x) <=> (x = e \/ \E i \in 1..Len(s) : s[i] = x)
  BY <1>2, <1>3
<1>5. ToSet(Append(s, e)) = {Append(s, e)[i] : i \in 1..(Len(s) + 1)}
  BY <1>1, ElementsByIndex
<1> QED BY <1>4, <1>5, ElementsByIndex

\* A concatenation has the elements of both parts.
LEMMA ConcatElements ==
  ASSUME NEW T, NEW s \in Seq(T), NEW t \in Seq(T)
  PROVE  s \o t \in Seq(T) /\ ToSet(s \o t) = ToSet(s) \cup ToSet(t)
<1>1. s \o t \in Seq(T) /\ Len(s \o t) = Len(s) + Len(t)
  OBVIOUS
<1>2. \A i \in 1..(Len(s) + Len(t)) : (s \o t)[i] = IF i <= Len(s) THEN s[i] ELSE t[i - Len(s)]
  OBVIOUS
<1>3. \A i \in 1..Len(t) : (s \o t)[i + Len(s)] = t[i]
  OBVIOUS
<1>4. \A x : (\E i \in 1..(Len(s) + Len(t)) : (s \o t)[i] = x)
              <=> (\E i \in 1..Len(s) : s[i] = x) \/ (\E i \in 1..Len(t) : t[i] = x)
  <2> TAKE x
  <2>1. ASSUME NEW i \in 1..(Len(s) + Len(t)), (s \o t)[i] = x
        PROVE  (\E j \in 1..Len(s) : s[j] = x) \/ (\E j \in 1..Len(t) : t[j] = x)
    <3>1. CASE i <= Len(s)
      BY <1>2, <2>1, <3>1
    <3>2. CASE i > Len(s)
      <4>1. i - Len(s) \in 1..Len(t) /\ t[i - Len(s)] = x
        BY <1>2, <2>1, <3>2
      <4> QED BY <4>1
    <3> QED BY <3>1, <3>2
  <2>2. ASSUME NEW i \in 1..Len(s), s[i] = x
        PROVE  \E j \in 1..(Len(s) + Len(t)) : (s \o t)[j] = x
    <3>1. i \in 1..(Len(s) + Len(t)) /\ (s \o t)[i] = x
      BY <1>2, <2>2
    <3> QED BY <3>1
  <2>3. ASSUME NEW i \in 1..Len(t), t[i] = x
        PROVE  \E j \in 1..(Len(s) + Len(t)) : (s \o t)[j] = x
    <3>1. i + Len(s) \in 1..(Len(s) + Len(t)) /\ (s \o t)[i + Len(s)] = x
      BY <1>3, <2>3
    <3> QED BY <3>1
  <2> QED BY <2>1, <2>2, <2>3
<1>5. ToSet(s \o t) = {(s \o t)[i] : i \in 1..(Len(s) + Len(t))}
  BY <1>1, ElementsByIndex
<1>6. ToSet(s) = {s[i] : i \in 1..Len(s)} /\ ToSet(t) = {t[i] : i \in 1..Len(t)}
  BY ElementsByIndex
<1>7. \A x : x \in ToSet(s \o t) <=> x \in ToSet(s) \cup ToSet(t)
  <2> TAKE x
  <2>1. x \in ToSet(s \o t) <=> \E i \in 1..(Len(s) + Len(t)) : (s \o t)[i] = x
    BY <1>5
  <2>2. x \in ToSet(s) <=> \E i \in 1..Len(s) : s[i] = x
    BY <1>6
  <2>3. x \in ToSet(t) <=> \E i \in 1..Len(t) : t[i] = x
    BY <1>6
  <2> QED BY <1>4, <2>1, <2>2, <2>3, Zenon
<1>8. s \o t \in Seq(T)
  BY <1>1
<1>9. ToSet(s \o t) = ToSet(s) \cup ToSet(t)
  BY <1>7, Zenon
<1> QED BY <1>8, <1>9

\* A sequence has its head and the elements of its tail.
LEMMA TailElements ==
  ASSUME NEW T, NEW s \in Seq(T), s # <<>>
  PROVE  /\ Head(s) \in T /\ Tail(s) \in Seq(T) /\ Len(Tail(s)) = Len(s) - 1
         /\ ToSet(s) = {Head(s)} \cup ToSet(Tail(s))
<1>1. /\ Head(s) \in T /\ Tail(s) \in Seq(T) /\ Len(Tail(s)) = Len(s) - 1
      /\ Head(s) = s[1] /\ Len(s) >= 1
  OBVIOUS
<1>2. \A i \in 1..(Len(s) - 1) : Tail(s)[i] = s[i + 1]
  OBVIOUS
<1>3. ASSUME NEW i \in 1..Len(s), i # 1
      PROVE  \E j \in 1..(Len(s) - 1) : Tail(s)[j] = s[i]
  <2>1. i - 1 \in 1..(Len(s) - 1) /\ Tail(s)[i - 1] = s[i]
    BY <1>1, <1>2, <1>3
  <2> QED BY <2>1
<1>4. \A i \in 1..(Len(s) - 1) : \E j \in 1..Len(s) : s[j] = Tail(s)[i]
  <2> TAKE i \in 1..(Len(s) - 1)
  <2>1. i + 1 \in 1..Len(s) /\ s[i + 1] = Tail(s)[i]
    BY <1>1, <1>2
  <2> QED BY <2>1
<1>5. ToSet(Tail(s)) = {Tail(s)[i] : i \in 1..(Len(s) - 1)} /\ ToSet(s) = {s[i] : i \in 1..Len(s)}
  BY <1>1, ElementsByIndex
<1> QED BY <1>1, <1>3, <1>4, <1>5

\* Removing one place leaves the elements of the others.
LEMMA RemoveAtElements ==
  ASSUME NEW T, NEW s \in Seq(T), NEW k \in 1..Len(s)
  PROVE  /\ RemoveAt(s, k) \in Seq(T) /\ Len(RemoveAt(s, k)) = Len(s) - 1
         /\ ToSet(RemoveAt(s, k)) = {s[i] : i \in (1..Len(s)) \ {k}}
<1> DEFINE front == SubSeq(s, 1, k - 1)
           back == SubSeq(s, k + 1, Len(s))
<1>1. /\ front \in Seq(T) /\ Len(front) = k - 1
      /\ \A i \in 1..(k - 1) : front[i] = s[i]
  BY SubSeqProperties
<1>2. /\ back \in Seq(T) /\ Len(back) = Len(s) - k
      /\ \A i \in 1..(Len(s) - k) : back[i] = s[k + i]
  <2>1. \A i \in (k + 1)..Len(s) : s[i] \in T
    OBVIOUS
  <2> QED BY <2>1, SubSeqProperties
<1>3. RemoveAt(s, k) = front \o back
  BY DEF RemoveAt
<1> HIDE DEF front, back
<1>4. ToSet(front \o back) = ToSet(front) \cup ToSet(back) /\ front \o back \in Seq(T)
  BY <1>1, <1>2, ConcatElements
<1>5. Len(front \o back) = Len(s) - 1
  BY <1>1, <1>2
<1>6. ToSet(front) = {s[i] : i \in 1..(k - 1)}
  BY <1>1, ElementsByIndex
<1>7. ToSet(back) = {s[i] : i \in (k + 1)..Len(s)}
  <2>1. ToSet(back) = {back[i] : i \in 1..(Len(s) - k)}
    BY <1>2, ElementsByIndex
  <2>2. ASSUME NEW i \in (k + 1)..Len(s)
        PROVE  \E j \in 1..(Len(s) - k) : back[j] = s[i]
    <3>1. i - k \in 1..(Len(s) - k) /\ back[i - k] = s[i]
      BY <1>2
    <3> QED BY <3>1
  <2>3. ASSUME NEW i \in 1..(Len(s) - k)
        PROVE  \E j \in (k + 1)..Len(s) : s[j] = back[i]
    <3>1. k + i \in (k + 1)..Len(s) /\ back[i] = s[k + i]
      BY <1>2
    <3> QED BY <3>1
  <2>4. \A x : x \in ToSet(back) <=> \E i \in (k + 1)..Len(s) : s[i] = x
    BY <2>1, <2>2, <2>3, ZenonT(60)
  <2> QED BY <2>4, Zenon
<1>8. (1..Len(s)) \ {k} = (1..(k - 1)) \cup ((k + 1)..Len(s))
  OBVIOUS
<1> QED BY <1>3, <1>4, <1>5, <1>6, <1>7, <1>8

\* The recursive function of Only exists and satisfies its equations.
LEMMA OnlyUnfold ==
  ASSUME NEW T, NEW s \in Seq(T), NEW S
  PROVE  \E f : /\ f \in [0..Len(s) -> Seq(T)] /\ f[0] = <<>> /\ Only(s, S) = f[Len(s)]
                /\ \A n \in 1..Len(s) :
                     f[n] = IF s[n] \in S THEN Append(f[n - 1], s[n]) ELSE f[n - 1]
<1> DEFINE Step(f, n) == IF n = 0 THEN <<>>
                         ELSE IF s[n] \in S THEN Append(f[n - 1], s[n]) ELSE f[n - 1]
           Kept(m) == {f \in [0..m -> Seq(T)] : \A n \in 0..m : f[n] = Step(f, n)}
           Good == {m \in Nat : m <= Len(s) => Kept(m) # {}}
<1>1. 0 \in Good
  <2>1. [n \in 0..0 |-> <<>>] \in Kept(0)
    OBVIOUS
  <2> QED BY <2>1
<1>2. ASSUME NEW m \in Nat, m \in Good
      PROVE  m + 1 \in Good
  <2> SUFFICES ASSUME m + 1 <= Len(s) PROVE Kept(m + 1) # {}
    <3> HIDE DEF Kept
    <3> QED OBVIOUS
  <2>1. m + 1 <= Len(s) /\ m <= Len(s)
    OBVIOUS
  <2>2. PICK f \in Kept(m) : TRUE
    <3> HIDE DEF Kept
    <3> QED BY <1>2, <2>1
  <2> DEFINE next == IF s[m + 1] \in S THEN Append(f[m], s[m + 1]) ELSE f[m]
             g == [n \in 0..(m + 1) |-> IF n = m + 1 THEN next ELSE f[n]]
  <2>3. next \in Seq(T)
    BY <2>1, <2>2
  <2>4. g \in [0..(m + 1) -> Seq(T)]
    BY <2>2, <2>3
  <2>5. ASSUME NEW n \in 0..(m + 1)
        PROVE  g[n] = Step(g, n)
    <3>1. CASE n = m + 1
      BY <3>1
    <3>2. CASE n # m + 1
      <4>1. n \in 0..m /\ g[n] = f[n] /\ (n # 0 => g[n - 1] = f[n - 1])
        BY <3>2
      <4>2. f[n] = Step(f, n)
        BY <2>2, <4>1
      <4> QED BY <4>1, <4>2
    <3> QED BY <3>1, <3>2
  <2> HIDE DEF g, Step
  <2>6. g \in Kept(m + 1)
    BY <2>4, <2>5
  <2> QED BY <2>6
<1>3. Nat \subseteq Good
  <2> HIDE DEF Good
  <2> QED BY <1>1, <1>2, NatSetInduction
<1>4. PICK f \in Kept(Len(s)) : TRUE
  <2> HIDE DEF Kept
  <2> QED BY <1>3
<1>5. f = [n \in 0..Len(s) |-> Step(f, n)]
  BY <1>4
<1> DEFINE kept == CHOOSE g : g = [n \in 0..Len(s) |-> Step(g, n)]
<1>6. kept = [n \in 0..Len(s) |-> Step(kept, n)]
  <2> HIDE DEF Step
  <2> QED BY <1>5
<1>7. Only(s, S) = kept[Len(s)]
  BY DEF Only
<1>8. kept \in [0..Len(s) -> Seq(T)]
  <2> DEFINE Typed == {n \in Nat : n <= Len(s) => kept[n] \in Seq(T)}
  <2> HIDE DEF kept
  <2>1. 0 \in Typed
    BY <1>6
  <2>2. ASSUME NEW n \in Nat, n \in Typed
        PROVE  n + 1 \in Typed
    <3>1. SUFFICES ASSUME n + 1 <= Len(s) PROVE kept[n + 1] \in Seq(T)
      OBVIOUS
    <3>2. kept[n] \in Seq(T) /\ s[n + 1] \in T
      BY <2>2, <3>1
    <3>3. kept[n + 1] = Step(kept, n + 1)
      <4> HIDE DEF Step
      <4>1. n + 1 \in 0..Len(s)
        BY <3>1
      <4> QED BY <1>6, <4>1
    <3> QED BY <3>2, <3>3
  <2>3. Nat \subseteq Typed
    <3> HIDE DEF Typed
    <3> QED BY <2>1, <2>2, NatSetInduction
  <2>4. \A n \in 0..Len(s) : n \in Nat /\ n <= Len(s)
    OBVIOUS
  <2>5. \A n \in 0..Len(s) : kept[n] \in Seq(T)
    BY <2>3, <2>4
  <2>6. kept = [n \in 0..Len(s) |-> kept[n]]
    <3> HIDE DEF Step
    <3>1. DOMAIN kept = 0..Len(s)
      BY <1>6
    <3> QED BY <1>6, <3>1
  <2> QED BY <2>5, <2>6
<1> HIDE DEF kept
<1>9. /\ kept[0] = <<>>
      /\ \A n \in 1..Len(s) : kept[n] = IF s[n] \in S THEN Append(kept[n - 1], s[n]) ELSE kept[n - 1]
  <2>1. \A n \in 0..Len(s) : kept[n] = Step(kept, n)
    <3> HIDE DEF Step
    <3> QED BY <1>6
  <2> QED BY <2>1
<1> QED BY <1>7, <1>8, <1>9

\* Only keeps the elements of the set, and drops one if one is outside.
LEMMA OnlyFacts ==
  ASSUME NEW T, NEW s \in Seq(T), NEW S
  PROVE  /\ Only(s, S) \in Seq(T)
         /\ Len(Only(s, S)) <= Len(s)
         /\ ToSet(Only(s, S)) = ToSet(s) \cap S
         /\ Len(Only(s, S)) = Len(s) => ToSet(s) \subseteq S
<1>1. PICK f : /\ f \in [0..Len(s) -> Seq(T)] /\ f[0] = <<>> /\ Only(s, S) = f[Len(s)]
               /\ \A n \in 1..Len(s) :
                    f[n] = IF s[n] \in S THEN Append(f[n - 1], s[n]) ELSE f[n - 1]
  BY OnlyUnfold, SMTT(60)
<1> DEFINE Upto(n) == {s[i] : i \in 1..n} \cap S
           All(n) == \A i \in 1..n : s[i] \in S
           Good == {n \in Nat : n <= Len(s) => /\ Len(f[n]) <= n /\ ToSet(f[n]) = Upto(n)
                                               /\ Len(f[n]) = n => All(n)}
<1>2. 0 \in Good
  BY <1>1 DEF ToSet
<1>3. ASSUME NEW n \in Nat, n \in Good
      PROVE  n + 1 \in Good
  <2>1. SUFFICES ASSUME n + 1 <= Len(s)
                 PROVE  /\ Len(f[n + 1]) <= n + 1 /\ ToSet(f[n + 1]) = Upto(n + 1)
                        /\ Len(f[n + 1]) = n + 1 => All(n + 1)
    OBVIOUS
  <2>2. /\ f[n] \in Seq(T) /\ Len(f[n]) <= n /\ ToSet(f[n]) = Upto(n) /\ s[n + 1] \in T
        /\ Len(f[n]) = n => All(n)
    BY <1>1, <1>3, <2>1
  <2>3. f[n + 1] = IF s[n + 1] \in S THEN Append(f[n], s[n + 1]) ELSE f[n]
    BY <1>1, <2>1
  <2>4. Upto(n + 1) = IF s[n + 1] \in S THEN Upto(n) \cup {s[n + 1]} ELSE Upto(n)
    <3>1. 1..(n + 1) = (1..n) \cup {n + 1}
      OBVIOUS
    <3> QED BY <3>1
  <2>7. s[n + 1] \in S /\ All(n) => All(n + 1)
    OBVIOUS
  <2> HIDE DEF Upto, All
  <2>5. CASE s[n + 1] \in S
    <3>1. ToSet(Append(f[n], s[n + 1])) = ToSet(f[n]) \cup {s[n + 1]}
      BY <2>2, AppendElements
    <3>2. Len(Append(f[n], s[n + 1])) = Len(f[n]) + 1
      BY <2>2
    <3>3. f[n + 1] = Append(f[n], s[n + 1])
      BY <2>3, <2>5
    <3> HIDE DEF Good
    <3>4. Len(f[n + 1]) <= n + 1 /\ (Len(f[n + 1]) = n + 1 => Len(f[n]) = n)
      BY <2>2, <3>2, <3>3
    <3> QED BY <2>2, <2>4, <2>5, <2>7, <3>1, <3>3, <3>4
  <2>6. CASE s[n + 1] \notin S
    BY <2>2, <2>3, <2>4, <2>6
  <2> QED BY <2>5, <2>6
<1>4. Len(s) \in Good
  <2> HIDE DEF Good
  <2>1. Nat \subseteq Good
    BY <1>2, <1>3, NatSetInduction
  <2> QED BY <2>1
<1>5. Len(s) \in Nat /\ Upto(Len(s)) = ToSet(s) \cap S
  BY DEF ToSet
<1>6. All(Len(s)) => ToSet(s) \subseteq S
  BY DEF ToSet
<1>7. Len(f[Len(s)]) <= Len(s) /\ ToSet(f[Len(s)]) = Upto(Len(s))
      /\ (Len(f[Len(s)]) = Len(s) => All(Len(s)))
  <2> HIDE DEF Upto, All
  <2> QED BY <1>4, <1>5
<1> HIDE DEF Upto, All
<1> QED BY <1>1, <1>5, <1>6, <1>7

=============================================================================
