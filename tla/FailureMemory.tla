---------------------------- MODULE FailureMemory ----------------------------
(***************************************************************************)
(* FrontierSuppression: what the explorer remembers of goals that failed.  *)
(* A failure is counted per place (goal points rounded to a bucket); a     *)
(* place that failed Threshold times becomes a square region, or grows the  *)
(* region it lies next to; records and regions live for Ttl and are bounded *)
(* in number.                                                              *)
(*                                                                         *)
(* A point is a pair of integers.  Halves stay exact on points that are     *)
(* multiples of a power of two (a region's center moves to a midpoint).     *)
(* The operators map one content of the memory to the next; a handler of    *)
(* the core applies several of them in one step.                           *)
(***************************************************************************)
EXTENDS Integers, Sequences, FiniteSets, SequencesExt, Subsequences

CONSTANTS
  Threshold,      \* attempt_threshold
  BaseSize,       \* side of a new region
  ExpansionSize,  \* what the ring around a region adds to its side
  Ttl,            \* timeout_s
  MaxAttempts, MaxRegions,
  Quantum         \* side of the bucket of an attempt record

ASSUME MemoryAssumption ==
  /\ Threshold \in Nat \ {0} /\ MaxAttempts \in Nat \ {0} /\ MaxRegions \in Nat \ {0}
  /\ BaseSize \in Nat \ {0} /\ ExpansionSize \in Nat /\ Ttl \in Nat \ {0}
  /\ Quantum \in Nat \ {0}

Magnitude(i) == IF i < 0 THEN -i ELSE i

\* llround: to the nearest, halves away from zero.
Rounded(i) ==
  LET half == (2 * Magnitude(i) + Quantum) \div (2 * Quantum)
  IN IF i < 0 THEN -half ELSE half

\* make_key
Bucket(p) == <<Rounded(p[1]), Rounded(p[2])>>

\* point_in_region: the border counts.
PointIn(p, region) ==
  /\ 2 * Magnitude(p[1] - region.center[1]) <= region.side
  /\ 2 * Magnitude(p[2] - region.center[2]) <= region.side

InSome(p, regions) == \E i \in DOMAIN regions : PointIn(p, regions[i])

\* point_in_expansion_ring
InRing(p, region) ==
  /\ PointIn(p, [region EXCEPT !.side = @ + ExpansionSize])
  /\ ~PointIn(p, region)

FreshMemory == [attempts |-> <<>>, regions |-> <<>>]

Kept(attempts, keys) == [k \in DOMAIN attempts \cap keys |-> attempts[k]]

Expired(at, now) == now - at >= Ttl

\* prune_expired
Pruned(memory, now) ==
  [attempts |-> Kept(memory.attempts,
                     {k \in DOMAIN memory.attempts : ~Expired(memory.attempts[k].at, now)}),
   regions |-> Only(memory.regions, {r \in ToSet(memory.regions) : ~Expired(r.at, now)})]

\* filter_frontiers
Unsuppressed(memory, points) == {p \in points : ~InSome(p, memory.regions)}

\* Mutant of Outside: the records stay.
OutsideNone(attempts, region) == attempts

\* remove_attempts_inside_region
Outside(attempts, region) ==
  Kept(attempts, {k \in DOMAIN attempts : ~PointIn(attempts[k].point, region)})

\* The oldest records: the table has no order, any of several may be the first.
Oldest(attempts) ==
  {k \in DOMAIN attempts : \A l \in DOMAIN attempts : attempts[k].at <= attempts[l].at}

\* What can be left when evict_oldest_attempt_record has made room for one.
WithRoom(attempts) ==
  IF Cardinality(DOMAIN attempts) < MaxAttempts
  THEN {attempts}
  ELSE {Kept(attempts, DOMAIN attempts \ {k}) : k \in Oldest(attempts)}

\* evict_oldest_region: the first of the oldest goes.
WithRoomForRegion(regions) ==
  IF Len(regions) < MaxRegions
  THEN regions
  ELSE RemoveAt(regions, SelectInSeq(regions, LAMBDA r :
                           \A i \in DOMAIN regions : r.at <= regions[i].at))

Distance2(p, q) == (p[1] - q[1]) * (p[1] - q[1]) + (p[2] - q[2]) * (p[2] - q[2])

Rings(p, regions) == {i \in DOMAIN regions : InRing(p, regions[i])}

\* The first of the nearest regions whose ring holds the point.
Compatible(p, regions) ==
  CHOOSE i \in Rings(p, regions) : \A j \in Rings(p, regions) :
    LET here == Distance2(p, regions[i].center)  there == Distance2(p, regions[j].center)
    IN here < there \/ (here = there /\ i <= j)

\* Mutant of Grown: the square moves but does not grow.
MovedOnly(region, p, now) ==
  [center |-> <<(region.center[1] + p[1]) \div 2, (region.center[2] + p[2]) \div 2>>,
   side |-> region.side, at |-> now]

Grown(region, p, now) ==
  [center |-> <<(region.center[1] + p[1]) \div 2, (region.center[2] + p[2]) \div 2>>,
   side |-> 2 * region.side, at |-> now]

\* promote_attempt_to_region, of a point that is in no region.
Promoted(memory, p, now) ==
  IF Rings(p, memory.regions) # {}
  THEN LET i == Compatible(p, memory.regions)
           grown == Grown(memory.regions[i], p, now)
       IN [attempts |-> Outside(memory.attempts, grown),
           regions |-> [memory.regions EXCEPT ![i] = grown]]
  ELSE LET region == [center |-> p, side |-> BaseSize, at |-> now]
       IN [attempts |-> Outside(memory.attempts, region),
           regions |-> Append(WithRoomForRegion(memory.regions), region)]

\* One more failure counted at p, in the record of its bucket.
Counted(attempts, p, now) ==
  LET before == IF Bucket(p) \in DOMAIN attempts THEN attempts[Bucket(p)].count ELSE 0
  IN [k \in DOMAIN attempts \cup {Bucket(p)} |->
        IF k = Bucket(p) THEN [point |-> p, count |-> before + 1, at |-> now]
        ELSE attempts[k]]

\* record_failed_attempt after the clean-up, with room made where one is needed.
Matured(memory, p, now) ==
  LET counted == Counted(memory.attempts, p, now)
      promoted == Promoted([memory EXCEPT !.attempts = counted], p, now)
  IN IF counted[Bucket(p)].count < Threshold
     THEN [memory EXCEPT !.attempts = counted]
     ELSE [promoted EXCEPT !.attempts = Kept(@, DOMAIN @ \ {Bucket(p)})]

\* record_failed_attempt: the contents it may lead to.
Recorded(memory, p, now) ==
  LET clean == Pruned(memory, now)
  IN IF InSome(p, clean.regions)
     THEN {clean}
     ELSE {Matured([clean EXCEPT !.attempts = attempts], p, now) :
             attempts \in IF Bucket(p) \in DOMAIN clean.attempts
                          THEN {clean.attempts} ELSE WithRoom(clean.attempts)}

-----------------------------------------------------------------------------
\* The contents a memory can have.
Contents(Points, Times) ==
  [attempts : UNION {[K -> [point : Points, count : Nat, at : Times]] :
                       K \in SUBSET {Bucket(p) : p \in Points}},
   regions : Seq([center : Int \X Int, side : Nat, at : Times])]

\* Regions absorb: no place inside a region is still counted, no count has
\* matured without becoming a region, each record is in the bucket of its point,
\* and both tables stay within their limits.
Absorbed(memory) ==
  /\ \A k \in DOMAIN memory.attempts :
       /\ ~InSome(memory.attempts[k].point, memory.regions)
       /\ memory.attempts[k].count \in 1..(Threshold - 1)
       /\ Bucket(memory.attempts[k].point) = k
  /\ Cardinality(DOMAIN memory.attempts) <= MaxAttempts
  /\ Len(memory.regions) <= MaxRegions

=============================================================================
