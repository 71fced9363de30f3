------------------------ MODULE GoalLifecycleProofs ------------------------
(***************************************************************************)
(* Proofs about GoalLifecycle, for any set of frontiers, any bounds and any *)
(* configuration of the explorer.                                           *)
(*                                                                          *)
(* A handler nests several calls, so the proofs go from the inside out: one *)
(* lemma per building block says what the block leaves behind, in terms of  *)
(* three outcomes (a goal is asked for, the slot is freed, a cancel is      *)
(* requested), and the step lemmas combine them.                            *)
(***************************************************************************)
EXTENDS GoalLifecycle, FiniteSetTheorems, SequenceTheorems, TLAPS

\* TypeOK in the groups the building blocks change together.
GoalTyped ==
  /\ goalState \in GoalStates
  /\ goalHandle \in BOOLEAN
  /\ goalKind \in GoalKinds
  /\ goalSeq \in Seq(Frontier)
  /\ dispatchId \in 0..MaxDispatch
  /\ watch \in {"off", "armed", "fired"}
  /\ nav \in [Id -> NavStates]
CancelTyped ==
  /\ cancelInProgress \in BOOLEAN
  /\ pendingCancel \in BOOLEAN
  /\ cancels \in [Id -> 0..MaxCancels]
ReplaceTyped ==
  /\ pendingSeq \in Seq(Frontier)
  /\ candidate \in Frontier \cup {NoFrontier}
  /\ hits \in Nat
  /\ candidate = NoFrontier <=> hits = 0
LatchTyped ==
  /\ returnStarted \in BOOLEAN
  /\ suppressedReturn \in BOOLEAN
  /\ suppressed \subseteq Frontier
SearchTyped ==
  /\ dirty \in BOOLEAN
  /\ orderCache \in OrderEntries
RestTyped ==
  /\ settle \in {"off", "waiting", "elapsed"}
  /\ returnCompleted \in BOOLEAN
  /\ startKnown \in BOOLEAN
  /\ SearchTyped
InputTyped ==
  /\ enabled \in BOOLEAN
  /\ mapSeen \in BOOLEAN
  /\ costSeen \in BOOLEAN
  /\ blocked \subseteq Frontier
  /\ answered \subseteq Id
  /\ resulted \subseteq Id

\* The groups are all of TypeOK.
LEMMA TypeOKGroups ==
  TypeOK <=> /\ GoalTyped /\ CancelTyped /\ ReplaceTyped
             /\ LatchTyped /\ RestTyped /\ InputTyped
BY DEF TypeOK, GoalTyped, CancelTyped, ReplaceTyped, LatchTyped, RestTyped, InputTyped,
   SearchTyped

\* The same in the next state.
LEMMA NextTypeOK ==
  ASSUME GoalTyped', CancelTyped', ReplaceTyped', LatchTyped', RestTyped', InputTyped'
  PROVE  TypeOK'
BY DEF TypeOK, GoalTyped, CancelTyped, ReplaceTyped, LatchTyped, RestTyped, InputTyped,
   SearchTyped

-----------------------------------------------------------------------------
(* Outcomes.                                                                *)

\* A new goal was handed over, or was lost on the way and counts as refused.
Asked ==
  /\ dispatchId < MaxDispatch
  /\ dispatchId' = dispatchId + 1
  /\ settle' = "off"
  /\ \/ /\ nav' = [nav EXCEPT ![dispatchId + 1] = "sent"]
        /\ goalState' = "SENDING" /\ goalHandle' = FALSE /\ watch' = "off"
        /\ goalKind' \in GoalKinds \ {"none"}
        /\ goalSeq' \in Seq(Frontier)
        /\ goalKind' = "frontier" => goalSeq' # <<>>
     \/ nav' = nav /\ ClearGoal

\* The slot is free, and no goal was asked for.
Freed == ClearGoal /\ UNCHANGED <<dispatchId, nav>>

\* The goal stays; a cancel of it may have been asked for.
Kept ==
  /\ UNCHANGED <<goalHandle, goalKind, goalSeq, dispatchId, settle, nav>>
  /\ goalState' = goalState \/ (goalHandle /\ goalState' \in {"ACTIVE", "CANCELING"})

\* Frontiers that the order cache can take for one of S.
Near(S) == {f \in Frontier : \E g \in S : Bucket[g] = Bucket[f]}

\* A set of the same signature has a frontier in every bucket of S.
LEMMA SignatureCovers ==
  ASSUME NEW S \in SUBSET Frontier, NEW T \in SUBSET Frontier, Signature[S] = Signature[T],
         NEW f \in T
  PROVE  \E g \in S : Bucket[g] = Bucket[f]
<1> DEFINE In(U) == {g \in U : Bucket[g] = Bucket[f]}
<1>1. Bucket[f] \in Range(Bucket)
  BY FrontierAssumption DEF Range
<1>2. Signature[S][Bucket[f]] = Cardinality(In(S)) /\ Signature[T][Bucket[f]] = Cardinality(In(T))
  BY <1>1 DEF Signature
<1>3. IsFiniteSet(In(S)) /\ IsFiniteSet(In(T))
  BY FrontierAssumption, FS_Subset
<1>4. In(T) # {}
  OBVIOUS
<1>5. Cardinality(In(T)) # 0
  BY <1>3, <1>4, FS_EmptySet
<1>6. In(S) # {}
  BY <1>2, <1>3, <1>5, FS_EmptySet
<1>7. QED
  BY <1>6

\* An order lists frontiers of its set.
LEMMA OrdersList ==
  ASSUME NEW S \in SUBSET Frontier, NEW e \in Orders[S]
  PROVE  e.order \in Seq(S) /\ e.signature = Signature[S]
<1>1. PICK order \in SetToAllKPermutations(S) : e = OrderEntry(S, order)
  BY DEF Orders
<1>2. PICK T \in SUBSET S : order \in [1..Cardinality(T) -> T]
  BY <1>1 DEF SetToAllKPermutations, SetToSeqs
<1>3. IsFiniteSet(T)
  BY FrontierAssumption, FS_Subset
<1>4. Cardinality(T) \in Nat
  BY <1>3, FS_CardinalityType
<1>5. order \in [1..Cardinality(T) -> S]
  BY <1>2
<1>6. QED
  BY <1>1, <1>4, <1>5, SeqDef DEF OrderEntry

LEMMA NoOrderIsEntry == NoOrder \in OrderEntries
<1>1. Cardinality({}) = 0
  BY FS_EmptySet
<1>2. <<>> \in SetToSeqs({})
  BY <1>1 DEF SetToSeqs
<1>3. <<>> \in SetToAllKPermutations({})
  BY <1>2 DEF SetToAllKPermutations
<1>4. QED
  BY <1>3 DEF NoOrder, Orders, OrderEntries

\* A selection is a cache entry, and lists frontiers that are candidates or that
\* the cache can take for candidates.
LEMMA SelectionsList ==
  ASSUME TypeOK, NEW S \in SUBSET Frontier, NEW e \in Selections(S)
  PROVE  /\ e.order \in Seq(Near(S)) /\ e.order \in Seq(Frontier)
         /\ Remembered(S, e) \in OrderEntries
<1>1. e \in OrderEntries
  BY DEF Selections, OrderEntries, TypeOK
<1>2. PICK T \in SUBSET Frontier : e \in Orders[T]
  BY <1>1 DEF OrderEntries
<1>3. e.signature = Signature[S]
  BY OrdersList DEF Selections
<1>4. e.order \in Seq(T) /\ Signature[S] = Signature[T]
  BY <1>2, <1>3, OrdersList
<1>5. T \subseteq Near(S) /\ Near(S) \subseteq Frontier
  BY <1>4, SignatureCovers DEF Near
<1>6. e.order \in Seq(Near(S)) /\ e.order \in Seq(Frontier)
  BY <1>4, <1>5, SeqDef
<1>7. QED
  BY <1>1, <1>6, NoOrderIsEntry DEF Remembered

LEMMA AfterFailureTyped ==
  ASSUME NEW f, NEW su \in SUBSET Frontier
  PROVE  AfterFailure(f, su) \subseteq SUBSET Frontier
BY DEF AfterFailure

\* A refusal frees the slot.
LEMMA RefusedFrees ==
  ASSUME NEW kind, NEW seq, NEW su \in SUBSET Frontier,
         NEW rl \in BOOLEAN, NEW sl \in BOOLEAN,
         Refused(kind, seq, su, rl, sl)
  PROVE  ClearGoal /\ LatchTyped'
<1>1. suppressed' \in SUBSET Frontier
  BY AfterFailureTyped DEF Refused
<1>2. QED
  BY <1>1 DEF Refused, LatchTyped

LEMMA ClearedGoalTyped ==
  ASSUME ClearGoal, dispatchId' \in 0..MaxDispatch, nav' \in [Id -> NavStates]
  PROVE  GoalTyped'
BY EmptySeq DEF ClearGoal, GoalTyped, GoalStates, GoalKinds

LEMMA DispatchGoalAsks ==
  ASSUME TypeOK,
         NEW kind \in GoalKinds \ {"none"}, NEW seq \in Seq(Frontier),
         kind = "frontier" => seq # <<>>,
         NEW su \in SUBSET Frontier, NEW rl \in BOOLEAN, NEW sl \in BOOLEAN,
         DispatchGoal(kind, seq, su, rl, sl)
  PROVE  Asked /\ LatchTyped'
<1>1. CASE nav' = nav /\ Refused(kind, seq, su, rl, sl)
  BY <1>1, RefusedFrees DEF DispatchGoal, Asked
<1>2. CASE ~(nav' = nav /\ Refused(kind, seq, su, rl, sl))
  BY <1>2 DEF DispatchGoal, Asked, LatchTyped
<1>3. QED
  BY <1>1, <1>2

LEMMA AskedTyped ==
  ASSUME TypeOK, Asked
  PROVE  GoalTyped' /\ settle' \in {"off", "waiting", "elapsed"}
<1>1. MaxDispatch \in Nat
  BY BoundsAssumption
<1>2. dispatchId' \in 0..MaxDispatch
  BY <1>1 DEF TypeOK, Asked
<1>3. nav' \in [Id -> NavStates]
  BY DEF TypeOK, Asked, NavStates
<1>4. CASE ClearGoal
  BY <1>2, <1>3, <1>4, ClearedGoalTyped DEF Asked
<1>5. CASE ~ClearGoal
  BY <1>2, <1>3, <1>5 DEF Asked, GoalTyped, GoalStates
<1>6. QED
  BY <1>4, <1>5

LEMMA DispatchFrontierAsks ==
  ASSUME TypeOK, NEW order \in Seq(Frontier), NEW su \in SUBSET Frontier,
         NEW rl \in BOOLEAN, NEW sl \in BOOLEAN,
         DispatchFrontier(order, su, rl, sl)
  PROVE  Asked /\ LatchTyped'
<1>1. PICK k \in 1..Len(order) :
        DispatchGoal("frontier", SubSeq(order, k, Len(order)), su, rl, sl)
  BY DEF DispatchFrontier
<1>2. Len(order) \in Nat /\ \A i \in k..Len(order) : order[i] \in Frontier
  BY LenProperties, ElementOfSeq
<1>3. /\ SubSeq(order, k, Len(order)) \in Seq(Frontier)
      /\ Len(SubSeq(order, k, Len(order))) = Len(order) - k + 1
  BY <1>2, SubSeqProperties
<1>4. SubSeq(order, k, Len(order)) # <<>>
  BY <1>2, <1>3, EmptySeq
<1>5. QED
  BY <1>1, <1>3, <1>4, DispatchGoalAsks DEF GoalKinds

LEMMA DispatchPendingAsks ==
  ASSUME TypeOK, NEW order \in Seq(Frontier), NEW su \in SUBSET Frontier,
         NEW rl \in BOOLEAN, NEW sl \in BOOLEAN,
         DispatchPending(order, su, rl, sl)
  PROVE  Asked /\ LatchTyped' /\ ReplaceTyped'
<1>1. Asked /\ LatchTyped'
  BY DispatchFrontierAsks DEF DispatchPending
<1>2. ReplaceTyped'
  BY BoundsAssumption, EmptySeq DEF DispatchPending, ReplaceTyped
<1>3. QED
  BY <1>1, <1>2

LEMMA IssueCancelTyped ==
  ASSUME TypeOK, IssueCancel
  PROVE  CancelTyped' /\ goalState' \in {"ACTIVE", "CANCELING"}
<1>1. MaxCancels \in Nat
  BY BoundsAssumption
<1>2. cancels' \in [Id -> 0..MaxCancels]
  BY <1>1, SMTT(20) DEF IssueCancel, TypeOK
<1>3. QED
  BY <1>2 DEF IssueCancel, CancelTyped, TypeOK

\* A cancel request keeps the goal, and touches its state only with a handle.
LEMMA RequestCancelKeeps ==
  ASSUME TypeOK, RequestCancel
  PROVE  Kept /\ CancelTyped'
<1>1. CASE ~goalHandle \/ cancelInProgress
  BY <1>1 DEF RequestCancel, Kept, CancelTyped, TypeOK
<1>2. CASE ~(~goalHandle \/ cancelInProgress)
  BY <1>2, IssueCancelTyped DEF RequestCancel, Kept
<1>3. QED
  BY <1>1, <1>2

-----------------------------------------------------------------------------
(* The scheduler either asks for a goal or leaves the slot free.            *)

Scheduled ==
  /\ Freed \/ Asked
  /\ LatchTyped' /\ ReplaceTyped' /\ returnCompleted' \in BOOLEAN

LEMMA StayIdleSchedules ==
  ASSUME TypeOK, NEW su \in SUBSET Frontier, NEW latch \in BOOLEAN,
         StayIdle(su, latch), returnCompleted' \in BOOLEAN
  PROVE  Scheduled
BY DEF StayIdle, Scheduled, Freed, LatchTyped, ReplaceTyped, TypeOK, replaceVars

LEMMA DispatchSchedules ==
  ASSUME TypeOK, Asked, LatchTyped', UNCHANGED <<replaceVars, returnCompleted>>
  PROVE  Scheduled
BY DEF Scheduled, ReplaceTyped, TypeOK, replaceVars

LEMMA ExplorationCompleteSchedules ==
  ASSUME TypeOK, NEW su \in SUBSET Frontier, ExplorationComplete(su)
  PROVE  Scheduled
<1>1. CASE returnCompleted' \in BOOLEAN /\ StayIdle(su, FALSE)
  BY <1>1, StayIdleSchedules
<1>2. CASE /\ DispatchGoal("return_to_start", <<>>, su, TRUE, FALSE)
           /\ UNCHANGED <<replaceVars, returnCompleted>>
  <2>1. Asked /\ LatchTyped'
    BY <1>2, DispatchGoalAsks, EmptySeq DEF GoalKinds
  <2>2. QED
    BY <1>2, <2>1, DispatchSchedules
<1>3. QED
  BY <1>1, <1>2 DEF ExplorationComplete, TypeOK

LEMMA AllFrontiersSuppressedSchedules ==
  ASSUME TypeOK, NEW su \in SUBSET Frontier, AllFrontiersSuppressed(su)
  PROVE  Scheduled
<1>1. CASE returnCompleted' = returnCompleted /\ \E l \in BOOLEAN : StayIdle(su, l)
  BY <1>1, StayIdleSchedules DEF TypeOK
<1>2. CASE /\ DispatchGoal("suppressed_return_to_start", <<>>, su, returnStarted, TRUE)
           /\ UNCHANGED <<replaceVars, returnCompleted>>
  <2>1. returnStarted \in BOOLEAN
    BY DEF TypeOK
  <2>2. Asked /\ LatchTyped'
    BY <1>2, <2>1, DispatchGoalAsks, EmptySeq DEF GoalKinds
  <2>3. QED
    BY <1>2, <2>2, DispatchSchedules
<1>3. QED
  BY <1>1, <1>2 DEF AllFrontiersSuppressed, TypeOK

LEMMA SendFrontierSchedules ==
  ASSUME TypeOK, NEW open \in SUBSET Frontier, NEW su \in SUBSET Frontier,
         SendFrontier(open, su)
  PROVE  Scheduled /\ orderCache' \in OrderEntries
<1>1. PICK e \in Selections(open) :
        /\ orderCache' = Remembered(open, e) /\ UNCHANGED returnCompleted
        /\ \/ StayIdle(su, FALSE)
           \/ DispatchFrontier(e.order, su, returnStarted, FALSE) /\ UNCHANGED replaceVars
  BY DEF SendFrontier
<1>2. e.order \in Seq(Frontier) /\ orderCache' \in OrderEntries
  BY <1>1, SelectionsList
<1>3. CASE StayIdle(su, FALSE)
  BY <1>1, <1>2, <1>3, StayIdleSchedules DEF TypeOK
<1>4. CASE DispatchFrontier(e.order, su, returnStarted, FALSE) /\ UNCHANGED replaceVars
  <2>1. returnStarted \in BOOLEAN
    BY DEF TypeOK
  <2>2. Asked /\ LatchTyped'
    BY <1>2, <1>4, <2>1, DispatchFrontierAsks
  <2>3. QED
    BY <1>1, <1>2, <1>4, <2>2, DispatchSchedules
<1>5. QED
  BY <1>1, <1>3, <1>4

LEMMA SearchAndSendSchedules ==
  ASSUME TypeOK, NEW su \in SUBSET Frontier, SearchAndSend(su)
  PROVE  Scheduled /\ SearchTyped'
<1>1. dirty' \in BOOLEAN
  BY DEF SearchAndSend
<1>2. CASE UNCHANGED <<orderCache, returnCompleted>> /\ StayIdle(su, suppressedReturn)
  BY <1>1, <1>2, StayIdleSchedules DEF TypeOK, SearchTyped
<1>3. CASE UNCHANGED orderCache /\ (ExplorationComplete(su) \/ AllFrontiersSuppressed(su))
  BY <1>1, <1>3, AllFrontiersSuppressedSchedules, ExplorationCompleteSchedules
  DEF TypeOK, SearchTyped
<1>4. ASSUME NEW found \in SUBSET Frontier, SendFrontier(found \ su, su)
      PROVE  Scheduled /\ SearchTyped'
  BY <1>1, <1>4, SendFrontierSchedules DEF SearchTyped
<1>5. QED
  BY <1>2, <1>3, <1>4 DEF SearchAndSend

LEMMA SendPendingSchedules ==
  ASSUME TypeOK, NEW su \in SUBSET Frontier, SendPending(su)
  PROVE  Scheduled /\ SearchTyped'
<1>1. SearchTyped' /\ returnCompleted' \in BOOLEAN
  BY DEF SendPending, TypeOK, SearchTyped, searchVars
<1>2. CASE StayIdle(su, suppressedReturn)
  BY <1>1, <1>2, StayIdleSchedules DEF TypeOK
<1>3. CASE DispatchPending(pendingSeq, su, returnStarted, suppressedReturn)
  <2>1. Asked /\ LatchTyped' /\ ReplaceTyped'
    BY <1>3, DispatchPendingAsks DEF TypeOK
  <2>2. QED
    BY <1>1, <2>1 DEF Scheduled
<1>4. QED
  BY <1>1, <1>2, <1>3 DEF SendPending

\* try_send_next_goal asks for a goal only when the scheduler's gates are open.
LEMMA TrySendNextGoalSchedules ==
  ASSUME TypeOK, NEW su \in SUBSET Frontier, TrySendNextGoal(su)
  PROVE  /\ Scheduled /\ RestTyped'
         /\ settle' \in {settle, "off"}
         /\ Asked => CanSchedule
<1>1. CASE /\ StayIdle(su, suppressedReturn)
           /\ UNCHANGED <<settle, startKnown, searchVars, returnCompleted>>
  <2>1. Scheduled /\ RestTyped'
    BY <1>1, StayIdleSchedules DEF RestTyped, TypeOK, SearchTyped, searchVars
  <2>2. ~Asked
    BY <1>1 DEF StayIdle, Asked, TypeOK
  <2>3. QED
    BY <1>1, <2>1, <2>2
<1>2. CASE /\ CanSchedule /\ settle' = "off" /\ startKnown' = TRUE
           /\ IF pendingSeq # <<>> THEN SendPending(su) ELSE SearchAndSend(su)
  <2>1. Scheduled /\ SearchTyped'
    BY <1>2, SendPendingSchedules, SearchAndSendSchedules
  <2>2. QED
    BY <1>2, <2>1 DEF Scheduled, RestTyped
<1>3. QED
  BY <1>1, <1>2 DEF TrySendNextGoal

LEMMA ScheduledTyped ==
  ASSUME TypeOK, Scheduled
  PROVE  GoalTyped'
<1>1. CASE Asked
  BY <1>1, AskedTyped
<1>2. CASE Freed
  BY <1>2, ClearedGoalTyped DEF Freed, TypeOK
<1>3. QED
  BY <1>1, <1>2 DEF Scheduled

-----------------------------------------------------------------------------
(* A map update keeps the active goal, or asks for one in its place.        *)

Preempted ==
  /\ Kept \/ Asked
  /\ GoalTyped' /\ CancelTyped' /\ ReplaceTyped' /\ LatchTyped' /\ RestTyped'

LEMMA KeptTyped ==
  ASSUME TypeOK, Kept, watch' \in {"off", "armed", "fired"}
  PROVE  GoalTyped' /\ settle' \in {"off", "waiting", "elapsed"}
BY DEF TypeOK, Kept, GoalTyped, GoalStates

LEMMA UnchangedSchedulingKeeps ==
  ASSUME TypeOK, UnchangedScheduling
  PROVE  Preempted
<1> USE DEF UnchangedScheduling, goalVars, cancelVars, replaceVars, returnVars, searchVars
<1>1. Kept
  BY DEF Kept
<1>2. GoalTyped'
  BY <1>1, KeptTyped DEF TypeOK
<1>3. CancelTyped' /\ ReplaceTyped' /\ LatchTyped' /\ RestTyped'
  BY DEF TypeOK, CancelTyped, ReplaceTyped, LatchTyped, RestTyped, SearchTyped
<1>4. QED
  BY <1>1, <1>2, <1>3 DEF Preempted

\* The bookkeeping that goes with a goal kept as it is.
LEMMA KeepGoalKeeps ==
  ASSUME TypeOK, KeepGoal, ReplaceTyped', suppressedReturn' \in BOOLEAN,
         SearchTyped', UNCHANGED <<startKnown, returnCompleted>>
  PROVE  Preempted
<1> USE DEF KeepGoal, goalVars, cancelVars
<1>1. Kept
  BY DEF Kept
<1>2. GoalTyped'
  BY <1>1, KeptTyped DEF TypeOK
<1>3. CancelTyped' /\ LatchTyped' /\ RestTyped'
  BY DEF TypeOK, CancelTyped, LatchTyped, RestTyped
<1>4. QED
  BY <1>1, <1>2, <1>3 DEF Preempted

LEMMA ForgetCandidateTyped ==
  ASSUME TypeOK, ForgetCandidate
  PROVE  ReplaceTyped'
BY BoundsAssumption DEF ForgetCandidate, ReplaceTyped, TypeOK

LEMMA UnchangedReplaceTyped ==
  ASSUME TypeOK, UNCHANGED replaceVars
  PROVE  ReplaceTyped'
BY DEF ReplaceTyped, TypeOK, replaceVars

LEMMA DispatchPendingPreempts ==
  ASSUME TypeOK, NEW order \in Seq(Frontier), NEW sl \in BOOLEAN,
         DispatchPending(order, suppressed, returnStarted, sl),
         UNCHANGED <<cancelVars, startKnown, returnCompleted>>, SearchTyped'
  PROVE  Preempted
<1>1. Asked /\ LatchTyped' /\ ReplaceTyped'
  BY DispatchPendingAsks DEF TypeOK
<1>2. GoalTyped' /\ settle' \in {"off", "waiting", "elapsed"}
  BY <1>1, AskedTyped
<1>3. CancelTyped' /\ RestTyped'
  BY <1>2 DEF CancelTyped, RestTyped, TypeOK, cancelVars
<1>4. QED
  BY <1>1, <1>2, <1>3 DEF Preempted

LEMMA CancelKeeps ==
  ASSUME TypeOK, RequestCancel, ReplaceTyped', SearchTyped',
         UNCHANGED <<returnVars, startKnown, suppressed, watch>>
  PROVE  Preempted
<1>1. Kept /\ CancelTyped'
  BY RequestCancelKeeps
<1>2. GoalTyped' /\ settle' \in {"off", "waiting", "elapsed"}
  BY <1>1, KeptTyped DEF TypeOK
<1>3. LatchTyped' /\ RestTyped'
  BY <1>2 DEF LatchTyped, RestTyped, TypeOK, returnVars
<1>4. QED
  BY <1>1, <1>2, <1>3 DEF Preempted

LEMMA CancelFromMapKeeps ==
  ASSUME TypeOK, CancelFromMap, UNCHANGED startKnown
  PROVE  Preempted
<1>1. ReplaceTyped' /\ SearchTyped'
  BY UnchangedReplaceTyped DEF CancelFromMap, TypeOK, SearchTyped, searchVars
<1>2. QED
  BY <1>1, CancelKeeps DEF CancelFromMap

LEMMA CountedHitsTyped ==
  ASSUME TypeOK, NEW f
  PROVE  CountedHits(f) \in Nat \ {0}
BY DEF CountedHits, TypeOK

LEMMA RequestReselectionPreempts ==
  ASSUME TypeOK, NEW seq \in Seq(Frontier), seq # <<>>, RequestReselection(seq),
         UNCHANGED <<startKnown, returnCompleted>>, SearchTyped'
  PROVE  Preempted
<1>1. Head(seq) \in Frontier
  BY HeadTailProperties
<1>2. suppressedReturn' \in BOOLEAN /\ suppressedReturn \in BOOLEAN
  BY DEF RequestReselection, TypeOK
<1>3. CASE KeepGoal /\ UNCHANGED replaceVars
  BY <1>2, <1>3, KeepGoalKeeps, UnchangedReplaceTyped
<1>4. CASE /\ KeepGoal /\ candidate' = Head(seq) /\ hits' = CountedHits(Head(seq))
           /\ pendingSeq' \in {seq, pendingSeq}
  <2>1. ReplaceTyped'
    BY <1>1, <1>4, CountedHitsTyped, FrontierAssumption DEF ReplaceTyped, TypeOK
  <2>2. QED
    BY <1>2, <1>4, <2>1, KeepGoalKeeps
<1>5. CASE /\ DispatchPending(seq, suppressed, returnStarted, suppressedReturn)
           /\ UNCHANGED cancelVars
  BY <1>2, <1>5, DispatchPendingPreempts
<1>6. QED
  BY <1>3, <1>4, <1>5 DEF RequestReselection

LEMMA ReselectPreempts ==
  ASSUME TypeOK, NEW isBlocked \in BOOLEAN, Reselect(isBlocked),
         UNCHANGED <<startKnown, returnCompleted>>
  PROVE  Preempted
<1>1. dirty' \in BOOLEAN /\ suppressedReturn \in BOOLEAN
  BY DEF Reselect, TypeOK
<1>2. UNCHANGED orderCache => SearchTyped'
  BY <1>1 DEF SearchTyped, TypeOK
<1>3. CASE KeepGoal /\ UNCHANGED <<orderCache, replaceVars, suppressedReturn>>
  BY <1>1, <1>2, <1>3, KeepGoalKeeps, UnchangedReplaceTyped
<1>4. CASE KeepGoal /\ ForgetCandidate /\ UNCHANGED <<orderCache, suppressedReturn>>
  BY <1>1, <1>2, <1>4, KeepGoalKeeps, ForgetCandidateTyped
<1>5. CASE /\ ForgetCandidate
           /\ UNCHANGED <<orderCache, suppressedReturn, returnStarted, suppressed>>
           /\ RequestCancel /\ UNCHANGED watch
  BY <1>1, <1>2, <1>5, CancelKeeps, ForgetCandidateTyped DEF returnVars
<1>6. ASSUME NEW found \in SUBSET Frontier, NEW e \in Selections(found \ suppressed),
             orderCache' = Remembered(found \ suppressed, e),
             IF e.order \in {<<>>, goalSeq}
             THEN ForgetCandidate /\ KeepGoal /\ UNCHANGED suppressedReturn
             ELSE RequestReselection(e.order)
      PROVE  Preempted
  <2>1. e.order \in Seq(Frontier) /\ SearchTyped'
    BY <1>1, <1>6, SelectionsList DEF SearchTyped
  <2>2. CASE ForgetCandidate /\ KeepGoal /\ UNCHANGED suppressedReturn
    BY <1>1, <2>1, <2>2, KeepGoalKeeps, ForgetCandidateTyped
  <2>3. CASE e.order # <<>> /\ RequestReselection(e.order)
    BY <2>1, <2>3, RequestReselectionPreempts
  <2>4. QED
    BY <1>6, <2>2, <2>3
<1>7. PICK found \in SUBSET Frontier :
        \/ KeepGoal /\ UNCHANGED <<orderCache, replaceVars, suppressedReturn>>
        \/ /\ ForgetCandidate
           /\ UNCHANGED <<orderCache, suppressedReturn, returnStarted, suppressed>>
           /\ IF isBlocked THEN RequestCancel /\ UNCHANGED watch ELSE KeepGoal
        \/ ForgetCandidate /\ KeepGoal /\ UNCHANGED <<orderCache, suppressedReturn>>
        \/ \E e \in Selections(found \ suppressed) :
             /\ orderCache' = Remembered(found \ suppressed, e)
             /\ IF e.order \in {<<>>, goalSeq}
                THEN ForgetCandidate /\ KeepGoal /\ UNCHANGED suppressedReturn
                ELSE RequestReselection(e.order)
  BY DEF Reselect
<1>8. QED
  BY <1>3, <1>4, <1>5, <1>6, <1>7

LEMMA ConsiderPreemptPreempts ==
  ASSUME TypeOK, ConsiderPreempt
  PROVE  Preempted
<1> DEFINE isBlocked == BlockedTarget(Head(goalSeq))
<1>1. UNCHANGED <<startKnown, returnCompleted>>
  BY DEF ConsiderPreempt
<1>2. isBlocked \in BOOLEAN
  BY FlagAssumption DEF BlockedTarget
<1>3. CASE UnchangedScheduling
  BY <1>3, UnchangedSchedulingKeeps
<1>4. CASE CancelFromMap
  BY <1>1, <1>4, CancelFromMapKeeps
<1>5. CASE ForgetCandidate /\ KeepGoal /\ UNCHANGED <<suppressedReturn, searchVars>>
  BY <1>1, <1>5, KeepGoalKeeps, ForgetCandidateTyped DEF TypeOK, SearchTyped, searchVars
<1>6. CASE Reselect(isBlocked)
  BY <1>1, <1>2, <1>6, ReselectPreempts
<1>7. QED
  BY <1>3, <1>4, <1>5, <1>6 DEF ConsiderPreempt

LEMMA ConsiderCancelSuppressedReturnPreempts ==
  ASSUME TypeOK, ConsiderCancelSuppressedReturn
  PROVE  Preempted
<1>1. UNCHANGED <<startKnown, returnCompleted>>
  BY DEF ConsiderCancelSuppressedReturn
<1>2. CASE UnchangedScheduling
  BY <1>2, UnchangedSchedulingKeeps
<1>3. CASE /\ KeepGoal /\ UNCHANGED <<orderCache, replaceVars, suppressedReturn>>
           /\ dirty' = FALSE
  BY <1>1, <1>3, KeepGoalKeeps, UnchangedReplaceTyped DEF TypeOK, SearchTyped
<1>4. ASSUME dirty' = FALSE, NEW found \in SUBSET Frontier,
             NEW e \in Selections(found \ suppressed),
             orderCache' = Remembered(found \ suppressed, e),
             \/ KeepGoal /\ UNCHANGED <<replaceVars, suppressedReturn>>
             \/ /\ KeepGoal /\ suppressedReturn' = FALSE
                /\ pendingSeq' = e.order /\ UNCHANGED <<candidate, hits>>
             \/ /\ DispatchPending(e.order, suppressed, returnStarted, FALSE)
                /\ UNCHANGED cancelVars
      PROVE  Preempted
  <2>1. e.order \in Seq(Frontier) /\ SearchTyped'
    BY <1>4, SelectionsList DEF SearchTyped
  <2>2. CASE KeepGoal /\ UNCHANGED <<replaceVars, suppressedReturn>>
    BY <1>1, <2>1, <2>2, KeepGoalKeeps, UnchangedReplaceTyped DEF TypeOK
  <2>3. CASE /\ KeepGoal /\ suppressedReturn' = FALSE
             /\ pendingSeq' = e.order /\ UNCHANGED <<candidate, hits>>
    <3>1. ReplaceTyped'
      BY <2>1, <2>3 DEF ReplaceTyped, TypeOK
    <3>2. QED
      BY <1>1, <2>1, <2>3, <3>1, KeepGoalKeeps
  <2>4. CASE /\ DispatchPending(e.order, suppressed, returnStarted, FALSE)
             /\ UNCHANGED cancelVars
    BY <1>1, <2>1, <2>4, DispatchPendingPreempts
  <2>5. QED
    BY <1>4, <2>2, <2>3, <2>4
<1>5. QED
  BY <1>2, <1>3, <1>4 DEF ConsiderCancelSuppressedReturn

-----------------------------------------------------------------------------
(* The inductive invariant.                                                 *)

\* The goal's fields agree with its state.
Shape ==
  /\ goalState = "IDLE" <=> goalKind = "none"
  /\ goalState = "IDLE" => goalSeq = <<>>
  /\ goalHandle <=> goalState \in {"ACTIVE", "CANCELING"}
  /\ goalKind = "frontier" => goalSeq # <<>>

\* What was delivered agrees with what the server did, and only the dispatches
\* up to the current one exist.
Delivered ==
  /\ \A i \in Id : i > dispatchId => nav[i] = "unsent"
  /\ \A i \in answered : nav[i] \in Driving \cup Finished \cup {"rejected"}
  /\ resulted \subseteq answered
  /\ \A i \in resulted : nav[i] \in Finished

\* Freed by its result or its refusal: IdleMeansOver with the reason why.
IdleAfterReply ==
  goalState = "IDLE" /\ dispatchId > 0 =>
    dispatchId \in resulted \/ nav[dispatchId] \in {"rejected", "unsent"}

SlotInv == Shape /\ Delivered /\ IdleAfterReply /\ WaitsForLiveGoal

IInv == TypeOK /\ SlotInv /\ SettleOnlyBetweenGoals

LEMMA InitIInv == Init => IInv
<1> SUFFICES ASSUME Init PROVE IInv
  OBVIOUS
<1>1. TypeOK
  <2>1. <<>> \in Seq(Frontier)
    BY EmptySeq
  <2>2. 0 \in 0..MaxDispatch /\ 0 \in 0..MaxCancels /\ 0 \in 0..RequiredHits
    BY BoundsAssumption
  <2>3. GoalTyped
    BY <2>1, <2>2 DEF Init, GoalTyped, GoalStates, GoalKinds, NavStates
  <2>4. CancelTyped /\ ReplaceTyped
    BY <2>1, <2>2 DEF Init, CancelTyped, ReplaceTyped
  <2>5. LatchTyped /\ RestTyped /\ InputTyped
    BY NoOrderIsEntry DEF Init, LatchTyped, RestTyped, SearchTyped, InputTyped
  <2>6. QED
    BY <2>3, <2>4, <2>5, TypeOKGroups
<1>2. Shape /\ IdleAfterReply /\ WaitsForLiveGoal /\ SettleOnlyBetweenGoals
  BY DEF Init, Shape, IdleAfterReply, WaitsForLiveGoal, SettleOnlyBetweenGoals
<1>3. Delivered
  BY DEF Init, Delivered
<1>4. QED
  BY <1>1, <1>2, <1>3 DEF IInv, SlotInv

LEMMA AskedKeepsSlot ==
  ASSUME TypeOK, SlotInv, Asked, answered' = answered,
         \/ resulted' = resulted
         \/ /\ resulted' = resulted \cup {dispatchId}
            /\ dispatchId \in answered /\ nav[dispatchId] \in Finished
  PROVE  SlotInv'
<1> DEFINE new == dispatchId + 1
<1>1. /\ dispatchId \in Nat /\ MaxDispatch \in Nat
      /\ new \in Id /\ new > dispatchId /\ dispatchId' = new
      /\ nav[new] = "unsent" /\ new \notin answered
  <2>1. dispatchId \in Nat /\ MaxDispatch \in Nat
    BY BoundsAssumption DEF TypeOK
  <2>2. new \in Id /\ new > dispatchId /\ dispatchId' = new
    BY <2>1 DEF Asked, Id
  <2>3. nav[new] = "unsent"
    BY <2>2 DEF SlotInv, Delivered
  <2>4. new \notin answered
    BY <2>3 DEF SlotInv, Delivered, Driving, Finished
  <2>5. QED
    BY <2>1, <2>2, <2>3, <2>4
<1>2. \A i \in Id : i > new => i > dispatchId
  BY <1>1 DEF Id
<1>3. resulted' \subseteq answered' /\ \A i \in resulted' : nav[i] \in Finished
  BY DEF SlotInv, Delivered
<1>4. CASE /\ nav' = [nav EXCEPT ![new] = "sent"]
           /\ goalState' = "SENDING" /\ goalHandle' = FALSE
           /\ goalKind' \in GoalKinds \ {"none"}
           /\ goalKind' = "frontier" => goalSeq' # <<>>
  <2>1. nav'[new] = "sent" /\ \A i \in Id \ {new} : nav'[i] = nav[i]
    BY <1>1, <1>4 DEF TypeOK
  <2>2. Shape' /\ IdleAfterReply'
    BY <1>4 DEF Shape, IdleAfterReply
  <2>3. \A i \in Id : i > dispatchId' => nav'[i] = "unsent"
    <3>1. \A i \in Id : i > new => i # new
      BY <1>1 DEF Id
    <3>2. QED
      BY <1>1, <1>2, <2>1, <3>1 DEF SlotInv, Delivered
  <2>4. answered' \subseteq Id \ {new} /\ resulted' \subseteq Id \ {new}
    BY <1>1, <1>3 DEF TypeOK
  <2>5. Delivered'
    BY <1>3, <2>1, <2>3, <2>4 DEF SlotInv, Delivered
  <2>6. WaitsForLiveGoal'
    BY <1>1, <1>4, <2>1 DEF WaitsForLiveGoal
  <2>7. QED
    BY <2>2, <2>5, <2>6 DEF SlotInv
<1>5. CASE nav' = nav /\ ClearGoal
  <2>1. Shape' /\ IdleAfterReply' /\ WaitsForLiveGoal'
    BY <1>1, <1>5 DEF ClearGoal, Shape, IdleAfterReply, WaitsForLiveGoal
  <2>2. \A i \in Id : i > dispatchId' => nav'[i] = "unsent"
    BY <1>1, <1>2, <1>5 DEF SlotInv, Delivered
  <2>3. Delivered'
    BY <1>3, <1>5, <2>2 DEF SlotInv, Delivered
  <2>4. QED
    BY <2>1, <2>3 DEF SlotInv
<1>6. QED
  BY <1>4, <1>5 DEF Asked

LEMMA FreedKeepsSlot ==
  ASSUME Freed, Delivered',
         dispatchId > 0 =>
           dispatchId \in resulted' \/ nav[dispatchId] \in {"rejected", "unsent"}
  PROVE  SlotInv'
<1>1. Shape' /\ IdleAfterReply' /\ WaitsForLiveGoal'
  BY DEF Freed, ClearGoal, Shape, IdleAfterReply, WaitsForLiveGoal
<1>2. QED
  BY <1>1 DEF SlotInv

LEMMA KeptKeepsSlot ==
  ASSUME SlotInv, Kept, UNCHANGED replyVars
  PROVE  SlotInv'
<1>1. Shape'
  BY DEF SlotInv, Shape, Kept
<1>2. Delivered' /\ IdleAfterReply' /\ WaitsForLiveGoal'
  BY DEF SlotInv, Shape, Kept, Delivered, IdleAfterReply, WaitsForLiveGoal, replyVars
<1>3. QED
  BY <1>1, <1>2 DEF SlotInv

LEMMA UnchangedDelivered ==
  ASSUME SlotInv, UNCHANGED <<nav, dispatchId, answered, resulted>>
  PROVE  Delivered'
BY DEF SlotInv, Delivered

-----------------------------------------------------------------------------
(* One lemma per action: it preserves IInv, and sends a goal only when the   *)
(* session is open and no settle window is.                                  *)

DispatchAllowed == enabled /\ enabled' /\ settle # "waiting"

GoodStep == IInv' /\ (Dispatches => DispatchAllowed)

\* A step that leaves the core and the delivered replies alone.
LEMMA IdleScheduling ==
  ASSUME IInv, goalState = "IDLE", enabled, UNCHANGED <<enabled, cancelVars, replyVars>>,
         TrySendNextGoal(suppressed), InputTyped'
  PROVE  GoodStep
<1>1. suppressed \in SUBSET Frontier /\ TypeOK /\ SlotInv
  BY DEF IInv, TypeOK
<1>2. /\ Scheduled /\ RestTyped' /\ GoalTyped'
      /\ settle' \in {settle, "off"}
      /\ Asked => CanSchedule
  BY <1>1, TrySendNextGoalSchedules, ScheduledTyped
<1>3. CancelTyped'
  BY <1>1 DEF TypeOK, CancelTyped, cancelVars
<1>4. TypeOK'
  BY <1>2, <1>3, NextTypeOK DEF Scheduled
<1>5. CASE Asked
  <2>1. SlotInv'
    BY <1>1, <1>5, AskedKeepsSlot DEF replyVars
  <2>2. SettleOnlyBetweenGoals' /\ DispatchAllowed
    BY <1>2, <1>5 DEF SettleOnlyBetweenGoals, Asked, DispatchAllowed, CanSchedule
  <2>3. QED
    BY <1>4, <2>1, <2>2 DEF GoodStep, IInv
<1>6. CASE Freed
  <2>1. Delivered'
    BY <1>1, <1>6, UnchangedDelivered DEF Freed, replyVars
  <2>2. SlotInv'
    BY <1>1, <1>6, <2>1, FreedKeepsSlot DEF SlotInv, IdleAfterReply, replyVars
  <2>3. SettleOnlyBetweenGoals' /\ ~Dispatches
    BY <1>6 DEF SettleOnlyBetweenGoals, Freed, ClearGoal, Dispatches
  <2>4. QED
    BY <1>4, <2>2, <2>3 DEF GoodStep, IInv
<1>7. QED
  BY <1>2, <1>5, <1>6 DEF Scheduled

LEMMA PreemptingStep ==
  ASSUME IInv, Preempted, enabled, UNCHANGED <<enabled, replyVars>>, InputTyped',
         Asked => goalState # "IDLE"
  PROVE  GoodStep
<1>1. TypeOK /\ SlotInv /\ SettleOnlyBetweenGoals
  BY DEF IInv
<1>2. TypeOK'
  BY NextTypeOK DEF Preempted
<1>3. CASE Asked
  <2>1. SlotInv'
    BY <1>1, <1>3, AskedKeepsSlot DEF replyVars
  <2>2. SettleOnlyBetweenGoals' /\ DispatchAllowed
    BY <1>1, <1>3 DEF SettleOnlyBetweenGoals, Asked, DispatchAllowed
  <2>3. QED
    BY <1>2, <2>1, <2>2 DEF GoodStep, IInv
<1>4. CASE Kept
  <2>1. SlotInv'
    BY <1>1, <1>4, KeptKeepsSlot
  <2>2. SettleOnlyBetweenGoals' /\ ~Dispatches
    BY <1>1, <1>4 DEF SettleOnlyBetweenGoals, Kept, Dispatches, SlotInv, Shape
  <2>3. QED
    BY <1>2, <2>1, <2>2 DEF GoodStep, IInv
<1>5. QED
  BY <1>3, <1>4 DEF Preempted

LEMMA ScheduleIfIdleStep ==
  ASSUME IInv, ScheduleIfIdle, enabled, UNCHANGED <<enabled, replyVars>>, InputTyped'
  PROVE  GoodStep
<1>1. CASE goalState = "IDLE"
  BY <1>1, IdleScheduling DEF ScheduleIfIdle
<1>2. CASE goalState # "IDLE"
  BY <1>2, UnchangedSchedulingKeeps, PreemptingStep DEF ScheduleIfIdle, IInv
<1>3. QED
  BY <1>1, <1>2

LEMMA ActOnMapStep ==
  ASSUME IInv, ActOnMap, enabled, UNCHANGED <<enabled, replyVars>>, InputTyped'
  PROVE  GoodStep
<1>1. CASE goalKind = "frontier"
  BY <1>1, ConsiderPreemptPreempts, PreemptingStep DEF ActOnMap, IInv, SlotInv, Shape
<1>2. CASE goalKind = "suppressed_return_to_start"
  BY <1>2, ConsiderCancelSuppressedReturnPreempts, PreemptingStep
  DEF ActOnMap, IInv, SlotInv, Shape
<1>3. CASE goalKind \notin {"frontier", "suppressed_return_to_start"}
  BY <1>3, ScheduleIfIdleStep DEF ActOnMap
<1>4. QED
  BY <1>1, <1>2, <1>3

LEMMA MapMessageStep == IInv /\ MapMessage => GoodStep
<1> SUFFICES ASSUME IInv, MapMessage PROVE GoodStep
  OBVIOUS
<1>1. enabled /\ UNCHANGED <<enabled, replyVars>> /\ InputTyped'
  BY DEF MapMessage, Running, InputTyped, IInv, TypeOK, replyVars
<1>2. CASE TimerMode
  <2>1. /\ dirty' = TRUE
        /\ UNCHANGED <<goalVars, cancelVars, replaceVars, returnVars, orderCache,
                       settle, startKnown, suppressed, nav>>
    BY <1>2 DEF MapMessage
  <2>2. Kept /\ CancelTyped' /\ ReplaceTyped' /\ LatchTyped' /\ RestTyped' /\ GoalTyped'
    BY <2>1 DEF IInv, TypeOK, Kept, GoalTyped, CancelTyped, ReplaceTyped, LatchTyped,
      RestTyped, SearchTyped, goalVars, cancelVars, replaceVars, returnVars
  <2>3. ~Asked
    BY <2>1 DEF Asked, goalVars, IInv, TypeOK
  <2>4. QED
    BY <1>1, <2>2, <2>3, PreemptingStep DEF Preempted
<1>3. CASE ~TimerMode
  BY <1>1, <1>3, ActOnMapStep DEF MapMessage
<1>4. QED
  BY <1>2, <1>3

LEMMA MapTimerStep == IInv /\ MapTimer => GoodStep
<1> SUFFICES ASSUME IInv, MapTimer PROVE GoodStep
  OBVIOUS
<1>1. enabled /\ UNCHANGED <<enabled, replyVars>> /\ InputTyped'
  BY DEF MapTimer, Running, InputTyped, IInv, TypeOK, replyVars, inputVars
<1>2. QED
  BY <1>1, ActOnMapStep DEF MapTimer

LEMMA CostmapMessageStep ==
  ASSUME IInv, NEW global \in BOOLEAN, CostmapMessage(global)
  PROVE  GoodStep
<1>1. blocked' \in SUBSET Frontier
  BY DEF CostmapMessage, Blockages
<1>2. enabled /\ UNCHANGED <<enabled, replyVars>> /\ InputTyped'
  BY <1>1 DEF CostmapMessage, Running, InputTyped, IInv, TypeOK, replyVars
<1>3. CASE goalKind = "frontier"
  <2>1. Preempted /\ goalState # "IDLE"
    BY <1>3, CancelFromMapKeeps, UnchangedSchedulingKeeps
    DEF CostmapMessage, IInv, SlotInv, Shape
  <2>2. QED
    BY <1>2, <2>1, PreemptingStep
<1>4. CASE goalKind = "suppressed_return_to_start"
  BY <1>2, <1>4, ConsiderCancelSuppressedReturnPreempts, PreemptingStep
  DEF CostmapMessage, IInv, SlotInv, Shape
<1>5. CASE /\ goalKind \notin {"frontier", "suppressed_return_to_start"}
           /\ ~TimerMode \/ ~dirty
  BY <1>2, <1>5, ScheduleIfIdleStep DEF CostmapMessage
<1>6. CASE /\ goalKind \notin {"frontier", "suppressed_return_to_start"}
           /\ ~(~TimerMode \/ ~dirty)
  <2>1. Preempted /\ ~Asked
    BY <1>6, UnchangedSchedulingKeeps
    DEF CostmapMessage, UnchangedScheduling, Asked, goalVars, IInv, TypeOK
  <2>2. QED
    BY <1>2, <2>1, PreemptingStep
<1>7. QED
  BY <1>3, <1>4, <1>5, <1>6

LEMMA QuietStep ==
  ASSUME TypeOK', SlotInv', SettleOnlyBetweenGoals', dispatchId' = dispatchId
  PROVE  GoodStep
BY DEF GoodStep, IInv, Dispatches

LEMMA WatchdogStep == IInv /\ Watchdog => GoodStep
<1> SUFFICES ASSUME IInv, Watchdog PROVE GoodStep
  OBVIOUS
<1>1. TypeOK /\ SlotInv /\ SettleOnlyBetweenGoals
  BY DEF IInv
<1>2. UNCHANGED replyVars /\ watch' \in {"off", "armed", "fired"}
  BY DEF Watchdog
<1>3. Kept /\ CancelTyped'
  <2>1. CASE UNCHANGED <<cancelVars, goalState>>
    BY <1>1, <2>1 DEF Watchdog, Kept, CancelTyped, TypeOK, cancelVars
  <2>2. CASE RequestCancel
    BY <1>1, <2>2, RequestCancelKeeps
  <2>3. QED
    BY <2>1, <2>2 DEF Watchdog
<1>4. GoalTyped'
  BY <1>1, <1>2, <1>3, KeptTyped
<1>5. ReplaceTyped' /\ LatchTyped' /\ RestTyped' /\ InputTyped'
  BY <1>1 DEF Watchdog, TypeOK, ReplaceTyped, LatchTyped, RestTyped, InputTyped,
    SearchTyped, replaceVars, returnVars, inputVars, replyVars, searchVars
<1>6. TypeOK'
  BY <1>3, <1>4, <1>5, NextTypeOK
<1>7. SlotInv'
  BY <1>1, <1>2, <1>3, KeptKeepsSlot
<1>8. SettleOnlyBetweenGoals'
  BY <1>1 DEF SettleOnlyBetweenGoals, Watchdog
<1>9. QED
  BY <1>3, <1>6, <1>7, <1>8, QuietStep DEF Kept

\* The slot and the server are as they were.
LEMMA UnchangedSlot ==
  ASSUME SlotInv, UNCHANGED <<goalState, goalHandle, goalKind, goalSeq, dispatchId>>,
         UNCHANGED <<nav, replyVars>>
  PROVE  SlotInv'
BY DEF SlotInv, Shape, Delivered, IdleAfterReply, WaitsForLiveGoal, replyVars

LEMMA SettleElapsesStep == IInv /\ SettleElapses => GoodStep
<1> SUFFICES ASSUME IInv, SettleElapses PROVE GoodStep
  OBVIOUS
<1> USE DEF SettleElapses, goalVars, cancelVars, replaceVars, returnVars, inputVars, replyVars,
            searchVars
<1>1. TypeOK'
  BY DEF IInv, TypeOK
<1>2. SlotInv'
  BY UnchangedSlot DEF IInv
<1>3. SettleOnlyBetweenGoals'
  BY DEF IInv, SettleOnlyBetweenGoals
<1>4. QED
  BY <1>1, <1>2, <1>3, QuietStep

LEMMA SuppressionExpiresStep == IInv /\ SuppressionExpires => GoodStep
<1> SUFFICES ASSUME IInv, SuppressionExpires PROVE GoodStep
  OBVIOUS
<1> USE DEF SuppressionExpires, goalVars, cancelVars, replaceVars, returnVars, inputVars,
            replyVars, searchVars
<1>1. TypeOK'
  BY DEF IInv, TypeOK
<1>2. SlotInv'
  BY UnchangedSlot DEF IInv
<1>3. SettleOnlyBetweenGoals'
  BY DEF IInv, SettleOnlyBetweenGoals
<1>4. QED
  BY <1>1, <1>2, <1>3, QuietStep

LEMMA ResetTyped ==
  ASSUME TypeOK, ResetRuntimeState, enabled' \in BOOLEAN
  PROVE  /\ ReplaceTyped' /\ LatchTyped' /\ RestTyped' /\ InputTyped'
         /\ watch' = "off" /\ SettleOnlyBetweenGoals'
<1>1. ReplaceTyped'
  BY BoundsAssumption, EmptySeq DEF ResetRuntimeState, ReplaceTyped
<1>2. LatchTyped' /\ RestTyped' /\ InputTyped'
  BY NoOrderIsEntry
  DEF ResetRuntimeState, LatchTyped, RestTyped, SearchTyped, InputTyped, TypeOK, replyVars
<1>3. QED
  BY <1>1, <1>2 DEF ResetRuntimeState, SettleOnlyBetweenGoals

LEMMA StartSessionStep == IInv /\ StartSession => GoodStep
<1> SUFFICES ASSUME IInv, StartSession PROVE GoodStep
  OBVIOUS
<1>1. TypeOK /\ SlotInv
  BY DEF IInv
<1>2. /\ ReplaceTyped' /\ LatchTyped' /\ RestTyped' /\ InputTyped'
      /\ watch' = "off" /\ SettleOnlyBetweenGoals'
  BY <1>1, ResetTyped DEF StartSession
<1>3. /\ UNCHANGED <<goalState, goalHandle, goalKind, goalSeq, dispatchId>>
      /\ UNCHANGED <<nav, replyVars>>
  BY DEF StartSession, ResetRuntimeState
<1>4. GoalTyped' /\ CancelTyped'
  BY <1>1, <1>2, <1>3 DEF StartSession, GoalTyped, CancelTyped, TypeOK
<1>5. TypeOK'
  BY <1>2, <1>4, NextTypeOK
<1>6. SlotInv'
  BY <1>1, <1>3, UnchangedSlot
<1>7. QED
  BY <1>2, <1>3, <1>5, <1>6, QuietStep

LEMMA StopSessionStep == IInv /\ StopSession => GoodStep
<1> SUFFICES ASSUME IInv, StopSession PROVE GoodStep
  OBVIOUS
<1>1. TypeOK /\ SlotInv
  BY DEF IInv
<1>2. /\ ReplaceTyped' /\ LatchTyped' /\ RestTyped' /\ InputTyped'
      /\ watch' = "off" /\ settle' = "off" /\ SettleOnlyBetweenGoals'
  BY <1>1, ResetTyped DEF StopSession, ResetRuntimeState
<1>3. UNCHANGED <<goalHandle, goalKind, goalSeq, dispatchId, nav, replyVars>>
  BY DEF StopSession, ResetRuntimeState
<1>4. CASE IssueCancel /\ goalHandle
  <2>1. CancelTyped' /\ goalState' \in {"ACTIVE", "CANCELING"}
    BY <1>1, <1>4, IssueCancelTyped
  <2>2. GoalTyped'
    BY <1>1, <1>2, <1>3, <2>1 DEF GoalTyped, GoalStates, TypeOK
  <2>3. SlotInv'
    BY <1>1, <1>3, <1>4, <2>1
    DEF SlotInv, Shape, Delivered, IdleAfterReply, WaitsForLiveGoal, replyVars
  <2>4. QED
    BY <1>2, <1>3, <2>1, <2>2, <2>3, NextTypeOK, QuietStep
<1>5. CASE UNCHANGED <<cancels, goalState>> /\ CancelTyped'
  <2>1. GoalTyped'
    BY <1>1, <1>2, <1>3, <1>5 DEF GoalTyped, TypeOK
  <2>2. SlotInv'
    BY <1>1, <1>3, <1>5, UnchangedSlot
  <2>3. QED
    BY <1>2, <1>3, <1>5, <2>1, <2>2, NextTypeOK, QuietStep
<1>6. QED
  BY <1>1, <1>4, <1>5 DEF StopSession, CancelTyped, TypeOK

-----------------------------------------------------------------------------
(* Replies of the action server.                                            *)

\* A reply that does not concern the goal at hand.
LEMMA UnchangedCoreTyped ==
  ASSUME TypeOK, UnchangedCore
  PROVE  /\ GoalTyped' <=> nav' \in [Id -> NavStates]
         /\ CancelTyped' /\ ReplaceTyped' /\ LatchTyped' /\ RestTyped'
BY DEF UnchangedCore, TypeOK, GoalTyped, CancelTyped, ReplaceTyped, LatchTyped, RestTyped,
  SearchTyped, goalVars, cancelVars, replaceVars, returnVars, searchVars

LEMMA StaleReply ==
  ASSUME IInv, UnchangedCore, UNCHANGED <<nav, enabled>>, InputTyped',
         Delivered', dispatchId \in answered' <=> dispatchId \in answered,
         dispatchId \in resulted' <=> dispatchId \in resulted
  PROVE  GoodStep
<1> USE DEF UnchangedCore, goalVars
<1>1. TypeOK'
  BY UnchangedCoreTyped, NextTypeOK DEF IInv, TypeOK
<1>2. Shape' /\ IdleAfterReply' /\ WaitsForLiveGoal'
  BY DEF IInv, SlotInv, Shape, IdleAfterReply, WaitsForLiveGoal
<1>3. SettleOnlyBetweenGoals'
  BY DEF IInv, SettleOnlyBetweenGoals
<1>4. QED
  BY <1>1, <1>2, <1>3, QuietStep DEF SlotInv

LEMMA ResponseRejectedStep ==
  ASSUME IInv, NEW i \in Id, ResponseRejected(i)
  PROVE  GoodStep
<1>1. TypeOK /\ SlotInv
  BY DEF IInv
<1>2. /\ nav[i] = "rejected" /\ answered' = answered \cup {i}
      /\ UNCHANGED <<inputVars, resulted, enabled, nav>>
  BY DEF ResponseRejected
<1>3. InputTyped'
  BY <1>1, <1>2 DEF InputTyped, TypeOK, inputVars
<1>4. Delivered' <=> \A j \in Id : j > dispatchId' => nav[j] = "unsent"
  BY <1>1, <1>2 DEF SlotInv, Delivered
<1>5. CASE Stale(i)
  <2>1. UnchangedCore
    BY <1>5 DEF ResponseRejected
  <2>2. Delivered' /\ (dispatchId \in answered' <=> dispatchId \in answered)
    BY <1>1, <1>2, <1>4, <1>5, <2>1 DEF Stale, UnchangedCore, goalVars, SlotInv, Delivered
  <2>3. QED
    BY <1>2, <1>3, <2>1, <2>2, StaleReply
<1>6. CASE ~Stale(i)
  <2>1. /\ Refused(goalKind, goalSeq, suppressed, returnStarted, suppressedReturn)
        /\ UNCHANGED <<dispatchId, cancelVars, replaceVars, returnCompleted,
                       settle, searchVars, startKnown>>
    BY <1>6 DEF ResponseRejected
  <2>2. ClearGoal /\ LatchTyped'
    BY <1>1, <2>1, RefusedFrees DEF TypeOK
  <2>3. GoalTyped'
    BY <1>1, <1>2, <2>1, <2>2, ClearedGoalTyped DEF TypeOK
  <2>4. CancelTyped' /\ ReplaceTyped' /\ RestTyped'
    BY <1>1, <2>1 DEF TypeOK, CancelTyped, ReplaceTyped, RestTyped, SearchTyped,
      cancelVars, replaceVars, searchVars
  <2>5. TypeOK'
    BY <1>3, <2>2, <2>3, <2>4, NextTypeOK
  <2>6. Delivered'
    BY <1>1, <1>4, <2>1 DEF SlotInv, Delivered
  <2>7. SlotInv'
    BY <1>2, <1>6, <2>1, <2>2, <2>6, FreedKeepsSlot DEF Freed, Stale
  <2>8. SettleOnlyBetweenGoals'
    BY <1>2, <2>1, <2>2 DEF IInv, SettleOnlyBetweenGoals, ClearGoal
  <2>9. QED
    BY <2>1, <2>5, <2>7, <2>8, QuietStep
<1>7. QED
  BY <1>5, <1>6

LEMMA ResponseAcceptedStep ==
  ASSUME IInv, NEW i \in Id, ResponseAccepted(i)
  PROVE  GoodStep
<1>1. TypeOK /\ SlotInv
  BY DEF IInv
<1>2. /\ nav[i] \in Driving \cup Finished /\ i \notin answered
      /\ answered' = answered \cup {i}
      /\ UNCHANGED <<inputVars, resulted, enabled, nav>>
  BY DEF ResponseAccepted
<1>3. InputTyped'
  BY <1>1, <1>2 DEF InputTyped, TypeOK, inputVars
<1>4. Delivered' <=> \A j \in Id : j > dispatchId' => nav[j] = "unsent"
  BY <1>1, <1>2 DEF SlotInv, Delivered
<1>5. CASE Stale(i)
  <2>1. UnchangedCore
    BY <1>5 DEF ResponseAccepted
  <2>2. Delivered' /\ (dispatchId \in answered' <=> dispatchId \in answered)
    BY <1>1, <1>2, <1>4, <1>5, <2>1 DEF Stale, UnchangedCore, goalVars, SlotInv, Delivered
  <2>3. QED
    BY <1>2, <1>3, <2>1, <2>2, StaleReply
<1>6. CASE ~Stale(i)
  <2>1. i = dispatchId
    BY <1>6 DEF Stale
  <2>2. dispatchId > 0
    BY <2>1 DEF Id
  <2>3. goalState # "IDLE"
    BY <1>1, <1>2, <2>1, <2>2 DEF SlotInv, IdleAfterReply, Delivered, Driving, Finished
  <2>4. /\ goalHandle' = TRUE
        /\ UNCHANGED <<goalKind, goalSeq, dispatchId, replaceVars, returnVars,
                       settle, searchVars, suppressed, startKnown>>
        /\ watch' \in {"off", "armed", "fired"}
        /\ IssueCancel \/ (goalState' = "ACTIVE" /\ UNCHANGED cancelVars)
    BY <1>6 DEF ResponseAccepted
  <2>5. CancelTyped' /\ goalState' \in {"ACTIVE", "CANCELING"}
    <3>1. CASE IssueCancel
      BY <1>1, <3>1, IssueCancelTyped
    <3>2. CASE goalState' = "ACTIVE" /\ UNCHANGED cancelVars
      BY <1>1, <3>2 DEF TypeOK, CancelTyped, cancelVars
    <3>3. QED
      BY <2>4, <3>1, <3>2
  <2>6. GoalTyped' /\ ReplaceTyped' /\ LatchTyped' /\ RestTyped'
    BY <1>1, <1>2, <2>4, <2>5 DEF TypeOK, GoalTyped, GoalStates, ReplaceTyped, LatchTyped,
      RestTyped, SearchTyped, replaceVars, returnVars, searchVars
  <2>7. TypeOK'
    BY <1>3, <2>5, <2>6, NextTypeOK
  <2>8. Delivered'
    BY <1>1, <1>4, <2>4 DEF SlotInv, Delivered
  <2>9. dispatchId' \in answered' \ resulted' /\ nav'[dispatchId'] \in Driving \cup Finished
    BY <1>1, <1>2, <2>1, <2>4 DEF SlotInv, Delivered
  <2>10. Shape' /\ IdleAfterReply' /\ WaitsForLiveGoal'
    BY <1>1, <2>3, <2>4, <2>5, <2>9
    DEF SlotInv, Shape, IdleAfterReply, WaitsForLiveGoal
  <2>11. SettleOnlyBetweenGoals'
    BY <2>3, <2>4 DEF IInv, SettleOnlyBetweenGoals
  <2>12. QED
    BY <2>4, <2>7, <2>8, <2>10, <2>11, QuietStep DEF SlotInv
<1>7. QED
  BY <1>5, <1>6

LEMMA CancelRefusedStep ==
  ASSUME IInv, NEW i \in Id, CancelRefused(i)
  PROVE  GoodStep
<1>1. TypeOK /\ SlotInv
  BY DEF IInv
<1>2. /\ cancels[i] > 0 /\ cancels' = [cancels EXCEPT ![i] = @ - 1]
      /\ UNCHANGED <<goalHandle, goalKind, goalSeq, dispatchId, watch, pendingCancel,
                     replaceVars, returnVars, inputVars, replyVars,
                     settle, startKnown, enabled, searchVars, suppressed, nav>>
  BY DEF CancelRefused
<1>3. /\ cancelInProgress' \in BOOLEAN
      /\ goalState' = goalState \/ (goalState = "CANCELING" /\ goalState' = "ACTIVE")
  BY <1>1 DEF CancelRefused, TypeOK
<1>4. cancels' \in [Id -> 0..MaxCancels]
  BY <1>1, <1>2, BoundsAssumption DEF TypeOK
<1>5. Kept
  BY <1>1, <1>2, <1>3 DEF Kept, SlotInv, Shape
<1>6. GoalTyped'
  BY <1>1, <1>2, <1>5, KeptTyped DEF TypeOK
<1>7. CancelTyped' /\ ReplaceTyped' /\ LatchTyped' /\ RestTyped' /\ InputTyped'
  BY <1>1, <1>2, <1>3, <1>4 DEF TypeOK, CancelTyped, ReplaceTyped, LatchTyped, RestTyped,
    InputTyped, SearchTyped, replaceVars, returnVars, inputVars, replyVars, searchVars
<1>8. TypeOK'
  BY <1>6, <1>7, NextTypeOK
<1>9. SlotInv'
  BY <1>1, <1>2, <1>5, KeptKeepsSlot
<1>10. SettleOnlyBetweenGoals'
  BY <1>2, <1>3 DEF IInv, SettleOnlyBetweenGoals
<1>11. QED
  BY <1>2, <1>8, <1>9, <1>10, QuietStep

\* A result frees the slot, or at once asks for the next goal of an open session.
LEMMA CurrentResultOutcome ==
  ASSUME TypeOK, settle = "off", NEW status, CurrentResult(status)
  PROVE  /\ GoalTyped' /\ ReplaceTyped' /\ LatchTyped' /\ RestTyped'
         /\ \/ Freed /\ (settle' = "off" \/ enabled)
            \/ Asked /\ enabled
<1> DEFINE rl == LatchAfter(status, "return_to_start", returnStarted)
           sl == LatchAfter(status, "suppressed_return_to_start", suppressedReturn)
           done == returnCompleted \/ CompletesExploration(status)
           Closed(su) == /\ ClearGoal /\ suppressed' = su
                         /\ returnStarted' = rl /\ suppressedReturn' = sl
                         /\ returnCompleted' = done
                         /\ UNCHANGED <<replaceVars, dispatchId, nav, searchVars, startKnown>>
<1>1. rl \in BOOLEAN /\ sl \in BOOLEAN /\ done \in BOOLEAN
  BY DEF LatchAfter, CompletesExploration
<1>2. PICK su \in AfterResult(status) :
        \/ ~enabled /\ Closed(su) /\ settle' = "off"
        \/ /\ enabled /\ pendingSeq # <<>>
           /\ \/ Closed(su) /\ UNCHANGED settle
              \/ /\ DispatchPending(pendingSeq, su, rl, sl)
                 /\ returnCompleted' = done /\ UNCHANGED <<searchVars, startKnown>>
        \/ /\ enabled
           /\ \/ Closed(su) /\ settle' \in {"off", "waiting"}
              \/ TrySendNextGoal(su)
  BY DEF CurrentResult
<1>3. su \in SUBSET Frontier
  BY AfterFailureTyped DEF AfterResult, TypeOK
<1>4. CASE Closed(su) /\ settle' \in {"off", "waiting"} /\ (settle' = "off" \/ enabled)
  <2>1. Freed /\ ReplaceTyped' /\ LatchTyped' /\ RestTyped'
    BY <1>1, <1>3, <1>4 DEF Freed, TypeOK, ReplaceTyped, LatchTyped, RestTyped,
      SearchTyped, replaceVars, searchVars
  <2>2. GoalTyped'
    BY <1>4, <2>1, ClearedGoalTyped DEF TypeOK
  <2>3. QED
    BY <1>4, <2>1, <2>2
<1>5. CASE /\ enabled /\ DispatchPending(pendingSeq, su, rl, sl)
           /\ returnCompleted' = done /\ UNCHANGED <<searchVars, startKnown>>
  <2>1. pendingSeq \in Seq(Frontier)
    BY DEF TypeOK
  <2>2. Asked /\ LatchTyped' /\ ReplaceTyped'
    BY <1>1, <1>3, <1>5, <2>1, DispatchPendingAsks
  <2>3. GoalTyped' /\ settle' \in {"off", "waiting", "elapsed"}
    BY <2>2, AskedTyped
  <2>4. RestTyped'
    BY <1>1, <1>5, <2>3 DEF RestTyped, SearchTyped, TypeOK, searchVars
  <2>5. QED
    BY <1>5, <2>2, <2>3, <2>4
<1>6. CASE enabled /\ TrySendNextGoal(su)
  <2>1. Scheduled /\ RestTyped'
    BY <1>3, <1>6, TrySendNextGoalSchedules
  <2>2. GoalTyped'
    BY <2>1, ScheduledTyped
  <2>3. QED
    BY <1>6, <2>1, <2>2 DEF Scheduled
<1>7. QED
  BY <1>2, <1>4, <1>5, <1>6

LEMMA ResultStep ==
  ASSUME IInv, NEW i \in Id, Result(i)
  PROVE  GoodStep
<1>1. TypeOK /\ SlotInv
  BY DEF IInv
<1>2. /\ i \in answered \ resulted /\ nav[i] \in Finished
      /\ resulted' = resulted \cup {i}
      /\ UNCHANGED <<inputVars, answered, enabled, cancels>>
  BY DEF Result
<1>3. InputTyped'
  BY <1>1, <1>2 DEF InputTyped, TypeOK, inputVars
<1>4. CASE Stale(i)
  <2>1. UnchangedCore /\ UNCHANGED nav
    BY <1>4 DEF Result
  <2>2. Delivered' /\ (dispatchId \in resulted' <=> dispatchId \in resulted)
    BY <1>1, <1>2, <1>4, <2>1 DEF Stale, UnchangedCore, goalVars, SlotInv, Delivered
  <2>3. QED
    BY <1>2, <1>3, <2>1, <2>2, StaleReply
<1>5. CASE ~Stale(i)
  <2>1. i = dispatchId /\ dispatchId > 0
    BY <1>5 DEF Stale, Id
  <2>2. goalState # "IDLE"
    BY <1>1, <1>2, <2>1 DEF SlotInv, IdleAfterReply, Finished
  <2>3. settle = "off"
    BY <2>2 DEF IInv, SettleOnlyBetweenGoals
  <2>4. CurrentResult(nav[i]) /\ cancelInProgress' = FALSE /\ pendingCancel' = FALSE
    BY <1>5 DEF Result
  <2>5. /\ GoalTyped' /\ ReplaceTyped' /\ LatchTyped' /\ RestTyped'
        /\ \/ Freed /\ (settle' = "off" \/ enabled)
           \/ Asked /\ enabled
    BY <1>1, <2>3, <2>4, CurrentResultOutcome
  <2>6. CancelTyped'
    BY <1>1, <1>2, <2>4 DEF CancelTyped, TypeOK
  <2>7. TypeOK'
    BY <1>3, <2>5, <2>6, NextTypeOK
  <2>8. CASE Freed /\ (settle' = "off" \/ enabled)
    <3>1. Delivered'
      BY <1>1, <1>2, <2>8 DEF Freed, SlotInv, Delivered
    <3>2. SlotInv'
      BY <1>2, <2>1, <2>8, <3>1, FreedKeepsSlot
    <3>3. SettleOnlyBetweenGoals'
      BY <1>2, <2>8 DEF SettleOnlyBetweenGoals, Freed, ClearGoal
    <3>4. QED
      BY <2>7, <2>8, <3>2, <3>3, QuietStep DEF Freed
  <2>9. CASE Asked /\ enabled
    <3>1. SlotInv'
      BY <1>1, <1>2, <2>1, <2>9, AskedKeepsSlot
    <3>2. SettleOnlyBetweenGoals' /\ DispatchAllowed
      BY <1>2, <2>3, <2>9 DEF Asked, SettleOnlyBetweenGoals, DispatchAllowed
    <3>3. QED
      BY <2>7, <3>1, <3>2 DEF GoodStep, IInv
  <2>10. QED
    BY <2>5, <2>8, <2>9
<1>6. QED
  BY <1>4, <1>5

-----------------------------------------------------------------------------
(* Steps of the action server.                                              *)

\* The server moves a goal it was sent on, and never takes a verdict back.
ServerMoves ==
  /\ nav' \in [Id -> NavStates]
  /\ \A i \in Id :
       \/ nav'[i] = nav[i]
       \/ nav[i] = "sent" /\ nav'[i] \in {"running", "rejected"}
       \/ nav[i] \in Driving /\ nav'[i] \in {"canceling"} \cup Finished

LEMMA ServerStep ==
  ASSUME IInv, UnchangedClient, ServerMoves, cancels' \in [Id -> 0..MaxCancels]
  PROVE  GoodStep
<1> USE DEF UnchangedClient, goalVars, replaceVars, returnVars, inputVars, replyVars, searchVars
<1>1. TypeOK /\ SlotInv
  BY DEF IInv
<1>2. TypeOK'
  BY <1>1 DEF TypeOK, ServerMoves
<1>3. Delivered'
  BY <1>1 DEF TypeOK, SlotInv, Delivered, ServerMoves, Driving, Finished
<1>4. dispatchId > 0 => dispatchId \in Id
  BY <1>1, BoundsAssumption DEF TypeOK, Id
<1>5. Shape' /\ IdleAfterReply'
  BY <1>1, <1>4 DEF SlotInv, Shape, IdleAfterReply, ServerMoves, Driving
<1>6. WaitsForLiveGoal'
  <2>1. CASE goalState = "SENDING"
    BY <1>1, <1>4, <2>1 DEF SlotInv, WaitsForLiveGoal, ServerMoves, Finished
  <2>2. CASE goalState \in {"ACTIVE", "CANCELING"}
    <3>1. dispatchId \in Id
      BY <1>1, <2>2 DEF SlotInv, WaitsForLiveGoal, TypeOK
    <3>2. QED
      BY <1>1, <2>2, <3>1
      DEF SlotInv, WaitsForLiveGoal, ServerMoves, Driving, Finished
  <2>3. QED
    BY <2>1, <2>2 DEF WaitsForLiveGoal
<1>7. SettleOnlyBetweenGoals'
  BY DEF IInv, SettleOnlyBetweenGoals
<1>8. QED
  BY <1>2, <1>3, <1>5, <1>6, <1>7, QuietStep DEF SlotInv

LEMMA NavStep ==
  ASSUME IInv, NEW i \in Id, Nav(i)
  PROVE  GoodStep
<1> USE DEF Driving, Finished, NavStates
<1>1. nav \in [Id -> NavStates] /\ cancels \in [Id -> 0..MaxCancels]
  BY DEF IInv, TypeOK
<1>2. CASE NavAccepts(i)
  BY <1>1, <1>2, ServerStep DEF NavAccepts, NextToServe, ServerMoves
<1>3. CASE NavRejects(i)
  BY <1>1, <1>3, ServerStep DEF NavRejects, NextToServe, ServerMoves
<1>4. CASE NavTakesCancel(i)
  <2>1. cancels' \in [Id -> 0..MaxCancels]
    BY <1>1, <1>4, BoundsAssumption DEF NavTakesCancel
  <2>2. QED
    BY <1>1, <1>4, <2>1, ServerStep DEF NavTakesCancel, ServerMoves
<1>5. CASE NavFinishes(i)
  BY <1>1, <1>5, ServerStep DEF NavFinishes, ServerMoves
<1>6. CASE NavForeignCancel(i)
  BY <1>1, <1>6, ServerStep DEF NavForeignCancel, ServerMoves
<1>7. QED
  BY <1>2, <1>3, <1>4, <1>5, <1>6 DEF Nav

-----------------------------------------------------------------------------
(* The results.                                                             *)

LEMMA NextGoodStep ==
  ASSUME IInv, Next
  PROVE  GoodStep
<1>1. CASE Callbacks
  BY <1>1, MapMessageStep, MapTimerStep, WatchdogStep, CostmapMessageStep DEF Callbacks
<1>2. CASE Control
  BY <1>2, StartSessionStep, StopSessionStep DEF Control
<1>3. CASE Time
  BY <1>3, SettleElapsesStep, SuppressionExpiresStep DEF Time
<1>4. ASSUME NEW i \in Id, Replies(i)
      PROVE  GoodStep
  BY <1>4, ResponseRejectedStep, ResponseAcceptedStep, CancelRefusedStep, ResultStep
  DEF Replies
<1>5. ASSUME NEW i \in Id, Nav(i)
      PROVE  GoodStep
  BY <1>5, NavStep
<1>6. QED
  BY <1>1, <1>2, <1>3, <1>4, <1>5 DEF Next

LEMMA StutterGoodStep ==
  ASSUME IInv, UNCHANGED vars
  PROVE  GoodStep
<1> USE DEF vars, goalVars, cancelVars, replaceVars, returnVars, inputVars, replyVars,
            searchVars
<1>1. TypeOK'
  BY DEF IInv, TypeOK
<1>2. SlotInv'
  BY UnchangedSlot DEF IInv
<1>3. SettleOnlyBetweenGoals'
  BY DEF IInv, SettleOnlyBetweenGoals
<1>4. QED
  BY <1>1, <1>2, <1>3, QuietStep

\* IInv is inductive.
LEMMA Invariance == Spec => []IInv
<1>1. Init => IInv
  BY InitIInv
<1>2. IInv /\ [Next]_vars => IInv'
  BY NextGoodStep, StutterGoodStep DEF GoodStep
<1>3. QED
  BY <1>1, <1>2, PTL DEF Spec

\* Every variable keeps its type, under every configuration.
THEOREM TypeCorrect == Spec => []TypeOK
<1>1. IInv => TypeOK
  BY DEF IInv
<1>2. QED
  BY <1>1, Invariance, PTL

\* The core frees its goal slot only when the server is done with the goal:
\* no order of stale responses, results, refused cancels and restarted sessions
\* frees the slot of a live goal (goal_response_callback, get_result_callback).
THEOREM IdleOnlyWhenOver == Spec => []IdleMeansOver
<1>1. IInv => IdleMeansOver
  BY DEF IInv, SlotInv, Delivered, IdleAfterReply, IdleMeansOver
<1>2. QED
  BY <1>1, Invariance, PTL

\* The core never waits for a goal that cannot report any more, so no late
\* cancel reply resurrects a finished goal (cancel_response_callback).
THEOREM NeverWaitsInVain == Spec => []WaitsForLiveGoal
<1>1. IInv => WaitsForLiveGoal
  BY DEF IInv, SlotInv
<1>2. QED
  BY <1>1, Invariance, PTL

\* A settle window is open only between two goals of a running session.
THEOREM SettleIsBetweenGoals == Spec => []SettleOnlyBetweenGoals
<1>1. IInv => SettleOnlyBetweenGoals
  BY DEF IInv
<1>2. QED
  BY <1>1, Invariance, PTL

\* No handler, timer or late reply sends a goal once the session is stopped.
THEOREM StopHoldsDispatch == Spec => NoDispatchAfterStop
<1>1. IInv /\ [Next]_vars => [~enabled \/ ~enabled' => ~Dispatches]_vars
  BY NextGoodStep, StutterGoodStep DEF GoodStep, DispatchAllowed
<1>2. QED
  BY <1>1, Invariance, PTL DEF Spec, NoDispatchAfterStop

\* No goal of any kind is sent while the map settles after a goal.
THEOREM SettleWindowHolds == Spec => SettleHoldsDispatch
<1>1. IInv /\ [Next]_vars => [settle = "waiting" => ~Dispatches]_vars
  BY NextGoodStep, StutterGoodStep DEF GoodStep, DispatchAllowed
<1>2. QED
  BY <1>1, Invariance, PTL DEF Spec, SettleHoldsDispatch

=============================================================================
