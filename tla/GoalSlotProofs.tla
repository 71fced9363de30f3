--------------------------- MODULE GoalSlotProofs ---------------------------
(***************************************************************************)
(* Proofs about the goals that GoalLifecycle sends: none to a target that   *)
(* the latest cost maps block, none to the target that is being driven to   *)
(* already unless the order cache mistakes it for another, and all of them  *)
(* as GoalSlot allows.                                                      *)
(***************************************************************************)
EXTENDS GoalLifecycleProofs

\* A frontier goal is sent to a target that is not blocked.
Unblocked == Dispatches /\ goalKind' = "frontier" => ~BlockedTarget(Head(goalSeq'))

\* A frontier goal is sent to another target than the current goal's, or to one
\* the order cache cannot tell from it.
OtherTarget ==
  Dispatches /\ goalKind' = "frontier" =>
    Head(goalSeq') # Head(goalSeq) \/ HasTwin(Head(goalSeq))

\* The same, where a goal is being driven and its result is not in.
SoundTarget ==
  /\ Unblocked
  /\ goalKind = "frontier" /\ goalHandle /\ dispatchId \notin resulted' => OtherTarget

-----------------------------------------------------------------------------
(* Building blocks.                                                         *)

\* The target sent is the first of the order that is not blocked.
LEMMA FrontierTarget ==
  ASSUME NEW S, NEW order \in Seq(S), NEW su, NEW rl, NEW sl,
         DispatchFrontier(order, su, rl, sl), goalKind' = "frontier"
  PROVE  Head(goalSeq') \in S /\ ~BlockedTarget(Head(goalSeq'))
<1>1. PICK k \in 1..Len(order) :
        /\ ~BlockedTarget(order[k])
        /\ DispatchGoal("frontier", SubSeq(order, k, Len(order)), su, rl, sl)
  BY DEF DispatchFrontier
<1>2. goalSeq' = SubSeq(order, k, Len(order))
  BY <1>1 DEF DispatchGoal, Refused, ClearGoal
<1>3. Len(order) \in Nat /\ Len(order) \in k..Len(order)
  BY <1>1, LenProperties
<1>4. Head(goalSeq') = order[k]
  BY <1>2, <1>3, HeadTailOfSubSeq
<1> QED
  BY <1>1, <1>4, ElementOfSeq

LEMMA FrontierUnblocked ==
  ASSUME NEW order \in Seq(Frontier), NEW su, NEW rl, NEW sl, DispatchFrontier(order, su, rl, sl)
  PROVE  Unblocked
BY FrontierTarget DEF Unblocked

LEMMA GoalUnblocked ==
  ASSUME NEW kind, NEW seq, NEW su, NEW rl, NEW sl, DispatchGoal(kind, seq, su, rl, sl),
         kind # "frontier"
  PROVE  Unblocked
BY DEF DispatchGoal, Refused, ClearGoal, Unblocked

LEMMA StayUnblocked ==
  ASSUME NEW su, NEW latch, StayIdle(su, latch)
  PROVE  Unblocked
BY DEF StayIdle, Unblocked, Dispatches

\* The scheduler, whatever it sends.
LEMMA TrySendUnblocked ==
  ASSUME TypeOK, NEW su, TrySendNextGoal(su)
  PROVE  Unblocked
<1>1. ExplorationComplete(su) => Unblocked
  BY StayUnblocked, GoalUnblocked DEF ExplorationComplete
<1>2. AllFrontiersSuppressed(su) => Unblocked
  BY StayUnblocked, GoalUnblocked DEF AllFrontiersSuppressed
<1>3. ASSUME NEW open \in SUBSET Frontier, SendFrontier(open, su)
      PROVE  Unblocked
  <2>1. ASSUME NEW e \in Selections(open),
               DispatchFrontier(e.order, su, returnStarted, FALSE)
        PROVE  Unblocked
    BY <2>1, SelectionsList, FrontierUnblocked
  <2> QED
    BY <1>3, <2>1, StayUnblocked DEF SendFrontier
<1>4. SearchAndSend(su) => Unblocked
  BY <1>1, <1>2, <1>3, StayUnblocked DEF SearchAndSend
<1>5. SendPending(su) => Unblocked
  BY StayUnblocked, FrontierUnblocked DEF SendPending, DispatchPending, TypeOK
<1> QED
  BY <1>4, <1>5, StayUnblocked DEF TrySendNextGoal

-----------------------------------------------------------------------------
(* Steps of the core.                                                       *)

\* Nothing is sent.
LEMMA QuietTarget ==
  ASSUME UNCHANGED dispatchId
  PROVE  SoundTarget
BY DEF SoundTarget, Unblocked, OtherTarget, Dispatches

LEMMA ScheduleIfIdleTarget ==
  ASSUME IInv, ScheduleIfIdle
  PROVE  SoundTarget
<1>1. CASE goalState = "IDLE"
  <2>1. ~goalHandle
    BY <1>1 DEF IInv, SlotInv, Shape
  <2> QED
    BY <1>1, <2>1, TrySendUnblocked DEF ScheduleIfIdle, SoundTarget, IInv
<1>2. CASE goalState # "IDLE"
  BY <1>2, QuietTarget DEF ScheduleIfIdle, UnchangedScheduling, goalVars
<1> QED
  BY <1>1, <1>2

\* A replacement comes from the open frontiers, or stands in the cache for one
\* of them, or replaces a blocked target.
LEMMA ReselectTarget ==
  ASSUME TypeOK, NEW isBlocked \in BOOLEAN, isBlocked <=> BlockedTarget(Head(goalSeq)),
         isBlocked \/ GoalPreemptionEnabled, Reselect(isBlocked)
  PROVE  SoundTarget
<1>1. KeepGoal \/ RequestCancel => SoundTarget
  BY QuietTarget DEF KeepGoal, RequestCancel, goalVars
<1>2. ASSUME NEW found \in SUBSET Frontier, NEW e \in Selections(found \ suppressed),
             ~StillListed(isBlocked, found \ suppressed),
             DispatchPending(e.order, suppressed, returnStarted, suppressedReturn)
      PROVE  SoundTarget
  <2> DEFINE open == found \ suppressed
  <2>1. CASE goalKind' = "frontier"
    <3>1. e.order \in Seq(Near(open))
      BY SelectionsList
    <3>2. Head(goalSeq') \in Near(open) /\ ~BlockedTarget(Head(goalSeq'))
      BY <1>2, <2>1, <3>1, FrontierTarget DEF DispatchPending
    <3>3. Head(goalSeq') # Head(goalSeq) \/ HasTwin(Head(goalSeq))
      <4>1. CASE isBlocked
        BY <3>2, <4>1
      <4>2. CASE ~isBlocked
        <5>1. Head(goalSeq) \notin open
          BY <1>2, <4>2 DEF StillListed
        <5>2. PICK g \in open : Bucket[g] = Bucket[Head(goalSeq')]
          BY <3>2 DEF Near
        <5> QED
          BY <5>1, <5>2 DEF HasTwin
      <4> QED
        BY <4>1, <4>2
    <3> QED
      BY <3>2, <3>3 DEF SoundTarget, Unblocked, OtherTarget
  <2>2. CASE goalKind' # "frontier"
    BY <2>2 DEF SoundTarget, Unblocked, OtherTarget
  <2> QED
    BY <2>1, <2>2
<1>3. CASE \E found \in SUBSET Frontier :
             /\ ~StillListed(isBlocked, found \ suppressed)
             /\ \E e \in Selections(found \ suppressed) : RequestReselection(e.order)
  BY <1>1, <1>2, <1>3 DEF RequestReselection
<1>4. (KeepGoal \/ RequestCancel) \/
        \E found \in SUBSET Frontier :
          /\ ~StillListed(isBlocked, found \ suppressed)
          /\ \E e \in Selections(found \ suppressed) : RequestReselection(e.order)
  BY DEF Reselect
<1> QED
  BY <1>1, <1>3, <1>4

LEMMA ConsiderPreemptTarget ==
  ASSUME TypeOK, ConsiderPreempt
  PROVE  SoundTarget
<1> DEFINE isBlocked == BlockedTarget(Head(goalSeq))
<1>1. UnchangedScheduling \/ CancelFromMap \/ KeepGoal => SoundTarget
  BY QuietTarget DEF UnchangedScheduling, CancelFromMap, RequestCancel, KeepGoal, goalVars
<1>2. isBlocked \in BOOLEAN
  BY FlagAssumption DEF BlockedTarget
<1>3. CASE (isBlocked \/ GoalPreemptionEnabled) /\ Reselect(isBlocked)
  BY <1>2, <1>3, ReselectTarget
<1> QED
  BY <1>1, <1>3 DEF ConsiderPreempt

\* The temporary return is no frontier goal.
LEMMA SuppressedReturnTarget ==
  ASSUME TypeOK, ConsiderCancelSuppressedReturn, goalKind = "suppressed_return_to_start"
  PROVE  SoundTarget
<1>1. UnchangedScheduling \/ KeepGoal => SoundTarget
  BY QuietTarget DEF UnchangedScheduling, KeepGoal, goalVars
<1>2. ASSUME NEW found \in SUBSET Frontier, NEW e \in Selections(found \ suppressed),
             DispatchPending(e.order, suppressed, returnStarted, FALSE)
      PROVE  SoundTarget
  BY <1>2, SelectionsList, FrontierUnblocked DEF DispatchPending, SoundTarget
<1> QED
  BY <1>1, <1>2 DEF ConsiderCancelSuppressedReturn

LEMMA ActOnMapTarget ==
  ASSUME IInv, ActOnMap
  PROVE  SoundTarget
BY ConsiderPreemptTarget, SuppressedReturnTarget, ScheduleIfIdleTarget DEF ActOnMap, IInv

LEMMA CallbacksTarget ==
  ASSUME IInv, Callbacks
  PROVE  SoundTarget
<1>1. CASE MapMessage
  BY <1>1, ActOnMapTarget, QuietTarget DEF MapMessage, goalVars
<1>2. CASE MapTimer
  BY <1>2, ActOnMapTarget DEF MapTimer
<1>3. ASSUME NEW global \in BOOLEAN, CostmapMessage(global)
      PROVE  SoundTarget
  <2>1. UnchangedScheduling \/ CancelFromMap => SoundTarget
    BY QuietTarget DEF UnchangedScheduling, CancelFromMap, RequestCancel, goalVars
  <2> QED
    BY <1>3, <2>1, SuppressedReturnTarget, ScheduleIfIdleTarget DEF CostmapMessage, IInv
<1>4. CASE Watchdog
  BY <1>4, QuietTarget DEF Watchdog
<1> QED
  BY <1>1, <1>2, <1>3, <1>4 DEF Callbacks

\* What a result sends is sent with the result in.
LEMMA RepliesTarget ==
  ASSUME IInv, NEW i \in Id, Replies(i)
  PROVE  SoundTarget
<1>1. CASE Result(i) /\ i = dispatchId
  <2>1. dispatchId \in resulted' /\ CurrentResult(nav[i])
    BY <1>1 DEF Result, Stale
  <2>2. ClearGoal => Unblocked
    BY DEF ClearGoal, Unblocked
  <2>3. Unblocked
    BY <2>1, <2>2, FrontierUnblocked, TrySendUnblocked
    DEF CurrentResult, DispatchPending, IInv, TypeOK
  <2> QED
    BY <2>1, <2>3 DEF SoundTarget
<1>2. CASE Result(i) /\ i # dispatchId
  BY <1>2, QuietTarget DEF Result, Stale, UnchangedCore, goalVars
<1>3. CASE ResponseRejected(i) \/ ResponseAccepted(i) \/ CancelRefused(i)
  BY <1>3, QuietTarget
  DEF ResponseRejected, ResponseAccepted, CancelRefused, UnchangedCore, goalVars
<1> QED
  BY <1>1, <1>2, <1>3 DEF Replies

LEMMA NextTarget ==
  ASSUME IInv, [Next]_vars
  PROVE  SoundTarget
<1>1. CASE Control \/ Time \/ UNCHANGED vars
  BY <1>1, QuietTarget
  DEF Control, StartSession, StopSession, ResetRuntimeState, Time, SettleElapses,
      SuppressionExpires, vars, goalVars
<1>2. ASSUME NEW i \in Id, Nav(i)
      PROVE  SoundTarget
  BY <1>2, QuietTarget
  DEF Nav, NavAccepts, NavRejects, NavTakesCancel, NavForeignCancel, NavFinishes,
      UnchangedClient, goalVars
<1> QED
  BY <1>1, <1>2, CallbacksTarget, RepliesTarget DEF Next

-----------------------------------------------------------------------------
(* The results.                                                             *)

\* A frontier goal whose target the latest cost maps block is never sent, be it
\* fresh, a replacement, or queued since before (send_frontier_goal).
THEOREM BlockedIsNeverSent == Spec => NeverDispatchesBlocked
<1>1. IInv /\ [Next]_vars =>
        [Dispatches /\ goalKind' = "frontier" => ~BlockedTarget(Head(goalSeq'))]_vars
  BY NextTarget DEF SoundTarget, Unblocked
<1> QED
  BY <1>1, Invariance, PTL DEF Spec, NeverDispatchesBlocked

\* A goal being driven is replaced only by a goal for another target: by one of
\* the open frontiers it is not among, or because it is blocked itself; with one
\* exception, a frontier that the order cache can take for an open one since
\* another frontier shares its bucket (consider_preempt_active_goal,
\* request_frontier_reselection, build_mrtsp_frontier_sequence).
THEOREM ReplacedByAnother == Spec => ReplacementChangesTarget
<1>1. IInv /\ [Next]_vars =>
        [Dispatches /\ goalKind = "frontier" /\ goalHandle /\ dispatchId \notin resulted'
           /\ goalKind' = "frontier" =>
         Head(goalSeq') # Head(goalSeq) \/ HasTwin(Head(goalSeq))]_vars
  BY NextTarget DEF SoundTarget, OtherTarget
<1> QED
  BY <1>1, Invariance, PTL DEF Spec, ReplacementChangesTarget

-----------------------------------------------------------------------------
(* GoalLifecycle implements GoalSlot, for an explorer that waits in place    *)
(* when every frontier is suppressed, as the node does unless it is told to  *)
(* return.  With the temporary return a goal that is being canceled may be   *)
(* replaced: consider_cancel_suppressed_return_to_start looks at no cancel.  *)

\* A goal in CANCELING has its cancel in flight, and is no temporary return.
FlagInv ==
  /\ goalState = "CANCELING" => cancelInProgress
  /\ goalKind # "suppressed_return_to_start"

-----------------------------------------------------------------------------
(* FlagInv is inductive.                                                    *)

LEMMA GoalFlags ==
  ASSUME NEW kind, NEW seq, NEW su, NEW rl, NEW sl, DispatchGoal(kind, seq, su, rl, sl),
         kind # "suppressed_return_to_start"
  PROVE  FlagInv'
BY DEF DispatchGoal, Refused, ClearGoal, FlagInv

LEMMA FrontierFlags ==
  ASSUME NEW order, NEW su, NEW rl, NEW sl, DispatchFrontier(order, su, rl, sl)
  PROVE  FlagInv'
BY GoalFlags DEF DispatchFrontier

LEMMA StayFlags ==
  ASSUME NEW su, NEW latch, StayIdle(su, latch)
  PROVE  FlagInv'
BY DEF StayIdle, ClearGoal, FlagInv

\* A waiting explorer never sends the temporary return.
LEMMA TrySendFlags ==
  ASSUME ~ReturnWhenSuppressed, NEW su, TrySendNextGoal(su)
  PROVE  FlagInv'
<1>1. ExplorationComplete(su) => FlagInv'
  BY StayFlags, GoalFlags DEF ExplorationComplete
<1>2. AllFrontiersSuppressed(su) => FlagInv'
  BY StayFlags DEF AllFrontiersSuppressed
<1>3. ASSUME NEW open, SendFrontier(open, su)
      PROVE  FlagInv'
  BY <1>3, StayFlags, FrontierFlags DEF SendFrontier
<1>4. SearchAndSend(su) => FlagInv'
  BY <1>1, <1>2, <1>3, StayFlags DEF SearchAndSend
<1>5. SendPending(su) => FlagInv'
  BY StayFlags, FrontierFlags DEF SendPending, DispatchPending
<1> QED
  BY <1>4, <1>5, StayFlags DEF TrySendNextGoal

LEMMA SameFlags ==
  ASSUME FlagInv, UNCHANGED <<goalState, goalKind, cancelInProgress>>
  PROVE  FlagInv'
BY DEF FlagInv

LEMMA UnchangedSchedulingFlags ==
  ASSUME FlagInv, UnchangedScheduling
  PROVE  FlagInv'
BY SameFlags DEF UnchangedScheduling, goalVars, cancelVars

LEMMA KeepFlags ==
  ASSUME FlagInv, KeepGoal
  PROVE  FlagInv'
BY SameFlags DEF KeepGoal, goalVars, cancelVars

LEMMA IssueFlags ==
  ASSUME FlagInv, IssueCancel, UNCHANGED goalKind
  PROVE  FlagInv'
BY DEF FlagInv, IssueCancel

LEMMA RequestFlags ==
  ASSUME FlagInv, RequestCancel
  PROVE  FlagInv'
BY SameFlags, IssueFlags DEF RequestCancel

LEMMA ReselectFlags ==
  ASSUME FlagInv, NEW isBlocked, Reselect(isBlocked)
  PROVE  FlagInv'
<1>1. ASSUME NEW seq, RequestReselection(seq)
      PROVE  FlagInv'
  BY <1>1, KeepFlags, FrontierFlags DEF RequestReselection, DispatchPending
<1> QED
  BY <1>1, KeepFlags, RequestFlags DEF Reselect

LEMMA ConsiderPreemptFlags ==
  ASSUME FlagInv, ConsiderPreempt
  PROVE  FlagInv'
<1>1. CancelFromMap => FlagInv'
  BY RequestFlags DEF CancelFromMap
<1> QED
  BY <1>1, UnchangedSchedulingFlags, KeepFlags, ReselectFlags DEF ConsiderPreempt

LEMMA ScheduleIfIdleFlags ==
  ASSUME ~ReturnWhenSuppressed, FlagInv, ScheduleIfIdle
  PROVE  FlagInv'
BY TrySendFlags, UnchangedSchedulingFlags DEF ScheduleIfIdle

LEMMA ActOnMapFlags ==
  ASSUME ~ReturnWhenSuppressed, FlagInv, ActOnMap
  PROVE  FlagInv'
BY ConsiderPreemptFlags, ScheduleIfIdleFlags DEF ActOnMap, FlagInv

LEMMA CallbacksFlags ==
  ASSUME ~ReturnWhenSuppressed, FlagInv, Callbacks
  PROVE  FlagInv'
<1>1. CASE MapMessage
  BY <1>1, ActOnMapFlags, SameFlags DEF MapMessage, goalVars, cancelVars
<1>2. CASE MapTimer
  BY <1>2, ActOnMapFlags DEF MapTimer
<1>3. ASSUME NEW global \in BOOLEAN, CostmapMessage(global)
      PROVE  FlagInv'
  <2>1. CancelFromMap => FlagInv'
    BY RequestFlags DEF CancelFromMap
  <2>2. CASE goalKind = "frontier"
    BY <1>3, <2>1, <2>2, UnchangedSchedulingFlags DEF CostmapMessage
  <2>3. CASE goalKind \notin {"frontier", "suppressed_return_to_start"}
    BY <1>3, <2>3, ScheduleIfIdleFlags, UnchangedSchedulingFlags DEF CostmapMessage
  <2> QED
    BY <2>2, <2>3 DEF FlagInv
<1>4. CASE Watchdog
  BY <1>4, SameFlags, RequestFlags DEF Watchdog, cancelVars
<1> QED
  BY <1>1, <1>2, <1>3, <1>4 DEF Callbacks

LEMMA ControlFlags ==
  ASSUME IInv, FlagInv, Control
  PROVE  FlagInv'
<1>1. UNCHANGED goalKind
  BY DEF Control, StartSession, StopSession, ResetRuntimeState
<1>2. ~goalHandle => goalState # "CANCELING"
  BY DEF IInv, SlotInv, Shape
<1> QED
  BY <1>1, <1>2, IssueFlags DEF Control, StartSession, StopSession, FlagInv

LEMMA RepliesFlags ==
  ASSUME ~ReturnWhenSuppressed, FlagInv, NEW i \in Id, Replies(i)
  PROVE  FlagInv'
<1>1. UnchangedCore => FlagInv'
  BY SameFlags DEF UnchangedCore, goalVars, cancelVars
<1>2. CASE ResponseRejected(i)
  BY <1>1, <1>2 DEF ResponseRejected, Refused, ClearGoal, FlagInv
<1>3. CASE ResponseAccepted(i)
  <2>1. IssueCancel /\ UNCHANGED goalKind => FlagInv'
    BY IssueFlags
  <2>2. goalState' = "ACTIVE" /\ UNCHANGED goalKind => FlagInv'
    BY DEF FlagInv
  <2> QED
    BY <1>1, <1>3, <2>1, <2>2 DEF ResponseAccepted
<1>4. CASE CancelRefused(i)
  BY <1>4 DEF CancelRefused, FlagInv
<1>5. CASE Result(i)
  <2>1. ASSUME CurrentResult(nav[i])
        PROVE  FlagInv'
    <3>1. ClearGoal => FlagInv'
      BY DEF ClearGoal, FlagInv
    <3> QED
      BY <2>1, <3>1, FrontierFlags, TrySendFlags DEF CurrentResult, DispatchPending
  <2>2. CASE Stale(i) /\ UNCHANGED <<goalState, goalKind>>
    BY <1>1, <1>5, <2>2 DEF Result
  <2> QED
    BY <1>1, <1>5, <2>1 DEF Result
<1> QED
  BY <1>2, <1>3, <1>4, <1>5 DEF Replies

LEMMA NextFlags ==
  ASSUME ~ReturnWhenSuppressed, IInv, FlagInv, [Next]_vars
  PROVE  FlagInv'
<1>1. CASE Callbacks \/ Control
  BY <1>1, CallbacksFlags, ControlFlags
<1>2. CASE Time \/ UNCHANGED vars
  BY <1>2, SameFlags
  DEF Time, SettleElapses, SuppressionExpires, vars, goalVars, cancelVars
<1>3. ASSUME NEW i \in Id, Nav(i)
      PROVE  FlagInv'
  BY <1>3, SameFlags
  DEF Nav, NavAccepts, NavRejects, NavTakesCancel, NavForeignCancel, NavFinishes,
      UnchangedClient, goalVars
<1> QED
  BY <1>1, <1>2, <1>3, RepliesFlags DEF Next

-----------------------------------------------------------------------------
(* The outcomes of GoalLifecycleProofs, as steps of the slot.               *)

SlotStep == [Slot!Next]_<<enabled, SlotOf, GoalIsOver>>

\* What the slot shows of the goal's state.
LEMMA SlotValues ==
  /\ goalState = "IDLE" => SlotOf = "free"
  /\ goalState = "SENDING" => SlotOf = "asked"
  /\ goalState = "ACTIVE" => SlotOf = "held"
  /\ goalState = "CANCELING" => SlotOf = "releasing"
BY DEF SlotOf

LEMMA NextSlotValues ==
  /\ goalState' = "IDLE" => SlotOf' = "free"
  /\ goalState' = "SENDING" => SlotOf' = "asked"
  /\ goalState' = "ACTIVE" => SlotOf' = "held"
  /\ goalState' = "CANCELING" => SlotOf' = "releasing"
BY DEF SlotOf

LEMMA GoalStateTyped ==
  ASSUME IInv
  PROVE  /\ goalState \in {"IDLE", "SENDING", "ACTIVE", "CANCELING"}
         /\ dispatchId \in Nat /\ dispatchId <= MaxDispatch
         /\ nav \in [Id -> NavStates]
BY BoundsAssumption DEF IInv, TypeOK, GoalStates

LEMMA SlotUnchanged ==
  ASSUME UNCHANGED goalState
  PROVE  UNCHANGED SlotOf
BY DEF SlotOf

LEMMA OverUnchanged ==
  ASSUME UNCHANGED <<dispatchId, nav>>
  PROVE  UNCHANGED GoalIsOver
BY DEF GoalIsOver

LEMMA SlotStutters ==
  ASSUME UNCHANGED <<enabled, goalState, dispatchId, nav>>
  PROVE  SlotStep
BY SlotUnchanged, OverUnchanged DEF SlotStep

\* A goal sent out is not over; one lost on the way counts as over.
LEMMA AskedOver ==
  ASSUME IInv, Asked
  PROVE  \/ goalState' = "SENDING" /\ GoalIsOver' = FALSE
         \/ goalState' = "IDLE" /\ GoalIsOver' = TRUE
<1>1. dispatchId + 1 \in Id /\ dispatchId' = dispatchId + 1
  BY GoalStateTyped, BoundsAssumption DEF Asked, Id
<1>2. CASE nav' = [nav EXCEPT ![dispatchId + 1] = "sent"] /\ goalState' = "SENDING"
  <2>1. nav'[dispatchId'] = "sent" /\ dispatchId' # 0
    BY <1>1, <1>2, GoalStateTyped
  <2> QED
    BY <1>2, <2>1 DEF GoalIsOver, Finished
<1>3. CASE nav' = nav /\ ClearGoal
  <2>1. nav'[dispatchId'] = "unsent"
    BY <1>1, <1>3, GoalStateTyped DEF IInv, SlotInv, Delivered
  <2> QED
    BY <1>3, <2>1 DEF GoalIsOver, ClearGoal
<1> QED
  BY <1>2, <1>3 DEF Asked

\* A goal asked for in a free slot, or in place of one not being released.
LEMMA AskedImplements ==
  ASSUME IInv, Asked, enabled, UNCHANGED enabled, goalState # "CANCELING"
  PROVE  SlotStep
<1>1. SlotOf # "releasing" /\ enabled' = enabled
  BY GoalStateTyped, SlotValues
<1>2. Slot!Ask
  BY <1>1, AskedOver, NextSlotValues DEF Slot!Ask
<1> QED
  BY <1>2 DEF SlotStep, Slot!Next, Slot!Move

LEMMA KeptImplements ==
  ASSUME IInv, Kept, UNCHANGED enabled
  PROVE  SlotStep
<1>1. UNCHANGED GoalIsOver
  BY OverUnchanged DEF Kept
<1>2. CASE UNCHANGED goalState
  BY <1>2, SlotStutters DEF Kept
<1>3. CASE goalHandle /\ goalState' \in {"ACTIVE", "CANCELING"} /\ goalState' # goalState
  <2>1. \/ goalState = "ACTIVE" /\ goalState' = "CANCELING"
        \/ goalState = "CANCELING" /\ goalState' = "ACTIVE"
    BY <1>3 DEF IInv, SlotInv, Shape
  <2>2. Slot!Release \/ Slot!ReleaseFails
    BY <1>1, <2>1, SlotValues, NextSlotValues DEF Slot!Release, Slot!ReleaseFails
  <2> QED
    BY <2>2 DEF SlotStep, Slot!Next, Slot!Move
<1> QED
  BY <1>2, <1>3 DEF Kept

LEMMA FreedIdleImplements ==
  ASSUME Freed, goalState = "IDLE", UNCHANGED enabled
  PROVE  SlotStep
BY SlotStutters DEF Freed, ClearGoal

-----------------------------------------------------------------------------
(* Steps of the core.                                                       *)

\* In a session, with the slot free.
LEMMA ScheduleIfIdleImplements ==
  ASSUME IInv, ScheduleIfIdle, enabled, UNCHANGED enabled
  PROVE  SlotStep
<1>1. CASE goalState = "IDLE"
  <2>1. Freed \/ Asked
    BY <1>1, TrySendNextGoalSchedules DEF ScheduleIfIdle, Scheduled, IInv, TypeOK
  <2> QED
    BY <1>1, <2>1, FreedIdleImplements, AskedImplements
<1>2. CASE goalState # "IDLE"
  BY <1>2, SlotStutters DEF ScheduleIfIdle, UnchangedScheduling, goalVars
<1> QED
  BY <1>1, <1>2

\* A frontier goal is replaced only while it has a handle and no cancel in flight.
LEMMA ConsiderPreemptImplements ==
  ASSUME IInv, FlagInv, ConsiderPreempt, enabled, UNCHANGED enabled
  PROVE  SlotStep
<1>1. Kept \/ Asked
  BY ConsiderPreemptPreempts DEF Preempted, IInv
<1>2. CASE UnchangedScheduling
  BY <1>2, SlotStutters DEF UnchangedScheduling, goalVars
<1>3. CASE MayPreempt
  BY <1>1, <1>3, KeptImplements, AskedImplements DEF MayPreempt, FlagInv
<1> QED
  BY <1>2, <1>3 DEF ConsiderPreempt

LEMMA ActOnMapImplements ==
  ASSUME IInv, FlagInv, ActOnMap, enabled, UNCHANGED enabled
  PROVE  SlotStep
BY ConsiderPreemptImplements, ScheduleIfIdleImplements DEF ActOnMap, FlagInv

LEMMA CallbacksImplement ==
  ASSUME IInv, FlagInv, Callbacks
  PROVE  SlotStep
<1>1. CASE MapMessage
  BY <1>1, ActOnMapImplements, SlotStutters DEF MapMessage, Running, goalVars
<1>2. CASE MapTimer
  BY <1>2, ActOnMapImplements DEF MapTimer, Running
<1>3. ASSUME NEW global \in BOOLEAN, CostmapMessage(global)
      PROVE  SlotStep
  <2>1. enabled /\ UNCHANGED enabled
    BY <1>3 DEF CostmapMessage, Running
  <2>2. UnchangedScheduling => SlotStep
    BY <2>1, SlotStutters DEF UnchangedScheduling, goalVars
  <2>3. CASE goalKind = "frontier"
    <3>1. CASE CancelFromMap /\ UNCHANGED startKnown
      BY <2>1, <3>1, CancelFromMapKeeps, KeptImplements, RequestCancelKeeps
      DEF CancelFromMap, IInv
    <3> QED
      BY <1>3, <2>2, <2>3, <3>1 DEF CostmapMessage
  <2>4. CASE goalKind \notin {"frontier", "suppressed_return_to_start"}
    BY <1>3, <2>1, <2>2, <2>4, ScheduleIfIdleImplements DEF CostmapMessage
  <2> QED
    BY <2>3, <2>4 DEF FlagInv
<1>4. CASE Watchdog
  <2>1. UNCHANGED <<enabled, dispatchId, nav>>
    BY <1>4 DEF Watchdog
  <2>2. CASE RequestCancel
    BY <2>1, <2>2, RequestCancelKeeps, KeptImplements DEF IInv
  <2>3. CASE UNCHANGED goalState
    BY <2>1, <2>3, SlotStutters
  <2> QED
    BY <1>4, <2>2, <2>3 DEF Watchdog
<1> QED
  BY <1>1, <1>2, <1>3, <1>4 DEF Callbacks

LEMMA ControlImplements ==
  ASSUME IInv, Control
  PROVE  SlotStep
<1>1. UNCHANGED GoalIsOver
  BY OverUnchanged DEF Control, StartSession, StopSession, ResetRuntimeState
<1>2. CASE StartSession
  <2>1. Slot!Open
    BY <1>1, <1>2, SlotValues, SlotUnchanged DEF StartSession, Slot!Open
  <2> QED
    BY <2>1 DEF SlotStep, Slot!Next
<1>3. CASE StopSession
  <2>1. \/ UNCHANGED goalState /\ goalState \in {"IDLE", "SENDING"}
        \/ /\ goalState \in {"ACTIVE", "CANCELING"}
           /\ goalState' \in {"ACTIVE", "CANCELING"}
    BY <1>3, GoalStateTyped DEF StopSession, IssueCancel, IInv, SlotInv, Shape
  <2>2. Slot!Shut
    BY <1>1, <1>3, <2>1, SlotValues, NextSlotValues, SlotUnchanged DEF StopSession, Slot!Shut
  <2> QED
    BY <2>2 DEF SlotStep, Slot!Next
<1> QED
  BY <1>2, <1>3 DEF Control

-----------------------------------------------------------------------------
(* Replies and the server.                                                  *)

\* The goal whose response arrives is the one being asked for.
LEMMA ResponseFindsAsked ==
  ASSUME IInv, dispatchId \notin answered
  PROVE  goalState \in {"IDLE", "SENDING"}
BY GoalStateTyped DEF IInv, SlotInv, WaitsForLiveGoal

\* The result of a goal, with its handle: the slot is freed, or taken again.
LEMMA ResultImplements ==
  ASSUME IInv, Result(dispatchId), dispatchId \in Id
  PROVE  SlotStep
<1>1. /\ nav[dispatchId] \in Finished /\ dispatchId \in answered \ resulted
      /\ CurrentResult(nav[dispatchId]) /\ UNCHANGED enabled
  BY DEF Result, Stale
<1>2. goalState \in {"ACTIVE", "CANCELING"}
  BY <1>1, GoalStateTyped
  DEF IInv, SlotInv, IdleAfterReply, WaitsForLiveGoal, Finished, Id
<1>3. settle = "off"
  BY <1>2 DEF IInv, SettleOnlyBetweenGoals
<1>4. Freed \/ (Asked /\ enabled)
  BY <1>1, <1>3, CurrentResultOutcome DEF IInv
<1>5. GoalIsOver = TRUE /\ SlotOf \in {"held", "releasing"}
  BY <1>1, <1>2, SlotValues DEF GoalIsOver
<1>6. CASE Freed
  <2>1. UNCHANGED GoalIsOver /\ SlotOf' = "free"
    BY <1>6, OverUnchanged, NextSlotValues DEF Freed, ClearGoal
  <2> QED
    BY <1>1, <1>5, <2>1 DEF SlotStep, Slot!Next, Slot!Move, Slot!Close
<1>7. CASE Asked /\ enabled
  <2>1. Slot!Close
    BY <1>1, <1>5, <1>7, AskedOver, NextSlotValues DEF Slot!Close
  <2> QED
    BY <2>1 DEF SlotStep, Slot!Next, Slot!Move
<1> QED
  BY <1>4, <1>6, <1>7

LEMMA RepliesImplement ==
  ASSUME IInv, NEW i \in Id, Replies(i)
  PROVE  SlotStep
<1>1. UNCHANGED enabled
  BY DEF Replies, ResponseRejected, ResponseAccepted, CancelRefused, Result
<1>2. UnchangedCore /\ UNCHANGED nav => SlotStep
  BY <1>1, SlotStutters DEF UnchangedCore, goalVars
<1>3. CASE ResponseRejected(i) /\ i = dispatchId
  <2>1. /\ dispatchId \notin answered /\ nav[dispatchId] = "rejected"
        /\ goalState' = "IDLE" /\ UNCHANGED <<dispatchId, nav>>
    BY <1>3 DEF ResponseRejected, Stale, Refused, ClearGoal
  <2>2. CASE goalState = "IDLE"
    BY <1>1, <2>1, <2>2, SlotStutters
  <2>3. CASE goalState = "SENDING"
    <3>1. GoalIsOver /\ UNCHANGED GoalIsOver
      BY <2>1, OverUnchanged DEF GoalIsOver
    <3>2. Slot!Refuse
      BY <1>1, <2>1, <2>3, <3>1, SlotValues, NextSlotValues DEF Slot!Refuse
    <3> QED
      BY <3>2 DEF SlotStep, Slot!Next, Slot!Move
  <2> QED
    BY <2>1, <2>2, <2>3, ResponseFindsAsked
<1>4. CASE ResponseAccepted(i) /\ i = dispatchId
  <2>1. /\ dispatchId \notin answered /\ nav[dispatchId] \in Driving \cup Finished
        /\ goalState' \in {"ACTIVE", "CANCELING"} /\ UNCHANGED <<dispatchId, nav>>
    BY <1>4 DEF ResponseAccepted, Stale, IssueCancel
  <2>2. goalState = "SENDING"
    BY <2>1, <1>4, ResponseFindsAsked, GoalStateTyped
    DEF IInv, SlotInv, IdleAfterReply, Delivered, Driving, Finished, Id
  <2>3. Slot!Grant
    BY <1>1, <2>1, <2>2, SlotValues, NextSlotValues, OverUnchanged DEF Slot!Grant
  <2> QED
    BY <2>3 DEF SlotStep, Slot!Next, Slot!Move
<1>5. CASE CancelRefused(i)
  <2>1. /\ UNCHANGED <<dispatchId, nav>>
        /\ UNCHANGED goalState \/ (goalState = "CANCELING" /\ goalState' = "ACTIVE")
    BY <1>5 DEF CancelRefused
  <2>2. CASE goalState = "CANCELING" /\ goalState' = "ACTIVE"
    <3>1. Slot!ReleaseFails
      BY <1>1, <2>1, <2>2, SlotValues, NextSlotValues, OverUnchanged DEF Slot!ReleaseFails
    <3> QED
      BY <3>1 DEF SlotStep, Slot!Next, Slot!Move
  <2> QED
    BY <1>1, <2>1, <2>2, SlotStutters
<1>6. CASE Replies(i) /\ i # dispatchId
  BY <1>2, <1>5, <1>6 DEF Replies, ResponseRejected, ResponseAccepted, Result, Stale
<1> QED
  BY <1>3, <1>4, <1>5, <1>6, ResultImplements DEF Replies

\* The server may finish the goal at hand, and never reopens one.
LEMMA ServerImplements ==
  ASSUME IInv, NEW i \in Id, Nav(i)
  PROVE  SlotStep
<1>1. UNCHANGED <<enabled, goalState, dispatchId>>
  BY DEF Nav, NavAccepts, NavRejects, NavTakesCancel, NavForeignCancel, NavFinishes,
         UnchangedClient, goalVars
<1>2. dispatchId # 0 => dispatchId \in Id
  BY GoalStateTyped DEF Id
<1>3. ASSUME GoalIsOver
      PROVE  UNCHANGED GoalIsOver
  <2>1. CASE dispatchId = 0
    BY <1>1, <2>1 DEF GoalIsOver
  <2>2. CASE dispatchId # 0
    <3>1. nav[dispatchId] \in Finished \cup {"rejected", "unsent"} /\ dispatchId \in Id
      BY <1>2, <1>3, <2>2 DEF GoalIsOver
    <3>2. nav'[dispatchId] = nav[dispatchId]
      BY <3>1, GoalStateTyped
      DEF Nav, NavAccepts, NextToServe, NavRejects, NavTakesCancel, NavForeignCancel,
          NavFinishes, Driving, Finished
    <3> QED
      BY <1>1, <3>1, <3>2 DEF GoalIsOver
  <2> QED
    BY <2>1, <2>2
<1>4. CASE GoalIsOver' = GoalIsOver
  BY <1>1, <1>4, SlotUnchanged DEF SlotStep
<1>5. CASE ~GoalIsOver /\ GoalIsOver' = TRUE
  <2>1. SlotOf # "free"
    <3>1. goalState # "IDLE"
      BY <1>5, GoalStateTyped DEF IInv, SlotInv, IdleAfterReply, Delivered, GoalIsOver
    <3> QED
      BY <3>1, GoalStateTyped, SlotValues
  <2>2. Slot!ServerDone
    BY <1>1, <1>5, <2>1, SlotUnchanged DEF Slot!ServerDone
  <2> QED
    BY <2>2 DEF SlotStep, Slot!Next, Slot!Move
<1>6. GoalIsOver \in BOOLEAN /\ GoalIsOver' \in BOOLEAN
  BY DEF GoalIsOver
<1> QED
  BY <1>3, <1>4, <1>5, <1>6

-----------------------------------------------------------------------------
(* The result.                                                              *)

LEMMA InitImplements == Init => Slot!Init /\ FlagInv
BY SlotValues DEF Init, Slot!Init, GoalIsOver, FlagInv

LEMMA NextImplements ==
  ASSUME IInv, FlagInv, [Next]_vars
  PROVE  SlotStep
<1>1. CASE Callbacks \/ Control
  BY <1>1, CallbacksImplement, ControlImplements
<1>2. CASE Time \/ UNCHANGED vars
  BY <1>2, SlotStutters DEF Time, SettleElapses, SuppressionExpires, vars, goalVars
<1>3. ASSUME NEW i \in Id, Replies(i) \/ Nav(i)
      PROVE  SlotStep
  BY <1>3, RepliesImplement, ServerImplements
<1> QED
  BY <1>1, <1>2, <1>3 DEF Next

\* Every handler moves the goal slot as the protocol of GoalSlot allows, whatever
\* the replies and their order, for an explorer that waits when all is suppressed.
THEOREM LifecycleImplementsSlot ==
  ASSUME ~ReturnWhenSuppressed
  PROVE  Spec => ImplementsGoalSlot
<1>1. IInv /\ FlagInv /\ [Next]_vars => FlagInv'
  BY NextFlags
<1>2. IInv /\ FlagInv /\ [Next]_vars => [Slot!Next]_(Slot!slotVars)
  BY NextImplements DEF SlotStep, Slot!slotVars
<1>3. Init => Slot!Init /\ FlagInv
  BY InitImplements
<1> QED
  BY <1>1, <1>2, <1>3, Invariance, PTL DEF Spec, ImplementsGoalSlot, Slot!Spec

=============================================================================
