------------------------ MODULE GoalCompletionProofs ------------------------
(***************************************************************************)
(* Proofs about GoalLifecycle: when exploration is complete, what may be    *)
(* queued, which goal drives the robot, and what the cancel flag and the    *)
(* return latch say.  The building blocks leave little behind for these: a  *)
(* goal of some kind, or none; the queue as it was, or empty.               *)
(***************************************************************************)
EXTENDS GoalLifecycleProofs

\* What is inductive of QueueExcludesFinalReturn: a complete exploration has no
\* goal either, so that no handler of a frontier goal can queue a replacement.
QueueInv ==
  /\ QueueExcludesFinalReturn
  /\ returnCompleted => goalKind = "none"

\* How exploration becomes complete, as CompletionIsFinal has it.
CompletionStep ==
  ~returnCompleted /\ returnCompleted' =>
    /\ goalState' = "IDLE" /\ pendingSeq = <<>>
    /\ goalKind \in {"none", "frontier", "return_to_start"}
    /\ goalKind = "return_to_start" => nav[dispatchId] = "succeeded"

SoundStep == QueueInv' /\ (returnCompleted => ~Dispatches) /\ CompletionStep

\* At most the next goal was handed over.
SendsOne == nav' = nav \/ nav' = [nav EXCEPT ![dispatchId + 1] = "sent"]

Outcome == SendsOne /\ SoundStep

-----------------------------------------------------------------------------
(* Building blocks.                                                         *)

LEMMA GoalSent ==
  ASSUME NEW kind, NEW seq, NEW su, NEW rl, NEW sl, DispatchGoal(kind, seq, su, rl, sl)
  PROVE  SendsOne /\ goalKind' \in {kind, "none"}
BY DEF DispatchGoal, Refused, ClearGoal, SendsOne

LEMMA FrontierSent ==
  ASSUME NEW order, NEW su, NEW rl, NEW sl, DispatchFrontier(order, su, rl, sl)
  PROVE  SendsOne /\ goalKind' \in {"frontier", "none"}
BY GoalSent DEF DispatchFrontier

\* A sent replacement empties the queue.
LEMMA PendingSent ==
  ASSUME NEW order, NEW su, NEW rl, NEW sl, DispatchPending(order, su, rl, sl)
  PROVE  SendsOne /\ pendingSeq' = <<>>
BY FrontierSent DEF DispatchPending

LEMMA Stayed ==
  ASSUME NEW su, NEW latch, StayIdle(su, latch)
  PROVE  /\ UNCHANGED <<nav, dispatchId, pendingSeq>>
         /\ goalState' = "IDLE" /\ goalKind' = "none"
BY DEF StayIdle, ClearGoal, replaceVars

-----------------------------------------------------------------------------
(* Outcomes.                                                                *)

\* Nothing was sent and nothing completed; the goal is kept or gone.
LEMMA QuietOutcome ==
  ASSUME QueueInv, UNCHANGED <<nav, dispatchId, pendingSeq, returnCompleted>>,
         goalKind' \in {goalKind, "none"}
  PROVE  Outcome
BY DEF QueueInv, QueueExcludesFinalReturn, Outcome, SendsOne, SoundStep, Dispatches, CompletionStep

\* With an empty queue any goal may be sent before completion.
LEMMA SentOutcome ==
  ASSUME SendsOne, ~returnCompleted, ~returnCompleted', pendingSeq' = <<>>
  PROVE  Outcome
BY DEF QueueInv, QueueExcludesFinalReturn, Outcome, SoundStep, CompletionStep

\* The search, with nothing queued.
LEMMA SearchOutcome ==
  ASSUME NEW su, SearchAndSend(su), pendingSeq = <<>>, ~returnCompleted,
         goalKind \in {"none", "frontier"}
  PROVE  Outcome
<1>1. ASSUME NEW latch, StayIdle(su, latch)
      PROVE  Outcome
  BY <1>1, Stayed
  DEF Outcome, SendsOne, SoundStep, QueueInv, QueueExcludesFinalReturn, CompletionStep
<1>2. ASSUME NEW kind, NEW rl, NEW sl, DispatchGoal(kind, <<>>, su, rl, sl),
             UNCHANGED <<replaceVars, returnCompleted>>
      PROVE  Outcome
  BY <1>2, GoalSent, SentOutcome DEF replaceVars
<1>3. ASSUME NEW order, NEW rl, NEW sl, DispatchFrontier(order, su, rl, sl),
             UNCHANGED <<replaceVars, returnCompleted>>
      PROVE  Outcome
  BY <1>3, FrontierSent, SentOutcome DEF replaceVars
<1>4. ExplorationComplete(su) => Outcome
  BY <1>1, <1>2 DEF ExplorationComplete
<1>5. AllFrontiersSuppressed(su) => Outcome
  BY <1>1, <1>2 DEF AllFrontiersSuppressed
<1>6. ASSUME NEW open, SendFrontier(open, su)
      PROVE  Outcome
  BY <1>1, <1>3, <1>6 DEF SendFrontier
<1> QED
  BY <1>1, <1>4, <1>5, <1>6 DEF SearchAndSend

\* The scheduler, called with no goal or with a frontier goal that has just ended.
LEMMA TrySendOutcome ==
  ASSUME QueueInv, NEW su, TrySendNextGoal(su), goalKind \in {"none", "frontier"}
  PROVE  Outcome
<1>1. CASE StayIdle(su, suppressedReturn) /\ UNCHANGED returnCompleted
  BY <1>1, Stayed, QuietOutcome
<1>2. CASE ~returnCompleted /\ pendingSeq # <<>> /\ SendPending(su)
  <2>1. UNCHANGED returnCompleted
    BY <1>2 DEF SendPending
  <2>2. CASE StayIdle(su, suppressedReturn)
    BY <2>1, <2>2, <1>1
  <2>3. CASE DispatchPending(pendingSeq, su, returnStarted, suppressedReturn)
    BY <1>2, <2>1, <2>3, PendingSent, SentOutcome
  <2> QED
    BY <1>2, <2>2, <2>3 DEF SendPending
<1>3. CASE ~returnCompleted /\ pendingSeq = <<>> /\ SearchAndSend(su)
  BY <1>3, SearchOutcome
<1> QED
  BY <1>1, <1>2, <1>3 DEF TrySendNextGoal, CanSchedule

-----------------------------------------------------------------------------
(* A goal at hand is kept, whatever is queued, or replaced.                 *)

Held == UNCHANGED <<goalKind, nav, dispatchId>>
Replaced == Held \/ (SendsOne /\ pendingSeq' = <<>>)

LEMMA ReplacedOutcome ==
  ASSUME QueueInv, goalKind \in {"frontier", "suppressed_return_to_start"},
         Replaced, UNCHANGED returnCompleted
  PROVE  Outcome
<1>1. ~returnCompleted
  BY DEF QueueInv
<1>2. CASE Held
  BY <1>1, <1>2
  DEF Held, QueueInv, QueueExcludesFinalReturn, Outcome, SendsOne, SoundStep, CompletionStep
<1>3. CASE SendsOne /\ pendingSeq' = <<>>
  BY <1>1, <1>3, SentOutcome
<1> QED
  BY <1>2, <1>3 DEF Replaced

LEMMA KeepGoalHolds == KeepGoal => Held
BY DEF KeepGoal, Held, goalVars

LEMMA RequestCancelHolds == RequestCancel => Held
BY DEF RequestCancel, Held

LEMMA UnchangedSchedulingHolds ==
  UnchangedScheduling => Held /\ UNCHANGED <<pendingSeq, returnCompleted>>
BY DEF UnchangedScheduling, Held, goalVars, replaceVars, returnVars

LEMMA RequestReselectionReplaces ==
  ASSUME NEW seq, RequestReselection(seq)
  PROVE  Replaced
BY KeepGoalHolds, PendingSent DEF RequestReselection, Replaced

LEMMA ReselectReplaces ==
  ASSUME NEW isBlocked, Reselect(isBlocked)
  PROVE  Replaced
BY KeepGoalHolds, RequestCancelHolds, RequestReselectionReplaces DEF Reselect, Replaced

LEMMA ConsiderPreemptReplaces ==
  ConsiderPreempt => Replaced /\ UNCHANGED returnCompleted
<1> SUFFICES ASSUME ConsiderPreempt PROVE Replaced
  BY DEF ConsiderPreempt
<1>1. CancelFromMap => Replaced
  BY RequestCancelHolds DEF CancelFromMap, Replaced
<1>2. KeepGoal \/ UnchangedScheduling => Replaced
  BY KeepGoalHolds, UnchangedSchedulingHolds DEF Replaced
<1> QED
  BY <1>1, <1>2, ReselectReplaces DEF ConsiderPreempt

LEMMA ConsiderCancelSuppressedReturnReplaces ==
  ConsiderCancelSuppressedReturn => Replaced /\ UNCHANGED returnCompleted
BY KeepGoalHolds, UnchangedSchedulingHolds, PendingSent
DEF ConsiderCancelSuppressedReturn, Replaced

-----------------------------------------------------------------------------
(* Steps of the core.                                                       *)

LEMMA UnchangedSchedulingOutcome ==
  ASSUME QueueInv, UnchangedScheduling
  PROVE  Outcome
BY UnchangedSchedulingHolds, QuietOutcome DEF Held

LEMMA ScheduleIfIdleOutcome ==
  ASSUME IInv, QueueInv, ScheduleIfIdle
  PROVE  Outcome
<1>1. goalState = "IDLE" => goalKind = "none"
  BY DEF IInv, SlotInv, Shape
<1> QED
  BY <1>1, TrySendOutcome, UnchangedSchedulingOutcome DEF ScheduleIfIdle

LEMMA ActOnMapOutcome ==
  ASSUME IInv, QueueInv, ActOnMap
  PROVE  Outcome
<1>1. CASE goalKind = "frontier"
  BY <1>1, ConsiderPreemptReplaces, ReplacedOutcome DEF ActOnMap
<1>2. CASE goalKind = "suppressed_return_to_start"
  BY <1>2, ConsiderCancelSuppressedReturnReplaces, ReplacedOutcome DEF ActOnMap
<1>3. CASE goalKind \notin {"frontier", "suppressed_return_to_start"}
  BY <1>3, ScheduleIfIdleOutcome DEF ActOnMap
<1> QED
  BY <1>1, <1>2, <1>3

LEMMA CostmapOutcome ==
  ASSUME IInv, QueueInv, NEW global \in BOOLEAN, CostmapMessage(global)
  PROVE  Outcome
<1>1. CASE goalKind = "frontier"
  <2>1. CASE CancelFromMap
    BY <2>1, RequestCancelHolds, QuietOutcome
    DEF CancelFromMap, Held, replaceVars, returnVars
  <2> QED
    BY <1>1, <2>1, UnchangedSchedulingOutcome DEF CostmapMessage
<1>2. CASE goalKind = "suppressed_return_to_start"
  BY <1>2, ConsiderCancelSuppressedReturnReplaces, ReplacedOutcome DEF CostmapMessage
<1>3. CASE goalKind \notin {"frontier", "suppressed_return_to_start"}
  BY <1>3, ScheduleIfIdleOutcome, UnchangedSchedulingOutcome DEF CostmapMessage
<1> QED
  BY <1>1, <1>2, <1>3

LEMMA CallbacksOutcome ==
  ASSUME IInv, QueueInv, Callbacks
  PROVE  Outcome
<1>1. CASE MapMessage
  BY <1>1, ActOnMapOutcome, QuietOutcome DEF MapMessage, goalVars, replaceVars, returnVars
<1>2. CASE MapTimer
  BY <1>2, ActOnMapOutcome DEF MapTimer
<1>3. CASE Watchdog
  BY <1>3, QuietOutcome DEF Watchdog, replaceVars, returnVars
<1> QED
  BY <1>1, <1>2, <1>3, CostmapOutcome DEF Callbacks

\* A session starts and stops with nothing queued and nothing complete.
LEMMA ControlOutcome ==
  ASSUME QueueInv, Control
  PROVE  Outcome
<1>1. ResetRuntimeState
  BY DEF Control, StartSession, StopSession
<1> QED
  BY <1>1
  DEF ResetRuntimeState, QueueInv, QueueExcludesFinalReturn, Outcome, SendsOne, SoundStep,
      CompletionStep, Dispatches

LEMMA TimeOutcome ==
  ASSUME QueueInv, Time
  PROVE  Outcome
BY QuietOutcome DEF Time, SettleElapses, SuppressionExpires, goalVars, replaceVars, returnVars

\* The result of the goal at hand.
LEMMA CurrentResultCompletes ==
  ASSUME QueueInv, CurrentResult(nav[dispatchId]), goalKind # "none"
  PROVE  Outcome
<1> DEFINE status == nav[dispatchId]
           rl == LatchAfter(status, "return_to_start", returnStarted)
           sl == LatchAfter(status, "suppressed_return_to_start", suppressedReturn)
           done == returnCompleted \/ CompletesExploration(status)
           Closed(su) == /\ ClearGoal /\ suppressed' = su
                         /\ returnStarted' = rl /\ suppressedReturn' = sl
                         /\ returnCompleted' = done
                         /\ UNCHANGED <<replaceVars, dispatchId, nav, searchVars, startKnown>>
<1>1. /\ ~returnCompleted
      /\ done => status = "succeeded" /\ goalKind = "return_to_start"
      /\ pendingSeq # <<>> => goalKind # "return_to_start"
  BY DEF QueueInv, QueueExcludesFinalReturn, CompletesExploration
<1>2. ASSUME NEW su, Closed(su)
      PROVE  Outcome
  BY <1>1, <1>2
  DEF ClearGoal, replaceVars, QueueInv, QueueExcludesFinalReturn, Outcome, SendsOne,
      SoundStep, CompletionStep
<1>3. ASSUME NEW su, pendingSeq # <<>>, returnCompleted' = done,
             DispatchPending(pendingSeq, su, rl, sl)
      PROVE  Outcome
  <2>1. ~returnCompleted'
    BY <1>1, <1>3
  <2> QED
    BY <1>1, <1>3, <2>1, PendingSent, SentOutcome
<1>4. ASSUME NEW su, goalKind = "frontier", TrySendNextGoal(su)
      PROVE  Outcome
  BY <1>4, TrySendOutcome
<1>5. PICK su \in AfterResult(status) :
        \/ Closed(su)
        \/ /\ pendingSeq # <<>> /\ returnCompleted' = done
           /\ DispatchPending(pendingSeq, su, rl, sl)
        \/ goalKind = "frontier" /\ TrySendNextGoal(su)
  BY DEF CurrentResult
<1> QED
  BY <1>2, <1>3, <1>4, <1>5

LEMMA RepliesOutcome ==
  ASSUME IInv, QueueInv, NEW i \in Id, Replies(i)
  PROVE  Outcome
<1> USE DEF goalVars, replaceVars, returnVars, UnchangedCore
<1>1. CASE ResponseRejected(i)
  BY <1>1, QuietOutcome DEF ResponseRejected, Refused, ClearGoal
<1>2. CASE ResponseAccepted(i)
  BY <1>2, QuietOutcome DEF ResponseAccepted
<1>3. CASE CancelRefused(i)
  BY <1>3, QuietOutcome DEF CancelRefused
<1>4. CASE Result(i) /\ Stale(i)
  BY <1>4, QuietOutcome DEF Result
<1>5. CASE Result(i) /\ ~Stale(i)
  <2>1. i = dispatchId /\ CurrentResult(nav[dispatchId])
    BY <1>5 DEF Result, Stale
  <2>2. goalKind # "none"
    BY <1>5, <2>1 DEF Result, IInv, SlotInv, Shape, IdleAfterReply, Id, Finished
  <2> QED
    BY <2>1, <2>2, CurrentResultCompletes
<1> QED
  BY <1>1, <1>2, <1>3, <1>4, <1>5 DEF Replies

-----------------------------------------------------------------------------
(* The order in which the server takes goals.                               *)

\* Goals are taken in the order they were sent, and the one that drives the robot
\* is the latest that was accepted.
ServedInOrder ==
  \A i, j \in Id : i < j =>
    /\ nav[i] = "sent" => nav[j] \in {"unsent", "sent"}
    /\ nav[i] \in Driving => nav[j] \in {"unsent", "sent", "rejected"}

LEMMA SendingKeepsOrder ==
  ASSUME IInv, ServedInOrder, SendsOne
  PROVE  ServedInOrder'
<1>1. nav \in [Id -> NavStates] /\ dispatchId \in Nat /\ Id \subseteq Nat
  BY BoundsAssumption DEF IInv, TypeOK, Id
<1>2. CASE nav' = nav
  BY <1>2 DEF ServedInOrder
<1>3. CASE nav' = [nav EXCEPT ![dispatchId + 1] = "sent"]
  <2> SUFFICES ASSUME NEW i \in Id, NEW j \in Id, i < j
               PROVE  /\ nav'[i] = "sent" => nav'[j] \in {"unsent", "sent"}
                      /\ nav'[i] \in Driving => nav'[j] \in {"unsent", "sent", "rejected"}
    BY DEF ServedInOrder
  <2>1. \A k \in Id : nav'[k] = IF k = dispatchId + 1 THEN "sent" ELSE nav[k]
    BY <1>1, <1>3
  <2>2. CASE i = dispatchId + 1
    <3>1. nav[j] = "unsent" /\ j # dispatchId + 1
      BY <1>1, <2>2 DEF IInv, SlotInv, Delivered
    <3> QED
      BY <2>1, <3>1
  <2>3. CASE i # dispatchId + 1
    BY <2>1, <2>3 DEF ServedInOrder
  <2> QED
    BY <2>2, <2>3
<1> QED
  BY <1>2, <1>3 DEF SendsOne

LEMMA ServingKeepsOrder ==
  ASSUME IInv, ServedInOrder, NEW k \in Id, Nav(k)
  PROVE  ServedInOrder'
<1>1. nav \in [Id -> NavStates] /\ Id \subseteq Nat
  BY BoundsAssumption DEF IInv, TypeOK, Id
<1> SUFFICES ASSUME NEW i \in Id, NEW j \in Id, i < j
             PROVE  /\ nav'[i] = "sent" => nav'[j] \in {"unsent", "sent"}
                    /\ nav'[i] \in Driving => nav'[j] \in {"unsent", "sent", "rejected"}
  BY DEF ServedInOrder
<1>2. /\ nav[i] = "sent" => nav[j] \in {"unsent", "sent"}
      /\ nav[i] \in Driving => nav[j] \in {"unsent", "sent", "rejected"}
  BY DEF ServedInOrder
<1> USE DEF Driving, Finished
<1>3. CASE NavAccepts(k)
  <2>1. /\ nav[k] = "sent" /\ \A l \in 1..(k - 1) : nav[l] # "sent"
        /\ \A l \in Id : nav'[l] = IF l = k THEN "running"
                                   ELSE IF nav[l] \in Driving THEN "aborted" ELSE nav[l]
    BY <1>3 DEF NavAccepts, NextToServe
  <2>2. CASE i = k
    BY <1>1, <1>2, <2>1, <2>2
  <2>3. CASE i # k
    <3>1. nav[i] = "sent" => j # k
      BY <1>1, <2>1 DEF Id
    <3> QED
      BY <1>2, <2>1, <2>3, <3>1
  <2> QED
    BY <2>2, <2>3
<1>4. CASE NavRejects(k)
  <2>1. /\ nav[k] = "sent" /\ \A l \in 1..(k - 1) : nav[l] # "sent"
        /\ \A l \in Id : nav'[l] = IF l = k THEN "rejected" ELSE nav[l]
    BY <1>1, <1>4 DEF NavRejects, NextToServe
  <2>2. nav[i] = "sent" /\ i # k => j # k
    BY <1>1, <2>1 DEF Id
  <2> QED
    BY <1>2, <2>1, <2>2
<1>5. CASE NavTakesCancel(k) \/ NavForeignCancel(k) \/ NavFinishes(k)
  <2>1. /\ nav[k] \in Driving /\ nav'[k] \in {"canceling"} \cup Finished
        /\ \A l \in Id \ {k} : nav'[l] = nav[l]
    BY <1>1, <1>5 DEF NavTakesCancel, NavForeignCancel, NavFinishes
  <2> QED
    BY <1>2, <2>1
<1> QED
  BY <1>3, <1>4, <1>5 DEF Nav

-----------------------------------------------------------------------------
(* The results.                                                             *)

CInv == QueueInv /\ ServedInOrder

LEMMA InitCInv == Init => CInv
BY DEF Init, CInv, QueueInv, QueueExcludesFinalReturn, ServedInOrder, Driving

LEMMA CoreKeepsCInv ==
  ASSUME IInv, CInv, Outcome
  PROVE  CInv' /\ SoundStep
BY SendingKeepsOrder DEF CInv, Outcome, SoundStep

LEMMA NextCInv ==
  ASSUME IInv, CInv, [Next]_vars
  PROVE  CInv' /\ SoundStep
<1>1. ASSUME NEW i \in Id, Nav(i)
      PROVE  CInv' /\ SoundStep
  <2>1. UnchangedClient
    BY <1>1
    DEF Nav, NavAccepts, NavRejects, NavTakesCancel, NavForeignCancel, NavFinishes
  <2>2. SoundStep
    BY <2>1
    DEF CInv, UnchangedClient, goalVars, replaceVars, returnVars, SoundStep, QueueInv,
        QueueExcludesFinalReturn, CompletionStep, Dispatches
  <2> QED
    BY <1>1, <2>2, ServingKeepsOrder DEF CInv, SoundStep
<1>2. ASSUME NEW i \in Id, Replies(i)
      PROVE  Outcome
  BY <1>2, RepliesOutcome DEF CInv
<1>3. CASE Callbacks \/ Control \/ Time
  BY <1>3, CallbacksOutcome, ControlOutcome, TimeOutcome, CoreKeepsCInv DEF CInv
<1>4. CASE UNCHANGED vars
  BY <1>4, QuietOutcome, CoreKeepsCInv DEF CInv, vars, goalVars, replaceVars, returnVars
<1> QED
  BY <1>1, <1>2, <1>3, <1>4, CoreKeepsCInv DEF Next

LEMMA CompletionInvariance == Spec => [](IInv /\ CInv)
<1>1. IInv /\ CInv /\ [Next]_vars => CInv'
  BY NextCInv
<1> QED
  BY <1>1, InitCInv, Invariance, PTL DEF Spec

\* A queued replacement never coexists with the final return or a complete
\* exploration, so the result handler, which sends it without asking
\* (get_result_callback), never restarts what is finished.
THEOREM QueueIsNeverLate == Spec => []QueueExcludesFinalReturn
<1>1. IInv /\ CInv => QueueExcludesFinalReturn
  BY DEF CInv, QueueInv
<1> QED
  BY <1>1, CompletionInvariance, PTL

\* The robot is driven with the core idle only after a refused replacement: the
\* server aborts the goal it drives when it accepts the next (goal_response_callback).
THEOREM DrivenUnattended == Spec => []UnattendedOnlyAfterRefusal
<1>1. ASSUME IInv, CInv
      PROVE  UnattendedOnlyAfterRefusal
  <2> SUFFICES ASSUME goalState = "IDLE", NEW i \in Id, nav[i] \in Driving
               PROVE  nav[dispatchId] \in {"rejected", "unsent"}
    BY DEF UnattendedOnlyAfterRefusal
  <2>1. Id \subseteq Nat /\ dispatchId \in Nat
    BY <1>1, BoundsAssumption DEF IInv, TypeOK, Id
  <2>2. i <= dispatchId /\ dispatchId > 0
    BY <1>1, <2>1 DEF IInv, SlotInv, Delivered, Driving, Id
  <2>3. CASE dispatchId \in resulted
    <3>1. nav[dispatchId] \in Finished /\ dispatchId \in Id
      BY <1>1, <2>3 DEF IInv, TypeOK, SlotInv, Delivered
    <3>2. i < dispatchId
      BY <2>1, <2>2, <3>1 DEF Driving, Finished
    <3> QED
      BY <1>1, <3>1, <3>2 DEF CInv, ServedInOrder, Finished
  <2> QED
    BY <1>1, <2>2, <2>3 DEF IInv, SlotInv, IdleAfterReply
<1> QED
  BY <1>1, CompletionInvariance, PTL

\* Once exploration is complete no handler, retry or late reply sends a goal.
THEOREM CompletionHoldsDispatch == Spec => NoDispatchAfterCompletion
<1>1. IInv /\ CInv /\ [Next]_vars => [returnCompleted => ~Dispatches]_vars
  BY NextCInv DEF SoundStep
<1> QED
  BY <1>1, CompletionInvariance, PTL DEF Spec, NoDispatchAfterCompletion

\* Exploration becomes complete with nothing queued and no goal left, by the final
\* return or the last frontier and never by the temporary return.
THEOREM CompletesOnlyAtTheEnd == Spec => CompletionIsFinal
<1>1. IInv /\ CInv /\ [Next]_vars =>
        [~returnCompleted /\ returnCompleted' =>
           /\ goalState' = "IDLE" /\ pendingSeq = <<>>
           /\ goalKind \in {"none", "frontier", "return_to_start"}
           /\ goalKind = "return_to_start" => nav[dispatchId] = "succeeded"]_vars
  BY NextCInv DEF SoundStep, CompletionStep
<1> QED
  BY <1>1, CompletionInvariance, PTL DEF Spec, CompletionIsFinal

-----------------------------------------------------------------------------
(* Without preemption cancels come from the watchdog and from stopping only, *)
(* and the cancel flag and the return latch are then exact.  With preemption *)
(* they are not, see the runs cancel_flag_stuck and cancel_reason_leaks.     *)

WithoutPreemption == ~GoalPreemptionEnabled /\ ~SkipOnBlockedGoal /\ ~CompletionDistance

\* In a session no cancel is remembered, and only frontier goals are canceled.
CancelInv ==
  /\ CancelFlagMatchesState
  /\ enabled => ~pendingCancel
  /\ enabled /\ goalKind # "frontier" => ~cancelInProgress

\* A return goal whose latch is up is never asked to cancel.
LatchInv ==
  /\ ReturnLatchHasGoal
  /\ returnStarted => enabled
  /\ returnStarted /\ goalKind = "return_to_start" =>
       cancels[dispatchId] = 0 /\ nav[dispatchId] \notin {"canceling", "canceled"}
  /\ \A i \in Id : i > dispatchId => cancels[i] = 0

NInv == CancelInv /\ LatchInv

\* A goal just sent: nothing of an earlier one clings to it.
NewGoal ==
  /\ dispatchId < MaxDispatch /\ dispatchId' = dispatchId + 1
  /\ nav' = [nav EXCEPT ![dispatchId + 1] = "sent"]

\* The scheduler ran: the slot is free or holds a goal just sent, and the latch of
\* the final return is up only for such a goal or after completion.
Launched ==
  /\ goalState' \in {"IDLE", "SENDING"}
  /\ dispatchId' \in {dispatchId, dispatchId + 1}
  /\ returnStarted' => enabled
  /\ returnStarted' /\ ~returnCompleted' => goalKind' = "return_to_start"
  /\ returnStarted' /\ goalKind' = "return_to_start" => NewGoal

-----------------------------------------------------------------------------
(* The scheduler.                                                           *)

\* Sending a goal raises no latch but the one it was asked to raise.
LEMMA GoalLaunched ==
  ASSUME NEW kind, NEW seq, NEW su, NEW rl, NEW sl, DispatchGoal(kind, seq, su, rl, sl)
  PROVE  /\ goalState' \in {"IDLE", "SENDING"} /\ dispatchId' = dispatchId + 1
         /\ returnStarted' => rl
         /\ goalKind' \in {kind, "none"}
         /\ kind = "return_to_start" /\ returnStarted' => goalKind' = kind /\ NewGoal
<1>1. CASE Refused(kind, seq, su, rl, sl) /\ nav' = nav
  <2>1. (returnStarted' => rl /\ kind # "return_to_start") /\ ClearGoal
    BY <1>1 DEF Refused
  <2> QED
    BY <2>1 DEF DispatchGoal, ClearGoal
<1>2. CASE /\ nav' = [nav EXCEPT ![dispatchId + 1] = "sent"]
           /\ goalState' = "SENDING" /\ goalKind' = kind /\ returnStarted' = rl
  BY <1>2 DEF DispatchGoal, NewGoal
<1> QED
  BY <1>1, <1>2 DEF DispatchGoal

LEMMA FrontierLaunched ==
  ASSUME NEW order, NEW su, NEW rl, NEW sl, DispatchFrontier(order, su, rl, sl)
  PROVE  /\ goalState' \in {"IDLE", "SENDING"} /\ dispatchId' = dispatchId + 1
         /\ returnStarted' => rl
         /\ goalKind' # "return_to_start"
BY GoalLaunched DEF DispatchFrontier

\* The scheduler keeps nothing of a latch that is down, or up after completion.
LEMMA TrySendLaunches ==
  ASSUME NEW su, TrySendNextGoal(su), LatchInv, goalKind # "return_to_start"
  PROVE  Launched
<1>1. CASE StayIdle(su, suppressedReturn) /\ UNCHANGED returnCompleted
  BY <1>1 DEF StayIdle, ClearGoal, Launched, LatchInv, ReturnLatchHasGoal
<1>2. CASE CanSchedule /\ (SendPending(su) \/ SearchAndSend(su))
  <2>1. ~returnStarted /\ enabled
    BY <1>2 DEF CanSchedule, LatchInv, ReturnLatchHasGoal
  <2>2. ASSUME NEW sl, StayIdle(su, sl)
        PROVE  Launched
    BY <2>1, <2>2 DEF StayIdle, ClearGoal, Launched
  <2>3. ASSUME NEW order, NEW sl, DispatchFrontier(order, su, returnStarted, sl)
        PROVE  Launched
    BY <2>1, <2>3, FrontierLaunched DEF Launched
  <2>4. ASSUME NEW sl, DispatchGoal("return_to_start", <<>>, su, TRUE, sl)
        PROVE  Launched
    BY <2>1, <2>4, GoalLaunched DEF Launched
  <2>5. ASSUME NEW sl, DispatchGoal("suppressed_return_to_start", <<>>, su, returnStarted, sl)
        PROVE  Launched
    BY <2>1, <2>5, GoalLaunched DEF Launched
  <2>6. ExplorationComplete(su) => Launched
    BY <2>2, <2>4 DEF ExplorationComplete
  <2>7. AllFrontiersSuppressed(su) => Launched
    BY <2>2, <2>5 DEF AllFrontiersSuppressed
  <2>8. ASSUME NEW open, SendFrontier(open, su)
        PROVE  Launched
    BY <2>2, <2>3, <2>8 DEF SendFrontier
  <2>9. SearchAndSend(su) => Launched
    BY <2>2, <2>6, <2>7, <2>8 DEF SearchAndSend
  <2>10. SendPending(su) => Launched
    BY <2>2, <2>3 DEF SendPending, DispatchPending
  <2> QED
    BY <1>2, <2>9, <2>10
<1> QED
  BY <1>1, <1>2 DEF TrySendNextGoal

-----------------------------------------------------------------------------
(* Outcomes.                                                                *)

\* The scheduler ran and no cancel is in flight for the goal at hand.
LEMMA LaunchedKeeps ==
  ASSUME IInv, NInv, Launched, UNCHANGED <<cancels, enabled>>,
         ~cancelInProgress', enabled => ~pendingCancel'
  PROVE  NInv'
<1>1. /\ dispatchId \in Nat /\ Id \subseteq Nat
      /\ nav \in [Id -> NavStates]
  BY BoundsAssumption DEF IInv, TypeOK, Id
<1>2. CancelInv'
  BY DEF Launched, CancelInv, CancelFlagMatchesState
<1>3. \A i \in Id : i > dispatchId' => cancels'[i] = 0
  BY <1>1 DEF Launched, NInv, LatchInv
<1>4. ASSUME returnStarted', goalKind' = "return_to_start"
      PROVE  cancels'[dispatchId'] = 0 /\ nav'[dispatchId'] \notin {"canceling", "canceled"}
  <2>1. NewGoal
    BY <1>4 DEF Launched
  <2>2. dispatchId + 1 \in Id
    BY <1>1, <2>1, BoundsAssumption DEF NewGoal, Id
  <2>3. cancels[dispatchId + 1] = 0
    BY <1>1, <2>2 DEF NInv, LatchInv
  <2>4. nav'[dispatchId + 1] = "sent"
    BY <1>1, <2>1, <2>2 DEF NewGoal
  <2> QED
    BY <2>1, <2>3, <2>4 DEF NewGoal
<1> QED
  BY <1>2, <1>3, <1>4 DEF NInv, LatchInv, ReturnLatchHasGoal, Launched

\* Nothing of the goal, its cancel or the latches changed.
LEMMA UntouchedKeeps ==
  ASSUME NInv, UNCHANGED <<goalState, goalKind, dispatchId, cancelVars, returnStarted,
                           returnCompleted, enabled, nav>>
  PROVE  NInv'
BY DEF NInv, CancelInv, CancelFlagMatchesState, LatchInv, ReturnLatchHasGoal, cancelVars

\* A cancel is sent for the goal at hand, which is no return goal of a session.
LEMMA IssueCancelKeeps ==
  ASSUME IInv, NInv, IssueCancel, UNCHANGED <<goalKind, dispatchId, nav>>,
         ~enabled' \/ (enabled /\ goalKind = "frontier"),
         returnStarted' => enabled' /\ returnStarted,
         returnCompleted => returnCompleted' \/ ~returnStarted'
  PROVE  NInv'
<1>1. cancels \in [Id -> 0..MaxCancels] /\ dispatchId \in Nat /\ Id \subseteq Nat
  BY BoundsAssumption DEF IInv, TypeOK, Id
<1>2. CancelInv'
  BY DEF IssueCancel, CancelInv, CancelFlagMatchesState
<1>3. \A i \in Id : i > dispatchId' => cancels'[i] = 0
  BY <1>1 DEF IssueCancel, NInv, LatchInv
<1> QED
  BY <1>2, <1>3 DEF NInv, LatchInv, ReturnLatchHasGoal

-----------------------------------------------------------------------------
(* Steps of the core.                                                       *)

LEMMA ScheduleIfIdleCalm ==
  ASSUME IInv, NInv, ScheduleIfIdle, UNCHANGED enabled
  PROVE  NInv'
<1>1. CASE goalState = "IDLE"
  <2>1. goalKind = "none" /\ ~cancelInProgress
    BY <1>1 DEF IInv, SlotInv, Shape, NInv, CancelInv, CancelFlagMatchesState
  <2>2. Launched /\ UNCHANGED cancelVars
    BY <1>1, <2>1, TrySendLaunches DEF ScheduleIfIdle, NInv
  <2> QED
    BY <2>1, <2>2, LaunchedKeeps DEF NInv, CancelInv, cancelVars
<1>2. CASE goalState # "IDLE"
  BY <1>2, UntouchedKeeps DEF ScheduleIfIdle, UnchangedScheduling, goalVars, returnVars
<1> QED
  BY <1>1, <1>2

LEMMA SuppressedReturnCalm ==
  ASSUME IInv, NInv, ConsiderCancelSuppressedReturn, enabled, UNCHANGED enabled,
         goalKind = "suppressed_return_to_start"
  PROVE  NInv'
<1>1. CASE UnchangedScheduling
  BY <1>1, UntouchedKeeps DEF UnchangedScheduling, goalVars, returnVars
<1>2. CASE KeepGoal /\ UNCHANGED returnCompleted
  BY <1>2, UntouchedKeeps DEF KeepGoal, goalVars
<1>3. ASSUME NEW order, DispatchPending(order, suppressed, returnStarted, FALSE),
             UNCHANGED <<cancelVars, returnCompleted>>
      PROVE  NInv'
  <2>1. Launched
    <3>1. returnStarted => enabled /\ returnCompleted
      BY DEF NInv, LatchInv, ReturnLatchHasGoal
    <3>2. returnCompleted => returnCompleted'
      BY <1>3
    <3>3. /\ goalState' \in {"IDLE", "SENDING"} /\ dispatchId' = dispatchId + 1
          /\ returnStarted' => returnStarted
          /\ goalKind' # "return_to_start"
      BY <1>3, FrontierLaunched DEF DispatchPending
    <3> QED
      BY <3>1, <3>2, <3>3 DEF Launched
  <2> QED
    BY <1>3, <2>1, LaunchedKeeps DEF NInv, CancelInv, cancelVars
<1> QED
  BY <1>1, <1>2, <1>3 DEF ConsiderCancelSuppressedReturn

\* Without preemption a map does nothing to a frontier goal.
LEMMA ConsiderPreemptCalm ==
  ASSUME WithoutPreemption, NInv, ConsiderPreempt, UNCHANGED enabled
  PROVE  NInv'
<1>1. UnchangedScheduling /\ UNCHANGED returnCompleted
  BY DEF ConsiderPreempt, WithoutPreemption, BlockedTarget
<1> QED
  BY <1>1, UntouchedKeeps DEF UnchangedScheduling, goalVars, returnVars

LEMMA ActOnMapCalm ==
  ASSUME WithoutPreemption, IInv, NInv, ActOnMap, enabled, UNCHANGED enabled
  PROVE  NInv'
BY ConsiderPreemptCalm, SuppressedReturnCalm, ScheduleIfIdleCalm DEF ActOnMap

LEMMA CallbacksCalm ==
  ASSUME WithoutPreemption, IInv, NInv, Callbacks
  PROVE  NInv'
<1>1. CASE MapMessage
  BY <1>1, ActOnMapCalm, UntouchedKeeps
  DEF MapMessage, Running, goalVars, returnVars
<1>2. CASE MapTimer
  BY <1>2, ActOnMapCalm DEF MapTimer, Running
<1>3. ASSUME NEW global \in BOOLEAN, CostmapMessage(global)
      PROVE  NInv'
  <2>1. enabled /\ UNCHANGED enabled
    BY <1>3 DEF CostmapMessage, Running
  <2>2. UnchangedScheduling => NInv'
    BY <2>1, UntouchedKeeps DEF UnchangedScheduling, goalVars, returnVars
  <2>3. CASE goalKind = "frontier"
    BY <1>3, <2>2, <2>3 DEF CostmapMessage, WithoutPreemption, BlockedTarget
  <2>4. CASE goalKind = "suppressed_return_to_start"
    BY <1>3, <2>1, <2>4, SuppressedReturnCalm DEF CostmapMessage
  <2>5. CASE goalKind \notin {"frontier", "suppressed_return_to_start"}
    BY <1>3, <2>1, <2>2, <2>5, ScheduleIfIdleCalm DEF CostmapMessage
  <2> QED
    BY <2>3, <2>4, <2>5
<1>4. CASE Watchdog
  <2>1. /\ enabled /\ goalKind = "frontier" /\ goalHandle /\ ~cancelInProgress
        /\ UNCHANGED <<goalKind, dispatchId, returnVars, enabled, nav>>
        /\ UNCHANGED <<cancelVars, goalState>> \/ RequestCancel
    BY <1>4 DEF Watchdog, Running
  <2>2. CASE RequestCancel
    BY <2>1, <2>2, IssueCancelKeeps DEF RequestCancel, NInv, LatchInv, returnVars
  <2>3. CASE UNCHANGED <<cancelVars, goalState>>
    BY <2>1, <2>3, UntouchedKeeps DEF returnVars
  <2> QED
    BY <2>1, <2>2, <2>3
<1> QED
  BY <1>1, <1>2, <1>3, <1>4 DEF Callbacks

LEMMA ControlCalm ==
  ASSUME IInv, NInv, Control
  PROVE  NInv'
<1>1. /\ ~returnStarted'
      /\ UNCHANGED <<goalKind, dispatchId, nav>>
  BY DEF Control, StartSession, StopSession, ResetRuntimeState
<1>3. ASSUME CancelInv', UNCHANGED cancels
      PROVE  NInv'
  BY <1>1, <1>3 DEF NInv, LatchInv, ReturnLatchHasGoal
<1>4. CASE StartSession
  BY <1>3, <1>4 DEF StartSession, CancelInv, CancelFlagMatchesState
<1>5. CASE StopSession
  <2>1. CASE IssueCancel
    BY <1>1, <1>5, <2>1, IssueCancelKeeps DEF StopSession
  <2>2. CASE UNCHANGED <<cancels, goalState>> /\ ~cancelInProgress' /\ ~goalHandle
    BY <1>3, <1>5, <2>2
    DEF StopSession, CancelInv, CancelFlagMatchesState, IInv, SlotInv, Shape
  <2>3. goalState = "IDLE" => ~goalHandle
    BY DEF IInv, SlotInv, Shape
  <2> QED
    BY <1>5, <2>1, <2>2, <2>3 DEF StopSession
<1> QED
  BY <1>4, <1>5 DEF Control

-----------------------------------------------------------------------------
(* Replies and the server.                                                  *)

\* A goal whose response is outstanding is not being canceled.
LEMMA UnansweredCalm ==
  ASSUME IInv, NInv, dispatchId \notin answered
  PROVE  goalState \in {"IDLE", "SENDING"} /\ ~cancelInProgress
BY DEF IInv, SlotInv, WaitsForLiveGoal, TypeOK, GoalStates, NInv, CancelInv,
       CancelFlagMatchesState

LEMMA StaleCalm ==
  ASSUME NInv, UnchangedCore, UNCHANGED <<enabled, nav>>
  PROVE  NInv'
BY UntouchedKeeps DEF UnchangedCore, goalVars, returnVars

\* The goal at hand was sent.
LEMMA CurrentIsDispatched ==
  ASSUME IInv, goalKind # "none"
  PROVE  dispatchId \in Id
BY BoundsAssumption DEF IInv, SlotInv, Shape, WaitsForLiveGoal, TypeOK, GoalStates, Id

\* The result of the goal at hand leaves no cancel behind.
LEMMA CurrentResultCalm ==
  ASSUME IInv, QueueInv, NInv, CurrentResult(nav[dispatchId]), nav[dispatchId] \in Finished,
         UNCHANGED <<cancels, enabled>>, ~cancelInProgress', ~pendingCancel'
  PROVE  NInv'
<1> DEFINE status == nav[dispatchId]
           rl == LatchAfter(status, "return_to_start", returnStarted)
           sl == LatchAfter(status, "suppressed_return_to_start", suppressedReturn)
           done == returnCompleted \/ CompletesExploration(status)
           Closed(su) == /\ ClearGoal /\ suppressed' = su
                         /\ returnStarted' = rl /\ suppressedReturn' = sl
                         /\ returnCompleted' = done
                         /\ UNCHANGED <<replaceVars, dispatchId, nav, searchVars, startKnown>>
<1>1. rl => returnStarted /\ enabled /\ done
  BY DEF LatchAfter, CompletesExploration, NInv, LatchInv, ReturnLatchHasGoal, Finished
<1>2. SUFFICES Launched
  BY <1>2, LaunchedKeeps
<1>3. ASSUME NEW su, Closed(su)
      PROVE  Launched
  BY <1>1, <1>3 DEF ClearGoal, Launched
<1>4. ASSUME NEW su, returnCompleted' = done, DispatchPending(pendingSeq, su, rl, sl)
      PROVE  Launched
  <2>1. /\ goalState' \in {"IDLE", "SENDING"} /\ dispatchId' = dispatchId + 1
        /\ returnStarted' => rl
        /\ goalKind' # "return_to_start"
    BY <1>4, FrontierLaunched DEF DispatchPending
  <2> QED
    BY <1>1, <1>4, <2>1 DEF Launched
<1>5. ASSUME NEW su, goalKind = "frontier", TrySendNextGoal(su)
      PROVE  Launched
  BY <1>5, TrySendLaunches DEF NInv
<1>6. PICK su \in AfterResult(status) :
        \/ Closed(su)
        \/ returnCompleted' = done /\ DispatchPending(pendingSeq, su, rl, sl)
        \/ goalKind = "frontier" /\ TrySendNextGoal(su)
  BY DEF CurrentResult
<1> QED
  BY <1>3, <1>4, <1>5, <1>6

LEMMA RepliesCalm ==
  ASSUME IInv, QueueInv, NInv, NEW i \in Id, Replies(i)
  PROVE  NInv'
<1>1. CASE ResponseRejected(i)
  <2>1. CASE Stale(i)
    BY <1>1, <2>1, StaleCalm DEF ResponseRejected
  <2>2. CASE ~Stale(i)
    <3>1. /\ dispatchId \notin answered
          /\ Refused(goalKind, goalSeq, suppressed, returnStarted, suppressedReturn)
          /\ UNCHANGED <<dispatchId, cancelVars, returnCompleted, enabled>>
      BY <1>1, <2>2 DEF ResponseRejected, Stale
    <3>2. Launched
      BY <3>1 DEF Refused, ClearGoal, Launched, NInv, LatchInv, ReturnLatchHasGoal
    <3> QED
      BY <3>1, <3>2, UnansweredCalm, LaunchedKeeps DEF NInv, CancelInv, cancelVars
  <2> QED
    BY <2>1, <2>2
<1>2. CASE ResponseAccepted(i)
  <2>1. CASE Stale(i)
    BY <1>2, <2>1, StaleCalm DEF ResponseAccepted
  <2>2. CASE ~Stale(i)
    <3>1. /\ dispatchId \notin answered
          /\ UNCHANGED <<goalKind, dispatchId, returnVars, enabled, nav>>
          /\ IF pendingCancel /\ ~cancelInProgress THEN IssueCancel
             ELSE goalState' = "ACTIVE" /\ UNCHANGED cancelVars
      BY <1>2, <2>2 DEF ResponseAccepted, Stale
    <3>2. ~cancelInProgress
      BY <3>1, UnansweredCalm
    <3>3. CASE pendingCancel
      BY <3>1, <3>2, <3>3, IssueCancelKeeps DEF NInv, CancelInv, LatchInv, returnVars
    <3>4. CASE ~pendingCancel
      BY <3>1, <3>2, <3>4
      DEF NInv, CancelInv, CancelFlagMatchesState, LatchInv, ReturnLatchHasGoal, returnVars,
          cancelVars
    <3> QED
      BY <3>3, <3>4
  <2> QED
    BY <2>1, <2>2
<1>3. CASE CancelRefused(i)
  <2>1. /\ cancels \in [Id -> 0..MaxCancels] /\ dispatchId \in Nat /\ Id \subseteq Nat
        /\ cancels[i] > 0
        /\ \A j \in Id : cancels'[j] = IF j = i THEN cancels[i] - 1 ELSE cancels[j]
    BY <1>3, BoundsAssumption DEF CancelRefused, IInv, TypeOK, Id
  <2>2. UNCHANGED <<goalKind, dispatchId, pendingCancel, returnVars, enabled, nav>>
    BY <1>3 DEF CancelRefused
  <2>3. CancelInv'
    BY <1>3, <2>2 DEF CancelRefused, NInv, CancelInv, CancelFlagMatchesState
  <2>4. \A j \in Id : cancels[j] = 0 => cancels'[j] = 0
    BY <2>1
  <2>5. returnStarted /\ goalKind = "return_to_start" => dispatchId \in Id
    BY CurrentIsDispatched
  <2>6. LatchInv'
    BY <2>2, <2>4, <2>5 DEF NInv, LatchInv, ReturnLatchHasGoal, returnVars
  <2> QED
    BY <2>3, <2>6 DEF NInv
<1>4. CASE Result(i)
  <2>1. CASE Stale(i)
    BY <1>4, <2>1, StaleCalm DEF Result
  <2>2. CASE ~Stale(i)
    BY <1>4, <2>2, CurrentResultCalm DEF Result, Stale
  <2> QED
    BY <2>1, <2>2
<1> QED
  BY <1>1, <1>2, <1>3, <1>4 DEF Replies

\* Without a cancel the server neither cancels the goal nor reports it canceled.
LEMMA ServerCalm ==
  ASSUME ~ForeignCancel, IInv, NInv, NEW i \in Id, Nav(i)
  PROVE  NInv'
<1>1. /\ cancels \in [Id -> 0..MaxCancels] /\ nav \in [Id -> NavStates]
      /\ dispatchId \in Nat /\ Id \subseteq Nat
  BY BoundsAssumption DEF IInv, TypeOK, Id
<1>2. UNCHANGED <<goalState, goalKind, dispatchId, returnStarted, returnCompleted, enabled,
                  cancelInProgress, pendingCancel>>
  BY DEF Nav, NavAccepts, NavRejects, NavTakesCancel, NavForeignCancel, NavFinishes,
         UnchangedClient, goalVars, returnVars
<1>3. CancelInv'
  BY <1>2 DEF NInv, CancelInv, CancelFlagMatchesState
<1>4. \A j \in Id : cancels[j] = 0 => cancels'[j] = 0
  BY <1>1 DEF Nav, NavAccepts, NavRejects, NavTakesCancel, NavForeignCancel, NavFinishes
<1>5. \A j \in Id : cancels[j] = 0 /\ nav[j] \notin {"canceling", "canceled"} =>
        nav'[j] \notin {"canceling", "canceled"}
  BY <1>1 DEF Nav, NavAccepts, NavRejects, NavTakesCancel, NavForeignCancel, NavFinishes
<1>6. returnStarted /\ goalKind = "return_to_start" => dispatchId \in Id
  BY CurrentIsDispatched
<1> QED
  BY <1>1, <1>2, <1>3, <1>4, <1>5, <1>6 DEF NInv, LatchInv, ReturnLatchHasGoal

-----------------------------------------------------------------------------
(* The results.                                                             *)

LEMMA InitNInv == Init => NInv
BY DEF Init, NInv, CancelInv, CancelFlagMatchesState, LatchInv, ReturnLatchHasGoal

LEMMA NextNInv ==
  ASSUME WithoutPreemption, ~ForeignCancel, IInv, CInv, NInv, [Next]_vars
  PROVE  NInv'
<1>1. CASE Callbacks \/ Control
  BY <1>1, CallbacksCalm, ControlCalm
<1>2. CASE Time \/ UNCHANGED vars
  BY <1>2, UntouchedKeeps
  DEF Time, SettleElapses, SuppressionExpires, vars, goalVars, returnVars
<1>3. ASSUME NEW i \in Id, Replies(i) \/ Nav(i)
      PROVE  NInv'
  BY <1>3, RepliesCalm, ServerCalm DEF CInv
<1> QED
  BY <1>1, <1>2, <1>3 DEF Next

LEMMA CalmInvariance ==
  ASSUME WithoutPreemption, ~ForeignCancel
  PROVE  Spec => []NInv
<1>1. IInv /\ CInv /\ NInv /\ [Next]_vars => NInv'
  BY NextNInv
<1> QED
  BY <1>1, InitNInv, CompletionInvariance, PTL DEF Spec

\* Without preemption or a foreign cancel the flag says that the goal is being canceled:
\* neither a stop, a watchdog cancel nor a refused one leaves it behind
\* (issue_active_goal_cancel, cancel_response_callback, get_result_callback).
THEOREM CancelFlagIsExact ==
  ASSUME WithoutPreemption, ~ForeignCancel
  PROVE  Spec => []CancelFlagMatchesState
<1>1. NInv => CancelFlagMatchesState
  BY DEF NInv, CancelInv
<1> QED
  BY <1>1, CalmInvariance, PTL

\* Without preemption and with no other client that cancels our goals, the latch of
\* the final return is up only while that return is driven or once it is complete.
THEOREM ReturnLatchIsExact ==
  ASSUME WithoutPreemption, ~ForeignCancel
  PROVE  Spec => []ReturnLatchHasGoal
<1>1. NInv => ReturnLatchHasGoal
  BY DEF NInv, LatchInv
<1> QED
  BY <1>1, CalmInvariance, PTL

=============================================================================
