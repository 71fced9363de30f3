--------------------------- MODULE GoalLifecycle ---------------------------
(***************************************************************************)
(* The goal lifecycle of FrontierExplorerCore and the NavigateToPose        *)
(* action server it drives.                                                 *)
(*                                                                          *)
(* Every ROS callback runs to completion on the node's single-threaded      *)
(* executor (src/src/main.cpp:28-33), so one callback is one action here,   *)
(* with every call it makes.  What interleaves is the order of the          *)
(* callbacks and the progress of the action server, whose acceptance,       *)
(* refusal, result and cancel replies may be delivered at any later time.   *)
(*                                                                          *)
(* Data is abstracted to what the lifecycle tells apart.  A frontier is a   *)
(* model value; a frontier search returns any set of frontiers (the pose,   *)
(* the map and the distance filters decide which); the robot's pose may be  *)
(* unavailable at any call; a costmap is the set of frontiers whose target  *)
(* it blocks; suppression memory is the set of frontiers it hides.          *)
(***************************************************************************)
EXTENDS Naturals, Sequences, FiniteSets, SequencesExt

CONSTANTS
  Frontier,                \* frontiers a search may return
  NoFrontier,              \* an unset optional<FrontierLike>
  Bucket,                  \* the quantised points of a frontier (frontier_signature)
  RequiredHits,            \* replacement_required_hits
  MaxHits,                 \* bound: observations of one replacement in a row
  MaxDispatch,             \* bound: goals dispatched in one behaviour
  MaxCancels,              \* bound: cancel requests in flight for one goal
  GoalPreemptionEnabled,   \* goal_preemption_enabled
  SkipOnBlockedGoal,       \* goal_skip_on_blocked_goal
  CompletionDistance,      \* goal_preemption_complete_if_within_m > 0
  PostGoalSettle,          \* post_goal_settle_enabled
  ReturnOnComplete,        \* return_to_start_on_complete
  SuppressionEnabled,      \* frontier_suppression_enabled
  ReturnWhenSuppressed,    \* all_frontiers_suppressed_behavior = return_to_start
  TimerMode,               \* map_processing_rate_hz > 0
  ForeignCancel            \* another action client may cancel our goals

ASSUME BoundsAssumption ==
  /\ RequiredHits \in Nat \ {0}
  /\ MaxHits \in Nat
  /\ MaxDispatch \in Nat
  /\ MaxCancels \in Nat

ASSUME FrontierAssumption ==
  /\ IsFiniteSet(Frontier)
  /\ NoFrontier \notin Frontier
  /\ Bucket = [f \in Frontier |-> Bucket[f]]

ASSUME FlagAssumption ==
  {GoalPreemptionEnabled, SkipOnBlockedGoal, CompletionDistance,
   PostGoalSettle, ReturnOnComplete, SuppressionEnabled,
   ReturnWhenSuppressed, TimerMode, ForeignCancel} \subseteq BOOLEAN

VARIABLES
  goalState,        \* goal_state; goal_in_progress is goalState # "IDLE"
  goalHandle,       \* goal_handle is set
  goalKind,         \* active_goal_kind, "none" when empty
  goalSeq,          \* active_goal_frontiers, its head is active_goal_frontier
  dispatchId,       \* current_dispatch_id
  watch,            \* the progress tracker of the current goal
  cancelInProgress, \* cancel_request_in_progress
  pendingCancel,    \* pending_cancel_reason is set
  pendingSeq,       \* pending_frontier_sequence
  candidate,        \* replacement_candidate_frontier
  hits,             \* replacement_candidate_hits
  settle,           \* awaiting_map_refresh and its settle clock
  returnStarted,    \* return_to_start_started
  returnCompleted,  \* return_to_start_completed
  suppressedReturn, \* suppressed_return_to_start_started
  startKnown,       \* start_pose is recorded
  enabled,          \* exploration_enabled: a session is running
  mapSeen,          \* map.has_value()
  costSeen,         \* costmap.has_value()
  dirty,            \* decision_map_dirty
  orderCache,       \* mrtsp_order_cache: a signature and the order kept for it
  blocked,          \* frontiers whose target either costmap blocks
  suppressed,       \* frontiers inside a suppression region
  nav,              \* per dispatch: what the action server did with the goal
  cancels,          \* per dispatch: cancel requests without a reply
  answered,         \* dispatches whose goal response was delivered
  resulted          \* dispatches whose result was delivered

goalVars == <<goalState, goalHandle, goalKind, goalSeq, dispatchId, watch>>
cancelVars == <<cancelInProgress, pendingCancel, cancels>>
replaceVars == <<pendingSeq, candidate, hits>>
returnVars == <<returnStarted, returnCompleted, suppressedReturn>>
searchVars == <<dirty, orderCache>>
inputVars == <<mapSeen, costSeen, blocked>>
replyVars == <<answered, resulted>>
vars == <<goalVars, cancelVars, replaceVars, returnVars, inputVars, replyVars,
          searchVars, settle, startKnown, enabled, suppressed, nav>>

Id == 1..MaxDispatch
GoalStates == {"IDLE", "SENDING", "ACTIVE", "CANCELING"}
GoalKinds == {"none", "frontier", "return_to_start", "suppressed_return_to_start"}
NavStates == {"unsent", "sent", "running", "canceling",
              "succeeded", "canceled", "aborted", "rejected"}
Driving == {"running", "canceling"}
Finished == {"succeeded", "canceled", "aborted"}

\* frontier_signature: the quantised points of a candidate set, as a bag.
\* Frontiers of one bucket need not be equivalent: equivalence is by distance.
Signature ==
  [S \in SUBSET Frontier |->
     [b \in Range(Bucket) |-> Cardinality({f \in S : Bucket[f] = b})]]

\* An entry of the order cache: an order made for a set of this signature.
OrderEntry(S, order) == [signature |-> Signature[S], order |-> order]

NoOrder == OrderEntry({}, <<>>)

\* The orders a solver may return for a candidate set: a bounded horizon keeps
\* a prefix, and no feasible transition leaves <<>>.
Orders ==
  [S \in SUBSET Frontier |-> {OrderEntry(S, order) : order \in SetToAllKPermutations(S)}]

OrderEntries == UNION {Orders[S] : S \in SUBSET Frontier}

\* build_mrtsp_frontier_sequence of a non-empty set: the cached entry when its
\* signature fits and pose, yaw and parameters have kept their buckets, or a
\* new one.  Any later call may find the pose in another bucket.
Selections(S) == Orders[S] \cup {e \in {orderCache} : e.signature = Signature[S]}

\* Candidate sets that another one can be taken for.
Ambiguous == {S \in SUBSET Frontier : \E T \in SUBSET Frontier \ {S} : Signature[T] = Signature[S]}

\* The entry left in the cache.  One that no other candidate set could hit is
\* not remembered: a hit for the same set returns what a miss may return too.
Remembered(S, e) == IF S \in Ambiguous THEN e ELSE NoOrder

Blockages == IF SkipOnBlockedGoal THEN SUBSET Frontier ELSE {{}}

TypeOK ==
  /\ goalState \in GoalStates
  /\ goalHandle \in BOOLEAN
  /\ goalKind \in GoalKinds
  /\ goalSeq \in Seq(Frontier)
  /\ dispatchId \in 0..MaxDispatch
  /\ watch \in {"off", "armed", "fired"}
  /\ cancelInProgress \in BOOLEAN
  /\ pendingCancel \in BOOLEAN
  /\ pendingSeq \in Seq(Frontier)
  /\ candidate \in Frontier \cup {NoFrontier}
  /\ hits \in Nat
  /\ candidate = NoFrontier <=> hits = 0
  /\ settle \in {"off", "waiting", "elapsed"}
  /\ returnStarted \in BOOLEAN
  /\ returnCompleted \in BOOLEAN
  /\ suppressedReturn \in BOOLEAN
  /\ startKnown \in BOOLEAN
  /\ enabled \in BOOLEAN
  /\ mapSeen \in BOOLEAN
  /\ costSeen \in BOOLEAN
  /\ dirty \in BOOLEAN
  /\ orderCache \in OrderEntries
  /\ blocked \subseteq Frontier
  /\ suppressed \subseteq Frontier
  /\ nav \in [Id -> NavStates]
  /\ cancels \in [Id -> 0..MaxCancels]
  /\ answered \subseteq Id
  /\ resulted \subseteq Id

\* The node is constructed without a session; autostart is a StartSession.
Init ==
  /\ goalState = "IDLE" /\ goalHandle = FALSE /\ goalKind = "none"
  /\ goalSeq = <<>> /\ dispatchId = 0 /\ watch = "off"
  /\ cancelInProgress = FALSE /\ pendingCancel = FALSE
  /\ pendingSeq = <<>> /\ candidate = NoFrontier /\ hits = 0
  /\ settle = "off"
  /\ returnStarted = FALSE /\ returnCompleted = FALSE /\ suppressedReturn = FALSE
  /\ startKnown = FALSE /\ enabled = FALSE
  /\ mapSeen = FALSE /\ costSeen = FALSE /\ dirty = FALSE
  /\ orderCache = NoOrder
  /\ blocked = {} /\ suppressed = {}
  /\ nav = [i \in Id |-> "unsent"] /\ cancels = [i \in Id |-> 0]
  /\ answered = {} /\ resulted = {}

-----------------------------------------------------------------------------
(* Building blocks of the handlers.                                         *)

\* record_failed_frontier_attempt of f: below the attempt threshold, or before
\* the start-up grace period ends, nothing is hidden; otherwise a region around f
\* is created or grown, hiding its neighbours too, and another may be evicted.
AfterFailure(f, su) ==
  {su} \cup IF SuppressionEnabled THEN {S \in SUBSET Frontier : f \in S} ELSE {}

\* clear_active_goal_state; also what "stay idle" leaves in place.
ClearGoal ==
  /\ goalState' = "IDLE" /\ goalHandle' = FALSE /\ goalKind' = "none"
  /\ goalSeq' = <<>> /\ watch' = "off"

\* Mutant of Refused: the latch of a refused return goal stays up.
RefusedKeepingLatch(kind, seq, su, rl, sl) ==
  /\ ClearGoal
  /\ returnStarted' = rl /\ suppressedReturn' = sl
  /\ suppressed' \in IF kind = "frontier" THEN AfterFailure(Head(seq), su) ELSE {su}

\* The goal was refused: reopen the latch of its kind, count a failed frontier.
Refused(kind, seq, su, rl, sl) ==
  /\ ClearGoal
  /\ returnStarted' = (rl /\ kind # "return_to_start")
  /\ suppressedReturn' = (sl /\ kind # "suppressed_return_to_start")
  /\ suppressed' \in IF kind = "frontier" THEN AfterFailure(Head(seq), su) ELSE {su}

\* dispatch_goal_request and the node's async_send_goal, which either hands the
\* goal over or throws and is answered by a rejection on the spot.  The progress
\* tracker keeps the superseded dispatch id, hence tracks nothing.  su, rl and
\* sl are the suppressed set and the two return latches at the time of the call.
DispatchGoal(kind, seq, su, rl, sl) ==
  /\ dispatchId < MaxDispatch
  /\ dispatchId' = dispatchId + 1
  /\ settle' = "off"
  /\ \/ /\ nav' = [nav EXCEPT ![dispatchId + 1] = "sent"]
        /\ goalState' = "SENDING" /\ goalHandle' = FALSE /\ goalKind' = kind
        /\ goalSeq' = seq /\ watch' = "off"
        /\ returnStarted' = rl /\ suppressedReturn' = sl /\ suppressed' = su
     \/ nav' = nav /\ Refused(kind, seq, su, rl, sl)

BlockedTarget(f) == SkipOnBlockedGoal /\ f \in blocked'

\* Mutant of DispatchFrontier: the blocked prefix is not skipped.
DispatchFirst(order, su, rl, sl) ==
  order # <<>> /\ DispatchGoal("frontier", order, su, rl, sl)

\* send_frontier_goal once the action server is ready: the blocked prefix of the
\* order is skipped, the rest becomes the active sequence.
DispatchFrontier(order, su, rl, sl) ==
  \E k \in 1..Len(order) :
    /\ ~BlockedTarget(order[k])
    /\ \A j \in 1..(k - 1) : BlockedTarget(order[j])
    /\ DispatchGoal("frontier", SubSeq(order, k, Len(order)), su, rl, sl)

\* dispatch_pending_frontier_goal when the goal could be sent.
DispatchPending(order, su, rl, sl) ==
  /\ DispatchFrontier(order, su, rl, sl)
  /\ pendingSeq' = <<>>
  /\ candidate' = NoFrontier /\ hits' = 0

\* Mutant of IssueCancel: the goal counts as gone once its cancel is sent.
IssueOptimisticCancel ==
  /\ pendingCancel' = FALSE
  /\ cancels[dispatchId] < MaxCancels
  /\ cancels' = [cancels EXCEPT ![dispatchId] = @ + 1]
  /\ cancelInProgress' = FALSE /\ goalState' = "IDLE"

\* issue_active_goal_cancel: the reason is consumed, then the request is sent,
\* or async_cancel_goal throws and the failure is reported on the spot.
IssueCancel ==
  /\ pendingCancel' = FALSE
  /\ \/ /\ cancels[dispatchId] < MaxCancels
        /\ cancels' = [cancels EXCEPT ![dispatchId] = @ + 1]
        /\ cancelInProgress' = TRUE /\ goalState' = "CANCELING"
     \/ cancelInProgress' = FALSE /\ goalState' = "ACTIVE" /\ UNCHANGED cancels

\* request_active_goal_cancel: remembered while there is no handle to cancel, or
\* while an earlier cancel is in flight.
RequestCancel ==
  /\ IF ~goalHandle \/ cancelInProgress
     THEN pendingCancel' = TRUE /\ UNCHANGED <<cancelInProgress, cancels, goalState>>
     ELSE IssueCancel
  /\ UNCHANGED <<goalHandle, goalKind, goalSeq, dispatchId, settle, nav>>

-----------------------------------------------------------------------------
(* The scheduler, try_send_next_goal.  Its callers hold no goal.            *)

\* Nothing was dispatched; latch is the suppressed-return latch left behind.
StayIdle(su, latch) ==
  /\ ClearGoal
  /\ suppressed' = su /\ suppressedReturn' = latch
  /\ UNCHANGED <<replaceVars, dispatchId, nav, returnStarted>>

\* handle_exploration_complete.  The start pose is always known by now.
ExplorationComplete(su) ==
  \/ \* return disabled, or already near the start pose
     returnCompleted' = TRUE /\ StayIdle(su, FALSE)
  \/ \* already returning, or the action server is not ready
     /\ ReturnOnComplete
     /\ returnCompleted' = returnCompleted /\ StayIdle(su, FALSE)
  \/ /\ ReturnOnComplete /\ ~returnStarted
     /\ DispatchGoal("return_to_start", <<>>, su, TRUE, FALSE)
     /\ UNCHANGED <<replaceVars, returnCompleted>>

\* handle_all_frontiers_suppressed
AllFrontiersSuppressed(su) ==
  \/ \* waiting in place is configured, already decided, or no server
     /\ returnCompleted' = returnCompleted /\ StayIdle(su, suppressedReturn)
  \/ /\ ReturnWhenSuppressed /\ ~suppressedReturn
     /\ \/ \* already near the start pose: stay there
           returnCompleted' = returnCompleted /\ StayIdle(su, TRUE)
        \/ /\ DispatchGoal("suppressed_return_to_start", <<>>, su, returnStarted, TRUE)
           /\ UNCHANGED <<replaceVars, returnCompleted>>

\* Dispatch the best open frontier; an empty order, a fully blocked one or a
\* server that is not ready leaves the explorer waiting.
SendFrontier(open, su) ==
  \E e \in Selections(open) :
    /\ orderCache' = Remembered(open, e)
    /\ UNCHANGED returnCompleted
    /\ \/ StayIdle(su, FALSE)
       \/ DispatchFrontier(e.order, su, returnStarted, FALSE) /\ UNCHANGED replaceVars

\* The snapshot brings the decision map up to date even when the search then
\* finds the pose outside the map.  The escape-mode second search only widens
\* the set found.
SearchAndSend(su) ==
  /\ dirty' = FALSE
  /\ \/ UNCHANGED <<orderCache, returnCompleted>> /\ StayIdle(su, suppressedReturn)
     \/ \E found \in SUBSET Frontier :
          LET open == found \ su IN
          \/ /\ open = {} /\ UNCHANGED orderCache
             /\ IF found = {} THEN ExplorationComplete(su) ELSE AllFrontiersSuppressed(su)
          \/ open # {} /\ SendFrontier(open, su)

\* Mutant of SendPending: the scheduler searches although a replacement is queued.
SearchDespiteQueue(su) == SearchAndSend(su)

\* A replacement computed earlier goes first; it stays queued until it is sent.
SendPending(su) ==
  /\ UNCHANGED <<searchVars, returnCompleted>>
  /\ \/ StayIdle(su, suppressedReturn)
     \/ DispatchPending(pendingSeq, su, returnStarted, suppressedReturn)

\* Mutants of CanSchedule: one gate is forgotten.
CanScheduleWhenComplete == enabled /\ mapSeen' /\ costSeen' /\ settle # "waiting"
CanScheduleWhileSettling == enabled /\ ~returnCompleted /\ mapSeen' /\ costSeen'

CanSchedule == enabled /\ ~returnCompleted /\ mapSeen' /\ costSeen' /\ settle # "waiting"

\* The caller's new maps are in mapSeen', costSeen' and blocked'; su is the
\* suppression memory it leaves.
TrySendNextGoal(su) ==
  \/ \* a gate is closed, or the pose is unavailable
     /\ StayIdle(su, suppressedReturn)
     /\ UNCHANGED <<settle, startKnown, searchVars, returnCompleted>>
  \/ /\ CanSchedule
     /\ settle' = "off"
     /\ startKnown' = TRUE
     /\ IF pendingSeq # <<>> THEN SendPending(su) ELSE SearchAndSend(su)

\* Every variable a handler's scheduling or preemption step may change.
UnchangedScheduling ==
  UNCHANGED <<goalVars, cancelVars, replaceVars, returnVars, searchVars,
              settle, startKnown, suppressed, nav>>

\* The goal_in_progress gate of try_send_next_goal.
ScheduleIfIdle ==
  IF goalState = "IDLE"
  THEN TrySendNextGoal(suppressed) /\ UNCHANGED cancelVars
  ELSE UnchangedScheduling

-----------------------------------------------------------------------------
(* Preemption of the active frontier goal.                                  *)

\* The active goal stays as it is; only the bookkeeping of its replacement and
\* the queued sequence change.
KeepGoal ==
  UNCHANGED <<goalVars, cancelVars, settle, returnStarted, nav, suppressed>>

\* Mutant of ForgetCandidate: the debounce counter is not reset with it.
ForgetCandidateOnly == candidate' = NoFrontier /\ hits' = hits /\ UNCHANGED pendingSeq

\* reset_replacement_candidate_tracking
ForgetCandidate == candidate' = NoFrontier /\ hits' = 0 /\ UNCHANGED pendingSeq

\* has_stable_replacement_candidate
CountedHits(f) == IF f = candidate THEN hits + 1 ELSE 1

\* request_frontier_reselection, with a handle and a non-empty sequence.
RequestReselection(seq) ==
  LET stable == CountedHits(Head(seq)) >= RequiredHits IN
  /\ UNCHANGED suppressedReturn
  /\ \/ seq = pendingSeq /\ KeepGoal /\ UNCHANGED replaceVars
     \/ /\ seq # pendingSeq /\ CountedHits(Head(seq)) <= MaxHits
        /\ \/ \* not yet stable, or all blocked, or no server: observed, kept queued
              /\ KeepGoal
              /\ candidate' = Head(seq) /\ hits' = CountedHits(Head(seq))
              /\ pendingSeq' = IF stable THEN seq ELSE pendingSeq
           \/ /\ stable
              /\ DispatchPending(seq, suppressed, returnStarted, suppressedReturn)
              /\ UNCHANGED cancelVars

\* Mutant of StillListed: a goal still in the snapshot is preempted too.
NeverListed(isBlocked, open) == FALSE

\* Snapshot membership decides that the active goal, unless blocked, is kept.
StillListed(isBlocked, open) ==
  ~isBlocked /\ GoalPreemptionEnabled /\ Head(goalSeq) \in open

\* The part of consider_preempt_active_goal that looks at a fresh snapshot.
Reselect(isBlocked) ==
  /\ dirty' = FALSE
  /\ \/ \* pose outside the map
        KeepGoal /\ UNCHANGED <<orderCache, replaceVars, suppressedReturn>>
     \/ \E found \in SUBSET Frontier :
          LET open == found \ suppressed IN
          \/ /\ open = {}
             /\ ForgetCandidate
             /\ UNCHANGED <<orderCache, suppressedReturn, returnStarted, suppressed>>
             /\ IF isBlocked THEN RequestCancel /\ UNCHANGED watch ELSE KeepGoal
          \/ /\ StillListed(isBlocked, open)
             /\ ForgetCandidate /\ KeepGoal /\ UNCHANGED <<orderCache, suppressedReturn>>
          \/ /\ open # {} /\ ~StillListed(isBlocked, open)
             /\ \E e \in Selections(open) :
                  /\ orderCache' = Remembered(open, e)
                  /\ IF e.order \in {<<>>, goalSeq}
                     THEN ForgetCandidate /\ KeepGoal /\ UNCHANGED suppressedReturn
                     ELSE RequestReselection(e.order)

\* Cancel the active goal from a map update.
CancelFromMap ==
  RequestCancel /\ UNCHANGED <<replaceVars, returnVars, searchVars, suppressed, watch>>

\* Mutant of MayPreempt: a goal being canceled may be replaced.
MayPreemptTwice == mapSeen' /\ costSeen' /\ goalHandle

MayPreempt == mapSeen' /\ costSeen' /\ goalHandle /\ ~cancelInProgress

\* consider_preempt_active_goal("map").  The first disjunct is every early
\* return: nothing enabled, no pose, an interval not yet over.
ConsiderPreempt ==
  LET isBlocked == BlockedTarget(Head(goalSeq)) IN
  /\ UNCHANGED <<startKnown, returnCompleted>>
  /\ \/ UnchangedScheduling
     \/ /\ MayPreempt
        /\ \/ ~isBlocked /\ CompletionDistance /\ CancelFromMap
           \/ /\ ~isBlocked /\ GoalPreemptionEnabled
              /\ \/ \* the goal still reveals enough from its target pose
                    /\ ForgetCandidate /\ KeepGoal
                    /\ UNCHANGED <<suppressedReturn, searchVars>>
                 \/ \* nothing left to reveal
                    CancelFromMap
           \/ (isBlocked \/ GoalPreemptionEnabled) /\ Reselect(isBlocked)

\* consider_cancel_suppressed_return_to_start: an open frontier replaces the
\* temporary return goal, whether or not that goal was accepted yet.
ConsiderCancelSuppressedReturn ==
  /\ UNCHANGED <<startKnown, returnCompleted>>
  /\ \/ UnchangedScheduling
     \/ /\ mapSeen' /\ costSeen' /\ dirty' = FALSE
        /\ \/ \* pose outside the map, or no open frontier
              KeepGoal /\ UNCHANGED <<orderCache, replaceVars, suppressedReturn>>
           \/ \E found \in SUBSET Frontier :
                LET open == found \ suppressed IN
                open # {} /\ \E e \in Selections(open) :
                  /\ orderCache' = Remembered(open, e)
                  /\ \/ \* nothing can be reached
                        e.order = <<>> /\ KeepGoal /\ UNCHANGED <<replaceVars, suppressedReturn>>
                     \/ \* all blocked, or the action server is not ready
                        /\ e.order # <<>> /\ KeepGoal /\ suppressedReturn' = FALSE
                        /\ pendingSeq' = e.order /\ UNCHANGED <<candidate, hits>>
                     \/ /\ DispatchPending(e.order, suppressed, returnStarted, FALSE)
                        /\ UNCHANGED cancelVars

-----------------------------------------------------------------------------
(* Map, costmap and timer callbacks; the node runs them only in a session.  *)

\* What a map update does with the goal at hand, or without one.
ActOnMap ==
  CASE goalKind = "frontier" -> ConsiderPreempt
    [] goalKind = "suppressed_return_to_start" -> ConsiderCancelSuppressedReturn
    [] OTHER -> ScheduleIfIdle

\* Mutant of Running: callbacks reach the core between sessions.
RunningAlways == TRUE

\* The node's gate on its subscriptions and timers: runtime_state_ is RUNNING.
Running == enabled

\* occupancyGridCallback, or ingestRawMapUpdate when a timer processes maps.
MapMessage ==
  /\ Running
  /\ mapSeen' = TRUE
  /\ UNCHANGED <<costSeen, blocked, enabled, replyVars>>
  /\ IF TimerMode
     THEN /\ dirty' = TRUE
          /\ UNCHANGED <<goalVars, cancelVars, replaceVars, returnVars, orderCache,
                         settle, startKnown, suppressed, nav>>
     ELSE ActOnMap

\* processPendingMapUpdate
MapTimer ==
  /\ Running /\ TimerMode /\ dirty
  /\ UNCHANGED <<inputVars, enabled, replyVars>>
  /\ ActOnMap

\* costmapCallback (global) and localCostmapCallback
CostmapMessage(global) ==
  /\ Running
  /\ costSeen' = (costSeen \/ global)
  /\ blocked' \in Blockages
  /\ UNCHANGED <<mapSeen, enabled, replyVars>>
  /\ CASE goalKind = "frontier" ->
            IF BlockedTarget(Head(goalSeq)) THEN CancelFromMap /\ UNCHANGED startKnown
                                            ELSE UnchangedScheduling
       [] goalKind = "suppressed_return_to_start" -> ConsiderCancelSuppressedReturn
       [] OTHER -> IF ~TimerMode \/ ~dirty THEN ScheduleIfIdle ELSE UnchangedScheduling

\* suppressionWatchdogCallback and evaluate_active_goal_progress_timeout
Watchdog ==
  /\ Running /\ SuppressionEnabled
  /\ goalKind = "frontier" /\ goalState = "ACTIVE" /\ goalHandle /\ ~cancelInProgress
  /\ \/ watch = "off" /\ watch' = "armed" /\ UNCHANGED <<cancelVars, goalState>>
     \/ /\ watch = "armed" /\ watch' = "fired"
        /\ RequestCancel
  /\ UNCHANGED <<goalHandle, goalKind, goalSeq, dispatchId, replaceVars, returnVars,
                 inputVars, replyVars, settle, startKnown, enabled, searchVars, suppressed, nav>>

\* The settle window of post_goal_settle_ready passes.
SettleElapses ==
  /\ settle = "waiting" /\ settle' = "elapsed"
  /\ UNCHANGED <<goalVars, cancelVars, replaceVars, returnVars, inputVars, replyVars,
                 startKnown, enabled, searchVars, suppressed, nav>>

\* Suppression regions outlive their time-to-live.
SuppressionExpires ==
  /\ \E kept \in SUBSET suppressed : kept # suppressed /\ suppressed' = kept
  /\ UNCHANGED <<goalVars, cancelVars, replaceVars, returnVars, inputVars, replyVars,
                 settle, startKnown, enabled, searchVars, nav>>

-----------------------------------------------------------------------------
(* Sessions.                                                                *)

\* Mutant of ResetRuntimeState: the settle window survives the reset.
ResetKeepingSettle ==
  /\ settle' = settle /\ watch' = "off"
  /\ returnStarted' = FALSE /\ returnCompleted' = FALSE /\ suppressedReturn' = FALSE
  /\ pendingSeq' = <<>> /\ candidate' = NoFrontier /\ hits' = 0
  /\ suppressed' = {} /\ blocked' = {}
  /\ mapSeen' = FALSE /\ costSeen' = FALSE /\ dirty' = FALSE
  /\ orderCache' = NoOrder
  /\ UNCHANGED <<startKnown, replyVars, nav, dispatchId, goalKind, goalSeq, goalHandle>>

\* reset_exploration_runtime_state(clear_maps = true), the cancel flags aside
ResetRuntimeState ==
  /\ settle' = "off" /\ watch' = "off"
  /\ returnStarted' = FALSE /\ returnCompleted' = FALSE /\ suppressedReturn' = FALSE
  /\ pendingSeq' = <<>> /\ candidate' = NoFrontier /\ hits' = 0
  /\ suppressed' = {} /\ blocked' = {}
  /\ mapSeen' = FALSE /\ costSeen' = FALSE /\ dirty' = FALSE
  /\ orderCache' = NoOrder
  /\ UNCHANGED <<startKnown, replyVars, nav, dispatchId, goalKind, goalSeq, goalHandle>>

\* start_exploration_session; the node starts one only from COLD_IDLE, which it
\* enters when ready_for_shutdown holds.
StartSession ==
  /\ ~enabled /\ enabled' = TRUE
  /\ goalState = "IDLE" /\ ~cancelInProgress
  /\ ResetRuntimeState
  /\ pendingCancel' = FALSE /\ UNCHANGED <<cancelInProgress, cancels, goalState>>

\* stop_exploration_session: the reset forgets a cancel in flight, so a goal
\* with a handle is canceled again; without one the reason waits for it.
StopSession ==
  /\ enabled' = FALSE
  /\ ResetRuntimeState
  /\ \/ /\ goalState = "IDLE"
        /\ cancelInProgress' = FALSE /\ pendingCancel' = FALSE
        /\ UNCHANGED <<cancels, goalState>>
     \/ /\ goalState # "IDLE" /\ ~goalHandle
        /\ cancelInProgress' = FALSE /\ pendingCancel' = TRUE
        /\ UNCHANGED <<cancels, goalState>>
     \/ goalState # "IDLE" /\ goalHandle /\ IssueCancel

-----------------------------------------------------------------------------
(* Callbacks of the action client.                                          *)

\* Mutants of Stale: replies are not matched to the current dispatch, or are
\* dropped once the session is stopped.
NeverStale(i) == FALSE
StaleOrStopped(i) == i # dispatchId \/ ~enabled

\* A reply of a superseded dispatch reaches the core and is ignored.
Stale(i) == i # dispatchId

UnchangedCore ==
  UNCHANGED <<goalVars, cancelVars, replaceVars, returnVars, settle, searchVars, suppressed, startKnown>>

\* goal_response_callback(accepted = false).  A stored cancel reason and a
\* queued replacement are left as they are.
ResponseRejected(i) ==
  /\ nav[i] = "rejected" /\ i \notin answered
  /\ answered' = answered \cup {i}
  /\ IF Stale(i) THEN UnchangedCore
     ELSE /\ Refused(goalKind, goalSeq, suppressed, returnStarted, suppressedReturn)
          /\ UNCHANGED <<dispatchId, cancelVars, replaceVars, returnCompleted,
                         settle, searchVars, startKnown>>
  /\ UNCHANGED <<inputVars, resulted, enabled, nav>>

\* goal_response_callback(accepted = true).  Progress of a frontier goal is
\* tracked once the suppression grace period is over.
ResponseAccepted(i) ==
  /\ nav[i] \in Driving \cup Finished /\ i \notin answered
  /\ answered' = answered \cup {i}
  /\ IF Stale(i) THEN UnchangedCore
     ELSE /\ goalHandle' = TRUE
          /\ IF pendingCancel /\ ~cancelInProgress THEN IssueCancel
             ELSE goalState' = "ACTIVE" /\ UNCHANGED cancelVars
          /\ watch' \in IF SuppressionEnabled /\ goalKind = "frontier"
                        THEN {"off", "armed"} ELSE {"off"}
          /\ UNCHANGED <<goalKind, goalSeq, dispatchId, replaceVars, returnVars,
                         settle, searchVars, suppressed, startKnown>>
  /\ UNCHANGED <<inputVars, resulted, enabled, nav>>

\* Mutant of CancelRefused: a late refusal is not checked against the goal state.
CancelRefusedUnchecked(i) ==
  /\ cancels[i] > 0
  /\ cancels' = [cancels EXCEPT ![i] = @ - 1]
  /\ IF Stale(i) THEN UNCHANGED <<cancelInProgress, goalState>>
                 ELSE cancelInProgress' = FALSE /\ goalState' = "ACTIVE"
  /\ UNCHANGED <<goalHandle, goalKind, goalSeq, dispatchId, watch, pendingCancel,
                 replaceVars, returnVars, inputVars, replyVars,
                 settle, startKnown, enabled, searchVars, suppressed, nav>>

\* cancel_response_callback without success: refused, or a transport error.  The
\* accepting reply changes nothing (lines 740-751) and is part of NavTakesCancel.
CancelRefused(i) ==
  /\ cancels[i] > 0
  /\ cancels' = [cancels EXCEPT ![i] = @ - 1]
  /\ IF Stale(i) \/ ~cancelInProgress \/ goalState # "CANCELING"
     THEN UNCHANGED <<cancelInProgress, goalState>>
     ELSE cancelInProgress' = FALSE /\ goalState' = "ACTIVE"
  /\ UNCHANGED <<goalHandle, goalKind, goalSeq, dispatchId, watch, pendingCancel,
                 replaceVars, returnVars, inputVars, replyVars,
                 settle, startKnown, enabled, searchVars, suppressed, nav>>

\* The suppression memory a result leaves: a frontier goal that was aborted, or
\* canceled after the watchdog asked for it, counts as a failed attempt.
AfterResult(status) ==
  IF /\ goalKind = "frontier"
     /\ status = "aborted" \/ (status = "canceled" /\ watch = "fired")
  THEN AfterFailure(Head(goalSeq), suppressed) ELSE {suppressed}

\* A failed return goal reopens its latch; a canceled one does not.
LatchAfter(status, kind, latch) == latch /\ ~(status = "aborted" /\ goalKind = kind)

\* Mutant of CompletesExploration: the temporary return counts as the final one.
CompletesOnAnyReturn(status) == status = "succeeded" /\ goalKind # "frontier"

CompletesExploration(status) == status = "succeeded" /\ goalKind = "return_to_start"

\* get_result_callback of the current dispatch.
CurrentResult(status) ==
  LET rl == LatchAfter(status, "return_to_start", returnStarted)
      sl == LatchAfter(status, "suppressed_return_to_start", suppressedReturn)
      done == returnCompleted \/ CompletesExploration(status)
      Closed(su) == /\ ClearGoal /\ suppressed' = su
                    /\ returnStarted' = rl /\ suppressedReturn' = sl
                    /\ returnCompleted' = done
                    /\ UNCHANGED <<replaceVars, dispatchId, nav, searchVars, startKnown>>
  IN
  \E su \in AfterResult(status) :
    \/ ~enabled /\ Closed(su) /\ settle' = "off"
    \/ /\ enabled /\ pendingSeq # <<>>
       /\ \/ Closed(su) /\ UNCHANGED settle
          \/ /\ DispatchPending(pendingSeq, su, rl, sl)
             /\ returnCompleted' = done /\ UNCHANGED <<searchVars, startKnown>>
    \/ /\ enabled /\ pendingSeq = <<>>
       /\ CASE goalKind # "frontier" -> Closed(su) /\ settle' = "off"
            [] goalKind = "frontier" /\ PostGoalSettle -> Closed(su) /\ settle' = "waiting"
            [] OTHER -> TrySendNextGoal(su)

\* Mutant of Result: the cancel flag of the finished goal is not cleared.
ResultKeepingCancel(i) ==
  /\ i \in answered \ resulted /\ nav[i] \in Finished
  /\ resulted' = resulted \cup {i}
  /\ UNCHANGED <<inputVars, answered, enabled, cancels, cancelInProgress>>
  /\ IF Stale(i) THEN UnchangedCore /\ UNCHANGED nav
     ELSE pendingCancel' = FALSE /\ CurrentResult(nav[i])

\* The result of an accepted goal; no cancel state survives the current one.
Result(i) ==
  /\ i \in answered \ resulted /\ nav[i] \in Finished
  /\ resulted' = resulted \cup {i}
  /\ UNCHANGED <<inputVars, answered, enabled, cancels>>
  /\ IF Stale(i) THEN UnchangedCore /\ UNCHANGED nav
     ELSE /\ cancelInProgress' = FALSE /\ pendingCancel' = FALSE
          /\ CurrentResult(nav[i])

-----------------------------------------------------------------------------
(* The NavigateToPose action server, as its replies show it.                *)

UnchangedClient ==
  UNCHANGED <<goalVars, replaceVars, returnVars, inputVars, replyVars, settle, startKnown,
              enabled, searchVars, suppressed, cancelInProgress, pendingCancel>>

\* Goal requests are served in the order they were sent.
NextToServe(i) == nav[i] = "sent" /\ \A j \in 1..(i - 1) : nav[j] # "sent"

\* Accepting a goal preempts the one being driven, which is aborted.
NavAccepts(i) ==
  /\ NextToServe(i)
  /\ nav' = [j \in Id |-> IF j = i THEN "running"
                          ELSE IF nav[j] \in Driving THEN "aborted" ELSE nav[j]]
  /\ UnchangedClient /\ UNCHANGED cancels

NavRejects(i) ==
  /\ NextToServe(i)
  /\ nav' = [nav EXCEPT ![i] = "rejected"]
  /\ UnchangedClient /\ UNCHANGED cancels

NavTakesCancel(i) ==
  /\ cancels[i] > 0 /\ nav[i] = "running"
  /\ nav' = [nav EXCEPT ![i] = "canceling"]
  /\ cancels' = [cancels EXCEPT ![i] = @ - 1]
  /\ UnchangedClient

NavFinishes(i) ==
  /\ \/ nav[i] = "running" /\ \E s \in {"succeeded", "aborted"} : nav' = [nav EXCEPT ![i] = s]
     \/ nav[i] = "canceling" /\ \E s \in Finished : nav' = [nav EXCEPT ![i] = s]
  /\ UnchangedClient /\ UNCHANGED cancels

\* Another client, such as the navigation panel of RViz, cancels our goal.
NavForeignCancel(i) ==
  /\ ForeignCancel /\ nav[i] = "running"
  /\ nav' = [nav EXCEPT ![i] = "canceling"]
  /\ UnchangedClient /\ UNCHANGED cancels

-----------------------------------------------------------------------------
Callbacks ==
  \/ MapMessage \/ MapTimer \/ Watchdog
  \/ \E global \in BOOLEAN : CostmapMessage(global)

Control == StartSession \/ StopSession

Replies(i) == ResponseRejected(i) \/ ResponseAccepted(i) \/ CancelRefused(i) \/ Result(i)

Nav(i) ==
  \/ NavAccepts(i) \/ NavRejects(i) \/ NavTakesCancel(i)
  \/ NavFinishes(i) \/ NavForeignCancel(i)

Time == SettleElapses \/ SuppressionExpires

Next == Callbacks \/ Control \/ Time \/ \E i \in Id : Replies(i) \/ Nav(i)

Spec == Init /\ [][Next]_vars

-----------------------------------------------------------------------------
(* Safety.                                                                  *)

\* The core goes idle only once its latest goal is over at the server, was
\* refused there, or never left the node: stale callbacks never free the slot
\* of a live goal (the dispatch id checks of lines 729, 1023, 1041, 1077 and 1119).
IdleMeansOver ==
  goalState = "IDLE" /\ dispatchId > 0 =>
    nav[dispatchId] \in Finished \cup {"rejected", "unsent"}

\* A goal the core waits for can still report: its response is outstanding, or
\* it was accepted and its result is outstanding.  A late cancel reply must not
\* resurrect a goal whose result is in (lines 734-738).
WaitsForLiveGoal ==
  /\ goalState = "SENDING" =>
       dispatchId > 0 /\ dispatchId \notin answered /\ nav[dispatchId] # "unsent"
  /\ goalState \in {"ACTIVE", "CANCELING"} =>
       /\ goalHandle
       /\ dispatchId \in answered \ resulted
       /\ nav[dispatchId] \in Driving \cup Finished

\* The cancel flag and the CANCELING state are two variables the handlers keep
\* in step: otherwise a goal is never canceled again, or canceled twice.
CancelFlagMatchesState == cancelInProgress <=> goalState = "CANCELING"

\* If the robot is driven by a goal the idle core has forgotten, a replacement
\* for that goal was refused, or could not be sent.
UnattendedOnlyAfterRefusal ==
  goalState = "IDLE" /\ (\E i \in Id : nav[i] \in Driving) =>
    nav[dispatchId] \in {"rejected", "unsent"}

\* A queued replacement never coexists with the final return to the start pose,
\* nor with a finished exploration: the result handler sends it unconditionally.
QueueExcludesFinalReturn ==
  pendingSeq # <<>> => goalKind # "return_to_start" /\ ~returnCompleted

\* The settle window is open only between goals of a running session.
SettleOnlyBetweenGoals == settle # "off" => enabled /\ goalState = "IDLE"

\* The return latch is up only while the return goal it was raised for is in
\* progress, or the return is complete: a latch without a goal would disable the
\* return to start for the rest of the session (lines 816-830, 851-858, 1027-1032).
ReturnLatchHasGoal ==
  returnStarted /\ ~returnCompleted => goalKind = "return_to_start"

Dispatches == dispatchId' # dispatchId

\* Once a session is stopped no goal is sent until the next one starts.
NoDispatchAfterStop == [][~enabled \/ ~enabled' => ~Dispatches]_vars

\* Once exploration is complete no goal is sent until the next session.
NoDispatchAfterCompletion == [][returnCompleted => ~Dispatches]_vars

\* No goal of any kind is sent while the map settles after a goal.
SettleHoldsDispatch == [][settle = "waiting" => ~Dispatches]_vars

\* A frontier goal whose target the latest costmaps block is never sent, be it
\* fresh, a replacement, or queued since before the block appeared.
NeverDispatchesBlocked ==
  [][Dispatches /\ goalKind' = "frontier" => ~BlockedTarget(Head(goalSeq'))]_vars

\* Two frontiers of one bucket are one to the order cache.
HasTwin(f) == \E g \in Frontier \ {f} : Bucket[g] = Bucket[f]

\* A goal being driven is replaced only by a goal for another target, unless
\* the order cache can take its frontier for one of the latest snapshot.
ReplacementChangesTarget ==
  [][Dispatches /\ goalKind = "frontier" /\ goalHandle /\ dispatchId \notin resulted'
       /\ goalKind' = "frontier" =>
     Head(goalSeq') # Head(goalSeq) \/ HasTwin(Head(goalSeq))]_vars

\* Exploration becomes complete only with nothing queued and no goal left; after
\* a goal, only the final return or the last frontier ends it, never the
\* temporary return of a suppressed map.
CompletionIsFinal ==
  [][~returnCompleted /\ returnCompleted' =>
       /\ goalState' = "IDLE" /\ pendingSeq = <<>>
       /\ goalKind \in {"none", "frontier", "return_to_start"}
       /\ goalKind = "return_to_start" => nav[dispatchId] = "succeeded"]_vars

\* A cancel reason belongs to the goal it was given for ("Cancel reason must not
\* leak to the next goal lifecycle", get_result_callback).
CancelReasonStaysWithGoal == [][Dispatches => ~pendingCancel']_vars

\* Suppressed areas are never dispatched ("failure memory temporarily removes
\* repeatedly failing goal areas from reselection", README).
DispatchesOnlyUnsuppressed ==
  [][Dispatches /\ goalKind' = "frontier" => Head(goalSeq') \notin suppressed']_vars

-----------------------------------------------------------------------------
(* Liveness.  The executor delivers every reply, and the server answers and  *)
(* ends every goal (its planner and controller give up in bounded time).     *)

Fairness ==
  \A i \in Id :
    /\ WF_vars(ResponseRejected(i) \/ ResponseAccepted(i))
    /\ WF_vars(Result(i))
    /\ WF_vars(NavAccepts(i) \/ NavRejects(i))
    /\ WF_vars(NavFinishes(i))

FairSpec == Spec /\ Fairness

\* A stopped session lets go of its goal, so the node can reach cold idle or
\* shut down (ready_for_shutdown).
StopDrains == ~enabled ~> goalState = "IDLE" /\ ~cancelInProgress

-----------------------------------------------------------------------------
(* What the lifecycle promises, as the one-slot protocol of GoalSlot.        *)

SlotOf ==
  CASE goalState = "IDLE" -> "free"
    [] goalState = "SENDING" -> "asked"
    [] goalState = "ACTIVE" -> "held"
    [] goalState = "CANCELING" -> "releasing"

GoalIsOver ==
  dispatchId = 0 \/ nav[dispatchId] \in Finished \cup {"rejected", "unsent"}

Slot == INSTANCE GoalSlot WITH session <- enabled, slot <- SlotOf, over <- GoalIsOver

\* Every handler moves the goal slot as the protocol allows: one goal at a time,
\* asked for only in a session, given up only when the server is done with it.
ImplementsGoalSlot == Slot!Spec

=============================================================================
