--------------------------- MODULE ControlSession ---------------------------
(***************************************************************************)
(* The run-time states of FrontierExplorerNode and its control service:     *)
(* start and stop requests, immediate or delayed, the stop sequence, the    *)
(* deferred shutdown and the completion event.                              *)
(*                                                                          *)
(* The exploration core appears as the protocol it implements, GoalSlot:    *)
(* between two steps of the node it may make any move that protocol allows. *)
(* Delays are not timed: a timer fires at any later moment.                 *)
(***************************************************************************)
EXTENDS Naturals

CONSTANTS
  CompletionEventEnabled  \* completion_event_enabled

ASSUME CompletionEventAssumption == CompletionEventEnabled \in BOOLEAN

VARIABLES
  runtime,       \* runtime_state_
  scheduled,     \* scheduled_control_request_; its timer is control_timer_
  pendingQuit,   \* pending_quit_after_stop_
  quitRequested, \* quit_requested_: main leaves its spin loop
  stopTimer,     \* stop_completion_timer_ is armed
  shutdownTimer, \* deferred_shutdown_timer_ is armed
  published,     \* completion_event_published_
  events,        \* completion events of the latest session, counted up to two
  session,       \* the core's exploration_enabled
  slot,          \* the core's goal slot
  over           \* the server is done with the core's latest goal

timerVars == <<stopTimer, shutdownTimer>>
quitVars == <<pendingQuit, quitRequested>>
eventVars == <<published, events>>
coreVars == <<session, slot, over>>
vars == <<runtime, scheduled, timerVars, quitVars, eventVars, coreVars>>

Core == INSTANCE GoalSlot

RuntimeStates == {"COLD_IDLE", "RUNNING", "STOPPING", "SHUTDOWN_PENDING"}
Nothing == [action |-> "none", quit |-> FALSE]
StartRequested == [action |-> "start", quit |-> FALSE]
StopRequested(quit) == [action |-> "stop", quit |-> quit]

TypeOK ==
  /\ runtime \in RuntimeStates
  /\ scheduled \in {Nothing, StartRequested, StopRequested(TRUE), StopRequested(FALSE)}
  /\ pendingQuit \in BOOLEAN
  /\ quitRequested \in BOOLEAN
  /\ stopTimer \in BOOLEAN
  /\ shutdownTimer \in BOOLEAN
  /\ published \in BOOLEAN
  /\ events \in 0..2
  /\ session \in BOOLEAN
  /\ slot \in Core!Slots
  /\ over \in BOOLEAN

\* The constructor starts exploration when autostart is set.
Init ==
  /\ \/ runtime = "RUNNING" /\ session = TRUE
     \/ runtime = "COLD_IDLE" /\ session = FALSE
  /\ scheduled = Nothing
  /\ pendingQuit = FALSE /\ quitRequested = FALSE
  /\ stopTimer = FALSE /\ shutdownTimer = FALSE
  /\ published = FALSE /\ events = 0
  /\ slot = "free" /\ over = TRUE

\* main's loop runs callbacks until a quit is requested.
Spinning == ~quitRequested

-----------------------------------------------------------------------------
(* Starting and stopping.                                                   *)

\* The count of the events begins anew where a session is opened, and nowhere else:
\* it does not follow the latch.
OpenCount == events' = IF session THEN events ELSE 0

\* Mutant of StartRuntime: the poll of an earlier stop stays armed.
StartRuntimeKeepingPoll ==
  /\ runtime' = "RUNNING"
  /\ pendingQuit' = FALSE /\ quitRequested' = FALSE
  /\ shutdownTimer' = FALSE /\ UNCHANGED stopTimer
  /\ published' = FALSE /\ OpenCount
  /\ session' = TRUE /\ UNCHANGED <<slot, over>>

\* startExplorationRuntime
StartRuntime ==
  /\ runtime' = "RUNNING"
  /\ pendingQuit' = FALSE /\ quitRequested' = FALSE
  /\ stopTimer' = FALSE /\ shutdownTimer' = FALSE
  /\ published' = FALSE /\ OpenCount
  /\ session' = TRUE /\ UNCHANGED <<slot, over>>

\* Mutant of Stopped: the quit asked for with the stop is forgotten.
StoppedForgettingQuit(quit) == runtime' = "COLD_IDLE" /\ UNCHANGED shutdownTimer

\* The stop is complete: cold idle, or the deferred shutdown.
Stopped(quit) ==
  /\ runtime' = IF quit THEN "SHUTDOWN_PENDING" ELSE "COLD_IDLE"
  /\ shutdownTimer' = (quit \/ shutdownTimer)

\* Mutant of RequestStop: the node does not wait for the core to be ready.
RequestStopAtOnce(quit) ==
  /\ pendingQuit' = quit /\ UNCHANGED quitRequested
  /\ Core!Shut
  /\ Stopped(quit) /\ UNCHANGED <<stopTimer, eventVars>>

\* Mutant of RequestStop: a repeated stop does not arm the poll again.
RequestStopWithoutPoll(quit) ==
  /\ pendingQuit' = quit /\ UNCHANGED quitRequested
  /\ Core!Shut
  /\ IF slot' = "free" THEN Stopped(quit) /\ UNCHANGED stopTimer
     ELSE /\ runtime' = "STOPPING" /\ stopTimer' = (runtime # "STOPPING")
          /\ UNCHANGED shutdownTimer
  /\ UNCHANGED eventVars

\* requestStopExplorationRuntime: the core's slot decides (ready_for_shutdown).
\* A poll still armed from an earlier stop is left armed.
RequestStop(quit) ==
  /\ pendingQuit' = quit /\ UNCHANGED quitRequested
  /\ Core!Shut
  /\ IF slot' = "free" THEN Stopped(quit) /\ UNCHANGED stopTimer
     ELSE runtime' = "STOPPING" /\ stopTimer' = TRUE /\ UNCHANGED shutdownTimer
  /\ UNCHANGED eventVars

NodeUnchanged == UNCHANGED <<runtime, timerVars, quitVars, eventVars, coreVars>>

-----------------------------------------------------------------------------
(* The control service and its timers.                                      *)

\* Mutant of StartRequest: an immediate start leaves a delayed start scheduled.
StartRequestKeepingSchedule(delayed) ==
  /\ Spinning
  /\ IF runtime = "COLD_IDLE" /\ ~delayed
     THEN StartRuntime /\ UNCHANGED scheduled
     ELSE /\ NodeUnchanged
          /\ scheduled' = IF runtime = "COLD_IDLE" THEN StartRequested ELSE scheduled

\* Mutant of StartRequest: the state of the node is not looked at, so that a start
\* of a running node starts it over, and one of a stopping node cuts the stop short.
StartRequestInAnyState(delayed) ==
  /\ Spinning
  /\ IF ~delayed
     THEN StartRuntime /\ scheduled' = Nothing
     ELSE /\ NodeUnchanged
          /\ scheduled' = IF runtime = "COLD_IDLE" THEN StartRequested ELSE scheduled

\* handleControlRequest, ACTION_START.  An immediate start clears the schedule
\* even when it is then rejected.
StartRequest(delayed) ==
  /\ Spinning
  /\ IF runtime = "COLD_IDLE" /\ ~delayed
     THEN StartRuntime /\ scheduled' = Nothing
     ELSE /\ NodeUnchanged
          /\ scheduled' = IF ~delayed THEN Nothing
                          ELSE IF runtime = "COLD_IDLE" THEN StartRequested ELSE scheduled

\* handleControlRequest, ACTION_STOP, delayed
DelayedStopRequest(quit) ==
  /\ Spinning
  /\ runtime # "COLD_IDLE" \/ scheduled = StartRequested
  /\ scheduled' = StopRequested(quit)
  /\ NodeUnchanged

\* handleControlRequest, ACTION_STOP, immediate
StopRequest(quit) ==
  /\ Spinning
  /\ runtime # "SHUTDOWN_PENDING"
  /\ RequestStop(quit) /\ scheduled' = Nothing

\* controlTimerCallback
ControlTimer ==
  /\ Spinning
  /\ scheduled # Nothing /\ scheduled' = Nothing
  /\ \/ scheduled = StartRequested /\ runtime = "COLD_IDLE" /\ StartRuntime
     \/ scheduled = StartRequested /\ runtime # "COLD_IDLE" /\ NodeUnchanged
     \/ /\ scheduled.action = "stop" /\ runtime = "SHUTDOWN_PENDING"
        /\ NodeUnchanged
     \/ /\ scheduled.action = "stop" /\ runtime # "SHUTDOWN_PENDING"
        /\ RequestStop(scheduled.quit)

\* stopCompletionPollCallback
StopPoll ==
  /\ Spinning
  /\ stopTimer /\ slot = "free"
  /\ stopTimer' = FALSE
  /\ Stopped(pendingQuit)
  /\ UNCHANGED <<scheduled, quitVars, eventVars, coreVars>>

\* deferredShutdownCallback
DeferredShutdown ==
  /\ Spinning
  /\ shutdownTimer /\ shutdownTimer' = FALSE
  /\ runtime' = "SHUTDOWN_PENDING" /\ quitRequested' = TRUE
  /\ UNCHANGED <<scheduled, stopTimer, pendingQuit, eventVars, coreVars>>

-----------------------------------------------------------------------------
(* The core.                                                                *)

CoreMove ==
  /\ Spinning
  /\ Core!Move
  /\ UNCHANGED <<runtime, scheduled, timerVars, quitVars, eventVars>>

\* publishCompletionEvent
PublishCompletion ==
  IF CompletionEventEnabled /\ ~published
  THEN published' = TRUE /\ events' = IF events < 2 THEN events + 1 ELSE events
  ELSE UNCHANGED eventVars

\* on_exploration_complete: a search without frontiers, from a free slot or on
\* the result of the last goal; the return to the start pose may follow.
Exhausted ==
  /\ Spinning
  /\ session
  /\ \/ slot = "free" /\ (UNCHANGED coreVars \/ Core!Ask)
     \/ Core!Close
  /\ PublishCompletion
  /\ UNCHANGED <<runtime, scheduled, timerVars, quitVars>>

-----------------------------------------------------------------------------
Requests ==
  \/ \E delayed \in BOOLEAN : StartRequest(delayed)
  \/ \E quit \in BOOLEAN : StopRequest(quit) \/ DelayedStopRequest(quit)

Next ==
  \/ Requests \/ ControlTimer \/ StopPoll \/ DeferredShutdown
  \/ CoreMove \/ Exhausted

Spec == Init /\ [][Next]_vars

\* Timers fire; the server answers and ends every goal and the core hears of it.
Fairness ==
  /\ WF_vars(StopPoll)
  /\ WF_vars(DeferredShutdown)
  /\ WF_vars(CoreMove /\ Core!ServerDone)
  /\ WF_vars(CoreMove /\ (Core!Grant \/ Core!Refuse))
  /\ WF_vars(CoreMove /\ Core!Close)

FairSpec == Spec /\ Fairness

-----------------------------------------------------------------------------
(* Properties.                                                              *)

\* Exploration is enabled exactly while the node says RUNNING: a poll or a timer
\* left over from an earlier stop never turns a running session into cold idle.
SessionMatchesRuntime == session <=> runtime = "RUNNING"

\* Cold idle and shutdown are entered only once the core holds no goal, however
\* many stops, starts and schedules preceded (ready_for_shutdown, lines 735-748).
IdleHoldsNoGoal == runtime \in {"COLD_IDLE", "SHUTDOWN_PENDING"} => slot = "free"

\* A delayed start waits only in cold idle, so its timer never finds the node in
\* a state in which it would be dropped without a word (lines 879-884).
ScheduledStartWaitsInColdIdle == scheduled = StartRequested => runtime = "COLD_IDLE"

\* The node opens and shuts sessions only as the goal slot protocol allows: what
\* the core promises rests on it.
RespectsGoalSlot == Core!Spec

\* However often a session finds its frontiers exhausted, and whatever requests
\* come in between, it publishes one completion event at most; and the latch it is
\* held back by is its own: that of an earlier session silences no later one
\* (lines 546, 1154-1159).
OneEventPerSession == events <= 1 /\ (published => events = 1)

\* A stop ends: the node reaches cold idle or the shutdown.
StopCompletes == runtime = "STOPPING" ~> runtime # "STOPPING"

\* A stop with quit ends the process, unless a later stop without quit replaces it.
QuitHonoured ==
  runtime \in {"STOPPING", "SHUTDOWN_PENDING"} /\ pendingQuit ~> quitRequested \/ ~pendingQuit

=============================================================================
