------------------------ MODULE ControlSessionProofs ------------------------
(***************************************************************************)
(* Proofs about ControlSession and MapStartup: their safety properties, and *)
(* that the node drives the core only as the goal slot protocol allows.     *)
(***************************************************************************)
EXTENDS MapStartup, TLAPS

\* A timer left armed belongs to a stop: the poll never meets an open session,
\* the deferred shutdown only the state it was armed in.
TimersBelongToStops ==
  /\ stopTimer => ~session
  /\ shutdownTimer => runtime = "SHUTDOWN_PENDING"

\* The remembered quit tells the two ends of a stop apart.
QuitTellsEnd ==
  /\ runtime = "COLD_IDLE" => ~pendingQuit
  /\ runtime = "SHUTDOWN_PENDING" => pendingQuit

\* The latch tells how many events the latest session has published.
LatchCounts == events = IF published THEN 1 ELSE 0

IInv ==
  /\ TypeOK
  /\ LatchCounts
  /\ SessionMatchesRuntime
  /\ IdleHoldsNoGoal
  /\ ScheduledStartWaitsInColdIdle
  /\ TimersBelongToStops
  /\ QuitTellsEnd

\* What every step keeps, and what it does to the goal slot.
GoodStep ==
  /\ IInv'
  /\ Core!Next \/ UNCHANGED coreVars

\* A reader of the proofs needs only these from the core: a shut session leaves
\* a free slot free, and no move of the core opens or shuts a session.
LEMMA CoreMoveKeeps ==
  ASSUME TypeOK, Core!Move
  PROVE  /\ session' = session
         /\ slot' \in Core!Slots /\ over' \in BOOLEAN
         /\ ~session /\ slot = "free" => slot' = "free"
BY DEF TypeOK, Core!Move, Core!Ask, Core!ServerDone, Core!Grant, Core!Refuse,
       Core!Release, Core!ReleaseFails, Core!Close, Core!Slots

LEMMA ShutKeeps ==
  ASSUME TypeOK, Core!Shut
  PROVE  /\ session' = FALSE
         /\ slot' \in Core!Slots /\ over' \in BOOLEAN
         /\ slot = "free" => slot' = "free"
BY DEF TypeOK, Core!Shut, Core!Slots

LEMMA ScheduleKinds ==
  /\ Nothing # StartRequested
  /\ \A quit \in BOOLEAN :
       /\ StopRequested(quit) # StartRequested
       /\ StopRequested(quit).quit = quit
  /\ Nothing.quit = FALSE /\ StartRequested.quit = FALSE
BY DEF Nothing, StartRequested, StopRequested

LEMMA InitIInv == Init => IInv
<1> SUFFICES ASSUME Init PROVE IInv
  OBVIOUS
<1>1. TypeOK
  <2>1. scheduled \in {Nothing, StartRequested, StopRequested(TRUE), StopRequested(FALSE)}
    BY DEF Init
  <2>2. runtime \in RuntimeStates /\ slot \in Core!Slots /\ events \in 0..2
    BY DEF Init, RuntimeStates, Core!Slots
  <2>3. /\ pendingQuit \in BOOLEAN /\ quitRequested \in BOOLEAN
        /\ stopTimer \in BOOLEAN /\ shutdownTimer \in BOOLEAN
        /\ published \in BOOLEAN /\ session \in BOOLEAN /\ over \in BOOLEAN
    BY DEF Init
  <2>4. QED
    BY <2>1, <2>2, <2>3 DEF TypeOK
<1>2. ScheduledStartWaitsInColdIdle
  BY ScheduleKinds DEF Init, ScheduledStartWaitsInColdIdle
<1>3. /\ SessionMatchesRuntime /\ IdleHoldsNoGoal /\ TimersBelongToStops /\ QuitTellsEnd
      /\ LatchCounts
  BY DEF Init, SessionMatchesRuntime, IdleHoldsNoGoal, TimersBelongToStops, QuitTellsEnd,
         LatchCounts
<1>4. QED
  BY <1>1, <1>2, <1>3 DEF IInv

-----------------------------------------------------------------------------
(* Steps, one lemma per building block of the node.                         *)

\* The node starts a session from cold idle only, which is where it may.
LEMMA StartRuntimeStep ==
  ASSUME IInv, runtime = "COLD_IDLE", StartRuntime, scheduled' = Nothing
  PROVE  GoodStep
<1>1. Core!Open
  BY DEF IInv, SessionMatchesRuntime, IdleHoldsNoGoal, StartRuntime, Core!Open
<1>2. published' = FALSE /\ events' = 0 /\ LatchCounts'
  BY DEF IInv, SessionMatchesRuntime, StartRuntime, OpenCount, LatchCounts
<1>3. TypeOK'
  <2>1. /\ runtime' = "RUNNING" /\ session' = TRUE
        /\ pendingQuit' = FALSE /\ quitRequested' = FALSE
        /\ stopTimer' = FALSE /\ shutdownTimer' = FALSE
        /\ UNCHANGED <<slot, over>>
    BY DEF StartRuntime
  <2>2. events' \in 0..2
    BY <1>2
  <2>3. QED
    BY <1>2, <2>1, <2>2 DEF IInv, TypeOK, RuntimeStates
<1>4. /\ SessionMatchesRuntime' /\ IdleHoldsNoGoal' /\ ScheduledStartWaitsInColdIdle'
      /\ TimersBelongToStops' /\ QuitTellsEnd'
  BY DEF SessionMatchesRuntime, IdleHoldsNoGoal, ScheduledStartWaitsInColdIdle,
         TimersBelongToStops, QuitTellsEnd, StartRuntime, Nothing, StartRequested
<1>5. QED
  BY <1>1, <1>2, <1>3, <1>4 DEF GoodStep, IInv, Core!Next

LEMMA RequestStopStep ==
  ASSUME IInv, runtime # "SHUTDOWN_PENDING", NEW quit \in BOOLEAN,
         RequestStop(quit), scheduled' = Nothing
  PROVE  GoodStep
<1>1. Core!Shut
  BY DEF RequestStop
<1>2. session' = FALSE /\ slot' \in Core!Slots /\ over' \in BOOLEAN
  BY <1>1, ShutKeeps DEF IInv
<1>3. /\ shutdownTimer = FALSE
      /\ UNCHANGED <<quitRequested, published, events>> /\ pendingQuit' = quit
  BY DEF IInv, TypeOK, TimersBelongToStops, RequestStop, eventVars
<1>4. IInv'
  <2>1. CASE slot' = "free"
    <3>1. /\ runtime' = IF quit THEN "SHUTDOWN_PENDING" ELSE "COLD_IDLE"
          /\ shutdownTimer' = quit /\ stopTimer' = stopTimer
      BY <2>1, <1>3 DEF RequestStop, Stopped
    <3>2. QED
      BY <1>2, <1>3, <2>1, <3>1
      DEF IInv, TypeOK, SessionMatchesRuntime, IdleHoldsNoGoal, LatchCounts,
          ScheduledStartWaitsInColdIdle, TimersBelongToStops, QuitTellsEnd,
          RuntimeStates, Nothing, StartRequested
  <2>2. CASE slot' # "free"
    <3>1. runtime' = "STOPPING" /\ stopTimer' = TRUE /\ shutdownTimer' = FALSE
      BY <2>2, <1>3 DEF RequestStop
    <3>2. QED
      BY <1>2, <1>3, <3>1
      DEF IInv, TypeOK, SessionMatchesRuntime, IdleHoldsNoGoal, LatchCounts,
          ScheduledStartWaitsInColdIdle, TimersBelongToStops, QuitTellsEnd,
          RuntimeStates, Nothing, StartRequested
  <2>3. QED
    BY <2>1, <2>2
<1>5. QED
  BY <1>1, <1>3, <1>4 DEF GoodStep, Core!Next

\* A request that changes the schedule alone.
LEMMA ScheduleStep ==
  ASSUME IInv, NodeUnchanged,
         scheduled' \in {scheduled, Nothing, StopRequested(TRUE), StopRequested(FALSE)}
           \/ (runtime = "COLD_IDLE" /\ scheduled' = StartRequested)
  PROVE  GoodStep
<1>1. IInv'
  BY DEF IInv, NodeUnchanged, TypeOK, SessionMatchesRuntime, IdleHoldsNoGoal, LatchCounts,
         ScheduledStartWaitsInColdIdle, TimersBelongToStops, QuitTellsEnd,
         Nothing, StartRequested, StopRequested, timerVars, quitVars, eventVars, coreVars
<1>2. QED
  BY <1>1 DEF GoodStep, NodeUnchanged, eventVars, coreVars

LEMMA RequestsStep == IInv /\ Requests => GoodStep
<1> SUFFICES ASSUME IInv, Requests PROVE GoodStep
  OBVIOUS
<1>1. ASSUME NEW delayed \in BOOLEAN, StartRequest(delayed) PROVE GoodStep
  <2>1. CASE runtime = "COLD_IDLE" /\ ~delayed
    BY <1>1, <2>1, StartRuntimeStep DEF StartRequest
  <2>2. CASE ~(runtime = "COLD_IDLE" /\ ~delayed)
    BY <1>1, <2>2, ScheduleStep DEF StartRequest
  <2>3. QED
    BY <2>1, <2>2
<1>2. ASSUME NEW quit \in BOOLEAN, StopRequest(quit) PROVE GoodStep
  BY <1>2, RequestStopStep DEF StopRequest
<1>3. ASSUME NEW quit \in BOOLEAN, DelayedStopRequest(quit) PROVE GoodStep
  <2>1. scheduled' \in {StopRequested(TRUE), StopRequested(FALSE)}
    BY <1>3 DEF DelayedStopRequest
  <2>2. QED
    BY <1>3, <2>1, ScheduleStep DEF DelayedStopRequest
<1>4. QED
  BY <1>1, <1>2, <1>3 DEF Requests

LEMMA ControlTimerStep == IInv /\ ControlTimer => GoodStep
<1> SUFFICES ASSUME IInv, ControlTimer PROVE GoodStep
  OBVIOUS
<1>1. CASE scheduled = StartRequested /\ runtime = "COLD_IDLE" /\ StartRuntime
  BY <1>1, StartRuntimeStep DEF ControlTimer
<1>2. CASE NodeUnchanged
  BY <1>2, ScheduleStep DEF ControlTimer
<1>3. CASE runtime # "SHUTDOWN_PENDING" /\ RequestStop(scheduled.quit)
  <2>1. scheduled.quit \in BOOLEAN
    BY ScheduleKinds DEF IInv, TypeOK
  <2>2. QED
    BY <1>3, <2>1, RequestStopStep DEF ControlTimer
<1>4. QED
  BY <1>1, <1>2, <1>3 DEF ControlTimer

LEMMA StopPollStep == IInv /\ StopPoll => GoodStep
<1> SUFFICES ASSUME IInv, StopPoll PROVE GoodStep
  OBVIOUS
<1>1. UNCHANGED <<scheduled, pendingQuit, quitRequested, published, events, session, slot, over>>
  BY DEF StopPoll, quitVars, eventVars, coreVars
<1>2. IInv'
  BY <1>1
  DEF IInv, StopPoll, Stopped, TypeOK, SessionMatchesRuntime, IdleHoldsNoGoal, LatchCounts,
      ScheduledStartWaitsInColdIdle, TimersBelongToStops, QuitTellsEnd,
      RuntimeStates, Core!Slots
<1>3. QED
  BY <1>1, <1>2 DEF GoodStep, coreVars

LEMMA DeferredShutdownStep == IInv /\ DeferredShutdown => GoodStep
<1> SUFFICES ASSUME IInv, DeferredShutdown PROVE GoodStep
  OBVIOUS
<1>1. UNCHANGED <<scheduled, stopTimer, pendingQuit, published, events, session, slot, over>>
  BY DEF DeferredShutdown, eventVars, coreVars
<1>2. runtime' = runtime /\ runtime = "SHUTDOWN_PENDING"
  BY DEF DeferredShutdown, IInv, TimersBelongToStops
<1>3. quitRequested' = TRUE /\ shutdownTimer' = FALSE
  BY DEF DeferredShutdown
<1>4. TypeOK'
  BY <1>1, <1>2, <1>3 DEF IInv, TypeOK
<1>5. /\ SessionMatchesRuntime' /\ IdleHoldsNoGoal' /\ ScheduledStartWaitsInColdIdle'
      /\ TimersBelongToStops' /\ QuitTellsEnd' /\ LatchCounts'
  BY <1>1, <1>2, <1>3
  DEF IInv, SessionMatchesRuntime, IdleHoldsNoGoal, ScheduledStartWaitsInColdIdle,
      TimersBelongToStops, QuitTellsEnd, LatchCounts
<1>6. QED
  BY <1>1, <1>4, <1>5 DEF IInv, GoodStep, coreVars

\* The node's own variables, events aside, and a move of the core or none.
LEMMA CoreStep ==
  ASSUME IInv, Core!Move \/ UNCHANGED coreVars,
         UNCHANGED <<runtime, scheduled, timerVars, quitVars>>,
         published' \in BOOLEAN, LatchCounts'
  PROVE  IInv'
<1>1. UNCHANGED <<runtime, scheduled, stopTimer, shutdownTimer, pendingQuit, quitRequested>>
  BY DEF timerVars, quitVars
<1>2. /\ session' = session
      /\ slot' \in Core!Slots /\ over' \in BOOLEAN
      /\ ~session /\ slot = "free" => slot' = "free"
  BY CoreMoveKeeps DEF IInv, TypeOK, coreVars
<1>3. events' \in 0..2
  BY DEF LatchCounts
<1>4. QED
  BY <1>1, <1>2, <1>3
  DEF IInv, TypeOK, SessionMatchesRuntime, IdleHoldsNoGoal,
      ScheduledStartWaitsInColdIdle, TimersBelongToStops, QuitTellsEnd

LEMMA CoreMoveStep == IInv /\ CoreMove => GoodStep
<1> SUFFICES ASSUME IInv, CoreMove PROVE GoodStep
  OBVIOUS
<1>1. UNCHANGED <<published, events>>
  BY DEF CoreMove, eventVars
<1>2. IInv'
  BY <1>1, CoreStep DEF CoreMove, IInv, TypeOK, LatchCounts, timerVars, quitVars
<1>3. QED
  BY <1>1, <1>2 DEF GoodStep, CoreMove, Core!Next

LEMMA ExhaustedStep == IInv /\ Exhausted => GoodStep
<1> SUFFICES ASSUME IInv, Exhausted PROVE GoodStep
  OBVIOUS
<1>1. Core!Move \/ UNCHANGED coreVars
  BY DEF Exhausted, Core!Move
<1>2. published' \in BOOLEAN /\ LatchCounts'
  <2>1. published \in BOOLEAN /\ LatchCounts
    BY DEF IInv, TypeOK
  <2>2. CASE CompletionEventEnabled /\ ~published
    <3>1. published' = TRUE /\ events' = IF events < 2 THEN events + 1 ELSE events
      BY <2>2 DEF Exhausted, PublishCompletion
    <3>2. events = 0
      BY <2>1, <2>2 DEF LatchCounts
    <3>3. QED
      BY <3>1, <3>2 DEF LatchCounts
  <2>3. CASE ~(CompletionEventEnabled /\ ~published)
    <3>1. UNCHANGED <<published, events>>
      BY <2>3 DEF Exhausted, PublishCompletion, eventVars
    <3>2. QED
      BY <2>1, <3>1 DEF LatchCounts
  <2>4. QED
    BY <2>2, <2>3
<1>3. IInv'
  BY <1>1, <1>2, CoreStep DEF Exhausted, timerVars, quitVars
<1>4. QED
  BY <1>1, <1>3 DEF GoodStep, Core!Next

LEMMA StutterStep == IInv /\ UNCHANGED vars => GoodStep
<1> SUFFICES ASSUME IInv, UNCHANGED vars PROVE GoodStep
  OBVIOUS
<1>1. UNCHANGED <<runtime, scheduled, timerVars, quitVars, coreVars, published, events>>
  BY DEF vars, eventVars
<1>2. IInv'
  BY <1>1, CoreStep DEF IInv, TypeOK, LatchCounts
<1>3. QED
  BY <1>1, <1>2 DEF GoodStep

LEMMA NextGoodStep == IInv /\ [Next]_vars => GoodStep
BY RequestsStep, ControlTimerStep, StopPollStep, DeferredShutdownStep,
   CoreMoveStep, ExhaustedStep, StutterStep DEF Next

LEMMA Invariance == Spec => []IInv
<1>1. IInv /\ [Next]_vars => IInv'
  BY NextGoodStep DEF GoodStep
<1>2. QED
  BY InitIInv, <1>1, PTL DEF Spec

-----------------------------------------------------------------------------
(* The results.                                                             *)

\* Every variable of the node keeps its type.
THEOREM TypeCorrect == Spec => []TypeOK
<1>1. IInv => TypeOK
  BY DEF IInv
<1>2. QED
  BY Invariance, <1>1, PTL

\* Exploration is enabled exactly while the node says RUNNING.
THEOREM SessionIsRuntime == Spec => []SessionMatchesRuntime
<1>1. IInv => SessionMatchesRuntime
  BY DEF IInv
<1>2. QED
  BY Invariance, <1>1, PTL

\* Cold idle and shutdown are entered only with no goal left.
THEOREM IdleIsIdle == Spec => []IdleHoldsNoGoal
<1>1. IInv => IdleHoldsNoGoal
  BY DEF IInv
<1>2. QED
  BY Invariance, <1>1, PTL

\* A delayed start waits only where its timer can honour it.
THEOREM DelayedStartIsHonoured == Spec => []ScheduledStartWaitsInColdIdle
<1>1. IInv => ScheduledStartWaitsInColdIdle
  BY DEF IInv
<1>2. QED
  BY Invariance, <1>1, PTL

\* However requests, stops and exhausted searches follow one another, a session
\* publishes one completion event at most, and its latch is set only by its own.
THEOREM PublishesOncePerSession == Spec => []OneEventPerSession
<1>1. IInv => OneEventPerSession
  BY DEF IInv, TypeOK, LatchCounts, OneEventPerSession
<1>2. QED
  BY Invariance, <1>1, PTL

\* The node opens and shuts sessions as the goal slot protocol allows.
THEOREM ImplementsProtocol == Spec => RespectsGoalSlot
<1>1. Init => Core!Init
  BY DEF Init, Core!Init
<1>2. IInv /\ [Next]_vars => [Core!Next]_(Core!slotVars)
  BY NextGoodStep DEF GoodStep, coreVars, Core!slotVars
<1>3. QED
  BY Invariance, <1>1, <1>2, PTL DEF Spec, RespectsGoalSlot, Core!Spec

-----------------------------------------------------------------------------
(* The map sources of a session.                                            *)

\* A step that is not the runtime's leaves the runtime alone, so what the node does
\* with its maps is hidden from ControlSession.
THEOREM StartupIsControl == StartupSpec => FairSpec
<1>1. StartupInit => Init
  BY DEF StartupInit
<1>2. [StartupNext]_startupVars => [Next]_vars
  BY DEF StartupNext, RuntimeStep, Publish, MapReceived, DetectTimeout, ProcessMap, startupVars
<1>3. QED
  BY <1>1, <1>2, PTL DEF StartupSpec, FairSpec, Spec

\* The values that tell the subscriptions of a session apart: a detection under way
\* has its timer, and one that has not switched holds the configured durability.
SetupOK ==
  /\ session \in BOOLEAN /\ rate \in BOOLEAN /\ interval.samples \in Nat
  /\ setup.configured \in Durabilities
  /\ setup.autodetect \in BOOLEAN /\ setup.timed \in BOOLEAN
  /\ detect \in {"initial", "fallback"} => setup.autodetect

SourcesInv == SetupOK /\ SubscriptionFollows /\ TimerFollows /\ HeardMapIsTaken

LEMMA InitSources == StartupInit => SourcesInv
<1> SUFFICES ASSUME StartupInit PROVE SourcesInv
  OBVIOUS
<1>1. session \in BOOLEAN
  BY DEF StartupInit, Init
<1>2. setup.configured \in Durabilities /\ setup.autodetect \in BOOLEAN /\ setup.timed \in BOOLEAN
  BY DEF StartupInit
<1>3. SetupOK
  BY <1>1, <1>2 DEF SetupOK, StartupInit, NoInterval
<1>4. SubscriptionFollows /\ TimerFollows
  BY <1>1, <1>2, DurabilityAssumption DEF SubscriptionFollows, TimerFollows, StartupInit
<1>5. HeardMapIsTaken
  BY DEF HeardMapIsTaken, StartupInit
<1>6. QED
  BY <1>3, <1>4, <1>5 DEF SourcesInv

LEMMA OpenSources ==
  ASSUME SourcesInv, ~session, session', UNCHANGED setup, session' \in BOOLEAN, OpenMaps
  PROVE  SourcesInv'
<1>1. SetupOK'
  BY DEF SourcesInv, SetupOK, OpenMaps, NoInterval
<1>2. SubscriptionFollows' /\ TimerFollows'
  BY DurabilityAssumption DEF SourcesInv, SetupOK, SubscriptionFollows, TimerFollows, OpenMaps, Subscribe
<1>3. HeardMapIsTaken'
  BY DEF HeardMapIsTaken, OpenMaps
<1>4. QED
  BY <1>1, <1>2, <1>3 DEF SourcesInv

LEMMA CloseSources ==
  ASSUME SourcesInv, ~session', UNCHANGED setup, session' \in BOOLEAN, CloseMaps
  PROVE  SourcesInv'
<1>1. SetupOK'
  BY DEF SourcesInv, SetupOK, CloseMaps
<1>2. SubscriptionFollows' /\ TimerFollows'
  BY DEF SubscriptionFollows, TimerFollows, CloseMaps
<1>3. HeardMapIsTaken'
  BY DEF HeardMapIsTaken, CloseMaps
<1>4. QED
  BY <1>1, <1>2, <1>3 DEF SourcesInv

LEMMA StillSources ==
  ASSUME SourcesInv, UNCHANGED <<session, setup, mapVars>>
  PROVE  SourcesInv'
BY DEF SourcesInv, SetupOK, SubscriptionFollows, TimerFollows, HeardMapIsTaken, mapVars

LEMMA RuntimeSources ==
  ASSUME SourcesInv, IInv, RuntimeStep
  PROVE  SourcesInv'
<1>1. session' \in BOOLEAN /\ UNCHANGED setup
  <2>1. IInv'
    BY NextGoodStep DEF RuntimeStep, GoodStep
  <2>2. QED
    BY <2>1 DEF IInv, TypeOK, RuntimeStep
<1>2. CASE ~session /\ session' /\ OpenMaps
  BY <1>1, <1>2, OpenSources
<1>3. CASE session /\ ~session' /\ CloseMaps
  BY <1>1, <1>3, CloseSources
<1>4. CASE session' = session /\ UNCHANGED mapVars
  BY <1>1, <1>4, StillSources
<1>5. QED
  BY <1>2, <1>3, <1>4 DEF RuntimeStep

LEMMA MapReceivedSources ==
  ASSUME SourcesInv, MapReceived
  PROVE  SourcesInv'
<1>1. UNCHANGED <<session, setup, sub>> /\ session /\ heard'
  BY DEF MapReceived, vars, coreVars
<1>2. detect' \in {detect, "over"} /\ detect' \in {"off", "over"}
  BY DEF MapReceived, SourcesInv, HeardMapIsTaken
<1>3. /\ rate' \in BOOLEAN
      /\ interval'.samples \in Nat
      /\ rate' # rate => setup.timed /\ rate' /\ processing'
      /\ rate' = rate => (processing' <=> processing)
  <2>1. CASE setup.timed /\ ~rate
    <3> DEFINE samples == interval.samples + IF interval.arrived THEN 1 ELSE 0
    <3>1. interval.samples \in Nat /\ samples \in Nat
      BY DEF SourcesInv, SetupOK
    <3>2. rate' = (samples >= Samples) /\ processing' = (processing \/ samples >= Samples)
      BY <2>1 DEF MapReceived, Calibrated
    <3> HIDE DEF samples
    <3>3. (samples >= Samples) \in BOOLEAN
      BY <3>1 DEF Samples
    <3>4. interval'.samples \in Nat
      BY <2>1, <3>1 DEF MapReceived, Calibrated
    <3>5. CASE samples >= Samples
      <4>1. rate' = TRUE /\ processing' = TRUE
        BY <3>2, <3>5
      <4>2. QED
        BY <2>1, <3>4, <4>1
    <3>6. CASE ~(samples >= Samples)
      <4>1. rate' = FALSE /\ (processing' <=> processing)
        BY <3>2, <3>3, <3>6, Zenon
      <4>2. QED
        BY <2>1, <3>4, <4>1 DEF SourcesInv, SetupOK
    <3>7. QED
      BY <3>5, <3>6
  <2>2. CASE ~setup.timed \/ rate
    BY <2>2 DEF MapReceived, Calibrated, SourcesInv, SetupOK
  <2>3. QED
    BY <2>1, <2>2
<1>4. served' \/ waiting'
  BY DEF MapReceived
<1>5. SetupOK'
  BY <1>1, <1>2, <1>3 DEF SourcesInv, SetupOK
<1>6. SubscriptionFollows' /\ TimerFollows'
  BY <1>1, <1>2, <1>3 DEF SourcesInv, SetupOK, SubscriptionFollows, TimerFollows
<1>7. HeardMapIsTaken'
  BY <1>1, <1>2, <1>4 DEF HeardMapIsTaken
<1>8. QED
  BY <1>5, <1>6, <1>7 DEF SourcesInv

LEMMA DetectTimeoutSources ==
  ASSUME SourcesInv, DetectTimeout
  PROVE  SourcesInv'
<1>1. /\ UNCHANGED <<session, setup, heard, rate, interval, processing, waiting, served>>
      /\ session /\ ~heard /\ setup.autodetect
  BY DEF DetectTimeout, vars, coreVars, SourcesInv, SetupOK
<1>2. CASE detect = "initial" /\ Fallback(sub) # None
  <2>1. detect' = "fallback" /\ sub' = Fallback(sub) /\ sub = setup.configured
    BY <1>1, <1>2 DEF DetectTimeout, Subscribe, SourcesInv, SubscriptionFollows, TimerFollows
  <2>2. QED
    BY <1>1, <1>2, <2>1 DEF SourcesInv, SetupOK, SubscriptionFollows, TimerFollows, HeardMapIsTaken
<1>3. CASE ~(detect = "initial" /\ Fallback(sub) # None)
  <2>1. detect' = "over" /\ sub' = sub
    BY <1>3 DEF DetectTimeout
  <2>2. QED
    BY <1>1, <2>1 DEF SourcesInv, SetupOK, SubscriptionFollows, TimerFollows, HeardMapIsTaken
<1>4. QED
  BY <1>2, <1>3

LEMMA ProcessMapSources ==
  ASSUME SourcesInv, ProcessMap
  PROVE  SourcesInv'
<1>1. UNCHANGED <<session, setup, sub, detect, heard, rate, interval, processing>> /\ heard /\ served'
  BY DEF ProcessMap, vars, coreVars, SourcesInv, HeardMapIsTaken
<1>2. QED
  BY <1>1 DEF SourcesInv, SetupOK, SubscriptionFollows, TimerFollows, HeardMapIsTaken

LEMMA PublishSources ==
  ASSUME SourcesInv, Publish
  PROVE  SourcesInv'
<1>1. UNCHANGED <<session, setup, sub, detect, heard, rate, interval, processing, waiting, served>>
  BY DEF Publish, vars, coreVars
<1>2. QED
  BY <1>1 DEF SourcesInv, SetupOK, SubscriptionFollows, TimerFollows, HeardMapIsTaken

LEMMA SourcesInvariance == StartupSpec => []SourcesInv
<1>1. StartupSpec => []IInv
  BY StartupIsControl, Invariance, PTL DEF FairSpec
<1>2. IInv /\ SourcesInv /\ [StartupNext]_startupVars => SourcesInv'
  <2> SUFFICES ASSUME IInv, SourcesInv, [StartupNext]_startupVars PROVE SourcesInv'
    OBVIOUS
  <2>1. CASE UNCHANGED startupVars
    <3>1. UNCHANGED <<session, setup, mapVars>>
      BY <2>1 DEF startupVars, vars, coreVars
    <3>2. QED
      BY <3>1, StillSources
  <2>2. QED
    BY <2>1, RuntimeSources, PublishSources, MapReceivedSources, DetectTimeoutSources,
       ProcessMapSources DEF StartupNext
<1>3. QED
  BY InitSources, <1>1, <1>2, PTL DEF StartupSpec

\* The subscription and the processing timer live and end with the session; a map
\* that was heard settles the detection, and is processed or waits to be.
THEOREM SourcesAreTheSessions == StartupSpec => []SourcesFollowSession
<1>1. SourcesInv => SourcesFollowSession
  BY DEF SourcesInv, SourcesFollowSession
<1>2. QED
  BY SourcesInvariance, <1>1, PTL

=============================================================================
