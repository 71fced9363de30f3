----------------------------- MODULE MapStartup -----------------------------
(***************************************************************************)
(* How a session of the node comes by its maps: the map subscription, the  *)
(* startup detection of its durability, and the calibration of the rate at *)
(* which maps are processed.                                               *)
(*                                                                         *)
(* A session is that of ControlSession, whose steps open and close the map *)
(* sources here.  A subscription hears a publisher if the publisher offers *)
(* the durability it asks for; one that asks for transient_local is given  *)
(* the last map published before.  Its queue holds one map (map_depth).    *)
(* The detection timeout is not timed: it may come before the first map.   *)
(***************************************************************************)
EXTENDS ControlSession

CONSTANTS
  None,        \* no subscription
  Durabilities \* values of map_qos_durability

ASSUME DurabilityAssumption ==
  /\ Durabilities \subseteq {"transient_local", "volatile", "system_default"}
  /\ None \notin Durabilities /\ Durabilities # {}

Samples == 3   \* kStartupMapRateSampleCount

VARIABLES
  setup,     \* parameters of the node and the publisher of the map, fixed
  shown,     \* the publisher has published
  sub,       \* map_sub_: the durability it asks for
  inbox,     \* a map waits in its queue
  detect,    \* map_qos_autodetect_; its timer is armed while it is not over
  heard,     \* map_received_once_
  missed,    \* a detection timeout came before a map the subscription could hear
  rate,      \* effective_map_processing_rate_hz_ has a value
  interval,  \* startup_map_interval_samples_s_ and last_map_arrival_at_
  processing, \* map_processing_timer_ is armed
  waiting,   \* the core's decision_map_dirty: a map to be processed by the timer
  served     \* the session has processed a map

mapVars == <<shown, sub, inbox, detect, heard, missed, rate, interval, processing, waiting, served>>
startupVars == <<vars, setup, mapVars>>

NoInterval == [arrived |-> FALSE, samples |-> 0]

\* fallback_durability_for
Fallback(durability) ==
  CASE durability = "transient_local" -> "volatile"
    [] durability = "volatile" -> "transient_local"
    [] OTHER -> None

\* The middleware: what a publisher offers a subscription, and what it keeps.
Hears(durability) ==
  durability # None /\ (durability = "transient_local" => setup.published = "transient_local")
Keeps(durability) == Hears(durability) /\ durability = "transient_local"

\* createMapSubscription
Subscribe(durability) == sub' = durability /\ inbox' = (shown /\ Keeps(durability))

\* Mutant of OpenMaps: a calibrated rate of an earlier session arms no timer.
OpenMapsUncalibrated ==
  /\ Subscribe(setup.configured)
  /\ detect' = IF setup.autodetect THEN "initial" ELSE "off"
  /\ heard' = FALSE /\ missed' = FALSE /\ waiting' = FALSE /\ served' = FALSE
  /\ processing' = FALSE
  /\ interval' = IF setup.timed /\ ~rate THEN NoInterval ELSE interval
  /\ UNCHANGED <<shown, rate>>

\* The map sources of startExplorationRuntime, and the reset of the core.
OpenMaps ==
  /\ Subscribe(setup.configured)
  /\ detect' = IF setup.autodetect THEN "initial" ELSE "off"
  /\ heard' = FALSE /\ missed' = FALSE /\ waiting' = FALSE /\ served' = FALSE
  /\ processing' = (setup.timed /\ rate)
  /\ interval' = IF setup.timed /\ ~rate THEN NoInterval ELSE interval
  /\ UNCHANGED <<shown, rate>>

\* Mutant of CloseMaps: the timer of a rate that is set runs on in cold idle.
CloseMapsTicking ==
  /\ sub' = None /\ inbox' = FALSE /\ detect' = "off" /\ heard' = FALSE /\ missed' = FALSE
  /\ waiting' = FALSE /\ served' = FALSE
  /\ UNCHANGED <<shown, rate, interval, processing>>

\* enterColdIdle, and the reset of the core: the rate and its samples stay.  What
\* arrives between the stop and cold idle is dropped, so it is closed at once here.
CloseMaps ==
  /\ sub' = None /\ inbox' = FALSE /\ detect' = "off" /\ heard' = FALSE /\ missed' = FALSE
  /\ processing' = FALSE /\ waiting' = FALSE /\ served' = FALSE
  /\ UNCHANGED <<shown, rate, interval>>

\* A step of the node's runtime, with what it does to the map sources.
RuntimeStep ==
  /\ Next /\ UNCHANGED setup
  /\ \/ ~session /\ session' /\ OpenMaps
     \/ session /\ ~session' /\ CloseMaps
     \/ session' = session /\ UNCHANGED mapVars

-----------------------------------------------------------------------------
\* A map is published; one that is latched is published once.
Publish ==
  /\ setup.streams \/ ~shown
  /\ shown' = TRUE /\ inbox' = (inbox \/ Hears(sub))
  /\ UNCHANGED <<vars, setup, sub, detect, heard, missed, rate, interval, processing, waiting, served>>

\* The sampling of occupancyGridCallback with maybeFinalizeMapProcessingRateEstimate:
\* the rate is set with the third interval, whatever the samples say of it.
Calibrated ==
  LET samples == interval.samples + IF interval.arrived THEN 1 ELSE 0
  IN IF rate
     THEN UNCHANGED <<rate, interval, processing>>
     ELSE /\ interval' = [arrived |-> TRUE, samples |-> samples]
          /\ rate' = (samples >= Samples)
          /\ processing' = (processing \/ samples >= Samples)

\* occupancyGridCallback
MapReceived ==
  /\ Spinning /\ session /\ inbox
  /\ inbox' = FALSE /\ heard' = TRUE
  /\ detect' = IF heard \/ detect = "off" THEN detect ELSE "over"
  /\ IF setup.timed
     THEN Calibrated /\ waiting' = TRUE /\ UNCHANGED served
     ELSE served' = TRUE /\ UNCHANGED <<rate, interval, processing, waiting>>
  /\ UNCHANGED <<vars, setup, shown, sub, missed>>

\* mapAutodetectTimeoutCallback: one switch, then the detection is over and the
\* last subscription stays.
DetectTimeout ==
  /\ Spinning /\ session /\ detect \in {"initial", "fallback"} /\ ~heard
  /\ missed' = (missed \/ Hears(sub))
  /\ IF detect = "initial" /\ Fallback(sub) # None
     THEN detect' = "fallback" /\ Subscribe(Fallback(sub))
     ELSE detect' = "over" /\ UNCHANGED <<sub, inbox>>
  /\ UNCHANGED <<vars, setup, shown, heard, rate, interval, processing, waiting, served>>

\* mapProcessingTimerCallback: the core takes up the map that waits, if one does.
ProcessMap ==
  /\ Spinning /\ session /\ processing /\ waiting
  /\ served' = TRUE /\ waiting' \in BOOLEAN
  /\ UNCHANGED <<vars, setup, shown, sub, inbox, detect, heard, missed, rate, interval, processing>>

StartupInit ==
  /\ Init
  /\ setup \in [configured : Durabilities, published : {"transient_local", "volatile"},
                streams : BOOLEAN, autodetect : BOOLEAN, timed : BOOLEAN]
  /\ shown = FALSE /\ rate = FALSE /\ interval = NoInterval
  /\ inbox = FALSE /\ heard = FALSE /\ missed = FALSE
  /\ processing = FALSE /\ waiting = FALSE /\ served = FALSE
  /\ sub = IF session THEN setup.configured ELSE None
  /\ detect = IF session /\ setup.autodetect THEN "initial" ELSE "off"

StartupNext == RuntimeStep \/ Publish \/ MapReceived \/ DetectTimeout \/ ProcessMap

\* Timers fire, callbacks run, the publisher publishes.
StartupSpec ==
  /\ StartupInit /\ [][StartupNext]_startupVars
  /\ Fairness
  /\ WF_startupVars(Publish) /\ WF_startupVars(MapReceived)
  /\ WF_startupVars(DetectTimeout) /\ WF_startupVars(ProcessMap)

-----------------------------------------------------------------------------
\* The subscription is the session's: of the configured durability or, once a
\* detection turned away from it, of the other one.
SubscriptionFollows ==
  /\ session <=> sub # None
  /\ session /\ sub # setup.configured =>
        setup.autodetect /\ detect # "initial" /\ sub = Fallback(setup.configured)

\* The processing timer runs exactly in the sessions that have a rate to run it at,
\* also one calibrated in an earlier session.
TimerFollows == processing <=> session /\ setup.timed /\ rate

\* The first map a session hears settles it: the detection is over, so that no timeout
\* takes the subscription away again, and what was heard has been processed or waits
\* for the timer.  No session counts as heard what another one got.
HeardMapIsTaken ==
  /\ heard => session /\ (served \/ waiting) /\ detect \in {"off", "over"}
  /\ served \/ waiting => heard

\* What brings a session its maps lives and ends with it, however starts, stops,
\* timeouts and maps follow one another.
SourcesFollowSession == SubscriptionFollows /\ TimerFollows /\ HeardMapIsTaken

\* What a subscription gets of the publisher for sure: a stream, or the map kept.
Gets(durability) == IF setup.streams THEN Hears(durability) ELSE Keeps(durability)

Obtainable ==
  Gets(setup.configured) \/ (setup.autodetect /\ Gets(Fallback(setup.configured)))

\* The detection turned away from a durability that would have worked, as the map
\* came after the timeout, and ended on one that does not.
GaveUp == detect = "over" /\ ~heard /\ missed /\ ~Gets(sub)

\* A session that runs on gets to process a map if its configured durability, or
\* with detection the other one, can get at the maps.  Exempt are a session whose
\* detection gave up, and one with a processing rate on a map that is latched: one
\* map makes no interval, so the rate is never calibrated and no timer is armed.
SessionGetsMaps ==
  session /\ Obtainable /\ (setup.streams \/ ~setup.timed)
    ~> served \/ ~session \/ GaveUp \/ quitRequested

=============================================================================
