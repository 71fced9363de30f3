--------------------------- MODULE TargetSelection ---------------------------
(***************************************************************************)
(* How the core picks a frontier to drive to: maps and cost maps arrive,   *)
(* the frontier search is cached under the generations of its inputs, what *)
(* it finds is filtered by the failure memory, ordered (the last order is  *)
(* cached too) and sent.                                                   *)
(*                                                                         *)
(* Every function of the core runs to its end within a callback, so the    *)
(* core is one record and a function maps it to the set of its outcomes.   *)
(* The goal itself is one of three phases here: how it is sent, canceled   *)
(* and answered and the settle window are those of GoalLifecycle, whose    *)
(* gates may close on any update.  Left out is the queue of a replacement  *)
(* that cannot be sent at once (dispatch.cpp 68-72 and 1148-1152 send it   *)
(* as it was queued, without a look at the maps): GoalLifecycle has it.    *)
(* A frontier is its goal point, and so is the pose sent for it: with a    *)
(* frontier_selection_min_distance, build_dispatch_goal_pose moves the     *)
(* pose of a frontier next to the robot to a free cell farther away.       *)
(***************************************************************************)
EXTENDS FailureMemory

CONSTANTS
  None,            \* std::nullopt
  Points,          \* goal points
  Robots,          \* positions of the robot
  Maps,            \* contents of the map topic
  Decision(_),     \* the decision map built from a map
  Search(_, _, _, _), \* get_frontier: decision map, cost map, robot, distance
  Costs,           \* contents of the cost map topics: the points they block
  MinDistances,    \* minimum goal distances, BaseDistance among them
  BaseDistance,    \* frontier_candidate_min_goal_distance_m
  SkipBlocked,     \* goal_skip_on_blocked_goal
  Suppression,     \* frontier_suppression_enabled
  Grace,           \* frontier_suppression_startup_grace_period_s
  ReturnsToStart,  \* all_frontiers_suppressed_behavior = return_to_start
  MaxTime, MaxUpdates  \* bounds of the model: the clock, messages and sessions

ASSUME SelectionAssumption ==
  /\ None \notin Maps /\ None \notin Costs
  /\ Points \subseteq Int \X Int /\ Robots \subseteq Int \X Int /\ Robots # {}
  /\ \A m \in Maps : Decision(m) # None
  /\ \A m \in Maps, c \in Costs, r \in Robots, d \in MinDistances :
       Search(Decision(m), c, r, d) \subseteq Points
  /\ BaseDistance \in MinDistances
  /\ {SkipBlocked, Suppression, ReturnsToStart} \subseteq BOOLEAN
  /\ {Grace, MaxTime, MaxUpdates} \subseteq Nat

VARIABLES
  core,     \* what FrontierExplorerCore holds (EmptyCore lists it)
  enabled,  \* exploration_enabled: the node runs a session
  activeAt, \* frontier_suppression_activation_ns_
  robot,    \* where the robot is
  timer,    \* map_processing_rate_hz > 0: maps wait for a timer
  now,      \* the clock
  spent     \* messages and sessions so far

vars == <<core, enabled, activeAt, robot, timer, now, spent>>

NoGoal == [kind |-> "none", target |-> None]
ReturnGoal == [kind |-> "return", target |-> None]
FrontierGoal(p) == [kind |-> "frontier", target |-> p]

EmptyCore ==
  [raw |-> None, dirty |-> FALSE,          \* map, decision_map_dirty
   decided |-> None, mapGen |-> 0,         \* decision_map and its generation
   global |-> None, globalGen |-> 0, globalPending |-> FALSE,
   local |-> None, localGen |-> 0, localPending |-> FALSE,
   snapshot |-> None,                      \* frontier_snapshot
   order |-> None,                         \* mrtsp_order_cache
   memory |-> FreshMemory,                 \* frontier_suppression_
   returning |-> FALSE,                    \* suppressed_return_to_start_started
   goal |-> NoGoal]

Init ==
  /\ core = EmptyCore /\ enabled = FALSE /\ activeAt = 0
  /\ robot \in Robots /\ timer \in BOOLEAN /\ now = 0 /\ spent = 0

-----------------------------------------------------------------------------
\* refresh_decision_map: a decision map that changed discards the snapshot.  That
\* a changed one is reported as changed is DecisionMap's FlagTellsChange; a crop
\* of the window that dirties no chunk is not reported, and not a change here.
Refreshed(c) ==
  IF c.raw = None \/ Decision(c.raw) = c.decided
  THEN [c EXCEPT !.dirty = FALSE]
  ELSE [c EXCEPT !.dirty = FALSE, !.decided = Decision(c.raw), !.mapGen = @ + 1,
                 !.snapshot = None]

\* ingestRawMapUpdate
Ingested(c, m) == [c EXCEPT !.raw = m, !.dirty = TRUE]

\* commit_deferred_costmap_search_input_updates
Committed(c) ==
  IF ~c.globalPending /\ ~c.localPending
  THEN c
  ELSE [c EXCEPT !.globalGen = IF c.globalPending THEN @ + 1 ELSE @,
                 !.localGen = IF c.localPending THEN @ + 1 ELSE @,
                 !.globalPending = FALSE, !.localPending = FALSE, !.snapshot = None]

\* Mutant of KeyMatches: the cell of the robot is left out.
KeyMatchesAnywhere(s, c, distance) ==
  /\ s # None
  /\ s.mapGen = c.mapGen /\ s.globalGen = c.globalGen /\ s.localGen = c.localGen
  /\ s.distance = distance

\* frontier_snapshot_matches
KeyMatches(s, c, distance) ==
  /\ s # None
  /\ s.mapGen = c.mapGen /\ s.globalGen = c.globalGen /\ s.localGen = c.localGen
  /\ s.cell = robot /\ s.distance = distance

\* get_frontier_snapshot
Looked(c, distance) ==
  LET d == IF c.decided = None \/ c.dirty THEN Refreshed(c) ELSE c
  IN IF KeyMatches(d.snapshot, d, distance)
     THEN d
     ELSE [d EXCEPT !.snapshot =
             [mapGen |-> d.mapGen, globalGen |-> d.globalGen, localGen |-> d.localGen,
              cell |-> robot, distance |-> distance,
              points |-> Search(d.decided, d.global, robot, distance)]]

\* suppression_runtime_active
SuppressionActive == Suppression /\ now >= activeAt

\* filter_frontiers_for_suppression of the snapshot, with the clean-up it does.
Cleaned(c) == IF SuppressionActive THEN [c EXCEPT !.memory = Pruned(@, now)] ELSE c
Candidates(c) ==
  IF SuppressionActive THEN Unsuppressed(c.memory, c.snapshot.points) ELSE c.snapshot.points

\* frontier_signature: how many frontiers there are in each bucket.
Signature(points) ==
  [b \in {Bucket(p) : p \in points} |-> Cardinality({p \in points : Bucket(p) = b})]

\* build_mrtsp_frontier_sequence: the frontiers of the cached order, or some of
\* the candidates (the dp solver plans for a part of them).
Ordered(c) ==
  LET signature == Signature(Candidates(c))
  IN IF c.order # None /\ c.order.signature = signature /\ c.order.pose = Bucket(robot)
     THEN {c}
     ELSE {[c EXCEPT !.order = [signature |-> signature, pose |-> Bucket(robot), stops |-> stops]] :
             stops \in (SUBSET Candidates(c)) \ {{}}}

\* frontier_cost_status
Blocked(c, p) == (c.local # None /\ p \in c.local) \/ p \in c.global

\* send_frontier_goal: a stop that is not blocked, or no goal while there is none
\* or the action server is not ready.  The goal is named by the stop it is for.
Dispatched(c) ==
  {c} \cup {[c EXCEPT !.goal = FrontierGoal(p)] :
              p \in {q \in c.order.stops : ~SkipBlocked \/ ~Blocked(c, q)}}

\* handle_all_frontiers_suppressed: wait, at the start pose or on the way to it.
AllSuppressed(c) ==
  IF ~ReturnsToStart \/ c.returning
  THEN {c}
  ELSE {c, [c EXCEPT !.returning = TRUE], [c EXCEPT !.returning = TRUE, !.goal = ReturnGoal]}

\* try_send_next_goal; the gates it asks may be closed, and a robot off the map
\* ends it after the refresh.
TrySend(c) ==
  IF ~enabled \/ c.goal # NoGoal \/ c.raw = None \/ c.global = None
  THEN {c}
  ELSE LET committed == Committed(c)
           Chosen(d) ==
             IF Candidates(d) # {}
             THEN UNION {Dispatched(e) : e \in Ordered([d EXCEPT !.returning = FALSE])}
             ELSE IF d.snapshot.points # {} THEN AllSuppressed(d)
             ELSE {[d EXCEPT !.returning = FALSE]}   \* the final return is GoalLifecycle's
       IN {committed, IF committed.dirty THEN Refreshed(committed) ELSE committed}
            \cup UNION {Chosen(Cleaned(Looked(committed, distance))) : distance \in MinDistances}

\* consider_preempt_active_goal for a map update: its gates may be closed, the goal
\* may be kept or canceled, or replaced.
ConsiderPreempt(c) ==
  IF c.raw = None \/ c.global = None
  THEN {c}
  ELSE LET looked == Cleaned(Looked(c, BaseDistance))
       IN {c, looked}
            \cup IF Candidates(looked) = {} THEN {}
                 ELSE UNION {Dispatched(d) : d \in Ordered(looked)}

\* consider_cancel_suppressed_return_to_start
ConsiderCancelReturn(c) ==
  IF c.raw = None \/ c.global = None
  THEN {c}
  ELSE LET looked == Cleaned(Looked(c, BaseDistance))
       IN {c} \cup IF Candidates(looked) = {} THEN {looked}
                   ELSE UNION {Dispatched([d EXCEPT !.returning = FALSE]) : d \in Ordered(looked)}

\* What a map update leads to, by the goal that is driven.
OnMap(c) ==
  CASE c.goal.kind = "frontier" -> ConsiderPreempt(c)
    [] c.goal.kind = "return" -> ConsiderCancelReturn(c)
    [] OTHER -> TrySend(c)

\* Mutant of DeferredGlobal: the update is not remembered.
ForgottenGlobal(c, g) == [c EXCEPT !.global = g]

\* A cost map that came while a goal was driven is committed later.
DeferredGlobal(c, g) == [c EXCEPT !.global = g, !.globalPending = TRUE]
DeferredLocal(c, g) == [c EXCEPT !.local = g, !.localPending = TRUE]

\* The rest of a cost map callback: a blocked goal is only canceled.
OnCost(c) ==
  CASE c.goal.kind = "frontier" -> {c}
    [] c.goal.kind = "return" -> ConsiderCancelReturn(c)
    [] OTHER -> IF timer /\ c.dirty THEN {Committed(c)} ELSE TrySend(Committed(c))

-----------------------------------------------------------------------------
Spend == spent < MaxUpdates /\ spent' = spent + 1
Rest == UNCHANGED <<enabled, activeAt, robot, timer, now>>

\* occupancyGridCallback; with a processing rate the map only waits for the timer.
MapArrives ==
  /\ enabled /\ Spend /\ Rest
  /\ \E m \in Maps :
       IF timer THEN core' = Ingested(core, m)
       ELSE core' \in OnMap(Refreshed(Ingested(core, m)))

\* mapProcessingTimerCallback
TimerFires ==
  /\ enabled /\ timer /\ core.dirty /\ Rest /\ UNCHANGED spent
  /\ core' \in OnMap(core)

\* costmapCallback: without a goal an update with the same content is none.
CostArrives ==
  /\ enabled /\ Spend /\ Rest
  /\ \E g \in Costs :
       core' \in OnCost(IF core.goal = NoGoal /\ core.global = g
                        THEN core ELSE DeferredGlobal(core, g))

\* localCostmapCallback
LocalCostArrives ==
  /\ enabled /\ Spend /\ Rest
  /\ \E g \in Costs :
       core' \in OnCost(IF core.goal = NoGoal /\ core.local = g
                        THEN core ELSE DeferredLocal(core, g))

\* After the result of a frontier goal the next is looked for, at once or, with
\* post_goal_settle_enabled, on an update after the settle window.
AfterFrontier(c) == {c} \cup TrySend(c)

\* A goal is reached, canceled or lost.
GoalEnds ==
  /\ core.goal # NoGoal /\ Rest /\ UNCHANGED spent
  /\ LET over == [core EXCEPT !.goal = NoGoal]
     IN core' \in IF core.goal.kind = "frontier" THEN AfterFrontier(over) ELSE {over}

\* A goal is rejected, aborted, or canceled by the watchdog: the target is
\* remembered, a temporary return may start again.  After a rejection nothing is
\* looked for, which AfterFrontier allows too.
GoalFails ==
  /\ core.goal # NoGoal /\ Rest /\ UNCHANGED spent
  /\ LET over == [core EXCEPT !.goal = NoGoal]
     IN IF core.goal.kind = "return" THEN core' = [over EXCEPT !.returning = FALSE]
        ELSE core' \in UNION {AfterFrontier([over EXCEPT !.memory = memory]) :
               memory \in IF SuppressionActive
                          THEN Recorded(core.memory, core.goal.target, now)
                          ELSE {core.memory}}

\* Mutant of StartSession: the grace period is counted backwards.
StartSessionGraceBefore ==
  /\ ~enabled /\ Spend
  /\ enabled' = TRUE /\ activeAt' = now - Grace
  /\ core' = [EmptyCore EXCEPT !.goal = core.goal]
  /\ UNCHANGED <<robot, timer, now>>

\* start_exploration_session and stop_exploration_session: nothing is kept but
\* the goal, whose cancel is asked for.
StartSession ==
  /\ ~enabled /\ Spend
  /\ enabled' = TRUE /\ activeAt' = now + Grace
  /\ core' = [EmptyCore EXCEPT !.goal = core.goal]
  /\ UNCHANGED <<robot, timer, now>>

StopSession ==
  /\ enabled /\ enabled' = FALSE /\ activeAt' = 0
  /\ core' = [EmptyCore EXCEPT !.goal = core.goal]
  /\ UNCHANGED <<robot, timer, now, spent>>

RobotMoves ==
  /\ robot' \in Robots \ {robot}
  /\ UNCHANGED <<core, enabled, activeAt, timer, now, spent>>

Tick ==
  /\ now < MaxTime /\ now' = now + 1
  /\ UNCHANGED <<core, enabled, activeAt, robot, timer, spent>>

Next ==
  \/ MapArrives \/ TimerFires \/ CostArrives \/ LocalCostArrives
  \/ GoalEnds \/ GoalFails \/ StartSession \/ StopSession
  \/ RobotMoves \/ Tick

Spec == Init /\ [][Next]_vars

-----------------------------------------------------------------------------
Snapshots ==
  [mapGen : Nat, globalGen : Nat, localGen : Nat, cell : Robots,
   distance : MinDistances, points : SUBSET Points]

TypeOK ==
  /\ core.raw \in Maps \cup {None}
  /\ core.decided \in {Decision(m) : m \in Maps} \cup {None}
  /\ core.global \in Costs \cup {None} /\ core.local \in Costs \cup {None}
  /\ {core.dirty, core.globalPending, core.localPending, core.returning, enabled, timer} \subseteq BOOLEAN
  /\ core.mapGen \in Nat /\ core.globalGen \in Nat /\ core.localGen \in Nat
  /\ core.snapshot \in Snapshots \cup {None}
  /\ core.order # None => core.order.stops \subseteq Points
  /\ core.goal \in {NoGoal, ReturnGoal} \cup {FrontierGoal(p) : p \in Points}
  /\ robot \in Robots /\ now \in 0..MaxTime /\ spent \in 0..MaxUpdates /\ activeAt \in Nat

\* The tables of the failure memory: a region absorbs the records of its area.
RegionsAbsorbFailures == Absorbed(core.memory)

\* A snapshot that could be reused was searched on the decision map and the cost
\* map the core holds, unless a cost map is waiting to be committed.
SnapshotIsFresh ==
  core.snapshot # None =>
    /\ core.snapshot.mapGen = core.mapGen
    /\ core.snapshot.globalGen = core.globalGen /\ core.snapshot.localGen = core.localGen
    /\ ~core.globalPending =>
         core.snapshot.points =
           Search(core.decided, core.global, core.snapshot.cell, core.snapshot.distance)

\* What the caches may make of a target that is looked for and sent (a queued one
\* is not: see the header).  With goal_skip_on_blocked_goal it is not blocked in the
\* cost maps the core holds.  And, when no global cost map is waiting to be
\* committed (while a frontier goal is driven one may be, and the replacement is
\* then that of the older one), it shares its bucket with a frontier of the current
\* maps seen from where the robot is, one in no suppressed region; the target itself
\* may be another, that of a cached order.
DispatchesCurrentTargets ==
  [][core'.goal # core.goal /\ core'.goal.kind = "frontier" =>
       LET target == core'.goal.target
       IN /\ SkipBlocked => ~Blocked(core', target)
          /\ ~core'.globalPending =>
               \E distance \in MinDistances :
                 \E p \in Search(core'.decided, core'.global, robot, distance) :
                   /\ Bucket(p) = Bucket(target)
                   /\ SuppressionActive => ~InSome(p, core'.memory.regions)]_vars

\* What is suppressed stays suppressed until every region over it has expired or,
\* being the oldest of a full table, made room for a region around the target that
\* failed; or until the session ends.
SuppressionLasts ==
  [][LET before == core.memory.regions
         after == core'.memory.regions
         MadeRoom(r) ==
           /\ Len(before) = MaxRegions /\ \A i \in DOMAIN before : r.at <= before[i].at
           /\ \E i \in DOMAIN after : after[i].center = core.goal.target
     IN enabled' = enabled =>
          \A p \in Points :
            InSome(p, after)
              \/ \A i \in DOMAIN before :
                   PointIn(p, before[i]) => Expired(before[i].at, now) \/ MadeRoom(before[i])]_vars

=============================================================================
