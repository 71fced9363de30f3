# TLA+ verification of frontier_exploration_ros2

The explorer drives a robot to the edges of the known map. Its core decides when
to send, replace, cancel or abandon a `NavigateToPose` goal; a ROS 2 node feeds it
maps, cost maps, timers and replies, and exposes a start/stop service. This
directory models that core and that node in TLA+, checks them with TLC on small
instances and proves the main invariants with TLAPS for every value of the
constants. Paths below are relative to the repository; line numbers refer to it.

## The system

| Component | State | Operations | Talks to |
|---|---|---|---|
| Goal lifecycle (`src/frontier_explorer_core_*.cpp`) | goal state, handle, kind and sequence, dispatch id; cancel flag and reason; queued replacement and its debounce; return latches; settle window; session flag | `try_send_next_goal`, `consider_preempt_active_goal`, `consider_cancel_suppressed_return_to_start`, map and cost map callbacks, watchdog, session start and stop, goal, cancel and result callbacks | action server (goals, cancels, replies), search, suppression, node |
| Node and control service (`src/frontier_explorer_node.cpp`, `src/main.cpp`) | runtime state, scheduled request, stop poll, shutdown timer, quit flags, completion event latch | `handleControlRequest`, `controlTimerCallback`, `stopCompletionPollCallback`, `deferredShutdownCallback`, `publishCompletionEvent` | core (session start, stop, readiness), service clients |
| Failure memory (`src/frontier_suppression.cpp`) | attempt records, suppressed regions, progress tracker | record, promote, grow, evict, prune, filter, watch | core |
| Map pipeline and caches (`..._core_maps.cpp`, `..._core_frontiers.cpp`) | map and cost map generations, dirty flag, deferred cost map updates, snapshot | ingest, refresh, commit, look up | core, decision map, search |
| Rate calibration, QoS autodetection (`..._node.cpp`, `qos_utils.hpp`) | interval samples, timers, fallback state | sample, finalise, time out, switch | map subscription |
| Frontier search (`src/frontier_search.cpp`) | per-search cell flags and caches | breadth-first search, candidate building, reveal gain | core |
| Decision map (`src/decision_map.cpp`) | chunk workspace | full and incremental rebuild | core |
| MRTSP ordering (`src/mrtsp_*.cpp`) | none | pruning, greedy and bounded-horizon order | core |
| Frontier policy (`src/frontier_policy.cpp`) | none | equivalence, signatures | core |
| Control tool, RViz panel, debug observer, launch files | their own | service calls, drawing | node |

All ROS callbacks of the explorer run one after the other on one thread
(`src/main.cpp:28-33`). What makes it hard is the order in which they come: the
goal response, the cancel reply and the result of one goal may each arrive after
the next goal was sent, after the session was stopped, or after the map changed
the decision that led to the request; the server may refuse a goal, refuse a
cancel, or end a goal while its cancel is in flight. Flags and latches
(`cancel_request_in_progress`, `pending_cancel_reason`, `return_to_start_started`,
`awaiting_map_refresh`, the queued sequence) have to follow the goal through all of
these. Nothing is persisted, so there is no crash recovery to model.

What makes each part correct:

* lifecycle: at most one goal is believed in at a time, it is given up only when
  the server is done with it, a wait always ends, latches and flags follow it,
  nothing is sent after a stop, after completion, while settling, or to a blocked
  target;
* node: sessions open and shut as the core expects, every stop ends, leftover
  timers do no harm, the completion event is not repeated in a session,
  and a session that can hear the map gets to process one;
* failure memory: bounded, expires, grows only around failures, hides what it covers;
* map pipeline: a decision never uses a snapshot of older inputs than it believes;
* search, decision map, MRTSP: the result equals a simpler reference definition.

`PROJECT.json` lists the hazards with the line at which each bites and the
properties aimed at it.

## Modules

| Module | Content |
|---|---|
| `GoalSlot` | Abstract protocol: one slot for a goal, asked for only in a session and never while the last goal is being released, freed only when the server is done with the goal or refused it. |
| `GoalLifecycle` | The core's callbacks and the action server. Refines `GoalSlot`. |
| `ControlSession` | The node's runtime states and control service over a core that may make any move `GoalSlot` allows. |
| `MapStartup` | The map subscription, its durability detection and the rate calibration, over `ControlSession`. |
| `FailureMemory` | Operators: one content of the failure memory to the next (attempt records, regions, growth, eviction, expiry). |
| `TargetSelection` | Maps, cost maps, snapshot cache, order cache and failure memory on the way to a target. |
| `DecisionMap` | The incremental build of the decision map. |
| `FrontierSearch` | The two-level breadth-first search, one queue element per step. |
| `RoutePlanner` | Pruning, greedy walk and bounded-horizon solver, one layer or stop per step. |
| `FrontierPlanning` | A search followed by the order of what it found. |
| `MCGoalLifecycle`, `MCControlSession`, `MCTargetSelection`, `MCDecisionMap`, `MCFrontierPlanning` | The finite instances. |
| `Subsequences` | The elements of a sequence that are in a set, in their order. |
| `GoalLifecycleProofs`, `GoalCompletionProofs`, `GoalSlotProofs`, `ControlSessionProofs`, `TargetSelectionProofs`, `DecisionMapProofs`, `FrontierPlanningProofs` | TLAPS proofs. |
| `InductionLemmas` | Lemmas the proofs share: induction over the numbers by sets, elements of sequences, what `Subsequences` keeps. |

How they compose: `GoalLifecycle` implements `GoalSlot` (`ImplementsGoalSlot`),
`ControlSession` relies on nothing else of the core and opens and shuts sessions only
as it allows (`RespectsGoalSlot`), and `MapStartup` is `ControlSession` with the map
sources a session opens and closes. `StartSession` of `GoalLifecycle` carries the guard
that `ControlSession` establishes: a start finds no goal (`IdleHoldsNoGoal`).
`GoalLifecycle` lets the search return any frontiers; `TargetSelection` computes them
from the inputs, with the goal reduced to its kind and target, the decision map as
a function of the map (`DecisionMap` says how far that is so) and the search as a function
of decision map, cost map, robot and distance (`FrontierSearch` is that function). The
order cache is in both, because what it returns decides which replacement the lifecycle
asks for and which target is current.

### GoalLifecycle

One action is one ROS callback with every call it makes. The scheduler
`try_send_next_goal` is the operator `TrySendNextGoal`; helpers keep the shape of
the source functions (`DispatchGoal` is `dispatch_goal_request`, `DispatchPending`
is `dispatch_pending_frontier_goal`, and so on; `PROJECT.json` maps each definition to
its lines). A handler's map and cost map are assigned first, hence the helpers
read them primed.

Variables are the members of `FrontierExplorerCore` that the lifecycle branches
on, under their names or a short form of them (the declaration says which), plus
the environment: `nav`, what the server did with each dispatch; `cancels`, cancel
requests without a reply; `answered` and `resulted`, replies already delivered.

Data is nondeterministic where the lifecycle does not compute with it:

* the search returns any set of frontiers; an order is any arrangement of any subset of
  the open ones (the empty one included), or the order in the cache when the open ones
  have the signature it was made for (`Selections`): `Bucket` says which frontiers are
  alike to a signature, and the pose may be found in its old bucket or not;
* poses, intervals, distances and the reveal gain decide nothing more than which
  disjunct is taken, and each may be taken;
* a failed attempt may hide any set of frontiers that contains the failed one, or
  change nothing (below the threshold, or within the grace period); regions expire
  at any time;
* a cost map update blocks any set of frontiers, local and global alike;
* the action client may throw on sending a goal or a cancel.

The result callback's exception text is never set by the node; its outcome is that
of an abort without a failed attempt, which `AfterResult` includes. Logging,
markers, debug output and the snapshot cache (`TargetSelection` has it) are left out.

The environment's server (external to this repository) serves goals in order,
aborts the goal it drives when it accepts the next, and honours or refuses
cancels. With `ForeignCancel` other clients cancel goals too.

### ControlSession

One action is one service request, timer or core step. Delays are not measured: an
armed timer fires at any later moment, at most until the quit. The core's own
behaviour between two node steps is any `GoalSlot` move.

### MapStartup

A session of `ControlSession` opens the map subscription with its configured durability
and, if configured, the detection: a timeout that may come before the first map and
switches once to the other durability. With a processing rate, maps wait for a timer
that is armed when three intervals between maps have been sampled; the rate stays over
a stop. The publisher (external) publishes a stream or one latched map, with either
durability; the middleware delivers between compatible ends only and keeps one map.
Parameters are drawn once (`setup`).

### FailureMemory and TargetSelection

The core is one record and every function of it maps a record to the set of its
outcomes, so that a callback is one action however its functions nest. Generations,
the dirty flag, the pending cost maps, the snapshot with its key, the order cache with
its key, attempt records and regions are those of the code. Points are pairs of
integers, exact under the halving of a region's growth; buckets, regions and rings are
computed from them. Gates of `GoalLifecycle` (settle window, interval, readiness of the
server) may close on any update, and the search after a goal (`AfterFrontier`) may wait for
the settle window. Left out are the queue of a replacement that cannot be sent at once,
which is in `GoalLifecycle`, and the move of the pose sent for a frontier next to the robot
(`build_dispatch_goal_pose`, only with `frontier_selection_min_distance`). `spent` and `now`
bound messages and time.

### DecisionMap

Variables are the workspace (`DecisionMapWorkspace`: window, remembered occupancies, raw,
thresholded and output image, tables), the last map and the status of the last build.
An image is two sets of cells, a list of row spans a set of cells. One build is one
action whose stages are operators in the order of the code: geometry transition, carrying
over, dirty chunks, raw stage, tables, filter and threshold over the widened spans,
dilation, report. The flag `outputChanged` is raised as in the code, by the cells the last
stage writes with another class than before (`Written`, `Flagged`), and not by a comparison
of the outputs. The bilateral filter is its weighted average compared with the
threshold, in integers; a kernel has the weights of its distances and those of its range
table, and either may change from one configuration to the next. Resolutions are compared
with their tolerance, configurations by equality (the code allows the sigmas an epsilon).
Maps without cells are left out. `frayed` is a history variable: the sides of the window that a
reuse cut off and no growth has covered since. `FullThreshold` and `FullOutput` are the
reference: the same stages over the whole image.

### FrontierSearch, RoutePlanner, FrontierPlanning

A scene is one call's input; every flag of a cell is a set of cells. A
candidate is its cells, its accessible cells and its goal, chosen by the code's squared
distances in integers; what else the code computes of it (center, start, path distance) goes
into costs that `RoutePlanner` takes as any. The reference definitions are
connected components of frontier cells and reachability through free cells. The planner
takes any cost matrix (`Infinity` for no gain or no finite cost) and keeps layers and
parents as functions of visited set and last stop; the reference is the minimum over all
routes of the horizon.

## Runs

Bounds of the lifecycle: `MaxDispatch` goals per behaviour (three dispatches reach every
order of a live, a superseded and a refused goal over two frontiers), `MaxCancels`
requests in flight per goal, `MaxHits` observations of one replacement in a row (the counter
of the code is not capped), one more than `RequiredHits` (2, the code's default, where there
is a debounce). Frontiers are symmetric where no liveness is checked. Where deadlock is not
checked, a behaviour ends when its bounds are used up, a call returned, or the node quit.

| Run | Instance | Shows |
|---|---|---|
| `lifecycle_preempt` | 2 frontiers in a bucket each, 3 dispatches, preemption, blocked goals, completion distance; 583k states | `TypeOK`, `WaitsForLiveGoal`, `NeverDispatchesBlocked`, `ReplacementChangesTarget`, `ImplementsGoalSlot` |
| `lifecycle_return` | 2 frontiers in one bucket, 3 dispatches, suppression, both returns, settle window, timer mode; 178k states | `CancelFlagMatchesState`, `SettleOnlyBetweenGoals`, `ReturnLatchHasGoal`, `NoDispatchAfterStop`, `NoDispatchAfterCompletion`, `SettleHoldsDispatch`, `CompletionIsFinal` |
| `lifecycle_all` | every feature, foreign cancels, no debounce, 2 frontiers, 2 dispatches, fairness; 268k states | `IdleMeansOver`, `QueueExcludesFinalReturn`, `UnattendedOnlyAfterRefusal`, `StopDrains` |
| `control_session` | the whole finite model with its map sources, every durability, detection, rate and publisher, fairness; 41k states | `SessionMatchesRuntime`, `IdleHoldsNoGoal`, `ScheduledStartWaitsInColdIdle`, `RespectsGoalSlot`, `OneEventPerSession`, `StopCompletes`, `QuitHonoured`, `SourcesFollowSession`, `SessionGetsMaps` |
| `target_selection` | 4 points (two in a bucket), 3 maps (two with one decision map), 2 cost maps, 2 robot cells, 4 messages or sessions, 3 ticks, limits of 2 records and 1 region; 878k states | `TypeOK`, `RegionsAbsorbFailures`, `SnapshotIsFresh`, `DispatchesCurrentTargets`, `SuppressionLasts` |
| `decision_map` | a row of 3 cells from three origins and a square two rows high, chunks of 2 cells, resolutions within and beyond the tolerance, 3 configurations; 9.6k states, each with every map as its successor | `TypeOK`, `ExactAwayFromCuts`, `MixedChunksCurrent`, `LagIsBounded`, `OffsetsMatchSamples`, `WindowFollowsMap`, `FlagTellsChange` |
| `frontier_planning` | every map of 3 by 2 cells (two blocked sets) and every row of 5, a row with three frontiers; five solver settings, orders of up to `MaxFound` candidates, small cost matrices with negative and infinite costs; 42k states | `FoundIsTheFrontier`, `RouteIsCheapest`, `PlanningEnds` |
| `cancel_reason_leaks`, `cancel_flag_stuck`, `queue_ignores_suppression`, `recovery_hides_frontiers`, `goals_behind_walls` | smallest instances | the disagreements below |

The lifecycle's features are split over two runs because together they reach too many
states; `lifecycle_all` has all of them with two goals and no debounce, enough for a queued
replacement, a refused one and a stop with a goal and its cancel under way. Its invariants
are proved for any number of goals. Orders from the cache come up where two frontiers share a
bucket, in `lifecycle_return`.
`CancelFlagMatchesState`, `ReturnLatchHasGoal` and `ImplementsGoalSlot` do not hold with
every feature at once: the findings say why.

The bounds of the other runs are the smallest at which each case occurs. In
`decision_map` a window jitters within and beyond the tolerance, grows, shrinks and moves
by whole cells, chunks are partial, and a reach of one cell crosses a chunk. Behaviours
are unbounded in length, so changes may add up for ever. In
`target_selection` a region covers two or three points, its ring holds another, and a
second region evicts the first. In `frontier_planning` a frontier can be broken by an
obstacle or a blocked cell and clusters meet at a corner; three candidates is the
least with which a route, a pruned pool and a greedy walk differ.

Each property has a mutant: an operator beside the definition it changes, named
and commented as a mutant, that makes the property fail.

### Fairness

`GoalLifecycle!Fairness` is weak fairness, per goal, of the delivery of its reply
and of its result, of the server answering it and of the server ending it. The
executor runs every ready callback; Nav2's behaviour tree ends every goal in
bounded time. No fairness is assumed of cancels, maps, the watchdog or new
sessions: a stop drains even if every cancel is refused.
`ControlSession!Fairness` is weak fairness of the two timers of the stop sequence and
of the same core and server steps. Control requests are never fair.
`StartupSpec` adds weak fairness of the callbacks and timers of `MapStartup`, which the
executor serves, and of `Publish`: a stream goes on, a latched map is published
once. Without the last nothing can be promised of the maps. `SessionGetsMaps` exempts
two sessions the code leaves without maps: one whose detection timed out on a
durability that would have worked and ended on the other, and one in timer mode with a
single latched map, whose rate is never calibrated.
`FrontierPlanning!Spec` is weakly fair as a whole: a call runs to its end within one
callback.

## Where the code and its words disagree

* **A cancel reason leaks** (`cancel_reason_leaks`). "Cancel reason must not leak to
  the next goal lifecycle", says `src/frontier_explorer_core_dispatch.cpp:1138` of the
  result path. Rejection (1022-1038) and supersession (932-978) keep
  `pending_cancel_reason`, so a cancel asked for while a goal is being sent, because
  a cost map blocked its target, hits the next accepted goal. If that is the final
  return, it is canceled and `return_to_start_started` stays up (a canceled return does
  not reopen it), so the robot is never sent back in that session:
  `ReturnLatchHasGoal` fails with `SkipOnBlockedGoal` and `ReturnOnComplete`.
* **The cancel flag sticks** (`cancel_flag_stuck`). "Result handling or a newer dispatch
  may have already closed this cancel path" (735), but a dispatch does not close it.
  A temporary return that is being canceled can be replaced
  (`src/frontier_explorer_core_suppression.cpp:186-236`), and the new goal inherits the
  flag: no preemption, no watchdog and no cancel of it until its result.
* **The queue ignores suppression** (`queue_ignores_suppression`). `README.md:1554`
  says failing areas are removed from reselection; a sequence queued earlier is sent
  without that filter.
* **A driven target is sent again** (`src/frontier_explorer_core_frontiers.cpp:49-69`).
  `src/frontier_explorer_core_dispatch.cpp:629-633` gives up a replacement that is "effectively
  same as active target", comparing whole sequences. The order cache may return a sequence made
  of earlier frontiers: with `[a, f]` cached and `a` blocked, `f` is driven as `[f]`; later
  candidates in the same buckets bring `[a, f]` back, and after the debounce `f` is sent while
  it is driven. `ReplacementChangesTarget` therefore exempts frontiers with a twin in their
  bucket; without that it fails on three frontiers, two of them in one bucket.
* **The completion event repeats** (line `src/frontier_explorer_node.cpp:546`). `README.md:1762`
  says once per node lifetime; `startExplorationRuntime` resets the latch, so it is once
  per session, which is what `OneEventPerSession` checks.
* **The recovery of a seed hides frontiers** (`recovery_hides_frontiers`). When the robot
  stands on an unknown or occupied cell, `find_free_with_cache` marks the cells it visits with
  the flag `MapClosed` of the search proper (`src/frontier_search.cpp:558-562`), which then
  skips them (604). `README.md:979-986` promises a search "until the reachable map area is
  exhausted"; with one free cell beside the robot's unknown one it finds nothing.
* **The search walks through walls** (`goals_behind_walls`). The map queue takes on every cell
  with a free neighbour, occupied ones too (`src/frontier_search.cpp:690-712`), and so crosses
  a wall of one or two cells. `README.md:981` and 1007 and `frontier_types.hpp:325` call
  what is searched and the goal chosen reachable; the goal may lie behind the wall.
* **Tolerated changes hide a frontier** (`src/decision_map.cpp:349-355`). A chunk without
  unknown cells is kept as a "cache hit, chunk stayed unchanged" (`README.md:779`) although it
  changed by what the comparison tolerates. Its freed cells may be the whole border to an
  unknown chunk; they stay occupied in the output, which at `src/decision_map.cpp:1548` is
  claimed to be the raw classification, and the frontier between the chunks is not seen.
  `MixedChunksCurrent` is what holds.
* **The local cost map is not searched** (`src/frontier_search.cpp:211`, 486, 780).
  `README.md:1014` and 1272 say it is; `local_cost_blocked` has no caller. A blocked
  target is caught at dispatch when `goal_skip_on_blocked_goal` is set.
* **A crop is not exact** (`src/decision_map.cpp:1578`). "Partial recomputation remains
  exact" but within reach of a side that a reuse cut off: the filter clamps at the new
  border, and nothing there is dirty. `ExactAwayFromCuts` is the exact statement.
* **A crop is not reported** (`src/decision_map.cpp:1541-1544`). With nothing dirty the
  build says that no output changed although the window did; `refresh_decision_map`
  (`src/frontier_explorer_core_maps.cpp:66-74`) replaces the decision map and keeps the
  generation and the snapshot of the old one. `FlagTellsChange` speaks of builds that
  keep their window, and `TargetSelection` assumes that a changed decision map is reported.
* **A threshold of 49** (`include/.../decision_map.hpp:152`). A fresh workspace claims that
  its empty table is for 49, so that this `occ_threshold` never fills it and the whole map
  converts to occupied.
* **The cost formulas differ** (`src/mrtsp_ordering.cpp:107`, 127, 141). `README.md:1098-1114`
  takes the minimum of the two time bounds and multiplies the gain by its weight; the code adds
  the bounds, divides by the root of the gain and raises the gain to the weight.
* **The escape search finds nothing new** (`src/frontier_search.cpp:514`). The
  minimum goal distance prefers goals and never rejects a frontier, so the retry without it
  (`src/frontier_explorer_core_dispatch.cpp:100-103`, `README.md:1726`) repeats an empty search.
* **A cached order can name a suppressed frontier**
  (`src/frontier_explorer_core_frontiers.cpp:49-69`). Its key counts frontiers per bucket, and
  the frontiers it was made of are returned: a twin of a suppressed one in the same bucket
  brings that one back. Hence the bucket in `DispatchesCurrentTargets`.
* **No urgent map in timer mode** (`src/frontier_explorer_node.cpp:1126`). `README.md:1739`
  promises urgent preemption checks; the call is commented out, and a map only waits for the
  timer.

## Proofs

From the assumptions on the constants alone, the named `ASSUME` of each module, TLAPS
proves every safety property of the passing runs:

| Theorem | Statement |
|---|---|
| `GoalLifecycleProofs!TypeCorrect` | `Spec => []TypeOK` |
| `GoalLifecycleProofs!IdleOnlyWhenOver` | `Spec => []IdleMeansOver` |
| `GoalLifecycleProofs!NeverWaitsInVain` | `Spec => []WaitsForLiveGoal` |
| `GoalLifecycleProofs!SettleIsBetweenGoals` | `Spec => []SettleOnlyBetweenGoals` |
| `GoalLifecycleProofs!StopHoldsDispatch` | `Spec => NoDispatchAfterStop` |
| `GoalLifecycleProofs!SettleWindowHolds` | `Spec => SettleHoldsDispatch` |
| `GoalCompletionProofs!QueueIsNeverLate` | `Spec => []QueueExcludesFinalReturn` |
| `GoalCompletionProofs!DrivenUnattended` | `Spec => []UnattendedOnlyAfterRefusal` |
| `GoalCompletionProofs!CompletionHoldsDispatch` | `Spec => NoDispatchAfterCompletion` |
| `GoalCompletionProofs!CompletesOnlyAtTheEnd` | `Spec => CompletionIsFinal` |
| `GoalSlotProofs!BlockedIsNeverSent` | `Spec => NeverDispatchesBlocked` |
| `GoalSlotProofs!ReplacedByAnother` | `Spec => ReplacementChangesTarget` (twins in a bucket exempt) |
| `GoalCompletionProofs!CancelFlagIsExact` | `WithoutPreemption`, `~ForeignCancel` entail `Spec => []CancelFlagMatchesState` |
| `GoalCompletionProofs!ReturnLatchIsExact` | `WithoutPreemption`, `~ForeignCancel` entail `Spec => []ReturnLatchHasGoal` |
| `GoalSlotProofs!LifecycleImplementsSlot` | `~ReturnWhenSuppressed` entails `Spec => ImplementsGoalSlot` |
| `ControlSessionProofs!TypeCorrect` | `Spec => []TypeOK` |
| `ControlSessionProofs!SessionIsRuntime` | `Spec => []SessionMatchesRuntime` |
| `ControlSessionProofs!IdleIsIdle` | `Spec => []IdleHoldsNoGoal` |
| `ControlSessionProofs!DelayedStartIsHonoured` | `Spec => []ScheduledStartWaitsInColdIdle` |
| `ControlSessionProofs!PublishesOncePerSession` | `Spec => []OneEventPerSession` |
| `ControlSessionProofs!ImplementsProtocol` | `Spec => RespectsGoalSlot` |
| `ControlSessionProofs!StartupIsControl` | `StartupSpec => FairSpec` |
| `ControlSessionProofs!SourcesAreTheSessions` | `StartupSpec => []SourcesFollowSession` |
| `TargetSelectionProofs!SelectionTypeOK` | `Spec => []TypeOK` |
| `TargetSelectionProofs!CacheFollowsInputs` | `Spec => []SnapshotIsFresh` |
| `TargetSelectionProofs!FailuresAreAbsorbed` | `Spec => []RegionsAbsorbFailures` |
| `TargetSelectionProofs!TargetsAreCurrent` | `Spec => DispatchesCurrentTargets` |
| `TargetSelectionProofs!SuppressionHolds` | `ExpansionSize < BaseSize` entails `Spec => SuppressionLasts` |
| `DecisionMapProofs!ImagesStayTyped` | `Spec => []TypeOK` |
| `DecisionMapProofs!WindowStaysClose` | `Spec => []WindowFollowsMap` |
| `DecisionMapProofs!TablesStayInStep` | `Spec => []OffsetsMatchSamples` |
| `DecisionMapProofs!FlagIsExact` | `Spec => FlagTellsChange` |
| `DecisionMapProofs!LagStaysBounded` | `NoClaimedOcc` entails `Spec => []LagIsBounded` |
| `DecisionMapProofs!MixedChunksStayCurrent` | `NoClaimedOcc` entails `Spec => []MixedChunksCurrent` |
| `DecisionMapProofs!RecomputationIsExact` | `Spec => []ExactAwayFromCuts` |
| `FrontierPlanningProofs!FrontiersAreComplete` | `Spec => []FoundIsTheFrontier` |
| `FrontierPlanningProofs!RoutesAreCheapest` | `Spec => []RouteIsCheapest` |

**GoalLifecycle.** Neither `IdleMeansOver` nor `WaitsForLiveGoal` is inductive: both
speak of the server, and a step of the core knows the server only through replies.
The strengthening `SlotInv` adds the shape of the goal variables in each goal state
(`Shape`), that a reply is delivered only of a goal that was sent and is past the
point it reports (`Delivered`), and that an idle core has the last reply of its
latest goal (`IdleAfterReply`). Handlers nest, so one lemma per building block says
which of three outcomes it has (a goal was asked for, the slot was freed, the goal
was kept and perhaps asked to cancel) and three lemmas say that each outcome
preserves the invariant; the step lemmas only combine them.

**Completion.** `QueueExcludesFinalReturn` is not inductive: with a frontier goal left
over after completion, its handler could still queue a replacement, so `QueueInv` adds
that a complete exploration holds no goal. `UnattendedOnlyAfterRefusal` is about older
goals too: `ServedInOrder` says that the server takes goals in the order they were sent
and that only the last one it accepted drives, so that a finished latest goal
leaves none behind.

**Targets.** What is sent is the first unblocked frontier of an order. A new order lists the
open frontiers only, so a goal being driven is replaced by another: either it is blocked
and the new one is not, or it is not among the open frontiers. An order from the cache has
the signature of the open ones; without a twin in its bucket a frontier it names is open
too. With a twin the claim fails, which is a finding.

**Cancel flag and return latch.** Both hold only where no cancel is remembered past its
goal and no temporary return is replaced while being canceled; with preemption or blocked
goals they fail, which is what the two findings on cancels show. Without preemption,
`CancelInv` says that a running session remembers no cancel and cancels frontier goals
only, and `LatchInv` that the server has no cancel of the final return.

**Refinement.** The outcomes of the handlers are steps of `GoalSlot` once two facts are
known: a goal in `CANCELING` has its flag up, so that preemption leaves it alone, and
there is no temporary return, which is replaced without looking at that flag
(`src/frontier_explorer_core_suppression.cpp:186-236`). With `ReturnWhenSuppressed` and
`SkipOnBlockedGoal`, TLC finds the behaviour where a leaked cancel reason puts a
temporary return in `CANCELING` and a cost map replaces it: there the explorer is not one
of `GoalSlot`. That step is a `ReleaseFails` and an `Ask` in one, so it leads
`ControlSession` to no state it does not reach anyway.

**ControlSession.** The invariant adds that an armed poll belongs to a shut session
and an armed shutdown timer to the pending shutdown (`TimersBelongToStops`), and that
the remembered quit distinguishes the two ends of a stop (`QuitTellsEnd`): without
these, a poll left over from a stop that was overtaken could end a later session. The
events of a session are counted by the history variable `events`, which begins anew only
where a session opens; `LatchCounts`, that the latch stands for this count, holds because
the one place that resets the latch is reached only with the session closed. Its
`TypeOK` is part of the invariant and stated by `TypeCorrect` alone, by no run.

**MapStartup.** `StartupSpec` implements `FairSpec` (`StartupIsControl`): each of its steps
is one of `ControlSession` or leaves its variables alone, so the theorems above hold with
the map sources too. `SourcesFollowSession` is three: `SubscriptionFollows`, `TimerFollows`
and `HeardMapIsTaken`. Beyond itself it needs that a detection under way was asked for
(`SetupOK`); `session'` is known to be Boolean only from the invariant of `ControlSession`,
which `StartupIsControl` carries over.

**TargetSelection.** The functions of the core are composed in many orders, so there is a lemma
for each: it keeps a core in order (`InOrder`: its fields, the snapshot as fresh as its key,
the order cache filled for the counts of its own key, the memory within its limits with no
record in a region), and what it sends is current (`Sends`, `Outcome`); a step is whatever
composition it is. Current is said of targets that are looked for, not of those from the queue
(a finding), to within a bucket (another), not while a global cost map waits to be committed,
and not blocked only if `goal_skip_on_blocked_goal` is set. The invariant is `Ready`. `Search`
and `Decision` are any functions. The failure memory has lemmas of its own. At most one region
is compatible with a failure (`CompatibleIsOne`); growing it covers what it covered, for which
its ring has to be narrower than the region (`GrownCovers`); the region or record that makes
room is the oldest. `Lasting` says of two lists of regions that each old one expired, lives on
in a region that covers it, or gave way as the oldest of a full list; `LastingComposes` chains
the functions of a step.

**DecisionMap.** A build is a chain of stages over one record. `StageFacts` says what each
leaves of the workspace (its fields, its tables, its window); from it follow the window, the
tables and the flag, for which a cell the last stage does not write has to keep its class.
`LagIsBounded` is not inductive: the test that lets a change pass compares the map with the
remembered occupancies and not with the raw image.
`LagInv` adds that the raw image is the class of what is remembered, and that no chunk
of the last map fails the test; the hard case is reuse of overlap, where moved images
must have the classes of moved occupancies and a chunk may mix kept and new cells.
`NoClaimedOcc` says that no configuration has the threshold a fresh workspace claims,
the finding above; without it the raw image is not the class of anything.

`ExactAwayFromCuts` compares with the full stages over the raw image the workspace has, which
may lag behind the map by what `LagIsBounded` allows. It needs the types of the images (`TInv`)
and one fact about every build (`Reused`): the cells it did not rebuild are the old image moved
by the placement of the overlap. A cell that is not recomputed has no rebuilt cell within the
reach of the filter, so, out of reach of the sides cut off, each of its samples is a kept cell,
and so is the sample that clamps at a side which is where it was (`SamplesMove`); the cells a
dilation reads are kept or recomputed in the same way (`SourceMoves`). Sides that grew were
recomputed up to their reach, which is why they are no longer `frayed`.

**FrontierSearch.** `SearchInv` speaks of the flags. A cell in a cluster is `FrontierClosed`
and a cell with that flag joins no cluster, so clusters are apart (`ClustersApart`). The
closed frontier cells are closed under adjacency but for what is still queued, and a
cluster grows by neighbours alone, so a cluster that ends is the component of its first
cell (`ClustersWhole`). What is open is closed or queued, and every closed free cell has
had its neighbours opened (`NoneMissed`), so that at the end the closed free cells contain
what is reachable. `ReachableIn` is the least closed set because the rings around a start
stop growing within as many steps as there are cells (`ReachableFacts`).

**RoutePlanner.** `LayerFits` says of a layer of d stops that every entry is the cost of a
route that the parents trace back, and that every route of d stops has an entry that costs
no more: the principle of optimality of the dynamic program. One layer keeps it
(`NextIsTraced`, where an entry of an earlier layer is not overwritten because its set is
smaller, and `NextIsCheapest`), the walk back gives the traced route (`WalkedBack`), and a
layer without entries means that there is no longer route either. The pool is right because
the number of better candidates is a different one for each (`RanksAreNumbers`), which is
the pigeonhole principle on a total order.

**Induction over data.** The theorems of the library take operators as parameters, which
no backend here can instantiate. `NatSetInduction` in `InductionLemmas` takes the set of the
numbers for which a claim holds instead, and recursive functions are unfolded by
showing that the function they choose exists. So that this works, the models use recursive
functions in place of operators that recurse (`Only` for a filtered sequence), and say
directly what a loop computes where that is as short: the rank of a candidate in place
of a sort, the highest differing bit in place of a sum of powers.

Only model-checked: the liveness properties (`StopDrains`, `StopCompletes`, `QuitHonoured`,
`SessionGetsMaps`, `PlanningEnds`), which need `ENABLED`, out of the reach of the prover. The
five runs that expect a violation show what does not hold.

## Assumptions and what the models leave open

* The steady clock is positive and intervals are not zero.
* `kGeometryReuseCellAlignmentToleranceCells` is three quarters of a cell; a rounded offset is
  at most half a cell off, so that check of the code refuses nothing and is left out.
* `SuppressionLasts` is checked and proved with an expansion ring smaller than the region,
  as in the default parameters. The growth halves the way to the failure and doubles the
  side; with a ring wider than the region itself, part of the old area would fall out.
* An order is planned for at most `MaxFound` candidates, a bound of the model; the theorems
  hold for any.
* The comparator of the pruning treats scores within `1e-12` as equal
  (`src/mrtsp_solver.cpp:101`), which is not a strict weak ordering on a chain of such
  scores; costs are integers here, and `Infinity` the one value that is not finite. Rounding,
  NaN and negative infinities are outside the model.
* A gap of unknown cells wider than one hides what lies beyond it from the search, which
  walks only cells next to free ones; the reference of `FoundIsTheFrontier` is therefore the
  free space connected to the robot.

## Not modelled

The control tool, launch files, configuration and debug observer hold no state the
explorer depends on. The RViz panel and its backend are a client: what it sends are the
requests of `ControlSession`. TF look-ups, QoS settings and marker publishing are I/O.
The floating-point weights of the bilateral filter, the reveal gain, the cost
formulas and the world coordinates of frontiers are abstracted. Teardown of the node
(`request_shutdown`) only drops replies while the process ends. Clamping of parameters is
a sequence of assignments at construction.

## Plan

What is left, most important first:

1. The chosen goal of a candidate as the nearest accessible cell, for every map.
2. The reveal gain and the equivalence of frontiers within the visit tolerance.
3. The queue of a replacement and the moved pose in `TargetSelection`.
