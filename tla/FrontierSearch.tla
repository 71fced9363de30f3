--------------------------- MODULE FrontierSearch ---------------------------
(***************************************************************************)
(* get_frontier: the two-level breadth-first search that turns a decision  *)
(* map into frontier candidates.  A map queue walks the cells next to free *)
(* space; each frontier cell it meets starts a frontier queue that collects *)
(* the connected cluster; a cluster of at least MinSize cells with a usable *)
(* goal becomes a candidate.  One action takes one cell off a queue.  What *)
(* else a candidate holds (its center, its first cell, the length of the   *)
(* walk to it) goes into the costs that order the candidates, of which     *)
(* RoutePlanner takes any.                                                 *)
(*                                                                         *)
(* A cell is a pair <<x, y>>; distances are counted in cells.  A scene is  *)
(* one call's input: the free and the occupied cells of the map (the rest  *)
(* is unknown), the cells whose global cost is over the threshold or that  *)
(* the cost map does not cover, and the cell of the robot.                 *)
(***************************************************************************)
EXTENDS Subsequences, FiniteSets, SequencesExt

CONSTANTS
  Scenes,       \* [w, h, free, occupied, blocked, robot]
  MinSize,      \* min_frontier_size_cells
  MinDistance2  \* square of the minimum distance of a goal from the robot

Cells(s) == {<<x, y>> : x \in 0..(s.w - 1), y \in 0..(s.h - 1)}

ASSUME SearchAssumption ==
  /\ MinSize \in Nat /\ MinDistance2 \in Nat
  /\ \A s \in Scenes :
       /\ s.w \in Nat /\ s.h \in Nat /\ s.robot \in Cells(s)
       /\ s.free \subseteq Cells(s) /\ s.occupied \subseteq Cells(s) \ s.free
       /\ s.blocked \subseteq Cells(s)

VARIABLES
  scene,     \* the input of the call
  phase,     \* "recover" (find_free), "map", "cluster" or "done"
  queue,     \* the queue of find_free, then map_point_queue
  open,      \* cells flagged MapOpen
  closed,    \* cells flagged MapClosed
  frontOpen, \* cells flagged FrontierOpen
  frontDone, \* cells flagged FrontierClosed
  seed,      \* start: where the map queue began
  at,        \* the cell of the map queue whose cluster is being grown
  growing,   \* frontier_queue
  cluster,   \* new_frontier
  found      \* the candidates, in the order of discovery

searchVars == <<scene, phase, queue, open, closed, frontOpen, frontDone, seed,
                at, growing, cluster, found>>

-----------------------------------------------------------------------------
\* kNeighborOffsets
Offsets == << <<-1, -1>>, <<-1, 0>>, <<-1, 1>>, <<0, -1>>, <<0, 0>>, <<0, 1>>,
              <<1, -1>>, <<1, 0>>, <<1, 1>> >>

\* for_each_neighbor: the cell itself and its eight neighbours inside the map.
Neighbors(s, c) ==
  Only([i \in DOMAIN Offsets |-> <<c[1] + Offsets[i][1], c[2] + Offsets[i][2]>>], Cells(s))
Near(s, c) == {d \in Cells(s) : d[1] - c[1] \in -1..1 /\ d[2] - c[2] \in -1..1}

\* is_frontier_point: unknown, next to free space and to nothing blocked.
IsFrontier(s, c) ==
  /\ c \notin s.free \cup s.occupied
  /\ Near(s, c) \cap s.blocked = {}
  /\ Near(s, c) \cap s.free # {}

Square(i) == i * i
Distance2(a, b) == Square(a[1] - b[1]) + Square(a[2] - b[2])

\* N^2 times the squared distance of a cell from the centroid of N cells.
FromCentroid2(c, cells) ==
  LET n == Len(cells)
      Sum(k) == FoldSeq(LAMBDA d, total : total + d[k], 0, cells)
  IN Square(n * c[1] - Sum(1)) + Square(n * c[2] - Sum(2))

\* The first cell of a sequence that is nearest to the centroid.
Nearest(candidates, cells) ==
  candidates[SelectInSeq(candidates, LAMBDA c :
    \A d \in ToSet(candidates) : FromCentroid2(c, cells) <= FromCentroid2(d, cells))]

\* The goal points around a cluster, in the order they are looked at.
Accessible(s, cells) ==
  SelectSeq(FlattenSeq([i \in DOMAIN cells |-> Neighbors(s, cells[i])]),
            LAMBDA n : n \in s.free \ s.blocked)

\* build_frontier_candidate: a goal far enough from the robot if there is one.
Goal(s, cells) ==
  LET far == SelectSeq(Accessible(s, cells), LAMBDA n : Distance2(n, s.robot) >= MinDistance2)
  IN Nearest(IF far # <<>> THEN far ELSE Accessible(s, cells), cells)

HasCandidate(s, cells) ==
  /\ Len(cells) >= (IF MinSize > 1 THEN MinSize ELSE 1)
  /\ \E c \in ToSet(cells) : Near(s, c) \cap (s.free \ s.blocked) # {}

Candidate(s, cells) ==
  [cells |-> ToSet(cells), goal |-> Goal(s, cells), size |-> Len(cells)]

-----------------------------------------------------------------------------
SearchInit ==
  /\ scene \in Scenes
  /\ phase = "recover" /\ queue = <<scene.robot>>
  /\ open = {} /\ closed = {} /\ frontOpen = {} /\ frontDone = {}
  /\ seed = scene.robot /\ at = scene.robot /\ growing = <<>> /\ cluster = <<>> /\ found = <<>>

\* The search proper starts from c; its flags are overwritten.
StartFrom(c, visited) ==
  /\ phase' = "map" /\ queue' = <<c>>
  /\ open' = {c} /\ closed' = visited \ {c}
  /\ seed' = c
  /\ UNCHANGED <<scene, frontOpen, frontDone, at, growing, cluster, found>>

\* find_free_with_cache: its visited marker is the flag of the search proper.
Recover ==
  /\ phase = "recover"
  /\ LET c == Head(queue)
         new == Only(Neighbors(scene, c), Cells(scene) \ closed)
         rest == Tail(queue) \o new
     IN \/ /\ c \in scene.free
           /\ StartFrom(c, closed)
        \/ /\ c \notin scene.free /\ rest = <<>>
           /\ StartFrom(scene.robot, closed \cup ToSet(new))
        \/ /\ c \notin scene.free /\ rest # <<>>
           /\ queue' = rest /\ closed' = closed \cup ToSet(new)
           /\ UNCHANGED <<scene, phase, open, frontOpen, frontDone, seed,
                          at, growing, cluster, found>>

\* Mutant of Unvisited: only free neighbours are walked to.
UnvisitedFree(p, done) ==
  Only(Neighbors(scene, p), scene.free \ (open \cup done))

\* The neighbours of p the map queue takes on: next to free space, and new.
Unvisited(p, done) ==
  Only(Neighbors(scene, p),
       {n \in Cells(scene) \ (open \cup done) : Near(scene, n) \cap scene.free # {}})

\* The rest of a pass over p, with the flags MapClosed in done.
CloseAndExpand(p, done) ==
  LET new == Unvisited(p, done)
  IN /\ queue' = Tail(queue) \o new
     /\ open' = open \cup ToSet(new)
     /\ closed' = done \cup {p}

\* Mutant of SkipClosed: the cell is looked at but not taken off the queue.
SkipClosedUnpopped ==
  /\ phase = "map" /\ queue # <<>> /\ Head(queue) \in closed
  /\ UNCHANGED searchVars

\* A cell of the map queue that a cluster has consumed since.
SkipClosed ==
  /\ phase = "map" /\ queue # <<>> /\ Head(queue) \in closed
  /\ queue' = Tail(queue)
  /\ UNCHANGED <<scene, phase, open, closed, frontOpen, frontDone, seed,
                 at, growing, cluster, found>>

Walk ==
  /\ phase = "map" /\ queue # <<>>
  /\ Head(queue) \notin closed /\ ~IsFrontier(scene, Head(queue))
  /\ CloseAndExpand(Head(queue), closed)
  /\ UNCHANGED <<scene, phase, frontOpen, frontDone, seed, at, growing, cluster, found>>

BeginCluster ==
  /\ phase = "map" /\ queue # <<>>
  /\ Head(queue) \notin closed /\ IsFrontier(scene, Head(queue))
  /\ phase' = "cluster" /\ at' = Head(queue) /\ growing' = <<Head(queue)>> /\ cluster' = <<>>
  /\ frontOpen' = frontOpen \cup {Head(queue)}
  /\ UNCHANGED <<scene, queue, open, closed, frontDone, seed, found>>

\* One cell of the frontier queue; a frontier cell brings its neighbours.
Grow ==
  /\ phase = "cluster" /\ growing # <<>>
  /\ LET c == Head(growing)
         new == Only(Neighbors(scene, c), Cells(scene) \ (frontOpen \cup frontDone \cup closed))
     IN IF c \in closed \cup frontDone
        THEN growing' = Tail(growing) /\ UNCHANGED <<cluster, frontOpen, frontDone>>
        ELSE /\ frontDone' = frontDone \cup {c}
             /\ IF IsFrontier(scene, c)
                THEN /\ cluster' = Append(cluster, c)
                     /\ growing' = Tail(growing) \o new
                     /\ frontOpen' = frontOpen \cup ToSet(new)
                ELSE growing' = Tail(growing) /\ UNCHANGED <<cluster, frontOpen>>
  /\ UNCHANGED <<scene, phase, queue, open, closed, seed, at, found>>

\* The cluster is complete: a candidate perhaps, then the pass over `at' goes on.
EndCluster ==
  /\ phase = "cluster" /\ growing = <<>>
  /\ phase' = "map"
  /\ found' = IF HasCandidate(scene, cluster)
              THEN Append(found, Candidate(scene, cluster)) ELSE found
  /\ CloseAndExpand(at, closed \cup ToSet(cluster))
  /\ UNCHANGED <<scene, frontOpen, frontDone, seed, at, growing, cluster>>

EndSearch ==
  /\ phase = "map" /\ queue = <<>>
  /\ phase' = "done"
  /\ UNCHANGED <<scene, queue, open, closed, frontOpen, frontDone, seed,
                 at, growing, cluster, found>>

SearchNext ==
  Recover \/ SkipClosed \/ Walk \/ BeginCluster \/ Grow \/ EndCluster \/ EndSearch

-----------------------------------------------------------------------------
(* What a search should find.                                               *)

\* The cells of S reachable from the cells of start through cells of S.
ReachableIn(s, S, start) ==
  LET ring[i \in 0..Cardinality(S)] ==
        IF i = 0 THEN start \cap S
        ELSE ring[i - 1] \cup {c \in S : Near(s, c) \cap ring[i - 1] # {}}
  IN ring[Cardinality(S)]

FrontierCells(s) == {c \in Cells(s) : IsFrontier(s, c)}
Component(s, c) == ReachableIn(s, FrontierCells(s), {c})

\* The clusters a candidate is due for: large enough, with a usable goal.
Due(s, cells) ==
  /\ Cardinality(cells) >= MinSize
  /\ \E c \in cells : Near(s, c) \cap (s.free \ s.blocked) # {}

\* The frontier cells next to the free space connected to a cell.
AroundFreeSpace(s, start) ==
  LET space == ReachableIn(s, s.free, {start})
  IN {c \in FrontierCells(s) : Near(s, c) \cap space # {}}

\* Every cluster found is a whole connected frontier, none is found twice, and
\* from a free cell none around the free space of the robot is missed.
FoundIsTheFrontier ==
  phase = "done" =>
    /\ \A i, j \in DOMAIN found : i # j => found[i].cells \cap found[j].cells = {}
    /\ scene.robot \in scene.free =>
         /\ \A i \in DOMAIN found : \A c \in found[i].cells : found[i].cells = Component(scene, c)
         /\ \A c \in AroundFreeSpace(scene, scene.robot) :
              Due(scene, Component(scene, c)) =>
                \E i \in DOMAIN found : c \in found[i].cells

\* "If the robot starts in unknown or occupied space, recover the closest free
\* seed", then "repeat until the reachable map area is exhausted" (README, 979-986):
\* from the recovered seed no frontier around its free space is missed either.
RecoveryHidesNothing ==
  phase = "done" =>
    \A c \in AroundFreeSpace(scene, seed) :
      Due(scene, Component(scene, c)) => \E i \in DOMAIN found : c \in found[i].cells

\* "Expand a BFS over reachable map cells" (README, 981), "selects a reachable
\* navigation point" (1007): the goal of a candidate can be reached from the seed,
\* through whatever is not known to be occupied.
GoalsAreReachable ==
  phase = "done" =>
    \A i \in DOMAIN found :
      found[i].goal \in ReachableIn(scene, Cells(scene) \ scene.occupied, {seed})

=============================================================================
