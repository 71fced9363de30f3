---------------------------- MODULE RoutePlanner ----------------------------
(***************************************************************************)
(* The MRTSP ordering of frontier candidates (build_mrtsp_frontier_sequence *)
(* on a cache miss).  The greedy solver walks the cost matrix of all        *)
(* candidates; the dp solver keeps the best of them, finds the cheapest     *)
(* route of a bounded number of stops layer by layer, and falls back on the *)
(* greedy walk where there is no such route.                                *)
(*                                                                         *)
(* Node 0 is the robot, nodes 1..n the candidates.  The geometry behind the *)
(* costs is abstracted: a cost is any integer below Infinity, which stands  *)
(* for no gain.  Left out are what only floating point has: sums that are   *)
(* rounded, not-a-number, the infinities of an overflow, and the 1e-12      *)
(* within which the pruning (and it alone) calls two costs equal.           *)
(***************************************************************************)
EXTENDS Integers, Sequences, FiniteSets, SequencesExt

CONSTANTS
  Infinity,      \* greater than the cost of any route
  MaxPool        \* kMaxDpSolverCandidateLimit

ASSUME PlannerAssumption == Infinity \in Nat /\ MaxPool \in Nat \ {0}

VARIABLES
  stage,   \* "idle", "layers", "greedy" or "planned"
  job,     \* the call: [sizes, cost, solver, limit, horizon]
  pool,    \* candidates the solver works on: positions of the matrix to nodes
  layer,   \* current_layer: [<<visited, last>> -> cost], finite costs only
  parent,  \* [<<visited, last>> -> the position before, 0 for the robot]
  depth,   \* stops of the routes in layer
  route    \* positions in the order of the visit

planVars == <<stage, job, pool, layer, parent, depth, route>>

Finite(c) == c < Infinity
Smaller(a, b) == IF a < b THEN a ELSE b
Clamped(v, low, high) == IF v < low THEN low ELSE Smaller(v, high)

\* The entries of the cost matrix of n candidates.
Edges(n) == {<<i, k>> : i \in 0..n, k \in 1..n}

\* The matrix of the pool (build_cost_matrix over the pruned candidates).
Cost(i, j) == job.cost[<<IF i = 0 THEN 0 ELSE pool[i], pool[j]>>]
Positions == 1..Len(pool)

\* How many stops the dp solver plans for.
Horizon == Smaller(job.horizon, Len(pool))

\* A loop that keeps the first of the smallest prices.
FirstCheapest(price) ==
  CHOOSE i \in DOMAIN price : \A k \in DOMAIN price :
    price[i] < price[k] \/ (price[i] = price[k] /\ i <= k)

NoJob == [sizes |-> <<>>, cost |-> <<>>, solver |-> "greedy", limit |-> 1, horizon |-> 0]

PlanInit ==
  /\ stage = "idle" /\ job = NoJob
  /\ pool = <<>> /\ layer = <<>> /\ parent = <<>> /\ depth = 0 /\ route = <<>>

\* The order of prune_mrtsp_candidates: cost from the robot, with the infinite
\* ones last, then size, then extraction order.
Better(j, a, b) ==
  LET costA == j.cost[<<0, a>>]  costB == j.cost[<<0, b>>]
  IN \/ costA < costB
     \/ /\ costA = costB
        /\ \/ j.sizes[a] > j.sizes[b]
           \/ j.sizes[a] = j.sizes[b] /\ a < b

\* The best of the candidates in that order: the k-th has k - 1 better ones.
Pruned(j) ==
  LET Ahead(a) == Cardinality({b \in DOMAIN j.sizes : Better(j, b, a)})
  IN [k \in 1..Smaller(Clamped(j.limit, 1, MaxPool), Len(j.sizes)) |->
        CHOOSE a \in DOMAIN j.sizes : Ahead(a) = k - 1]

\* The routes of one stop.
FirstLayer(j, nodes) ==
  [r \in {<<{i}, i>> : i \in {k \in DOMAIN nodes : Finite(j.cost[<<0, nodes[k]>>])}} |->
     j.cost[<<0, nodes[r[2]]>>]]

\* A call with the candidates' sizes, their cost matrix and a solver.
BeginPlan(j) ==
  /\ stage = "idle"
  /\ job' = j
  /\ pool' = IF j.solver = "dp" THEN Pruned(j) ELSE [i \in DOMAIN j.sizes |-> i]
  /\ layer' = IF j.solver = "dp" THEN FirstLayer(j, pool') ELSE <<>>
  /\ parent' = [r \in DOMAIN layer' |-> 0]
  /\ depth' = 1 /\ route' = <<>>
  /\ stage' = IF j.sizes = <<>> THEN "planned"
              ELSE IF j.solver # "dp" \/ j.horizon = 0 \/ DOMAIN layer' = {}
              THEN "greedy" ELSE "layers"

\* What is left of the stops before `last' in the layer, with a finite edge to it.
Before(visited, last) ==
  {i \in visited \ {last} :
     <<visited \ {last}, i>> \in DOMAIN layer /\ Finite(Cost(i, last))}

\* Mutant of Extend: the edge is left out of the comparison.
ExtendByPrefix(visited, last) ==
  FirstCheapest([i \in Before(visited, last) |-> layer[<<visited \ {last}, i>>]])

\* The stop before `last' on the cheapest route: the first that improves.
Extend(visited, last) ==
  FirstCheapest([i \in Before(visited, last) |->
                   layer[<<visited \ {last}, i>>] + Cost(i, last)])

\* The states of the routes of one stop more.
NextStates ==
  {q \in {<<r[1] \cup {k}, k>> : r \in DOMAIN layer, k \in Positions} :
     Cardinality(q[1]) = depth + 1 /\ Before(q[1], q[2]) # {}}

\* The cheapest of those routes: the stop before the last, and the cost.
Previous == [q \in NextStates |-> Extend(q[1], q[2])]
NextCosts(previous) ==
  [q \in DOMAIN previous |->
     layer[<<q[1] \ {q[2]}, previous[q]>>] + Cost(previous[q], q[2])]
NextParents(previous) ==
  [q \in DOMAIN parent \cup DOMAIN previous |->
     IF q \in DOMAIN previous THEN previous[q] ELSE parent[q]]

\* solve_bounded_horizon_mrtsp_order, one layer.
ExpandLayer ==
  /\ stage = "layers" /\ depth < Horizon
  /\ \/ /\ NextStates = {}
        /\ stage' = "greedy" /\ UNCHANGED <<layer, parent, depth>>
     \/ /\ NextStates # {}
        /\ LET previous == Previous
           IN layer' = NextCosts(previous) /\ parent' = NextParents(previous)
        /\ depth' = depth + 1 /\ UNCHANGED stage
  /\ UNCHANGED <<job, pool, route>>

\* The order of the bit masks of two sets of positions: the highest bit in which
\* they differ is set in the greater one.
LowerMask(v, w) == \E i \in w \ v : \A k \in Positions : k > i => (k \in v <=> k \in w)

\* The stops on the way back from a state along the parents, the first one first.
WalkBack(last) ==
  LET back[k \in 0..(depth - 1)] ==
        IF k = 0 THEN last
        ELSE <<back[k - 1][1] \ {back[k - 1][2]}, parent[back[k - 1]]>>
  IN [k \in 1..depth |-> back[depth - k][2]]

\* The cheapest route of the layer.
PickRoute ==
  /\ stage = "layers" /\ depth = Horizon
  /\ LET best == CHOOSE r \in DOMAIN layer : \A s \in DOMAIN layer :
                   \/ layer[r] < layer[s]
                   \/ /\ layer[r] = layer[s]
                      /\ \/ LowerMask(r[1], s[1])
                         \/ r[1] = s[1] /\ r[2] <= s[2]
     IN route' = WalkBack(best)
  /\ stage' = "planned"
  /\ UNCHANGED <<job, pool, layer, parent, depth>>

\* greedy_mrtsp_order, one stop: the cheapest of those not visited, the first of
\* equals; the walk ends where none has a finite cost.
GreedyStop ==
  /\ stage = "greedy"
  /\ LET here == IF route = <<>> THEN 0 ELSE Last(route)
         left == {i \in Positions \ ToSet(route) : Finite(Cost(here, i))}
     IN \/ /\ left = {}
           /\ stage' = "planned" /\ UNCHANGED route
        \/ /\ left # {}
           /\ route' = Append(route, FirstCheapest([i \in left |-> Cost(here, i)]))
           /\ UNCHANGED stage
  /\ UNCHANGED <<job, pool, layer, parent, depth>>

PlanStep == ExpandLayer \/ PickRoute \/ GreedyStop

-----------------------------------------------------------------------------
\* The routes of k stops with finite costs, and what they cost.
Edge(r, i) == Cost(IF i = 1 THEN 0 ELSE r[i - 1], r[i])
Routes(k) ==
  {r \in [1..k -> Positions] : IsInjective(r) /\ \A i \in 1..k : Finite(Edge(r, i))}
Total(r) ==
  LET upto[k \in 0..Len(r)] == IF k = 0 THEN 0 ELSE upto[k - 1] + Edge(r, k)
  IN upto[Len(r)]

\* The greedy walk: every stop is a cheapest one, and it ends only for want of any.
IsGreedy(r) ==
  /\ \A i \in DOMAIN r : \A k \in Positions \ ToSet(SubSeq(r, 1, i - 1)) :
       Edge(r, i) <= Cost(IF i = 1 THEN 0 ELSE r[i - 1], k)
  /\ \A k \in Positions \ ToSet(r) : ~Finite(Cost(IF r = <<>> THEN 0 ELSE Last(r), k))

\* The dp solver plans a cheapest of all routes of its horizon over its pool, and
\* walks greedily where there is none; no candidate outside the pool is closer to
\* the robot than one inside; no candidate is visited twice.
RouteIsCheapest ==
  stage = "planned" =>
    /\ IsInjective(route)
    /\ IF job.solver = "dp" /\ Horizon > 0 /\ Routes(Horizon) # {}
       THEN route \in Routes(Horizon) /\ \A r \in Routes(Horizon) : Total(route) <= Total(r)
       ELSE IsGreedy(route)
    /\ \A i \in Positions : \A k \in DOMAIN job.sizes \ ToSet(pool) :
         job.cost[<<0, pool[i]>>] <= job.cost[<<0, k>>]

=============================================================================
