-------------------------- MODULE FrontierPlanning --------------------------
(***************************************************************************)
(* From a decision map to an order of targets: one call of get_frontier,   *)
(* then the order of the candidates it found.                              *)
(***************************************************************************)
EXTENDS FrontierSearch, RoutePlanner

CONSTANTS
  Solvers,   \* [solver, limit, horizon]: mrtsp_solver and the bounds of dp
  MaxFound,  \* the most candidates an order is planned for
  Costs      \* [0..MaxFound -> the cost matrices of so many candidates]

ASSUME PlanningAssumption ==
  /\ \A solver \in Solvers : solver.limit \in Nat /\ solver.horizon \in Nat
  /\ MaxFound \in Nat
  /\ \A n \in 0..MaxFound : Costs[n] \subseteq [Edges(n) -> Int]

vars == <<searchVars, planVars>>

Init == SearchInit /\ PlanInit

Plan ==
  /\ phase = "done" /\ Len(found) <= MaxFound
  /\ \E solver \in Solvers, cost \in Costs[Len(found)] :
       BeginPlan([sizes |-> [i \in DOMAIN found |-> found[i].size], cost |-> cost,
                  solver |-> solver.solver, limit |-> solver.limit, horizon |-> solver.horizon])
  /\ UNCHANGED searchVars

Next ==
  \/ SearchNext /\ UNCHANGED planVars
  \/ Plan
  \/ PlanStep /\ UNCHANGED searchVars

\* Both run to their end within one callback.
Spec == Init /\ [][Next]_vars /\ WF_vars(Next)

\* Every call ends with an order, whatever the map: no cell is queued forever.
PlanningEnds == <>(stage = "planned")

=============================================================================
