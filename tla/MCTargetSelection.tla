-------------------------- MODULE MCTargetSelection --------------------------
(* A small instance of TargetSelection for TLC: four places on a line, two   *)
(* of them in one bucket.  A region of sixteen units covers two or three of  *)
(* them, its ring holds another, and a region that moved there without       *)
(* growing would lose one.                                                   *)
EXTENDS TargetSelection

MCPoints == {<<-8, 0>>, <<0, 0>>, <<2, 0>>, <<10, 0>>}
MCRobots == {<<0, 16>>, <<0, 17>>}

\* A map and the frontiers it shows; two maps differ in other cells only.
MCMaps == {[cells |-> 1, seen |-> {<<-8, 0>>, <<0, 0>>, <<10, 0>>}],
           [cells |-> 2, seen |-> {<<2, 0>>}],
           [cells |-> 3, seen |-> {<<2, 0>>}]}
MCDecision(m) == m.seen

\* The last place is out of reach for one of the robots, and one distance.
MCSearch(seen, cost, from, distance) ==
  {p \in seen : p \notin cost /\ (p[1] = 10 => from[2] = 16 /\ distance = 0)}
MCCosts == {{}, {<<0, 0>>}}

=============================================================================
