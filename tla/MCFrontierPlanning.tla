------------------------- MODULE MCFrontierPlanning -------------------------
(* Small instances of FrontierPlanning for TLC: every map of three by two   *)
(* cells and every row of five, and a row of seven with three frontiers.    *)
EXTENDS FrontierPlanning

\* Every map of a size with the given robot cells and blocked sets.
MapsOf(width, height, robots, blockedSets) ==
  LET cells == {<<x, y>> : x \in 0..(width - 1), y \in 0..(height - 1)}
  IN UNION {
       {[w |-> width, h |-> height, free |-> free, occupied |-> occupied,
         blocked |-> blocked, robot |-> robot] :
          occupied \in SUBSET (cells \ free), robot \in robots, blocked \in blockedSets} :
       free \in SUBSET cells}

\* Free and unknown cells alternate: three frontiers of one cell.
Alternating ==
  [w |-> 7, h |-> 1, free |-> {<<x, 0>> : x \in {0, 2, 4, 6}}, occupied |-> {},
   blocked |-> {}, robot |-> <<2, 0>>]

MCScenes ==
  MapsOf(3, 2, {<<0, 0>>}, {{}, {<<2, 1>>}})
    \cup MapsOf(5, 1, {<<1, 0>>, <<2, 0>>}, {{}})
    \cup {Alternating}

MCSolvers ==
  {[solver |-> "greedy", limit |-> 1, horizon |-> 1],
   [solver |-> "dp", limit |-> 0, horizon |-> 2],
   [solver |-> "dp", limit |-> 2, horizon |-> 2],
   [solver |-> "dp", limit |-> 9, horizon |-> 2],
   [solver |-> "dp", limit |-> 3, horizon |-> 3]}

\* Matrices over n candidates with start costs from S and edges from E.
Matrices(n, S, E) ==
  {[e \in Edges(n) |-> IF e[1] = 0 THEN s[e[2]] ELSE IF e[1] = e[2] THEN Infinity ELSE m[e]] :
     s \in [1..n -> S],
     m \in [{e \in {<<i, j>> : i \in 1..n, j \in 1..n} : e[1] # e[2]} -> E]}

MCCosts ==
  [n \in 0..3 |->
     CASE n = 0 -> {<<>>}
       [] n = 1 -> Matrices(1, {1, Infinity}, {1})
       [] n = 2 -> Matrices(2, {1, 2}, {1})
       [] n = 3 -> Matrices(3, {1}, {-1, 2}) \cup Matrices(3, {1}, {1, Infinity})
                     \cup Matrices(3, {1, Infinity}, {1})]

=============================================================================
