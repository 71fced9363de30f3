--------------------------- MODULE MCDecisionMap ---------------------------
(* Small instances of DecisionMap for TLC: a row from three origins, each   *)
(* within the tolerance of the next but not of the one after, and a square  *)
(* that adds a row below; two cells to a chunk, four origin units to a cell. *)
EXTENDS DecisionMap

Window(ox, oy, w, h) == [res |-> 10, ox |-> ox, oy |-> oy, w |-> w, h |-> h]

\* Windows of another resolution, within its tolerance and out of it.
Finer(g) == [g EXCEPT !.res = 11]
Coarse(g) == [g EXCEPT !.res = 20]

\* The maps of a window that are free at one corner, and those whose upper cells
\* are known.
MapsOf(g) == [geo : {g}, data : [Cells(g) -> {-1, 0, 1}]]
CornerMaps(g) == {m \in MapsOf(g) : m.data[<<0, 0>>] = 0}
KnownAboveMaps(g) == {m \in MapsOf(g) : \A c \in Cells(g) : c[2] > 0 => m.data[c] # -1}

MCMaps ==
  MapsOf(Window(0, 0, 3, 1)) \cup CornerMaps(Finer(Window(1, 0, 3, 1)))
    \cup CornerMaps(Window(2, 0, 3, 1)) \cup KnownAboveMaps(Window(4, -4, 2, 2))
    \cup CornerMaps(Coarse(Window(0, 0, 1, 1)))

\* A kernel cut at one cell, wide enough to turn a single cell over, and one whose
\* range weights tell the classes apart by less.
MCRange ==
  [free |-> [free |-> 10, unknown |-> 8, occupied |-> 0],
   unknown |-> [free |-> 8, unknown |-> 10, occupied |-> 0],
   occupied |-> [free |-> 0, unknown |-> 0, occupied |-> 10]]

FlatRange == [MCRange EXCEPT !.free.unknown = 10, !.unknown.free = 10]

Smooth ==
  [enabled |-> TRUE, occ |-> 1, kernel |-> [spatial |-> <<10, 8>>, range |-> MCRange],
   dilation |-> 1]
Narrow == [Smooth EXCEPT !.dilation = 0, !.kernel.range = FlatRange]
Plain == [Smooth EXCEPT !.enabled = FALSE]
MCConfigs == {Smooth, Narrow, Plain}

=============================================================================
