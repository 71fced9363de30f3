---------------------------- MODULE DecisionMap ----------------------------
(***************************************************************************)
(* build_decision_map: the incremental conversion of occupancy maps into   *)
(* the decision map the frontier search reads.  A workspace keeps the      *)
(* result of every stage (raw classes, filtered and thresholded classes,   *)
(* dilated output); a new map is compared with it chunk by chunk, and only *)
(* what changed, widened by the reach of each stage, is computed again.    *)
(*                                                                         *)
(* A cell is a pair <<x, y>>; an image is the set of its free cells and    *)
(* that of its occupied cells, the others being unknown; a list of row     *)
(* spans is the set of cells it covers.  Origins are integers, OriginUnits *)
(* to a cell, resolutions integers of any unit; a ratio is a pair          *)
(* <<part, whole>>.  Maps without cells are left out.                      *)
(***************************************************************************)
EXTENDS Integers, Sequences, FiniteSets, FiniteSetsExt

CONSTANTS
  Maps,          \* the maps that may arrive: [geo, data], a geometry being
                 \* [res, ox, oy, w, h] and data an occupancy for each cell
  Configs,       \* configurations: [enabled, occ, kernel, dilation]; a kernel is
                 \* [spatial, range]: the weights at distance 0, 1, ... along one
                 \* axis (sigma_s), and [class][class] -> weight (sigma_r)
  OriginUnits,   \* units of the origin per cell
  ChunkSize,     \* kRawDiffChunkSizeCells
  JitterUnits,   \* kGeometryCellAlignmentToleranceCells, in origin units
  MinEvidence,   \* kMinimumKnownEvidenceCells
  ResolutionPart, \* resolutions differ if by more than one part in so many,
                 \* 1 / kGeometryResolutionToleranceRatio
  FreshOcc       \* the threshold a fresh workspace claims its table is for

\* The ratios of decision_map.cpp, 34-44.
MinOverlap == <<20, 100>>
MaxConflict == <<35, 100>>
MaxLoss == <<60, 100>>
ObstacleDelta == <<20, 100>>
ObstacleChange == <<35, 100>>
KnownDelta == <<25, 100>>
KnownChange == <<40, 100>>

Classes == {"free", "occupied", "unknown"}
NoImage == [free |-> {}, occupied |-> {}]

\* Paper intensities of the three classes.
Paper == [free |-> 255, unknown |-> 205, occupied |-> 0]

Cells(g) == {<<x, y>> : x \in 0..(g.w - 1), y \in 0..(g.h - 1)}

Geometries == {m.geo : m \in Maps}

\* The window of a fresh workspace, and the data over it.
Nowhere == [res |-> 0, ox |-> 0, oy |-> 0, w |-> 0, h |-> 0]
NoData == [c \in {} |-> -1]

ASSUME DecisionMapAssumption ==
  /\ \A g \in Geometries :
       /\ g.res \in Nat /\ g.ox \in Int /\ g.oy \in Int
       /\ g.w \in Nat \ {0} /\ g.h \in Nat \ {0}
  /\ \A m \in Maps : m.data \in [Cells(m.geo) -> (-1)..100]
  /\ OriginUnits \in Nat \ {0} /\ ChunkSize \in Nat \ {0}
  /\ JitterUnits \in Nat /\ 2 * JitterUnits < OriginUnits
  /\ MinEvidence \in Nat /\ ResolutionPart \in Nat
  /\ \A c \in Configs :
       c.occ \in Int /\ c.kernel.spatial \in Seq(Nat) \ {<<>>} /\ c.dilation \in Nat

VARIABLES
  map,    \* the occupancy map of the last build, or NoMap before the first
  ws,     \* DecisionMapWorkspace
  status, \* DecisionMapBuildStatus of the last build
  frayed  \* sides of the window cut off by reuse and not grown over since

vars == <<map, ws, status, frayed>>

-----------------------------------------------------------------------------
(* Small helpers.                                                           *)

Magnitude(i) == IF i < 0 THEN -i ELSE i
Larger(i, j) == IF i > j THEN i ELSE j
Smaller(i, j) == IF i < j THEN i ELSE j
Clamp(i, low, high) == Larger(low, Smaller(i, high))

\* count / total > ratio, in integers
Exceeds(count, total, ratio) == count * ratio[2] > total * ratio[1]

\* std::round(n / d): to the nearest integer, halves away from zero.
RoundedRatio(n, d) ==
  LET r == (2 * Magnitude(n) + d) \div (2 * d) IN IF n < 0 THEN -r ELSE r

ClassIn(image, c) ==
  IF c \in image.free THEN "free" ELSE IF c \in image.occupied THEN "occupied" ELSE "unknown"

Known(image) == image.free \cup image.occupied

\* The cells of S of one class.
Selected(S, image, class) ==
  IF class = "unknown" THEN S \ Known(image) ELSE S \cap image[class]

\* classify_occupancy_semantic of every cell of S, also occupancy_cost_to_paper_value
Classified(data, S, occ) ==
  [free |-> {c \in S : data[c] >= 0 /\ data[c] < occ},
   occupied |-> {c \in S : data[c] >= 0 /\ data[c] >= occ}]

\* The cells of S as in new, the others as in old.
Patched(old, S, new) ==
  [free |-> (old.free \ S) \cup (new.free \cap S),
   occupied |-> (old.occupied \ S) \cup (new.occupied \cap S)]

-----------------------------------------------------------------------------
(* Geometry: is the new map in the old window, does it overlap it, or is it *)
(* a new world?                                                             *)

\* The test of the resolutions in same_geometry and classify_geometry_transition.
SameResolution(old, new) == Magnitude(old.res - new.res) * ResolutionPart <= new.res

\* same_geometry
SameGeometry(old, new) ==
  /\ old.w = new.w /\ old.h = new.h /\ SameResolution(old, new)
  /\ Magnitude(old.ox - new.ox) <= JitterUnits
  /\ Magnitude(old.oy - new.oy) <= JitterUnits

\* Mutant of Offset: the sign of the shift is swapped.
OffsetSwapped(old, new) == RoundedRatio(new - old, OriginUnits)

\* aligned_cell_offset; a rounded offset is at most half a cell away, so the
\* tolerance of the reuse, three quarters of a cell, never refuses one.
Offset(old, new) == RoundedRatio(old - new, OriginUnits)

\* The common part of two windows: where it starts in each, and its size.
Overlap(old, new) ==
  LET dx == Offset(old.ox, new.ox)  newX == Larger(0, dx)  oldX == Larger(0, -dx)
      dy == Offset(old.oy, new.oy)  newY == Larger(0, dy)  oldY == Larger(0, -dy)
  IN [newX |-> newX, newY |-> newY, oldX |-> oldX, oldY |-> oldY,
      w |-> Smaller(old.w - oldX, new.w - newX),
      h |-> Smaller(old.h - oldY, new.h - newY)]

\* The cells of the new window that the old one covered, and where they were.
Kept(p) == {<<x, y>> : x \in p.newX..(p.newX + p.w - 1), y \in p.newY..(p.newY + p.h - 1)}
Before(p, c) == <<c[1] - p.newX + p.oldX, c[2] - p.newY + p.oldY>>

\* Mutant of Moved: the kept part is not shifted into the new window.
MovedUnshifted(p, image) == image

\* What copy_buffer_region makes of an image: its kept part in the new window.
Moved(p, image) ==
  [free |-> {c \in Kept(p) : Before(p, c) \in image.free},
   occupied |-> {c \in Kept(p) : Before(p, c) \in image.occupied}]

Differing(S, old, new) ==
  S \ UNION {Selected(S, old, class) \cap Selected(S, new, class) : class \in Classes}

\* overlap_semantics_support_reuse: enough overlap, few conflicts, little loss
SupportsReuse(m, p, occ) ==
  LET was == Moved(p, Classified(ws.cache, Cells(ws.geo), occ))
      is == Classified(m.data, Kept(p), occ)
      bothKnown == Known(was) \cap Known(is)
      conflicts == Differing(bothKnown, was, is)
      lost == Known(was) \ Known(is)
      smallest == Smaller(ws.geo.w * ws.geo.h, m.geo.w * m.geo.h)
  IN /\ p.w * p.h * MinOverlap[2] >= smallest * MinOverlap[1]
     /\ Cardinality(bothKnown) >= MinEvidence
          => ~Exceeds(Cardinality(conflicts), Cardinality(bothKnown), MaxConflict)
     /\ Cardinality(Known(was)) >= MinEvidence
          => ~Exceeds(Cardinality(lost), Cardinality(Known(was)), MaxLoss)

\* Mutant of Transition: the window is compared with the last map's, not with
\* the one the images are laid out in.
TransitionFromLastMap(m, occ) ==
  LET p == Overlap(ws.geo, m.geo)
  IN CASE ~ws.initialized -> "full"
       [] ws.initialized /\ SameGeometry(map.geo, m.geo) -> "same"
       [] OTHER -> IF /\ SameResolution(ws.geo, m.geo)
                      /\ p.w > 0 /\ p.h > 0
                      /\ SupportsReuse(m, p, occ)
                   THEN "overlap" ELSE "full"

\* classify_geometry_transition
Transition(m, occ) ==
  LET p == Overlap(ws.geo, m.geo)
  IN CASE ~ws.initialized -> "full"
       [] ws.initialized /\ SameGeometry(ws.geo, m.geo) -> "same"
       [] OTHER -> IF /\ SameResolution(ws.geo, m.geo)
                      /\ p.w > 0 /\ p.h > 0
                      /\ SupportsReuse(m, p, occ)
                   THEN "overlap" ELSE "full"

-----------------------------------------------------------------------------
(* Dirty chunks.                                                            *)

Chunk(c) == <<c[1] \div ChunkSize, c[2] \div ChunkSize>>
ChunkCells(g, k) == {c \in Cells(g) : Chunk(c) = k}
Chunks(g) == {Chunk(c) : c \in Cells(g)}

\* Mutant of NeedsRebuild: chunks with unknown and free cells get no special care.
NeedsRebuildOnLargeShifts(was, is, S) ==
  LET n == Cardinality(S)
      changed == Cardinality(Differing(S, was, is))
  IN changed > 0 /\ Exceeds(changed, n, KnownChange)

\* analyze_chunk_semantics and chunk_semantic_change_requires_rebuild: any
\* change of a chunk with unknown and free cells counts; elsewhere only a
\* large one does.
NeedsRebuild(was, is, S) ==
  LET n == Cardinality(S)
      changed == Cardinality(Differing(S, was, is))
      Count(image, class) == Cardinality(Selected(S, image, class))
      Has(class) == Count(was, class) + Count(is, class) > 0
      Shift(class) == Magnitude(Count(was, class) - Count(is, class))
  IN /\ changed > 0
     /\ \/ Has("unknown") /\ Has("free")
        \/ /\ Has("unknown") /\ Has("occupied") /\ ~Has("free")
           /\ \/ Exceeds(Shift("unknown"), n, ObstacleDelta)
              \/ Exceeds(Shift("occupied"), n, ObstacleDelta)
              \/ Exceeds(changed, n, ObstacleChange)
        \/ /\ ~(Has("unknown") /\ (Has("free") \/ Has("occupied")))
           /\ \/ Exceeds(Shift("free"), n, KnownDelta)
              \/ Exceeds(Shift("occupied"), n, KnownDelta)
              \/ Exceeds(changed, n, KnownChange)

\* build_overlap_reuse_forced_dirty_chunks: the chunks that touch a cell the
\* old window did not cover, or one within halo of a side that grew.
ForcedChunks(g, p, halo) ==
  LET lastX == p.newX + p.w - 1
      lastY == p.newY + p.h - 1
      nearGrownSide == {c \in Kept(p) :
        \/ p.newX > 0 /\ c[1] < p.newX + halo
        \/ lastX + 1 < g.w /\ c[1] > lastX - halo
        \/ p.newY > 0 /\ c[2] < p.newY + halo
        \/ lastY + 1 < g.h /\ c[2] > lastY - halo}
  IN {Chunk(c) : c \in (Cells(g) \ Kept(p)) \cup nearGrownSide}

-----------------------------------------------------------------------------
(* The stages.                                                              *)

\* filter_radius_for_sigma: how far a kernel reaches
Radius(kernel) == Len(kernel.spatial) - 1

Square(r) == {<<x, y>> : x \in (-r)..r, y \in (-r)..r}
Disk(r) == {o \in Square(r) : o[1] * o[1] + o[2] * o[2] <= r * r}
Around(c, offsets) == {<<c[1] + o[1], c[2] + o[2]>> : o \in offsets}

\* Mutant of Widened: the reach of a stage is one cell short.
WidenedShort(g, S, r) == Cells(g) \cap UNION {Around(c, Square(r - 1)) : c \in S}

\* build_expanded_row_spans: S and the cells within r of it
Widened(g, S, r) == Cells(g) \cap UNION {Around(c, Square(r)) : c \in S}

\* A term of the bilateral average for each sample of the neighbourhood of c, clamped
\* into the image: weight * (intensity - free threshold), doubled.  The range weights
\* are cached by sigma_r, so they are the kernel's (ensure_range_lut_cache).
Pulls(g, raw, kernel, c) ==
  LET Sample(o) ==
        ClassIn(raw, <<Clamp(c[1] + o[1], 0, g.w - 1), Clamp(c[2] + o[2], 0, g.h - 1)>>)
  IN [o \in Square(Radius(kernel)) |->
        kernel.spatial[Magnitude(o[1]) + 1] * kernel.spatial[Magnitude(o[2]) + 1]
          * kernel.range[ClassIn(raw, c)][Sample(o)]
          * (2 * Paper[Sample(o)] - Paper.free - Paper.unknown)]

Total(pulls) == MapThenSumSet(LAMBDA o : pulls[o], DOMAIN pulls)

\* recompute_filtered_threshold_row_spans over a whole image: the average of the
\* neighbourhood against kFreeThreshold.
Thresholded(g, raw, kernel) ==
  [free |-> {c \in Cells(g) \ raw.occupied : Total(Pulls(g, raw, kernel, c)) >= 0},
   occupied |-> raw.occupied]

\* recompute_dilation_row_spans over a whole image: a cell is free if a free
\* cell is within the circular stencil.
Dilated(g, raw, thr, radius) ==
  [free |-> (Cells(g) \cap UNION {Around(c, Disk(radius)) : c \in thr.free}) \ raw.occupied,
   occupied |-> raw.occupied]

\* What the stages make of a whole raw image: the reference.
FullThreshold(g, raw, config) ==
  IF config.enabled THEN Thresholded(g, raw, config.kernel) ELSE raw
FullOutput(g, raw, config) ==
  IF config.enabled
  THEN Dilated(g, raw, Thresholded(g, raw, config.kernel), config.dilation) ELSE raw

-----------------------------------------------------------------------------
(* The tables of the workspace: samples of a kernel, and the linear offsets *)
(* made of them for one image width (-1: for none).                         *)

NoTable == [samples |-> <<>>, width |-> -1, offsets |-> <<>>]

\* Mutant of WithSamples: new samples keep the width of the old offsets.
WithSamplesKeepingWidth(table, samples) == [table EXCEPT !.samples = samples]

\* ensure_spatial_kernel_cache, ensure_dilation_kernel_cache
WithSamples(table, samples) ==
  IF table.samples = samples THEN table
  ELSE [table EXCEPT !.samples = samples, !.width = -1]

\* ensure_spatial_linear_offset_cache, ensure_dilation_linear_offset_cache
WithOffsets(table, width) ==
  IF table.width = width THEN table
  ELSE [table EXCEPT !.width = width, !.offsets = <<table.samples, width>>]

\* prepare_workspace_for_overlap_reuse drops the offsets and keeps the samples.
WithoutOffsets(table) == [table EXCEPT !.width = -1, !.offsets = <<>>]

\* ensure_occupancy_to_paper_lut_cache, then rebuild_raw_chunk for all of S: the
\* table of a fresh workspace says occupied, and claims to be for FreshOcc.
Rasterised(data, S, occ) ==
  IF ws.lutOcc = occ /\ ~ws.lutFilled THEN [free |-> {}, occupied |-> S]
  ELSE Classified(data, S, occ)

-----------------------------------------------------------------------------
(* The build.                                                               *)

FreshWorkspace ==
  [initialized |-> FALSE, geo |-> Nowhere,
   config |-> CHOOSE c \in Configs : TRUE,
   cache |-> NoData, raw |-> NoImage, thr |-> NoImage, out |-> NoImage,
   lutOcc |-> FreshOcc, lutFilled |-> FALSE,
   spatial |-> NoTable, stencil |-> NoTable]

\* The workspace after the geometry step: as it was, moved to the new window
\* (prepare_workspace_for_overlap_reuse), or emptied (resize_workspace_for_geometry).
Carried(m, transition) ==
  LET p == Overlap(ws.geo, m.geo)
  IN CASE transition = "same" -> ws
       [] transition = "overlap" ->
            [ws EXCEPT !.geo = m.geo,
               !.cache = [c \in Cells(m.geo) |->
                            IF c \in Kept(p) THEN ws.cache[Before(p, c)] ELSE -1],
               !.raw = Moved(p, ws.raw), !.thr = Moved(p, ws.thr), !.out = Moved(p, ws.out),
               !.spatial = WithoutOffsets(ws.spatial),
               !.stencil = WithoutOffsets(ws.stencil)]
       [] OTHER ->
            [ws EXCEPT !.geo = m.geo, !.cache = [c \in Cells(m.geo) |-> -1],
               !.raw = NoImage, !.thr = NoImage, !.out = NoImage]

\* The sides of the window a reuse cut off, and those it grew.
CutSides(p, old) ==
  {s \in {"left", "right", "bottom", "top"} :
     CASE s = "left" -> p.oldX > 0   [] s = "right" -> p.oldX + p.w < old.w
       [] s = "bottom" -> p.oldY > 0 [] s = "top" -> p.oldY + p.h < old.h}
GrownSides(p, new) ==
  {s \in {"left", "right", "bottom", "top"} :
     CASE s = "left" -> p.newX > 0   [] s = "right" -> p.newX + p.w < new.w
       [] s = "bottom" -> p.newY > 0 [] s = "top" -> p.newY + p.h < new.h}

\* The dirty chunks of a map laid over a carried workspace
\* (populate_chunked_raw_image_and_detect_dirty).
DirtyChunks(m, config, transition, base) ==
  LET was == Classified(base.cache, Cells(m.geo), config.occ)
      is == Classified(m.data, Cells(m.geo), config.occ)
      halo == IF config.enabled THEN Radius(config.kernel) ELSE 0
      forced == IF transition = "overlap"
                THEN ForcedChunks(m.geo, Overlap(ws.geo, m.geo), halo) ELSE {}
  IN IF ~ws.initialized \/ transition = "full" \/ ws.config.occ # config.occ
     THEN Chunks(m.geo)
     ELSE {k \in Chunks(m.geo) : k \in forced \/ NeedsRebuild(was, is, ChunkCells(m.geo, k))}

\* The cells the last stage writes to the output: the dirty ones, or with the
\* optimization enabled those within reach of both stages.
Written(g, config, dirty, everything) ==
  IF ~config.enabled THEN dirty
  ELSE IF everything THEN Cells(g)
  ELSE Widened(g, dirty, Radius(config.kernel) + config.dilation)

\* The stages over the dirty cells of a workspace whose raw image is current.
Recomputed(base, config, dirty, everything) ==
  LET g == base.geo
      r == Radius(config.kernel)
      filterCells == IF everything THEN Cells(g) ELSE Widened(g, dirty, r)
      written == Written(g, config, dirty, everything)
      thr == Patched(base.thr, filterCells, Thresholded(g, base.raw, config.kernel))
      out == Patched(base.out, written, Dilated(g, base.raw, thr, config.dilation))
  IN IF config.enabled
     THEN [base EXCEPT !.thr = thr, !.out = out,
             !.spatial = WithOffsets(WithSamples(base.spatial, config.kernel.spatial), g.w),
             !.stencil = WithOffsets(WithSamples(base.stencil, <<config.dilation>>), g.w)]
     ELSE [base EXCEPT !.thr = Patched(base.thr, dirty, base.raw),
                       !.out = Patched(base.out, written, base.raw)]

\* Mutant of Rastered: the whole map is remembered, rebuilt or not.
RasteredRememberingAll(base, m, config, rebuilt) ==
  [base EXCEPT
     !.lutOcc = config.occ, !.lutFilled = ws.lutFilled \/ ws.lutOcc # config.occ,
     !.cache = m.data,
     !.raw = Patched(base.raw, rebuilt, Rasterised(m.data, rebuilt, config.occ))]

\* The raw stage: the dirty chunks are copied, classified and remembered.
Rastered(base, m, config, rebuilt) ==
  [base EXCEPT
     !.lutOcc = config.occ, !.lutFilled = ws.lutFilled \/ ws.lutOcc # config.occ,
     !.cache = [c \in Cells(m.geo) |-> IF c \in rebuilt THEN m.data[c] ELSE base.cache[c]],
     !.raw = Patched(base.raw, rebuilt, Rasterised(m.data, rebuilt, config.occ))]

\* Mutant of Flagged: the lambda of the border cells writes without raising the flag.
FlaggedInside(old, new, g, config, written) ==
  LET d == IF config.enabled THEN config.dilation ELSE 0
      inside == {c \in written : c[1] \in d..(g.w - d - 1) /\ c[2] \in d..(g.h - d - 1)}
  IN \E class \in Classes : Selected(inside, old, class) # Selected(inside, new, class)

\* What copy_raw_to_output_row_spans and recompute_dilation_row_spans accumulate: a
\* cell they wrote is not of the class it was.
Flagged(old, new, g, config, written) ==
  \E class \in Classes : Selected(written, old, class) # Selected(written, new, class)

\* DecisionMapBuildStatus: with nothing dirty the build returns early, whatever
\* happened to the window; else a change of the window counts as one of the output.
Report(transition, dirty, flagged) ==
  [outputChanged |-> dirty # {} /\ (transition # "same" \/ flagged),
   geometryChanged |-> transition # "same"]

\* build_decision_map; each \E over a single value names a stage's result.
Build(m, config) ==
  \E transition \in {Transition(m, config.occ)} :
  \E base \in {Carried(m, transition)} :
  \E rebuilt \in {{c \in Cells(m.geo) :
                     Chunk(c) \in DirtyChunks(m, config, transition, base)}} :
  \E current \in {Rastered(base, m, config, rebuilt)} :
    LET configChanged == ~ws.initialized \/ ws.config # config
        dirty == IF configChanged THEN Cells(m.geo) ELSE rebuilt
        written == Written(base.geo, config, dirty, configChanged)
        p == Overlap(ws.geo, m.geo)
    IN /\ map' = m
       /\ ws' = IF dirty = {} THEN current
                ELSE [Recomputed(current, config, dirty, configChanged) EXCEPT
                        !.initialized = TRUE, !.config = config]
       /\ status' = Report(transition, dirty,
                           Flagged(base.out, ws'.out, base.geo, config, written))
       /\ frayed' = IF configChanged \/ transition = "full" THEN {}
                    ELSE IF transition = "same" THEN frayed
                    ELSE (frayed \ GrownSides(p, m.geo)) \cup CutSides(p, ws.geo)

NoStatus == [outputChanged |-> FALSE, geometryChanged |-> FALSE]

Init ==
  /\ map = [geo |-> Nowhere, data |-> NoData]
  /\ ws = FreshWorkspace
  /\ status = NoStatus
  /\ frayed = {}

\* A map message arrives: the configuration is the one of the last build.
NewMap ==
  \E m \in Maps, config \in Configs :
    /\ ws.initialized => config = ws.config
    /\ Build(m, config)

\* The same map is built again under another configuration.
Reconfigure ==
  /\ ws.initialized
  /\ \E config \in Configs \ {ws.config} : Build(map, config)

Next == NewMap \/ Reconfigure

Spec == Init /\ [][Next]_vars

-----------------------------------------------------------------------------
(* Properties.                                                              *)

Images ==
  {image \in [free : SUBSET Cells(ws.geo), occupied : SUBSET Cells(ws.geo)] :
     image.free \cap image.occupied = {}}

TypeOK ==
  /\ map \in Maps \cup {[geo |-> Nowhere, data |-> NoData]}
  /\ ws.geo \in Geometries \cup {Nowhere}
  /\ ws.cache \in [Cells(ws.geo) -> (-1)..100]
  /\ ws.raw \in Images /\ ws.thr \in Images /\ ws.out \in Images
  /\ status \in [outputChanged : BOOLEAN, geometryChanged : BOOLEAN]
  /\ frayed \subseteq {"left", "right", "bottom", "top"}

\* c is out of reach of every frayed side.
ClearOf(c, reach) ==
  /\ "left" \in frayed => c[1] >= reach
  /\ "right" \in frayed => c[1] < ws.geo.w - reach
  /\ "bottom" \in frayed => c[2] >= reach
  /\ "top" \in frayed => c[2] < ws.geo.h - reach

\* However the raw image came about, by jitter, growth, shifts and lazy chunks, every
\* later stage is what computing it anew over the whole of that raw image would give,
\* except within reach of a side that reuse cut off and nothing grew over since:
\* "partial recomputation remains exact" (decision_map.cpp, 1578) but for that.  The
\* raw image itself may lag behind the map, by what LagIsBounded allows.
ExactAwayFromCuts ==
  LET r == IF ws.config.enabled THEN Radius(ws.config.kernel) ELSE 0
      d == IF ws.config.enabled THEN ws.config.dilation ELSE 0
      Clear(reach) == {c \in Cells(ws.geo) : ClearOf(c, reach)}
  IN ws.initialized =>
       /\ Differing(Clear(r), ws.thr, FullThreshold(ws.geo, ws.raw, ws.config)) = {}
       /\ Differing(Clear(r + d), ws.out, FullOutput(ws.geo, ws.raw, ws.config)) = {}

\* The latest map, cell by cell of the window.
MapImage == Classified(map.data, Cells(map.geo), ws.config.occ)

\* Where one chunk of the map holds both unknown and free cells, the raw image of that
\* chunk is current, however many small changes were let pass before.  It says nothing
\* of a frontier between a chunk without unknown cells and one without free cells.
MixedChunksCurrent ==
  ws.initialized =>
    LET is == MapImage
    IN \A k \in Chunks(ws.geo) :
         LET S == ChunkCells(ws.geo, k)
         IN S \cap is.free # {} /\ S \ Known(is) # {} => Differing(S, ws.raw, is) = {}

\* Small changes do not add up: a chunk of the raw image never differs from the
\* map by more than one change that may be let pass.
LagIsBounded ==
  ws.initialized =>
    \A k \in Chunks(ws.geo) :
      ~NeedsRebuild(ws.raw, MapImage, ChunkCells(ws.geo, k))

\* In a window that stays, the flag of a build tells exactly whether a cell of the
\* output changed, though it is raised only over the cells of the last stage and not
\* at all on the early return: the core renews the generation its caches go by on it
\* (refresh_decision_map), so a change unreported leaves a stale snapshot in use, and
\* one reported for nothing throws a good one away.
FlagTellsChange ==
  [][~status'.geometryChanged => (status'.outputChanged <=> ws'.out # ws.out)]_vars

\* Linear offsets kept for a width were made of the samples kept with them.
OffsetsMatchSamples ==
  \A table \in {ws.spatial, ws.stencil} :
    table.width # -1 => table.offsets = <<table.samples, table.width>>

\* Jitter does not add up: the window the images are laid out in stays within the
\* tolerance of the latest map's, which is the one the output advertises.
WindowFollowsMap == ws.initialized => SameGeometry(ws.geo, map.geo)

=============================================================================
