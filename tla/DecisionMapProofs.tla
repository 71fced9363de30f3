-------------------------- MODULE DecisionMapProofs --------------------------
(***************************************************************************)
(* Proofs about DecisionMap, for every map, configuration and chunk size:  *)
(* what the geometry step and the tables promise, how far the raw image    *)
(* lags behind the map, and that the later stages are exact where no side  *)
(* of the window was cut off.                                              *)
(***************************************************************************)
EXTENDS DecisionMap, FiniteSetTheorems, TLAPS

-----------------------------------------------------------------------------
(* The tables.                                                              *)

TableOK(t) ==
  /\ DOMAIN t = {"samples", "width", "offsets"}
  /\ t.width # -1 => t.offsets = <<t.samples, t.width>>

\* New samples drop the width of the offsets made of the old ones.
LEMMA WithSamplesOK ==
  ASSUME NEW t, NEW samples, TableOK(t)
  PROVE  TableOK(WithSamples(t, samples))
BY DEF TableOK, WithSamples

\* Offsets are made of the samples the table holds.
LEMMA WithOffsetsOK ==
  ASSUME NEW t, NEW width, TableOK(t)
  PROVE  TableOK(WithOffsets(t, width))
BY DEF TableOK, WithOffsets

\* Dropped offsets have no width.
LEMMA WithoutOffsetsOK ==
  ASSUME NEW t, TableOK(t)
  PROVE  TableOK(WithoutOffsets(t))
BY DEF TableOK, WithoutOffsets

\* A table that holds nothing is one.
LEMMA NoTableOK == TableOK(NoTable)
BY DEF TableOK, NoTable

-----------------------------------------------------------------------------
(* The workspace.                                                           *)

Fields == {"initialized", "geo", "config", "cache", "raw", "thr", "out",
           "lutOcc", "lutFilled", "spatial", "stencil"}

\* The fields a workspace has, and what holds of its tables.
Workspace(w) == DOMAIN w = Fields /\ TableOK(w.spatial) /\ TableOK(w.stencil)

\* A fresh workspace is one.
LEMMA FreshIsWorkspace == Workspace(FreshWorkspace) /\ FreshWorkspace.initialized = FALSE
BY NoTableOK DEF Workspace, FreshWorkspace, Fields

\* The occupancies the workspace keeps when it moves to the window of m.
MovedCache(m) ==
  LET p == Overlap(ws.geo, m.geo)
  IN [c \in Cells(m.geo) |-> IF c \in Kept(p) THEN ws.cache[Before(p, c)] ELSE -1]

\* What the geometry step does to the fields of a workspace.
LEMMA CarriedOK ==
  ASSUME Workspace(ws), NEW m, NEW transition
  PROVE  LET base == Carried(m, transition)
         IN /\ Workspace(base)
            /\ base.initialized = ws.initialized /\ base.config = ws.config
            /\ transition = "same" => base = ws
            /\ transition # "same" => base.geo = m.geo
            /\ transition = "overlap" =>
                 /\ base.raw = Moved(Overlap(ws.geo, m.geo), ws.raw)
                 /\ base.cache = MovedCache(m)
            /\ transition \notin {"same", "overlap"} => base.raw = NoImage
<1> DEFINE p == Overlap(ws.geo, m.geo)
<1>1. CASE transition = "same"
  BY <1>1 DEF Carried
<1>2. CASE transition = "overlap"
  <2> DEFINE cache == MovedCache(m)
             new == [ws EXCEPT !.geo = m.geo, !.cache = cache,
                       !.raw = Moved(p, ws.raw), !.thr = Moved(p, ws.thr), !.out = Moved(p, ws.out),
                       !.spatial = WithoutOffsets(ws.spatial),
                       !.stencil = WithoutOffsets(ws.stencil)]
  <2>1. Carried(m, transition) = new
    BY <1>2 DEF Carried, MovedCache
  <2> HIDE DEF cache, p
  <2>2. /\ DOMAIN new = Fields /\ new.initialized = ws.initialized /\ new.config = ws.config
        /\ new.geo = m.geo
        /\ new.raw = Moved(p, ws.raw) /\ new.cache = cache
        /\ new.spatial = WithoutOffsets(ws.spatial) /\ new.stencil = WithoutOffsets(ws.stencil)
    BY DEF Workspace, Fields
  <2>3. TableOK(WithoutOffsets(ws.spatial)) /\ TableOK(WithoutOffsets(ws.stencil))
    BY WithoutOffsetsOK DEF Workspace
  <2>4. Workspace(new)
    BY <2>2, <2>3 DEF Workspace
  <2> HIDE DEF new
  <2> QED BY <1>2, <2>1, <2>2, <2>4 DEF cache, p
<1>3. CASE transition \notin {"same", "overlap"}
  <2> DEFINE cache == [c \in Cells(m.geo) |-> -1]
             new == [ws EXCEPT !.geo = m.geo, !.cache = cache,
                       !.raw = NoImage, !.thr = NoImage, !.out = NoImage]
  <2>1. Carried(m, transition) = new
    BY <1>3 DEF Carried
  <2> HIDE DEF cache
  <2>2. /\ DOMAIN new = Fields /\ new.initialized = ws.initialized /\ new.config = ws.config
        /\ new.geo = m.geo
        /\ new.raw = NoImage
        /\ new.spatial = ws.spatial /\ new.stencil = ws.stencil
    BY DEF Workspace, Fields
  <2> QED BY <1>3, <2>1, <2>2 DEF Workspace
<1> QED BY <1>1, <1>2, <1>3

\* The raw stage changes the raw image, its memory and the paper table only.
LEMMA RasteredOK ==
  ASSUME NEW base, Workspace(base), NEW m, NEW config, NEW rebuilt
  PROVE  LET new == Rastered(base, m, config, rebuilt)
         IN /\ Workspace(new)
            /\ new.initialized = base.initialized /\ new.geo = base.geo
            /\ new.config = base.config /\ new.out = base.out
<1> DEFINE cache == [c \in Cells(m.geo) |-> IF c \in rebuilt THEN m.data[c] ELSE base.cache[c]]
           raw == Patched(base.raw, rebuilt, Rasterised(m.data, rebuilt, config.occ))
           filled == ws.lutFilled \/ ws.lutOcc # config.occ
           new == [base EXCEPT !.lutOcc = config.occ, !.lutFilled = filled,
                               !.cache = cache, !.raw = raw]
<1>1. Rastered(base, m, config, rebuilt) = new
  BY DEF Rastered
<1> HIDE DEF cache, raw, filled
<1>2. /\ DOMAIN new = Fields
      /\ new.initialized = base.initialized /\ new.geo = base.geo
      /\ new.config = base.config /\ new.out = base.out
      /\ new.spatial = base.spatial /\ new.stencil = base.stencil
  BY DEF Workspace, Fields
<1> QED BY <1>1, <1>2 DEF Workspace

\* What it makes of the raw image, its memory and the paper table.
LEMMA RasteredData ==
  ASSUME NEW base, Workspace(base), NEW m, NEW config, NEW rebuilt
  PROVE  LET new == Rastered(base, m, config, rebuilt)
         IN /\ new.lutOcc = config.occ
            /\ ~new.lutFilled => ~ws.lutFilled /\ ws.lutOcc = config.occ
            /\ new.cache = [c \in Cells(m.geo) |-> IF c \in rebuilt THEN m.data[c] ELSE base.cache[c]]
            /\ new.raw = Patched(base.raw, rebuilt, Rasterised(m.data, rebuilt, config.occ))
<1> DEFINE cache == [c \in Cells(m.geo) |-> IF c \in rebuilt THEN m.data[c] ELSE base.cache[c]]
           raw == Patched(base.raw, rebuilt, Rasterised(m.data, rebuilt, config.occ))
           filled == ws.lutFilled \/ ws.lutOcc # config.occ
           new == [base EXCEPT !.lutOcc = config.occ, !.lutFilled = filled,
                               !.cache = cache, !.raw = raw]
<1>1. Rastered(base, m, config, rebuilt) = new
  BY DEF Rastered
<1>2. ~filled => ~ws.lutFilled /\ ws.lutOcc = config.occ
  OBVIOUS
<1> HIDE DEF cache, raw, filled
<1>3. /\ new.lutOcc = config.occ /\ new.lutFilled = filled
      /\ new.cache = cache /\ new.raw = raw
  BY DEF Workspace, Fields
<1> HIDE DEF new
<1>4. ~new.lutFilled => ~ws.lutFilled /\ ws.lutOcc = config.occ
  BY <1>2, <1>3
<1> QED BY <1>1, <1>3, <1>4 DEF cache, raw

\* The window and the raw stage of a workspace.
SameData(w, v) ==
  /\ v.geo = w.geo /\ v.raw = w.raw /\ v.cache = w.cache
  /\ v.lutOcc = w.lutOcc /\ v.lutFilled = w.lutFilled

\* The later stages change the images and the tables, never the window.
LEMMA RecomputedOK ==
  ASSUME NEW base, Workspace(base), NEW config, NEW dirty, NEW everything
  PROVE  LET new == Recomputed(base, config, dirty, everything)
         IN Workspace(new) /\ SameData(base, new)
<1> DEFINE g == base.geo
           r == Radius(config.kernel)
           filterCells == IF everything THEN Cells(g) ELSE Widened(g, dirty, r)
           written == Written(g, config, dirty, everything)
           thr == Patched(base.thr, filterCells, Thresholded(g, base.raw, config.kernel))
           out == Patched(base.out, written, Dilated(g, base.raw, thr, config.dilation))
           spatial == WithOffsets(WithSamples(base.spatial, config.kernel.spatial), g.w)
           stencil == WithOffsets(WithSamples(base.stencil, <<config.dilation>>), g.w)
           filtered == [base EXCEPT !.thr = thr, !.out = out, !.spatial = spatial, !.stencil = stencil]
           plainThr == Patched(base.thr, dirty, base.raw)
           plainOut == Patched(base.out, written, base.raw)
           plain == [base EXCEPT !.thr = plainThr, !.out = plainOut]
<1>1. Recomputed(base, config, dirty, everything) = IF config.enabled THEN filtered ELSE plain
  BY DEF Recomputed
<1>2. TableOK(spatial) /\ TableOK(stencil)
  BY WithSamplesOK, WithOffsetsOK DEF Workspace
<1> HIDE DEF thr, out, spatial, stencil, plainThr, plainOut
<1>3. /\ DOMAIN filtered = Fields /\ SameData(base, filtered)
      /\ filtered.spatial = spatial /\ filtered.stencil = stencil
  BY DEF Workspace, Fields, SameData
<1>4. /\ DOMAIN plain = Fields /\ SameData(base, plain)
      /\ plain.spatial = base.spatial /\ plain.stencil = base.stencil
  BY DEF Workspace, Fields, SameData
<1>5. Workspace(filtered) /\ SameData(base, filtered)
  BY <1>2, <1>3 DEF Workspace
<1>6. Workspace(plain) /\ SameData(base, plain)
  BY <1>4 DEF Workspace
<1> HIDE DEF filtered, plain
<1> QED BY <1>1, <1>5, <1>6

-----------------------------------------------------------------------------
(* A build.                                                                 *)

IInv == Workspace(ws) /\ (ws.initialized => map \in Maps /\ SameGeometry(ws.geo, map.geo))

\* A window is within the tolerance of itself.
LEMMA SameAsItself ==
  ASSUME NEW m \in Maps
  PROVE  SameGeometry(m.geo, m.geo)
<1>1. m.geo \in Geometries
  BY DEF Geometries
<1>2. /\ m.geo.ox \in Int /\ m.geo.oy \in Int /\ JitterUnits \in Nat
      /\ m.geo.res \in Nat /\ ResolutionPart \in Nat
  BY <1>1, DecisionMapAssumption
<1>3. Magnitude(m.geo.res - m.geo.res) = 0 /\ 0 * ResolutionPart = 0
  BY <1>2 DEF Magnitude
<1> QED BY <1>2, <1>3 DEF SameGeometry, SameResolution, Magnitude

\* The values a build goes through.
Stages(m, config, transition, base, rebuilt, current, dirty) ==
  /\ transition = Transition(m, config.occ)
  /\ base = Carried(m, transition)
  /\ rebuilt = {c \in Cells(m.geo) : Chunk(c) \in DirtyChunks(m, config, transition, base)}
  /\ current = Rastered(base, m, config, rebuilt)
  /\ dirty = IF ~ws.initialized \/ ws.config # config THEN Cells(m.geo) ELSE rebuilt
  /\ map' = m
  /\ ws' = IF dirty = {} THEN current
           ELSE [Recomputed(current, config, dirty, ~ws.initialized \/ ws.config # config) EXCEPT
                   !.initialized = TRUE, !.config = config]
  /\ status' = Report(transition, dirty,
                      Flagged(base.out, ws'.out, base.geo, config,
                              Written(base.geo, config, dirty, ~ws.initialized \/ ws.config # config)))

\* Every build goes through them.
LEMMA BuildHasStages ==
  ASSUME NEW m, NEW config, Build(m, config)
  PROVE  \E transition, base, rebuilt, current, dirty :
           Stages(m, config, transition, base, rebuilt, current, dirty)
<1>1. PICK transition \in {Transition(m, config.occ)} :
      \E base \in {Carried(m, transition)} :
      \E rebuilt \in {{c \in Cells(m.geo) :
                         Chunk(c) \in DirtyChunks(m, config, transition, base)}} :
      \E current \in {Rastered(base, m, config, rebuilt)} :
        LET configChanged == ~ws.initialized \/ ws.config # config
            dirty == IF configChanged THEN Cells(m.geo) ELSE rebuilt
        IN /\ map' = m
           /\ ws' = IF dirty = {} THEN current
                    ELSE [Recomputed(current, config, dirty, configChanged) EXCEPT
                            !.initialized = TRUE, !.config = config]
           /\ status' = Report(transition, dirty,
                          Flagged(base.out, ws'.out, base.geo, config,
                                  Written(base.geo, config, dirty, configChanged)))
  BY ZenonT(60) DEF Build
<1> DEFINE base == Carried(m, transition)
           rebuilt == {c \in Cells(m.geo) : Chunk(c) \in DirtyChunks(m, config, transition, base)}
           current == Rastered(base, m, config, rebuilt)
           dirty == IF ~ws.initialized \/ ws.config # config THEN Cells(m.geo) ELSE rebuilt
<1>2. Stages(m, config, transition, base, rebuilt, current, dirty)
  BY <1>1 DEF Stages
<1> QED BY <1>2

\* The workspace along the stages of a build.
StageFacts(config, base, current, dirty) ==
  /\ Workspace(base) /\ Workspace(current) /\ Workspace(ws')
  /\ base.initialized = ws.initialized
  /\ current.geo = base.geo /\ current.out = base.out
  /\ SameData(current, ws')
  /\ dirty = {} =>
       ws' = current /\ ws'.config = base.config /\ ws'.initialized = ws.initialized
  /\ dirty # {} => ws'.config = config /\ ws'.initialized = TRUE

\* A build has them.
LEMMA StagesOK ==
  ASSUME Workspace(ws), NEW m, NEW config,
         NEW transition, NEW base, NEW rebuilt, NEW current, NEW dirty,
         Stages(m, config, transition, base, rebuilt, current, dirty)
  PROVE  StageFacts(config, base, current, dirty)
<1> DEFINE everything == ~ws.initialized \/ ws.config # config
           recomputed == Recomputed(current, config, dirty, everything)
           last == [recomputed EXCEPT !.initialized = TRUE, !.config = config]
<1>1. Workspace(base) /\ base.initialized = ws.initialized
  BY CarriedOK DEF Stages
<1>2. /\ Workspace(current) /\ current.geo = base.geo /\ current.out = base.out
      /\ current.initialized = base.initialized /\ current.config = base.config
  <2> USE <1>1
  <2>1. current = Rastered(base, m, config, rebuilt)
    BY DEF Stages
  <2> QED BY <2>1, RasteredOK
<1>3. ws' = IF dirty = {} THEN current ELSE last
  BY DEF Stages
<1>4. Workspace(recomputed) /\ SameData(current, recomputed)
  <2> HIDE DEF everything
  <2> QED BY <1>2, RecomputedOK
<1> HIDE DEF recomputed
<1>5. /\ DOMAIN last = Fields /\ SameData(current, last)
      /\ last.spatial = recomputed.spatial /\ last.stencil = recomputed.stencil
      /\ last.config = config /\ last.initialized = TRUE
  BY <1>4 DEF Workspace, Fields, SameData
<1>6. Workspace(last)
  BY <1>4, <1>5 DEF Workspace
<1> HIDE DEF last
<1>7. SameData(current, current)
  BY DEF SameData
<1>8. CASE dirty = {}
  BY <1>1, <1>2, <1>3, <1>7, <1>8 DEF StageFacts
<1>9. CASE dirty # {}
  BY <1>1, <1>2, <1>3, <1>5, <1>6, <1>9 DEF StageFacts
<1> QED BY <1>8, <1>9

\* What a build leaves behind: a workspace whose window follows the map.
LEMMA BuildOK ==
  ASSUME IInv, NEW m \in Maps, NEW config, Build(m, config)
  PROVE  IInv'
<1>1. PICK transition, base, rebuilt, current, dirty :
        Stages(m, config, transition, base, rebuilt, current, dirty)
  BY BuildHasStages
<1>2. /\ transition = "same" => base = ws
      /\ transition # "same" => base.geo = m.geo
  BY <1>1, CarriedOK DEF IInv, Stages
<1>3. transition = "same" => SameGeometry(ws.geo, m.geo)
  BY <1>1 DEF Transition, Stages
<1>4. /\ Workspace(ws') /\ SameData(current, ws') /\ current.geo = base.geo
      /\ current.out = base.out
      /\ dirty = {} => ws' = current
  <2>1. Workspace(ws)
    BY DEF IInv
  <2>2. StageFacts(config, base, current, dirty)
    BY <1>1, <2>1, StagesOK
  <2> QED BY <2>2 DEF StageFacts
<1>5. SameGeometry(base.geo, m.geo)
  BY <1>2, <1>3, SameAsItself
<1>6. ws'.geo = base.geo /\ map' = m
  BY <1>1, <1>4 DEF SameData, Stages
<1> QED
  BY <1>4, <1>5, <1>6 DEF IInv, SameGeometry, SameResolution, Workspace, TableOK, Magnitude

-----------------------------------------------------------------------------
LEMMA IInvHolds == Spec => []IInv
<1>1. Init => IInv
  BY FreshIsWorkspace DEF Init, IInv
<1>2. ASSUME IInv, [Next]_vars
      PROVE  IInv'
  <2>1. CASE NewMap
    BY <1>2, <2>1, BuildOK DEF NewMap
  <2>2. CASE Reconfigure
    BY <1>2, <2>2, BuildOK DEF Reconfigure, IInv
  <2>3. CASE UNCHANGED vars
    BY <1>2, <2>3 DEF vars, IInv, SameGeometry, SameResolution, Workspace, TableOK, Magnitude
  <2> QED BY <1>2, <2>1, <2>2, <2>3 DEF Next
<1> QED BY <1>1, <1>2, PTL DEF Spec

\* The window the images are laid out in stays within the jitter tolerance of the
\* latest map's (classify_geometry_transition, build_decision_map).
THEOREM WindowStaysClose == Spec => []WindowFollowsMap
<1>1. IInv => WindowFollowsMap
  BY DEF IInv, WindowFollowsMap
<1> QED BY <1>1, IInvHolds, PTL

\* No offset table outlives the samples or the width it was made for
\* (ensure_spatial_linear_offset_cache, ensure_dilation_linear_offset_cache).
THEOREM TablesStayInStep == Spec => []OffsetsMatchSamples
<1>1. IInv => OffsetsMatchSamples
  BY DEF IInv, Workspace, TableOK, OffsetsMatchSamples
<1> QED BY <1>1, IInvHolds, PTL

-----------------------------------------------------------------------------
(* How far the raw image lags behind the map.                               *)

\* Two images agree on the cells of S.
SameOn(S, a, b) == S \cap a.free = S \cap b.free /\ S \cap a.occupied = S \cap b.occupied

\* The test of a chunk looks at the cells of the chunk only.
LEMMA TestIsLocal ==
  ASSUME NEW S, NEW a, NEW b, NEW is, SameOn(S, a, b)
  PROVE  NeedsRebuild(a, is, S) <=> NeedsRebuild(b, is, S)
<1>1. Selected(S, a, "free") = Selected(S, b, "free")
  BY DEF SameOn, Selected
<1>2. Selected(S, a, "occupied") = Selected(S, b, "occupied")
  BY DEF SameOn, Selected
<1>3. Selected(S, a, "unknown") = Selected(S, b, "unknown")
  BY DEF SameOn, Selected, Known
<1>4. UNION {Selected(S, a, class) \cap Selected(S, is, class) : class \in Classes}
        = UNION {Selected(S, b, class) \cap Selected(S, is, class) : class \in Classes}
  BY <1>1, <1>2, <1>3 DEF Classes
<1>5. Differing(S, a, is) = Differing(S, b, is)
  BY <1>4 DEF Differing
<1> HIDE DEF Selected
<1> QED BY <1>1, <1>2, <1>3, <1>5 DEF NeedsRebuild

\* A chunk that is as in the map passes the test.
LEMMA CurrentPasses ==
  ASSUME NEW S, NEW a, NEW is, SameOn(S, a, is)
  PROVE  ~NeedsRebuild(a, is, S)
<1>1. Differing(S, is, is) = {}
  <2>1. ASSUME NEW c \in S
        PROVE  \E class \in Classes : c \in Selected(S, is, class)
    BY <2>1 DEF Classes, Selected, Known
  <2> QED BY <2>1 DEF Differing
<1>2. ~NeedsRebuild(is, is, S)
  BY <1>1, FS_EmptySet DEF NeedsRebuild
<1> QED BY <1>2, TestIsLocal

\* The kept part lies in the new window, and did in the old one.
LEMMA KeptInside ==
  ASSUME NEW old, NEW new, NEW c,
         old.ox \in Int, old.oy \in Int, old.w \in Nat, old.h \in Nat,
         new.ox \in Int, new.oy \in Int, new.w \in Nat, new.h \in Nat,
         c \in Kept(Overlap(old, new))
  PROVE  c \in Cells(new) /\ Before(Overlap(old, new), c) \in Cells(old)
<1> DEFINE dx == Offset(old.ox, new.ox)
           dy == Offset(old.oy, new.oy)
<1>1. dx \in Int /\ dy \in Int
  <2>1. OriginUnits \in Nat \ {0}
    BY DecisionMapAssumption
  <2> QED BY <2>1 DEF Offset, RoundedRatio, Magnitude
<1> HIDE DEF dx, dy
<1>2. Overlap(old, new) =
        [newX |-> Larger(0, dx), newY |-> Larger(0, dy),
         oldX |-> Larger(0, -dx), oldY |-> Larger(0, -dy),
         w |-> Smaller(old.w - Larger(0, -dx), new.w - Larger(0, dx)),
         h |-> Smaller(old.h - Larger(0, -dy), new.h - Larger(0, dy))]
  BY DEF Overlap, dx, dy
<1>3. PICK x \in Int, y \in Int :
        /\ c = <<x, y>>
        /\ Larger(0, dx) <= x /\ x <= Larger(0, dx) + Smaller(old.w - Larger(0, -dx), new.w - Larger(0, dx)) - 1
        /\ Larger(0, dy) <= y /\ y <= Larger(0, dy) + Smaller(old.h - Larger(0, -dy), new.h - Larger(0, dy)) - 1
  BY <1>1, <1>2 DEF Kept, Larger, Smaller
<1>4. x \in 0..(new.w - 1) /\ y \in 0..(new.h - 1)
  BY <1>1, <1>3 DEF Larger, Smaller
<1>5. Before(Overlap(old, new), c)
        = <<x - Larger(0, dx) + Larger(0, -dx), y - Larger(0, dy) + Larger(0, -dy)>>
  BY <1>2, <1>3 DEF Before
<1>6. /\ x - Larger(0, dx) + Larger(0, -dx) \in 0..(old.w - 1)
      /\ y - Larger(0, dy) + Larger(0, -dy) \in 0..(old.h - 1)
  BY <1>1, <1>3 DEF Larger, Smaller
<1> QED BY <1>3, <1>4, <1>5, <1>6 DEF Cells

\* Moving the classes of the remembered occupancies, or classifying them when they
\* have moved, is the same.
LEMMA MovedClasses ==
  ASSUME NEW m, NEW occ,
         ws.geo.ox \in Int, ws.geo.oy \in Int, ws.geo.w \in Nat, ws.geo.h \in Nat,
         m.geo.ox \in Int, m.geo.oy \in Int, m.geo.w \in Nat, m.geo.h \in Nat
  PROVE  Moved(Overlap(ws.geo, m.geo), Classified(ws.cache, Cells(ws.geo), occ))
           = Classified(MovedCache(m), Cells(m.geo), occ)
<1> DEFINE p == Overlap(ws.geo, m.geo)
           moved == [c \in Cells(m.geo) |-> IF c \in Kept(p) THEN ws.cache[Before(p, c)] ELSE -1]
<1>1. MovedCache(m) = moved
  BY DEF MovedCache
<1>2. \A c \in Kept(p) : c \in Cells(m.geo) /\ Before(p, c) \in Cells(ws.geo)
  BY KeptInside
<1> HIDE DEF p
<1>3. \A c \in Cells(m.geo) : moved[c] >= 0 => c \in Kept(p)
  OBVIOUS
<1>4. \A c \in Kept(p) : moved[c] = ws.cache[Before(p, c)]
  BY <1>2
<1> HIDE DEF moved
<1>5. {c \in Kept(p) : Before(p, c) \in {d \in Cells(ws.geo) : ws.cache[d] >= 0 /\ ws.cache[d] < occ}}
        = {c \in Cells(m.geo) : moved[c] >= 0 /\ moved[c] < occ}
  BY <1>2, <1>3, <1>4
<1>6. {c \in Kept(p) : Before(p, c) \in {d \in Cells(ws.geo) : ws.cache[d] >= 0 /\ ws.cache[d] >= occ}}
        = {c \in Cells(m.geo) : moved[c] >= 0 /\ moved[c] >= occ}
  BY <1>2, <1>3, <1>4
<1> QED BY <1>1, <1>5, <1>6 DEF Moved, Classified, p

\* The raw image over the window is the class of every occupancy remembered.
RawIsRemembered == ws.raw = Classified(ws.cache, Cells(ws.geo), ws.config.occ)

LagInv ==
  /\ ~ws.lutFilled => ws.lutOcc = FreshOcc
  /\ ws.initialized =>
       /\ ws.geo \in Geometries /\ ws.config \in Configs
       /\ RawIsRemembered
       /\ \A k \in Chunks(ws.geo) : ~NeedsRebuild(ws.raw, MapImage, ChunkCells(ws.geo, k))

\* The threshold no table is made for, which a fresh workspace claims.
NoClaimedOcc == \A c \in Configs : c.occ # FreshOcc

\* Before the raw stage: all of the window will be rebuilt and the image holds
\* nothing else, or the image is what the workspace remembers and the chunks that
\* are not rebuilt pass the test.
Prepared(m, occ, base, rebuilt, chunks) ==
  \/ /\ rebuilt = Cells(m.geo)
     /\ base.raw.free \subseteq Cells(m.geo) /\ base.raw.occupied \subseteq Cells(m.geo)
  \/ /\ base.raw = Classified(base.cache, Cells(m.geo), occ)
     /\ \A k \in Chunks(m.geo) : k \notin chunks =>
          ~NeedsRebuild(base.raw, Classified(m.data, Cells(m.geo), occ), ChunkCells(m.geo, k))

\* A build prepares the raw stage.
LEMMA BaseImage ==
  ASSUME IInv, LagInv, NEW m \in Maps, NEW config \in Configs,
         NEW transition, NEW base, NEW rebuilt, NEW current, NEW dirty,
         Stages(m, config, transition, base, rebuilt, current, dirty)
  PROVE  /\ Cells(base.geo) = Cells(m.geo)
         /\ Prepared(m, config.occ, base, rebuilt, DirtyChunks(m, config, transition, base))
<1> DEFINE p == Overlap(ws.geo, m.geo)
<1>1. /\ transition = "same" => base = ws
      /\ transition # "same" => base.geo = m.geo
      /\ transition = "overlap" => base.raw = Moved(p, ws.raw) /\ base.cache = MovedCache(m)
      /\ transition \notin {"same", "overlap"} => base.raw = NoImage
  BY CarriedOK DEF IInv, Stages
<1>2. /\ transition \in {"same", "overlap", "full"}
      /\ transition # "full" => ws.initialized
      /\ transition = "same" => SameGeometry(ws.geo, m.geo)
  BY DEF Stages, Transition
<1>3. Cells(base.geo) = Cells(m.geo)
  BY <1>1, <1>2 DEF SameGeometry, Cells
<1>4. m.geo \in Geometries
  BY DEF Geometries
<1>5. transition # "full" =>
        /\ ws.geo.ox \in Int /\ ws.geo.oy \in Int /\ ws.geo.w \in Nat /\ ws.geo.h \in Nat
        /\ m.geo.ox \in Int /\ m.geo.oy \in Int /\ m.geo.w \in Nat /\ m.geo.h \in Nat
  BY <1>2, <1>4, DecisionMapAssumption DEF LagInv
<1>6. transition = "overlap" => \A c \in Kept(p) : c \in Cells(m.geo)
  BY <1>5, KeptInside
<1>7. CASE ~ws.initialized \/ transition = "full" \/ ws.config.occ # config.occ
  <2>1. DirtyChunks(m, config, transition, base) = Chunks(m.geo)
    BY <1>7 DEF DirtyChunks
  <2>2. rebuilt = Cells(m.geo)
    BY <2>1 DEF Stages, Chunks
  <2>3. CASE transition = "same"
    BY <1>1, <1>2, <1>3, <2>2, <2>3 DEF LagInv, RawIsRemembered, Classified, Prepared
  <2>4. CASE transition = "overlap"
    BY <1>1, <1>3, <1>6, <2>2, <2>4 DEF Moved, Prepared
  <2>5. CASE transition = "full"
    BY <1>1, <1>3, <2>2, <2>5 DEF NoImage, Prepared
  <2> QED BY <1>2, <2>3, <2>4, <2>5
<1>8. CASE ~(~ws.initialized \/ transition = "full" \/ ws.config.occ # config.occ)
  <2>1. ws.raw = Classified(ws.cache, Cells(ws.geo), config.occ)
    BY <1>8 DEF LagInv, RawIsRemembered
  <2>2. base.raw = Classified(base.cache, Cells(m.geo), config.occ)
    <3>1. CASE transition = "same"
      BY <1>1, <1>3, <2>1, <3>1
    <3>2. CASE transition = "overlap"
      BY <1>1, <1>5, <2>1, <3>2, MovedClasses
    <3> QED BY <1>2, <1>8, <3>1, <3>2
  <2>3. ASSUME NEW k \in Chunks(m.geo), k \notin DirtyChunks(m, config, transition, base)
        PROVE  ~NeedsRebuild(base.raw, Classified(m.data, Cells(m.geo), config.occ),
                             ChunkCells(m.geo, k))
    BY <1>8, <2>2, <2>3 DEF DirtyChunks
  <2> QED BY <1>3, <2>2, <2>3 DEF Prepared
<1> QED BY <1>7, <1>8

\* The raw image and its memory after the raw stage.
NewRaw(m, occ, base, rebuilt) == Patched(base.raw, rebuilt, Classified(m.data, rebuilt, occ))
NewCache(m, base, rebuilt) ==
  [c \in Cells(m.geo) |-> IF c \in rebuilt THEN m.data[c] ELSE base.cache[c]]

\* What the raw stage leaves: the class of what is remembered, no chunk of which
\* fails the test against the map.
ImageAfter(m, occ, base, rebuilt) ==
  /\ NewRaw(m, occ, base, rebuilt)
       = Classified(NewCache(m, base, rebuilt), Cells(m.geo), occ)
  /\ \A k \in Chunks(m.geo) :
       ~NeedsRebuild(NewRaw(m, occ, base, rebuilt),
                     Classified(m.data, Cells(m.geo), occ), ChunkCells(m.geo, k))

\* The raw stage rebuilds what is dirty and keeps the rest: the image stays the
\* class of what is remembered, and lags by no chunk that fails the test.
LEMMA RasteredImage ==
  ASSUME NEW m, NEW occ, NEW base, NEW rebuilt, NEW chunks,
         rebuilt = {c \in Cells(m.geo) : Chunk(c) \in chunks},
         Prepared(m, occ, base, rebuilt, chunks)
  PROVE  ImageAfter(m, occ, base, rebuilt)
<1> DEFINE raw == NewRaw(m, occ, base, rebuilt)
           cache == NewCache(m, base, rebuilt)
           is == Classified(m.data, Cells(m.geo), occ)
<1>1. /\ raw.free = (base.raw.free \ rebuilt) \cup {c \in rebuilt : m.data[c] >= 0 /\ m.data[c] < occ}
      /\ raw.occupied = (base.raw.occupied \ rebuilt) \cup {c \in rebuilt : m.data[c] >= 0 /\ m.data[c] >= occ}
      /\ raw = [free |-> raw.free, occupied |-> raw.occupied]
  BY DEF NewRaw, Patched, Classified
<1>2. /\ raw.free = {c \in Cells(m.geo) : cache[c] >= 0 /\ cache[c] < occ}
      /\ raw.occupied = {c \in Cells(m.geo) : cache[c] >= 0 /\ cache[c] >= occ}
  BY <1>1 DEF NewCache, Classified, Prepared
<1>3. raw = Classified(cache, Cells(m.geo), occ)
  BY <1>1, <1>2 DEF Classified
<1>4. ASSUME NEW k \in Chunks(m.geo)
      PROVE  ~NeedsRebuild(raw, is, ChunkCells(m.geo, k))
  <2> DEFINE S == ChunkCells(m.geo, k)
  <2>1. CASE k \in chunks
    <3>1. S \subseteq rebuilt
      BY <2>1 DEF ChunkCells
    <3>2. SameOn(S, raw, is)
      BY <1>1, <3>1 DEF SameOn, Classified
    <3> QED BY <3>2, CurrentPasses
  <2>2. CASE k \notin chunks
    <3>1. S \cap rebuilt = {}
      BY <2>2 DEF ChunkCells
    <3>2. S # {}
      BY DEF Chunks, ChunkCells
    <3>3. rebuilt # Cells(m.geo)
      BY <3>1, <3>2 DEF ChunkCells
    <3>4. SameOn(S, raw, base.raw)
      BY <1>1, <3>1 DEF SameOn
    <3>5. ~NeedsRebuild(base.raw, is, S)
      BY <2>2, <3>3 DEF Prepared
    <3> QED BY <3>4, <3>5, TestIsLocal
  <2> QED BY <2>1, <2>2
<1> QED BY <1>3, <1>4 DEF ImageAfter

\* A build keeps the lag bounded, if no configuration has the threshold for which
\* a fresh workspace claims a table.
LEMMA BuildKeepsLag ==
  ASSUME NoClaimedOcc, IInv, LagInv, NEW m \in Maps, NEW config \in Configs, Build(m, config)
  PROVE  LagInv'
<1>1. PICK transition, base, rebuilt, current, dirty :
        Stages(m, config, transition, base, rebuilt, current, dirty)
  BY BuildHasStages
<1>2. Workspace(ws)
  BY DEF IInv
<1>3. StageFacts(config, base, current, dirty)
  BY <1>1, <1>2, StagesOK
<1>4. /\ current.lutOcc = config.occ
      /\ ~current.lutFilled => ~ws.lutFilled /\ ws.lutOcc = config.occ
      /\ current.cache = [c \in Cells(m.geo) |-> IF c \in rebuilt THEN m.data[c] ELSE base.cache[c]]
      /\ current.raw = Patched(base.raw, rebuilt, Rasterised(m.data, rebuilt, config.occ))
  <2>1. Workspace(base) /\ current = Rastered(base, m, config, rebuilt)
    BY <1>1, <1>3 DEF StageFacts, Stages
  <2> QED BY <2>1, RasteredData
<1>5. ~(ws.lutOcc = config.occ /\ ~ws.lutFilled)
  BY DEF NoClaimedOcc, LagInv
<1>6. /\ current.raw = NewRaw(m, config.occ, base, rebuilt)
      /\ current.cache = NewCache(m, base, rebuilt)
  BY <1>4, <1>5 DEF Rasterised, NewRaw, NewCache
<1> DEFINE chunks == DirtyChunks(m, config, transition, base)
           is == Classified(m.data, Cells(m.geo), config.occ)
<1>7. rebuilt = {c \in Cells(m.geo) : Chunk(c) \in chunks}
  BY <1>1 DEF Stages
<1>8. /\ Cells(base.geo) = Cells(m.geo)
      /\ Prepared(m, config.occ, base, rebuilt, chunks)
  BY <1>1, BaseImage
<1> HIDE DEF chunks
<1>9. /\ current.raw = Classified(current.cache, Cells(m.geo), config.occ)
      /\ \A k \in Chunks(m.geo) : ~NeedsRebuild(current.raw, is, ChunkCells(m.geo, k))
  <2>1. ImageAfter(m, config.occ, base, rebuilt)
    BY <1>7, <1>8, RasteredImage
  <2> QED BY <1>6, <2>1 DEF ImageAfter
<1>10. /\ ws'.geo = base.geo /\ ws'.raw = current.raw /\ ws'.cache = current.cache
       /\ ws'.lutOcc = config.occ /\ (~ws'.lutFilled => ~current.lutFilled)
  BY <1>3, <1>4 DEF StageFacts, SameData
<1>11. ws'.config = config
  <2>1. CASE dirty # {}
    BY <1>3, <2>1 DEF StageFacts
  <2>2. CASE dirty = {}
    <3>1. m.geo.w \in Nat \ {0} /\ m.geo.h \in Nat \ {0}
      BY DecisionMapAssumption DEF Geometries
    <3>2. <<0, 0>> \in Cells(m.geo)
      BY <3>1 DEF Cells
    <3>3. ws.config = config
      BY <1>1, <2>2, <3>2 DEF Stages
    <3>4. base.config = ws.config
      BY <1>1, <1>2, CarriedOK DEF Stages
    <3> QED BY <1>3, <2>2, <3>3, <3>4 DEF StageFacts
  <2> QED BY <2>1, <2>2
<1>12. base.geo \in Geometries
  <2>1. transition = "same" => base = ws /\ ws.initialized
    BY <1>1, <1>2, CarriedOK DEF Stages, Transition
  <2>2. transition # "same" => base.geo = m.geo
    BY <1>1, <1>2, CarriedOK DEF Stages
  <2>3. m.geo \in Geometries
    BY DEF Geometries
  <2> QED BY <2>1, <2>2, <2>3 DEF LagInv
<1>13. Chunks(ws'.geo) = Chunks(m.geo) /\ \A k : ChunkCells(ws'.geo, k) = ChunkCells(m.geo, k)
  BY <1>8, <1>10 DEF Chunks, ChunkCells
<1>14. MapImage' = is
  BY <1>1, <1>11 DEF MapImage, Stages
<1>15. ~ws'.lutFilled => ws'.lutOcc = FreshOcc
  BY <1>4, <1>5, <1>10
<1>16. RawIsRemembered'
  BY <1>8, <1>9, <1>10, <1>11 DEF RawIsRemembered
<1>17. \A k \in Chunks(ws'.geo) : ~NeedsRebuild(ws'.raw, MapImage', ChunkCells(ws'.geo, k))
  BY <1>9, <1>10, <1>13, <1>14
<1> QED BY <1>10, <1>11, <1>12, <1>15, <1>16, <1>17 DEF LagInv

LEMMA LagInvHolds ==
  ASSUME NoClaimedOcc
  PROVE  Spec => []LagInv
<1>1. Init => LagInv
  BY DEF Init, LagInv, FreshWorkspace
<1>2. ASSUME IInv, LagInv, [Next]_vars
      PROVE  LagInv'
  <2>1. CASE NewMap
    BY <1>2, <2>1, BuildKeepsLag DEF NewMap
  <2>2. CASE Reconfigure
    <3>1. PICK config \in Configs \ {ws.config} : Build(map, config)
      BY <2>2 DEF Reconfigure
    <3>2. map \in Maps
      BY <1>2, <2>2 DEF Reconfigure, IInv
    <3> QED BY <1>2, <3>1, <3>2, BuildKeepsLag
  <2>3. CASE UNCHANGED vars
    BY <1>2, <2>3 DEF vars, LagInv, RawIsRemembered, MapImage
  <2> QED BY <1>2, <2>1, <2>2, <2>3 DEF Next
<1> QED BY <1>1, <1>2, IInvHolds, PTL DEF Spec

\* Small changes that are let pass do not add up: no chunk of the raw image differs
\* from the map by more than one such change, over any history of maps, reuse of
\* windows and configurations (chunk_semantic_change_requires_rebuild, the memory
\* of rebuilt chunks).  The threshold of the unfilled table is excluded.
THEOREM LagStaysBounded ==
  ASSUME NoClaimedOcc
  PROVE  Spec => []LagIsBounded
<1>1. LagInv => LagIsBounded
  BY DEF LagInv, LagIsBounded
<1> QED BY <1>1, LagInvHolds, PTL

\* The cells of a window are finitely many.
LEMMA ChunksAreFinite ==
  ASSUME NEW g, NEW k, g.w \in Nat, g.h \in Nat
  PROVE  IsFiniteSet(ChunkCells(g, k))
<1>1. IsFiniteSet(0..(g.w - 1)) /\ IsFiniteSet(0..(g.h - 1))
  <2>1. 0 \in Int /\ g.w - 1 \in Int /\ g.h - 1 \in Int
    OBVIOUS
  <2> QED BY <2>1, FS_Interval
<1>2. IsFiniteSet((0..(g.w - 1)) \X (0..(g.h - 1)))
  BY <1>1, FS_Product
<1>3. ChunkCells(g, k) \subseteq (0..(g.w - 1)) \X (0..(g.h - 1))
  BY DEF ChunkCells, Cells
<1> QED BY <1>2, <1>3, FS_Subset

\* Where a chunk of the map holds unknown and free cells, the raw image is current:
\* the frontier search never works on a change that was let pass.
THEOREM MixedChunksStayCurrent ==
  ASSUME NoClaimedOcc
  PROVE  Spec => []MixedChunksCurrent
<1>1. ASSUME LagInv
      PROVE  MixedChunksCurrent
  <2> SUFFICES ASSUME ws.initialized, NEW k \in Chunks(ws.geo),
                      ChunkCells(ws.geo, k) \cap MapImage.free # {},
                      ChunkCells(ws.geo, k) \ Known(MapImage) # {}
               PROVE  Differing(ChunkCells(ws.geo, k), ws.raw, MapImage) = {}
    BY DEF MixedChunksCurrent
  <2> DEFINE S == ChunkCells(ws.geo, k)
             free == Selected(S, MapImage, "free")
             unknown == Selected(S, MapImage, "unknown")
             changed == Differing(S, ws.raw, MapImage)
  <2>1. IsFiniteSet(S)
    BY <1>1, ChunksAreFinite, DecisionMapAssumption DEF LagInv
  <2>2. free # {} /\ unknown # {} /\ free \subseteq S /\ unknown \subseteq S /\ changed \subseteq S
    BY DEF Selected, Differing
  <2>3. IsFiniteSet(free) /\ IsFiniteSet(unknown) /\ IsFiniteSet(changed)
    BY <2>1, <2>2, FS_Subset
  <2>4. /\ IsFiniteSet(Selected(S, ws.raw, "free"))
        /\ IsFiniteSet(Selected(S, ws.raw, "unknown"))
    BY <2>1, FS_Subset DEF Selected
  <2>5. /\ Cardinality(free) \in Nat \ {0} /\ Cardinality(unknown) \in Nat \ {0}
        /\ Cardinality(changed) \in Nat
        /\ Cardinality(Selected(S, ws.raw, "free")) \in Nat
        /\ Cardinality(Selected(S, ws.raw, "unknown")) \in Nat
    BY <2>2, <2>3, <2>4, FS_CardinalityType, FS_EmptySet
  <2>6. ~NeedsRebuild(ws.raw, MapImage, S)
    BY <1>1 DEF LagInv
  <2>7. ~(Cardinality(changed) > 0)
    <3> HIDE DEF S
    <3> QED BY <2>5, <2>6 DEF NeedsRebuild
  <2> QED BY <2>3, <2>5, <2>7, FS_EmptySet
<1> QED BY <1>1, LagInvHolds, PTL

-----------------------------------------------------------------------------
(* The images along the stages of a build.                                  *)

\* An image over the cells of S.
ImageOver(S, image) ==
  /\ image = [free |-> image.free, occupied |-> image.occupied]
  /\ image.free \subseteq S /\ image.occupied \subseteq S
  /\ image.free \cap image.occupied = {}

LEMMA NoImageOver == \A S : ImageOver(S, NoImage)
BY DEF ImageOver, NoImage

LEMMA PatchedOver ==
  ASSUME NEW S, NEW old, ImageOver(S, old), NEW T, NEW new, ImageOver(S, new)
  PROVE  ImageOver(S, Patched(old, T, new))
<1> DEFINE free == (old.free \ T) \cup (new.free \cap T)
           occupied == (old.occupied \ T) \cup (new.occupied \cap T)
<1>1. free \subseteq S /\ occupied \subseteq S /\ free \cap occupied = {}
  BY DEF ImageOver
<1> HIDE DEF free, occupied
<1>2. ImageOver(S, [free |-> free, occupied |-> occupied])
  BY <1>1 DEF ImageOver
<1> QED
  BY <1>2 DEF Patched, free, occupied

LEMMA RasterisedOver ==
  ASSUME NEW S, NEW T, T \subseteq S, NEW data, NEW occ \in Int, \A c \in T : data[c] \in Int
  PROVE  ImageOver(S, Rasterised(data, T, occ))
<1> DEFINE free == {c \in T : data[c] >= 0 /\ data[c] < occ}
           occupied == {c \in T : data[c] >= 0 /\ data[c] >= occ}
<1>1. free \subseteq S /\ occupied \subseteq S /\ free \cap occupied = {}
  OBVIOUS
<1>2. Classified(data, T, occ) = [free |-> free, occupied |-> occupied]
  BY DEF Classified
<1> HIDE DEF free, occupied
<1>3. ImageOver(S, Classified(data, T, occ))
  BY <1>1, <1>2 DEF ImageOver
<1>4. ImageOver(S, [free |-> {}, occupied |-> T])
  BY DEF ImageOver
<1> QED
  BY <1>3, <1>4 DEF Rasterised

LEMMA ThresholdedOver ==
  ASSUME NEW g, NEW raw, ImageOver(Cells(g), raw), NEW kernel
  PROVE  ImageOver(Cells(g), Thresholded(g, raw, kernel))
<1> DEFINE free == {c \in Cells(g) \ raw.occupied : Total(Pulls(g, raw, kernel, c)) >= 0}
<1>1. free \subseteq Cells(g) /\ free \cap raw.occupied = {}
  OBVIOUS
<1>2. Thresholded(g, raw, kernel) = [free |-> free, occupied |-> raw.occupied]
  BY DEF Thresholded
<1> HIDE DEF free
<1> QED
  BY <1>1, <1>2 DEF ImageOver

LEMMA DilatedOver ==
  ASSUME NEW g, NEW raw, ImageOver(Cells(g), raw), NEW thr, NEW radius
  PROVE  ImageOver(Cells(g), Dilated(g, raw, thr, radius))
<1> DEFINE free == (Cells(g) \cap UNION {Around(c, Disk(radius)) : c \in thr.free}) \ raw.occupied
<1>1. free \subseteq Cells(g) /\ free \cap raw.occupied = {}
  OBVIOUS
<1>2. Dilated(g, raw, thr, radius) = [free |-> free, occupied |-> raw.occupied]
  BY DEF Dilated
<1> HIDE DEF free
<1> QED
  BY <1>1, <1>2 DEF ImageOver

\* The kept part of an image over the old window is one over the new.
LEMMA MovedOver ==
  ASSUME NEW old, NEW new,
         old.ox \in Int, old.oy \in Int, old.w \in Nat, old.h \in Nat,
         new.ox \in Int, new.oy \in Int, new.w \in Nat, new.h \in Nat,
         NEW S, NEW image, ImageOver(S, image)
  PROVE  ImageOver(Cells(new), Moved(Overlap(old, new), image))
<1> DEFINE p == Overlap(old, new)
           free == {c \in Kept(p) : Before(p, c) \in image.free}
           occupied == {c \in Kept(p) : Before(p, c) \in image.occupied}
<1>1. Kept(p) \subseteq Cells(new)
  BY KeptInside
<1>2. free \subseteq Cells(new) /\ occupied \subseteq Cells(new) /\ free \cap occupied = {}
  BY <1>1 DEF ImageOver
<1>3. Moved(p, image) = [free |-> free, occupied |-> occupied]
  BY DEF Moved
<1> HIDE DEF free, occupied, p
<1> QED
  BY <1>2, <1>3 DEF ImageOver, p

\* What the geometry step does to the images and the occupancies.
LEMMA CarriedImages ==
  ASSUME Workspace(ws), NEW m, NEW transition
  PROVE  LET base == Carried(m, transition)
             p == Overlap(ws.geo, m.geo)
         IN /\ transition = "overlap" =>
                 /\ base.thr = Moved(p, ws.thr) /\ base.out = Moved(p, ws.out)
            /\ transition \notin {"same", "overlap"} =>
                 /\ base.thr = NoImage /\ base.out = NoImage
                 /\ base.cache = [c \in Cells(m.geo) |-> -1]
<1> DEFINE p == Overlap(ws.geo, m.geo)
<1>1. CASE transition = "overlap"
  <2> DEFINE cache == MovedCache(m)
             new == [ws EXCEPT !.geo = m.geo, !.cache = cache,
                       !.raw = Moved(p, ws.raw), !.thr = Moved(p, ws.thr), !.out = Moved(p, ws.out),
                       !.spatial = WithoutOffsets(ws.spatial),
                       !.stencil = WithoutOffsets(ws.stencil)]
  <2>1. Carried(m, transition) = new
    BY <1>1 DEF Carried, MovedCache
  <2> HIDE DEF cache, p
  <2>2. new.thr = Moved(p, ws.thr) /\ new.out = Moved(p, ws.out)
    BY DEF Workspace, Fields
  <2> HIDE DEF new
  <2> QED
    BY <1>1, <2>1, <2>2 DEF p
<1>2. CASE transition \notin {"same", "overlap"}
  <2> DEFINE cache == [c \in Cells(m.geo) |-> -1]
             new == [ws EXCEPT !.geo = m.geo, !.cache = cache,
                       !.raw = NoImage, !.thr = NoImage, !.out = NoImage]
  <2>1. Carried(m, transition) = new
    BY <1>2 DEF Carried
  <2> HIDE DEF cache
  <2>2. new.thr = NoImage /\ new.out = NoImage /\ new.cache = cache
    BY DEF Workspace, Fields
  <2> QED
    BY <1>2, <2>1, <2>2 DEF cache
<1> QED
  BY <1>1, <1>2

\* The raw stage leaves the later images alone.
LEMMA RasteredImages ==
  ASSUME NEW base, Workspace(base), NEW m, NEW config, NEW rebuilt
  PROVE  LET new == Rastered(base, m, config, rebuilt)
         IN new.thr = base.thr /\ new.out = base.out
<1> DEFINE cache == [c \in Cells(m.geo) |-> IF c \in rebuilt THEN m.data[c] ELSE base.cache[c]]
           raw == Patched(base.raw, rebuilt, Rasterised(m.data, rebuilt, config.occ))
           filled == ws.lutFilled \/ ws.lutOcc # config.occ
           new == [base EXCEPT !.lutOcc = config.occ, !.lutFilled = filled,
                               !.cache = cache, !.raw = raw]
<1>1. Rastered(base, m, config, rebuilt) = new
  BY DEF Rastered
<1> HIDE DEF cache, raw, filled
<1>2. new.thr = base.thr /\ new.out = base.out
  BY DEF Workspace, Fields
<1> QED
  BY <1>1, <1>2

\* What the later stages make of their images.
LEMMA RecomputedImages ==
  ASSUME NEW base, Workspace(base), NEW config, NEW dirty, NEW everything
  PROVE  LET new == Recomputed(base, config, dirty, everything)
             g == base.geo
             r == Radius(config.kernel)
             F == IF everything THEN Cells(g) ELSE Widened(g, dirty, r)
             D == IF everything THEN Cells(g) ELSE Widened(g, dirty, r + config.dilation)
         IN /\ config.enabled =>
                 /\ new.thr = Patched(base.thr, F, Thresholded(g, base.raw, config.kernel))
                 /\ new.out = Patched(base.out, D, Dilated(g, base.raw, new.thr, config.dilation))
            /\ ~config.enabled =>
                 /\ new.thr = Patched(base.thr, dirty, base.raw)
                 /\ new.out = Patched(base.out, dirty, base.raw)
<1> DEFINE g == base.geo
           r == Radius(config.kernel)
           F == IF everything THEN Cells(g) ELSE Widened(g, dirty, r)
           D == IF everything THEN Cells(g) ELSE Widened(g, dirty, r + config.dilation)
           written == Written(g, config, dirty, everything)
           thr == Patched(base.thr, F, Thresholded(g, base.raw, config.kernel))
           out == Patched(base.out, written, Dilated(g, base.raw, thr, config.dilation))
           spatial == WithOffsets(WithSamples(base.spatial, config.kernel.spatial), g.w)
           stencil == WithOffsets(WithSamples(base.stencil, <<config.dilation>>), g.w)
           filtered == [base EXCEPT !.thr = thr, !.out = out, !.spatial = spatial, !.stencil = stencil]
           plainThr == Patched(base.thr, dirty, base.raw)
           plainOut == Patched(base.out, written, base.raw)
           plain == [base EXCEPT !.thr = plainThr, !.out = plainOut]
           new == Recomputed(base, config, dirty, everything)
<1>1. new = IF config.enabled THEN filtered ELSE plain
  BY DEF Recomputed
<1>2. /\ config.enabled => out = Patched(base.out, D, Dilated(g, base.raw, thr, config.dilation))
      /\ ~config.enabled => plainOut = Patched(base.out, dirty, base.raw)
  BY DEF Written
<1>3. filtered.thr = thr /\ filtered.out = out
  <2> HIDE DEF thr, out, spatial, stencil
  <2> QED BY DEF Workspace, Fields
<1>4. plain.thr = plainThr /\ plain.out = plainOut
  <2> HIDE DEF plainThr, plainOut
  <2> QED BY DEF Workspace, Fields
<1> HIDE DEF new, filtered, plain, out, plainOut
<1>5. CASE config.enabled
  BY <1>1, <1>2, <1>3, <1>5 DEF new
<1>6. CASE ~config.enabled
  BY <1>1, <1>2, <1>4, <1>6 DEF new
<1> QED
  BY <1>5, <1>6

\* The images of a workspace, and the occupancies it remembers.
Typed(w) ==
  /\ w.cache \in [Cells(w.geo) -> (-1)..100]
  /\ ImageOver(Cells(w.geo), w.raw)
  /\ ImageOver(Cells(w.geo), w.thr)
  /\ ImageOver(Cells(w.geo), w.out)

TInv ==
  /\ IInv /\ TypeOK /\ Typed(ws)
  /\ ws.initialized => ws.geo \in Geometries /\ ws.config \in Configs

\* The window of a workspace that was moved, and what it holds.
LEMMA CarriedTyped ==
  ASSUME TInv, NEW m \in Maps, NEW config,
         NEW transition, transition = Transition(m, config.occ)
  PROVE  LET base == Carried(m, transition)
         IN /\ base.geo \in Geometries /\ Cells(base.geo) = Cells(m.geo) /\ Typed(base)
            /\ base.geo.w = m.geo.w /\ base.geo.h = m.geo.h
<1> DEFINE base == Carried(m, transition)
<1> SUFFICES /\ base.geo \in Geometries /\ Cells(base.geo) = Cells(m.geo) /\ Typed(base)
             /\ base.geo.w = m.geo.w /\ base.geo.h = m.geo.h
  OBVIOUS
<1>1. /\ transition \in {"same", "overlap", "full"}
      /\ transition # "full" => ws.initialized
      /\ transition = "same" => SameGeometry(ws.geo, m.geo)
  BY DEF Transition
<1>2. m.geo \in Geometries
  BY DEF Geometries
<1>3. /\ transition = "same" => base = ws
      /\ transition # "same" => base.geo = m.geo
      /\ transition = "overlap" =>
           /\ base.raw = Moved(Overlap(ws.geo, m.geo), ws.raw) /\ base.cache = MovedCache(m)
      /\ transition \notin {"same", "overlap"} => base.raw = NoImage
  BY CarriedOK DEF TInv, IInv
<1>4. /\ transition = "overlap" =>
           /\ base.thr = Moved(Overlap(ws.geo, m.geo), ws.thr)
           /\ base.out = Moved(Overlap(ws.geo, m.geo), ws.out)
      /\ transition \notin {"same", "overlap"} =>
           /\ base.thr = NoImage /\ base.out = NoImage
           /\ base.cache = [c \in Cells(m.geo) |-> -1]
  BY CarriedImages DEF TInv, IInv
<1> HIDE DEF base
<1>5. CASE transition = "same"
  BY <1>1, <1>3, <1>5 DEF TInv, SameGeometry, Cells
<1>6. CASE transition = "overlap"
  <2>1. ws.geo \in Geometries
    BY <1>1, <1>6 DEF TInv
  <2>2. /\ ws.geo.ox \in Int /\ ws.geo.oy \in Int /\ ws.geo.w \in Nat /\ ws.geo.h \in Nat
        /\ m.geo.ox \in Int /\ m.geo.oy \in Int /\ m.geo.w \in Nat /\ m.geo.h \in Nat
    BY <1>2, <2>1, DecisionMapAssumption
  <2>3. /\ ImageOver(Cells(m.geo), base.raw) /\ ImageOver(Cells(m.geo), base.thr)
        /\ ImageOver(Cells(m.geo), base.out)
    BY <1>3, <1>4, <1>6, <2>2, MovedOver DEF TInv, Typed
  <2>4. base.cache \in [Cells(m.geo) -> (-1)..100]
    <3> DEFINE p == Overlap(ws.geo, m.geo)
    <3>1. \A c \in Kept(p) : Before(p, c) \in Cells(ws.geo)
      BY <2>2, KeptInside
    <3>2. \A c \in Kept(p) : ws.cache[Before(p, c)] \in (-1)..100
      BY <3>1 DEF TInv, Typed
    <3> HIDE DEF p
    <3>3. [c \in Cells(m.geo) |-> IF c \in Kept(p) THEN ws.cache[Before(p, c)] ELSE -1]
            \in [Cells(m.geo) -> (-1)..100]
      BY <3>2
    <3> QED
      BY <1>3, <1>6, <3>3 DEF MovedCache, p
  <2> QED
    BY <1>2, <1>3, <1>6, <2>3, <2>4 DEF Typed
<1>7. CASE transition = "full"
  BY <1>2, <1>3, <1>4, <1>7, NoImageOver DEF Typed
<1> QED
  BY <1>1, <1>5, <1>6, <1>7

\* The images a build leaves.
LEMMA BuildTyped ==
  ASSUME TInv, NEW m \in Maps, NEW config \in Configs,
         NEW transition, NEW base, NEW rebuilt, NEW current, NEW dirty,
         Stages(m, config, transition, base, rebuilt, current, dirty)
  PROVE  /\ Typed(base) /\ Typed(current) /\ Typed(ws')
         /\ ws'.geo = base.geo /\ current.geo = base.geo /\ base.geo \in Geometries
         /\ Cells(base.geo) = Cells(m.geo)
         /\ base.geo.w = m.geo.w /\ base.geo.h = m.geo.h
         /\ dirty \subseteq Cells(m.geo) /\ rebuilt \subseteq Cells(m.geo)
<1> DEFINE everything == ~ws.initialized \/ ws.config # config
           recomputed == Recomputed(current, config, dirty, everything)
           last == [recomputed EXCEPT !.initialized = TRUE, !.config = config]
<1>1. StageFacts(config, base, current, dirty)
  BY StagesOK DEF TInv, IInv
<1>2. /\ Typed(base) /\ base.geo \in Geometries /\ Cells(base.geo) = Cells(m.geo)
      /\ base.geo.w = m.geo.w /\ base.geo.h = m.geo.h
  <2>1. transition = Transition(m, config.occ) /\ base = Carried(m, transition)
    BY DEF Stages
  <2> QED
    BY <2>1, CarriedTyped
<1>3. rebuilt \subseteq Cells(m.geo) /\ dirty \subseteq Cells(m.geo)
  BY DEF Stages
<1>4. current.geo = base.geo /\ current.thr = base.thr /\ current.out = base.out
  BY <1>1, RasteredImages, SMTT(60) DEF StageFacts, Stages
<1>5. /\ current.cache = [c \in Cells(m.geo) |-> IF c \in rebuilt THEN m.data[c] ELSE base.cache[c]]
      /\ current.raw = Patched(base.raw, rebuilt, Rasterised(m.data, rebuilt, config.occ))
  BY <1>1, RasteredData, SMTT(60) DEF StageFacts, Stages
<1>6. \A c \in Cells(m.geo) : m.data[c] \in (-1)..100
  BY DecisionMapAssumption
<1>7. Typed(current)
  <2>1. current.cache \in [Cells(m.geo) -> (-1)..100]
    BY <1>2, <1>5, <1>6 DEF Typed
  <2>2. ImageOver(Cells(m.geo), Rasterised(m.data, rebuilt, config.occ))
    <3>1. config.occ \in Int
      BY DecisionMapAssumption
    <3>2. \A c \in rebuilt : m.data[c] \in Int
      BY <1>3, <1>6
    <3> QED
      BY <1>3, <3>1, <3>2, RasterisedOver
  <2>3. ImageOver(Cells(m.geo), current.raw)
    BY <1>2, <1>5, <2>2, PatchedOver DEF Typed
  <2> QED
    BY <1>2, <1>4, <2>1, <2>3 DEF Typed
<1>8. /\ SameData(current, ws') /\ ws' = IF dirty = {} THEN current ELSE last
  BY <1>1 DEF StageFacts, Stages
<1>9. /\ ImageOver(Cells(m.geo), recomputed.thr) /\ ImageOver(Cells(m.geo), recomputed.out)
  <2> DEFINE g == current.geo
             r == Radius(config.kernel)
             F == IF everything THEN Cells(g) ELSE Widened(g, dirty, r)
             D == IF everything THEN Cells(g) ELSE Widened(g, dirty, r + config.dilation)
  <2>1. Workspace(current)
    BY <1>1 DEF StageFacts
  <2>2. /\ config.enabled =>
             /\ recomputed.thr = Patched(current.thr, F, Thresholded(g, current.raw, config.kernel))
             /\ recomputed.out = Patched(current.out, D, Dilated(g, current.raw, recomputed.thr, config.dilation))
        /\ ~config.enabled =>
             /\ recomputed.thr = Patched(current.thr, dirty, current.raw)
             /\ recomputed.out = Patched(current.out, dirty, current.raw)
    <3> HIDE DEF everything
    <3> QED BY <2>1, RecomputedImages
  <2>3. Cells(g) = Cells(m.geo)
    BY <1>2, <1>4
  <2>4. /\ ImageOver(Cells(g), current.raw) /\ ImageOver(Cells(g), current.thr)
        /\ ImageOver(Cells(g), current.out)
    BY <1>7 DEF Typed
  <2> HIDE DEF F, D, g, recomputed
  <2>5. /\ ImageOver(Cells(g), Thresholded(g, current.raw, config.kernel))
        /\ ImageOver(Cells(g), Dilated(g, current.raw, recomputed.thr, config.dilation))
    BY <2>4, ThresholdedOver, DilatedOver
  <2> QED
    BY <2>2, <2>3, <2>4, <2>5, PatchedOver
<1>10. last.thr = recomputed.thr /\ last.out = recomputed.out
  <2>1. Workspace(current)
    BY <1>1 DEF StageFacts
  <2>2. DOMAIN recomputed = Fields
    <3> HIDE DEF everything
    <3> QED BY <2>1, RecomputedOK DEF Workspace
  <2> HIDE DEF recomputed
  <2> QED
    BY <2>2 DEF Fields
<1> HIDE DEF last, recomputed
<1>11. ws'.geo = base.geo
  BY <1>4, <1>8 DEF SameData
<1>12. Typed(ws')
  <2>1. CASE dirty = {}
    BY <1>7, <1>8, <2>1
  <2>2. CASE dirty # {}
    BY <1>2, <1>4, <1>7, <1>8, <1>9, <1>10, <2>2 DEF Typed, SameData
  <2> QED
    BY <2>1, <2>2
<1> QED
  BY <1>2, <1>3, <1>4, <1>7, <1>11, <1>12

\* What a build reports.
LEMMA BuildReports ==
  ASSUME NEW m, NEW config,
         NEW transition, NEW base, NEW rebuilt, NEW current, NEW dirty,
         Stages(m, config, transition, base, rebuilt, current, dirty)
  PROVE  status' \in [outputChanged : BOOLEAN, geometryChanged : BOOLEAN]
BY DEF Stages, Report

LEMMA BuildFrays ==
  ASSUME NEW m, NEW config, Build(m, config), frayed \subseteq {"left", "right", "bottom", "top"}
  PROVE  frayed' \subseteq {"left", "right", "bottom", "top"}
BY DEF Build, CutSides

\* With the configuration of the last build, an initialized workspace stays one.
LEMMA BuildInitializes ==
  ASSUME Workspace(ws), NEW m \in Maps, NEW config,
         NEW transition, NEW base, NEW rebuilt, NEW current, NEW dirty,
         Stages(m, config, transition, base, rebuilt, current, dirty)
  PROVE  ws'.config = config
<1>1. StageFacts(config, base, current, dirty)
  BY StagesOK
<1>2. CASE dirty # {}
  BY <1>1, <1>2 DEF StageFacts
<1>3. CASE dirty = {}
  <2>1. m.geo.w \in Nat \ {0} /\ m.geo.h \in Nat \ {0}
    BY DecisionMapAssumption DEF Geometries
  <2>2. <<0, 0>> \in Cells(m.geo)
    BY <2>1 DEF Cells
  <2>3. ws.config = config
    BY <1>3, <2>2 DEF Stages
  <2>4. base.config = ws.config
    BY CarriedOK DEF Stages
  <2> QED
    BY <1>1, <1>3, <2>3, <2>4 DEF StageFacts
<1> QED
  BY <1>2, <1>3

LEMMA ImageIsTyped ==
  ASSUME NEW w, NEW image, ImageOver(Cells(w), image)
  PROVE  image \in {i \in [free : SUBSET Cells(w), occupied : SUBSET Cells(w)] :
                      i.free \cap i.occupied = {}}
BY DEF ImageOver

LEMMA BuildKeepsTypes ==
  ASSUME TInv, NEW m \in Maps, NEW config \in Configs, Build(m, config)
  PROVE  TInv'
<1>1. PICK transition, base, rebuilt, current, dirty :
        Stages(m, config, transition, base, rebuilt, current, dirty)
  BY BuildHasStages
<1>2. IInv'
  BY BuildOK DEF TInv
<1>3. /\ Typed(ws') /\ ws'.geo \in Geometries
  BY <1>1, BuildTyped
<1>4. ws'.config = config /\ map' = m
  <2>1. Workspace(ws)
    BY DEF TInv, IInv
  <2>2. map' = m
    BY <1>1 DEF Stages
  <2> QED
    BY <1>1, <2>1, <2>2, BuildInitializes
<1>5. status' \in [outputChanged : BOOLEAN, geometryChanged : BOOLEAN]
  BY <1>1, BuildReports
<1>6. frayed' \subseteq {"left", "right", "bottom", "top"}
  BY BuildFrays DEF TInv, TypeOK
<1>7. ws'.raw \in Images' /\ ws'.thr \in Images' /\ ws'.out \in Images'
  <2> SUFFICES ASSUME NEW image, ImageOver(Cells(ws'.geo), image)
               PROVE  image \in Images'
    BY <1>3 DEF Typed
  <2> QED
    BY ImageIsTyped DEF Images
<1>8. TypeOK'
  BY <1>3, <1>4, <1>5, <1>6, <1>7 DEF TypeOK, Typed
<1>9. Typed(ws)' <=> Typed(ws')
  BY DEF Typed, ImageOver, Cells
<1> QED
  BY <1>2, <1>3, <1>4, <1>8, <1>9 DEF TInv

LEMMA TInvHolds == Spec => []TInv
<1>1. Init => TInv
  <2> SUFFICES ASSUME Init PROVE TInv
    OBVIOUS
  <2>1. IInv
    BY FreshIsWorkspace DEF Init, IInv
  <2>2. ws.geo = Nowhere /\ ws.cache = NoData /\ ws.raw = NoImage /\ ws.thr = NoImage
        /\ ws.out = NoImage /\ ws.initialized = FALSE
    BY DEF Init, FreshWorkspace
  <2>3. Cells(Nowhere) = {}
    BY DEF Cells, Nowhere
  <2>4. NoData \in [{} -> (-1)..100]
    BY DEF NoData
  <2>5. Typed(ws)
    BY <2>2, <2>3, <2>4, NoImageOver DEF Typed
  <2>6. ws.raw \in Images /\ ws.thr \in Images /\ ws.out \in Images
    BY <2>5, ImageIsTyped DEF Typed, Images
  <2>7. status \in [outputChanged : BOOLEAN, geometryChanged : BOOLEAN] /\ frayed = {}
    BY DEF Init, NoStatus
  <2>8. TypeOK
    BY <2>2, <2>5, <2>6, <2>7 DEF TypeOK, Typed, Init
  <2> QED
    BY <2>1, <2>2, <2>5, <2>8 DEF TInv
<1>2. ASSUME TInv, [Next]_vars
      PROVE  TInv'
  <2>1. CASE NewMap
    BY <1>2, <2>1, BuildKeepsTypes DEF NewMap
  <2>2. CASE Reconfigure
    <3>1. PICK config \in Configs \ {ws.config} : Build(map, config)
      BY <2>2 DEF Reconfigure
    <3>2. map \in Maps
      BY <1>2, <2>2 DEF Reconfigure, TInv, IInv
    <3> QED
      BY <1>2, <3>1, <3>2, BuildKeepsTypes
  <2>3. CASE UNCHANGED vars
    <3>1. ws' = ws /\ map' = map /\ status' = status /\ frayed' = frayed
      BY <2>3 DEF vars
    <3>2. IInv'
      BY <1>2, <3>1 DEF TInv, IInv, SameGeometry, SameResolution, Workspace, TableOK, Magnitude
    <3>3. TypeOK'
      BY <1>2, <3>1 DEF TInv, TypeOK, Images, Cells
    <3>4. Typed(ws)'
      BY <1>2, <3>1 DEF TInv, Typed, ImageOver, Cells
    <3> QED
      BY <1>2, <3>1, <3>2, <3>3, <3>4 DEF TInv
  <2> QED
    BY <1>2, <2>1, <2>2, <2>3 DEF Next
<1> QED
  BY <1>1, <1>2, PTL DEF Spec

\* The images stay within the window, and no cell is free and occupied
\* (build_decision_map, over reuse, jitter and reconfiguration).
THEOREM ImagesStayTyped == Spec => []TypeOK
<1>1. TInv => TypeOK
  BY DEF TInv
<1> QED
  BY <1>1, TInvHolds, PTL

-----------------------------------------------------------------------------
(* What a build reports of the output.                                      *)

\* The flag raised over the cells written tells a patch that changes an image from one
\* that does not.
LEMMA FlagOfPatch ==
  ASSUME NEW old, old = [free |-> old.free, occupied |-> old.occupied],
         NEW W, NEW image, NEW g, NEW k
  PROVE  Flagged(old, Patched(old, W, image), g, k, W) <=> Patched(old, W, image) # old
<1> DEFINE new == Patched(old, W, image)
<1>1. /\ new = [free |-> new.free, occupied |-> new.occupied]
      /\ new.free = (old.free \ W) \cup (image.free \cap W)
      /\ new.occupied = (old.occupied \ W) \cup (image.occupied \cap W)
  BY DEF Patched
<1> HIDE DEF new
<1>2. ASSUME ~Flagged(old, new, g, k, W)
      PROVE  new = old
  <2>1. W \cap old.free = W \cap new.free /\ W \cap old.occupied = W \cap new.occupied
    <3>1. Selected(W, old, "free") = Selected(W, new, "free")
          /\ Selected(W, old, "occupied") = Selected(W, new, "occupied")
      BY <1>2 DEF Flagged, Classes
    <3> QED
      BY <3>1 DEF Selected
  <2>2. new.free = old.free /\ new.occupied = old.occupied
    BY <1>1, <2>1
  <2> QED
    BY <1>1, <2>2
<1>3. ASSUME new = old
      PROVE  ~Flagged(old, new, g, k, W)
  BY <1>3 DEF Flagged
<1> QED
  BY <1>2, <1>3 DEF new

\* A build with something dirty patches the output over the cells it writes.
LEMMA BuildWrites ==
  ASSUME Workspace(ws), NEW m, NEW config,
         NEW transition, NEW base, NEW rebuilt, NEW current, NEW dirty,
         Stages(m, config, transition, base, rebuilt, current, dirty), dirty # {}
  PROVE  \E image :
           ws'.out = Patched(base.out, Written(base.geo, config, dirty,
                                               ~ws.initialized \/ ws.config # config), image)
<1> DEFINE everything == ~ws.initialized \/ ws.config # config
           recomputed == Recomputed(current, config, dirty, everything)
           last == [recomputed EXCEPT !.initialized = TRUE, !.config = config]
           g == current.geo
           F == IF everything THEN Cells(g) ELSE Widened(g, dirty, Radius(config.kernel))
           D == IF everything THEN Cells(g)
                ELSE Widened(g, dirty, Radius(config.kernel) + config.dilation)
<1>1. /\ Workspace(current) /\ current.geo = base.geo /\ current.out = base.out
  <2>1. StageFacts(config, base, current, dirty)
    BY StagesOK
  <2> QED BY <2>1 DEF StageFacts
<1>2. ws' = last
  BY DEF Stages
<1>3. last.out = recomputed.out
  <2>1. DOMAIN recomputed = Fields
    <3> HIDE DEF everything
    <3> QED BY <1>1, RecomputedOK DEF Workspace
  <2> HIDE DEF recomputed
  <2> QED
    BY <2>1 DEF Fields
<1>4. /\ config.enabled =>
           recomputed.out = Patched(current.out, D, Dilated(g, current.raw, recomputed.thr, config.dilation))
      /\ ~config.enabled => recomputed.out = Patched(current.out, dirty, current.raw)
  <2> HIDE DEF everything
  <2> QED BY <1>1, RecomputedImages
<1>5. Written(g, config, dirty, everything) = IF config.enabled THEN D ELSE dirty
  BY DEF Written
<1> HIDE DEF last, recomputed, D, everything
<1>6. \E image : recomputed.out = Patched(current.out, Written(g, config, dirty, everything), image)
  BY <1>4, <1>5
<1> QED
  BY <1>1, <1>2, <1>3, <1>6 DEF everything

LEMMA BuildTells ==
  ASSUME TInv, NEW m \in Maps, NEW config, Build(m, config), ~status'.geometryChanged
  PROVE  status'.outputChanged <=> ws'.out # ws.out
<1>1. PICK transition, base, rebuilt, current, dirty :
        Stages(m, config, transition, base, rebuilt, current, dirty)
  BY BuildHasStages
<1> DEFINE W == Written(base.geo, config, dirty, ~ws.initialized \/ ws.config # config)
           flagged == Flagged(base.out, ws'.out, base.geo, config, W)
<1>2. transition = "same" /\ (status'.outputChanged <=> dirty # {} /\ flagged)
  <2> HIDE DEF flagged
  <2>1. status' = Report(transition, dirty, flagged)
    BY <1>1 DEF Stages, flagged
  <2> QED
    BY <2>1 DEF Report
<1>3. Workspace(ws)
  BY DEF TInv, IInv
<1>4. base = ws
  BY <1>1, <1>2, <1>3, CarriedOK DEF Stages
<1>5. CASE dirty = {}
  <2>1. StageFacts(config, base, current, dirty)
    BY <1>1, <1>3, StagesOK
  <2>2. ws'.out = ws.out
    BY <1>4, <1>5, <2>1 DEF StageFacts
  <2> QED
    BY <1>2, <1>5, <2>2
<1>6. CASE dirty # {}
  <2>1. PICK image : ws'.out = Patched(base.out, W, image)
    BY <1>1, <1>3, <1>6, BuildWrites
  <2>2. base.out = [free |-> base.out.free, occupied |-> base.out.occupied]
    BY <1>4 DEF TInv, Typed, ImageOver
  <2> HIDE DEF W
  <2>3. flagged <=> ws'.out # base.out
    BY <2>1, <2>2, FlagOfPatch
  <2> QED
    BY <1>2, <1>4, <1>6, <2>3
<1> QED
  BY <1>5, <1>6

\* In a window that stays, a build raises its output flag exactly when a cell of the
\* output changed: nothing changes outside the cells whose comparison raises it, and
\* nothing at all on the early return (build_decision_map,
\* copy_raw_to_output_row_spans, recompute_dilation_row_spans).
THEOREM FlagIsExact == Spec => FlagTellsChange
<1>1. ASSUME TInv, [Next]_vars
      PROVE  [~status'.geometryChanged => (status'.outputChanged <=> ws'.out # ws.out)]_vars
  <2>1. CASE NewMap
    BY <1>1, <2>1, BuildTells DEF NewMap
  <2>2. CASE Reconfigure
    <3>1. PICK config \in Configs \ {ws.config} : Build(map, config)
      BY <2>2 DEF Reconfigure
    <3>2. map \in Maps
      BY <1>1, <2>2 DEF Reconfigure, TInv, IInv
    <3> QED
      BY <1>1, <3>1, <3>2, BuildTells
  <2>3. CASE UNCHANGED vars
    BY <2>3
  <2> QED
    BY <1>1, <2>1, <2>2, <2>3 DEF Next
<1> QED
  BY <1>1, TInvHolds, PTL DEF Spec, FlagTellsChange

-----------------------------------------------------------------------------
(* What a reuse of the window keeps exact.                                  *)

\* Two images agree, one at x and the other at y.
Agree(a, x, b, y) == (x \in a.free <=> y \in b.free) /\ (x \in a.occupied <=> y \in b.occupied)

\* Part p lies in both windows.
Fits(old, new, p) ==
  /\ old.w \in Nat /\ old.h \in Nat /\ new.w \in Nat /\ new.h \in Nat
  /\ p.newX \in Nat /\ p.newY \in Nat /\ p.oldX \in Nat /\ p.oldY \in Nat
  /\ p.w \in Nat /\ p.h \in Nat
  /\ p.newX + p.w <= new.w /\ p.newY + p.h <= new.h
  /\ p.oldX + p.w <= old.w /\ p.oldY + p.h <= old.h

\* Raw image b of the new window is image a of the old one but for the cells rebuilt.
Reused(old, new, p, a, b, rebuilt) ==
  /\ Fits(old, new, p)
  /\ rebuilt \subseteq Cells(new)
  /\ \A c \in Cells(new) : c \notin rebuilt => c \in Kept(p) /\ Agree(b, c, a, Before(p, c))

\* c is out of reach of every side of window g in sides.
Clear(sides, g, c, reach) ==
  /\ "left" \in sides => c[1] >= reach
  /\ "right" \in sides => c[1] < g.w - reach
  /\ "bottom" \in sides => c[2] >= reach
  /\ "top" \in sides => c[2] < g.h - reach

\* The sides that are frayed after a reuse.
Frays(sides, old, new, p) == (sides \ GrownSides(p, new)) \cup CutSides(p, old)

LEMMA CellParts ==
  ASSUME NEW g, g.w \in Nat, g.h \in Nat, NEW c
  PROVE  c \in Cells(g) <=>
           /\ c = <<c[1], c[2]>> /\ c[1] \in Int /\ c[2] \in Int
           /\ 0 <= c[1] /\ c[1] < g.w /\ 0 <= c[2] /\ c[2] < g.h
BY DEF Cells

LEMMA KeptParts ==
  ASSUME NEW old, NEW new, NEW p, Fits(old, new, p), NEW c
  PROVE  c \in Kept(p) <=>
           /\ c = <<c[1], c[2]>> /\ c[1] \in Int /\ c[2] \in Int
           /\ p.newX <= c[1] /\ c[1] < p.newX + p.w
           /\ p.newY <= c[2] /\ c[2] < p.newY + p.h
BY DEF Kept, Fits

\* A cell within reach of one that is rebuilt is widened over.
LEMMA WidenedReach ==
  ASSUME NEW g, NEW S, NEW r \in Nat, NEW c \in Cells(g), c \notin Widened(g, S, r),
         NEW i \in Int, NEW j \in Int, -r <= i, i <= r, -r <= j, j <= r,
         g.w \in Nat, g.h \in Nat
  PROVE  <<c[1] + i, c[2] + j>> \notin S
<1> SUFFICES ASSUME <<c[1] + i, c[2] + j>> \in S
             PROVE  FALSE
  OBVIOUS
<1> DEFINE e == <<c[1] + i, c[2] + j>>
<1>1. c = <<c[1], c[2]>> /\ c[1] \in Int /\ c[2] \in Int
  BY CellParts
<1>2. <<-i, -j>> \in Square(r)
  BY DEF Square
<1>3. <<e[1] + (-i), e[2] + (-j)>> = c
  BY <1>1
<1>4. c \in Around(e, Square(r))
  <2> DEFINE o == <<-i, -j>>
  <2>1. o \in Square(r) /\ c = <<e[1] + o[1], e[2] + o[2]>>
    BY <1>2, <1>3
  <2> HIDE DEF o, e
  <2> QED BY <2>1 DEF Around
<1> HIDE DEF e
<1>5. e \in S
  BY DEF e
<1> QED
  BY <1>4, <1>5 DEF Widened

\* A cell of the window that is out of reach of everything rebuilt sees only cells that
\* were kept.
LEMMA SeesKept ==
  ASSUME NEW old, NEW new, NEW p, NEW a, NEW b, NEW rebuilt, Reused(old, new, p, a, b, rebuilt),
         NEW r \in Nat, NEW c \in Cells(new), c \notin Widened(new, rebuilt, r),
         NEW e \in Cells(new), e[1] - c[1] <= r, c[1] - e[1] <= r, e[2] - c[2] <= r, c[2] - e[2] <= r
  PROVE  /\ e \notin rebuilt /\ e \in Kept(p) /\ Agree(b, e, a, Before(p, e))
<1> DEFINE i == e[1] - c[1]
           j == e[2] - c[2]
<1>1. /\ new.w \in Nat /\ new.h \in Nat
  BY DEF Reused, Fits
<1>2. /\ c[1] \in Int /\ c[2] \in Int /\ e[1] \in Int /\ e[2] \in Int /\ e = <<e[1], e[2]>>
  BY <1>1, CellParts
<1>3. i \in Int /\ j \in Int /\ -r <= i /\ i <= r /\ -r <= j /\ j <= r
  BY <1>2
<1>4. <<c[1] + i, c[2] + j>> \notin rebuilt
  <2> HIDE DEF i, j
  <2> QED BY <1>1, <1>3, WidenedReach
<1>5. <<c[1] + i, c[2] + j>> = e
  BY <1>2
<1> QED
  BY <1>4, <1>5 DEF Reused

\* A cell out of reach of the rebuilt ones is one the old window covered.
LEMMA ItselfKept ==
  ASSUME NEW old, NEW new, NEW p, NEW a, NEW b, NEW rebuilt, Reused(old, new, p, a, b, rebuilt),
         NEW r \in Nat, NEW c \in Cells(new), c \notin Widened(new, rebuilt, r)
  PROVE  /\ c \notin rebuilt /\ c \in Kept(p) /\ Agree(b, c, a, Before(p, c))
         /\ Before(p, c) \in Cells(old)
         /\ Before(p, c)[1] = c[1] - p.newX + p.oldX
         /\ Before(p, c)[2] = c[2] - p.newY + p.oldY
<1>1. Fits(old, new, p) /\ new.w \in Nat /\ new.h \in Nat
  BY DEF Reused, Fits
<1>2. c[1] \in Int /\ c[2] \in Int
  BY <1>1, CellParts
<1>3. /\ c \notin rebuilt /\ c \in Kept(p) /\ Agree(b, c, a, Before(p, c))
  BY <1>2, SeesKept
<1>4. /\ p.newX <= c[1] /\ c[1] < p.newX + p.w
      /\ p.newY <= c[2] /\ c[2] < p.newY + p.h
  BY <1>1, <1>3, KeptParts
<1>5. /\ Before(p, c) = <<c[1] - p.newX + p.oldX, c[2] - p.newY + p.oldY>>
  BY DEF Before
<1>6. /\ c[1] - p.newX + p.oldX \in 0..(old.w - 1)
      /\ c[2] - p.newY + p.oldY \in 0..(old.h - 1)
  BY <1>1, <1>2, <1>4 DEF Fits
<1>7. Before(p, c) \in Cells(old)
  BY <1>5, <1>6 DEF Cells
<1> QED
  BY <1>3, <1>5, <1>7

\* A cell out of reach of the sides frayed now was out of reach of those frayed before.
LEMMA ClearBefore ==
  ASSUME NEW old, NEW new, NEW p, NEW a, NEW b, NEW rebuilt, Reused(old, new, p, a, b, rebuilt),
         NEW r \in Nat, NEW c \in Cells(new), c \notin Widened(new, rebuilt, r),
         NEW sides, Clear(Frays(sides, old, new, p), new, c, r)
  PROVE  Clear(sides, old, Before(p, c), r)
<1> DEFINE x == c[1]
           y == c[2]
<1>1. Fits(old, new, p) /\ new.w \in Nat /\ new.h \in Nat
  BY DEF Reused, Fits
<1>2. c = <<x, y>> /\ x \in Int /\ y \in Int /\ 0 <= x /\ x < new.w /\ 0 <= y /\ y < new.h
  BY <1>1, CellParts
<1>3. /\ p.newX <= x /\ x < p.newX + p.w /\ p.newY <= y /\ y < p.newY + p.h
  BY <1>1, ItselfKept, KeptParts
<1>4. /\ Before(p, c)[1] = x - p.newX + p.oldX
      /\ Before(p, c)[2] = y - p.newY + p.oldY
  BY ItselfKept
<1> HIDE DEF x, y
<1>5. ASSUME NEW i \in Int, NEW j \in Int, 0 <= i, i < new.w, 0 <= j, j < new.h,
             i - x <= r, x - i <= r, j - y <= r, y - j <= r
      PROVE  p.newX <= i /\ i < p.newX + p.w /\ p.newY <= j /\ j < p.newY + p.h
  <2> DEFINE e == <<i, j>>
  <2>1. e \in Cells(new) /\ e[1] = i /\ e[2] = j
    <3>1. i \in 0..(new.w - 1) /\ j \in 0..(new.h - 1)
      BY <1>1, <1>5
    <3> QED BY <3>1 DEF Cells
  <2>2. e[1] - c[1] <= r /\ c[1] - e[1] <= r /\ e[2] - c[2] <= r /\ c[2] - e[2] <= r
    BY <1>5, <2>1 DEF x, y
  <2> HIDE DEF e
  <2>3. e \in Kept(p)
    BY <2>1, <2>2, SeesKept
  <2> QED
    BY <1>1, <2>1, <2>3, KeptParts
<1>6. p.newX > 0 => x >= p.newX + r
  <2> SUFFICES ASSUME p.newX > 0, x < p.newX + r PROVE FALSE
    BY <1>1, <1>2 DEF Fits
  <2>1. p.newX - 1 >= p.newX
    BY <1>1, <1>2, <1>3, <1>5 DEF Fits
  <2> QED BY <1>1, <2>1 DEF Fits
<1>7. p.newX + p.w < new.w => x < p.newX + p.w - r
  <2> SUFFICES ASSUME p.newX + p.w < new.w, x >= p.newX + p.w - r PROVE FALSE
    BY <1>1, <1>2 DEF Fits
  <2>1. p.newX + p.w < p.newX + p.w
    BY <1>1, <1>2, <1>3, <1>5 DEF Fits
  <2> QED BY <1>1, <2>1 DEF Fits
<1>8. p.newY > 0 => y >= p.newY + r
  <2> SUFFICES ASSUME p.newY > 0, y < p.newY + r PROVE FALSE
    BY <1>1, <1>2 DEF Fits
  <2>1. p.newY - 1 >= p.newY
    BY <1>1, <1>2, <1>3, <1>5 DEF Fits
  <2> QED BY <1>1, <2>1 DEF Fits
<1>9. p.newY + p.h < new.h => y < p.newY + p.h - r
  <2> SUFFICES ASSUME p.newY + p.h < new.h, y >= p.newY + p.h - r PROVE FALSE
    BY <1>1, <1>2 DEF Fits
  <2>1. p.newY + p.h < p.newY + p.h
    BY <1>1, <1>2, <1>3, <1>5 DEF Fits
  <2> QED BY <1>1, <2>1 DEF Fits
<1>10. /\ "left" \in sides /\ ~(p.newX > 0) => x >= r
       /\ "right" \in sides /\ ~(p.newX + p.w < new.w) => x < new.w - r
       /\ "bottom" \in sides /\ ~(p.newY > 0) => y >= r
       /\ "top" \in sides /\ ~(p.newY + p.h < new.h) => y < new.h - r
  BY DEF Clear, Frays, GrownSides, x, y
<1>11. "left" \in sides => x - p.newX + p.oldX >= r
  BY <1>1, <1>2, <1>6, <1>10 DEF Fits
<1>12. "right" \in sides => x - p.newX + p.oldX < old.w - r
  BY <1>1, <1>2, <1>7, <1>10 DEF Fits
<1>13. "bottom" \in sides => y - p.newY + p.oldY >= r
  BY <1>1, <1>2, <1>8, <1>10 DEF Fits
<1>14. "top" \in sides => y - p.newY + p.oldY < old.h - r
  BY <1>1, <1>2, <1>9, <1>10 DEF Fits
<1> QED
  BY <1>4, <1>11, <1>12, <1>13, <1>14 DEF Clear

\* Clamping a sample brings it no further away.
LEMMA ClampNearer ==
  ASSUME NEW n \in Nat, NEW x \in Int, 0 <= x, x < n, NEW i \in Int, NEW r \in Nat, -r <= i, i <= r
  PROVE  /\ Clamp(x + i, 0, n - 1) \in 0..(n - 1)
         /\ Clamp(x + i, 0, n - 1) - x <= r /\ x - Clamp(x + i, 0, n - 1) <= r
BY DEF Clamp, Larger, Smaller

LEMMA SquareParts ==
  ASSUME NEW r \in Nat, NEW o \in Square(r)
  PROVE  o[1] \in Int /\ o[2] \in Int /\ -r <= o[1] /\ o[1] <= r /\ -r <= o[2] /\ o[2] <= r
BY DEF Square

\* The sample at offset o of cell c.
SampleAt(g, image, c, o) ==
  ClassIn(image, <<Clamp(c[1] + o[1], 0, g.w - 1), Clamp(c[2] + o[2], 0, g.h - 1)>>)

\* What the sides cut off mean along the axes.
LEMMA ClearOfCuts ==
  ASSUME NEW old, NEW new, NEW p, NEW sides, NEW c, NEW r,
         Clear(Frays(sides, old, new, p), new, c, r)
  PROVE  /\ p.oldX > 0 => c[1] >= r
         /\ p.oldX + p.w < old.w => c[1] < new.w - r
         /\ p.oldY > 0 => c[2] >= r
         /\ p.oldY + p.h < old.h => c[2] < new.h - r
BY DEF Clear, Frays, CutSides

\* A cell out of reach of rebuilt cells and of frayed sides sees what it saw before.
LEMMA SamplesMove ==
  ASSUME NEW old, NEW new, NEW p, NEW a, NEW b, NEW rebuilt, Reused(old, new, p, a, b, rebuilt),
         NEW r \in Nat, NEW c \in Cells(new), c \notin Widened(new, rebuilt, r),
         NEW sides, Clear(Frays(sides, old, new, p), new, c, r), NEW o \in Square(r)
  PROVE  SampleAt(new, b, c, o) = SampleAt(old, a, Before(p, c), o)
<1> DEFINE ex == Clamp(c[1] + o[1], 0, new.w - 1)
           ey == Clamp(c[2] + o[2], 0, new.h - 1)
           e == <<ex, ey>>
<1>1. Fits(old, new, p) /\ new.w \in Nat /\ new.h \in Nat
  BY DEF Reused, Fits
<1>2. c[1] \in Int /\ c[2] \in Int /\ 0 <= c[1] /\ c[1] < new.w /\ 0 <= c[2] /\ c[2] < new.h
  BY <1>1, CellParts
<1>3. o[1] \in Int /\ o[2] \in Int /\ -r <= o[1] /\ o[1] <= r /\ -r <= o[2] /\ o[2] <= r
  BY SquareParts
<1>4. /\ ex \in 0..(new.w - 1) /\ ey \in 0..(new.h - 1)
      /\ ex - c[1] <= r /\ c[1] - ex <= r /\ ey - c[2] <= r /\ c[2] - ey <= r
  BY <1>1, <1>2, <1>3, ClampNearer
<1>5. Before(p, c)[1] = c[1] - p.newX + p.oldX /\ Before(p, c)[2] = c[2] - p.newY + p.oldY
  BY ItselfKept
<1>6. e \in Cells(new) /\ e[1] = ex /\ e[2] = ey
  BY <1>4 DEF Cells
<1>7. e \in Kept(p) /\ Agree(b, e, a, Before(p, e))
  <2> HIDE DEF e, ex, ey
  <2> QED BY <1>4, <1>6, SeesKept
<1>8. p.newX <= ex /\ ex < p.newX + p.w /\ p.newY <= ey /\ ey < p.newY + p.h
  <2> HIDE DEF e, ex, ey
  <2> QED BY <1>1, <1>6, <1>7, KeptParts
<1>9. /\ p.oldX > 0 => c[1] + o[1] >= 0
      /\ p.oldX + p.w < old.w => c[1] + o[1] < new.w
      /\ p.oldY > 0 => c[2] + o[2] >= 0
      /\ p.oldY + p.h < old.h => c[2] + o[2] < new.h
  <2>1. /\ p.oldX > 0 => c[1] >= r
        /\ p.oldX + p.w < old.w => c[1] < new.w - r
        /\ p.oldY > 0 => c[2] >= r
        /\ p.oldY + p.h < old.h => c[2] < new.h - r
    BY ClearOfCuts
  <2> QED
    BY <1>1, <1>2, <1>3, <2>1 DEF Fits
<1>10. /\ Clamp((c[1] + o[1]) - p.newX + p.oldX, 0, old.w - 1) = ex - p.newX + p.oldX
       /\ Clamp((c[2] + o[2]) - p.newY + p.oldY, 0, old.h - 1) = ey - p.newY + p.oldY
  <2> DEFINE u == c[1] + o[1]
             v == c[2] + o[2]
  <2>1. u \in Int /\ v \in Int
    BY <1>2, <1>3
  <2> HIDE DEF u, v
  <2>2. Clamp(u - p.newX + p.oldX, 0, old.w - 1) = Clamp(u, 0, new.w - 1) - p.newX + p.oldX
    <3>1. /\ p.newX \in Nat /\ p.oldX \in Nat /\ p.w \in Nat /\ new.w \in Nat /\ old.w \in Nat
          /\ p.newX + p.w <= new.w /\ p.oldX + p.w <= old.w
      BY <1>1 DEF Fits
    <3>2. p.newX <= Clamp(u, 0, new.w - 1) /\ Clamp(u, 0, new.w - 1) < p.newX + p.w
      BY <1>8 DEF u
    <3>3. /\ p.oldX > 0 => u >= 0
          /\ p.oldX + p.w < old.w => u < new.w
      BY <1>9 DEF u
    <3> QED BY ONLY <2>1, <3>1, <3>2, <3>3 DEF Clamp, Larger, Smaller
  <2>3. Clamp(v - p.newY + p.oldY, 0, old.h - 1) = Clamp(v, 0, new.h - 1) - p.newY + p.oldY
    <3>1. /\ p.newY \in Nat /\ p.oldY \in Nat /\ p.h \in Nat /\ new.h \in Nat /\ old.h \in Nat
          /\ p.newY + p.h <= new.h /\ p.oldY + p.h <= old.h
      BY <1>1 DEF Fits
    <3>2. p.newY <= Clamp(v, 0, new.h - 1) /\ Clamp(v, 0, new.h - 1) < p.newY + p.h
      BY <1>8 DEF v
    <3>3. /\ p.oldY > 0 => v >= 0
          /\ p.oldY + p.h < old.h => v < new.h
      BY <1>9 DEF v
    <3> QED BY ONLY <2>1, <3>1, <3>2, <3>3 DEF Clamp, Larger, Smaller
  <2>4. Clamp(u, 0, new.w - 1) = ex /\ Clamp(v, 0, new.h - 1) = ey
    BY DEF u, v
  <2> HIDE DEF ex, ey
  <2> QED
    BY <2>2, <2>3, <2>4 DEF u, v
<1>11. /\ Before(p, c)[1] + o[1] = (c[1] + o[1]) - p.newX + p.oldX
       /\ Before(p, c)[2] + o[2] = (c[2] + o[2]) - p.newY + p.oldY
  BY <1>1, <1>2, <1>3, <1>5 DEF Fits
<1>12. Before(p, e) = <<ex - p.newX + p.oldX, ey - p.newY + p.oldY>>
  BY DEF Before
<1>13. SampleAt(old, a, Before(p, c), o) = ClassIn(a, Before(p, e))
  <2> HIDE DEF ex, ey
  <2> QED BY <1>10, <1>11, <1>12 DEF SampleAt
<1>14. SampleAt(new, b, c, o) = ClassIn(b, e)
  BY DEF SampleAt
<1>15. ClassIn(b, e) = ClassIn(a, Before(p, e))
  <2> HIDE DEF e
  <2> QED BY <1>7 DEF ClassIn, Agree
<1> QED
  BY <1>13, <1>14, <1>15

\* The threshold of such a cell is what it was.
LEMMA ThresholdMoves ==
  ASSUME NEW old, NEW new, NEW p, NEW a, NEW b, NEW rebuilt, Reused(old, new, p, a, b, rebuilt),
         NEW kernel, Radius(kernel) \in Nat,
         NEW c \in Cells(new), c \notin Widened(new, rebuilt, Radius(kernel)),
         NEW sides, Clear(Frays(sides, old, new, p), new, c, Radius(kernel))
  PROVE  Agree(Thresholded(new, b, kernel), c, Thresholded(old, a, kernel), Before(p, c))
<1> DEFINE r == Radius(kernel)
           d == Before(p, c)
           Term(sample, centre, o) ==
             kernel.spatial[Magnitude(o[1]) + 1] * kernel.spatial[Magnitude(o[2]) + 1]
               * kernel.range[centre][sample] * (2 * Paper[sample] - Paper.free - Paper.unknown)
<1>1. c \in Kept(p) /\ Agree(b, c, a, d) /\ d \in Cells(old)
  BY ItselfKept
<1>2. \A o \in Square(r) : SampleAt(new, b, c, o) = SampleAt(old, a, d, o)
  <2> TAKE o \in Square(r)
  <2> QED BY SamplesMove
<1>3. ClassIn(b, c) = ClassIn(a, d)
  BY <1>1 DEF ClassIn, Agree
<1>4. Pulls(new, b, kernel, c) = [o \in Square(r) |-> Term(SampleAt(new, b, c, o), ClassIn(b, c), o)]
  BY DEF Pulls, SampleAt
<1>5. Pulls(old, a, kernel, d) = [o \in Square(r) |-> Term(SampleAt(old, a, d, o), ClassIn(a, d), o)]
  BY DEF Pulls, SampleAt
<1> HIDE DEF Term, r, d
<1>6. Pulls(new, b, kernel, c) = Pulls(old, a, kernel, d)
  BY <1>2, <1>3, <1>4, <1>5
<1>7. Total(Pulls(new, b, kernel, c)) = Total(Pulls(old, a, kernel, d))
  BY <1>6
<1> QED
  BY <1>1, <1>7 DEF Thresholded, Agree, d

\* Two cells are within d of each other on both axes.
Near(c, e, d) ==
  e[1] - c[1] <= d /\ c[1] - e[1] <= d /\ e[2] - c[2] <= d /\ c[2] - e[2] <= d

\* A cell near one that is out of a wide reach is out of a narrow one.
LEMMA NearWidened ==
  ASSUME NEW g, g.w \in Nat, g.h \in Nat, NEW S, S \subseteq Cells(g), NEW r \in Nat, NEW d \in Nat,
         NEW c \in Cells(g), c \notin Widened(g, S, r + d), NEW e \in Cells(g), Near(c, e, d)
  PROVE  e \notin Widened(g, S, r)
<1> SUFFICES ASSUME e \in Widened(g, S, r)
             PROVE  FALSE
  OBVIOUS
<1>1. PICK s \in S : e \in Around(s, Square(r))
  BY DEF Widened
<1>2. PICK o \in Square(r) : e = <<s[1] + o[1], s[2] + o[2]>>
  BY <1>1 DEF Around
<1>3. /\ c[1] \in Int /\ c[2] \in Int /\ s = <<s[1], s[2]>> /\ s[1] \in Int /\ s[2] \in Int
  BY CellParts
<1>4. o[1] \in Int /\ o[2] \in Int /\ -r <= o[1] /\ o[1] <= r /\ -r <= o[2] /\ o[2] <= r
  BY SquareParts
<1> DEFINE i == s[1] - c[1]
           j == s[2] - c[2]
<1>5. e[1] = s[1] + o[1] /\ e[2] = s[2] + o[2]
  BY <1>2
<1>6. /\ i \in Int /\ j \in Int
      /\ -(r + d) <= i /\ i <= r + d /\ -(r + d) <= j /\ j <= r + d
  BY <1>3, <1>4, <1>5 DEF Near
<1>7. <<c[1] + i, c[2] + j>> = s
  BY <1>3
<1>8. r + d \in Nat
  OBVIOUS
<1> HIDE DEF i, j
<1>9. <<c[1] + i, c[2] + j>> \notin S
  BY <1>6, <1>8, WidenedReach
<1> QED
  BY <1>7, <1>9

LEMMA NearClear ==
  ASSUME NEW g, g.w \in Nat, g.h \in Nat, NEW sides, NEW r \in Nat, NEW d \in Nat,
         NEW c \in Cells(g), Clear(sides, g, c, r + d), NEW e \in Cells(g), Near(c, e, d)
  PROVE  Clear(sides, g, e, r)
<1>1. /\ c[1] \in Int /\ c[2] \in Int /\ e[1] \in Int /\ e[2] \in Int
  BY CellParts
<1> QED
  BY <1>1 DEF Clear, Near

LEMMA DiskParts ==
  ASSUME NEW d \in Nat, NEW o \in Disk(d)
  PROVE  o[1] \in Int /\ o[2] \in Int /\ -d <= o[1] /\ o[1] <= d /\ -d <= o[2] /\ o[2] <= d
BY SquareParts DEF Disk

\* What the dilation makes of a cell of the window.
LEMMA DilatedAt ==
  ASSUME NEW g, NEW raw, NEW thr, NEW d, NEW c \in Cells(g)
  PROVE  /\ c \in Dilated(g, raw, thr, d).free <=>
              /\ c \notin raw.occupied
              /\ \E e \in thr.free : \E o \in Disk(d) : c = <<e[1] + o[1], e[2] + o[2]>>
         /\ c \in Dilated(g, raw, thr, d).occupied <=> c \in raw.occupied
BY DEF Dilated, Around

\* The source of a dilated cell is near it.
LEMMA SourceNear ==
  ASSUME NEW g, g.w \in Nat, g.h \in Nat, NEW d \in Nat, NEW c, NEW e \in Cells(g), NEW o \in Disk(d),
         c = <<e[1] + o[1], e[2] + o[2]>>
  PROVE  Near(c, e, d)
<1>1. e[1] \in Int /\ e[2] \in Int
  BY CellParts
<1>2. o[1] \in Int /\ o[2] \in Int /\ -d <= o[1] /\ o[1] <= d /\ -d <= o[2] /\ o[2] <= d
  BY DiskParts
<1>3. c[1] = e[1] + o[1] /\ c[2] = e[2] + o[2]
  OBVIOUS
<1> QED
  BY <1>1, <1>2, <1>3 DEF Near

\* The dilation of a cell looks at the cells near it.
LEMMA DilationIsLocal ==
  ASSUME NEW g, g.w \in Nat, g.h \in Nat, NEW d \in Nat, NEW raw, NEW thr, NEW full,
         ImageOver(Cells(g), thr), ImageOver(Cells(g), full), NEW c \in Cells(g),
         \A e \in Cells(g) : Near(c, e, d) => Agree(thr, e, full, e)
  PROVE  Agree(Dilated(g, raw, thr, d), c, Dilated(g, raw, full, d), c)
<1>1. ASSUME NEW e, NEW o \in Disk(d), c = <<e[1] + o[1], e[2] + o[2]>>
      PROVE  e \in thr.free <=> e \in full.free
  <2>1. e \in thr.free \/ e \in full.free => e \in Cells(g)
    BY DEF ImageOver
  <2>2. e \in Cells(g) => Near(c, e, d)
    BY <1>1, SourceNear
  <2> QED
    BY <2>1, <2>2 DEF Agree
<1> QED
  BY <1>1, DilatedAt DEF Agree

\* Where a source of the new window was in the old one.
LEMMA SourceWas ==
  ASSUME NEW old, NEW new, NEW p, Fits(old, new, p), NEW d \in Nat, NEW o \in Disk(d),
         NEW c \in Cells(new), NEW e \in Cells(new), c = <<e[1] + o[1], e[2] + o[2]>>
  PROVE  Before(p, c) = <<Before(p, e)[1] + o[1], Before(p, e)[2] + o[2]>>
<1>1. o[1] \in Int /\ o[2] \in Int
  BY DiskParts
<1>2. e[1] \in Int /\ e[2] \in Int
  BY CellParts DEF Fits
<1>3. c[1] = e[1] + o[1] /\ c[2] = e[2] + o[2]
  OBVIOUS
<1>4. /\ c[1] - p.newX + p.oldX = (e[1] - p.newX + p.oldX) + o[1]
      /\ c[2] - p.newY + p.oldY = (e[2] - p.newY + p.oldY) + o[2]
  BY <1>1, <1>2, <1>3 DEF Fits
<1> QED
  BY <1>4 DEF Before

\* Where a source of the old window is in the new one.
LEMMA SourceMoves ==
  ASSUME NEW old, NEW new, NEW p, Fits(old, new, p), NEW d \in Nat, NEW o \in Disk(d),
         NEW r \in Nat, d <= r,
         NEW sides, NEW c \in Cells(new), Clear(Frays(sides, old, new, p), new, c, r),
         NEW s \in Cells(old), Before(p, c) = <<s[1] + o[1], s[2] + o[2]>>
  PROVE  LET e == <<c[1] - o[1], c[2] - o[2]>>
         IN e \in Cells(new) /\ s = Before(p, e) /\ c = <<e[1] + o[1], e[2] + o[2]>>
<1> DEFINE x == c[1] - o[1]
           y == c[2] - o[2]
           e == <<x, y>>
<1>1. /\ new.w \in Nat /\ new.h \in Nat /\ old.w \in Nat /\ old.h \in Nat
      /\ p.newX \in Int /\ p.oldX \in Int /\ p.newY \in Int /\ p.oldY \in Int
  BY DEF Fits
<1>2. /\ c = <<c[1], c[2]>> /\ c[1] \in Int /\ c[2] \in Int
      /\ 0 <= c[1] /\ c[1] < new.w /\ 0 <= c[2] /\ c[2] < new.h
  BY <1>1, CellParts
<1>3. o[1] \in Int /\ o[2] \in Int /\ -d <= o[1] /\ o[1] <= d /\ -d <= o[2] /\ o[2] <= d
  BY DiskParts
<1>4. /\ s = <<s[1], s[2]>> /\ s[1] \in Int /\ s[2] \in Int
      /\ 0 <= s[1] /\ s[1] < old.w /\ 0 <= s[2] /\ s[2] < old.h
  BY <1>1, CellParts
<1>5. c[1] - p.newX + p.oldX = s[1] + o[1] /\ c[2] - p.newY + p.oldY = s[2] + o[2]
  BY DEF Before
<1>6. x \in Int /\ y \in Int /\ x + o[1] = c[1] /\ y + o[2] = c[2]
  BY <1>2, <1>3
<1> HIDE DEF e, x, y
<1>7. x - p.newX + p.oldX = s[1] /\ y - p.newY + p.oldY = s[2]
  <2>1. p.newX \in Int /\ p.oldX \in Int /\ p.newY \in Int /\ p.oldY \in Int
    BY <1>1
  <2>2. /\ s[1] \in Int /\ s[2] \in Int /\ o[1] \in Int /\ o[2] \in Int
    BY <1>3, <1>4
  <2>3. x - p.newX + p.oldX = s[1] /\ y - p.newY + p.oldY = s[2]
    BY ONLY <1>5, <1>6, <2>1, <2>2
  <2> QED
    BY <2>3
<1>8. /\ p.oldX > 0 => c[1] >= r
      /\ p.oldX + p.w < old.w => c[1] < new.w - r
      /\ p.oldY > 0 => c[2] >= r
      /\ p.oldY + p.h < old.h => c[2] < new.h - r
  BY ClearOfCuts
<1>9. 0 <= x /\ x < new.w
  BY <1>1, <1>2, <1>3, <1>4, <1>6, <1>7, <1>8 DEF Fits
<1>10. 0 <= y /\ y < new.h
  BY <1>1, <1>2, <1>3, <1>4, <1>6, <1>7, <1>8 DEF Fits
<1>11. e \in Cells(new) /\ e[1] = x /\ e[2] = y
  <2>1. x \in 0..(new.w - 1) /\ y \in 0..(new.h - 1)
    BY <1>1, <1>6, <1>9, <1>10
  <2> QED BY <2>1 DEF Cells, e
<1>12. s = Before(p, e)
  BY <1>4, <1>7, <1>11 DEF Before
<1>13. c = <<e[1] + o[1], e[2] + o[2]>>
  BY <1>2, <1>6, <1>11
<1> QED
  BY <1>11, <1>12, <1>13 DEF e, x, y

\* The dilation of a cell out of reach of rebuilt cells and frayed sides is what it was.
LEMMA DilationMoves ==
  ASSUME NEW old, NEW new, NEW p, NEW a, NEW b, NEW rebuilt, Reused(old, new, p, a, b, rebuilt),
         NEW r \in Nat, NEW d \in Nat, NEW c \in Cells(new), c \notin Widened(new, rebuilt, r + d),
         NEW sides, Clear(Frays(sides, old, new, p), new, c, r + d),
         NEW thr, ImageOver(Cells(new), thr), NEW was, ImageOver(Cells(old), was),
         \A e \in Cells(new) :
           e \notin Widened(new, rebuilt, r) /\ Clear(Frays(sides, old, new, p), new, e, r)
             => Agree(thr, e, was, Before(p, e))
  PROVE  Agree(Dilated(new, b, thr, d), c, Dilated(old, a, was, d), Before(p, c))
<1>1. Fits(old, new, p) /\ new.w \in Nat /\ new.h \in Nat /\ old.w \in Nat /\ old.h \in Nat
      /\ rebuilt \subseteq Cells(new)
  BY DEF Reused, Fits
<1>2. r + d \in Nat
  OBVIOUS
<1>3. Agree(b, c, a, Before(p, c)) /\ Before(p, c) \in Cells(old)
  BY <1>2, ItselfKept
<1>4. ASSUME NEW e \in Cells(new), NEW o \in Disk(d), c = <<e[1] + o[1], e[2] + o[2]>>
      PROVE  e \in thr.free <=> Before(p, e) \in was.free
  <2>1. Near(c, e, d)
    BY <1>1, <1>4, SourceNear
  <2>2. e \notin Widened(new, rebuilt, r)
    BY <1>1, <2>1, NearWidened
  <2>3. Clear(Frays(sides, old, new, p), new, e, r)
    BY <1>1, <2>1, NearClear
  <2> QED
    BY <2>2, <2>3 DEF Agree
<1>5. ASSUME NEW e \in thr.free, NEW o \in Disk(d), c = <<e[1] + o[1], e[2] + o[2]>>
      PROVE  \E s \in was.free : \E q \in Disk(d) : Before(p, c) = <<s[1] + q[1], s[2] + q[2]>>
  <2>1. e \in Cells(new)
    BY DEF ImageOver
  <2>2. Before(p, e) \in was.free
    BY <1>4, <1>5, <2>1
  <2>3. Before(p, c) = <<Before(p, e)[1] + o[1], Before(p, e)[2] + o[2]>>
    BY <1>1, <1>5, <2>1, SourceWas
  <2> QED
    BY <2>2, <2>3
<1>6. ASSUME NEW s \in was.free, NEW o \in Disk(d), Before(p, c) = <<s[1] + o[1], s[2] + o[2]>>
      PROVE  \E e \in thr.free : \E q \in Disk(d) : c = <<e[1] + q[1], e[2] + q[2]>>
  <2>1. s \in Cells(old)
    BY DEF ImageOver
  <2> DEFINE e == <<c[1] - o[1], c[2] - o[2]>>
  <2>2. e \in Cells(new) /\ s = Before(p, e) /\ c = <<e[1] + o[1], e[2] + o[2]>>
    <3>1. d <= r + d
      OBVIOUS
    <3> QED
      BY <1>1, <1>2, <1>6, <2>1, <3>1, SourceMoves
  <2> HIDE DEF e
  <2> QED
    BY <1>4, <2>2
<1>7. (\E e \in thr.free : \E o \in Disk(d) : c = <<e[1] + o[1], e[2] + o[2]>>)
        <=> (\E s \in was.free : \E o \in Disk(d) : Before(p, c) = <<s[1] + o[1], s[2] + o[2]>>)
  BY <1>5, <1>6
<1>8. c \notin b.occupied <=> Before(p, c) \notin a.occupied
  BY <1>3 DEF Agree
<1>9. /\ c \in Dilated(new, b, thr, d).free <=>
           /\ c \notin b.occupied
           /\ \E e \in thr.free : \E o \in Disk(d) : c = <<e[1] + o[1], e[2] + o[2]>>
      /\ c \in Dilated(new, b, thr, d).occupied <=> c \in b.occupied
  BY DilatedAt
<1> DEFINE k == Before(p, c)
<1>10. /\ k \in Dilated(old, a, was, d).free <=>
            /\ k \notin a.occupied
            /\ \E s \in was.free : \E o \in Disk(d) : k = <<s[1] + o[1], s[2] + o[2]>>
       /\ k \in Dilated(old, a, was, d).occupied <=> k \in a.occupied
  <2> HIDE DEF k
  <2> QED BY <1>3, DilatedAt DEF k
<1> QED
  BY <1>7, <1>8, <1>9, <1>10 DEF Agree

\* How far the stages reach.
Reach(k) == IF k.enabled THEN Radius(k.kernel) ELSE 0
Spread(k) == IF k.enabled THEN k.dilation ELSE 0

\* What the last stage makes of a whole threshold image.
StageOutput(g, raw, thr, k) == IF k.enabled THEN Dilated(g, raw, thr, k.dilation) ELSE raw

\* The images of window g are what a rebuild gives, out of reach of the sides given.
ExactOn(g, raw, thr, out, k, sides) ==
  \A c \in Cells(g) :
    /\ Clear(sides, g, c, Reach(k)) => Agree(thr, c, FullThreshold(g, raw, k), c)
    /\ Clear(sides, g, c, Reach(k) + Spread(k)) => Agree(out, c, FullOutput(g, raw, k), c)

\* The last stage gives what a rebuild does where its input is what a rebuild gives.
LEMMA OutputIsLocal ==
  ASSUME NEW g, g.w \in Nat, g.h \in Nat, NEW k, k.dilation \in Nat, NEW raw, NEW thr,
         ImageOver(Cells(g), raw), ImageOver(Cells(g), thr), NEW c \in Cells(g),
         \A e \in Cells(g) : Near(c, e, Spread(k)) => Agree(thr, e, FullThreshold(g, raw, k), e)
  PROVE  Agree(StageOutput(g, raw, thr, k), c, FullOutput(g, raw, k), c)
<1>1. CASE k.enabled
  <2>1. ImageOver(Cells(g), Thresholded(g, raw, k.kernel))
    BY ThresholdedOver
  <2>2. \A e \in Cells(g) : Near(c, e, k.dilation) => Agree(thr, e, Thresholded(g, raw, k.kernel), e)
    BY <1>1 DEF FullThreshold, Spread
  <2>3. Agree(Dilated(g, raw, thr, k.dilation), c,
              Dilated(g, raw, Thresholded(g, raw, k.kernel), k.dilation), c)
    BY <2>1, <2>2, DilationIsLocal
  <2> QED
    BY <1>1, <2>3 DEF StageOutput, FullOutput
<1>2. CASE ~k.enabled
  BY <1>2 DEF StageOutput, FullOutput, Agree
<1> QED
  BY <1>1, <1>2

\* A recomputation of the whole window is exact everywhere.
LEMMA ExactWhenAll ==
  ASSUME NEW g, g.w \in Nat, g.h \in Nat, NEW k, k.dilation \in Nat, NEW raw, NEW thr, NEW out, NEW sides,
         ImageOver(Cells(g), raw), ImageOver(Cells(g), thr),
         \A c \in Cells(g) : /\ Agree(thr, c, FullThreshold(g, raw, k), c)
                             /\ Agree(out, c, StageOutput(g, raw, thr, k), c)
  PROVE  ExactOn(g, raw, thr, out, k, sides)
<1>1. ASSUME NEW c \in Cells(g)
      PROVE  Agree(out, c, FullOutput(g, raw, k), c)
  <2>1. Agree(StageOutput(g, raw, thr, k), c, FullOutput(g, raw, k), c)
    BY OutputIsLocal
  <2> QED
    BY <2>1 DEF Agree
<1> QED
  BY <1>1 DEF ExactOn

\* The images after a reuse: recomputed within reach of what was rebuilt, moved elsewhere.
Recomputes(old, new, p, b, thr0, out0, thr, out, k, rebuilt) ==
  \A c \in Cells(new) :
    /\ c \in Widened(new, rebuilt, Reach(k)) => Agree(thr, c, FullThreshold(new, b, k), c)
    /\ c \notin Widened(new, rebuilt, Reach(k)) => Agree(thr, c, thr0, Before(p, c))
    /\ c \in Widened(new, rebuilt, Reach(k) + Spread(k)) => Agree(out, c, StageOutput(new, b, thr, k), c)
    /\ c \notin Widened(new, rebuilt, Reach(k) + Spread(k)) => Agree(out, c, out0, Before(p, c))

\* A reuse keeps exact what is out of reach of the frayed sides.
LEMMA ExactAfterReuse ==
  ASSUME NEW old, NEW new, NEW p, NEW a, NEW b, NEW rebuilt, Reused(old, new, p, a, b, rebuilt),
         NEW k, k.dilation \in Nat, Radius(k.kernel) \in Nat,
         NEW thr0, NEW out0, NEW thr, NEW out, NEW sides,
         ImageOver(Cells(old), a), ImageOver(Cells(new), b), ImageOver(Cells(new), thr),
         ExactOn(old, a, thr0, out0, k, sides),
         Recomputes(old, new, p, b, thr0, out0, thr, out, k, rebuilt)
  PROVE  ExactOn(new, b, thr, out, k, Frays(sides, old, new, p))
<1> DEFINE r == Reach(k)
           d == Spread(k)
           frays == Frays(sides, old, new, p)
<1>1. /\ new.w \in Nat /\ new.h \in Nat /\ rebuilt \subseteq Cells(new)
  BY DEF Reused, Fits
<1>2. r \in Nat /\ d \in Nat /\ r + d \in Nat
  BY DEF Reach, Spread
<1>3. k.enabled => r = Radius(k.kernel) /\ d = k.dilation
  BY DEF Reach, Spread
<1> HIDE DEF r, d
<1>4. ASSUME NEW c \in Cells(new), c \notin Widened(new, rebuilt, r), Clear(frays, new, c, r)
      PROVE  Agree(FullThreshold(new, b, k), c, FullThreshold(old, a, k), Before(p, c))
  <2>1. CASE k.enabled
    <3>1. Agree(Thresholded(new, b, k.kernel), c, Thresholded(old, a, k.kernel), Before(p, c))
      BY <1>3, <1>4, <2>1, ThresholdMoves
    <3> QED
      BY <2>1, <3>1 DEF FullThreshold
  <2>2. CASE ~k.enabled
    <3>1. Agree(b, c, a, Before(p, c))
      BY <1>2, <1>4, ItselfKept
    <3> QED
      BY <2>2, <3>1 DEF FullThreshold
  <2> QED
    BY <2>1, <2>2
<1>5. ASSUME NEW c \in Cells(new), Clear(frays, new, c, r)
      PROVE  Agree(thr, c, FullThreshold(new, b, k), c)
  <2>1. CASE c \in Widened(new, rebuilt, r)
    BY <2>1 DEF Recomputes, r
  <2>2. CASE c \notin Widened(new, rebuilt, r)
    <3>1. Agree(thr, c, thr0, Before(p, c))
      BY <2>2 DEF Recomputes, r
    <3>2. Before(p, c) \in Cells(old)
      BY <1>2, <2>2, ItselfKept
    <3>3. Clear(sides, old, Before(p, c), r)
      BY <1>2, <1>5, <2>2, ClearBefore
    <3>4. Agree(thr0, Before(p, c), FullThreshold(old, a, k), Before(p, c))
      BY <3>2, <3>3 DEF ExactOn, r
    <3>5. Agree(FullThreshold(new, b, k), c, FullThreshold(old, a, k), Before(p, c))
      BY <1>4, <1>5, <2>2
    <3> QED
      BY <3>1, <3>4, <3>5 DEF Agree
  <2> QED
    BY <2>1, <2>2
<1>6. ASSUME NEW c \in Cells(new), Clear(frays, new, c, r + d)
      PROVE  Agree(out, c, FullOutput(new, b, k), c)
  <2>1. CASE c \in Widened(new, rebuilt, r + d)
    <3>1. Agree(out, c, StageOutput(new, b, thr, k), c)
      BY <2>1 DEF Recomputes, r, d
    <3>2. ASSUME NEW e \in Cells(new), Near(c, e, d)
          PROVE  Agree(thr, e, FullThreshold(new, b, k), e)
      <4>1. Clear(frays, new, e, r)
        BY <1>1, <1>2, <1>6, <3>2, NearClear
      <4> QED
        BY <1>5, <4>1
    <3>3. Agree(StageOutput(new, b, thr, k), c, FullOutput(new, b, k), c)
      BY <1>1, <3>2, OutputIsLocal DEF d
    <3> QED
      BY <3>1, <3>3 DEF Agree
  <2>2. CASE c \notin Widened(new, rebuilt, r + d)
    <3>1. Agree(out, c, out0, Before(p, c))
      BY <2>2 DEF Recomputes, r, d
    <3>2. Before(p, c) \in Cells(old) /\ Agree(b, c, a, Before(p, c))
      BY <1>2, <2>2, ItselfKept
    <3>3. Clear(sides, old, Before(p, c), r + d)
      BY <1>2, <1>6, <2>2, ClearBefore
    <3>4. Agree(out0, Before(p, c), FullOutput(old, a, k), Before(p, c))
      BY <3>2, <3>3 DEF ExactOn, r, d
    <3>5. Agree(FullOutput(new, b, k), c, FullOutput(old, a, k), Before(p, c))
      <4>1. CASE k.enabled
        <5> DEFINE full == Thresholded(new, b, k.kernel)
                   was == Thresholded(old, a, k.kernel)
        <5>1. ImageOver(Cells(new), full) /\ ImageOver(Cells(old), was)
          BY ThresholdedOver
        <5>2. \A e \in Cells(new) :
                e \notin Widened(new, rebuilt, r) /\ Clear(frays, new, e, r)
                  => Agree(full, e, was, Before(p, e))
          BY <1>4, <4>1 DEF FullThreshold
        <5> HIDE DEF full, was
        <5>3. Agree(Dilated(new, b, full, d), c, Dilated(old, a, was, d), Before(p, c))
          BY <1>2, <1>6, <2>2, <5>1, <5>2, DilationMoves
        <5> QED
          BY <1>3, <4>1, <5>3 DEF FullOutput, full, was
      <4>2. CASE ~k.enabled
        BY <3>2, <4>2 DEF FullOutput
      <4> QED
        BY <4>1, <4>2
    <3> QED
      BY <3>1, <3>4, <3>5 DEF Agree
  <2> QED
    BY <2>1, <2>2
<1> QED
  BY <1>5, <1>6 DEF ExactOn, r, d

ExactInv == ws.initialized => ExactOn(ws.geo, ws.raw, ws.thr, ws.out, ws.config, frayed)

\* A kernel reaches some way, and a stencil too.
LEMMA ConfigParts ==
  ASSUME NEW k \in Configs
  PROVE  Radius(k.kernel) \in Nat /\ k.dilation \in Nat /\ Reach(k) \in Nat /\ Spread(k) \in Nat
<1>1. k.kernel.spatial \in Seq(Nat) /\ k.kernel.spatial # <<>> /\ k.dilation \in Nat
  BY DecisionMapAssumption
<1>2. Len(k.kernel.spatial) \in Nat \ {0}
  BY <1>1
<1> QED
  BY <1>1, <1>2 DEF Radius, Reach, Spread

\* What is widened contains what it was widened from.
LEMMA WidenedContains ==
  ASSUME NEW g, g.w \in Nat, g.h \in Nat, NEW S, NEW r \in Nat, NEW c \in Cells(g), c \in S
  PROVE  c \in Widened(g, S, r)
<1> SUFFICES ASSUME c \notin Widened(g, S, r) PROVE FALSE
  OBVIOUS
<1>1. c = <<c[1], c[2]>> /\ c[1] \in Int /\ c[2] \in Int
  BY CellParts
<1>2. <<c[1] + 0, c[2] + 0>> \notin S
  BY WidenedReach
<1> QED
  BY <1>1, <1>2

\* Within no reach there is nothing else.
LEMMA WidenedByNothing ==
  ASSUME NEW g, g.w \in Nat, g.h \in Nat, NEW S, S \subseteq Cells(g)
  PROVE  Widened(g, S, 0) = S
<1>1. ASSUME NEW c \in Widened(g, S, 0)
      PROVE  c \in S
  <2>1. PICK s \in S : c \in Around(s, Square(0))
    BY DEF Widened
  <2>2. PICK o \in Square(0) : c = <<s[1] + o[1], s[2] + o[2]>>
    BY <2>1 DEF Around
  <2>3. s = <<s[1], s[2]>> /\ s[1] \in Int /\ s[2] \in Int
    BY CellParts
  <2>4. o[1] = 0 /\ o[2] = 0
    BY SquareParts
  <2> QED
    BY <2>2, <2>3, <2>4
<1> QED
  BY <1>1, WidenedContains DEF Widened

LEMMA PatchedAt ==
  ASSUME NEW a, NEW T, NEW b, NEW c
  PROVE  /\ c \in T => Agree(Patched(a, T, b), c, b, c)
         /\ c \notin T => Agree(Patched(a, T, b), c, a, c)
BY DEF Patched, Agree

\* The cells the later stages compute again.
Redone(g, dirty, reach, everything) == IF everything THEN Cells(g) ELSE Widened(g, dirty, reach)

\* The images a build leaves, cell by cell.
StageImages(base, dirty, config) ==
  LET everything == ~ws.initialized \/ ws.config # config
      g == ws'.geo
  IN \A c \in Cells(g) :
       /\ c \in Redone(g, dirty, Reach(config), everything)
            => Agree(ws'.thr, c, FullThreshold(g, ws'.raw, config), c)
       /\ c \notin Redone(g, dirty, Reach(config), everything)
            => Agree(ws'.thr, c, base.thr, c)
       /\ c \in Redone(g, dirty, Reach(config) + Spread(config), everything)
            => Agree(ws'.out, c, StageOutput(g, ws'.raw, ws'.thr, config), c)
       /\ c \notin Redone(g, dirty, Reach(config) + Spread(config), everything)
            => Agree(ws'.out, c, base.out, c)

LEMMA BuildImages ==
  ASSUME TInv, NEW m \in Maps, NEW config \in Configs,
         NEW transition, NEW base, NEW rebuilt, NEW current, NEW dirty,
         Stages(m, config, transition, base, rebuilt, current, dirty)
  PROVE  StageImages(base, dirty, config)
<1> DEFINE everything == ~ws.initialized \/ ws.config # config
           recomputed == Recomputed(current, config, dirty, everything)
           last == [recomputed EXCEPT !.initialized = TRUE, !.config = config]
           g == ws'.geo
           F == Redone(g, dirty, Reach(config), everything)
           D == Redone(g, dirty, Reach(config) + Spread(config), everything)
<1>1. StageFacts(config, base, current, dirty)
  BY StagesOK DEF TInv, IInv
<1>2. /\ ws'.geo = base.geo /\ current.geo = base.geo /\ base.geo \in Geometries
      /\ Cells(base.geo) = Cells(m.geo) /\ dirty \subseteq Cells(m.geo)
  BY BuildTyped
<1>3. g.w \in Nat /\ g.h \in Nat /\ Cells(g) = Cells(m.geo) /\ dirty \subseteq Cells(g) /\ g = current.geo
  BY <1>2, DecisionMapAssumption
<1>4. current.thr = base.thr /\ current.out = base.out
  BY <1>1, RasteredImages DEF StageFacts, Stages
<1>5. /\ Workspace(current) /\ ws'.raw = current.raw
      /\ ws' = IF dirty = {} THEN current ELSE last
  BY <1>1 DEF StageFacts, Stages, SameData
<1>6. CASE dirty = {}
  <2>1. m.geo.w \in Nat \ {0} /\ m.geo.h \in Nat \ {0}
    BY DecisionMapAssumption DEF Geometries
  <2>2. <<0, 0>> \in Cells(m.geo)
    BY <2>1 DEF Cells
  <2>3. ~everything
    BY <1>6, <2>2 DEF Stages
  <2>4. F = {} /\ D = {}
    BY <1>6, <2>3 DEF Redone, Widened
  <2>5. ws'.thr = base.thr /\ ws'.out = base.out
    BY <1>4, <1>5, <1>6
  <2> HIDE DEF F, D, g, everything
  <2>6. \A c \in Cells(g) : Agree(ws'.thr, c, base.thr, c) /\ Agree(ws'.out, c, base.out, c)
    BY <2>5 DEF Agree
  <2> QED
    BY <2>4, <2>6 DEF StageImages, F, D, g, everything
<1>7. CASE dirty # {}
  <2>1. /\ config.enabled =>
             /\ recomputed.thr = Patched(current.thr, F, Thresholded(g, current.raw, config.kernel))
             /\ recomputed.out = Patched(current.out, D, Dilated(g, current.raw, recomputed.thr, config.dilation))
        /\ ~config.enabled =>
             /\ recomputed.thr = Patched(current.thr, dirty, current.raw)
             /\ recomputed.out = Patched(current.out, dirty, current.raw)
    <3> DEFINE F0 == IF everything THEN Cells(g) ELSE Widened(g, dirty, Radius(config.kernel))
               D0 == IF everything THEN Cells(g) ELSE Widened(g, dirty, Radius(config.kernel) + config.dilation)
    <3>1. config.enabled => F = F0 /\ D = D0
      BY DEF Redone, Reach, Spread
    <3>2. /\ config.enabled =>
             /\ recomputed.thr = Patched(current.thr, F0, Thresholded(g, current.raw, config.kernel))
             /\ recomputed.out = Patched(current.out, D0, Dilated(g, current.raw, recomputed.thr, config.dilation))
          /\ ~config.enabled =>
             /\ recomputed.thr = Patched(current.thr, dirty, current.raw)
             /\ recomputed.out = Patched(current.out, dirty, current.raw)
      <4> HIDE DEF everything
      <4> QED BY <1>3, <1>5, RecomputedImages
    <3> HIDE DEF F, D, F0, D0, recomputed
    <3> QED
      BY <3>1, <3>2
  <2>2. last.thr = recomputed.thr /\ last.out = recomputed.out
    <3>1. DOMAIN recomputed = Fields
      <4> HIDE DEF everything
      <4> QED BY <1>5, RecomputedOK DEF Workspace
    <3> HIDE DEF recomputed
    <3> QED
      BY <3>1 DEF Fields
  <2>3. ~config.enabled => F = dirty /\ D = dirty
    <3>1. everything => dirty = Cells(m.geo)
      BY DEF Stages
    <3>2. Widened(g, dirty, 0) = dirty
      BY <1>3, WidenedByNothing
    <3>3. 0 + 0 = 0
      OBVIOUS
    <3> QED
      BY <1>3, <3>1, <3>2, <3>3 DEF Redone, Reach, Spread
  <2> HIDE DEF last, recomputed, F, D, g, everything
  <2>4. /\ config.enabled =>
             /\ ws'.thr = Patched(base.thr, F, Thresholded(g, ws'.raw, config.kernel))
             /\ ws'.out = Patched(base.out, D, Dilated(g, ws'.raw, ws'.thr, config.dilation))
        /\ ~config.enabled =>
             /\ ws'.thr = Patched(base.thr, F, ws'.raw)
             /\ ws'.out = Patched(base.out, D, ws'.raw)
    BY <1>4, <1>5, <1>7, <2>1, <2>2, <2>3
  <2>5. /\ ws'.thr = Patched(base.thr, F, FullThreshold(g, ws'.raw, config))
        /\ ws'.out = Patched(base.out, D, StageOutput(g, ws'.raw, ws'.thr, config))
    BY <2>4 DEF FullThreshold, StageOutput
  <2>6. \A c \in Cells(g) :
          /\ c \in F => Agree(ws'.thr, c, FullThreshold(g, ws'.raw, config), c)
          /\ c \notin F => Agree(ws'.thr, c, base.thr, c)
          /\ c \in D => Agree(ws'.out, c, StageOutput(g, ws'.raw, ws'.thr, config), c)
          /\ c \notin D => Agree(ws'.out, c, base.out, c)
    BY <2>5, PatchedAt
  <2> QED
    BY <2>6 DEF StageImages, F, D, g, everything
<1> QED
  BY <1>6, <1>7

\* The sides a build leaves frayed.
LEMMA BuildFrayed ==
  ASSUME NEW m, NEW config, Build(m, config)
  PROVE  frayed' = IF ~ws.initialized \/ ws.config # config \/ Transition(m, config.occ) = "full" THEN {}
                   ELSE IF Transition(m, config.occ) = "same" THEN frayed
                   ELSE Frays(frayed, ws.geo, m.geo, Overlap(ws.geo, m.geo))
BY DEF Build, Frays

\* The part that two overlapping windows share lies in both.
LEMMA OverlapFits ==
  ASSUME NEW old \in Geometries, NEW new \in Geometries,
         Overlap(old, new).w > 0, Overlap(old, new).h > 0
  PROVE  Fits(old, new, Overlap(old, new))
<1> DEFINE dx == Offset(old.ox, new.ox)
           dy == Offset(old.oy, new.oy)
<1>1. /\ old.ox \in Int /\ old.oy \in Int /\ old.w \in Nat /\ old.h \in Nat
      /\ new.ox \in Int /\ new.oy \in Int /\ new.w \in Nat /\ new.h \in Nat
  BY DecisionMapAssumption
<1>2. dx \in Int /\ dy \in Int
  <2>1. OriginUnits \in Nat \ {0}
    BY DecisionMapAssumption
  <2> QED BY <1>1, <2>1 DEF Offset, RoundedRatio, Magnitude
<1> HIDE DEF dx, dy
<1> DEFINE w == Smaller(old.w - Larger(0, -dx), new.w - Larger(0, dx))
           h == Smaller(old.h - Larger(0, -dy), new.h - Larger(0, dy))
<1>3. Overlap(old, new) =
        [newX |-> Larger(0, dx), newY |-> Larger(0, dy),
         oldX |-> Larger(0, -dx), oldY |-> Larger(0, -dy), w |-> w, h |-> h]
  BY DEF Overlap, dx, dy
<1>4. w > 0 /\ h > 0
  <2> HIDE DEF w, h
  <2> QED BY <1>3
<1>5. /\ Larger(0, dx) \in Nat /\ Larger(0, -dx) \in Nat /\ w \in Nat
      /\ Larger(0, dx) + w <= new.w /\ Larger(0, -dx) + w <= old.w
  BY <1>1, <1>2, <1>4 DEF Larger, Smaller
<1>6. /\ Larger(0, dy) \in Nat /\ Larger(0, -dy) \in Nat /\ h \in Nat
      /\ Larger(0, dy) + h <= new.h /\ Larger(0, -dy) + h <= old.h
  BY <1>1, <1>2, <1>4 DEF Larger, Smaller
<1> HIDE DEF w, h
<1> QED
  BY <1>1, <1>3, <1>5, <1>6 DEF Fits

\* The whole of a window, for one that stays where it is.
Whole(g) == [newX |-> 0, newY |-> 0, oldX |-> 0, oldY |-> 0, w |-> g.w, h |-> g.h]

LEMMA WholeFits ==
  ASSUME NEW g, g.w \in Nat, g.h \in Nat
  PROVE  /\ Fits(g, g, Whole(g))
         /\ \A c \in Cells(g) : c \in Kept(Whole(g)) /\ Before(Whole(g), c) = c
         /\ \A sides : Frays(sides, g, g, Whole(g)) = sides
<1>1. Fits(g, g, Whole(g))
  BY DEF Fits, Whole
<1>2. ASSUME NEW c \in Cells(g)
      PROVE  c \in Kept(Whole(g)) /\ Before(Whole(g), c) = c
  <2>1. /\ c = <<c[1], c[2]>> /\ c[1] \in Int /\ c[2] \in Int
        /\ 0 <= c[1] /\ c[1] < g.w /\ 0 <= c[2] /\ c[2] < g.h
    BY CellParts
  <2>2. c[1] - 0 + 0 = c[1] /\ c[2] - 0 + 0 = c[2] /\ 0 + g.w = g.w /\ 0 + g.h = g.h
    BY <2>1
  <2>3. Before(Whole(g), c) = c
    BY <2>1, <2>2 DEF Before, Whole
  <2>4. c \in Kept(Whole(g))
    BY <1>1, <2>1, <2>2, KeptParts DEF Whole
  <2> QED
    BY <2>3, <2>4
<1>3. GrownSides(Whole(g), g) = {} /\ CutSides(Whole(g), g) = {}
  <2> DEFINE p == Whole(g)
  <2>1. /\ ~(p.newX > 0) /\ ~(p.newY > 0) /\ ~(p.oldX > 0) /\ ~(p.oldY > 0)
        /\ ~(p.newX + p.w < g.w) /\ ~(p.newY + p.h < g.h)
        /\ ~(p.oldX + p.w < g.w) /\ ~(p.oldY + p.h < g.h)
    BY DEF Whole
  <2> HIDE DEF p
  <2>2. GrownSides(p, g) = {} /\ CutSides(p, g) = {}
    BY <2>1 DEF GrownSides, CutSides
  <2> QED
    BY <2>2 DEF p
<1> QED
  BY <1>1, <1>2, <1>3 DEF Frays

\* The raw image after a build that reused the window.
LEMMA BuildReuses ==
  ASSUME TInv, NEW m \in Maps, NEW config \in Configs,
         NEW transition, NEW base, NEW rebuilt, NEW current, NEW dirty,
         Stages(m, config, transition, base, rebuilt, current, dirty), transition # "full"
  PROVE  LET p == IF transition = "same" THEN Whole(ws.geo) ELSE Overlap(ws.geo, m.geo)
         IN /\ Reused(ws.geo, ws'.geo, p, ws.raw, ws'.raw, rebuilt)
            /\ \A c \in Cells(ws'.geo) : c \in Kept(p) =>
                 Agree(base.thr, c, ws.thr, Before(p, c)) /\ Agree(base.out, c, ws.out, Before(p, c))
<1> DEFINE p == IF transition = "same" THEN Whole(ws.geo) ELSE Overlap(ws.geo, m.geo)
<1> SUFFICES /\ Reused(ws.geo, ws'.geo, p, ws.raw, ws'.raw, rebuilt)
             /\ \A c \in Cells(ws'.geo) : c \in Kept(p) =>
                  Agree(base.thr, c, ws.thr, Before(p, c)) /\ Agree(base.out, c, ws.out, Before(p, c))
  OBVIOUS
<1>1. StageFacts(config, base, current, dirty)
  BY StagesOK DEF TInv, IInv
<1>2. /\ ws'.geo = base.geo /\ base.geo \in Geometries
      /\ Cells(base.geo) = Cells(m.geo) /\ rebuilt \subseteq Cells(m.geo)
  BY BuildTyped
<1>3. /\ transition \in {"same", "overlap", "full"} /\ ws.initialized
      /\ transition = "overlap" => Overlap(ws.geo, m.geo).w > 0 /\ Overlap(ws.geo, m.geo).h > 0
  BY DEF Stages, Transition
<1>4. ws.geo \in Geometries /\ m.geo \in Geometries
  BY <1>3 DEF TInv, Geometries
<1>5. /\ ws.geo.ox \in Int /\ ws.geo.oy \in Int /\ ws.geo.w \in Nat /\ ws.geo.h \in Nat
      /\ m.geo.ox \in Int /\ m.geo.oy \in Int /\ m.geo.w \in Nat /\ m.geo.h \in Nat
  BY <1>4, DecisionMapAssumption
<1>6. ws'.raw = Patched(base.raw, rebuilt, Rasterised(m.data, rebuilt, config.occ))
  <2>1. /\ current.cache = [c \in Cells(m.geo) |-> IF c \in rebuilt THEN m.data[c] ELSE base.cache[c]]
        /\ current.raw = Patched(base.raw, rebuilt, Rasterised(m.data, rebuilt, config.occ))
    BY <1>1, RasteredData, SMTT(60) DEF StageFacts, Stages
  <2> QED
    BY <1>1, <2>1 DEF StageFacts, SameData
<1>7. \A c : c \notin rebuilt => Agree(ws'.raw, c, base.raw, c)
  BY <1>6, PatchedAt
<1>8. CASE transition = "same"
  <2>1. base = ws
    BY <1>8, CarriedOK DEF TInv, IInv, Stages
  <2>2. p = Whole(ws.geo)
    BY <1>8
  <2>3. /\ Fits(ws.geo, ws.geo, Whole(ws.geo))
        /\ \A c \in Cells(ws.geo) : c \in Kept(Whole(ws.geo)) /\ Before(Whole(ws.geo), c) = c
    BY <1>5, WholeFits
  <2> HIDE DEF p
  <2>4. ws'.geo = ws.geo /\ rebuilt \subseteq Cells(ws.geo)
    BY <1>2, <2>1
  <2>5. Reused(ws.geo, ws.geo, p, ws.raw, ws'.raw, rebuilt)
    BY <1>7, <2>1, <2>2, <2>3, <2>4 DEF Reused
  <2> QED
    BY <2>1, <2>2, <2>3, <2>4, <2>5 DEF Agree
<1>9. CASE transition = "overlap"
  <2>1. p = Overlap(ws.geo, m.geo)
    BY <1>9
  <2> HIDE DEF p
  <2>2. base.geo = m.geo /\ base.raw = Moved(p, ws.raw)
    BY <1>9, <2>1, CarriedOK DEF TInv, IInv, Stages
  <2>3. base.thr = Moved(p, ws.thr) /\ base.out = Moved(p, ws.out)
    BY <1>9, <2>1, CarriedImages DEF TInv, IInv, Stages
  <2>4. Fits(ws.geo, m.geo, p)
    BY <1>3, <1>4, <1>9, <2>1, OverlapFits
  <2>5. \A image : \A c \in Kept(p) : Agree(Moved(p, image), c, image, Before(p, c))
    BY DEF Moved, Agree
  <2>6. ASSUME NEW c \in Cells(m.geo), c \notin rebuilt
        PROVE  c \in Kept(p)
    <3> SUFFICES ASSUME c \notin Kept(p) PROVE FALSE
      OBVIOUS
    <3>1. \A halo : Chunk(c) \in ForcedChunks(m.geo, p, halo)
      BY DEF ForcedChunks
    <3>2. Chunk(c) \in Chunks(m.geo)
      BY DEF Chunks
    <3>3. Chunk(c) \in DirtyChunks(m, config, transition, base)
      <4> DEFINE halo == IF config.enabled THEN Radius(config.kernel) ELSE 0
                 was == Classified(base.cache, Cells(m.geo), config.occ)
                 is == Classified(m.data, Cells(m.geo), config.occ)
      <4>1. DirtyChunks(m, config, transition, base) = Chunks(m.geo)
              \/ DirtyChunks(m, config, transition, base) =
                   {k \in Chunks(m.geo) : k \in ForcedChunks(m.geo, p, halo)
                                            \/ NeedsRebuild(was, is, ChunkCells(m.geo, k))}
        BY <1>9, <2>1 DEF DirtyChunks
      <4> HIDE DEF halo, was, is
      <4> QED
        BY <3>1, <3>2, <4>1
    <3> QED
      BY <2>6, <3>3 DEF Stages
  <2>7. Reused(ws.geo, m.geo, p, ws.raw, ws'.raw, rebuilt)
    <3>1. ASSUME NEW c \in Cells(m.geo), c \notin rebuilt
          PROVE  c \in Kept(p) /\ Agree(ws'.raw, c, ws.raw, Before(p, c))
      <4>1. c \in Kept(p)
        BY <2>6, <3>1
      <4>2. Agree(ws'.raw, c, Moved(p, ws.raw), c) /\ Agree(Moved(p, ws.raw), c, ws.raw, Before(p, c))
        BY <1>7, <2>2, <2>5, <3>1, <4>1
      <4> QED
        BY <4>1, <4>2 DEF Agree
    <3> QED
      BY <1>2, <2>4, <3>1 DEF Reused
  <2> QED
    BY <1>2, <2>2, <2>3, <2>5, <2>7
<1> QED
  BY <1>3, <1>8, <1>9

\* A build keeps exact what is out of reach of the frayed sides.
LEMMA BuildKeepsExact ==
  ASSUME TInv, ExactInv, NEW m \in Maps, NEW config \in Configs, Build(m, config)
  PROVE  ExactInv'
<1>1. PICK transition, base, rebuilt, current, dirty :
        Stages(m, config, transition, base, rebuilt, current, dirty)
  BY BuildHasStages
<1>2. /\ Typed(ws') /\ ws'.geo = base.geo /\ base.geo \in Geometries
      /\ Cells(base.geo) = Cells(m.geo)
  BY <1>1, BuildTyped
<1>3. StageImages(base, dirty, config)
  BY <1>1, BuildImages
<1>4. ws'.config = config
  <2>1. Workspace(ws)
    BY DEF TInv, IInv
  <2> QED
    BY <1>1, <2>1, BuildInitializes
<1>5. ws'.geo.w \in Nat /\ ws'.geo.h \in Nat
  BY <1>2, DecisionMapAssumption
<1>6. Radius(config.kernel) \in Nat /\ config.dilation \in Nat /\ Reach(config) \in Nat
      /\ Spread(config) \in Nat /\ Reach(config) + Spread(config) \in Nat
  BY ConfigParts
<1>7. /\ ImageOver(Cells(ws'.geo), ws'.raw) /\ ImageOver(Cells(ws'.geo), ws'.thr)
  BY <1>2 DEF Typed
<1> DEFINE everything == ~ws.initialized \/ ws.config # config
<1>8. SUFFICES ExactOn(ws'.geo, ws'.raw, ws'.thr, ws'.out, config, frayed')
  BY <1>4 DEF ExactInv, ExactOn, FullThreshold, FullOutput, Cells, Agree, Clear
<1>9. transition = Transition(m, config.occ)
  BY <1>1 DEF Stages
<1>10. CASE everything \/ transition = "full"
  <2>1. everything \/ \A c \in Cells(ws'.geo) : c \in dirty
    <3>1. transition = "full" => DirtyChunks(m, config, transition, base) = Chunks(m.geo)
      BY DEF DirtyChunks
    <3>2. \A c \in Cells(m.geo) : Chunk(c) \in Chunks(m.geo)
      BY DEF Chunks
    <3> QED
      BY <1>1, <1>2, <1>10, <3>1, <3>2 DEF Stages
  <2>2. \A c \in Cells(ws'.geo), r \in Nat : c \in Redone(ws'.geo, dirty, r, everything)
    <3> HIDE DEF everything
    <3> QED BY <1>5, <2>1, WidenedContains DEF Redone
  <2>3. \A c \in Cells(ws'.geo) :
          /\ Agree(ws'.thr, c, FullThreshold(ws'.geo, ws'.raw, config), c)
          /\ Agree(ws'.out, c, StageOutput(ws'.geo, ws'.raw, ws'.thr, config), c)
    BY <1>3, <1>6, <2>2 DEF StageImages
  <2> QED
    BY <1>5, <1>6, <1>7, <2>3, ExactWhenAll
<1>11. CASE ~everything /\ transition # "full"
  <2> DEFINE p == IF transition = "same" THEN Whole(ws.geo) ELSE Overlap(ws.geo, m.geo)
  <2>1. /\ Reused(ws.geo, ws'.geo, p, ws.raw, ws'.raw, rebuilt)
        /\ \A c \in Cells(ws'.geo) : c \in Kept(p) =>
             Agree(base.thr, c, ws.thr, Before(p, c)) /\ Agree(base.out, c, ws.out, Before(p, c))
    BY <1>1, <1>11, BuildReuses
  <2>2. /\ ws.initialized /\ ws.config = config
        /\ ImageOver(Cells(ws.geo), ws.raw)
        /\ ExactOn(ws.geo, ws.raw, ws.thr, ws.out, config, frayed)
    BY <1>11 DEF TInv, Typed, ExactInv
  <2>3. dirty = rebuilt
    BY <1>1, <1>11 DEF Stages
  <2>4. frayed' = Frays(frayed, ws.geo, ws'.geo, p)
    <3>1. CASE transition = "same"
      <4>1. base = ws
        BY <1>1, <3>1, CarriedOK DEF TInv, IInv, Stages
      <4>2. ws'.geo = ws.geo /\ ws.geo.w \in Nat /\ ws.geo.h \in Nat
        BY <1>2, <1>5, <4>1
      <4>3. frayed' = frayed
        BY <1>9, <1>11, <3>1, BuildFrayed
      <4> QED
        BY <3>1, <4>2, <4>3, WholeFits
    <3>2. CASE transition # "same"
      <4>1. base.geo = m.geo
        BY <1>1, <3>2, CarriedOK DEF TInv, IInv, Stages
      <4> QED
        BY <1>2, <1>9, <1>11, <3>2, <4>1, BuildFrayed
    <3> QED
      BY <3>1, <3>2
  <2> HIDE DEF p
  <2>5. Recomputes(ws.geo, ws'.geo, p, ws'.raw, ws.thr, ws.out, ws'.thr, ws'.out, config, rebuilt)
    <3>1. \A r : Redone(ws'.geo, dirty, r, everything) = Widened(ws'.geo, rebuilt, r)
      BY <1>11, <2>3 DEF Redone
    <3>2. ASSUME NEW c \in Cells(ws'.geo), NEW r \in Nat, c \notin Widened(ws'.geo, rebuilt, r)
          PROVE  Agree(base.thr, c, ws.thr, Before(p, c)) /\ Agree(base.out, c, ws.out, Before(p, c))
      BY <2>1, <3>2, ItselfKept
    <3> HIDE DEF everything
    <3>3. ASSUME NEW c \in Cells(ws'.geo)
          PROVE  /\ c \in Widened(ws'.geo, rebuilt, Reach(config))
                      => Agree(ws'.thr, c, FullThreshold(ws'.geo, ws'.raw, config), c)
                 /\ c \notin Widened(ws'.geo, rebuilt, Reach(config))
                      => Agree(ws'.thr, c, base.thr, c)
                 /\ c \in Widened(ws'.geo, rebuilt, Reach(config) + Spread(config))
                      => Agree(ws'.out, c, StageOutput(ws'.geo, ws'.raw, ws'.thr, config), c)
                 /\ c \notin Widened(ws'.geo, rebuilt, Reach(config) + Spread(config))
                      => Agree(ws'.out, c, base.out, c)
      BY <1>3, <3>1 DEF StageImages, everything
    <3>4. ASSUME NEW c \in Cells(ws'.geo), c \notin Widened(ws'.geo, rebuilt, Reach(config))
          PROVE  Agree(ws'.thr, c, ws.thr, Before(p, c))
      BY <1>6, <3>2, <3>3, <3>4 DEF Agree
    <3>5. ASSUME NEW c \in Cells(ws'.geo),
                 c \notin Widened(ws'.geo, rebuilt, Reach(config) + Spread(config))
          PROVE  Agree(ws'.out, c, ws.out, Before(p, c))
      BY <1>6, <3>2, <3>3, <3>5 DEF Agree
    <3> QED
      BY <3>3, <3>4, <3>5 DEF Recomputes
  <2>6. ExactOn(ws'.geo, ws'.raw, ws'.thr, ws'.out, config, Frays(frayed, ws.geo, ws'.geo, p))
    BY <1>6, <1>7, <2>1, <2>2, <2>5, ExactAfterReuse
  <2> QED
    BY <2>4, <2>6
<1> QED
  BY <1>10, <1>11

LEMMA AgreeingDoNotDiffer ==
  ASSUME NEW S, NEW a, NEW b, \A c \in S : Agree(a, c, b, c)
  PROVE  Differing(S, a, b) = {}
<1>1. ASSUME NEW c \in S
      PROVE  \E class \in Classes : c \in Selected(S, a, class) \cap Selected(S, b, class)
  <2>1. CASE c \in a.free
    BY <2>1 DEF Agree, Selected, Classes
  <2>2. CASE c \in a.occupied
    BY <2>2 DEF Agree, Selected, Classes
  <2>3. CASE c \notin a.free /\ c \notin a.occupied
    BY <2>3 DEF Agree, Selected, Classes, Known
  <2> QED
    BY <2>1, <2>2, <2>3
<1> QED
  BY <1>1 DEF Differing

LEMMA ExactInvHolds == Spec => []ExactInv
<1>1. Init => ExactInv
  BY DEF Init, ExactInv, FreshWorkspace
<1>2. ASSUME TInv, ExactInv, [Next]_vars
      PROVE  ExactInv'
  <2>1. CASE NewMap
    BY <1>2, <2>1, BuildKeepsExact DEF NewMap
  <2>2. CASE Reconfigure
    <3>1. PICK config \in Configs \ {ws.config} : Build(map, config)
      BY <2>2 DEF Reconfigure
    <3>2. map \in Maps
      BY <1>2, <2>2 DEF Reconfigure, TInv, IInv
    <3> QED
      BY <1>2, <3>1, <3>2, BuildKeepsExact
  <2>3. CASE UNCHANGED vars
    BY <1>2, <2>3 DEF vars, ExactInv, ExactOn, FullThreshold, FullOutput, Cells, Agree, Clear
  <2> QED
    BY <1>2, <2>1, <2>2, <2>3 DEF Next
<1> QED
  BY <1>1, <1>2, TInvHolds, PTL DEF Spec

\* Partial recomputation is exact: over any history of maps, jitter, growth, shifts and
\* configurations, the thresholded image and the output are what the stages give when
\* computed anew over the whole raw image that the workspace holds, out of reach of the
\* sides that reuse cut off and nothing grew over since.  That raw image may lag behind
\* the map, by what LagStaysBounded says (build_decision_map, build_expanded_row_spans, copy_buffer_region).
THEOREM RecomputationIsExact == Spec => []ExactAwayFromCuts
<1>1. ASSUME ExactInv
      PROVE  ExactAwayFromCuts
  <2> SUFFICES ASSUME ws.initialized
               PROVE  ExactAwayFromCuts
    BY DEF ExactAwayFromCuts
  <2> DEFINE r == Reach(ws.config)
             d == Spread(ws.config)
             Inner(reach) == {c \in Cells(ws.geo) : ClearOf(c, reach)}
  <2>1. \A c, reach : ClearOf(c, reach) => Clear(frayed, ws.geo, c, reach)
    BY DEF ClearOf, Clear
  <2>2. \A c \in Inner(r) : Agree(ws.thr, c, FullThreshold(ws.geo, ws.raw, ws.config), c)
    BY <1>1, <2>1 DEF ExactInv, ExactOn
  <2>3. \A c \in Inner(r + d) : Agree(ws.out, c, FullOutput(ws.geo, ws.raw, ws.config), c)
    BY <1>1, <2>1 DEF ExactInv, ExactOn
  <2>4. /\ Differing(Inner(r), ws.thr, FullThreshold(ws.geo, ws.raw, ws.config)) = {}
        /\ Differing(Inner(r + d), ws.out, FullOutput(ws.geo, ws.raw, ws.config)) = {}
    <3> HIDE DEF Inner, r, d
    <3> QED BY <2>2, <2>3, AgreeingDoNotDiffer
  <2> QED
    BY <2>4 DEF ExactAwayFromCuts, Reach, Spread
<1> QED
  BY <1>1, ExactInvHolds, PTL

=============================================================================
