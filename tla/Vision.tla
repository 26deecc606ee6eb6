------------------------------- MODULE Vision -------------------------------
(***************************************************************************)
(* From decoded pixels to feature rows: the resize and patch order of      *)
(* Qwen35ImageProcessor and SiglipImageProcessor (src/src/image.rs), the   *)
(* Qwen-VL tower (src/src/models/qwen35_vision.rs) and the SigLIP tower    *)
(* with the LLaVA projector (src/src/models/siglip.rs,                     *)
(* src/src/joycaption.rs).                                                 *)
(*                                                                         *)
(* No number is computed: a row of pixels is the frames and the cell of    *)
(* the patch grid it is cut from, and a feature row is what went into it.  *)
(* An image is a record [id, height, width, len], len being the pixels in  *)
(* its buffer; g holds the geometry of processor and tower.                *)
(***************************************************************************)
EXTENDS ModelConfig, SequencesExt

-----------------------------------------------------------------------------
(* Resizing.                                                               *)

\* The nearest multiple of factor, a tie going to the even one.
RoundFactor(x, factor) ==
    LET n == x \div factor
        r == x % factor
    IN  factor * IF 2 * r > factor \/ (2 * r = factor /\ n % 2 = 1) THEN n + 1 ELSE n

\* floor(side / beta / factor) and ceil(side * beta / factor) for the two
\* betas, whose squares are rational: how many n are still within the limit.
LargestWithin(side, other, factor, t, max) ==
    Cardinality({n \in 1 .. side : n * n * factor * factor * t * other <= side * max})
SmallestReaching(side, other, factor, t, min) ==
    1 + Cardinality({n \in 1 .. min : n * n * factor * factor * t * other < side * min})

\* smart_resize_with.
SmartResize(g, h, w, temporal, min, max) ==
    LET factor == g.patch * g.merge
        t      == AtLeast(temporal, 1)
        budget == t * RoundFactor(h, factor) * RoundFactor(w, factor)
        Fit(side, other) ==
            IF budget > max THEN AtLeast(factor, factor * LargestWithin(side, other, factor, t, max))
            ELSE IF budget < min THEN factor * SmallestReaching(side, other, factor, t, min)
            ELSE RoundFactor(side, factor)
    IN  IF AtMost(h, w) = 0 \/ AtLeast(h, w) > 200 * AtMost(h, w) THEN None
        ELSE Some(<<Fit(h, w), Fit(w, h)>>)

-----------------------------------------------------------------------------
(* Patches.                                                                *)

\* for a, for c, for b, for d: the cells of an h by w grid, one merged block
\* after the other.
BlockOrder(h, w, m) ==
    [n \in 1 .. (h \div m) * (w \div m) * m * m |->
        LET k == n - 1
        IN  [a |-> k \div ((w \div m) * m * m), c |-> (k \div (m * m)) % (w \div m),
             b |-> (k \div m) % m, d |-> k % m]]

RepeatRows(rows, times) == FlattenSeq([i \in 1 .. times |-> rows])

\* The grid of a picture resized to a size, and the rows of one time step of it,
\* cut from these frames.
GridOf(g, times, size) == <<times, size[1] \div g.patch, size[2] \div g.patch>>
StepRows(g, grid, frames) ==
    LET order == BlockOrder(grid[2], grid[3], g.merge)
    IN  [n \in DOMAIN order |-> [frames |-> frames, row |-> order[n].a * g.merge + order[n].b,
                                 col |-> order[n].c * g.merge + order[n].d]]

\* preprocess: an image fills every time step of its patches.
ImagePatches(g, image, size) ==
    IF image.len # image.height * image.width \/ size = None THEN None
    ELSE LET grid == GridOf(g, 1, size.some)
         IN  Some([grid |-> grid,
                   rows |-> StepRows(g, grid, [tt \in 1 .. g.temporal |-> <<image.id, 1>>])])
Preprocess(g, image) ==
    ImagePatches(g, image, SmartResize(g, image.height, image.width, 1, g.min, g.max))

\* preprocess_video: frames of one size, the last one repeated up to a whole
\* number of temporal patches.
VideoPatches(g, video, steps, size) ==
    LET frames == video.frames
        Frame(i) == <<video.id, AtMost(i, Len(frames))>>
        grid == GridOf(g, steps, size.some)
    IN  IF \/ frames = <<>>
           \/ \E i \in DOMAIN frames :
                \/ <<frames[i].height, frames[i].width>> # <<frames[1].height, frames[1].width>>
                \/ frames[i].len # frames[i].height * frames[i].width
           \/ size = None
        THEN None
        ELSE Some([grid |-> grid,
                   rows |-> FlattenSeq([gt \in 1 .. steps |->
                      StepRows(g, grid, [tt \in 1 .. g.temporal |->
                                           Frame((gt - 1) * g.temporal + tt)])])])
PreprocessVideo(g, video) ==
    LET steps == (Len(video.frames) + g.temporal - 1) \div g.temporal
    IN  VideoPatches(g, video, steps,
                     SmartResize(g, video.frames[1].height, video.frames[1].width,
                                 steps * g.temporal, g.video_min, g.video_max))

-----------------------------------------------------------------------------
(* The Qwen-VL tower.                                                      *)

\* vision_position_ids, over all grids
PositionIds(grids, m) ==
    FlattenSeq([i \in DOMAIN grids |->
        LET order == BlockOrder(grids[i][2], grids[i][3], m)
        IN  RepeatRows([n \in DOMAIN order |->
              <<order[n].a * m + order[n].b, order[n].c * m + order[n].d>>], grids[i][1])])

\* Where cell k of len cells falls on a side of the learned grid: the cells
\* below and above, and how far it is past the one below, in units of len - 1.
Lin(k, len, side) ==
    LET at   == IF len = 1 THEN 0 ELSE (side - 1) * k
        unit == AtLeast(len - 1, 1)
    IN  [floor |-> at \div unit, ceil |-> AtMost(at \div unit + 1, side - 1),
         frac |-> at % unit, unit |-> unit]

\* The corners of one row-major cell p of an h by w grid: index and weight.
CornersAt(y, x, side) ==
    <<<<y.floor * side + x.floor, (y.unit - y.frac) * (x.unit - x.frac)>>,
      <<y.floor * side + x.ceil, (y.unit - y.frac) * x.frac>>,
      <<y.ceil * side + x.floor, y.frac * (x.unit - x.frac)>>,
      <<y.ceil * side + x.ceil, y.frac * x.frac>>>>
Corners(p, h, w, side) == CornersAt(Lin(p \div w, h, side), Lin(p % w, w, side), side)

\* A table left in row-major order.
BilinearRowMajor(grids, side, m) ==
    FlattenSeq([i \in DOMAIN grids |->
        RepeatRows([n \in 1 .. grids[i][2] * grids[i][3] |->
                      Corners(n - 1, grids[i][2], grids[i][3], side)], grids[i][1])])

\* vision_bilinear
Bilinear(grids, side, m) ==
    FlattenSeq([i \in DOMAIN grids |->
        LET h == grids[i][2]
            w == grids[i][3]
            order == BlockOrder(h, w, m)
        IN  RepeatRows([n \in DOMAIN order |->
              Corners((order[n].a * m + order[n].b) * w + order[n].c * m + order[n].d,
                      h, w, side)], grids[i][1])])

\* vision_cu_seqlens: where each frame of each grid ends.
CuSeqlens(grids) ==
    LET frames == FlattenSeq([i \in DOMAIN grids |->
                    [f \in 1 .. grids[i][1] |-> grids[i][2] * grids[i][3]]])
        cu[k \in 1 .. Len(frames) + 1] == IF k = 1 THEN 0 ELSE cu[k - 1] + frames[k - 1]
    IN  cu

\* block_diag_mask: the rows that row r may attend to, out of n.
Attends(cu, n, r) ==
    IF Len(cu) <= 2 THEN 1 .. n
    ELSE LET block(j) == CHOOSE k \in 1 .. Len(cu) - 1 : cu[k] < j /\ j <= cu[k + 1]
         IN  {j \in 1 .. n : block(j) = block(r)}

\* forward_with_deepstack up to the mergers: what each row is made of after
\* `layers` blocks.
Hidden(g, rows, grids, layers) ==
    LET ids == PositionIds(grids, g.merge)
        pos == Bilinear(grids, g.side, g.merge)
        cu  == CuSeqlens(grids)
    IN  [n \in DOMAIN rows |->
           [patch |-> rows[n], position |-> ids[n], corners |-> pos[n], layers |-> layers,
            sees |-> {rows[j].frames : j \in Attends(cu, Len(rows), n)}]]

\* PatchMerger: merge * merge rows that follow each other make one.
Merged(g, hidden) ==
    [k \in 1 .. Len(hidden) \div (g.merge * g.merge) |->
        SubSeq(hidden, (k - 1) * g.merge * g.merge + 1, k * g.merge * g.merge)]

\* forward_with_deepstack: the pooled rows, and one set of rows for each block
\* that is tapped, in the order of the blocks.  None if the rows are not as many
\* as the grids say.
Tower(g, rows, grids) ==
    LET n == FoldSeq(LAMBDA x, sum : sum + x[1] * x[2] * x[3], 0, grids)
        tapped == FlattenSeq([i \in 1 .. g.depth |->
                    IF \E tap \in DOMAIN g.taps : g.taps[tap] = i - 1 THEN <<i>> ELSE <<>>])
        Tap(layer) == CHOOSE tap \in DOMAIN g.taps :
                        g.taps[tap] = layer - 1 /\ \A t \in 1 .. tap - 1 : g.taps[t] # layer - 1
    IN  IF Len(rows) # n THEN None
        ELSE Some([pooler |-> Merged(g, Hidden(g, rows, grids, g.depth)),
                   deepstack |-> [i \in DOMAIN tapped |->
                      [merger |-> Tap(tapped[i]),
                       rows |-> Merged(g, Hidden(g, rows, grids, tapped[i]))]]])

-----------------------------------------------------------------------------
(* The SigLIP tower and the LLaVA projector.                               *)

\* SiglipImageProcessor::preprocess: any image is made square.
SiglipPreprocess(image) == image.len = image.height * image.width

\* SiglipVisionTower::forward: the states, that of the embeddings first.
SiglipForward(g, image) ==
    [state \in 1 .. g.siglip_layers + 1 |->
        [p \in 1 .. g.grid * g.grid |->
            [image |-> image.id, cell |-> <<(p - 1) \div g.grid, (p - 1) % g.grid>>,
             position |-> p, layers |-> state - 1]]]

\* select_vision_feature
SelectVisionFeature(states, layer) ==
    LET idx == IF layer < 0 THEN Len(states) + layer ELSE layer
    IN  IF idx < 0 \/ idx >= Len(states) THEN None ELSE Some(states[idx + 1])

\* image_features: the rows of the last state but one, projected.
ImageFeatures(g, image) ==
    IF ~SiglipPreprocess(image) \/ image.height = 0 \/ image.width = 0 THEN None
    ELSE SelectVisionFeature(SiglipForward(g, image), -2)
=============================================================================
