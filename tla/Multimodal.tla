----------------------------- MODULE Multimodal -----------------------------
(***************************************************************************)
(* How the images and videos of a conversation become positions of the     *)
(* prompt: placeholders and their expansion, the splice of the feature     *)
(* rows, the M-RoPE positions and DeepStack (prepare_multimodal of         *)
(* src/src/provider.rs, src/src/models/deepstack.rs and its copy in        *)
(* src/src/models/qwen35.rs), and the one image of JoyCaption              *)
(* (src/src/joycaption.rs).                                                *)
(*                                                                         *)
(* A token is a pair <<what, which>>.  A message is [role, content], its   *)
(* content a sequence of blocks: [kind |-> "text", tokens], or an image or *)
(* video of Vision with its kind.                                          *)
(***************************************************************************)
EXTENDS Vision, Decoder

Token(what) == <<what, 0>>
ImagePad == Token("image_pad")
VideoPad == Token("video_pad")

-----------------------------------------------------------------------------
(* The prompt.                                                             *)

\* merged_frame_timestamps: the mean of first and last of each temporal patch
\* (twice the mean, to stay with integers), the last time repeated up to a whole
\* patch; WholePatchTimestamps drops an incomplete one.
WholePatchTimestamps(times, tps) ==
    [f \in 1 .. Len(times) \div tps |-> times[(f - 1) * tps + 1] + times[f * tps]]
MergedFrameTimestamps(times, tps) ==
    LET At(i) == times[IF i < Len(times) THEN i ELSE Len(times)]
    IN  [f \in 1 .. (Len(times) + tps - 1) \div tps |->
           At((f - 1) * tps + 1) + At(f * tps)]

\* video_placeholder_text
VideoPlaceholder(video, tps) ==
    LET merged == MergedFrameTimestamps(video.timestamps, tps)
    IN  FlattenSeq([f \in DOMAIN merged |->
          <<<<"seconds", merged[f]>>, Token("vision_start"), VideoPad, Token("vision_end")>>])

\* substitute_vision_placeholders, for one block
Substituted(block, tps) ==
    CASE block.kind = "text"  -> block.tokens
      [] block.kind = "image" -> <<Token("vision_start"), ImagePad, Token("vision_end")>>
      [] block.kind = "video" -> VideoPlaceholder(block, tps)

\* The chat template and the tokenizer: the messages in order, each framed.
Render(messages, tps) ==
    FlattenSeq([m \in DOMAIN messages |->
        <<<<messages[m].role, 0>>>>
        \o FlattenSeq([c \in DOMAIN messages[m].content |->
                         Substituted(messages[m].content[c], tps)])
        \o <<Token("end")>>])
    \o <<<<"assistant", 0>>>>

\* The images and videos of a conversation in document order.
Visuals(messages) ==
    FlattenSeq([m \in DOMAIN messages |->
        FlattenSeq([c \in DOMAIN messages[m].content |->
            IF messages[m].content[c].kind = "text" THEN <<>> ELSE <<messages[m].content[c]>>])])

-----------------------------------------------------------------------------
(* prepare_multimodal, first half: each visual encoded.                    *)

NothingEncoded ==
    [feats |-> <<>>, deepstack |-> <<>>, image_counts |-> <<>>, video_counts |-> <<>>,
     image_grids |-> <<>>, video_grids |-> <<>>]

\* encode and encode_video: the rows and the grid of one visual.
WithGrid(grid, out) ==
    IF out = None THEN None
    ELSE Some([grid |-> grid, pooler |-> out.some.pooler, deepstack |-> out.some.deepstack])
EncodePixels(g, pixels) ==
    IF pixels = None THEN None
    ELSE WithGrid(pixels.some.grid, Tower(g, pixels.some.rows, <<pixels.some.grid>>))
Encode(g, block) ==
    EncodePixels(g, IF block.kind = "image" THEN Preprocess(g, block)
                    ELSE PreprocessVideo(g, block))

\* One turn of the loop over the blocks.
WithVisual(g, enc, block, out) ==
    LET rows  == [i \in DOMAIN out.deepstack |-> out.deepstack[i].rows]
        frame == (out.grid[2] \div g.merge) * (out.grid[3] \div g.merge)
        image == block.kind = "image"
        add(seq, when, more) == IF when THEN seq \o more ELSE seq
    IN  [feats |-> enc.feats \o out.pooler,
         deepstack |-> [i \in DOMAIN rows |->
                          IF enc.deepstack = <<>> THEN rows[i] ELSE enc.deepstack[i] \o rows[i]],
         image_counts |-> add(enc.image_counts, image, <<Len(out.pooler)>>),
         video_counts |-> add(enc.video_counts, ~image, [f \in 1 .. out.grid[1] |-> frame]),
         image_grids |-> add(enc.image_grids, image, <<out.grid>>),
         video_grids |-> add(enc.video_grids, ~image, <<out.grid>>)]

-----------------------------------------------------------------------------
(* Second half: placeholders, splice, positions.                           *)

Occurrences(ids, tokens) == SelectSeq([p \in DOMAIN ids |-> p], LAMBDA p : ids[p] \in tokens)
\* How many of the positions up to p hold one of the tokens.
Ordinal(ids, tokens, p) == Cardinality({q \in 1 .. p : ids[q] \in tokens})

\* expand_vision_placeholders: one count for each occurrence, or an error.
ExpandVisionPlaceholders(ids, token, counts) ==
    IF Ordinal(ids, {token}, Len(ids)) # Len(counts) THEN None
    ELSE Some(FlattenSeq([p \in DOMAIN ids |->
           IF ids[p] = token
           THEN [i \in 1 .. counts[Ordinal(ids, {token}, p)] |-> token]
           ELSE <<ids[p]>>]))

\* splice_vision_features: every position of a placeholder takes the next row
\* of the buffer of feature rows, in document order; feature is its number, 0
\* for a text token.  Splicing the images first and then the videos gives the
\* rows of one to the other.
SplicedByKind(ids, features, tokens) ==
    IF Len(Occurrences(ids, tokens)) # Len(features) THEN None
    ELSE Some([p \in DOMAIN ids |->
           [feature |-> CASE ids[p] = ImagePad -> Ordinal(ids, {ImagePad}, p)
                          [] ids[p] = VideoPad -> Len(Occurrences(ids, {ImagePad}))
                                                  + Ordinal(ids, {VideoPad}, p)
                          [] OTHER -> 0,
            id |-> ids[p]]])
SpliceVisionFeatures(ids, features, tokens) ==
    IF Len(Occurrences(ids, tokens)) # Len(features) THEN None
    ELSE Some([p \in DOMAIN ids |->
           [feature |-> IF ids[p] \in tokens THEN Ordinal(ids, tokens, p) ELSE 0, id |-> ids[p]]])

Largest(a, b, c) == CHOOSE x \in {a, b, c} : \A y \in {a, b, c} : y <= x

\* How far the cursor moves over a block laid out on its grid; moving it by
\* the number of tokens would leave the compressed positions behind.
AdvanceByTokens(gt, gh, gw) == gt * gh * gw
Advance(gt, gh, gw) == Largest(gt, gh, gw)

\* A block of gt * gh * gw tokens laid out on its grid from position cur on.
LaidOut(gt, gh, gw, cur) ==
    [k \in 1 .. gt * gh * gw |->
        LET rem == (k - 1) % (gh * gw)
        IN  <<(k - 1) \div (gh * gw) + cur, rem \div gw + cur, (rem % gw) + cur>>]

\* How many tokens from p on are the same.
RunLength(ids, p) == Cardinality({q \in p .. Len(ids) : \A k \in p .. q : ids[k] = ids[p]})

\* A turn of the loop of mrope_positions_mm.  In s, next is the token it takes
\* up, cur the position it gives, img and vid the runs it has met.
MropeText(s) ==
    [s EXCEPT !.rows = Append(@, <<s.cur, s.cur, s.cur>>), !.cur = @ + 1, !.next = @ + 1]
MropeBlock(s, run, gt, gh, gw) ==
    IF gt <= 0 \/ gh <= 0 \/ gw <= 0 \/ run # gt * gh * gw THEN [s EXCEPT !.ok = FALSE]
    ELSE [s EXCEPT !.rows = @ \o LaidOut(gt, gh, gw, s.cur),
                   !.cur = @ + Advance(gt, gh, gw), !.next = @ + gt * gh * gw]
MropeVisit(s, ids, p, images, frames, merge) ==
    LET Block(t, grid) ==
          MropeBlock(t, RunLength(ids, p), grid[1], grid[2] \div merge, grid[3] \div merge)
    IN  IF ~s.ok \/ p < s.next THEN s
        ELSE IF ids[p] = ImagePad
        THEN IF s.img >= Len(images) THEN [s EXCEPT !.ok = FALSE]
             ELSE Block([s EXCEPT !.img = @ + 1], images[s.img + 1])
        ELSE IF ids[p] = VideoPad
        THEN IF s.vid >= Len(frames) THEN [s EXCEPT !.ok = FALSE]
             ELSE Block([s EXCEPT !.vid = @ + 1], frames[s.vid + 1])
        ELSE MropeText(s)
MropeWalk(ids, images, frames, merge, start) ==
    LET after[p \in 0 .. Len(ids)] ==
          IF p = 0 THEN start ELSE MropeVisit(after[p - 1], ids, p, images, frames, merge)
    IN  after[Len(ids)]

VideoFrames(video_grids) ==
    FlattenSeq([v \in DOMAIN video_grids |->
        [f \in 1 .. video_grids[v][1] |-> <<1, video_grids[v][2], video_grids[v][3]>>]])
HighestPosition(rows) ==
    LET all == {rows[r][axis] : r \in DOMAIN rows, axis \in 1 .. 3} \cup {-1}
    IN  CHOOSE x \in all : \A y \in all : y <= x

\* mrope_positions_mm: a position (t, h, w) for every token, and how far the
\* position after the last one is from the number of tokens.
MropePositions(ids, image_grids, video_grids, spatial_merge) ==
    LET merge == IF spatial_merge < 1 THEN 1 ELSE spatial_merge
        start == [ok |-> \A v \in DOMAIN video_grids : video_grids[v][1] > 0,
                  next |-> 1, cur |-> 0, img |-> 0, vid |-> 0, rows |-> <<>>]
        end == MropeWalk(ids, image_grids, VideoFrames(video_grids), merge, start)
    IN  IF ~end.ok THEN None
        ELSE Some([rows |-> end.rows, delta |-> HighestPosition(end.rows) + 1 - Len(ids)])

\* prepare_multimodal, once everything is encoded.
Expanded(prompt, enc) ==
    LET images == ExpandVisionPlaceholders(prompt, ImagePad, enc.image_counts)
    IN  IF images = None THEN None
        ELSE ExpandVisionPlaceholders(images.some, VideoPad, enc.video_counts)
Prepared(ids, embeds, positions) ==
    IF embeds = None \/ positions = None THEN None
    ELSE Some([ids |-> ids, embeds |-> embeds.some,
               rows |-> positions.some.rows, delta |-> positions.some.delta,
               mask |-> [p \in DOMAIN ids |-> ids[p] \in {ImagePad, VideoPad}]])
PrepareIds(g, ids, enc) ==
    Prepared(ids, SpliceVisionFeatures(ids, enc.feats, {ImagePad, VideoPad}),
             MropePositions(ids, enc.image_grids, enc.video_grids, g.merge))
PrepareMultimodal(g, prompt, enc) ==
    LET ids == Expanded(prompt, enc)
    IN  IF ids = None THEN None ELSE PrepareIds(g, ids.some, enc)

-----------------------------------------------------------------------------
(* JoyCaption.                                                             *)

JoyImage == Token("joy_image")

\* build_inputs: every message but the system's is the user's text; the image
\* token is taken out of that text.  None unless there is exactly one image.
BuildInputs(messages) ==
    LET images == SelectSeq(Visuals(messages), LAMBDA block : block.kind = "image")
        text(m) == FlattenSeq([c \in DOMAIN messages[m].content |->
                      IF messages[m].content[c].kind = "text"
                      THEN messages[m].content[c].tokens ELSE <<>>])
        system == {m \in DOMAIN messages : messages[m].role = "system"}
        user == FlattenSeq([m \in DOMAIN messages |-> IF m \in system THEN <<>> ELSE text(m)])
    IN  IF Len(images) # 1 THEN None
        ELSE Some([image |-> images[1],
                   prompt |-> <<Token("system")>>
                      \o (IF system = {} THEN <<Token("default_system")>>
                          ELSE text(CHOOSE m \in system : \A k \in system : k <= m))
                      \o <<Token("user"), Token("joy_start"), JoyImage, Token("joy_end")>>
                      \o FlattenSeq([p \in DOMAIN user |->
                            IF user[p] = JoyImage THEN <<>> ELSE <<user[p]>>])
                      \o <<Token("assistant")>>])

\* expand_image_tokens
ExpandImageTokens(ids, image_seq_length) ==
    FlattenSeq([p \in DOMAIN ids |->
        IF ids[p] = JoyImage THEN [i \in 1 .. image_seq_length |-> JoyImage] ELSE <<ids[p]>>])

\* image_gather_index into the embeddings followed by the features.
ImageGatherIndex(ids, n_vis) ==
    IF Len(Occurrences(ids, {JoyImage})) # n_vis THEN None
    ELSE Some([p \in DOMAIN ids |->
           IF ids[p] = JoyImage THEN Len(ids) + Ordinal(ids, {JoyImage}, p) ELSE p])

\* splice_image_features
SpliceImageFeatures(ids, features) ==
    LET gather == ImageGatherIndex(ids, Len(features))
        source == Embed(ids) \o [k \in DOMAIN features |-> [feature |-> k, id |-> JoyImage]]
    IN  IF gather = None THEN None
        ELSE Some([p \in DOMAIN ids |-> source[gather.some[p]]])

\* image_features and the first half of generate: the prompt as the decoder
\* sees it.
PrepareCaption(g, inputs) ==
    LET ids == ExpandImageTokens(inputs.prompt, g.image_seq_length)
        features == ImageFeatures(g, inputs.image)
        spliced == IF features = None THEN None ELSE SpliceImageFeatures(ids, features.some)
    IN  IF spliced = None THEN None
        ELSE Some([ids |-> ids, embeds |-> spliced.some,
                   delta |-> 0, feats |-> features.some])
=============================================================================
