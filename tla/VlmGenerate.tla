---------------------------- MODULE VlmGenerate ----------------------------
(***************************************************************************)
(* One generation of the two providers, from the conversation to the last  *)
(* token: LlamaProvider::generate with Qwen3-VL (every layer attends) or   *)
(* Qwen3.5 (the hybrid), with and without images and videos                *)
(* (src/src/provider.rs, src/src/decode/stream.rs), and                    *)
(* JoyCaptionProvider::generate (src/src/joycaption.rs).  The visuals are  *)
(* encoded one by one; the prompt is placed and run; tokens are sampled    *)
(* and fed back.  Cancellation and the host's stops are in DecodeLoop.     *)
(***************************************************************************)
EXTENDS Multimodal, Sampler

CONSTANTS
    Requests,   \* [provider, model, messages, shape]: shape is the sampler's
                \* parameters and the constraint mask
    Models,     \* Models[name]: a decoder, as in Decoder
    Geometry,   \* processor and tower, as in Vision
    Vocabulary, \* the tokens that may be sampled, token i at index i + 1
    Stops,      \* the stop tokens among them
    Logits,     \* the logits a forward may yield
    Draws,      \* the numbers the generator may yield
    MaxNew      \* max_new_tokens

\* What is asked is a conversation, of blocks of the three kinds.
ASSUME RequestsAssumption ==
    \A r \in Requests :
        /\ r.provider \in {"llama", "joycaption"}
        /\ r.messages \in Seq(ToSet(r.messages))
        /\ \A m \in DOMAIN r.messages :
              LET content == r.messages[m].content
              IN  /\ content \in Seq(ToSet(content))
                  /\ \A c \in DOMAIN content :
                        \/ content[c].kind = "text" /\ content[c].tokens \in Seq(ToSet(content[c].tokens))
                        \/ /\ content[c].kind = "image"
                           /\ content[c].height \in Nat /\ content[c].width \in Nat
                        \/ /\ content[c].kind = "video" /\ content[c].timestamps \in Seq(Nat)
                           /\ content[c].frames \in Seq(ToSet(content[c].frames))
                           /\ \A f \in DOMAIN content[c].frames :
                                 /\ content[c].frames[f].height \in Nat
                                 /\ content[c].frames[f].width \in Nat
ASSUME ModelsAssumption ==
    \A r \in Requests :
        LET m == Models[r.model]
        IN  /\ m.mixer \in Seq({"gqa", "mla", "delta", "gated"})
            /\ m.kernel \in Nat \ {0} /\ m.fused \in Nat
ASSUME GeometryAssumption ==
    /\ {Geometry.patch, Geometry.merge, Geometry.temporal, Geometry.side} \subseteq Nat \ {0}
    /\ {Geometry.min, Geometry.video_min, Geometry.depth, Geometry.image_seq_length} \subseteq Nat
ASSUME MaxNewAssumption == MaxNew \in Nat \ {0}
ASSUME DrawsAssumption == \A d \in Draws : d[1] \in Nat /\ d[1] < d[2]

VARIABLES
    request,    \* what is asked
    phase,      \* "encode", "prefill", "decode", "done" or "refused"
    enc,        \* the visuals encoded so far
    input,      \* the prompt as the decoder sees it, None before it is ready
    cache,      \* the decoder's cache
    fed,        \* how many rows have been run
    logits,     \* the row the last forward ended with
    generated,  \* the tokens so far
    draw        \* the last draw: [logits, draw, token], None before the first

vars == <<request, phase, enc, input, cache, fed, logits, generated, draw>>

Model == Models[request.model]
Blocks == Visuals(request.messages)
Encoded == Len(enc.image_grids) + Len(enc.video_grids)
Placed == input # None

Init ==
    /\ request \in Requests
    /\ phase = "encode"
    /\ enc = NothingEncoded
    /\ input = None
    /\ cache = NewCache(Models[request.model])
    /\ fed = 0
    /\ logits = ZeroRow
    /\ generated = <<>>
    /\ draw = None

Refused == phase' = "refused" /\ UNCHANGED <<enc, input>>

\* The next image or video goes through processor and tower.
EncodeNext ==
    /\ phase = "encode" /\ request.provider = "llama"
    /\ Encoded < Len(Blocks)
    /\ \E out \in {Encode(Geometry, Blocks[Encoded + 1])} :
          IF out = None THEN Refused
          ELSE /\ enc' = WithVisual(Geometry, enc, Blocks[Encoded + 1], out.some)
               /\ UNCHANGED <<phase, input>>
    /\ UNCHANGED <<request, cache, fed, logits, generated, draw>>

\* The prompt is ready, or an error.
PlaceAs(prepared) ==
    IF prepared = None THEN Refused
    ELSE input' = prepared /\ phase' = "prefill" /\ UNCHANGED enc

Place ==
    /\ phase = "encode" /\ request.provider = "llama"
    /\ Encoded = Len(Blocks)
    /\ \E prompt \in {Render(request.messages, Geometry.temporal)} :
          PlaceAs(IF Blocks = <<>>
                  THEN Some([ids |-> prompt, embeds |-> Embed(prompt), delta |-> 0])
                  ELSE PrepareMultimodal(Geometry, prompt, enc))
    /\ UNCHANGED <<request, cache, fed, logits, generated, draw>>

PlaceCaption ==
    /\ phase = "encode" /\ request.provider = "joycaption"
    /\ \E inputs \in {BuildInputs(request.messages)} :
          PlaceAs(IF inputs = None THEN None ELSE PrepareCaption(Geometry, inputs.some))
    /\ UNCHANGED <<request, cache, fed, logits, generated, draw>>

\* A forward has run over rows more rows.
Ran(run, rows) ==
    /\ cache' = run.cache
    /\ logits' = run.logits
    /\ fed' = fed + rows

\* The prompt of a conversation with visuals, in one forward.
PrefillMultimodal ==
    /\ phase = "prefill" /\ request.provider = "llama" /\ Blocks # <<>>
    /\ \E run \in {PrefillWithDeepstack(Model, input.some.embeds, input.some.rows, cache,
                                        input.some.mask, enc.deepstack)} :
          IF run = None THEN Refused /\ UNCHANGED <<cache, fed, logits>>
          ELSE /\ Ran(run.some, Len(input.some.ids))
               /\ phase' = "decode" /\ UNCHANGED <<enc, input>>
    /\ UNCHANGED <<request, generated, draw>>

PrefillCaption ==
    /\ phase = "prefill" /\ request.provider = "joycaption"
    /\ Ran(DecodeLogitsFromEmbeds(Model, input.some.embeds, cache, 0), Len(input.some.ids))
    /\ phase' = "decode"
    /\ UNCHANGED <<request, enc, input, generated, draw>>

\* Text may be run in parts, each at the offset of its first token: a prompt
\* whose prefix was cached, and the proposals speculative decoding verifies.
PrefillText(n) ==
    /\ phase = "prefill" /\ request.provider = "llama" /\ Blocks = <<>>
    /\ fed < n /\ n <= Len(input.some.ids)
    /\ Ran(DecodeLogits(Model, SubSeq(input.some.ids, fed + 1, n), cache, fed), n - fed)
    /\ phase' = IF n = Len(input.some.ids) THEN "decode" ELSE "prefill"
    /\ UNCHANGED <<request, enc, input, generated, draw>>

\* The ids the repetition penalty looks at; -1 is one the sampler's vocabulary
\* does not have.
History ==
    LET seen == input.some.ids \o generated
    IN  [p \in DOMAIN seen |->
           IF seen[p] \in ToSet(Vocabulary)
           THEN (CHOOSE i \in DOMAIN Vocabulary : Vocabulary[i] = seen[p]) - 1 ELSE -1]

\* decode_loop, and the loop of JoyCaptionModel::generate: sample, stop, push, and
\* feed the token back unless it is the last.  Shifted adds the delta of the
\* prompt's positions to the offset.
Decode ==
    /\ phase = "decode"
    /\ \E l \in Logits, d \in IF request.shape.params.inv_t = 0 THEN {<<0, 1>>} ELSE Draws :
       \E token \in Sample(l, History, request.shape.params, d, request.shape.mask) :
          /\ draw' = Some([logits |-> l, draw |-> d, token |-> token, history |-> History])
          /\ IF Vocabulary[token + 1] \in Stops
             THEN phase' = "done" /\ UNCHANGED <<cache, fed, logits, generated>>
             ELSE /\ generated' = Append(generated, Vocabulary[token + 1])
                  /\ IF Len(generated') = MaxNew
                     THEN phase' = "done" /\ UNCHANGED <<cache, fed, logits>>
                     ELSE /\ Ran(DecodeLogits(Model, <<Vocabulary[token + 1]>>, cache,
                                              fed + input.some.delta), 1)
                          /\ UNCHANGED phase
    /\ UNCHANGED <<request, enc, input>>

Next == EncodeNext \/ Place \/ PlaceCaption \/ PrefillMultimodal \/ PrefillCaption
        \/ (\E n \in 1 .. (IF Placed THEN Len(input.some.ids) ELSE 0) : PrefillText(n)) \/ Decode

Spec == Init /\ [][Next]_vars

-----------------------------------------------------------------------------
(* What it must keep.                                                      *)

Multimodal == request.provider = "llama" /\ Blocks # <<>>

\* The grid of visual v, and where the conversation's visuals should end up:
\* one entry for each merged block of patches, in document order.
Grid(v) == (IF Blocks[v].kind = "image" THEN Preprocess(Geometry, Blocks[v])
            ELSE PreprocessVideo(Geometry, Blocks[v])).some.grid
Places(block, g) ==
    LET high == g[2] \div Geometry.merge
        wide == g[3] \div Geometry.merge
    IN  [n \in 1 .. g[1] * high * wide |->
           [visual |-> block, frame |-> (n - 1) \div (high * wide) + 1, grid |-> g,
            high |-> ((n - 1) \div wide) % high, wide |-> (n - 1) % wide]]
Layout == FlattenSeq([v \in DOMAIN Blocks |-> Places(Blocks[v], Grid(v))])

\* A merged row holds the patches of that block, of the frames of its time step.
RowIsBlock(row, place) ==
    LET m == Geometry.merge
        Frame(t) == IF place.visual.kind = "image" THEN 1
                    ELSE AtMost(Len(place.visual.frames), (place.frame - 1) * Geometry.temporal + t)
    IN  /\ Len(row) = m * m
        /\ \A b, d \in 0 .. m - 1 :
              LET patch == row[b * m + d + 1].patch
              IN  /\ patch.row = place.high * m + b /\ patch.col = place.wide * m + d
                  /\ patch.frames = [t \in 1 .. Geometry.temporal |-> <<place.visual.id, Frame(t)>>]

\* Every placeholder of the prompt takes the features, and the DeepStack rows
\* of every tap, of the block of the image or video frame it stands for, and a
\* video frame follows the text of its own timestamp, although the tower, the
\* expansion and the splice each count the placeholders on their own.
EveryVisualTokenIsItsBlock ==
    LET ids  == input.some.ids
        held == Occurrences(ids, {ImagePad, VideoPad})
        FollowsItsTime(at, place) ==
            LET times == place.visual.timestamps
                T(t) == times[AtMost(Len(times), (place.frame - 1) * Geometry.temporal + t)]
            IN  ids[at - 2] = <<"seconds", T(1) + T(Geometry.temporal)>>
        IsItsBlock(k, at, place) ==
            /\ ids[at] = IF place.visual.kind = "image" THEN ImagePad ELSE VideoPad
            /\ RowIsBlock(enc.feats[input.some.embeds[at].feature], place)
            /\ \A tap \in DOMAIN enc.deepstack : RowIsBlock(enc.deepstack[tap][k], place)
            /\ place.visual.kind = "video" /\ place.high = 0 /\ place.wide = 0 =>
                  FollowsItsTime(at, place)
        Holds(layout) ==
            /\ Len(held) = Len(layout)
            /\ \A k \in DOMAIN layout : IsItsBlock(k, held[k], layout[k])
    IN  Multimodal /\ Placed => Holds(Layout)

\* The corners of a cell, taken at these places along one side, and weighed.
Weighed(corners, places) ==
    places[1] * corners[1][2] + places[2] * corners[2][2]
        + places[3] * corners[3][2] + places[4] * corners[4][2]

\* They meet at cell `at` of len: the learned grid is stretched over them.
Centred(corners, at, len, places) ==
    Weighed(corners, places) * AtLeast(1, len - 1)
        = (IF len = 1 THEN 0 ELSE (Geometry.side - 1) * at) * Weighed(corners, <<1, 1, 1, 1>>)

\* A cell of the tower over a grid. Its corners weigh one whole together.
CellAgrees(cell, grid) ==
    LET row(c) == cell.corners[c][1] \div Geometry.side
        col(c) == cell.corners[c][1] % Geometry.side
    IN  /\ cell.position = <<cell.patch.row, cell.patch.col>>
        /\ Centred(cell.corners, cell.patch.row, grid[2], <<row(1), row(2), row(3), row(4)>>)
        /\ Centred(cell.corners, cell.patch.col, grid[3], <<col(1), col(2), col(3), col(4)>>)
        /\ Weighed(cell.corners, <<1, 1, 1, 1>>) = AtLeast(1, grid[2] - 1) * AtLeast(1, grid[3] - 1)
        /\ cell.sees = {cell.patch.frames}

\* In the tower every patch is rotated by its own cell, gets the learned
\* position of its own place in the picture (the mean of the four corners) and
\* attends to its own frame only, although position_ids, the bilinear table,
\* cu_seqlens and the processor each lay the cells out on their own.
VisionRowsAgree ==
    \A k \in DOMAIN enc.feats : \A n \in DOMAIN enc.feats[k] :
        \E v \in 1 .. Encoded :
            /\ Blocks[v].id = enc.feats[k][n].patch.frames[1][1]
            /\ CellAgrees(enc.feats[k][n], Grid(v))

\* M-RoPE positions go on from the largest before them: a text token takes the
\* next one on all three axes, a block of a visual token is laid out from
\* there, and the tokens that are generated follow the prompt, although a
\* visual takes fewer positions than tokens.
PositionsGoOn ==
    LET ids  == input.some.ids
        rows == input.some.rows
        held == Occurrences(ids, {ImagePad, VideoPad})
        After(p) == IF p = 0 THEN 0
                    ELSE 1 + FoldSeq(LAMBDA r, most : AtLeast(most, AtLeast(r[1], AtLeast(r[2], r[3]))),
                                     0, SubSeq(rows, 1, p))
        LaidOutFrom(base, at, place) ==
            rows[at] = <<base, base + place.high, base + place.wide>>
        First(at, place) ==
            at - place.high * (place.grid[3] \div Geometry.merge) - place.wide
        Holds(layout) ==
            \A k \in DOMAIN held :
                LaidOutFrom(After(First(held[k], layout[k]) - 1), held[k], layout[k])
    IN  Multimodal /\ Placed =>
          /\ \A p \in DOMAIN ids : ids[p] \notin {ImagePad, VideoPad} =>
                rows[p] = <<After(p - 1), After(p - 1), After(p - 1)>>
          /\ Holds(Layout)
          /\ input.some.delta + Len(ids) = After(Len(ids))

\* Whatever parts the text was run in and however many tokens were fed back one
\* by one, the last row is the one a single forward over everything would end
\* with: the cached keys, the convolution's tail, the recurrent state, the
\* routed experts and the positions are those of one pass.
CachedEqualsRecomputed ==
    fed > 0 =>
        LET all == SubSeq(input.some.embeds \o Embed(generated), 1, fed)
            ids == [p \in DOMAIN all |-> all[p].id]
            extra == [k \in 1 .. fed - Len(input.some.ids) |-> FALSE]
        IN  logits = IF Multimodal
                     THEN PrefillWithDeepstack(Model, all,
                            MropePositions(ids, enc.image_grids, enc.video_grids,
                                           Geometry.merge).some.rows,
                            NewCache(Model), input.some.mask \o extra, enc.deepstack).some.logits
                     ELSE DecodeLogitsFromEmbeds(Model, all, NewCache(Model), 0).logits

\* Fed beside another sequence, in either order, a token yields what it yields
\* alone, and so does the other's: the batched step of continuous batching
\* routes all rows at once and keeps each lane's positions and cache apart.
BatchedEqualsAlone ==
    LET next == Vocabulary[1]
        theirs == Vocabulary[2]
        Holds(other, alone, apart) ==
            /\ DecodeLogitsPerSeq(Model, <<next, theirs>>, <<cache, other>>, <<fed, 2>>)
                  = Some([h |-> <<alone.logits, apart.logits>>, caches |-> <<alone.cache, apart.cache>>])
            /\ DecodeLogitsPerSeq(Model, <<theirs, next>>, <<other, cache>>, <<2, fed>>)
                  = Some([h |-> <<apart.logits, alone.logits>>, caches |-> <<apart.cache, alone.cache>>])
        Beside(other) == Holds(other, DecodeLogits(Model, <<next>>, cache, fed),
                               DecodeLogits(Model, <<theirs>>, other, 2))
    IN  phase = "decode" /\ ~Multimodal /\ (\A i \in DOMAIN Model.mixer : Model.mixer[i] = "gqa") =>
          Beside(DecodeLogits(Model, <<theirs, next>>, NewCache(Model), 0).cache)

\* A visual the processor cannot take.
Unreadable(block) ==
    LET pictures == IF block.kind = "image" THEN <<block>> ELSE block.frames
    IN  \/ pictures = <<>>
        \/ \E i \in DOMAIN pictures :
              \/ pictures[i].len # pictures[i].height * pictures[i].width
              \/ pictures[i].height # pictures[1].height \/ pictures[i].width # pictures[1].width
              \/ AtMost(pictures[i].height, pictures[i].width) = 0
              \/ /\ request.provider = "llama"
                 /\ AtLeast(pictures[i].height, pictures[i].width)
                      > 200 * AtMost(pictures[i].height, pictures[i].width)
Says(role, tokens) ==
    \E m \in DOMAIN request.messages : request.messages[m].role \in role /\
        \E c \in DOMAIN request.messages[m].content :
            LET block == request.messages[m].content[c]
            IN  block.kind = "text" /\ ToSet(block.tokens) \cap tokens # {}
Steps(n) == (n + Geometry.temporal - 1) \div Geometry.temporal

\* A request is refused exactly when one of its visuals cannot be read, a
\* video has timestamps for another number of time steps than its frames make,
\* its text itself holds a placeholder, or the model's split of the rotary
\* channels does not add up; JoyCaption, when there is not one
\* image or the system's text holds the placeholder.
RefusedOnlyWhenWrong ==
    LET readable == \A v \in DOMAIN Blocks :
                      Unreadable(Blocks[v]) => request.provider = "joycaption" /\ Blocks[v].kind = "video"
        fine == IF request.provider = "joycaption"
                THEN /\ Len(SelectSeq(Blocks, LAMBDA b : b.kind = "image")) = 1
                     /\ readable /\ ~Says({"system"}, {JoyImage})
                ELSE \/ Blocks = <<>>
                     \/ /\ readable
                        /\ \A v \in DOMAIN Blocks : Blocks[v].kind = "video" =>
                              Steps(Len(Blocks[v].timestamps)) = Steps(Len(Blocks[v].frames))
                        /\ ~Says({"system", "user", "assistant"}, {ImagePad, VideoPad})
                        /\ Model.section[1] + Model.section[2] + Model.section[3] = Model.half
    IN  /\ phase = "refused" => ~fine
        /\ phase \in {"decode", "done"} => fine

\* Whatever the draw (zero too), the ties, the mask and the window, a sampled
\* token is beaten by fewer than top_k of the tokens that are not in the window
\* twice, and by no more of their weight than the nucleus; a greedy one by none.
\* The mask forbids it only after a draw of zero without a nucleus, or when it
\* forbids every token (penalized_logits, nucleus_weights, the draw of sample).
SampledAsShaped ==
    draw # None =>
        Eligible(draw.some.logits, draw.some.history, request.shape.params, request.shape.mask,
                 draw.some.draw, draw.some.token)
=============================================================================
