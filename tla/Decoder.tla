------------------------------ MODULE Decoder ------------------------------
(***************************************************************************)
(* One forward pass of the two decoders: CausalLm (src/src/models/llama.rs)*)
(* with softmax attention in every layer, and Qwen35Model                  *)
(* (src/src/models/qwen35.rs), whose linear layers keep a recurrent state  *)
(* (src/src/primitives/gated_delta.rs).                                    *)
(*                                                                         *)
(* No number is computed.  A hidden row is [src, out]: its input embedding *)
(* and, for each layer it has been through, everything that went into what *)
(* the layer added to it.  Two rows that are equal here are computed from  *)
(* the same inputs by the same operations.                                 *)
(*                                                                         *)
(* A model is a record: mixer[i] is "gqa" or "mla" in CausalLm, "delta" or *)
(* "gated" in the hybrid; moe[i] says whether layer i routes to experts;   *)
(* half is the number of rotary channels, section their split over t, h, w;*)
(* kernel the width of the short convolution; fused the longest query the  *)
(* fused attention kernel serves (0: any); softcap forces the eager path;  *)
(* norm_topk divides an expert's weight by those of all that were chosen;  *)
(* shared_gate gates the shared expert.                                    *)
(***************************************************************************)
EXTENDS ModelConfig, SequencesExt

\* The same sequence; TLC then evaluates each element once.
Strict(seq) == seq \o <<>>

-----------------------------------------------------------------------------
(* Rotary positions: for each row, the position every channel turns by.    *)

\* Rope::cos_sin and cos_sin_at
CosSinAt(m, positions) == [s \in DOMAIN positions |-> [c \in 1 .. m.half |-> positions[s]]]
CosSin(m, len, offset) == CosSinAt(m, [s \in 1 .. len |-> offset + s - 1])

\* mrope_interleaved_cos_sin: which of t, h, w feeds a channel, and the table.
AxisOf(m, c) ==
    LET within(axis) == c - 1 < AtMost(3 * m.section[axis], m.half)
    IN  CASE (c - 1) % 3 = 1 /\ within(2) -> 2
          [] (c - 1) % 3 = 2 /\ within(3) -> 3
          [] OTHER -> 1
MropeInterleaved(m, rows) ==
    IF m.section[1] + m.section[2] + m.section[3] # m.half THEN None
    ELSE Some([s \in DOMAIN rows |-> [c \in 1 .. m.half |-> rows[s][AxisOf(m, c)]]])

-----------------------------------------------------------------------------
(* Attention: the keys, out of nk, that row r of nq queries sees.          *)

\* The fused kernel aligns the queries to the last keys; causal_mask does the
\* same for the eager path.
Causal(nq, nk, r) == 1 .. nk - nq + r

\* sdpa_chunked_prefill: every chunk of queries over the keys up to its end.
ChunkedCausal(m, nq, nk, r) ==
    LET first == ((r - 1) \div m.fused) * m.fused
        last  == AtMost(first + m.fused, nq)
    IN  Causal(last - first, nk - nq + last, r - first)

\* sdpa_capped: a soft cap, or values of another width than the keys, take the
\* eager path.
SdpaCapped(m, eager, queries, keys) ==
    LET nq == Len(queries)
        nk == Len(keys)
        Sees(r) == IF ~eager /\ m.fused # 0 /\ nq > m.fused
                   THEN ChunkedCausal(m, nq, nk, r) ELSE Causal(nq, nk, r)
    IN  [r \in 1 .. nq |-> [query |-> queries[r], over |-> [j \in Sees(r) |-> keys[j]]]]

\* apply_rope turns queries and keys, not values.  A key stands for its value
\* too: both are of one row.
Turned(h, at) == [r \in DOMAIN h |-> [row |-> h[r], at |-> at[r]]]

\* LlamaAttention::forward
GroupedAttention(m, h, at, held) ==
    LET keys == held \o Turned(h, at)
    IN  [cache |-> keys, out |-> SdpaCapped(m, m.softcap, Turned(h, at), keys)]

\* MlaAttention::forward.  Only the rotary part of a key turns, one for all
\* heads; the whole keys and values are cached, of different widths.
LatentAttention(m, h, at, held) ==
    LET keys == held \o Turned(h, at)
    IN  [cache |-> keys, out |-> SdpaCapped(m, TRUE, Turned(h, at), keys)]

\* Qwen35Attention::forward and AttnKv::update.  What a row attends to is gated
\* by the row itself.
GatedAttention(m, h, at, held) ==
    LET keys == held \o Turned(h, at)
        out  == SdpaCapped(m, FALSE, Turned(h, at), keys)
    IN  [cache |-> keys, out |-> [r \in DOMAIN h |-> [gate |-> h[r], gated |-> out[r]]]]

-----------------------------------------------------------------------------
(* The linear layers of the hybrid.                                        *)

ZeroRow == [src |-> <<>>, out |-> <<>>]
NewDelta(m) == [conv |-> [k \in 1 .. m.kernel - 1 |-> ZeroRow], ssm |-> <<>>, offset |-> 0]

\* causal_depthwise_conv: the window of each row, and the rows the next call
\* begins with, which CutConv takes from this call alone.
CutConv(m, h, state) ==
    [out   |-> [r \in DOMAIN h |-> SubSeq(state \o h, r, r + m.kernel - 1)],
     state |-> [k \in 1 .. m.kernel - 1 |->
                  IF Len(h) - m.kernel + 1 + k < 1 THEN ZeroRow
                  ELSE h[Len(h) - m.kernel + 1 + k]]]
CausalConv(m, h, state) ==
    LET cat == state \o h
    IN  [out   |-> [r \in DOMAIN h |-> SubSeq(cat, r, r + m.kernel - 1)],
         state |-> SubSeq(cat, Len(h) + 1, Len(h) + m.kernel - 1)]

\* gated_delta_recurrence: the state is what has been written to it, in order.
Recurrence(state, writes) == [t \in 1 .. Len(writes) |-> state \o SubSeq(writes, 1, t)]

\* GatedDeltaNet::forward and DeltaNetCache::update
DeltaNet(m, h, held) ==
    LET conv   == CausalConv(m, h, held.conv)
        writes == [t \in DOMAIN h |-> [window |-> conv.out[t], gate |-> h[t]]]
        states == Recurrence(held.ssm, writes)
    IN  [cache |-> [conv |-> conv.state, ssm |-> states[Len(states)],
                    offset |-> held.offset + Len(h)],
         out |-> [t \in DOMAIN h |-> [state |-> states[t]]]]

-----------------------------------------------------------------------------
(* Feed-forward.                                                           *)

\* The experts of a row, by the router's logits for it; how a tie is broken is
\* up to the unstable sort.
TopExperts(m, row) ==
    LET k == AtLeast(1, AtMost(m.per_tok, Len(m.router[row.src.id])))
        order == SortSeq([e \in DOMAIN m.router[row.src.id] |-> e],
                         LAMBDA a, b : m.router[row.src.id][a] > m.router[row.src.id][b])
    IN  ToSet(SubSeq(order, 1, k))

\* Each expert runs on the rows routed to it, and its outputs, weighted, are
\* added back at the rows they came from.  A weight is a probability, divided by
\* those of the experts in its third part.
RoutedExperts(m, h, norm_topk) ==
    LET routed == [e \in 1 .. m.experts |-> {t \in DOMAIN h : e \in TopExperts(m, h[t])}]
        Weighted(e, t) == <<e, h[t].src, IF norm_topk THEN TopExperts(m, h[t]) ELSE {}>>
    IN  [t \in DOMAIN h |-> {Weighted(e, t) : e \in {x \in 1 .. m.experts : t \in routed[x]}}]
\* The shared expert, which every row runs through.
Shared(row, gated) == <<0, row.src, IF gated THEN {0} ELSE {}>>

\* MoeMlp::forward
MoeMlp(m, h) ==
    LET routed == RoutedExperts(m, h, m.norm_topk)
    IN  Strict([t \in DOMAIN h |-> routed[t] \cup {Shared(h[t], m.shared_gate)}])

\* MoeFfn::forward: always renormalised, always gated.
MoeFfn(m, h) ==
    LET routed == RoutedExperts(m, h, TRUE)
    IN  Strict([t \in DOMAIN h |-> routed[t] \cup {Shared(h[t], TRUE)}])

Dense(h) == [t \in DOMAIN h |-> {<<0, h[t].src, {}>>}]

-----------------------------------------------------------------------------
(* The stack.                                                              *)

IsHybrid(m) == \E i \in DOMAIN m.mixer : m.mixer[i] \in {"delta", "gated"}

NewCache(m) ==
    Strict([i \in DOMAIN m.mixer |-> IF m.mixer[i] = "delta" THEN NewDelta(m) ELSE <<>>])

\* combine_ffn, and the end of DecoderLayer::forward: both residuals.
CombineFfn(h, mixed, ffn) ==
    Strict([r \in DOMAIN h |->
        [h[r] EXCEPT !.out = Append(@, [mix |-> mixed[r], ffn |-> ffn[r], visual |-> 0])]])

\* LlamaLayer::forward
LlamaLayer(m, i, h, at, held) ==
    LET attn == IF m.mixer[i] = "gqa" THEN GroupedAttention(m, h, at, held)
                ELSE LatentAttention(m, h, at, held)
    IN  [cache |-> attn.cache,
         h |-> CombineFfn(h, attn.out, IF m.moe[i] THEN MoeMlp(m, h) ELSE Dense(h))]

\* DecoderLayer::forward
DecoderLayer(m, i, h, at, held) ==
    LET mixed == IF m.mixer[i] = "delta" THEN DeltaNet(m, h, held)
                 ELSE GatedAttention(m, h, at, held)
    IN  [cache |-> mixed.cache,
         h |-> CombineFfn(h, mixed.out, IF m.moe[i] THEN MoeFfn(m, h) ELSE Dense(h))]

Layer(m, i, h, at, held) ==
    IF IsHybrid(m) THEN DecoderLayer(m, i, h, at, held) ELSE LlamaLayer(m, i, h, at, held)

\* add_visual_features: the marked rows take the next feature row of the tap.
AddVisualFeatures(h, mask) ==
    Strict([r \in DOMAIN h |->
        IF mask[r]
        THEN [h[r] EXCEPT !.out[Len(h[r].out)].visual = Cardinality({q \in 1 .. r : mask[q]})]
        ELSE h[r]])

Rows(embeds) == Strict([r \in DOMAIN embeds |-> [src |-> embeds[r], out |-> <<>>]])

\* deepstack_fused_decoder_layers: layer i takes tap i of the tower.  What has
\* been through the first i layers is through[i].
RunFusedStack(m, cache, embeds, at, mask, taps) ==
    LET through[i \in 0 .. Len(m.mixer)] ==
          IF i = 0 THEN [h |-> Rows(embeds), cache |-> cache]
          ELSE LET s == through[i - 1]
                   l == Layer(m, i, s.h, at, s.cache[i])
               IN  [h |-> IF i <= taps THEN AddVisualFeatures(l.h, mask) ELSE l.h,
                    cache |-> [s.cache EXCEPT ![i] = l.cache]]
    IN  through[Len(m.mixer)]

\* run_decoder_stack and hidden_from_embeds: the same layers, and no tap.
RunStack(m, cache, embeds, at) == RunFusedStack(m, cache, embeds, at, <<>>, 0)

\* forward_to_last_logits and project_last: the logits are those of the last row.
LastRow(run) == [logits |-> run.h[Len(run.h)], cache |-> run.cache]

Embed(ids) == [p \in DOMAIN ids |-> [feature |-> 0, id |-> ids[p]]]

\* decode_logits, and decode_logits_from_embeds of CausalLm
DecodeLogitsFromEmbeds(m, embeds, cache, offset) ==
    LastRow(RunStack(m, cache, embeds, CosSin(m, Len(embeds), offset)))
DecodeLogits(m, ids, cache, offset) == DecodeLogitsFromEmbeds(m, Embed(ids), cache, offset)

\* prefill_with_deepstack: each tap has as many rows as positions are marked.
PrefillWithDeepstack(m, embeds, rows, cache, mask, deepstack) ==
    LET at == MropeInterleaved(m, rows)
        marked == Cardinality({p \in DOMAIN mask : mask[p]})
    IN  IF \/ at = None \/ Len(mask) # Len(embeds)
           \/ \E tap \in DOMAIN deepstack : tap <= Len(m.mixer) /\ Len(deepstack[tap]) # marked
        THEN None
        ELSE Some(LastRow(RunFusedStack(m, cache, embeds, at.some, mask, Len(deepstack))))

-----------------------------------------------------------------------------
(* One batched step of several sequences (Throughput mode of continuous    *)
(* batching): row l of the batch is the next token of lane l.              *)

\* A step in which every lane attends over the first lane's cache.
ForwardOverFirst(m, h, at, caches, i) ==
    LET lanes == [l \in DOMAIN h |->
                    GroupedAttention(m, <<h[l]>>, <<at[l]>>, caches[1][i])]
        ffn   == IF m.moe[i] THEN MoeMlp(m, h) ELSE Dense(h)
    IN  [h |-> CombineFfn(h, [l \in DOMAIN h |-> lanes[l].out[1]], ffn),
         caches |-> Strict([l \in DOMAIN h |-> [caches[l] EXCEPT ![i] = lanes[l].cache]])]

\* Attention::forward_per_seq: projected together, then every lane over its own
\* cache, which takes its own row.
ForwardPerSeq(m, h, at, caches, i) ==
    LET lanes == [l \in DOMAIN h |->
                    GroupedAttention(m, <<h[l]>>, <<at[l]>>, caches[l][i])]
        ffn   == IF m.moe[i] THEN MoeMlp(m, h) ELSE Dense(h)
    IN  [h |-> CombineFfn(h, [l \in DOMAIN h |-> lanes[l].out[1]], ffn),
         caches |-> Strict([l \in DOMAIN h |-> [caches[l] EXCEPT ![i] = lanes[l].cache]])]

\* decode_logits_per_seq: each lane's row and caches, or None: the hybrid has no
\* such step, and latent attention refuses it.
DecodeLogitsPerSeq(m, ids, caches, positions) ==
    IF Len(caches) # Len(ids) \/ Len(positions) # Len(ids)
       \/ \E i \in DOMAIN m.mixer : m.mixer[i] # "gqa"
    THEN None
    ELSE LET through[i \in 0 .. Len(m.mixer)] ==
               IF i = 0 THEN [h |-> Rows(Embed(ids)), caches |-> caches]
               ELSE ForwardPerSeq(m, through[i - 1].h, CosSinAt(m, positions),
                                  through[i - 1].caches, i)
         IN  Some(through[Len(m.mixer)])
=============================================================================
