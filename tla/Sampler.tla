------------------------------ MODULE Sampler ------------------------------
(***************************************************************************)
(* The token sampler (src/src/primitives/sampler.rs).                      *)
(*                                                                         *)
(* Logits are integers, token i at index i + 1, and exp is a power of two; *)
(* top_p and the draw are fractions <<n, d>>.  Arithmetic is exact: where  *)
(* f32 rounds, the draw may end one candidate off.                         *)
(***************************************************************************)
EXTENDS Integers, SequencesExt

LOCAL FS == INSTANCE FiniteSetsExt

\* The logit of a token that is forbidden: minus infinity.
Forbidden == -1000000

\* One turn of the repetition penalty.
Penalize(x, penalty) ==
    IF x = Forbidden THEN x ELSE IF x < 0 THEN x * penalty ELSE x \div penalty

\* penalized_logits: the mask (<<>> for none; what it is too short for is
\* forbidden), then the penalty, once for every occurrence in the window.
PenalizedLogits(logits, history, params, mask) ==
    LET masked == [i \in DOMAIN logits |->
                     IF mask = <<>> \/ (i <= Len(mask) /\ mask[i]) THEN logits[i] ELSE Forbidden]
        start  == IF Len(history) > params.repetition_context
                  THEN Len(history) - params.repetition_context ELSE 0
        recent == SubSeq(history, start + 1, Len(history))
    IN  IF params.repetition_penalty = 1 \/ params.repetition_context = 0 THEN masked
        ELSE FoldLeft(LAMBDA v, token :
                        IF token + 1 \in DOMAIN v
                        THEN [v EXCEPT ![token + 1] = Penalize(@, params.repetition_penalty)] ELSE v,
                      masked, recent)

\* argmax_host: the first maximum, token 0 when everything is forbidden.
ArgmaxHost(v) ==
    LET best == FS!Max({v[i] : i \in DOMAIN v})
    IN  IF best = Forbidden THEN 0 ELSE (CHOOSE i \in DOMAIN v : v[i] = best /\ \A j \in 1 .. i - 1 : v[j] < best) - 1

\* weight_desc_index_asc, and the order the heap of nucleus_select pops in.
Ahead(a, b) == a[2] > b[2] \/ (a[2] = b[2] /\ a[1] < b[1])

Weigh(candidates) == FoldSeq(LAMBDA c, sum : c[2] + sum, 0, candidates)

\* nucleus_select: candidates in order of weight until they reach top_p of the
\* total, always at least one; NucleusPast goes on when they reach it exactly.
NucleusPast(weights, top_p) ==
    LET order  == SortSeq(weights, Ahead)
        enough == {n \in DOMAIN order :
                     Weigh(SubSeq(order, 1, n)) * top_p[2] > top_p[1] * Weigh(weights)}
    IN  SubSeq(order, 1, IF enough = {} THEN Len(order) ELSE FS!Min(enough))
NucleusSelect(weights, top_p) ==
    LET order  == SortSeq(weights, Ahead)
        enough == {n \in DOMAIN order :
                     Weigh(SubSeq(order, 1, n)) * top_p[2] >= top_p[1] * Weigh(weights)}
    IN  SubSeq(order, 1, IF enough = {} THEN Len(order) ELSE FS!Min(enough))

\* nucleus_weights: the candidates <<token, weight>>.  The partial selection of
\* the top_k leaves their order open, so the result is a set of sequences.
NucleusWeights(v, params) ==
    LET finite  == {i \in DOMAIN v : v[i] # Forbidden}
        low     == FS!Min({v[i] : i \in finite})
        weights == [i \in DOMAIN v |->
                      <<i - 1, IF i \in finite THEN 2 ^ ((v[i] - low) * params.inv_t) ELSE 0>>]
        cut     == params.top_k > 0 /\ params.top_k < Len(weights)
        kept    == IF cut THEN SetToSeqs(ToSet(SubSeq(SortSeq(weights, Ahead), 1, params.top_k)))
                   ELSE {weights}
    IN  IF finite = {} THEN {<<>>}
        ELSE IF params.top_p[1] < params.top_p[2]
        THEN {NucleusSelect(candidates, params.top_p) : candidates \in kept}
        ELSE kept

\* The inverse-CDF draw: the first candidate whose cumulative weight reaches
\* the share of the total that was drawn.
Draw(candidates, draw) ==
    LET reached == {n \in DOMAIN candidates :
                      Weigh(SubSeq(candidates, 1, n)) * draw[2] >= draw[1] * Weigh(candidates)}
    IN  candidates[FS!Min(reached)][1]

\* sample: the tokens it may return.  A temperature of zero is inv_t = 0.
Sample(logits, history, params, draw, mask) ==
    LET v == PenalizedLogits(logits, history, params, mask)
    IN  IF params.inv_t = 0 THEN {ArgmaxHost(v)}
        ELSE {IF Weigh(candidates) = 0 THEN ArgmaxHost(v) ELSE Draw(candidates, draw)
                : candidates \in NucleusWeights(v, params)}

\* shaped_candidates, what speculative decoding accepts and rejects against.
ShapedCandidates(logits, history, params, mask) ==
    NucleusWeights(PenalizedLogits(logits, history, params, mask), params)

-----------------------------------------------------------------------------
(* What a sampled token must be, without the procedure.                    *)

Repeats(history, window, token) ==
    Cardinality({i \in DOMAIN history : i > Len(history) - window /\ history[i] = token})

\* What the comments say of a token: allowed by the mask, one of the top_k and
\* inside the nucleus, by logits that are penalised once for each token of the
\* window (the CTRL formulation, sampler.rs:72 and 178).  Two things the code
\* does otherwise.  It penalises a token again for each time it is there, so one
\* that is there twice (Again) may give way to a token it is ahead of, and never
\* wins for it.  And a draw of zero takes the first candidate, in a nucleus the
\* best; without a nucleus it may be one the mask forbids (103-104 say never).
Eligible(logits, history, params, mask, draw, token) ==
    LET allowed == {i \in DOMAIN logits : mask = <<>> \/ (i <= Len(mask) /\ mask[i])}
        times(i) == IF params.repetition_penalty = 1 THEN 0
                    ELSE Repeats(history, params.repetition_context, i - 1)
        Again == {i \in DOMAIN logits : times(i) > 1}
        value(i) == IF i \notin allowed THEN Forbidden
                    ELSE IF times(i) = 0 THEN logits[i]
                    ELSE IF logits[i] < 0 THEN logits[i] * params.repetition_penalty
                    ELSE logits[i] \div params.repetition_penalty
        better(i) == {j \in DOMAIN logits : value(j) > value(i) \/ (value(j) = value(i) /\ j < i)}
        rivals(i) == better(i) \ Again
        In(ahead, k) == k = 0 \/ Cardinality(ahead) < k
        top == {i \in allowed : In(better(i), params.top_k)}
        low == FS!Min({value(j) : j \in allowed})
        weight(S) == FS!MapThenSumSet(LAMBDA i : 2 ^ ((value(i) - low) * params.inv_t), S)
        nucleus == params.inv_t # 0 /\ params.top_p[1] < params.top_p[2]
        best == params.inv_t = 0 \/ (nucleus /\ draw[1] = 0)
        first == ~best /\ ~nucleus /\ draw[1] = 0
        ahead == rivals(token + 1)
    IN  IF allowed = {} THEN token = 0
        ELSE /\ token + 1 \in allowed \/ first
             /\ In(ahead, params.top_k)
             /\ best => ahead = {}
             /\ nucleus => ahead = {} \/ weight(ahead) * params.top_p[2] < params.top_p[1] * weight(top)
=============================================================================
