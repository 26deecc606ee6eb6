---------------------------- MODULE GgufConvert ----------------------------
(***************************************************************************)
(* A GGUF file turned into what a snapshot holds: the tensors under the    *)
(* keys the engine loads, config.json rebuilt from the metadata, and the   *)
(* tokenizer files (src/src/gguf/convert.rs, src/src/gguf/tokenizer.rs).   *)
(*                                                                         *)
(* g is a parsed file.  The "llama." or "qwen3." in front of a metadata key*)
(* is left out.  A tensor's name is <<layer, name>>, with layer -1 outside *)
(* the blocks.                                                             *)
(***************************************************************************)
EXTENDS Loading, GgufReader

CONSTANT SplitsOf    \* each token's splits into two strings

\* remap_key: the names the engine has a key for.
GlobalNames ==
    [token_embd  |-> Key(<<"", "model">>, "embed_tokens", "weight"),
     output_norm |-> Key(<<"", "model">>, "norm", "weight"),
     output      |-> Key(<<"", "">>, "lm_head", "weight")]
BlockNames ==
    [attn_q |-> "self_attn.q_proj", attn_k |-> "self_attn.k_proj",
     attn_v |-> "self_attn.v_proj", attn_output |-> "self_attn.o_proj",
     attn_norm |-> "input_layernorm", ffn_norm |-> "post_attention_layernorm",
     ffn_gate |-> "mlp.gate_proj", ffn_up |-> "mlp.up_proj", ffn_down |-> "mlp.down_proj",
     attn_q_norm |-> "self_attn.q_norm", attn_k_norm |-> "self_attn.k_norm"]

Mapped(name) ==
    IF name[1] = -1 THEN name[2] \in DOMAIN GlobalNames ELSE name[2] \in DOMAIN BlockNames
RemapKey(name) ==
    IF name[1] = -1 THEN GlobalNames[name[2]]
    ELSE LayerKey(<<"", "model">>, name[1], BlockNames[name[2]])

\* is_ignorable: the precomputed frequencies are dropped.
IsIgnorable(name) == name[2] = "rope_freqs"

\* permute_inverse_qk: which row each row comes from.  A tensor whose rows were
\* moved carries the source of each; one whose rows are all where they belong
\* carries nothing.
InverseRow(head_dim, r) ==
    LET half == head_dim \div 2
    IN  (r - (r % head_dim)) + 2 * (r % half) + ((r % head_dim) \div half)
RowsFrom(t, source) ==
    LET rows == DOMAIN source
        moved == t[3] # <<>> /\ t[3][Len(t[3])][1] = "rows from"
        total == IF moved THEN [r \in rows |-> t[3][Len(t[3])][2][source[r]]] ELSE source
        rest == [t EXCEPT ![3] = IF moved THEN SubSeq(@, 1, Len(@) - 1) ELSE @]
    IN  IF total = [r \in rows |-> r] THEN rest ELSE Done(rest, "rows from", total)
PermuteInverse(t, out, heads) ==
    IF heads = 0 \/ out % heads # 0 \/ (out \div heads) % 2 # 0 THEN None
    ELSE Some(RowsFrom(t, [r \in 0 .. out - 1 |-> InverseRow(out \div heads, r)]))

Heads(g) == Meta(g, "attention.head_count", "u64")
KvHeads(g) == OrElse(Meta(g, "attention.head_count_kv", "u64"), Heads(g).some)

\* A converter that undoes the permutation of k as if it had the heads of q.
PlacedByQueryHeads(g, info, t) ==
    IF Meta(g, "general.architecture", "str") = Some("llama")
       /\ info.name[2] \in {"attn_q", "attn_k"}
    THEN PermuteInverse(t, info.shape[1], Heads(g).some)
    ELSE Some(t)

\* The rows of q and of k where they belong: it is llama.cpp's converter for the
\* Llama family that moves them.
Placed(g, info, t) ==
    IF Meta(g, "general.architecture", "str") = Some("llama")
       /\ info.name[2] \in {"attn_q", "attn_k"}
    THEN PermuteInverse(t, info.shape[1],
                        IF info.name[2] = "attn_q" THEN Heads(g).some ELSE KvHeads(g))
    ELSE Some(t)

\* A tensor of the file, or None for an error.
DequantizedFrom(g, info, start) ==
    IF start = None THEN None ELSE Placed(g, info, Dequantize(g, info, start.some))
Dequantized(g, info) == DequantizedFrom(g, info, TensorData(g, info))

-----------------------------------------------------------------------------
(* config.json.                                                            *)

\* reconstruct_rope_scaling: only the llama3 schedule is known.
RopeScaling(g) ==
    IF \/ Meta(g, "rope.scaling.type", "str") = Some("llama3")
       \/ \E factor \in {"rope.scaling.low_freq_factor", "rope.scaling.high_freq_factor"} :
            IsSome(Meta(g, factor, "f64"))
    THEN [rope_scaling |-> [rope_type |-> "llama3"]] ELSE <<>>

RequiredMeta == {"attention.head_count", "embedding_length", "block_count",
                 "feed_forward_length"}

\* reconstruct_config: the vocabulary is as long as the embeddings have rows,
\* and the head is tied when the file has none.
ReconstructConfig(g, shape) ==
    LET u64(key) == Meta(g, key, "u64")
        arch  == Meta(g, "general.architecture", "str").some
        eos   == u64("tokenizer.ggml.eos_token_id")
    IN  [architecture |-> arch, model_type |-> arch,
         hidden_size |-> u64("embedding_length").some,
         intermediate_size |-> u64("feed_forward_length").some,
         num_hidden_layers |-> u64("block_count").some,
         num_attention_heads |-> Heads(g).some, num_key_value_heads |-> KvHeads(g),
         head_dim |-> OrElse(u64("attention.key_length"),
                             u64("embedding_length").some \div Heads(g).some),
         vocab_size |-> shape[GlobalNames.token_embd][1],
         tie_word_embeddings |-> GlobalNames.output \notin DOMAIN shape]
        @@ RopeScaling(g)
        @@ IF IsSome(eos) THEN [eos_token_id |-> <<eos.some>>] ELSE <<>>

-----------------------------------------------------------------------------
(* The tokenizer.                                                          *)

\* build_vocab: a token that occurs twice would lose an id.
OneToOne(tokens) == \A i, j \in DOMAIN tokens : tokens[i] = tokens[j] => i = j

\* build_added_tokens: control, unknown and user-defined tokens (types 3, 2, 4)
\* are matched ahead of the merges; the first two are special.
AddedTokens(tokens, token_types) ==
    LET types == OrElse(token_types, <<>>)
    IN  {[content |-> tokens[id], special |-> types[id] # 4] :
           id \in {n \in DOMAIN types \cap DOMAIN tokens : types[n] \in 2 .. 4}}

\* bpe_components: the family a pre-tokenizer name stands for.
BpeFamily(pre) ==
    CASE pre = "qwen2" -> "qwen2"
      [] pre \in {"llama-bpe", "llama3", "llama-v3"} -> "llama3"
      [] pre = "smollm" -> "smollm"
      [] OTHER -> "gpt2"

\* derive_merges_from_scores: every split of a token into two tokens, the split
\* of the better token first, those of one token by the ids of its halves.
DerivedMerges(tokens, scores) ==
    LET Id(token) == CHOOSE i \in DOMAIN tokens : tokens[i] = token
        Score(id) == IF id \in DOMAIN scores THEN scores[id] ELSE 0
        Splits(id) == {pair \in SplitsOf[tokens[id]] :
                         {pair[1], pair[2]} \subseteq {tokens[i] : i \in DOMAIN tokens}}
        Before(m, n) ==    \* m, n are <<id, pair>>
            \/ Score(m[1]) > Score(n[1])
            \/ /\ Score(m[1]) = Score(n[1])
               /\ \/ m[1] < n[1]
                  \/ m[1] = n[1] /\ Id(m[2][1]) < Id(n[2][1])
                  \/ /\ m[1] = n[1] /\ m[2][1] = n[2][1]
                     /\ Id(m[2][2]) < Id(n[2][2])
        all == UNION {{<<id, pair>> : pair \in Splits(id)} : id \in DOMAIN tokens}
    IN  [r \in 1 .. Cardinality(all) |->
            (CHOOSE m \in all : Cardinality({n \in all : Before(n, m)}) = r - 1)[2]]

\* build_tokenizer_config
TokenizerConfig(g) ==
    LET template == Meta(g, "tokenizer.chat_template", "str")
    IN  IF IsSome(template) THEN [chat_template |-> template.some] ELSE <<>>

\* reconstruct, reconstruct_byte_level_bpe and reconstruct_spm: the two tokenizer
\* files, or None when they cannot be rebuilt (no tokenizer metadata, or of a
\* kind that needs more).  A token or a merge stands for its string.
ReconstructFrom(g, model, tokens, merges, scores) ==
    LET bytes == model \in {Some("gpt2"), Some("bpe")}
        spm   == model \in {Some("llama"), Some("spm")}
    IN  IF \/ ~(bytes \/ spm) \/ tokens = None
           \/ ~OneToOne(tokens.some)
           \/ merges = None /\ (bytes \/ scores = None)
        THEN None
        ELSE Some([tokenizer_json |->
                     [vocab |-> tokens.some,
                      merges |-> IF IsSome(merges) THEN merges.some
                                 ELSE DerivedMerges(tokens.some, scores.some),
                      added |-> AddedTokens(tokens.some,
                                            MetaArray(g, "tokenizer.ggml.token_type", "i64")),
                      byte_fallback |-> spm,
                      components |->
                        IF bytes THEN BpeFamily(OrElse(Meta(g, "tokenizer.ggml.pre", "str"), "default"))
                        ELSE "spm",
                      space_prefix |->
                        spm /\ OrElse(Meta(g, "tokenizer.ggml.add_space_prefix", "bool"), TRUE)],
                   tokenizer_config_json |-> TokenizerConfig(g)])
Reconstruct(g) ==
    ReconstructFrom(g, Meta(g, "tokenizer.ggml.model", "str"),
                    MetaArray(g, "tokenizer.ggml.tokens", "str"),
                    MetaArray(g, "tokenizer.ggml.merges", "str"),
                    MetaArray(g, "tokenizer.ggml.scores", "f64"))

-----------------------------------------------------------------------------
\* convert: what is handed to the snapshot writer, or None for an error.  Two
\* tensors of one name leave the later one.
Convert(g) ==
    LET mapped == {i \in DOMAIN g.tensors : Mapped(g.tensors[i].name)}
        keyed  == [i \in mapped |-> RemapKey(g.tensors[i].name)]
        last(key) == CHOOSE i \in mapped : keyed[i] = key /\ \A j \in mapped : keyed[j] = key => j <= i
        shape  == [key \in {keyed[i] : i \in mapped} |-> g.tensors[last(key)].shape]
    IN  IF \/ Meta(g, "general.architecture", "str") \notin {Some("llama"), Some("qwen3")}
           \/ \E key \in RequiredMeta : Meta(g, key, "u64") = None
           \/ \E i \in DOMAIN g.tensors \ mapped : ~IsIgnorable(g.tensors[i].name)
           \/ \E i \in mapped : Dequantized(g, g.tensors[i]) = None
           \/ GlobalNames.token_embd \notin DOMAIN shape
        THEN None
        ELSE Some([tensors |-> [key \in DOMAIN shape |-> Dequantized(g, g.tensors[last(key)]).some],
                   config |-> ReconstructConfig(g, shape),
                   tokenizer |-> Reconstruct(g)])
=============================================================================
