---------------------------- MODULE MCSnapshot ----------------------------
(***************************************************************************)
(* Prepare on one- and two-layer checkpoints of each family: what their    *)
(* Hugging Face directories and GGUF files hold.                           *)
(***************************************************************************)
EXTENDS Snapshot

Root == <<"", "model">>
VlRoot == <<"", "model.language_model">>
Head0 == Key(<<"", "">>, "lm_head", "weight")

Weights(root, i, modules) == {LayerKey(root, i, m) : m \in modules}
Biases(root, i, modules) == {Sibling(LayerKey(root, i, m), "bias") : m \in modules}
Outer(root) == {Key(root, "embed_tokens", "weight"), Key(root, "norm", "weight")}

Qkv == {"self_attn.q_proj", "self_attn.k_proj", "self_attn.v_proj"}
Gqa == Qkv \cup {"self_attn.o_proj"}
QkNorms == {"self_attn.q_norm", "self_attn.k_norm"}
Mlp == {"mlp.gate_proj", "mlp.up_proj", "mlp.down_proj"}
Norms == {"input_layernorm", "post_attention_layernorm"}
MlaParts == {"self_attn.q_proj", "self_attn.kv_a_proj_with_mqa", "self_attn.kv_a_layernorm",
        "self_attn.kv_b_proj", "self_attn.o_proj"}
Bank(i, shared) ==
    Weights(Root, i, {"mlp.gate"} \cup {MlpModules(shared)[n] : n \in 1 .. 3})
    \cup {ExpertKey(Root, i, e, MlpModules("experts")[n]) : e \in 0 .. 1, n \in 1 .. 3}
Visual == {LayerKey(VisualRoot, 0, m) :
             m \in {"blocks.attn.qkv", "blocks.attn.proj", "blocks.mlp.linear_fc1",
                    "blocks.mlp.linear_fc2"}}
          \cup {<<VisualRoot, 0, -1, m, p>> :
                  m \in {"blocks.norm1", "blocks.norm2"}, p \in {"weight", "bias"}}
          \cup {<<VisualRoot, -1, -1, m, "weight">> :
                  m \in {"merger.norm", "merger.linear_fc1", "merger.linear_fc2"}}
          \cup {<<VisualRoot, -1, -1, "merger.norm", "bias">>, PatchEmbedKey,
                Key(VisualRoot, "pos_embed", "weight")}

Keys ==
    [llama  |-> Outer(Root) \cup Weights(Root, 0, Gqa \cup Mlp \cup Norms),
     qwen2  |-> Outer(Root) \cup {Head0} \cup Weights(Root, 0, Gqa \cup Mlp \cup Norms)
                \cup Biases(Root, 0, Qkv),
     qwen3  |-> Outer(Root) \cup {Head0}
                \cup Weights(Root, 0, Gqa \cup QkNorms \cup Mlp \cup Norms),
     phi3   |-> Outer(Root) \cup {Head0}
                \cup Weights(Root, 0, {"self_attn.qkv_proj", "self_attn.o_proj",
                                       "mlp.gate_up_proj", "mlp.down_proj"} \cup Norms),
     glm4   |-> Outer(Root) \cup {Head0} \cup Biases(Root, 0, Qkv)
                \cup Weights(Root, 0, Gqa \cup Norms \cup
                       {"mlp.gate_up_proj", "mlp.down_proj",
                        "post_self_attn_layernorm", "post_mlp_layernorm"}),
     gemma2 |-> Outer(Root)
                \cup Weights(Root, 0, Gqa \cup Mlp \cup Norms \cup
                       {"pre_feedforward_layernorm", "post_feedforward_layernorm"}),
     deepseek |-> Outer(Root) \cup {Head0} \cup Weights(Root, 0, MlaParts \cup Mlp \cup Norms)
                  \cup Weights(Root, 1, MlaParts \cup Norms) \cup Bank(1, "shared_experts"),
     qwen2_moe |-> Outer(Root) \cup {Head0} \cup Weights(Root, 0, Gqa \cup Norms)
                   \cup Biases(Root, 0, Qkv) \cup Bank(0, "shared_expert")
                   \cup Weights(Root, 0, {"mlp.shared_expert_gate"}),
     qwen3_vl |-> Outer(VlRoot) \cup {Head0} \cup Visual
                  \cup Weights(VlRoot, 0, Gqa \cup QkNorms \cup Mlp \cup Norms),
     qwen3_5 |-> Outer(VlRoot) \cup {Head0}
                 \cup Weights(VlRoot, 0, Mlp \cup Norms \cup
                        {"linear_attn.in_proj_qkv", "linear_attn.in_proj_z",
                         "linear_attn.in_proj_a", "linear_attn.in_proj_b",
                         "linear_attn.conv1d", "linear_attn.norm", "linear_attn.out_proj"})
                 \cup {<<VlRoot, 0, -1, "linear_attn.A_log", "">>,
                       <<VlRoot, 0, -1, "linear_attn.dt_bias", "">>}
                 \cup Weights(VlRoot, 1, Gqa \cup QkNorms \cup Mlp \cup Norms)]

Text(name, layers) ==
    [model_type |-> name, hidden_size |-> 256, num_attention_heads |-> 2, head_dim |-> 128,
     num_key_value_heads |-> 1, num_hidden_layers |-> layers, intermediate_size |-> 256,
     vocab_size |-> 6, eos_token_id |-> <<5>>]
Tied == [tie_word_embeddings |-> TRUE]
Linear == [linear_num_value_heads |-> 2, linear_num_key_heads |-> 1,
           linear_key_head_dim |-> 2, linear_value_head_dim |-> 2,
           full_attention_interval |-> 2]
Vision == [depth |-> 1, hidden_size |-> 4, num_heads |-> 1, intermediate_size |-> 4,
           out_hidden_size |-> 256, num_position_embeddings |-> 4]

Config ==
    [llama |-> Text("llama", 1) @@ Tied @@ [rope_scaling |-> [rope_type |-> "llama3"]],
     qwen2 |-> Text("qwen2", 1), qwen3 |-> Text("qwen3", 1), phi3 |-> Text("phi3", 1),
     glm4 |-> Text("glm4", 1) @@ [partial_rotary_factor |-> <<1, 2>>],
     gemma2 |-> Text("gemma2", 1),
     deepseek |-> Text("deepseek_v2", 2)
        @@ [kv_lora_rank |-> 2, qk_nope_head_dim |-> 2, qk_rope_head_dim |-> 2,
            n_routed_experts |-> 2, n_shared_experts |-> 1, num_experts_per_tok |-> 1,
            moe_intermediate_size |-> 4, first_k_dense_replace |-> 1],
     qwen2_moe |-> Text("qwen2_moe", 1)
        @@ [num_experts |-> 2, num_experts_per_tok |-> 1, moe_intermediate_size |-> 4,
            shared_expert_intermediate_size |-> 4],
     qwen3_vl |-> [model_type |-> "qwen3_vl", text_config |-> Text("qwen3_vl_text", 1),
                   vision_config |-> Vision],
     qwen3_5 |-> [model_type |-> "qwen3_5", text_config |-> Text("qwen3_5_text", 2) @@ Linear]]

\* A token, or the two halves it splits into.
Tokens == <<"a", "b", "ab", "ba", "aba", "eos">>
Halves == [a |-> {}, b |-> {}, ab |-> {<<"a", "b">>}, ba |-> {<<"b", "a">>},
           aba |-> {<<"a", "ba">>, <<"ab", "a">>}, eos |-> {}]
Merges == <<<<"a", "b">>, <<"b", "a">>, <<"a", "ba">>, <<"ab", "a">>>>
Special == {[content |-> "eos", special |-> TRUE]}
Spm == [vocab |-> Tokens, merges |-> Merges, added |-> Special, byte_fallback |-> TRUE,
        components |-> "spm", space_prefix |-> TRUE]
Bpe == [Spm EXCEPT !.byte_fallback = FALSE, !.components = "qwen2", !.space_prefix = FALSE]
TokenizerOf(name) == IF name \in {"llama", "gemma2"} THEN Spm ELSE Bpe

Checkpoint(name, keys) == [key \in keys |-> <<name, key, <<>>>>]
HfDirectory(name) ==
    [f \in {"config.json", "tokenizer.json", "tokenizer_config.json"} |->
        Some(CASE f = "config.json" -> Config[name]
               [] f = "tokenizer.json" -> TokenizerOf(name)
               [] OTHER -> [chat_template |-> name])]
    @@ IF name = "glm4"        \* one that comes in two shards
       THEN ("model-00001-of-00002.safetensors"
               :> Some(Checkpoint(name, {k \in Keys[name] : k[2] = -1}))
             @@ "model-00002-of-00002.safetensors"
               :> Some(Checkpoint(name, {k \in Keys[name] : k[2] # -1})))
       ELSE "model.safetensors" :> Some(Checkpoint(name, Keys[name]))

\* The GGUF files made of two of them: what llama.cpp's converter writes, the
\* rows of a head's two halves in turn for the Llama family.
GgmlName(key) ==
    IF key[2] = -1 THEN <<-1, CHOOSE n \in DOMAIN GlobalNames : GlobalNames[n] = key>>
    ELSE <<key[2], CHOOSE n \in DOMAIN BlockNames : BlockNames[n] = key[4]>>
Interleaved(t, out, heads) ==
    LET hd == out \div heads
    IN  RowsFrom(t, [r \in 0 .. out - 1 |->
                       (r - (r % hd)) + (r % 2) * (hd \div 2) + ((r % hd) \div 2)])
Tensor(name, ggml) ==
    LET Moved(t) == CASE name = "llama" /\ ggml[2] = "attn_q" -> Interleaved(t, 256, 2)
                      [] name = "llama" /\ ggml[2] = "attn_k" -> Interleaved(t, 128, 1)
                      [] OTHER -> t
    IN  IF ggml = <<-1, "rope_freqs">> THEN <<name, ggml, <<>>>>
        ELSE Moved(<<name, CHOOSE key \in Keys[name] : GgmlName(key) = ggml, <<>>>>)
\* The dimensions of a tensor, the fastest first.
Ne(ggml) == CASE ggml[2] \in {"token_embd", "output"} -> <<256, 6>>
              [] ggml[2] \in {"attn_norm", "ffn_norm", "output_norm"} -> <<256>>
              [] ggml[2] \in {"attn_q_norm", "attn_k_norm"} -> <<128>>
              [] ggml[2] = "rope_freqs" -> <<64>>
              [] ggml[2] \in {"attn_k", "attn_v"} -> <<256, 128>>
              [] OTHER -> <<256, 256>>
Tag(type) == CHOOSE tag \in DOMAIN FromTag : FromTag[tag] = type

\* Names and types of the tensors of a file, in order.
LlamaTensors ==
    <<<<<<-1, "rope_freqs">>, "F32">>, <<<<-1, "token_embd">>, "Q6K">>,
      <<<<0, "attn_norm">>, "F32">>, <<<<0, "attn_q">>, "Q4K">>, <<<<0, "attn_k">>, "Q5K">>,
      <<<<0, "attn_v">>, "Q3K">>, <<<<0, "attn_output">>, "Q2K">>, <<<<0, "ffn_norm">>, "F32">>,
      <<<<0, "ffn_gate">>, "Q4_0">>, <<<<0, "ffn_up">>, "Q4_1">>, <<<<0, "ffn_down">>, "Q5_0">>,
      <<<<-1, "output_norm">>, "F32">>>>
Qwen3Tensors(head, q, k, v, o, gate, up, down) ==
    <<<<<<-1, "output">>, head>>, <<<<-1, "output_norm">>, "BF16">>,
      <<<<-1, "token_embd">>, "Q8_0">>, <<<<0, "attn_k">>, k>>, <<<<0, "attn_k_norm">>, "F32">>,
      <<<<0, "attn_norm">>, "F32">>, <<<<0, "attn_output">>, o>>, <<<<0, "attn_q">>, q>>,
      <<<<0, "attn_q_norm">>, "F32">>, <<<<0, "attn_v">>, v>>, <<<<0, "ffn_down">>, down>>,
      <<<<0, "ffn_gate">>, gate>>, <<<<0, "ffn_norm">>, "F32">>, <<<<0, "ffn_up">>, up>>>>

\* Metadata values.
U32(n) == [tag |-> 4, v |-> n]
Str(s) == [tag |-> 8, v |-> s, len |-> 5]
Arr(elem, items) == [tag |-> 9, elem |-> elem, v |-> items]
Strs(items) == Arr(8, [i \in DOMAIN items |-> Str(items[i])])
Metadata(name, tokenizer) ==
    <<<<"general.architecture", Str(name)>>, <<"attention.head_count", U32(2)>>,
      <<"attention.head_count_kv", U32(1)>>, <<"attention.key_length", U32(128)>>,
      <<"embedding_length", U32(256)>>, <<"block_count", U32(1)>>,
      <<"feed_forward_length", U32(256)>>, <<"tokenizer.ggml.tokens", Strs(Tokens)>>,
      <<"tokenizer.ggml.token_type", Arr(5, [i \in 1 .. 6 |-> [tag |-> 5, v |-> IF i = 6 THEN 3 ELSE 1]])>>,
      <<"tokenizer.ggml.eos_token_id", U32(5)>>, <<"tokenizer.chat_template", Str(name)>>>>
    \o tokenizer

\* A file of these tensors, each at the next multiple of the alignment.
Bytes(t) == TensorByteLen(Tag(t[2]), NumElements(Ne(t[1]))).some
Offsets(tensors, alignment) ==
    FoldLeft(LAMBDA at, t : Append(at, RoundUp(at[Len(at)] + Bytes(t), alignment)), <<0>>, tensors)
Entries(metadata) ==
    [i \in DOMAIN metadata |-> [key |-> metadata[i][1], len |-> 20, value |-> metadata[i][2]]]
Infos(tensors, offset) ==
    [i \in DOMAIN tensors |->
        [name |-> tensors[i][1], len |-> 18, ne |-> Ne(tensors[i][1]),
         ggml_type |-> Tag(tensors[i][2]), offset |-> offset[i]]]
HeaderBytes(kv, infos) ==
    24 + FoldLeft(LAMBDA n, e : n + EntryBytes(e), 0, kv)
       + FoldLeft(LAMBDA n, e : n + InfoBytes(e), 0, infos)
Blob(name, info) ==
    [stored |-> [type |-> info.ggml_type, elements |-> NumElements(info.ne)],
     tensor |-> Tensor(name, info.name)]
Assembled(name, tensors, kv, infos, start) ==
    [magic |-> Magic, version |-> 3, kv |-> kv, infos |-> infos,
     size |-> start + infos[Len(infos)].offset + Bytes(tensors[Len(tensors)]),
     blobs |-> [at \in {start + info.offset : info \in ToSet(infos)} |->
                  Blob(name, CHOOSE info \in ToSet(infos) : start + info.offset = at)]]
FileOf(name, tensors, kv, infos, alignment) ==
    Assembled(name, tensors, kv, infos, RoundUp(HeaderBytes(kv, infos), alignment))
File(name, tensors, metadata, alignment) ==
    FileOf(name, tensors, Entries(metadata), Infos(tensors, Offsets(tensors, alignment)),
           alignment)

LlamaFile ==
    File("llama", LlamaTensors,
         Metadata("llama", <<<<"tokenizer.ggml.model", Str("llama")>>,
                             <<"tokenizer.ggml.scores",
                               Arr(6, [i \in 1 .. 6 |-> [tag |-> 6, v |-> 10 - i]])>>,
                             <<"rope.scaling.type", Str("llama3")>>>>), 32)
Qwen3File ==
    File("qwen3", Qwen3Tensors("F16", "Iq2Xxs", "Iq2Xs", "Iq2S", "Iq3Xxs", "Iq3S", "Iq1S", "Iq1M"),
         Metadata("qwen3", <<<<"general.alignment", U32(64)>>,
                             <<"tokenizer.ggml.model", Str("gpt2")>>,
                             <<"tokenizer.ggml.merges", Strs(Merges)>>,
                             <<"tokenizer.ggml.pre", Str("qwen2")>>>>), 64)
T5File ==
    File("qwen3", Qwen3Tensors("Q6K", "Q5_1", "Iq4Nl", "Iq4Xs", "Q4K", "Q4K", "Q4K", "Q6K"),
         Metadata("qwen3", <<<<"tokenizer.ggml.model", Str("t5")>>>>), 32)

Cut(file) == [file EXCEPT !.size = @ - 1]
MCGguf == [llama_gguf |-> LlamaFile, qwen3_gguf |-> Qwen3File, t5_gguf |-> T5File,
           cut_gguf |-> Cut(Qwen3File)]
MCSplitsOf == Halves
MCOriginal == [name \in DOMAIN Keys |-> HfDirectory(name)]
              @@ [llama_gguf |-> HfDirectory("llama"), qwen3_gguf |-> HfDirectory("qwen3"),
                  t5_gguf |-> HfDirectory("qwen3"), cut_gguf |-> HfDirectory("qwen3")]

Scheme(bits) == Some([group_size |-> 64, bits |-> bits])
Request(source, quant) == [source |-> source, quant |-> quant]
MCRequests == {Request(s, Scheme(4)) : s \in {"llama", "qwen2", "phi3", "glm4", "gemma2",
                                              "deepseek", "qwen2_moe", "llama_gguf"}}
              \cup {Request(s, Scheme(8)) : s \in {"qwen2", "qwen3", "deepseek"}}
              \cup { Request("llama", None),
                    Request("llama_gguf", None), Request("qwen3_gguf", Scheme(8)),
                    Request("t5_gguf", None), Request("cut_gguf", None)}
MCVisionRequests == {Request(s, q) : s \in {"qwen3_vl", "qwen3_5", "qwen2"}, q \in {None, Scheme(4)}}

\* A hypothesis of the theorems in SnapshotProofs, true of these sources.
ASSUME MCSourcesHoldTokenizers == SourcesHoldTokenizers
=============================================================================
