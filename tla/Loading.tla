------------------------------ MODULE Loading ------------------------------
(***************************************************************************)
(* From a snapshot directory to a model that can generate: Weights merges  *)
(* the shards, CausalLm and Qwen35Model pick their tensors out of them by  *)
(* key, and LlamaProvider::load puts decoder, vision tower, tokenizer,     *)
(* stop tokens and chat template together (src/src/primitives/weights.rs,  *)
(* src/src/primitives/projection.rs, src/src/models/llama.rs,              *)
(* src/src/models/qwen35.rs, src/src/provider.rs).                         *)
(*                                                                         *)
(* A directory is a function from file names to contents; the content is   *)
(* Some(x), or None for a file that was only partly written.  A weights    *)
(* file is a function from keys to tensors, and a tensor is where its      *)
(* numbers come from: <<model, key, what was done to them>>.               *)
(***************************************************************************)
EXTENDS ModelConfig, TLC

\* <<root, layer, expert, module, part>>; -1 where a key has no such number.
Key(root, module, part) == <<root, -1, -1, module, part>>
LayerKey(root, i, module) == <<root, i, -1, module, "weight">>
ExpertKey(root, i, e, module) == <<root, i, e, module, "weight">>
Sibling(key, part) == [key EXCEPT ![5] = part]

\* A tensor to which something more was done.
Done(t, what, how) == [t EXCEPT ![3] = Append(@, <<what, how>>)]

-----------------------------------------------------------------------------
(* The weights of a directory.                                             *)

\* The names a weights file can have, in the order in which they sort.
ShardNames == <<"model-00001-of-00002.safetensors",
                "model-00002-of-00002.safetensors", "model.safetensors">>

\* Weights::from_dir: every shard there is; where two have a key, the later wins.
FromDir(dir) ==
    LET shards  == {i \in DOMAIN ShardNames : ShardNames[i] \in DOMAIN dir}
        At(i)   == dir[ShardNames[i]]
        Last(key) == CHOOSE i \in shards :
                        /\ key \in DOMAIN At(i).some
                        /\ \A j \in shards : j > i => key \notin DOMAIN At(j).some
    IN  IF shards = {} \/ \E i \in shards : At(i) = None THEN None
        ELSE Some([key \in UNION {DOMAIN At(i).some : i \in shards} |->
                     At(Last(key)).some[key]])

-----------------------------------------------------------------------------
(* One tensor.  ctx is what the loader's closures capture: the weights w,  *)
(* the scheme the config says projections are stored in, the one asked for *)
(* at load, and whether norm weights are stored one too small.             *)

\* Projection::load_with_bias, quantizing if quant is some scheme.
ProjectionLoad(t, bias, quant) ==
    [weight |-> t, scales |-> None, biases |-> None, spec |-> quant, bias |-> bias]

\* req_bf16
Required(ctx, key) ==
    IF key \in DOMAIN ctx.w THEN Some(ProjectionLoad(ctx.w[key], None, None)) ELSE None

\* norm_w: the + 1 of Gemma and Qwen3.5 is folded in.
Norm(ctx, key) ==
    IF key \notin DOMAIN ctx.w THEN None
    ELSE Some(ProjectionLoad(IF ctx.plus_one THEN Done(ctx.w[key], "plus one", 0)
                             ELSE ctx.w[key], None, None))

\* load_proj: packed parts as they are stored, or a dense weight.
LoadProj(ctx, key, bias) ==
    LET scales == Sibling(key, "scales")
        biases == Sibling(key, "biases")
    IN  IF key \notin DOMAIN ctx.w THEN None
        ELSE IF scales \notin DOMAIN ctx.w
        THEN Some(ProjectionLoad(ctx.w[key], bias, ctx.quant))
        ELSE IF biases \notin DOMAIN ctx.w \/ ~IsSome(ctx.stored) THEN None
        ELSE Some([weight |-> ctx.w[key], scales |-> Some(ctx.w[scales]),
                   biases |-> Some(ctx.w[biases]), spec |-> ctx.stored, bias |-> bias])

Proj(ctx, key) == LoadProj(ctx, key, None)

\* proj_b: with the bias next to it, if there is one.
ProjB(ctx, key) ==
    LET bias == Sibling(key, "bias")
    IN  LoadProj(ctx, key, IF bias \in DOMAIN ctx.w THEN Some(ctx.w[bias]) ELSE None)

\* split_sections of a fused weight; the parts are never stored packed.
Rows(ctx, key, part) ==
    IF key \notin DOMAIN ctx.w THEN None
    ELSE Some(ProjectionLoad(Done(ctx.w[key], "rows", part), None, ctx.quant))

\* A model part is a function from slots <<layer, expert, name>> to what was
\* loaded; it cannot be built when one slot has no tensor.
At(i, e, named) == [slot \in {<<i, e, name>> : name \in DOMAIN named} |-> named[slot[3]]]
JoinSlots(parts) ==
    [slot \in UNION {DOMAIN part : part \in parts} |->
        (CHOOSE part \in parts : slot \in DOMAIN part)[slot]]
Built(slots) ==
    IF \E slot \in DOMAIN slots : slots[slot] = None THEN None
    ELSE Some([slot \in DOMAIN slots |-> slots[slot].some])

-----------------------------------------------------------------------------
(* CausalLm::from_weights_with.                                            *)

\* MlaAttention::load
MlaSlots(ctx, root, i) ==
    LET key(m) == LayerKey(root, i, m)
    IN  At(i, -1,
          ("kv_a" :> Proj(ctx, key("self_attn.kv_a_proj_with_mqa"))
           @@ "kv_a_norm" :> Required(ctx, key("self_attn.kv_a_layernorm"))
           @@ "kv_b" :> Proj(ctx, key("self_attn.kv_b_proj"))
           @@ "o" :> Proj(ctx, key("self_attn.o_proj"))
           @@ IF key("self_attn.q_a_proj") \in DOMAIN ctx.w
              THEN ("q_a" :> Proj(ctx, key("self_attn.q_a_proj"))
                    @@ "q_a_norm" :> Required(ctx, key("self_attn.q_a_layernorm"))
                    @@ "q_b" :> Proj(ctx, key("self_attn.q_b_proj")))
              ELSE "q" :> Proj(ctx, key("self_attn.q_proj"))))

\* The grouped-query attention of a layer: the three projections separate, or
\* the rows of one fused weight (Phi-3).
GqaSlots(ctx, cfg, root, i) ==
    LET key(m) == LayerKey(root, i, m)
        packed == key("self_attn.qkv_proj")
    IN  At(i, -1,
          ("o" :> ProjB(ctx, key("self_attn.o_proj"))
           @@ (IF packed \in DOMAIN ctx.w
               THEN [n \in {"q", "k", "v"} |-> Rows(ctx, packed, n)]
               ELSE ("q" :> ProjB(ctx, key("self_attn.q_proj"))
                     @@ "k" :> ProjB(ctx, key("self_attn.k_proj"))
                     @@ "v" :> ProjB(ctx, key("self_attn.v_proj"))))
           @@ IF HasQkNorm(cfg.architecture)
              THEN ("q_norm" :> Required(ctx, key("self_attn.q_norm"))
                    @@ "k_norm" :> Required(ctx, key("self_attn.k_norm")))
              ELSE <<>>))

MlpModules(stem) ==
    CASE stem = "mlp" -> <<"mlp.gate_proj", "mlp.up_proj", "mlp.down_proj">>
      [] stem = "experts" ->
           <<"mlp.experts.gate_proj", "mlp.experts.up_proj", "mlp.experts.down_proj">>
      [] stem = "shared_expert" ->
           <<"mlp.shared_expert.gate_proj", "mlp.shared_expert.up_proj",
             "mlp.shared_expert.down_proj">>
      [] stem = "shared_experts" ->
           <<"mlp.shared_experts.gate_proj", "mlp.shared_experts.up_proj",
             "mlp.shared_experts.down_proj">>

\* The expert bank of a layer.
MoeSlots(ctx, cfg, root, i) ==
    LET key(m) == LayerKey(root, i, m)
        stem   == IF key("mlp.shared_experts.gate_proj") \in DOMAIN ctx.w
                  THEN "shared_experts" ELSE "shared_expert"
        shared == MlpModules(stem)
        gate   == key("mlp.shared_expert_gate")
        expert == MlpModules("experts")
    IN  JoinSlots(
          {At(i, -1,
             ("router" :> Required(ctx, key("mlp.gate"))
              @@ "shared_gate" :> Proj(ctx, key(shared[1]))
              @@ "shared_up" :> Proj(ctx, key(shared[2]))
              @@ "shared_down" :> Proj(ctx, key(shared[3]))
              @@ IF gate \in DOMAIN ctx.w
                 THEN "shared_expert_gate" :> Required(ctx, gate) ELSE <<>>))}
          \cup {At(i, e,
             ("gate" :> Proj(ctx, ExpertKey(root, i, e, expert[1]))
              @@ "up" :> Proj(ctx, ExpertKey(root, i, e, expert[2]))
              @@ "down" :> Proj(ctx, ExpertKey(root, i, e, expert[3]))))
             : e \in 0 .. cfg.moe.some.num_experts - 1})

\* The dense feed-forward of a layer; Phi-3 and GLM-4 fuse gate and up.
DenseSlots(ctx, root, i) ==
    LET key(m) == LayerKey(root, i, m)
        packed == key("mlp.gate_up_proj")
    IN  At(i, -1,
          ("down" :> Proj(ctx, key("mlp.down_proj"))
           @@ IF packed \in DOMAIN ctx.w
              THEN ("gate" :> Rows(ctx, packed, "gate") @@ "up" :> Rows(ctx, packed, "up"))
              ELSE ("gate" :> Proj(ctx, key("mlp.gate_proj"))
                    @@ "up" :> Proj(ctx, key("mlp.up_proj")))))

\* The names of the norms after the first one, which differ per family.
NormModules(arch) ==
    IF arch = "Glm4"
    THEN <<"post_self_attn_layernorm", "post_attention_layernorm", "post_mlp_layernorm">>
    ELSE <<"post_attention_layernorm", "pre_feedforward_layernorm",
           "post_feedforward_layernorm">>

NormSlots(ctx, cfg, root, i) ==
    LET key(m) == LayerKey(root, i, m)
        names  == NormModules(cfg.architecture)
    IN  At(i, -1,
          ("input_ln" :> Norm(ctx, key("input_layernorm"))
           @@ "post_ln" :> Norm(ctx, key(names[1]))
           @@ IF IsSandwich(cfg.architecture)
              THEN ("pre_ff_ln" :> Norm(ctx, key(names[2]))
                    @@ "post_ff_ln" :> Norm(ctx, key(names[3])))
              ELSE <<>>))

MoeLayer(cfg, i) == IsSome(cfg.moe) /\ i >= cfg.moe.some.first_k_dense_replace

\* The embeddings, the final norm and the head, which may be the embeddings.
OuterSlots(ctx, root, tied, head) ==
    LET embed == Required(ctx, Key(root, "embed_tokens", "weight"))
    IN  At(-1, -1, ("embed_tokens" :> embed
                    @@ "norm" :> Norm(ctx, Key(root, "norm", "weight"))
                    @@ "lm_head" :> IF tied THEN embed ELSE Required(ctx, head)))

\* A Qwen3-VL wrapper nests the decoder, and keeps the head at the root.
CausalLm(w, prefix, cfg, quant) ==
    LET nested == cfg.architecture = "Qwen3Vl"
        root == IF nested THEN <<"", "model.language_model">> ELSE <<prefix, "model">>
        head == Key(<<IF nested THEN "" ELSE prefix, "">>, "lm_head", "weight")
        ctx  == [w |-> w, stored |-> cfg.quantization, quant |-> quant,
                 plus_one |-> cfg.architecture = "Gemma2"]
        layers == 0 .. cfg.num_layers - 1
    IN  Built(JoinSlots(
          {OuterSlots(ctx, root, cfg.tie_word_embeddings, head)}
          \cup {IF ArchIsMla(cfg.architecture) THEN MlaSlots(ctx, root, i)
                ELSE GqaSlots(ctx, cfg, root, i) : i \in layers}
          \cup {IF MoeLayer(cfg, i) THEN MoeSlots(ctx, cfg, root, i)
                ELSE DenseSlots(ctx, root, i) : i \in layers}
          \cup {NormSlots(ctx, cfg, root, i) : i \in layers}))

-----------------------------------------------------------------------------
(* Qwen35Model::from_weights_with.  It reads every projection as dense.    *)

DenseProj(ctx, key) ==
    IF key \notin DOMAIN ctx.w THEN None
    ELSE Some(ProjectionLoad(ctx.w[key], None, ctx.quant))

DeltaSlots(ctx, root, i) ==
    LET key(m) == LayerKey(root, i, m)
        bare(m) == <<root, i, -1, m, "">>
    IN  At(i, -1,
          ("in_proj_qkv" :> DenseProj(ctx, key("linear_attn.in_proj_qkv"))
           @@ "in_proj_z" :> DenseProj(ctx, key("linear_attn.in_proj_z"))
           @@ "in_proj_a" :> Required(ctx, key("linear_attn.in_proj_a"))
           @@ "in_proj_b" :> Required(ctx, key("linear_attn.in_proj_b"))
           @@ "conv" :> Required(ctx, key("linear_attn.conv1d"))
           @@ "a_log" :> Required(ctx, bare("linear_attn.A_log"))
           @@ "dt_bias" :> Required(ctx, bare("linear_attn.dt_bias"))
           @@ "delta_norm" :> Required(ctx, key("linear_attn.norm"))
           @@ "out_proj" :> DenseProj(ctx, key("linear_attn.out_proj"))))

GatedAttentionSlots(ctx, root, i) ==
    LET key(m) == LayerKey(root, i, m)
    IN  At(i, -1,
          ("q" :> DenseProj(ctx, key("self_attn.q_proj"))
           @@ "k" :> DenseProj(ctx, key("self_attn.k_proj"))
           @@ "v" :> DenseProj(ctx, key("self_attn.v_proj"))
           @@ "o" :> DenseProj(ctx, key("self_attn.o_proj"))
           @@ "q_norm" :> Norm(ctx, key("self_attn.q_norm"))
           @@ "k_norm" :> Norm(ctx, key("self_attn.k_norm"))))

\* The experts are stacked in two tensors, which are taken apart.
StackedExpert(ctx, root, i, e) ==
    LET gate_up == <<root, i, -1, "mlp.experts.gate_up_proj", "">>
        down    == <<root, i, -1, "mlp.experts.down_proj", "">>
        Part(key, rows) ==
            IF key \notin DOMAIN ctx.w THEN None
            ELSE Some(ProjectionLoad(
                   Done(Done(ctx.w[key], "expert", e), "rows", rows), None, ctx.quant))
    IN  At(i, e, ("gate" :> Part(gate_up, "gate") @@ "up" :> Part(gate_up, "up")
                  @@ "down" :> Part(down, "all")))

Qwen35FfnSlots(ctx, cfg, root, i) ==
    LET key(m) == LayerKey(root, i, m)
        Three(stem, names) == [n \in DOMAIN names |-> DenseProj(ctx, key(MlpModules(stem)[names[n]]))]
    IN  IF ~IsSome(cfg.moe)
        THEN At(i, -1, Three("mlp", [gate |-> 1, up |-> 2, down |-> 3]))
        ELSE JoinSlots(
               {At(i, -1, ("router" :> Required(ctx, key("mlp.gate"))
                           @@ "shared_expert_gate" :> Required(ctx, key("mlp.shared_expert_gate"))
                           @@ Three("shared_expert",
                                    [shared_gate |-> 1, shared_up |-> 2, shared_down |-> 3])))}
               \cup {StackedExpert(ctx, root, i, e) : e \in 0 .. cfg.moe.some.num_experts - 1})

Qwen35Model(w, cfg, quant) ==
    LET root == <<"", "model.language_model">>
        ctx  == [w |-> w, quant |-> quant, plus_one |-> TRUE]
        layers == 0 .. cfg.num_layers - 1
    IN  Built(JoinSlots(
          {OuterSlots(ctx, root, cfg.tie_word_embeddings, Key(<<"", "">>, "lm_head", "weight"))}
          \cup {IF IsLinear(cfg, i) THEN DeltaSlots(ctx, root, i)
                ELSE GatedAttentionSlots(ctx, root, i) : i \in layers}
          \cup {Qwen35FfnSlots(ctx, cfg, root, i) : i \in layers}
          \cup {At(i, -1,
                  ("input_ln" :> Norm(ctx, LayerKey(root, i, "input_layernorm"))
                   @@ "post_ln" :> Norm(ctx, LayerKey(root, i, "post_attention_layernorm"))))
                : i \in layers}))

-----------------------------------------------------------------------------
(* Qwen35VisionModel::from_weights.                                        *)

VisualRoot == <<"", "model.visual">>
PatchEmbedKey == Key(VisualRoot, "patch_embed.proj", "weight")

VisionRequired(vcfg) ==
    {PatchEmbedKey, Key(VisualRoot, "pos_embed", "weight")}
    \cup {<<VisualRoot, i, -1, m, part>> : i \in 0 .. vcfg.depth - 1,
            m \in {"blocks.norm1", "blocks.norm2"}, part \in {"weight", "bias"}}
    \cup {LayerKey(VisualRoot, i, m) : i \in 0 .. vcfg.depth - 1,
            m \in {"blocks.attn.qkv", "blocks.attn.proj", "blocks.mlp.linear_fc1",
                   "blocks.mlp.linear_fc2"}}
    \cup UNION {{<<VisualRoot, i, -1, m, "weight">> :
                   m \in {"merger.norm", "merger.linear_fc1", "merger.linear_fc2"}}
                \cup {<<VisualRoot, i, -1, "merger.norm", "bias">>}
                : i \in -1 .. Len(vcfg.deepstack_visual_indexes) - 1}

\* The biases of the projections are optional.
VisionModel(w, vcfg) ==
    LET required == VisionRequired(vcfg)
        optional == {Sibling(key, "bias") :
                       key \in required \ {Key(VisualRoot, "pos_embed", "weight")}}
                    \cap DOMAIN w
    IN  IF ~(required \subseteq DOMAIN w) THEN None
        ELSE Some([key \in required \cup optional |-> w[key]])

-----------------------------------------------------------------------------
(* The provider.                                                           *)

\* A file that is there, and whole.
ReadJson(dir, name) == IF name \in DOMAIN dir THEN dir[name] ELSE None

\* parse_token_ids: the field as a list; an empty one counts as absent.
ParseTokenIds(json) ==
    IF IsSome(json) /\ Has(json.some, "eos_token_id") /\ json.some["eos_token_id"] # <<>>
    THEN Some(json.some["eos_token_id"]) ELSE None

LlamaStops == <<128001, 128008, 128009>>

\* eos_token_ids: generation_config.json before config.json before its
\* text_config before the Llama-3 stop tokens.
EosTokenIds(dir) ==
    LET config == ReadJson(dir, "config.json")
        nested == IF IsSome(config) /\ Has(config.some, "text_config")
                  THEN Some(config.some["text_config"]) ELSE None
        found  == SelectSeq(<<ParseTokenIds(ReadJson(dir, "generation_config.json")),
                              ParseTokenIds(config), ParseTokenIds(nested)>>, IsSome)
    IN  IF found = <<>> THEN LlamaStops ELSE Head(found).some

\* load_chat_template: the Llama-3 one stands in for one that cannot be read.
LoadChatTemplate(dir) ==
    LET config == ReadJson(dir, "tokenizer_config.json")
    IN  IF IsSome(config) /\ Has(config.some, "chat_template")
        THEN config.some["chat_template"] ELSE "Llama3Template"

\* The config and the decoder of an architecture; v is config.json.
Parsed(arch, v) ==
    IF arch = Some("Qwen35") THEN Qwen35FromJson(v) ELSE ModelFromJson(v)
DecoderOf(arch, w, parsed, quant) ==
    IF ~IsSome(parsed) THEN None
    ELSE IF arch = Some("Qwen35") THEN Qwen35Model(w, parsed.some, quant)
    ELSE CausalLm(w, "", parsed.some, quant)

\* A wrapper whose weights hold a vision tower serves pictures.
HasVision(arch, v, w) ==
    /\ arch \in {Some("Qwen35"), Some("Qwen3Vl")}
    /\ Has(v, "vision_config") /\ PatchEmbedKey \in DOMAIN w
Tower(w, vcfg) == IF IsSome(vcfg) THEN VisionModel(w, vcfg.some) ELSE None

\* LlamaProvider::load, of the weights w; visual says whether there is a tower.
LoadParts(dir, v, visual, parsed, decoder, tower) ==
    IF ~IsSome(parsed) \/ ~IsSome(decoder) \/ (visual /\ ~IsSome(tower))
       \/ ~IsSome(ReadJson(dir, "tokenizer.json"))
    THEN None
    ELSE Some([config |-> parsed.some, decoder |-> decoder.some,
               vision |-> IF visual THEN tower ELSE None,
               video |-> visual /\ Has(v, "video_token_id"),
               tokenizer |-> ReadJson(dir, "tokenizer.json").some,
               stop_tokens |-> EosTokenIds(dir), template |-> LoadChatTemplate(dir)])
LoadAs(arch, dir, v, w, quant) ==
    LoadParts(dir, v, HasVision(arch, v, w), Parsed(arch, v),
              DecoderOf(arch, w, Parsed(arch, v), quant), Tower(w, VisionFromJson(v)))
LlamaLoad(dir, quant) ==
    LET config  == ReadJson(dir, "config.json")
        weights == FromDir(dir)
    IN  IF ~IsSome(config) \/ ~IsSome(weights) \/ ~IsSome(FromConfig(config.some)) THEN None
        ELSE LoadAs(FromConfig(config.some), dir, config.some, weights.some, quant)
=============================================================================
