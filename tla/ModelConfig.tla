---------------------------- MODULE ModelConfig ----------------------------
(***************************************************************************)
(* config.json as the engine reads it: which architecture a snapshot       *)
(* dispatches to, which of the two providers claims it, and the decoder    *)
(* parameters (src/src/config.rs, the probes of src/src/provider.rs and    *)
(* src/src/joycaption.rs, Qwen35Config of src/src/models/qwen35.rs).       *)
(*                                                                         *)
(* A JSON object is a function from keys to values; a key it lacks is one  *)
(* outside its domain.  Numbers the engine only multiplies with            *)
(* (rms_norm_eps, rope_theta, soft caps) are left out.  A fraction is a    *)
(* pair <<numerator, denominator>>.                                        *)
(***************************************************************************)
EXTENDS Integers, Sequences, FiniteSets

Has(v, key) == key \in DOMAIN v
Get(v, key, default) == IF Has(v, key) THEN v[key] ELSE default

\* No value: the None of the source.
None == [none |-> TRUE]
Some(x) == [some |-> x]
IsSome(o) == "some" \in DOMAIN o

-----------------------------------------------------------------------------
(* Architecture.                                                           *)

\* What each name a config may carry contains of the substrings from_config
\* tests for (in lower case).  A name outside the table contains none.
Substrings ==
    [llama |-> {"llama"}, mistral |-> {"mistral"}, mistral3 |-> {"mistral"},
     qwen2 |-> {"qwen2"}, qwen2_moe |-> {"qwen2_moe", "qwen2"},
     qwen3 |-> {"qwen3"}, qwen3_moe |-> {"qwen3"},
     qwen3_vl |-> {"qwen3_vl", "qwen3"}, qwen3_vl_text |-> {"qwen3_vl", "qwen3"},
     qwen3_5 |-> {"qwen3_5", "qwen3"}, qwen3_5_text |-> {"qwen3_5", "qwen3"},
     gemma2 |-> {"gemma2"}, glm4 |-> {"glm4"}, deepseek_v2 |-> {"deepseek"},
     phi3 |-> {"phi3"}, llava |-> {"llava"}, siglip_vision_model |-> {"siglip"}]

NameContains(name, substring) ==
    name \in DOMAIN Substrings /\ substring \in Substrings[name]

\* The object the decoder's names are in: text_config of a wrapper, or v itself.
DecoderNames(v) == Get(v, "text_config", v)

\* Architecture::from_config tests the substrings in this order, so that the
\* names that contain another come first.
Dispatch ==
    <<<<"qwen3_vl", "Qwen3Vl">>, <<"qwen3_5", "Qwen35">>, <<"qwen3", "Qwen3">>,
      <<"qwen2_moe", "Qwen2Moe">>, <<"gemma2", "Gemma2">>, <<"glm4", "Glm4">>,
      <<"deepseek", "DeepseekV2">>, <<"phi3", "Phi3">>, <<"llama", "Llama">>,
      <<"mistral", "Llama">>, <<"qwen2", "Llama">>>>

\* Architecture::from_config: the architecture, or None for an unknown name.
\* A config that names nothing is a Llama.
FromConfig(v) ==
    LET cfg   == DecoderNames(v)
        named == {cfg[key] : key \in DOMAIN cfg \cap {"architecture", "model_type"}}
        hits  == {i \in DOMAIN Dispatch :
                    \E name \in named : NameContains(name, Dispatch[i][1])}
    IN  IF hits # {}
        THEN Some(Dispatch[CHOOSE i \in hits : \A j \in hits : i <= j][2])
        ELSE IF named = {} THEN Some("Llama") ELSE None

IsSandwich(arch) == arch \in {"Gemma2", "Glm4"}
RopeInterleaved(arch) == arch \in {"Glm4", "DeepseekV2"}
ArchIsMla(arch) == arch = "DeepseekV2"
HasQkNorm(arch) == arch \in {"Qwen3", "Qwen3Vl"}

-----------------------------------------------------------------------------
(* Which provider claims a config.                                         *)

\* joycaption::can_load_value: a wrapper with the LLaVA or SigLIP signature.
JoyCanLoad(v) ==
    /\ Has(v, "text_config") /\ Has(v, "vision_config")
    /\ \/ Has(v, "architecture") /\ NameContains(v["architecture"], "llava")
       \/ /\ Has(v["vision_config"], "model_type")
          /\ NameContains(v["vision_config"]["model_type"], "siglip")

\* provider::can_load_value: everything that dispatches, but what is ceded.
LlamaCanLoad(v) ==
    /\ ~(Has(v, "vision_config") /\ JoyCanLoad(v))
    /\ IsSome(FromConfig(v))

\* provider::weightless_vision_value
WeightlessVision(v) ==
    /\ LlamaCanLoad(v) /\ Has(v, "vision_config")
    /\ FromConfig(v) \in {Some("Qwen3Vl"), Some("Qwen35")}

-----------------------------------------------------------------------------
(* The decoder parameters.                                                 *)

\* ModelConfig::from_json: the keys every architecture must have.
RequiredKeys == {"hidden_size", "num_attention_heads", "num_hidden_layers",
                 "intermediate_size", "vocab_size"}

\* from_json reads the fields of a Qwen3-VL wrapper from text_config; those of
\* every other architecture from the top level.
Fields(v) == IF FromConfig(v) = Some("Qwen3Vl") THEN DecoderNames(v) ELSE v

\* The type a rope_scaling block names: the llama3 schedule is looked up by
\* rope_type first, the yarn one by type first; a block without either is llama3.
ScalingType(rs, first, second) ==
    IF Has(rs, first) THEN rs[first] ELSE Get(rs, second, "unnamed")
Yarn(v) ==
    /\ Has(v, "rope_scaling")
    /\ ScalingType(v["rope_scaling"], "type", "rope_type") = "yarn"
Llama3Scaling(v) ==
    /\ Has(v, "rope_scaling")
    /\ ScalingType(v["rope_scaling"], "rope_type", "type") \in {"llama3", "unnamed"}

\* A quantization block counts only with both of its numbers.
Quantization(v) ==
    IF /\ Has(v, "quantization")
       /\ {"group_size", "bits"} \subseteq DOMAIN v["quantization"]
    THEN Some([group_size |-> v["quantization"]["group_size"],
               bits       |-> v["quantization"]["bits"]])
    ELSE None

MropeSection(holder) ==
    IF Has(holder, "mrope_section") /\ Len(holder["mrope_section"]) = 3
    THEN Some(holder["mrope_section"]) ELSE None

AtLeast(low, n) == IF n < low THEN low ELSE n
AtMost(high, n) == IF n > high THEN high ELSE n

\* The routed experts: num_experts (Qwen2-MoE) or n_routed_experts (DeepSeek).
\* The shared width falls back from the field of the one to that of the other.
Moe(v) ==
    LET n  == Get(v, "num_experts", Get(v, "n_routed_experts", 0))
        mi == Get(v, "moe_intermediate_size", v["intermediate_size"])
    IN  IF ~Has(v, "num_experts") /\ ~Has(v, "n_routed_experts") THEN None
        ELSE Some([num_experts |-> n,
                   num_experts_per_tok |-> AtLeast(1, Get(v, "num_experts_per_tok", n)),
                   moe_intermediate_size |-> mi,
                   shared_expert_intermediate_size |->
                     Get(v, "shared_expert_intermediate_size",
                         IF Has(v, "n_shared_experts") THEN v["n_shared_experts"] * mi
                         ELSE v["intermediate_size"]),
                   norm_topk_prob |-> Get(v, "norm_topk_prob", FALSE),
                   first_k_dense_replace |-> AtLeast(0, Get(v, "first_k_dense_replace", 0))])

\* Multi-head latent attention: present iff kv_lora_rank is.
Mla(v) ==
    IF ~Has(v, "kv_lora_rank") THEN None
    ELSE Some([kv_lora_rank |-> v["kv_lora_rank"], q_lora |-> Has(v, "q_lora_rank"),
               qk_nope_head_dim |-> Get(v, "qk_nope_head_dim", 0),
               qk_rope_head_dim |-> Get(v, "qk_rope_head_dim", 0),
               v_head_dim |-> Get(v, "v_head_dim",
                                  v["hidden_size"] \div v["num_attention_heads"])])
QHeadDim(mla) == mla.qk_nope_head_dim + mla.qk_rope_head_dim

\* ModelConfig::from_json: the parsed config, or None for an error.  v holds the
\* fields of the architecture.
ConfigOf(arch, v) ==
    LET heads == v["num_attention_heads"]
        mla   == Mla(v)
    IN  IF ~IsSome(arch) \/ arch = Some("Qwen35") \/ ~(RequiredKeys \subseteq DOMAIN v)
        THEN None
        ELSE Some([architecture |-> arch.some, num_layers |-> v["num_hidden_layers"],
                   hidden_size |-> v["hidden_size"], num_heads |-> heads,
                   num_kv_heads |-> Get(v, "num_key_value_heads", heads),
                   head_dim |-> IF IsSome(mla) THEN QHeadDim(mla.some)
                                ELSE Get(v, "head_dim", v["hidden_size"] \div heads),
                   intermediate_size |-> v["intermediate_size"],
                   tie_word_embeddings |->
                     Get(v, "tie_word_embeddings", arch.some = "Gemma2"),
                   quantization |-> Quantization(v), moe |-> Moe(v), mla |-> mla,
                   yarn |-> Yarn(v), llama3 |-> Llama3Scaling(v),
                   partial_rotary_factor |-> Get(v, "partial_rotary_factor", <<1, 1>>),
                   query_pre_attn_scalar |-> Get(v, "query_pre_attn_scalar", 0),
                   mrope_section |-> IF Has(v, "rope_scaling")
                                     THEN MropeSection(v["rope_scaling"]) ELSE None])
ModelFromJson(top) == ConfigOf(FromConfig(top), Fields(top))

\* round(head_dim * factor), forced even
RotaryDim(head_dim, factor) ==
    LET rounded == (2 * head_dim * factor[1] + factor[2]) \div (2 * factor[2])
    IN  rounded - (rounded % 2)

\* The even split of half the rotary dimensions over t, h, w.
DefaultSection(rotary_dim) ==
    LET half == rotary_dim \div 2
        Extra(more) == IF half % 3 > more THEN 1 ELSE 0
    IN  <<half \div 3 + Extra(0), half \div 3 + Extra(1), half \div 3>>

MropeSectionResolved(section, rotary_dim) ==
    IF IsSome(section) THEN [i \in 1 .. 3 |-> AtLeast(0, section.some[i])]
    ELSE DefaultSection(rotary_dim)

\* ModelConfig::build_rope: how many dimensions turn, how they are paired, and
\* by which schedule of frequencies.
BuildRope(cfg) ==
    LET turned      == RotaryDim(cfg.head_dim, cfg.partial_rotary_factor)
        interleaved == RopeInterleaved(cfg.architecture)
    IN  IF IsSome(cfg.mla)
        THEN [dim |-> cfg.mla.some.qk_rope_head_dim, interleaved |-> TRUE,
              schedule |-> IF cfg.yarn THEN "yarn" ELSE "plain"]
        ELSE IF turned < cfg.head_dim \/ interleaved
        THEN [dim |-> turned, interleaved |-> interleaved, schedule |-> "plain"]
        ELSE [dim |-> cfg.head_dim, interleaved |-> FALSE,
              schedule |-> IF cfg.llama3 THEN "llama3" ELSE "plain"]

\* ModelConfig::attn_scale: what the scale is the inverse square root of.
ScaleDenominator(cfg) ==
    IF IsSome(cfg.mla) THEN QHeadDim(cfg.mla.some)
    ELSE IF cfg.query_pre_attn_scalar # 0 THEN cfg.query_pre_attn_scalar
    ELSE cfg.head_dim

\* Qwen35Config::from_json.  Its fields are those of text_config; it has no
\* quantization field.
Qwen35RequiredKeys ==
    {"hidden_size", "num_attention_heads", "num_hidden_layers", "vocab_size",
     "linear_num_value_heads", "linear_num_key_heads", "linear_key_head_dim",
     "linear_value_head_dim"}
Qwen35FromJson(top) ==
    LET c     == DecoderNames(top)
        heads == c["num_attention_heads"]
        rope  == Get(c, "rope_parameters", [x \in {} |-> 0])
        inter == Get(c, "intermediate_size", Get(c, "moe_intermediate_size", 0))
    IN  IF ~(Qwen35RequiredKeys \subseteq DOMAIN c) THEN None
        ELSE Some([architecture |-> "Qwen35", num_layers |-> c["num_hidden_layers"],
                   intermediate_size |-> inter, num_heads |-> heads,
                   num_kv_heads |-> Get(c, "num_key_value_heads", heads),
                   head_dim |-> Get(c, "head_dim", c["hidden_size"] \div heads),
                   partial_rotary_factor |->
                     Get(rope, "partial_rotary_factor",
                         Get(c, "partial_rotary_factor", <<1, 4>>)),
                   tie_word_embeddings |-> Get(c, "tie_word_embeddings", FALSE),
                   full_attention_interval |->
                     AtLeast(1, Get(c, "full_attention_interval", 4)),
                   linear_conv_kernel_dim |-> Get(c, "linear_conv_kernel_dim", 4),
                   moe |-> IF ~Has(c, "num_experts") THEN None
                           ELSE Some([num_experts |-> c["num_experts"],
                                      experts_per_tok |->
                                        AtLeast(1, Get(c, "num_experts_per_tok", 8)),
                                      moe_intermediate_size |->
                                        Get(c, "moe_intermediate_size", inter)]),
                   mrope_section |-> MropeSection(rope)])

\* Qwen35Config::is_linear: layer i, from 0, is a Gated DeltaNet layer.
IsLinear(cfg, i) == (i + 1) % cfg.full_attention_interval # 0

\* Qwen35VisionConfig::from_json: the geometry of the vision tower.
VisionRequiredKeys == {"depth", "hidden_size", "num_heads", "intermediate_size",
                       "out_hidden_size", "num_position_embeddings"}
VisionFromJson(top) ==
    LET c == top["vision_config"]
    IN  IF ~Has(top, "vision_config") \/ ~(VisionRequiredKeys \subseteq DOMAIN c) THEN None
        ELSE Some([depth |-> c["depth"],
                   spatial_merge_size |-> Get(c, "spatial_merge_size", 2),
                   num_position_embeddings |-> c["num_position_embeddings"],
                   deepstack_visual_indexes |-> Get(c, "deepstack_visual_indexes", <<>>)])
=============================================================================
