------------------------------ MODULE Snapshot ------------------------------
(***************************************************************************)
(* prepare: a model made ready to load.  A dense Hugging Face directory is *)
(* used where it is, or written out again with its projections packed; a   *)
(* GGUF file is converted (src/src/prepare.rs, src/src/snapshot.rs).  The  *)
(* files are written in place, one after the other, and the process may    *)
(* end or a write may fail in the middle of any of them.                   *)
(*                                                                         *)
(* dir is the output directory, with what earlier attempts left in it.     *)
(* MaxAttempts bounds how often something is prepared into it.             *)
(***************************************************************************)
EXTENDS GgufConvert, SequencesExt

CONSTANTS
    Requests,    \* what may be prepared: a source and a scheme, or None for dense
    Original,    \* each source's Hugging Face directory (of a GGUF, the one it was made from)
    Gguf,        \* the file of each source that is a GGUF
    MaxAttempts

ASSUME MaxAttemptsAssumption == MaxAttempts \in Nat \ {0}

VARIABLES
    dir,         \* the files of the output directory
    job,         \* the request being written and the files still to write
    report,      \* the request reported done last, since when nothing was written
    attempts     \* the requests whose files were begun, in order

vars == <<dir, job, report, attempts>>

Idle == [request |-> None, files |-> <<>>]

-----------------------------------------------------------------------------
\* PROJECTION_SUFFIXES, whatever the key starts with
ProjectionModules ==
    {"self_attn.q_proj", "self_attn.k_proj", "self_attn.v_proj", "self_attn.o_proj",
     "mlp.gate_proj", "mlp.up_proj", "mlp.down_proj"}
\* A selection by too short a suffix would take the head along.
IsProjectionOrHead(key) ==
    key[3] = -1 /\ key[4] \in ProjectionModules \cup {"lm_head"} /\ key[5] = "weight"
IsProjection(key) == key[3] = -1 /\ key[4] \in ProjectionModules /\ key[5] = "weight"

\* The tensors of a snapshot: each projection as the three parts it packs into.
SnapshotTensors(tensors, quant) ==
    LET packed == {key \in DOMAIN tensors : IsSome(quant) /\ IsProjection(key)}
        Of(key) == Sibling(key, "weight")
        names  == [weight |-> "codes", scales |-> "scales", biases |-> "biases"]
    IN  [key \in (DOMAIN tensors \ packed)
                 \cup {Sibling(k, part) : k \in packed, part \in DOMAIN names} |->
           IF Of(key) \in packed /\ key[5] \in DOMAIN names
           THEN Done(tensors[Of(key)], names[key[5]], quant.some) ELSE tensors[key]]

\* The config of a snapshot: the block goes to the top level.
SnapshotConfig(config, quant) ==
    IF IsSome(quant) THEN [quantization |-> quant.some] @@ config ELSE config

\* write_snapshot: the files in the order in which they are written.  A
\* tokenizer file that is not there is not written.
SnapshotFiles(tensors, config, tokenizer, tokenizer_config, quant) ==
    LET file(name, content) == IF IsSome(content) THEN <<<<name, content>>>> ELSE <<>>
    IN  file("config.json", Some(SnapshotConfig(config, quant)))
        \o file("model.safetensors", Some(SnapshotTensors(tensors, quant)))
        \o file("tokenizer.json", tokenizer)
        \o file("tokenizer_config.json", tokenizer_config)

\* write_hf_snapshot
HfFiles(source, quant) ==
    SnapshotFiles(FromDir(source).some, source["config.json"].some,
                  ReadJson(source, "tokenizer.json"),
                  ReadJson(source, "tokenizer_config.json"), quant)

\* convert_file
ConvertedFiles(c, quant) ==
    LET t == c.tokenizer
    IN  SnapshotFiles(c.tensors, c.config,
                      IF IsSome(t) THEN Some(t.some.tokenizer_json) ELSE None,
                      IF IsSome(t) THEN Some(t.some.tokenizer_config_json) ELSE None, quant)
GgufFiles(file, quant) == ConvertedFiles(Convert(Parse(file).some).some, quant)

IsGguf(request) == request.source \in DOMAIN Gguf

\* What is written for a request.
FilesOf(request) ==
    IF IsGguf(request) THEN GgufFiles(Gguf[request.source], request.quant)
    ELSE HfFiles(Original[request.source], request.quant)

\* A dense directory is checked and used as it is; no file is written for it.
Passthrough(request) == ~IsGguf(request) /\ ~IsSome(request.quant)

\* validate_supported_hf_architecture, and the errors before the first write.
Accepted(request) ==
    LET source == Original[request.source]
        Convertible(g) == IsSome(g) /\ IsSome(Convert(g.some))
    IN  IF IsGguf(request) THEN Convertible(Parse(Gguf[request.source]))
        ELSE /\ IsSome(ReadJson(source, "config.json"))
             /\ LlamaCanLoad(source["config.json"].some)
             /\ IsSome(FromDir(source))

-----------------------------------------------------------------------------
Init ==
    /\ dir = [name \in {} |-> None]
    /\ job = Idle /\ report = None /\ attempts = <<>>

\* prepare, up to the first write.
Prepare(request) ==
    /\ job = Idle /\ Len(attempts) < MaxAttempts
    /\ ~Passthrough(request) /\ Accepted(request)
    /\ job' = [request |-> Some(request), files |-> FilesOf(request)]
    /\ attempts' = Append(attempts, request)
    /\ report' = None
    /\ UNCHANGED dir

\* The directory with this content under a name.
WithFile(name, content) ==
    [n \in DOMAIN dir \cup {name} |-> IF n = name THEN content ELSE dir[n]]

\* A file is created, or emptied, before its content is written.
BeginFile ==
    /\ job.files # <<>>
    /\ LET name == Head(job.files)[1]
       IN  /\ ~(name \in DOMAIN dir /\ dir[name] = None)
           /\ dir' = WithFile(name, None)
    /\ UNCHANGED <<job, report, attempts>>

EndFile ==
    /\ job.files # <<>>
    /\ LET name == Head(job.files)[1]
       IN  /\ name \in DOMAIN dir /\ dir[name] = None
           /\ dir' = WithFile(name, Head(job.files)[2])
    /\ job' = [job EXCEPT !.files = Tail(@)]
    /\ UNCHANGED <<report, attempts>>

\* The process ends, or a write fails and prepare returns its error.
Interrupt ==
    /\ job # Idle
    /\ job' = Idle
    /\ UNCHANGED <<dir, report, attempts>>

\* prepare returns its report.
Report ==
    /\ IsSome(job.request) /\ job.files = <<>>
    /\ report' = job.request
    /\ job' = Idle
    /\ UNCHANGED <<dir, attempts>>

Next ==
    \/ \E request \in Requests : Prepare(request)
    \/ BeginFile \/ EndFile \/ Interrupt \/ Report

Spec == Init /\ [][Next]_vars

-----------------------------------------------------------------------------
\* The numbers a loaded projection multiplies with: the packed parts, when the
\* three belong together and are read by the scheme they were packed with.
Garbage == <<"garbage", <<>>, <<>>>>
Unpacked(p) ==
    LET Parts(how) == Done(p.weight, how, p.spec.some)
        dense == [p.weight EXCEPT ![3] = SubSeq(@, 1, Len(@) - 1)]
    IN  IF p.scales = None THEN p.weight
        ELSE IF /\ p.weight[3] # <<>>
                /\ p.weight = Done(dense, "codes", p.spec.some)
                /\ p.scales.some = Done(dense, "scales", p.spec.some)
                /\ p.biases.some = Done(dense, "biases", p.spec.some)
        THEN dense ELSE Garbage

\* Two loaded models are one model, the second with its projections packed
\* by quant; same(f) says which of the other parts must agree.
SameDecoder(prepared, original, quant) ==
    /\ DOMAIN prepared = DOMAIN original
    /\ \A slot \in DOMAIN original :
         /\ Unpacked(prepared[slot]) = original[slot].weight
         /\ prepared[slot].bias = original[slot].bias
         /\ prepared[slot].spec =
              IF original[slot].weight[3] = <<>> /\ IsProjection(original[slot].weight[2])
              THEN quant ELSE None
SameModel(prepared, original, quant) ==
    /\ LET Shape(cfg) == [f \in DOMAIN cfg \ {"quantization"} |-> cfg[f]]
       IN  Shape(prepared.config) = Shape(original.config)
    /\ SameDecoder(prepared.decoder, original.decoder, quant)
    /\ prepared.vision = original.vision /\ prepared.video = original.video
    /\ prepared.tokenizer = original.tokenizer
    /\ prepared.stop_tokens = original.stop_tokens

\* What loading gives is the model of the request's source.
Serves(prepared, request) ==
    LET original == LlamaLoad(Original[request.source], None).some
    IN  /\ IsSome(prepared)
        /\ SameModel(prepared.some, original, request.quant)
        /\ prepared.some.template = original.template

\* It gives nothing, or that model, perhaps with the chat template not there yet.
OnlyServes(prepared, request) ==
    LET original == LlamaLoad(Original[request.source], None).some
    IN  IsSome(prepared) =>
          /\ SameModel(prepared.some, original, request.quant)
          /\ prepared.some.template \in {original.template, "Llama3Template"}

SuppliesTokenizer(request) ==
    IsGguf(request) => IsSome(Reconstruct(Parse(Gguf[request.source]).some))

\* A request for which files are written.
Writes(request) == request \in Requests /\ ~Passthrough(request) /\ Accepted(request)

\* A directory to be quantized holds the two tokenizer files: one it lacks is not
\* written, and that of an earlier attempt stays where it is.
SourcesHoldTokenizers ==
    \A request \in Requests :
        Writes(request) /\ ~IsGguf(request) =>
            /\ IsSome(ReadJson(Original[request.source], "tokenizer.json"))
            /\ IsSome(ReadJson(Original[request.source], "tokenizer_config.json"))

\* Once prepare has reported success, loading the directory gives the very model
\* the source is: every tensor under the slot it belongs to, the seven
\* projections packed with the scheme asked for, tokenizer, stop tokens and
\* chat template included -- whatever earlier attempts, whole or interrupted,
\* of this or of another model, had left in the directory.
PreparedServesTheSource ==
    IsSome(report) /\ SuppliesTokenizer(report.some) =>
      Serves(LlamaLoad(dir, None), report.some)

\* The tensors of a GGUF that was prepared were read out of their blocks soundly:
\* every stored bit counts, in one field of the elements it was stored for, and
\* no bit counts twice.
EveryStoredBitCounts ==
    IsSome(report) /\ IsGguf(report.some) =>
      LET types == {FromTag[info.ggml_type] : info \in ToSet(Gguf[report.some.source].infos)}
      IN  \A type \in types : Sound(type)

\* A directory that only ever received one request -- interrupted, begun again,
\* in any state -- never serves anything but that request's model: it fails to
\* load, or it loads that model, with at most the chat template not there yet.
InterruptedServesNothingElse ==
    \A request \in Requests :
      attempts # <<>> /\ (\A i \in DOMAIN attempts : attempts[i] = request) =>
        OnlyServes(LlamaLoad(dir, None), request)
=============================================================================
