--------------------------- MODULE SnapshotProofs ---------------------------
(***************************************************************************)
(* Crash safety of prepare, for any sources, requests and number of        *)
(* attempts, however often one is interrupted and wherever.                *)
(*                                                                         *)
(* What one undisturbed write of a request into an empty directory serves  *)
(* is a matter of the conversion alone, which the runs check file by file. *)
(* Here that is the hypothesis (WholeServes); what is proved is that the   *)
(* files left by other attempts, the order of the writes and the           *)
(* interruptions cannot add to it or take from it.                         *)
(***************************************************************************)
EXTENDS Snapshot, SequenceTheorems, TLAPS

FileNames == {"config.json", "model.safetensors", "tokenizer.json", "tokenizer_config.json"}

\* The files of a request, in no order.
Parts(request) == ToSet(FilesOf(request))

\* The directory that one write of the request leaves where nothing was.
Whole(request) ==
    [name \in {f[1] : f \in Parts(request)} |-> (CHOOSE f \in Parts(request) : f[1] = name)[2]]

WholeServes ==
    \A request \in Requests :
        Writes(request) /\ SuppliesTokenizer(request) =>
            Serves(LlamaLoad(Whole(request), None), request)

-----------------------------------------------------------------------------
(* The files of a request                                                  *)

\* Each has a name of its own and a content.
Named(files) ==
    /\ files \in Seq(ToSet(files))
    /\ \A f \in ToSet(files) : f = <<f[1], f[2]>> /\ f[1] \in FileNames /\ IsSome(f[2])
    /\ \A f, g \in ToSet(files) : f[1] = g[1] => f = g

LEMMA SomeFacts ==
  ASSUME NEW x
  PROVE  IsSome(Some(x)) /\ Some(x).some = x /\ Some(x) # None /\ ~IsSome(None)
BY DEF IsSome, Some, None

LEMMA ConcatParts ==
  ASSUME NEW S, NEW s \in Seq(S), NEW t \in Seq(S)
  PROVE  s \o t \in Seq(S) /\ ToSet(s \o t) = ToSet(s) \cup ToSet(t)
<1>1. /\ s \o t \in Seq(S) /\ Len(s \o t) = Len(s) + Len(t)
      /\ \A i \in 1 .. Len(s) + Len(t) :
            (s \o t)[i] = IF i <= Len(s) THEN s[i] ELSE t[i - Len(s)]
  BY ConcatProperties
<1>2. /\ Len(s) \in Nat /\ DOMAIN s = 1 .. Len(s)
      /\ Len(t) \in Nat /\ DOMAIN t = 1 .. Len(t)
      /\ DOMAIN (s \o t) = 1 .. Len(s) + Len(t)
  BY <1>1, LenProperties
<1> DEFINE both == s \o t
<1> HIDE DEF both
<1>3. ASSUME NEW x \in ToSet(both) PROVE x \in ToSet(s) \cup ToSet(t)
  <2>1. PICK i \in 1 .. Len(s) + Len(t) : x = both[i]
    BY <1>2, <1>3 DEF ToSet, both
  <2>2. CASE i <= Len(s)
    BY <1>1, <1>2, <2>1, <2>2 DEF ToSet, both
  <2>3. CASE i > Len(s)
    <3>1. x = t[i - Len(s)] /\ i - Len(s) \in 1 .. Len(t)
      BY <1>1, <1>2, <2>1, <2>3 DEF both
    <3> QED BY <1>2, <3>1 DEF ToSet
  <2> QED BY <1>2, <2>2, <2>3
<1>4. ASSUME NEW x \in ToSet(s) PROVE x \in ToSet(both)
  <2>1. PICK i \in 1 .. Len(s) : x = s[i]
    BY <1>2, <1>4 DEF ToSet
  <2>2. i \in 1 .. Len(s) + Len(t) /\ x = both[i]
    BY <1>1, <1>2, <2>1 DEF both
  <2> QED BY <1>2, <2>2 DEF ToSet, both
<1>5. ASSUME NEW x \in ToSet(t) PROVE x \in ToSet(both)
  <2>1. PICK i \in 1 .. Len(t) : x = t[i]
    BY <1>2, <1>5 DEF ToSet
  <2>2. i + Len(s) \in 1 .. Len(s) + Len(t) /\ x = both[i + Len(s)]
    BY <1>1, <1>2, <2>1 DEF both
  <2> QED BY <1>2, <2>2 DEF ToSet, both
<1> QED BY <1>1, <1>3, <1>4, <1>5 DEF both

LEMMA FewParts ==
  ASSUME NEW S, NEW x \in S
  PROVE  /\ <<x>> \in Seq(S) /\ ToSet(<<x>>) = {x}
         /\ <<>> \in Seq(S) /\ ToSet(<<>>) = {}
<1>1. ToSet(<<x>>) = {x}
  BY DEF ToSet
<1>2. ToSet(<<>>) = {}
  BY DEF ToSet
<1> QED BY <1>1, <1>2

LEMMA OwnParts ==
  ASSUME NEW S, NEW s \in Seq(S)
  PROVE  s \in Seq(ToSet(s))
<1>1. Len(s) \in Nat /\ DOMAIN s = 1 .. Len(s) /\ s \in [1 .. Len(s) -> S]
  BY LenProperties
<1>2. s \in [1 .. Len(s) -> ToSet(s)]
  BY <1>1 DEF ToSet
<1> QED BY <1>1, <1>2

\* write_snapshot names config and weights always, a tokenizer file if there is one.
LEMMA SnapshotFilesNamed ==
  ASSUME NEW tensors, NEW config, NEW t, NEW c, NEW quant
  PROVE  LET files == SnapshotFiles(tensors, config, t, c, quant)
         IN  /\ Named(files)
             /\ \E x \in ToSet(files) : x[1] = "config.json"
             /\ \E x \in ToSet(files) : x[1] = "model.safetensors"
             /\ (\E x \in ToSet(files) : x[1] = "tokenizer.json") <=> IsSome(t)
             /\ (\E x \in ToSet(files) : x[1] = "tokenizer_config.json") <=> IsSome(c)
<1> DEFINE files == SnapshotFiles(tensors, config, t, c, quant)
           first == <<"config.json", Some(SnapshotConfig(config, quant))>>
           second == <<"model.safetensors", Some(SnapshotTensors(tensors, quant))>>
           third == <<"tokenizer.json", t>>
           fourth == <<"tokenizer_config.json", c>>
           S == {first, second, third, fourth}
           s1 == <<first>>
           s2 == <<second>>
           s3 == IF IsSome(t) THEN <<third>> ELSE <<>>
           s4 == IF IsSome(c) THEN <<fourth>> ELSE <<>>
           s12 == s1 \o s2
           s123 == s12 \o s3
<1>1. files = s123 \o s4
  BY SomeFacts DEF SnapshotFiles
<1>2. /\ first[1] = "config.json" /\ IsSome(first[2]) /\ first = <<first[1], first[2]>>
      /\ second[1] = "model.safetensors" /\ IsSome(second[2]) /\ second = <<second[1], second[2]>>
      /\ third[1] = "tokenizer.json" /\ third[2] = t /\ third = <<third[1], third[2]>>
      /\ fourth[1] = "tokenizer_config.json" /\ fourth[2] = c /\ fourth = <<fourth[1], fourth[2]>>
  BY SomeFacts
<1> HIDE DEF files, first, second, third, fourth, s12, s123
<1>3. /\ s1 \in Seq(S) /\ ToSet(s1) = {first}
      /\ s2 \in Seq(S) /\ ToSet(s2) = {second}
  BY FewParts
<1>4. s3 \in Seq(S) /\ ToSet(s3) = IF IsSome(t) THEN {third} ELSE {}
  BY FewParts
<1>5. s4 \in Seq(S) /\ ToSet(s4) = IF IsSome(c) THEN {fourth} ELSE {}
  BY FewParts
<1> HIDE DEF S, s1, s2, s3, s4
<1>6. s12 \in Seq(S) /\ ToSet(s12) = {first} \cup {second}
  BY <1>3, ConcatParts DEF s12
<1>7. s123 \in Seq(S) /\ ToSet(s123) = ToSet(s12) \cup ToSet(s3)
  BY <1>4, <1>6, ConcatParts DEF s123
<1>8. files \in Seq(S) /\ ToSet(files) = ({first} \cup {second} \cup ToSet(s3)) \cup ToSet(s4)
  BY <1>1, <1>5, <1>6, <1>7, ConcatParts
<1>9. files \in Seq(ToSet(files))
  BY <1>8, OwnParts
<1>10. \A f \in ToSet(files) :
          \/ f = first
          \/ f = second
          \/ f = third /\ IsSome(t)
          \/ f = fourth /\ IsSome(c)
  BY <1>4, <1>5, <1>8
<1>11. /\ first \in ToSet(files) /\ second \in ToSet(files)
       /\ third \in ToSet(files) <=> IsSome(t)
       /\ fourth \in ToSet(files) <=> IsSome(c)
  BY <1>2, <1>4, <1>5, <1>8
<1>12. Named(files)
  BY <1>2, <1>9, <1>10 DEF Named, FileNames
<1> QED BY <1>2, <1>10, <1>11, <1>12 DEF files

\* What is known of the files that are written for a request.
WellNamed(request) ==
    /\ Named(FilesOf(request))
    /\ \E x \in Parts(request) : x[1] = "config.json"
    /\ \E x \in Parts(request) : x[1] = "model.safetensors"

LEMMA FilesOfNamed ==
  ASSUME NEW request
  PROVE  WellNamed(request)
<1>1. CASE IsGguf(request)
  <2> DEFINE o == Convert(Parse(Gguf[request.source]).some).some
             t == IF IsSome(o.tokenizer) THEN Some(o.tokenizer.some.tokenizer_json) ELSE None
             c == IF IsSome(o.tokenizer) THEN Some(o.tokenizer.some.tokenizer_config_json) ELSE None
  <2>1. FilesOf(request) = SnapshotFiles(o.tensors, o.config, t, c, request.quant)
    BY <1>1 DEF FilesOf, GgufFiles, ConvertedFiles
  <2> HIDE DEF o, t, c
  <2> QED BY <2>1, SnapshotFilesNamed DEF WellNamed, Parts
<1>2. CASE ~IsGguf(request)
  <2> DEFINE source == Original[request.source]
             w == FromDir(source).some
             v == source["config.json"].some
             t == ReadJson(source, "tokenizer.json")
             c == ReadJson(source, "tokenizer_config.json")
  <2>1. FilesOf(request) = SnapshotFiles(w, v, t, c, request.quant)
    BY <1>2 DEF FilesOf, HfFiles
  <2> HIDE DEF w, v, t, c
  <2> QED BY <2>1, SnapshotFilesNamed DEF WellNamed, Parts
<1> QED BY <1>1, <1>2

LEMMA ConvertTokenizer ==
  ASSUME NEW g, IsSome(Convert(g))
  PROVE  Convert(g).some.tokenizer = Reconstruct(g)
<1> DEFINE tensors == Convert(g).some.tensors
           config == Convert(g).some.config
<1>1. PICK t, c : Convert(g) = None
                  \/ Convert(g) = Some([tensors |-> t, config |-> c, tokenizer |-> Reconstruct(g)])
  BY DEF Convert
<1> QED BY <1>1, SomeFacts

\* A GGUF's tokenizer files are both written, or neither; those of a directory
\* if they are there.
LEMMA TokenizerParts ==
  ASSUME NEW request, Writes(request)
  PROVE  /\ (\E x \in Parts(request) : x[1] = "tokenizer.json") => SuppliesTokenizer(request)
         /\ SuppliesTokenizer(request) /\ SourcesHoldTokenizers =>
              /\ \E x \in Parts(request) : x[1] = "tokenizer.json"
              /\ \E x \in Parts(request) : x[1] = "tokenizer_config.json"
<1>1. CASE IsGguf(request)
  <2> DEFINE g == Parse(Gguf[request.source]).some
             o == Convert(g).some
             t == IF IsSome(o.tokenizer) THEN Some(o.tokenizer.some.tokenizer_json) ELSE None
             c == IF IsSome(o.tokenizer) THEN Some(o.tokenizer.some.tokenizer_config_json) ELSE None
  <2>1. FilesOf(request) = SnapshotFiles(o.tensors, o.config, t, c, request.quant)
    BY <1>1 DEF FilesOf, GgufFiles, ConvertedFiles
  <2>2. IsSome(Convert(g))
    BY <1>1 DEF Writes, Accepted
  <2>3. o.tokenizer = Reconstruct(g)
    BY <2>2, ConvertTokenizer
  <2>4. SuppliesTokenizer(request) <=> IsSome(o.tokenizer)
    BY <1>1, <2>3 DEF SuppliesTokenizer
  <2>5. (IsSome(t) <=> IsSome(o.tokenizer)) /\ (IsSome(c) <=> IsSome(o.tokenizer))
    BY SomeFacts
  <2> HIDE DEF o, t, c
  <2> QED BY <2>1, <2>4, <2>5, SnapshotFilesNamed DEF Parts
<1>2. CASE ~IsGguf(request)
  <2> DEFINE source == Original[request.source]
             w == FromDir(source).some
             v == source["config.json"].some
             t == ReadJson(source, "tokenizer.json")
             c == ReadJson(source, "tokenizer_config.json")
  <2>1. FilesOf(request) = SnapshotFiles(w, v, t, c, request.quant)
    BY <1>2 DEF FilesOf, HfFiles
  <2>2. SuppliesTokenizer(request)
    BY <1>2 DEF SuppliesTokenizer
  <2>3. SourcesHoldTokenizers => IsSome(t) /\ IsSome(c)
    BY <1>2 DEF SourcesHoldTokenizers, Writes
  <2> HIDE DEF w, v, t, c
  <2> QED BY <2>1, <2>2, <2>3, SnapshotFilesNamed DEF Parts
<1> QED BY <1>1, <1>2

LEMMA WholeFacts ==
  ASSUME NEW request
  PROVE  /\ \A x \in Parts(request) : x[1] \in DOMAIN Whole(request) /\ Whole(request)[x[1]] = x[2]
         /\ \A name \in DOMAIN Whole(request) : <<name, Whole(request)[name]>> \in Parts(request)
<1>1. /\ \A f \in Parts(request) : f = <<f[1], f[2]>>
      /\ \A f, g \in Parts(request) : f[1] = g[1] => f = g
  BY FilesOfNamed DEF WellNamed, Named, Parts
<1> DEFINE Of(name) == CHOOSE f \in Parts(request) : f[1] = name
<1>2. DOMAIN Whole(request) = {f[1] : f \in Parts(request)}
  BY DEF Whole
<1>3. \A name \in DOMAIN Whole(request) :
         Of(name) \in Parts(request) /\ Of(name)[1] = name /\ Whole(request)[name] = Of(name)[2]
  BY <1>2 DEF Whole
<1> HIDE DEF Of
<1> QED BY <1>1, <1>2, <1>3

-----------------------------------------------------------------------------
(* Loading                                                                 *)

Weights1 == "model.safetensors"

\* A directory that prepare wrote has one weights file, which is loaded as it is.
LEMMA FromDirOfOne ==
  ASSUME NEW d, DOMAIN d \subseteq FileNames
  PROVE  /\ Weights1 \notin DOMAIN d => FromDir(d) = None
         /\ Weights1 \in DOMAIN d /\ d[Weights1] = None => FromDir(d) = None
         /\ Weights1 \in DOMAIN d /\ d[Weights1] # None =>
              FromDir(d) = Some([key \in DOMAIN d[Weights1].some |-> d[Weights1].some[key]])
<1> DEFINE shards == {i \in DOMAIN ShardNames : ShardNames[i] \in DOMAIN d}
           Shard(i) == d[ShardNames[i]]
           Latest(key) == CHOOSE i \in shards :
                           /\ key \in DOMAIN Shard(i).some
                           /\ \A j \in shards : j > i => key \notin DOMAIN Shard(j).some
           all == UNION {DOMAIN Shard(i).some : i \in shards}
<1>1. FromDir(d) = IF shards = {} \/ \E i \in shards : Shard(i) = None THEN None
                   ELSE Some([key \in all |-> Shard(Latest(key)).some[key]])
  BY DEF FromDir
<1>2. DOMAIN ShardNames = 1 .. 3 /\ ShardNames[1] \notin FileNames
      /\ ShardNames[2] \notin FileNames /\ ShardNames[3] = Weights1
  BY DEF ShardNames, FileNames, Weights1
<1>3. Weights1 \notin DOMAIN d => shards = {}
  BY <1>2
<1>4. Weights1 \in DOMAIN d => shards = {3} /\ Shard(3) = d[Weights1]
  BY <1>2
<1> HIDE DEF shards, Shard, Latest, all
<1>5. CASE Weights1 \notin DOMAIN d
  BY <1>1, <1>3, <1>5
<1>6. CASE Weights1 \in DOMAIN d /\ d[Weights1] = None
  BY <1>1, <1>4, <1>6
<1>7. CASE Weights1 \in DOMAIN d /\ d[Weights1] # None
  <2>1. FromDir(d) = Some([key \in all |-> Shard(Latest(key)).some[key]])
    BY <1>1, <1>4, <1>7
  <2>2. all = DOMAIN Shard(3).some
    BY <1>4, <1>7 DEF all
  <2>3. ASSUME NEW key \in all PROVE Latest(key) = 3
    <3>1. \E i \in shards : /\ key \in DOMAIN Shard(i).some
                            /\ \A j \in shards : j > i => key \notin DOMAIN Shard(j).some
      BY <1>4, <1>7, <2>2, <2>3
    <3>2. Latest(key) \in shards
      BY <3>1 DEF Latest
    <3> QED BY <1>4, <1>7, <3>2
  <2>4. [key \in all |-> Shard(Latest(key)).some[key]] = [key \in DOMAIN Shard(3).some |-> Shard(3).some[key]]
    BY <2>2, <2>3
  <2> QED BY <1>4, <1>7, <2>1, <2>4
<1> QED BY <1>5, <1>6, <1>7

\* What a model is loaded from, the chat template apart.
ReadAlike(d, e) ==
    /\ ReadJson(d, "config.json") = ReadJson(e, "config.json")
    /\ ReadJson(d, "tokenizer.json") = ReadJson(e, "tokenizer.json")
    /\ ReadJson(d, "generation_config.json") = ReadJson(e, "generation_config.json")
    /\ FromDir(d) = FromDir(e)

\* Two loaded models with all parts alike but the template.
Alike(p, o) ==
    /\ p.config = o.config /\ p.decoder = o.decoder /\ p.vision = o.vision
    /\ p.video = o.video /\ p.tokenizer = o.tokenizer /\ p.stop_tokens = o.stop_tokens

LEMMA StopsAlike ==
  ASSUME NEW d, NEW e, ReadAlike(d, e)
  PROVE  EosTokenIds(d) = EosTokenIds(e)
<1> DEFINE Nested(config) == IF IsSome(config) /\ Has(config.some, "text_config")
                             THEN Some(config.some["text_config"]) ELSE None
           Found(generation, config) ==
             SelectSeq(<<ParseTokenIds(generation), ParseTokenIds(config),
                         ParseTokenIds(Nested(config))>>, IsSome)
           Stops(generation, config) ==
             IF Found(generation, config) = <<>> THEN LlamaStops
             ELSE Head(Found(generation, config)).some
<1>1. EosTokenIds(d) = Stops(ReadJson(d, "generation_config.json"), ReadJson(d, "config.json"))
  BY DEF EosTokenIds
<1>2. EosTokenIds(e) = Stops(ReadJson(e, "generation_config.json"), ReadJson(e, "config.json"))
  BY DEF EosTokenIds
<1> HIDE DEF Stops
<1> QED BY <1>1, <1>2 DEF ReadAlike

LEMMA LoadedWhole ==
  ASSUME NEW d, IsSome(LlamaLoad(d, None))
  PROVE  /\ IsSome(ReadJson(d, "config.json"))
         /\ IsSome(ReadJson(d, "tokenizer.json"))
         /\ IsSome(FromDir(d))
BY SomeFacts DEF LlamaLoad, LoadAs, LoadParts

LEMMA LoadedAlike ==
  ASSUME NEW d, NEW e, ReadAlike(d, e), IsSome(LlamaLoad(d, None))
  PROVE  /\ IsSome(LlamaLoad(e, None))
         /\ Alike(LlamaLoad(d, None).some, LlamaLoad(e, None).some)
         /\ LlamaLoad(d, None).some.template = LoadChatTemplate(d)
         /\ LlamaLoad(e, None).some.template = LoadChatTemplate(e)
<1> DEFINE v == ReadJson(d, "config.json").some
           w == FromDir(d).some
           arch == FromConfig(v)
           visual == HasVision(arch, v, w)
           parsed == Parsed(arch, v)
           decoder == DecoderOf(arch, w, parsed, None)
           tower == Tower(w, VisionFromJson(v))
           Made(f) == [config |-> parsed.some, decoder |-> decoder.some,
                       vision |-> IF visual THEN tower ELSE None,
                       video |-> visual /\ Has(v, "video_token_id"),
                       tokenizer |-> ReadJson(d, "tokenizer.json").some,
                       stop_tokens |-> EosTokenIds(d), template |-> LoadChatTemplate(f)]
<1>1. LlamaLoad(d, None) = LoadParts(d, v, visual, parsed, decoder, tower)
  BY SomeFacts DEF LlamaLoad, LoadAs
<1>2. LlamaLoad(e, None) = LoadParts(e, v, visual, parsed, decoder, tower)
  BY SomeFacts DEF LlamaLoad, LoadAs, ReadAlike
<1> HIDE DEF v, w, arch, visual, parsed, decoder, tower
<1>3. LoadParts(d, v, visual, parsed, decoder, tower) = Some(Made(d))
  BY <1>1, SomeFacts DEF LoadParts
<1>4. LoadParts(e, v, visual, parsed, decoder, tower) = Some(Made(e))
  BY <1>1, StopsAlike, SomeFacts DEF LoadParts, ReadAlike
<1>5. Alike(Made(d), Made(e)) /\ Made(d).template = LoadChatTemplate(d)
      /\ Made(e).template = LoadChatTemplate(e)
  BY DEF Alike
<1> HIDE DEF Made
<1> QED BY <1>1, <1>2, <1>3, <1>4, <1>5, SomeFacts

LEMMA SameModelAlike ==
  ASSUME NEW p, NEW o, NEW original, NEW quant, Alike(p, o), SameModel(o, original, quant)
  PROVE  SameModel(p, original, quant)
BY DEF Alike, SameModel

-----------------------------------------------------------------------------
(* What holds at every step                                                *)

Written(x) == x[1] \in DOMAIN dir /\ dir[x[1]] = x[2]

AttemptsInv == attempts \in Seq(Requests) /\ \A i \in DOMAIN attempts : Writes(attempts[i])

\* A file of the directory was only begun, or is one that some attempt writes.
StoredInv ==
    /\ DOMAIN dir \subseteq FileNames
    /\ \A name \in DOMAIN dir :
          \/ dir[name] = None
          \/ \E i \in DOMAIN attempts : <<name, dir[name]>> \in Parts(attempts[i])

\* While a request is written, each of its files is still to come or is there.
Writing(request) ==
    /\ job = [request |-> Some(request), files |-> job.files]
    /\ job.files \in Seq(Parts(request))
    /\ \E i \in DOMAIN attempts : attempts[i] = request
    /\ \A x \in Parts(request) : x \in ToSet(job.files) \/ Written(x)
JobInv ==
    \/ job = Idle
    \/ report = None /\ \E request : Writes(request) /\ Writing(request)

\* All of them are there once it was reported.
ReportInv ==
    \/ report = None
    \/ \E request : /\ Writes(request) /\ report = Some(request)
                    /\ \A x \in Parts(request) : Written(x)

SnapshotInv == AttemptsInv /\ StoredInv /\ JobInv /\ ReportInv

LEMMA PartFacts ==
  ASSUME NEW request
  PROVE  /\ FilesOf(request) \in Seq(Parts(request))
         /\ \A x \in Parts(request) : x = <<x[1], x[2]>> /\ x[1] \in FileNames /\ x[2] # None
         /\ \A x, y \in Parts(request) : x[1] = y[1] => x = y
BY FilesOfNamed, SomeFacts DEF WellNamed, Named, Parts

LEMMA EmptyList == ToSet(<<>>) = {}
BY DEF ToSet

LEMMA SnapshotInit == Init => SnapshotInv
<1> SUFFICES ASSUME Init PROVE SnapshotInv
  OBVIOUS
<1>1. AttemptsInv
  BY DEF Init, AttemptsInv
<1>2. StoredInv
  BY DEF Init, StoredInv
<1> QED BY <1>1, <1>2 DEF Init, SnapshotInv, JobInv, ReportInv

\* The files of an attempt are begun only when no other is under way.
LEMMA PrepareStep ==
  ASSUME SnapshotInv, NEW r \in Requests, Prepare(r)
  PROVE  SnapshotInv'
<1>1. attempts' = Append(attempts, r) /\ Writes(r) /\ attempts \in Seq(Requests)
      /\ job' = [request |-> Some(r), files |-> FilesOf(r)] /\ report' = None /\ dir' = dir
  BY DEF Prepare, Writes, SnapshotInv, AttemptsInv
<1>2. /\ attempts' \in Seq(Requests) /\ DOMAIN attempts \subseteq DOMAIN attempts'
      /\ \A i \in DOMAIN attempts : attempts'[i] = attempts[i]
      /\ \E i \in DOMAIN attempts' : attempts'[i] = r
      /\ \A i \in DOMAIN attempts' : i \in DOMAIN attempts \/ attempts'[i] = r
  BY <1>1, AppendProperties, LenProperties
<1>3. AttemptsInv'
  BY <1>1, <1>2 DEF SnapshotInv, AttemptsInv, Writes, Passthrough, Accepted
<1>4. StoredInv'
  BY <1>1, <1>2 DEF SnapshotInv, StoredInv, Parts, FilesOf
<1>5. Writing(r)'
  BY <1>1, <1>2, PartFacts DEF Writing, Parts
<1> QED BY <1>1, <1>3, <1>4, <1>5 DEF SnapshotInv, JobInv, ReportInv

\* A step that writes a file is a step of some request, of which it is a part.
LEMMA HeadIsPart ==
  ASSUME SnapshotInv, job.files # <<>>
  PROVE  /\ report = None
         /\ \E r : /\ Writes(r) /\ Writing(r)
                   /\ Head(job.files) \in Parts(r)
                   /\ Tail(job.files) \in Seq(Parts(r))
                   /\ ToSet(job.files) = {Head(job.files)} \cup ToSet(Tail(job.files))
<1>1. job # Idle
  BY DEF Idle
<1>2. PICK r : Writes(r) /\ Writing(r) /\ report = None
  BY <1>1 DEF SnapshotInv, JobInv
<1> DEFINE s == job.files
<1>3. s \in Seq(Parts(r)) /\ s # <<>>
  BY <1>2 DEF Writing
<1> HIDE DEF s
<1>4. /\ Head(s) = s[1] /\ Head(s) \in Parts(r) /\ Tail(s) \in Seq(Parts(r))
      /\ Len(s) \in Nat \ {0} /\ DOMAIN s = 1 .. Len(s)
      /\ Len(Tail(s)) = Len(s) - 1 /\ DOMAIN Tail(s) = 1 .. Len(s) - 1
      /\ \A i \in 1 .. Len(s) - 1 : Tail(s)[i] = s[i + 1]
  BY <1>3, HeadTailProperties, LenProperties, EmptySeq
<1>5. ASSUME NEW x \in ToSet(s) PROVE x \in {Head(s)} \cup ToSet(Tail(s))
  <2>1. PICK i \in 1 .. Len(s) : x = s[i]
    BY <1>4, <1>5 DEF ToSet
  <2>2. CASE i = 1
    BY <1>4, <2>1, <2>2
  <2>3. CASE i # 1
    <3>1. i - 1 \in 1 .. Len(s) - 1 /\ x = Tail(s)[i - 1]
      BY <1>4, <2>1, <2>3
    <3> QED BY <1>4, <3>1 DEF ToSet
  <2> QED BY <2>2, <2>3
<1>6. ASSUME NEW x \in ToSet(Tail(s)) PROVE x \in ToSet(s)
  <2>1. PICK i \in 1 .. Len(s) - 1 : x = Tail(s)[i]
    BY <1>4, <1>6 DEF ToSet
  <2>2. i + 1 \in 1 .. Len(s) /\ x = s[i + 1]
    BY <1>4, <2>1
  <2> QED BY <1>4, <2>2 DEF ToSet
<1>7. Head(s) \in ToSet(s)
  BY <1>4 DEF ToSet
<1>8. ToSet(s) = {Head(s)} \cup ToSet(Tail(s))
  BY <1>5, <1>6, <1>7
<1> QED BY <1>2, <1>4, <1>8 DEF s

\* Emptying a file of the request leaves its other files as they are.
LEMMA BeginStep ==
  ASSUME SnapshotInv, BeginFile
  PROVE  SnapshotInv'
<1> DEFINE h == Head(job.files)
<1>1. /\ job.files # <<>> /\ dir' = WithFile(h[1], None)
      /\ job' = job /\ report' = report /\ attempts' = attempts
  BY DEF BeginFile
<1>2. PICK r : /\ Writes(r) /\ Writing(r) /\ report = None /\ h \in Parts(r)
               /\ ToSet(job.files) = {h} \cup ToSet(Tail(job.files))
  BY <1>1, HeadIsPart
<1> HIDE DEF h
<1>3. /\ DOMAIN dir' = DOMAIN dir \cup {h[1]} /\ dir'[h[1]] = None
      /\ \A name \in DOMAIN dir : name # h[1] => dir'[name] = dir[name]
  BY <1>1 DEF WithFile
<1>4. AttemptsInv'
  BY <1>1 DEF SnapshotInv, AttemptsInv, Writes, Passthrough, Accepted
<1>5. StoredInv'
  BY <1>1, <1>2, <1>3, PartFacts DEF SnapshotInv, StoredInv, Parts, FilesOf
<1>6. Writing(r)'
  <2>1. ASSUME NEW x \in Parts(r) PROVE x \in ToSet(job.files) \/ Written(x)'
    <3>1. CASE x[1] = h[1]
      BY <1>2, <3>1, PartFacts
    <3>2. CASE x[1] # h[1]
      BY <1>2, <1>3, <2>1, <3>2 DEF Writing, Written
    <3> QED BY <3>1, <3>2
  <2> QED BY <1>1, <1>2, <2>1 DEF Writing
<1> QED BY <1>1, <1>2, <1>4, <1>5, <1>6 DEF SnapshotInv, JobInv, ReportInv

\* Once it is written it is off the list.
LEMMA EndStep ==
  ASSUME SnapshotInv, EndFile
  PROVE  SnapshotInv'
<1> DEFINE h == Head(job.files)
           rest == Tail(job.files)
<1>1. /\ job.files # <<>> /\ dir' = WithFile(h[1], h[2])
      /\ job' = [job EXCEPT !.files = rest] /\ report' = report /\ attempts' = attempts
  BY DEF EndFile
<1>2. PICK r : /\ Writes(r) /\ Writing(r) /\ report = None
               /\ h \in Parts(r) /\ rest \in Seq(Parts(r))
               /\ ToSet(job.files) = {h} \cup ToSet(rest)
  BY <1>1, HeadIsPart
<1> HIDE DEF h, rest
<1>3. /\ DOMAIN dir' = DOMAIN dir \cup {h[1]} /\ dir'[h[1]] = h[2]
      /\ \A name \in DOMAIN dir : name # h[1] => dir'[name] = dir[name]
  BY <1>1 DEF WithFile
<1>4. job' = [request |-> Some(r), files |-> rest]
  BY <1>1, <1>2 DEF Writing
<1>5. AttemptsInv'
  BY <1>1 DEF SnapshotInv, AttemptsInv, Writes, Passthrough, Accepted
<1>6. StoredInv'
  <2>1. ASSUME NEW name \in DOMAIN dir'
        PROVE  dir'[name] = None \/ \E i \in DOMAIN attempts : <<name, dir'[name]>> \in Parts(attempts[i])
    <3>1. CASE name = h[1]
      <4>1. <<name, dir'[name]>> = h
        BY <1>2, <1>3, <3>1, PartFacts
      <4>2. PICK i \in DOMAIN attempts : attempts[i] = r
        BY <1>2 DEF Writing
      <4> QED BY <1>2, <4>1, <4>2
    <3>2. CASE name # h[1]
      BY <1>3, <2>1, <3>2 DEF SnapshotInv, StoredInv
    <3> QED BY <3>1, <3>2
  <2> QED BY <1>1, <1>2, <1>3, <2>1, PartFacts DEF SnapshotInv, StoredInv
<1>7. Writing(r)'
  <2>1. ASSUME NEW x \in Parts(r) PROVE x \in ToSet(rest) \/ Written(x)'
    <3>1. CASE x[1] = h[1]
      BY <1>2, <1>3, <3>1, PartFacts DEF Written
    <3>2. CASE x[1] # h[1]
      BY <1>2, <1>3, <2>1, <3>2 DEF Writing, Written
    <3> QED BY <3>1, <3>2
  <2>2. /\ job'.files = rest /\ job' = [request |-> Some(r), files |-> job'.files]
        /\ \E i \in DOMAIN attempts' : attempts'[i] = r
    BY <1>1, <1>2, <1>4 DEF Writing
  <2> QED BY <1>2, <2>1, <2>2 DEF Writing
<1> QED BY <1>1, <1>2, <1>5, <1>6, <1>7 DEF SnapshotInv, JobInv, ReportInv

LEMMA InterruptStep ==
  ASSUME SnapshotInv, Interrupt
  PROVE  SnapshotInv'
BY DEF SnapshotInv, Interrupt, AttemptsInv, StoredInv, JobInv, ReportInv, Written

\* With nothing left to write, every file is there.
LEMMA ReportStep ==
  ASSUME SnapshotInv, Report
  PROVE  SnapshotInv'
<1>1. IsSome(job.request) /\ job.files = <<>> /\ report' = job.request /\ job' = Idle
      /\ dir' = dir /\ attempts' = attempts
  BY DEF Report
<1>2. job # Idle
  BY <1>1, SomeFacts DEF Idle
<1>3. PICK r : Writes(r) /\ Writing(r)
  BY <1>2 DEF SnapshotInv, JobInv
<1>4. job.request = Some(r) /\ \A x \in Parts(r) : Written(x)
  BY <1>1, <1>3, EmptyList DEF Writing
<1>5. AttemptsInv' /\ StoredInv'
  BY <1>1 DEF SnapshotInv, AttemptsInv, StoredInv
<1>6. \A x \in Parts(r) : Written(x)'
  BY <1>1, <1>4 DEF Written
<1> QED BY <1>1, <1>3, <1>4, <1>5, <1>6 DEF SnapshotInv, JobInv, ReportInv

LEMMA SnapshotStep == SnapshotInv /\ [Next]_vars => SnapshotInv'
<1> SUFFICES ASSUME SnapshotInv, [Next]_vars PROVE SnapshotInv'
  OBVIOUS
<1>1. ASSUME NEW request \in Requests, Prepare(request) PROVE SnapshotInv'
  BY <1>1, PrepareStep
<1>2. CASE BeginFile
  BY <1>2, BeginStep
<1>3. CASE EndFile
  BY <1>3, EndStep
<1>4. CASE Interrupt
  BY <1>4, InterruptStep
<1>5. CASE Report
  BY <1>5, ReportStep
<1>6. CASE UNCHANGED vars
  BY <1>6 DEF vars, SnapshotInv, AttemptsInv, StoredInv, JobInv, ReportInv, Writing, Written
<1> QED BY <1>1, <1>2, <1>3, <1>4, <1>5, <1>6 DEF Next

-----------------------------------------------------------------------------
(* The theorems                                                            *)

\* The directory is always made of whole files of the attempts and of files that
\* were only begun; while a request is written none of its files is missing that
\* is not still to come, and after its report none is (prepare, write_snapshot).
THEOREM SpecSnapshotInv == Spec => []SnapshotInv
BY SnapshotInit, SnapshotStep, PTL DEF Spec

\* The names and contents are all that loading looks at.
LEMMA StoredReads ==
  ASSUME SnapshotInv
  PROVE  /\ ReadJson(dir, "generation_config.json") = None
         /\ \A name \in FileNames : IsSome(ReadJson(dir, name)) =>
               \E i \in DOMAIN attempts : <<name, ReadJson(dir, name)>> \in Parts(attempts[i])
BY SomeFacts DEF SnapshotInv, StoredInv, ReadJson, FileNames

LEMMA WholeReads ==
  ASSUME NEW r
  PROVE  /\ ReadJson(Whole(r), "generation_config.json") = None
         /\ DOMAIN Whole(r) \subseteq FileNames
         /\ \A x \in Parts(r) : ReadJson(Whole(r), x[1]) = x[2]
<1>1. DOMAIN Whole(r) \subseteq FileNames
  <2>1. ASSUME NEW name \in DOMAIN Whole(r) PROVE name \in FileNames
    <3>1. <<name, Whole(r)[name]>> \in Parts(r)
      BY WholeFacts
    <3>2. <<name, Whole(r)[name]>>[1] = name
      OBVIOUS
    <3> QED BY <3>1, <3>2, PartFacts
  <2> QED BY <2>1
<1> QED BY <1>1, WholeFacts DEF ReadJson, FileNames

\* A weights file that is whole, the only one there is.
LEMMA SameWeights ==
  ASSUME NEW d, NEW e, DOMAIN d \subseteq FileNames, DOMAIN e \subseteq FileNames,
         ReadJson(d, Weights1) = ReadJson(e, Weights1)
  PROVE  FromDir(d) = FromDir(e)
BY FromDirOfOne DEF ReadJson

LEMMA ReportedReads ==
  ASSUME SnapshotInv, SourcesHoldTokenizers, IsSome(report), SuppliesTokenizer(report.some)
  PROVE  /\ Writes(report.some)
         /\ ReadAlike(dir, Whole(report.some))
         /\ LoadChatTemplate(dir) = LoadChatTemplate(Whole(report.some))
<1>1. PICK r : /\ Writes(r) /\ report = Some(r) /\ report.some = r
               /\ \A x \in Parts(r) : Written(x)
  BY SomeFacts DEF SnapshotInv, ReportInv
<1>2. \A name \in FileNames : \E x \in Parts(r) : x[1] = name
  BY <1>1, FilesOfNamed, TokenizerParts DEF WellNamed, FileNames
<1>3. \A name \in FileNames : ReadJson(dir, name) = ReadJson(Whole(r), name)
  <2>1. ASSUME NEW name \in FileNames PROVE ReadJson(dir, name) = ReadJson(Whole(r), name)
    <3>1. PICK x \in Parts(r) : x[1] = name
      BY <1>2
    <3>2. ReadJson(dir, name) = x[2]
      BY <1>1, <3>1 DEF Written, ReadJson
    <3>3. ReadJson(Whole(r), name) = x[2]
      BY <3>1, WholeReads
    <3> QED BY <3>2, <3>3
  <2> QED BY <2>1
<1>4. FromDir(dir) = FromDir(Whole(r))
  BY <1>3, SameWeights, WholeReads DEF SnapshotInv, StoredInv, FileNames, Weights1
<1>5. ReadAlike(dir, Whole(r))
  BY <1>3, <1>4, StoredReads, WholeReads DEF ReadAlike, FileNames
<1>6. LoadChatTemplate(dir) = LoadChatTemplate(Whole(r))
  BY <1>3 DEF LoadChatTemplate, FileNames
<1> QED BY <1>1, <1>5, <1>6

\* A report means that the directory serves the source, whatever was prepared
\* into it before, and whether or not that was cut short (prepare): what a write
\* into an empty directory serves, a write into this one serves.
THEOREM SpecPreparedServesTheSource ==
  ASSUME WholeServes, SourcesHoldTokenizers
  PROVE  Spec => []PreparedServesTheSource
<1>1. ASSUME SnapshotInv PROVE PreparedServesTheSource
  <2> SUFFICES ASSUME IsSome(report), SuppliesTokenizer(report.some)
               PROVE  Serves(LlamaLoad(dir, None), report.some)
    BY DEF PreparedServesTheSource
  <2> DEFINE r == report.some
  <2>1. /\ Writes(r) /\ ReadAlike(dir, Whole(r))
        /\ LoadChatTemplate(dir) = LoadChatTemplate(Whole(r))
    BY <1>1, ReportedReads
  <2> HIDE DEF r
  <2>2. Serves(LlamaLoad(Whole(r), None), r)
    BY <2>1 DEF WholeServes, Writes, r
  <2>3. ReadAlike(Whole(r), dir)
    BY <2>1 DEF ReadAlike
  <2>4. /\ IsSome(LlamaLoad(dir, None))
        /\ Alike(LlamaLoad(Whole(r), None).some, LlamaLoad(dir, None).some)
        /\ LlamaLoad(dir, None).some.template = LlamaLoad(Whole(r), None).some.template
    BY <2>1, <2>2, <2>3, LoadedAlike DEF Serves
  <2>5. Alike(LlamaLoad(dir, None).some, LlamaLoad(Whole(r), None).some)
    BY <2>4 DEF Alike
  <2> QED BY <2>2, <2>4, <2>5, SameModelAlike DEF Serves, r
<1> QED BY <1>1, SpecSnapshotInv, PTL

\* What a file that is whole holds, if every attempt was of one request.
LEMMA OnlyReads ==
  ASSUME SnapshotInv, NEW r, \A i \in DOMAIN attempts : attempts[i] = r,
         NEW name \in FileNames, IsSome(ReadJson(dir, name))
  PROVE  /\ ReadJson(dir, name) = ReadJson(Whole(r), name)
         /\ \E x \in Parts(r) : x[1] = name
<1>1. <<name, ReadJson(dir, name)>> \in Parts(r)
  BY StoredReads
<1> DEFINE x == <<name, ReadJson(dir, name)>>
<1>2. x \in Parts(r) /\ x[1] = name /\ x[2] = ReadJson(dir, name)
  BY <1>1
<1> HIDE DEF x
<1> QED BY <1>2, WholeReads

\* A directory that received one request only serves that request's model or
\* none, whenever and however often it was interrupted (prepare, write_snapshot):
\* no mixture of files that were written, files of an earlier attempt and files
\* that were only begun loads as anything else.
THEOREM SpecInterruptedServesNothingElse ==
  ASSUME WholeServes
  PROVE  Spec => []InterruptedServesNothingElse
<1>1. ASSUME SnapshotInv PROVE InterruptedServesNothingElse
  <2> SUFFICES ASSUME NEW r \in Requests, attempts # <<>>,
                      \A i \in DOMAIN attempts : attempts[i] = r,
                      IsSome(LlamaLoad(dir, None))
               PROVE  OnlyServes(LlamaLoad(dir, None), r)
    BY DEF InterruptedServesNothingElse, OnlyServes
  <2>1. /\ IsSome(ReadJson(dir, "config.json"))
        /\ IsSome(ReadJson(dir, "tokenizer.json"))
        /\ IsSome(FromDir(dir))
    BY LoadedWhole
  <2>2. Writes(r)
    <3>1. attempts \in Seq(Requests) /\ 1 \in DOMAIN attempts
      BY <1>1, EmptySeq, LenProperties DEF SnapshotInv, AttemptsInv
    <3> QED BY <1>1, <3>1 DEF SnapshotInv, AttemptsInv
  <2>3. DOMAIN dir \subseteq FileNames /\ DOMAIN Whole(r) \subseteq FileNames
    BY <1>1, WholeReads DEF SnapshotInv, StoredInv
  <2>4. IsSome(ReadJson(dir, Weights1))
    <3>1. Weights1 \in DOMAIN dir /\ dir[Weights1] # None
      BY <2>1, <2>3, FromDirOfOne, SomeFacts
    <3>2. \E i \in DOMAIN attempts : <<Weights1, dir[Weights1]>> \in Parts(attempts[i])
      BY <1>1, <3>1 DEF SnapshotInv, StoredInv
    <3>3. \A x \in Parts(r) : IsSome(x[2])
      BY FilesOfNamed DEF WellNamed, Named, Parts
    <3>4. IsSome(<<Weights1, dir[Weights1]>>[2])
      BY <3>2, <3>3
    <3> QED BY <3>1, <3>4 DEF ReadJson
  <2>5. /\ ReadJson(dir, "config.json") = ReadJson(Whole(r), "config.json")
        /\ ReadJson(dir, "tokenizer.json") = ReadJson(Whole(r), "tokenizer.json")
        /\ ReadJson(dir, Weights1) = ReadJson(Whole(r), Weights1)
        /\ \E x \in Parts(r) : x[1] = "tokenizer.json"
    BY <1>1, <2>1, <2>4, OnlyReads DEF FileNames, Weights1
  <2>6. ReadAlike(dir, Whole(r))
    BY <1>1, <2>3, <2>5, SameWeights, StoredReads, WholeReads DEF ReadAlike
  <2>7. /\ IsSome(LlamaLoad(Whole(r), None))
        /\ Alike(LlamaLoad(dir, None).some, LlamaLoad(Whole(r), None).some)
        /\ LlamaLoad(dir, None).some.template = LoadChatTemplate(dir)
        /\ LlamaLoad(Whole(r), None).some.template = LoadChatTemplate(Whole(r))
    BY <2>6, LoadedAlike
  <2>8. SuppliesTokenizer(r)
    BY <2>2, <2>5, TokenizerParts
  <2>9. Serves(LlamaLoad(Whole(r), None), r)
    BY <2>2, <2>8 DEF WholeServes
  <2>10. LoadChatTemplate(dir) \in {LoadChatTemplate(Whole(r)), "Llama3Template"}
    <3>1. CASE IsSome(ReadJson(dir, "tokenizer_config.json"))
      BY <1>1, <3>1, OnlyReads DEF LoadChatTemplate, FileNames
    <3>2. CASE ~IsSome(ReadJson(dir, "tokenizer_config.json"))
      BY <3>2 DEF LoadChatTemplate
    <3> QED BY <3>1, <3>2
  <2> QED BY <2>7, <2>9, <2>10, SameModelAlike DEF Serves, OnlyServes
<1> QED BY <1>1, SpecSnapshotInv, PTL
=============================================================================
