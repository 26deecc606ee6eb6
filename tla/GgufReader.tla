----------------------------- MODULE GgufReader -----------------------------
(***************************************************************************)
(* A GGUF file as it is opened: header, metadata, tensor infos, and the    *)
(* aligned data behind them (src/src/gguf/reader.rs, and the lengths of    *)
(* src/src/gguf/dequant.rs).                                               *)
(*                                                                         *)
(* A file is [magic, version, kv, infos, size, blobs]: the metadata and    *)
(* tensor entries in order, the file's length, and what was written at     *)
(* which offset of it.  A value is [tag, v], a string of len bytes with its*)
(* len, an array with the tag elem of its elements.  Lengths and offsets   *)
(* are small: no sum wraps around.                                         *)
(***************************************************************************)
EXTENDS ModelConfig, GgufBlocks, FiniteSetsExt, Functions

\* The width of a scalar of each tag; 8 is a string and 9 an array.
Width == [tag \in (0 .. 7) \cup (10 .. 12) |->
            CASE tag \in {0, 1, 7} -> 1 [] tag \in {2, 3} -> 2
              [] tag \in {4, 5, 6} -> 4 [] OTHER -> 8]

\* Cursor::value: whether it can be read, and how many bytes that takes.
Scalar(tag) == tag \in DOMAIN Width
ValueReads(x) ==
    \/ Scalar(x.tag) \/ x.tag = 8
    \/ x.tag = 9 /\ (Scalar(x.elem) \/ x.elem = 8 \/ (x.v = <<>> /\ x.elem # 9))
FlatBytes(x) == IF x.tag = 8 THEN 8 + x.len ELSE Width[x.tag]
ValueBytes(x) ==
    IF x.tag # 9 THEN FlatBytes(x)
    ELSE 12 + FoldFunction(LAMBDA item, n : n + FlatBytes(item), 0, x.v)

\* MetaValue::as_u64, as_i64, as_f64, as_str, as_bool and as_array: the value, if
\* its tag is one that the getter takes.  Only as_u64 reads a boolean as a number.
Integral == {0, 1, 2, 3, 4, 5, 10, 11}
Takes == [u64 |-> Integral, i64 |-> Integral, f64 |-> {6, 12}, str |-> {8}, bool |-> {7},
          array |-> {9}]
As(type, x) ==
    CASE x.tag \in Takes[type] /\ ~(type = "u64" /\ x.v < 0) -> Some(x.v)
      [] type = "u64" /\ x.tag = 7 -> Some(IF x.v THEN 1 ELSE 0)
      [] OTHER -> None

\* meta, meta_str, meta_u64, meta_f64: a value of the type asked for.
Meta(g, key, type) ==
    IF key \in DOMAIN g.metadata THEN As(type, g.metadata[key]) ELSE None
OrElse(option, default) == IF IsSome(option) THEN option.some ELSE default
\* str_array, i64_array, f32_array: every element of the type asked for.
MetaArray(g, key, type) ==
    LET items == Meta(g, key, "array")
    IN  IF items = None \/ \E i \in DOMAIN items.some : As(type, items.some[i]) = None THEN None
        ELSE Some([i \in DOMAIN items.some |-> As(type, items.some[i]).some])

-----------------------------------------------------------------------------
\* GgufFile::parse, or None for an error.  Where a key occurs twice, the later
\* value stays; dimensions are turned round.
Magic == "GGUF"
EntryBytes(kv) == 8 + kv.len + 4 + ValueBytes(kv.value)
InfoBytes(info) == 8 + info.len + 4 + 8 * Len(info.ne) + 4 + 8
RoundUp(n, alignment) == ((n + alignment - 1) \div alignment) * alignment
Reversed(s) == [i \in DOMAIN s |-> s[Len(s) + 1 - i]]

Parse(file) ==
    LET last(key) == CHOOSE i \in DOMAIN file.kv :
                        /\ file.kv[i].key = key
                        /\ \A j \in i + 1 .. Len(file.kv) : file.kv[j].key # key
        metadata == [key \in {file.kv[i].key : i \in DOMAIN file.kv} |->
                       file.kv[last(key)].value]
        alignment == AtLeast(1, OrElse(Meta([metadata |-> metadata], "general.alignment", "u64"), 32))
        header == FoldFunction(LAMBDA info, n : n + InfoBytes(info),
                               FoldFunction(LAMBDA kv, n : n + EntryBytes(kv), 24, file.kv),
                               file.infos)
        data_start == RoundUp(header, alignment)
    IN  IF \/ file.magic # Magic \/ file.version \notin 2 .. 3
           \/ \E i \in DOMAIN file.kv : ~ValueReads(file.kv[i].value)
           \/ \E i \in DOMAIN file.infos : Len(file.infos[i].ne) \notin 1 .. 4
           \/ header > file.size
           \/ file.infos # <<>> /\ data_start > file.size
        THEN None
        ELSE Some([metadata |-> metadata, data_start |-> data_start,
                   size |-> file.size, blobs |-> file.blobs,
                   tensors |-> [i \in DOMAIN file.infos |->
                       [name |-> file.infos[i].name, ggml_type |-> file.infos[i].ggml_type,
                        offset |-> file.infos[i].offset,
                        shape |-> Reversed(file.infos[i].ne)]]])

\* num_elements and tensor_byte_len
NumElements(shape) == FoldFunction(LAMBDA d, n : n * d, 1, shape)
TensorByteLen(tag, n) ==
    IF tag \notin DOMAIN FromTag \/ n % Block[FromTag[tag]][1] # 0 THEN None
    ELSE Some((n \div Block[FromTag[tag]][1]) * Block[FromTag[tag]][2])

\* tensor_data: where the bytes of a tensor begin, if they are all in the file.
Span(g, start, nbytes) ==
    IF nbytes = None \/ start + nbytes.some > g.size THEN None ELSE Some(start)
TensorData(g, info) ==
    Span(g, g.data_start + info.offset,
         TensorByteLen(info.ggml_type, NumElements(info.shape)))

\* dequantize, of the bytes from start on: the tensor whose blocks begin there,
\* if they are of that type and as many; anything else is read for what it is not.
Dequantize(g, info, start) ==
    IF /\ start \in DOMAIN g.blobs
       /\ g.blobs[start].stored = [type |-> info.ggml_type, elements |-> NumElements(info.shape)]
    THEN g.blobs[start].tensor ELSE <<"garbage", <<>>, <<>>>>
=============================================================================
