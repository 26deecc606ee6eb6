----------------------------- MODULE PrefixReuse ----------------------------
(***************************************************************************)
(* The shared-prefix KV cache of src/decode/prefix.rs and generate_cached,  *)
(* which wraps the decode loop: the longest stored prefix seeds the cache,  *)
(* the rest of the prompt is prefilled, and at the end the prompt and the   *)
(* generated tokens are stored with the cache's keys and values.            *)
(*                                                                          *)
(* index is the external core_llm::PrefixIndex, modelled from its use: it   *)
(* finds a stored sequence that shares the longest prefix with a prompt,    *)
(* and keeps the capacity most recently used ones.                          *)
(***************************************************************************)
EXTENDS DecodeLoop

CONSTANTS
  Capacity,  \* stored sequences the cache retains
  Entry,     \* Entry[r]: the entry point the caller of r uses
  Garbage    \* what a gather past the end of a tensor reads

ASSUME CapacityAssumption == Capacity \in Nat
ASSUME EntryAssumption ==
  Entry \in [Requests -> {"generate_with", "generate_with_cache", "generate_cached"}]
ASSUME GarbageAssumption == Garbage \notin Tokens

VARIABLES
  index,  \* the stored token sequences, least recently used first
  kv      \* kv[s]: the keys and values held for the stored sequence s

vars == <<stream, cancel, called, current, pc, cache, logits, generated, out, done, index, kv>>

Init ==
  /\ LoopInit
  /\ index = <<>>
  /\ kv = <<>>

-----------------------------------------------------------------------------
(* Looking up *)

Shared(s, t) == Len(LongestCommonPrefix({s, t}))

(* The stored sequences that share the longest prefix with the prompt. *)
Matches(prompt) ==
  {s \in ToSet(index) : \A t \in ToSet(index) : Shared(t, prompt) <= Shared(s, prompt)}

(* Mutant: a match of the whole prompt is used in full. *)
ReusedLen_WholePrompt(s, prompt) == Shared(s, prompt)

(* At least one token is left to prefill. *)
ReusedLen(s, prompt) ==
  IF Shared(s, prompt) < Len(prompt) THEN Shared(s, prompt) ELSE Len(prompt) - 1

(* slice_layers: the first n positions.  A gather past the end is not        *)
(* checked: it reads whatever is there.                                      *)
SliceLayers(layers, n) ==
  [i \in 1 .. n |-> IF i <= Len(layers) THEN layers[i] ELSE Garbage]

(* A sequence becomes the most recently used one. *)
Touch(s) == Append(RemoveFirst(index, s), s)

(* seed_for finds a prefix to reuse. *)
Hit(r) ==
  /\ Entry[r] = "generate_cached"
  /\ \E s \in Matches(Prompt[r]) :
       /\ ReusedLen(s, Prompt[r]) > 0
       /\ s \in DOMAIN kv
       /\ BeginWith(r, SliceLayers(kv[s], ReusedLen(s, Prompt[r])))
       /\ index' = Touch(s)
  /\ UNCHANGED kv

(* seed_for finds nothing: the prompt is prefilled cold. *)
Miss(r) ==
  /\ Entry[r] = "generate_cached"
  /\ \A s \in Matches(Prompt[r]) : ReusedLen(s, Prompt[r]) = 0 \/ s \notin DOMAIN kv
  /\ BeginWith(r, <<>>)
  /\ UNCHANGED <<index, kv>>

-----------------------------------------------------------------------------
(* Storing *)

(* Mutant: the keys and values of an evicted sequence stay. *)
Evict_KeepsKv(kept, s) ==
  [t \in {s} \cup DOMAIN kv |-> IF t = s THEN cache ELSE kv[t]]

(* The keys and values of the sequences the index kept. *)
Evict(kept, s) ==
  [t \in kept \cap ({s} \cup DOMAIN kv) |-> IF t = s THEN cache ELSE kv[t]]

(* Mutant: the sequence is indexed by its prompt alone. *)
StoredTokens_PromptOnly(r) == Prompt[r]

StoredTokens(r) == Prompt[r] \o generated[r]

(* store, at the end of generate_cached *)
Store ==
  /\ pc = "ended"
  /\ Entry[current] = "generate_cached"
  /\ LET s == StoredTokens(current)
         all == Touch(s)
         kept == SubSeq(all, IF Len(all) > Capacity THEN Len(all) - Capacity + 1 ELSE 1, Len(all))
     IN /\ index' = kept
        /\ kv' = Evict(ToSet(kept), s)
  /\ Leave
  /\ UNCHANGED <<stream, cancel, called, current, generated, out, done>>

-----------------------------------------------------------------------------
(* The other entry points *)

(* generate_with starts cold. *)
GenerateWith(r) ==
  /\ Entry[r] = "generate_with"
  /\ BeginWith(r, <<>>)
  /\ UNCHANGED <<index, kv>>

(* generate_with_cache: the caller's cache holds the first n prompt tokens.  *)
GenerateWithCache(r, n) ==
  /\ Entry[r] = "generate_with_cache"
  /\ n < Len(Prompt[r])
  /\ BeginWith(r, SubSeq(Prompt[r], 1, n))
  /\ UNCHANGED <<index, kv>>

(* It is refused when nothing is left to prefill. *)
NoSuffix(r, n) ==
  /\ Entry[r] = "generate_with_cache"
  /\ MayCall(r)
  /\ n = Len(Prompt[r])
  /\ called' = called \cup {r}
  /\ UNCHANGED <<stream, cancel, current, pc, cache, logits, generated, out, done, index, kv>>

Return ==
  /\ pc = "ended"
  /\ Entry[current] # "generate_cached"
  /\ Leave
  /\ UNCHANGED <<stream, cancel, called, current, generated, out, done, index, kv>>

-----------------------------------------------------------------------------

Call(r) ==
  \/ Hit(r) \/ Miss(r) \/ GenerateWith(r)
  \/ \E n \in 0 .. Len(Prompt[r]) : GenerateWithCache(r, n) \/ NoSuffix(r, n)
  \/ Refuse(r) /\ UNCHANGED <<index, kv>>

Next ==
  \/ Store \/ Return
  \/ Loop /\ UNCHANGED <<index, kv>>
  \/ \E r \in Requests : Call(r) \/ (Cancel(r) /\ UNCHANGED <<index, kv>>)

Spec == Init /\ [][Next]_vars

-----------------------------------------------------------------------------
(* The one thing a caller must not do: continue the whole of a stored        *)
(* sequence whose last token was not fed.                                    *)
NoOverrun ==
  \A r \in Requests, s \in DOMAIN kv :
    Entry[r] = "generate_cached" /\ MayCall(r) /\ IsStrictPrefix(s, Prompt[r])
      => Len(kv[s]) >= Len(s)

-----------------------------------------------------------------------------
(* Properties *)

TypeOK ==
  /\ LoopTypeOK
  /\ cache \in Seq(Tokens \cup {Junk, Garbage})
  /\ index \in Seq(Seq(Tokens \cup {Junk}))
  /\ \A s \in DOMAIN kv : kv[s] \in Seq(Tokens \cup {Junk, Garbage})

(* What is held for a stored sequence is a prefix of it, short of it by at   *)
(* most the one token a full budget leaves unfed.                            *)
KvBelongsToKey ==
  \A s \in DOMAIN kv : IsPrefix(kv[s], s) /\ Len(s) - Len(kv[s]) <= 1

(* The tensors are bounded by the capacity: what the index evicts, and only  *)
(* that, is freed, through re-insertions and failed calls.                   *)
KvMatchesIndex ==
  /\ TypeOK
  /\ DOMAIN kv = ToSet(index)
  /\ Len(index) = Cardinality(ToSet(index))
  /\ Len(index) <= Capacity

(* The doc comment of generate_cached: a cached run is token for token       *)
(* identical to a cold one.                                                  *)
CachedEqualsCold == \A r \in Requests : IsPrefix(out[r], stream[r])

=============================================================================
