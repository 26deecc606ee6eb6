----------------------------- MODULE DecodeLoop -----------------------------
(***************************************************************************)
(* The single-sequence decode loop of src/decode/stream.rs (decode_loop)    *)
(* and its entry points that are not tied to a prefix cache.  One engine    *)
(* runs one call at a time; calls follow each other in any order, each with *)
(* its own CancelFlag, which another thread or on_event may set at any time.*)
(*                                                                          *)
(* A KV cache is the sequence of tokens it was computed from.  The budget,  *)
(* the cancel check, the stop token, the host's should_stop and the         *)
(* feed-back of the last token happen in the order the loop has them.       *)
(***************************************************************************)
EXTENDS Integers, Sequences, FiniteSets, SequencesExt

CONSTANTS
  Requests, Tokens, StopTokens, Budget, Models, Hosted,  \* as in Generation
  Prompt,    \* Prompt[r]: the prompt token ids
  Junk,      \* the token sampled from a wrong context
  MaxCalls   \* bound: how many of the requests one run calls

ASSUME RequestsAssumption == Requests # {}
ASSUME StopTokensAssumption == StopTokens \in [Requests -> SUBSET Tokens]
ASSUME BudgetAssumption == Budget \in [Requests -> Nat]
ASSUME ModelsAssumption ==
  \A s \in Models : /\ s \in [Requests -> Seq(Tokens)]
                    /\ \A r \in Requests : Len(s[r]) = Budget[r]
ASSUME PromptAssumption == Prompt \in [Requests -> Seq(Tokens) \ {<<>>}]
ASSUME JunkAssumption == Junk \notin Tokens
ASSUME MaxCallsAssumption == MaxCalls \in Nat

VARIABLES
  stream,     \* as in Generation
  cancel,     \* cancel[r]: the CancelFlag of the call of r
  called,     \* the requests whose call has begun
  current,    \* the request of the running call
  pc,         \* where the running call is, "idle" when there is none
  cache,      \* the tokens in the KV cache of the running call
  logits,     \* the token the last forward yields
  generated,  \* generated[r]: the tokens of the call so far
  out,        \* out[r]: the ids of the Token events of r
  done        \* done[r]: the Done events of r

loopVars == <<stream, cancel, called, current, pc, cache, logits, generated, out, done>>

(* The token sampled after a forward over these tokens: token k + 1 of the   *)
(* stream over the prompt and its first k tokens.                            *)
Sampled(r, context) ==
  LET k == Len(context) - Len(Prompt[r])
  IN IF k \in 0 .. Budget[r] - 1 /\ context = Prompt[r] \o SubSeq(stream[r], 1, k)
     THEN stream[r][k + 1]
     ELSE Junk

LoopInit ==
  /\ stream \in Models
  /\ cancel = [r \in Requests |-> FALSE]
  /\ called = {}
  /\ current = CHOOSE r \in Requests : TRUE
  /\ pc = "idle"
  /\ cache = <<>>
  /\ logits = Junk
  /\ generated = [r \in Requests |-> <<>>]
  /\ out = [r \in Requests |-> <<>>]
  /\ done = [r \in Requests |-> <<>>]

(* The flag of a running call may be set at any time, by another thread or   *)
(* by on_event.                                                              *)
Cancel(r) ==
  /\ current = r /\ pc # "idle"
  /\ ~cancel[r]
  /\ cancel' = [cancel EXCEPT ![r] = TRUE]
  /\ UNCHANGED <<stream, called, current, pc, cache, logits, generated, out, done>>

-----------------------------------------------------------------------------
(* Beginning a call *)

(* No call runs, and the engine's life is not over. *)
MayCall(r) ==
  /\ pc = "idle"
  /\ r \notin called
  /\ Cardinality(called) < MaxCalls

(* A call whose flag was set before it returns Error::Canceled.  Nothing     *)
(* else reads the flag of a call that has not begun, so it is set here.      *)
Refuse(r) ==
  /\ MayCall(r)
  /\ cancel' = [cancel EXCEPT ![r] = TRUE]
  /\ called' = called \cup {r}
  /\ UNCHANGED <<stream, current, pc, cache, logits, generated, out, done>>

(* The call of r begins with a KV cache that holds these tokens. *)
BeginWith(r, held) ==
  /\ MayCall(r)
  /\ called' = called \cup {r}
  /\ current' = r
  /\ cache' = held
  /\ pc' = "prefill"
  /\ UNCHANGED <<stream, cancel, logits, generated, out, done>>

(* The prompt tokens past the cached ones are run at that offset.  A forward *)
(* over no token yields no logits.                                           *)
Prefill ==
  /\ pc = "prefill"
  /\ cache' = cache \o SubSeq(Prompt[current], Len(cache) + 1, Len(Prompt[current]))
  /\ logits' = IF cache' = cache THEN Junk ELSE Sampled(current, cache')
  /\ pc' = "loop"
  /\ UNCHANGED <<stream, cancel, called, current, generated, out, done>>

(* The call returns: its KV cache and its logits are dropped. *)
Leave ==
  /\ pc' = "idle"
  /\ cache' = <<>>
  /\ logits' = Junk

(* A forward or a sample returns an error, which leaves through `?`. *)
Fail ==
  /\ \/ pc = "prefill"
     \/ pc = "feed"
     \/ pc = "loop" /\ Len(generated[current]) < Budget[current] /\ ~cancel[current]
  /\ Leave
  /\ UNCHANGED <<stream, cancel, called, current, generated, out, done>>

-----------------------------------------------------------------------------
(* The loop *)

(* The loop ends: the Done event, and the output is returned. *)
LoopEnd(why) ==
  /\ done' = [done EXCEPT ![current] =
       Append(@, [reason |-> why, generated |-> Len(generated'[current])])]
  /\ pc' = "ended"

(* A budget of zero: the range of steps is empty. *)
Exhausted ==
  /\ pc = "loop"
  /\ Len(generated[current]) >= Budget[current]
  /\ UNCHANGED <<stream, cancel, called, current, cache, logits, generated, out>>
  /\ LoopEnd("MaxTokens")

Cancelled ==
  /\ pc = "loop"
  /\ Len(generated[current]) < Budget[current]
  /\ cancel[current]
  /\ UNCHANGED <<stream, cancel, called, current, cache, logits, generated, out>>
  /\ LoopEnd("Cancelled")

StopToken ==
  /\ pc = "loop"
  /\ Len(generated[current]) < Budget[current]
  /\ ~cancel[current]
  /\ logits \in StopTokens[current]
  /\ UNCHANGED <<stream, cancel, called, current, cache, logits, generated, out>>
  /\ LoopEnd("StopToken")

(* The token just counted fills the budget. *)
LastToken(step) == step + 1 = Budget[current]

(* A token is emitted and counted.  Then the host may stop, or the budget is *)
(* full, and the token is not fed; otherwise it is fed.                      *)
TokenStep ==
  /\ pc = "loop"
  /\ Len(generated[current]) < Budget[current]
  /\ ~cancel[current]
  /\ logits \notin StopTokens[current]
  /\ out' = [out EXCEPT ![current] = Append(@, logits)]
  /\ generated' = [generated EXCEPT ![current] = Append(@, logits)]
  /\ \/ current \in Hosted /\ LoopEnd("Stopped")
     \/ LastToken(Len(generated[current])) /\ LoopEnd("MaxTokens")
     \/ ~LastToken(Len(generated[current])) /\ pc' = "feed" /\ UNCHANGED done
  /\ UNCHANGED <<stream, cancel, called, current, cache, logits>>

(* The new token goes in at the current length of the cache. *)
Feed ==
  /\ pc = "feed"
  /\ cache' = Append(cache, Last(generated[current]))
  /\ logits' = Sampled(current, cache')
  /\ pc' = "loop"
  /\ UNCHANGED <<stream, cancel, called, current, generated, out, done>>

Loop == Prefill \/ Fail \/ Exhausted \/ Cancelled \/ StopToken \/ TokenStep \/ Feed

-----------------------------------------------------------------------------
(* Properties *)

LoopTypeOK ==
  /\ cancel \in [Requests -> BOOLEAN]
  /\ called \subseteq Requests
  /\ current \in Requests
  /\ pc \in {"idle", "prefill", "loop", "feed", "ended"}
  /\ logits \in Tokens \cup {Junk}
  /\ generated \in [Requests -> Seq(Tokens \cup {Junk})]
  /\ out = generated
  /\ done \in [Requests -> Seq([reason : {"StopToken", "MaxTokens", "Cancelled", "Stopped"},
                                generated : Nat])]

(* Every call streams, token for token, what the request gets alone and      *)
(* cold, and at most one Done event.                                         *)
Alone == INSTANCE Generation WITH
  reason <- [r \in Requests |-> IF done[r] = <<>> THEN "None" ELSE Head(done[r]).reason]

GenerationSpec == Alone!Spec

=============================================================================
