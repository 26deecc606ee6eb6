----------------------------- MODULE Generation -----------------------------
(***************************************************************************)
(* What a generation engine promises its callers, one request at a time,    *)
(* whatever batching, speculation or cache reuse happens inside: the        *)
(* contract of src/decode/stream.rs that every decode path of src/decode    *)
(* restates.                                                                *)
(*                                                                          *)
(* stream[r] is the model, the sampler settings and the seed of request r   *)
(* taken together: the tokens it samples when it runs alone, stop tokens    *)
(* included.  A request streams a prefix of it up to the first stop token   *)
(* (excluded), the budget or a cancel, and then exactly one finish reason.  *)
(***************************************************************************)
EXTENDS Integers, Sequences

CONSTANTS
  Requests,    \* the requests
  Tokens,      \* the vocabulary
  StopTokens,  \* StopTokens[r]: the tokens that stop request r
  Budget,      \* Budget[r]: max_new_tokens of request r, a natural number
  Models,      \* what the model may say: each a sequence of Budget[r] tokens per request
  Hosted       \* the requests whose caller may stop them (should_stop)

VARIABLES
  stream,  \* stream[r]: what the model would say, position by position
  out,     \* out[r]: the ids of the Token events so far
  reason,  \* reason[r]: the reason of the Done event, "None" before it
  cancel   \* cancel[r]: the CancelFlag the call of r was given

vars == <<stream, out, reason, cancel>>

Init ==
  /\ stream \in Models
  /\ out = [r \in Requests |-> <<>>]
  /\ reason = [r \in Requests |-> "None"]
  /\ cancel = [r \in Requests |-> FALSE]

Next1(r) == stream[r][Len(out[r]) + 1]

(* One more token.  The one that fills the budget may end the request at     *)
(* once, and the caller of a hosted request may stop it after any token.     *)
Token(r) ==
  /\ reason[r] = "None"
  /\ Len(out[r]) < Budget[r]
  /\ Next1(r) \notin StopTokens[r]
  /\ out' = [out EXCEPT ![r] = Append(@, Next1(r))]
  /\ \/ UNCHANGED reason
     \/ /\ Len(out[r]) + 1 = Budget[r]
        /\ reason' = [reason EXCEPT ![r] = "MaxTokens"]
     \/ /\ r \in Hosted
        /\ reason' = [reason EXCEPT ![r] = "Stopped"]
  /\ UNCHANGED <<stream, cancel>>

Finish(r, why) ==
  /\ reason[r] = "None"
  /\ reason' = [reason EXCEPT ![r] = why]
  /\ UNCHANGED <<stream, out, cancel>>

(* The stop token itself is not part of the output. *)
Stop(r) ==
  /\ Len(out[r]) < Budget[r]
  /\ Next1(r) \in StopTokens[r]
  /\ Finish(r, "StopToken")

Exhaust(r) ==
  /\ Len(out[r]) = Budget[r]
  /\ Finish(r, "MaxTokens")

(* A cancel leaves the partial output; a full one is not relabelled. *)
Abandon(r) ==
  /\ cancel[r]
  /\ Len(out[r]) < Budget[r]
  /\ Finish(r, "Cancelled")

(* Calls may share a flag; a flag is never cleared. *)
Cancel(S) ==
  /\ \A r \in S : ~cancel[r]
  /\ cancel' = [r \in Requests |-> cancel[r] \/ r \in S]
  /\ UNCHANGED <<stream, out, reason>>

Next ==
  \/ \E S \in SUBSET Requests : Cancel(S)
  \/ \E r \in Requests : Token(r) \/ Stop(r) \/ Exhaust(r) \/ Abandon(r)

Spec == Init /\ [][Next]_vars
=============================================================================
