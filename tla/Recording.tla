----------------------------- MODULE Recording ------------------------------
(***************************************************************************)
(* What the two batched engines share: the requests of a call, the external *)
(* core_llm::Scheduler that keeps their tokens and finish state, the events *)
(* their caller sees and the CancelFlag.  record_token of                   *)
(* src/decode/continuous.rs and apply_token of src/decode/batch.rs are the  *)
(* same function.                                                           *)
(*                                                                          *)
(* The scheduler is modelled from its use: a stop token is not kept, a full *)
(* budget finishes a request with its last token, and a request of budget   *)
(* zero is finished when it is admitted.                                    *)
(***************************************************************************)
EXTENDS Integers, Sequences, FiniteSets, SequencesExt

CONSTANTS
  NumRequests,  \* how many requests the call gets
  Tokens, StopTokens, Budget, Models,  \* as in Generation
  Prompt,       \* Prompt[r]: the prompt token ids
  Junk          \* the token sampled from a wrong context

ASSUME NumRequestsAssumption == NumRequests \in Nat \ {0}

Requests == 1 .. NumRequests

ASSUME StopTokensAssumption == StopTokens \in [Requests -> SUBSET Tokens]
ASSUME BudgetAssumption == Budget \in [Requests -> Nat]
ASSUME ModelsAssumption ==
  \A s \in Models : /\ s \in [Requests -> Seq(Tokens)]
                    /\ \A r \in Requests : Len(s[r]) = Budget[r]
ASSUME PromptAssumption == Prompt \in [Requests -> Seq(Tokens) \ {<<>>}]
ASSUME JunkAssumption == Junk \notin Tokens

VARIABLES
  stream,     \* as in Generation
  cancel,     \* the shared CancelFlag
  pc,         \* where the host loop is
  nextToken,  \* nextToken[r]: the token the lane of r feeds next
  generated,  \* generated[r]: the tokens the scheduler recorded
  finish,     \* finish[r]: "None", "Stop" or "Length" in the scheduler
  out,        \* out[r]: the ids of the Token events of r
  done,       \* done[r]: the Done events of r
  late        \* late[r]: Token events of r since the cancel (history)

schedVars == <<generated, finish>>
eventVars == <<out, done, late>>

Finals == {"returned", "failed", "refused"}

(* The token sampled after a forward of request r over these tokens: token   *)
(* k + 1 of its stream over its prompt and its first k tokens.               *)
Sampled(r, context) ==
  LET k == Len(context) - Len(Prompt[r])
  IN IF k \in 0 .. Budget[r] - 1 /\ context = Prompt[r] \o SubSeq(stream[r], 1, k)
     THEN stream[r][k + 1]
     ELSE Junk

(* All requests are admitted to the scheduler before the first step. *)
RecordingInit ==
  /\ stream \in Models
  /\ cancel = FALSE
  /\ pc = "start"
  /\ nextToken = [r \in Requests |-> Junk]
  /\ generated = [r \in Requests |-> <<>>]
  /\ finish = [r \in Requests |-> IF Budget[r] = 0 THEN "Length" ELSE "None"]
  /\ out = [r \in Requests |-> <<>>]
  /\ done = [r \in Requests |-> <<>>]
  /\ late = [r \in Requests |-> 0]

EmitDone(r, why, count) ==
  done' = [done EXCEPT ![r] = Append(@, [reason |-> why, generated |-> count])]

EmitToken(r, tok) ==
  /\ out' = [out EXCEPT ![r] = Append(@, tok)]
  /\ late' = IF cancel THEN [late EXCEPT ![r] = @ + 1] ELSE late

StopHit(r, tok) ==
  /\ tok \in StopTokens[r]
  /\ finish' = [finish EXCEPT ![r] = "Stop"]
  /\ EmitDone(r, "StopToken", Len(generated[r]))
  /\ UNCHANGED <<nextToken, generated, out, late>>

(* Mutant: a full budget retires the lane before its last token is emitted.  *)
BudgetFilled_DropsLast(r, tok) ==
  /\ tok \notin StopTokens[r]
  /\ Len(generated[r]) + 1 = Budget[r]
  /\ generated' = [generated EXCEPT ![r] = Append(@, tok)]
  /\ finish' = [finish EXCEPT ![r] = "Length"]
  /\ EmitDone(r, "MaxTokens", Len(generated[r]) + 1)
  /\ UNCHANGED <<nextToken, out, late>>

BudgetFilled(r, tok) ==
  /\ tok \notin StopTokens[r]
  /\ Len(generated[r]) + 1 = Budget[r]
  /\ generated' = [generated EXCEPT ![r] = Append(@, tok)]
  /\ finish' = [finish EXCEPT ![r] = "Length"]
  /\ EmitToken(r, tok)
  /\ EmitDone(r, "MaxTokens", Len(generated[r]) + 1)
  /\ UNCHANGED nextToken

(* Mutant: the lane is left with the token it fed last. *)
Continues_StaleFeed(r, tok) ==
  /\ tok \notin StopTokens[r]
  /\ Len(generated[r]) + 1 # Budget[r]
  /\ generated' = [generated EXCEPT ![r] = Append(@, tok)]
  /\ EmitToken(r, tok)
  /\ nextToken' = IF generated[r] = <<>> THEN [nextToken EXCEPT ![r] = tok] ELSE nextToken
  /\ UNCHANGED <<finish, done>>

Continues(r, tok) ==
  /\ tok \notin StopTokens[r]
  /\ Len(generated[r]) + 1 # Budget[r]
  /\ generated' = [generated EXCEPT ![r] = Append(@, tok)]
  /\ EmitToken(r, tok)
  /\ nextToken' = [nextToken EXCEPT ![r] = tok]
  /\ UNCHANGED <<finish, done>>

(* record_token: a stop token retires the lane without a Token event, a full *)
(* budget after one; any other token is fed at the next step.                *)
Retire(r, tok) == StopHit(r, tok) \/ BudgetFilled(r, tok)

(* A set flag stays set.  Any thread may set it, and so may on_event. *)
SetCancel ==
  /\ pc \notin Finals
  /\ ~cancel
  /\ cancel' = TRUE
  /\ UNCHANGED <<stream, pc, nextToken>>
  /\ UNCHANGED schedVars /\ UNCHANGED eventVars

(* The finish reason of the GenerationOutput of r; its tokens are generated. *)
OutputReason(r) ==
  CASE finish[r] = "Stop" -> "StopToken"
    [] finish[r] = "Length" -> "MaxTokens"
    [] OTHER -> "Cancelled"

-----------------------------------------------------------------------------
(* Properties *)

RecordingTypeOK ==
  /\ cancel \in BOOLEAN
  /\ nextToken \in [Requests -> Tokens \cup {Junk}]
  /\ generated \in [Requests -> Seq(Tokens)]
  /\ finish \in [Requests -> {"None", "Stop", "Length"}]
  /\ out \in [Requests -> Seq(Tokens)]
  /\ done \in [Requests -> Seq([reason : {"StopToken", "MaxTokens", "Cancelled"}, generated : Nat])]
  /\ late \in [Requests -> Nat]

(* When the call returns Ok, every request had exactly one Done event, after *)
(* Token events that are its output, with the reason and the count of its    *)
(* output; events and outputs are produced by different code.                *)
OneDoneThatAgrees ==
  pc = "returned" =>
    \A r \in Requests :
      /\ out[r] = generated[r]
      /\ done[r] = <<[reason |-> OutputReason(r), generated |-> Len(generated[r])]>>

(* A cancel stops promptly: no request streams two tokens after it.          *)
AtMostOneLateToken == \A r \in Requests : late[r] <= 1

(* The call ends, cancelled or not, whatever the model says.                 *)
Terminates == <>(pc \in Finals)

(* Every request gets, token for token, what it would get alone.             *)
Alone == INSTANCE Generation WITH
  reason <- [r \in Requests |-> IF done[r] = <<>> THEN "None" ELSE Head(done[r]).reason],
  cancel <- [r \in Requests |-> cancel],
  Hosted <- {}

GenerationSpec == Alone!Spec

=============================================================================
