---------------------------- MODULE Speculative -----------------------------
(***************************************************************************)
(* Speculative decoding, src/decode/speculative.rs: prompt lookup and draft *)
(* model, greedy and sampled.  A step proposes drafts after the last        *)
(* committed token cur, runs the target once over [cur, drafts], accepts a  *)
(* prefix of the drafts plus one bonus token, rolls both KV caches back and *)
(* commits the tokens one by one.                                           *)
(*                                                                          *)
(* A KV cache is the sequence of tokens it was computed from.  The rounding *)
(* of multi-token kernels (the module's documented caveat) is left out: a   *)
(* greedy target says the same in one pass as token by token.               *)
(***************************************************************************)
EXTENDS Integers, Sequences, FiniteSets, SequencesExt

CONSTANTS
  Requests, Tokens, StopTokens, Budget, Models,  \* as in Generation
  Prompt,      \* Prompt[r]: the prompt token ids
  NumDraft,    \* SpeculativeConfig::num_draft
  Junk         \* the token argmax gives after a wrong context

ASSUME StopTokensAssumption == StopTokens \in [Requests -> SUBSET Tokens]
ASSUME BudgetAssumption == Budget \in [Requests -> Nat]
ASSUME ModelsAssumption ==
  \A s \in Models : /\ s \in [Requests -> Seq(Tokens)]
                    /\ \A r \in Requests : Len(s[r]) = Budget[r]
ASSUME PromptAssumption == Prompt \in [Requests -> Seq(Tokens) \ {<<>>}]
ASSUME NumDraftAssumption == NumDraft \in Nat
ASSUME JunkAssumption == Junk \notin Tokens

VARIABLES
  request,     \* the request of the call
  stream,      \* stream[r]: the target's greedy stream, as in Generation
  drafter,     \* "prompt_lookup" or "draft_model"
  greedy,      \* temperature <= 0
  cancel,      \* the CancelFlag
  pc,          \* where the call is
  cache,       \* the tokens in the target's KV cache
  draftCache,  \* the tokens in the draft model's KV cache
  history,     \* the prompt and the committed tokens
  cur,         \* the last committed token, not yet in the caches
  drafts,      \* the tokens proposed this step
  committed,   \* the tokens this step still has to commit
  stats,       \* SpeculativeStats: forwards, accepted
  out,         \* the ids of the Token events
  done,        \* the Done events
  late         \* Token events since the cancel (history)

vars == <<request, stream, drafter, greedy, cancel, pc, cache, draftCache, history, cur, drafts,
          committed, stats, out, done, late>>

call == <<request, stream, drafter, greedy>>
caches == <<cache, draftCache>>
events == <<out, done, late>>

Finals == {"returned", "failed", "refused"}

budget == Budget[request]
stopTokens == StopTokens[request]
prompt == Prompt[request]
generated == SubSeq(history, Len(prompt) + 1, Len(history))

Init ==
  /\ request \in Requests
  /\ drafter \in {"prompt_lookup", "draft_model"}
  /\ greedy \in BOOLEAN
  /\ stream \in Models
  /\ ~greedy => stream = CHOOSE s \in Models : TRUE  \* it plays no part
  /\ cancel = FALSE
  /\ pc = "start"
  /\ cache = <<>> /\ draftCache = <<>>
  /\ history = prompt
  /\ cur = Junk
  /\ drafts = <<>> /\ committed = <<>>
  /\ stats = [forwards |-> 0, accepted |-> 0]
  /\ out = <<>> /\ done = <<>> /\ late = 0

-----------------------------------------------------------------------------
(* Sampling *)

(* The token that sampling may give after a forward over context, with the   *)
(* penalty window hist: any token when sampled; the stream's next one when   *)
(* greedy and both are the prompt and a prefix of the stream.                *)
Draws(context, hist) ==
  LET k == Len(context) - Len(prompt)
  IN IF ~greedy THEN Tokens
     ELSE IF k \in 0 .. budget - 1 /\ context = prompt \o SubSeq(stream[request], 1, k) /\ hist = context
          THEN {stream[request][k + 1]}
          ELSE {Junk}

Emit(tok) ==
  /\ out' = Append(out, tok)
  /\ history' = Append(history, tok)
  /\ cur' = tok
  /\ late' = IF cancel THEN late + 1 ELSE late

End(why, count) ==
  /\ done' = Append(done, [reason |-> why, generated |-> count])
  /\ pc' = "returned"

-----------------------------------------------------------------------------
(* Before the loop *)

(* A set flag stays set.  Any thread may set it, and so may on_event. *)
Cancel ==
  /\ pc \notin Finals
  /\ ~cancel
  /\ cancel' = TRUE
  /\ UNCHANGED <<pc, history, cur, drafts, committed, stats>>
  /\ UNCHANGED call /\ UNCHANGED caches /\ UNCHANGED events

Refuse ==
  /\ pc = "start"
  /\ cancel
  /\ pc' = "refused"
  /\ UNCHANGED <<cancel, history, cur, drafts, committed, stats>>
  /\ UNCHANGED call /\ UNCHANGED caches /\ UNCHANGED events

(* Nothing to generate: no inference at all. *)
ZeroBudget ==
  /\ pc = "start"
  /\ ~cancel
  /\ budget = 0
  /\ End("MaxTokens", 0)
  /\ UNCHANGED <<cancel, history, cur, drafts, committed, stats, out, late>>
  /\ UNCHANGED call /\ UNCHANGED caches

(* The prompt is run through the target and the draft model, if there is one.*)
Prefill ==
  /\ pc = "start"
  /\ ~cancel
  /\ budget > 0
  /\ cache' = prompt
  /\ draftCache' = IF drafter = "draft_model" THEN prompt ELSE <<>>
  /\ stats' = [stats EXCEPT !.forwards = 1]
  /\ pc' = "first"
  /\ UNCHANGED <<cancel, history, cur, drafts, committed>>
  /\ UNCHANGED call /\ UNCHANGED events

(* The first token is sampled as usual, and cancel is not looked at.         *)
First ==
  /\ pc = "first"
  /\ \E tok \in Draws(cache, history) :
       IF tok \in stopTokens
       THEN End("StopToken", 0) /\ UNCHANGED <<out, history, cur, late>>
       ELSE Emit(tok) /\ pc' = "loop" /\ UNCHANGED done
  /\ UNCHANGED <<cancel, drafts, committed, stats>>
  /\ UNCHANGED call /\ UNCHANGED caches

-----------------------------------------------------------------------------
(* One speculative step *)

(* Mutant: cancel is not looked at between steps. *)
CancelSeen_Never == FALSE

CancelSeen == cancel

(* The budget is spent, or the flag is set: the loop ends. *)
LeaveLoop ==
  /\ pc = "loop"
  /\ \/ Len(generated) >= budget /\ End("MaxTokens", Len(generated))
     \/ Len(generated) < budget /\ CancelSeen /\ End("Cancelled", Len(generated))
  /\ UNCHANGED <<cancel, history, cur, drafts, committed, stats, out, late>>
  /\ UNCHANGED call /\ UNCHANGED caches

(* Mutant: the cap leaves no room for the bonus token. *)
DraftCap_Remaining(remaining) == IF NumDraft < remaining THEN NumDraft ELSE remaining

(* The drafts and the bonus token stay within the budget. *)
DraftCap(remaining) == IF NumDraft < remaining - 1 THEN NumDraft ELSE remaining - 1

(* ngram_propose copies a run of the context; a draft model, trained on      *)
(* anything, may say anything.                                               *)
Proposals(k) ==
  IF drafter = "draft_model"
  THEN [1 .. k -> Tokens]
  ELSE {ds \in UNION {[1 .. n -> Tokens] : n \in 0 .. k} :
          \E i \in 1 .. Len(history) - Len(ds) + 1 : ds = SubSeq(history, i, i + Len(ds) - 1)}

(* Mutant: the draft model does not run over its own last proposal. *)
DraftFed_NotLast(ds) == IF ds = <<>> THEN <<cur>> ELSE <<cur>> \o Front(ds)

(* What the draft model is run over while it proposes: steps 0 to k. *)
DraftFed(ds) == <<cur>> \o ds

(* Mutant: a step that can propose nothing is skipped. *)
StepBegins_WithDrafts ==
  /\ pc = "loop"
  /\ Len(generated) < budget
  /\ ~CancelSeen
  /\ DraftCap(budget - Len(generated)) > 0

StepBegins ==
  /\ pc = "loop"
  /\ Len(generated) < budget
  /\ ~CancelSeen

Propose ==
  /\ StepBegins
  /\ drafts' \in Proposals(DraftCap(budget - Len(generated)))
  /\ draftCache' = IF drafter = "draft_model" THEN draftCache \o DraftFed(drafts') ELSE draftCache
  /\ pc' = "verify"
  /\ UNCHANGED <<cancel, cache, history, cur, committed, stats>>
  /\ UNCHANGED call /\ UNCHANGED events

(* The target's draw at position i of the verify pass. *)
RowDraws(i) ==
  Draws(cache \o <<cur>> \o SubSeq(drafts, 1, i - 1), history \o SubSeq(drafts, 1, i - 1))

(* decide_greedy accepts the longest run that agrees with the argmax of the  *)
(* rows; decide_stochastic may accept any run, drawing after each accepted   *)
(* draft.                                                                    *)
Accepts(n) ==
  greedy => /\ \A i \in 1 .. n : drafts[i] \in RowDraws(i)
            /\ n < Len(drafts) => drafts[n + 1] \notin RowDraws(n + 1)

(* Mutant: the rejected drafts stay in the cache. *)
Kept_All(tokens, base, n) == tokens

(* truncate(base_offset + 1 + accepted) *)
Kept(tokens, base, n) ==
  IF Len(tokens) <= base + 1 + n THEN tokens ELSE SubSeq(tokens, 1, base + 1 + n)

Commits(n, bonus) == Append(SubSeq(drafts, 1, n), bonus)

(* One forward of the target, the decision, and the rollback. *)
Verify ==
  /\ pc = "verify"
  /\ \E n \in 0 .. Len(drafts) : \E bonus \in RowDraws(n + 1) :
       /\ Accepts(n)
       /\ committed' = Commits(n, bonus)
       /\ cache' = Kept(cache \o <<cur>> \o drafts, Len(cache), n)
       /\ draftCache' = IF drafter = "draft_model"
                        THEN Kept(draftCache, Len(draftCache) - Len(DraftFed(drafts)), n)
                        ELSE draftCache
       /\ stats' = [forwards |-> stats.forwards + 1, accepted |-> stats.accepted + n]
  /\ pc' = "commit"
  /\ drafts' = <<>>
  /\ UNCHANGED <<cancel, history, cur>>
  /\ UNCHANGED call /\ UNCHANGED events

CommitStop ==
  /\ pc = "commit"
  /\ committed # <<>> /\ Head(committed) \in stopTokens
  /\ End("StopToken", Len(generated))
  /\ UNCHANGED <<cancel, history, cur, drafts, committed, stats, out, late>>
  /\ UNCHANGED call /\ UNCHANGED caches

CommitToken ==
  /\ pc = "commit"
  /\ committed # <<>> /\ Head(committed) \notin stopTokens
  /\ Emit(Head(committed))
  /\ committed' = Tail(committed)
  /\ IF Len(generated) + 1 >= budget
     THEN End("MaxTokens", Len(generated) + 1)
     ELSE UNCHANGED <<pc, done>>
  /\ UNCHANGED <<cancel, drafts, stats>>
  /\ UNCHANGED call /\ UNCHANGED caches

CommitDone ==
  /\ pc = "commit"
  /\ committed = <<>>
  /\ pc' = "loop"
  /\ UNCHANGED <<cancel, history, cur, drafts, committed, stats>>
  /\ UNCHANGED call /\ UNCHANGED caches /\ UNCHANGED events

(* A forward, a sample or a truncate returns an error, which leaves through  *)
(* `?`: no Done event.                                                       *)
Fail ==
  /\ \/ pc \in {"first", "verify"}
     \/ pc = "start" /\ ~cancel /\ budget > 0
     \/ StepBegins /\ drafter = "draft_model"
  /\ pc' = "failed"
  /\ UNCHANGED <<cancel, history, cur, drafts, committed, stats>>
  /\ UNCHANGED call /\ UNCHANGED caches /\ UNCHANGED events

Step ==
  \/ Refuse \/ ZeroBudget \/ Prefill \/ First
  \/ LeaveLoop \/ Propose \/ Verify \/ CommitStop \/ CommitToken \/ CommitDone
  \/ Fail

Next == Step \/ Cancel

(* The call runs on its caller's thread, which the scheduler keeps running.  *)
Spec == Init /\ [][Next]_vars /\ WF_vars(Step)

-----------------------------------------------------------------------------
(* Properties *)

TypeOK ==
  /\ cancel \in BOOLEAN
  /\ pc \in {"start", "first", "loop", "verify", "commit"} \cup Finals
  /\ cache \in Seq(Tokens) /\ draftCache \in Seq(Tokens)
  /\ drafts \in Seq(Tokens) /\ committed \in Seq(Tokens)
  /\ history \in Seq(Tokens) /\ cur \in Tokens \cup {Junk}
  /\ out = generated
  /\ late \in Nat

(* Whenever a step begins, both caches hold exactly what has been committed  *)
(* but for cur: through partial and full acceptance, rejection and rollback. *)
CachesInStep ==
  pc = "loop" =>
    /\ Append(cache, cur) = history
    /\ drafter = "draft_model" => draftCache = cache

(* A call that ends with a full budget threw no accepted token away: every   *)
(* forward gave one token and every accepted draft one more.                 *)
NothingWasted ==
  \A d \in ToSet(done) :
    d.reason = "MaxTokens" => Len(generated) = stats.forwards + stats.accepted

(* A cancel takes effect within one speculative step, not one token: a step  *)
(* whose verify pass is under way commits all it accepted.                   *)
CancelWithinOneStep == late <= NumDraft + 1

(* Every step commits at least the bonus token, so the call ends. *)
Terminates == <>(pc \in Finals)

(* A greedy speculative run streams, token for token, what the plain decode  *)
(* loop would.  A sampled run has no stream of its own to be compared with:  *)
(* it is hidden.                                                             *)
Alone == INSTANCE Generation WITH
  Hosted <- {},
  cancel <- [r \in Requests |-> r = request /\ cancel],
  out <- [r \in Requests |-> IF r = request /\ greedy THEN out ELSE <<>>],
  reason <- [r \in Requests |->
    IF r = request /\ greedy /\ done # <<>> THEN Head(done).reason ELSE "None"]

GenerationSpec == Alone!Spec

=============================================================================
