-------------------------- MODULE SpeculativeProofs --------------------------
(***************************************************************************)
(* Proofs about Speculative, for any vocabulary, prompts, budgets, models   *)
(* and number of drafts.                                                    *)
(*                                                                          *)
(* The properties of a step's beginning hold because of what the step does  *)
(* in between, so SpecInv says at every point of the call what the caches   *)
(* hold (CachesInv), how the tokens add up (CountInv), how late a cancel is *)
(* (LateInv) and where a greedy run stands in its stream (GreedyInv).       *)
(***************************************************************************)
EXTENDS Speculative, SequenceTheorems, TLAPS

target == stream[request]

CallType ==
  /\ request \in Requests
  /\ stream \in Models
  /\ drafter \in {"prompt_lookup", "draft_model"}
  /\ greedy \in BOOLEAN
  /\ cancel \in BOOLEAN
  /\ pc \in {"start", "first", "loop", "verify", "commit"} \cup Finals
  /\ cache \in Seq(Tokens)
  /\ draftCache \in Seq(Tokens)
  /\ drafts \in Seq(Tokens)
  /\ committed \in Seq(Tokens)
  /\ out \in Seq(Tokens)
  /\ cur \in Tokens \cup {Junk}
  /\ late \in Nat
  /\ stats \in [forwards : Nat, accepted : Nat]

HistoryInv == history = prompt \o out

CachesInv ==
  /\ pc = "first" => cache = history
  /\ pc \in {"loop", "verify"} => cur \in Tokens /\ history = Append(cache, cur)
  /\ pc = "commit" =>
       IF committed = <<>>
       THEN cur \in Tokens /\ history = Append(cache, cur)
       ELSE cache = history \o Front(committed)

DraftInv ==
  drafter = "draft_model" =>
    /\ pc \in {"first", "loop", "commit"} => draftCache = cache
    /\ pc = "verify" => draftCache = history \o drafts

CountInv ==
  /\ pc \in {"start", "first"} => out = <<>> /\ stats.accepted = 0
  /\ pc = "start" => stats.forwards = 0
  /\ pc = "first" => stats.forwards = 1 /\ budget > 0
  /\ pc \in {"loop", "verify"} => Len(out) = stats.forwards + stats.accepted
  /\ pc = "verify" => Len(out) + Len(drafts) < budget /\ Len(drafts) <= NumDraft
  /\ pc = "commit" => /\ Len(out) + Len(committed) = stats.forwards + stats.accepted
                      /\ Len(out) + Len(committed) <= budget
  /\ Len(out) <= budget

LateInv ==
  /\ ~cancel \/ pc \in {"start", "first", "verify"} => late = 0
  /\ pc = "commit" => late + Len(committed) <= NumDraft + 1
  /\ late <= NumDraft + 1

GreedyInv ==
  greedy =>
    /\ \A i \in 1 .. Len(out) : out[i] = target[i]
    /\ pc = "commit" =>
         \A i \in 1 .. Len(committed) : committed[i] = target[Len(out) + i]

DoneInv ==
  IF pc = "returned"
  THEN /\ done \in Seq([reason : {"StopToken", "MaxTokens", "Cancelled"}, generated : Nat])
       /\ \A i \in 1 .. Len(done) :
            done[i].reason = "MaxTokens" => Len(out) = stats.forwards + stats.accepted
  ELSE done = <<>>

SpecInv ==
  CallType /\ HistoryInv /\ CachesInv /\ DraftInv /\ CountInv /\ LateInv /\ GreedyInv /\ DoneInv

-----------------------------------------------------------------------------
(* What the constants give a call *)

LEMMA CallFacts ==
  ASSUME request \in Requests, stream \in Models
  PROVE  /\ prompt \in Seq(Tokens)
         /\ budget \in Nat
         /\ target \in Seq(Tokens)
         /\ Len(target) = budget
BY PromptAssumption, BudgetAssumption, ModelsAssumption DEF prompt, budget, target

(* The history is the prompt and what was emitted: out is generated.         *)
LEMMA OutIsGenerated ==
  ASSUME prompt \in Seq(Tokens), out \in Seq(Tokens), HistoryInv
  PROVE  /\ out = generated
         /\ history \in Seq(Tokens)
         /\ Len(history) = Len(prompt) + Len(out)
<1>1. history \in Seq(Tokens) /\ Len(history) = Len(prompt) + Len(out)
  BY ConcatProperties DEF HistoryInv
<1>2. \A i \in 1 .. Len(history) :
        history[i] = IF i <= Len(prompt) THEN prompt[i] ELSE out[i - Len(prompt)]
  BY ConcatProperties DEF HistoryInv
<1>3. Len(prompt) \in Nat /\ Len(out) \in Nat
  BY LenProperties
<1>4. \A i \in Len(prompt) + 1 .. Len(history) : history[i] \in Tokens
  <2>1. SUFFICES ASSUME NEW i \in Len(prompt) + 1 .. Len(history) PROVE history[i] \in Tokens
    OBVIOUS
  <2>2. i \in 1 .. Len(history)
    BY <1>1, <1>3
  <2>3. QED BY <1>1, <2>2, ElementOfSeq
<1>5. /\ generated \in Seq(Tokens)
      /\ Len(generated) = IF Len(prompt) + 1 <= Len(history)
                          THEN Len(history) - (Len(prompt) + 1) + 1 ELSE 0
      /\ \A i \in 1 .. Len(history) - (Len(prompt) + 1) + 1 :
           generated[i] = history[Len(prompt) + 1 + i - 1]
  <2> DEFINE m == Len(prompt) + 1
             n == Len(history)
  <2>1. m \in Int /\ n \in Int
    BY <1>1, <1>3
  <2>2. \A i \in m .. n : history[i] \in Tokens
    BY <1>4
  <2> HIDE DEF m, n
  <2>3. /\ SubSeq(history, m, n) \in Seq(Tokens)
        /\ Len(SubSeq(history, m, n)) = IF m <= n THEN n - m + 1 ELSE 0
        /\ \A i \in 1 .. n - m + 1 : SubSeq(history, m, n)[i] = history[m + i - 1]
    BY <2>1, <2>2, SubSeqProperties
  <2>4. QED BY <2>3 DEF generated, m, n
<1>6. Len(generated) = Len(out)
  BY <1>1, <1>3, <1>5
<1>7. ASSUME NEW i \in 1 .. Len(out) PROVE generated[i] = out[i]
  <2>1. i \in 1 .. Len(history) - (Len(prompt) + 1) + 1
    BY <1>1, <1>3
  <2>2. generated[i] = history[Len(prompt) + i]
    BY <1>3, <1>5, <2>1
  <2>3. Len(prompt) + i \in 1 .. Len(history)
    BY <1>1, <1>3
  <2>4. history[Len(prompt) + i] = out[i]
    BY <1>2, <1>3, <2>3
  <2>5. QED BY <2>2, <2>4
<1>8. QED BY <1>1, <1>5, <1>6, <1>7, SeqEqual

-----------------------------------------------------------------------------
(* Steps that emit nothing *)

LEMMA CallUnchanged ==
  ASSUME UNCHANGED call
  PROVE  /\ prompt' = prompt
         /\ budget' = budget
         /\ target' = target
         /\ stopTokens' = stopTokens
         /\ request' = request /\ stream' = stream
         /\ drafter' = drafter /\ greedy' = greedy
BY DEF call, prompt, budget, target, stopTokens

LEMMA InvInit ==
  ASSUME Init PROVE SpecInv
<1>1. CallType
  BY EmptySeq DEF Init, CallType
<1>2. prompt \in Seq(Tokens) /\ budget \in Nat
  BY CallFacts, <1>1 DEF CallType
<1>3. HistoryInv
  BY <1>2, ConcatEmptySeq DEF Init, HistoryInv
<1>4. CachesInv /\ DraftInv /\ CountInv /\ LateInv /\ DoneInv
  BY <1>2, EmptySeq, NumDraftAssumption
  DEF Init, CachesInv, DraftInv, CountInv, LateInv, DoneInv
<1>5. GreedyInv
  BY EmptySeq DEF Init, GreedyInv
<1>6. QED BY <1>1, <1>3, <1>4, <1>5 DEF SpecInv

(* The call leaves without an event, or its flag is set. *)
LEMMA InvQuiet ==
  ASSUME SpecInv, Cancel \/ Refuse \/ Fail
  PROVE  SpecInv'
<1>1. /\ UNCHANGED call
      /\ UNCHANGED <<history, cur, drafts, committed, stats, cache, draftCache, out, done, late>>
  BY DEF Cancel, Refuse, Fail, caches, events
<1>2. \/ pc' = pc /\ cancel = FALSE /\ cancel' = TRUE
      \/ pc' \in {"refused", "failed"} /\ cancel' = cancel /\ pc # "returned"
  BY DEF Cancel, Refuse, Fail, StepBegins
<1>3. CallType'
  BY <1>1, <1>2, CallUnchanged DEF SpecInv, CallType, Finals
<1>4. HistoryInv'
  BY <1>1, CallUnchanged DEF SpecInv, HistoryInv
<1>5. CachesInv' /\ DraftInv'
  BY <1>1, <1>2, CallUnchanged DEF SpecInv, CachesInv, DraftInv
<1>6. CountInv' /\ LateInv'
  BY <1>1, <1>2, CallUnchanged DEF SpecInv, CountInv, LateInv, CallType
<1>7. GreedyInv'
  BY <1>1, <1>2, CallUnchanged DEF SpecInv, GreedyInv
<1>8. DoneInv'
  BY <1>1, <1>2, CallUnchanged DEF SpecInv, DoneInv
<1>9. QED BY <1>3, <1>4, <1>5, <1>6, <1>7, <1>8 DEF SpecInv

LEMMA InvPrefill ==
  ASSUME SpecInv, Prefill
  PROVE  SpecInv'
<1>1. /\ UNCHANGED call
      /\ UNCHANGED <<cancel, history, cur, drafts, committed, out, done, late>>
      /\ pc = "start" /\ pc' = "first"
      /\ cache' = prompt
      /\ draftCache' = IF drafter = "draft_model" THEN prompt ELSE <<>>
      /\ stats' = [stats EXCEPT !.forwards = 1]
      /\ budget > 0
  BY DEF Prefill, events
<1>2. prompt \in Seq(Tokens)
  BY CallFacts DEF SpecInv, CallType
<1>3. CallType'
  BY <1>1, <1>2, CallUnchanged, EmptySeq DEF SpecInv, CallType
<1>4. HistoryInv'
  BY <1>1, CallUnchanged DEF SpecInv, HistoryInv
<1>5. out = <<>> /\ history = prompt
  BY <1>1, <1>2, ConcatEmptySeq DEF SpecInv, CountInv, HistoryInv
<1>6. CachesInv' /\ DraftInv'
  BY <1>1, <1>5, CallUnchanged DEF CachesInv, DraftInv
<1>7. CountInv' /\ LateInv'
  BY <1>1, <1>5, CallUnchanged DEF SpecInv, CountInv, LateInv, CallType
<1>8. GreedyInv' /\ DoneInv'
  BY <1>1, CallUnchanged DEF SpecInv, GreedyInv, DoneInv
<1>9. QED BY <1>3, <1>4, <1>6, <1>7, <1>8 DEF SpecInv

LEMMA InvCommitDone ==
  ASSUME SpecInv, CommitDone
  PROVE  SpecInv'
<1>1. /\ UNCHANGED call
      /\ UNCHANGED <<cancel, history, cur, drafts, committed, stats, cache, draftCache, out, done, late>>
      /\ pc = "commit" /\ pc' = "loop"
      /\ committed = <<>>
  BY DEF CommitDone, caches, events
<1>2. CallType' /\ HistoryInv'
  BY <1>1, CallUnchanged DEF SpecInv, CallType, HistoryInv
<1>3. CachesInv' /\ DraftInv'
  BY <1>1, CallUnchanged DEF SpecInv, CachesInv, DraftInv
<1>4. Len(committed) = 0 /\ Len(out) \in Nat
  BY <1>1, LenProperties DEF SpecInv, CallType
<1>5. CountInv' /\ LateInv'
  BY <1>1, <1>4, CallUnchanged DEF SpecInv, CountInv, LateInv, CallType
<1>6. GreedyInv' /\ DoneInv'
  BY <1>1, CallUnchanged DEF SpecInv, GreedyInv, DoneInv
<1>7. QED BY <1>2, <1>3, <1>5, <1>6 DEF SpecInv

(* A Done event that is not preceded by a token in the same step. *)
LEMMA InvEnd ==
  ASSUME SpecInv,
         UNCHANGED call,
         UNCHANGED <<cancel, history, cur, drafts, committed, stats, cache, draftCache, out, late>>,
         pc \notin Finals,
         NEW why \in {"StopToken", "MaxTokens", "Cancelled"}, NEW count \in Nat,
         End(why, count),
         why = "MaxTokens" => Len(out) = stats.forwards + stats.accepted
  PROVE  SpecInv'
<1>1. pc' = "returned" /\ done = <<>>
  BY DEF SpecInv, DoneInv, End, Finals
<1>2. CallType' /\ HistoryInv'
  BY <1>1, CallUnchanged DEF SpecInv, CallType, HistoryInv, Finals
<1>3. CachesInv' /\ DraftInv' /\ GreedyInv'
  BY <1>1, CallUnchanged DEF SpecInv, CachesInv, DraftInv, GreedyInv
<1>4. CountInv' /\ LateInv'
  BY <1>1, CallUnchanged DEF SpecInv, CountInv, LateInv, CallType
<1>5. DoneInv'
  <2> DEFINE Dones == [reason : {"StopToken", "MaxTokens", "Cancelled"}, generated : Nat]
             d == [reason |-> why, generated |-> count]
  <2>1. d \in Dones /\ d.reason = why
    OBVIOUS
  <2>2. done' = Append(<<>>, d)
    BY <1>1 DEF End
  <2> HIDE DEF Dones, d
  <2>3. done' \in Seq(Dones) /\ Len(done') = 1 /\ done'[1] = d
    BY <2>1, <2>2, EmptySeq, AppendProperties
  <2>4. \A i \in 1 .. Len(done') : done'[i] = d
    BY <2>3
  <2>5. \A i \in 1 .. Len(done') :
          done'[i].reason = "MaxTokens" => Len(out') = stats'.forwards + stats'.accepted
    BY <2>1, <2>4
  <2>6. QED BY <1>1, <2>3, <2>5 DEF DoneInv, Dones
<1>6. QED BY <1>2, <1>3, <1>4, <1>5 DEF SpecInv

-----------------------------------------------------------------------------
(* Sampling *)

(* A greedy target that draws a token of the vocabulary was run over the     *)
(* prompt and a prefix of its stream, and draws the next one.                *)
LEMMA GreedyDraw ==
  ASSUME greedy, NEW context, NEW hist, NEW tok \in Tokens, tok \in Draws(context, hist)
  PROVE  LET k == Len(context) - Len(prompt)
         IN /\ k \in 0 .. budget - 1
            /\ context = prompt \o SubSeq(target, 1, k)
            /\ tok = target[k + 1]
BY JunkAssumption DEF Draws, target

(* Over the prompt and a prefix of its stream, every draw is a token.        *)
LEMMA DrawsTokens ==
  ASSUME CallType, NEW ds \in Seq(Tokens), HistoryInv,
         Len(out) + Len(ds) < budget,
         greedy => /\ \A i \in 1 .. Len(out) : out[i] = target[i]
                   /\ \A i \in 1 .. Len(ds) : ds[i] = target[Len(out) + i]
  PROVE  \A tok \in Draws(history \o ds, history \o ds) :
           /\ tok \in Tokens
           /\ greedy => tok = target[Len(out) + Len(ds) + 1]
<1>1. prompt \in Seq(Tokens) /\ budget \in Nat /\ target \in Seq(Tokens) /\ Len(target) = budget
  BY CallFacts DEF CallType
<1>2. out \in Seq(Tokens) /\ Len(out) \in Nat /\ Len(ds) \in Nat /\ Len(prompt) \in Nat
  BY <1>1, LenProperties DEF CallType
<1>3. CASE ~greedy
  BY <1>3 DEF Draws
<1>4. CASE greedy
  <2> DEFINE said == out \o ds
             k == Len(out) + Len(ds)
  <2>1. history \o ds = prompt \o said
    <3>1. (prompt \o out) \o ds = prompt \o (out \o ds)
      BY <1>1, <1>2, ConcatAssociative
    <3>2. QED BY <3>1 DEF HistoryInv
  <2>2. said \in Seq(Tokens) /\ Len(said) = k
    BY <1>2, ConcatProperties
  <2>3. \A i \in 1 .. k : said[i] = IF i <= Len(out) THEN out[i] ELSE ds[i - Len(out)]
    BY <1>2, ConcatProperties
  <2>4. k \in 0 .. budget - 1
    BY <1>1, <1>2
  <2>5. ASSUME NEW i \in 1 .. k PROVE said[i] = target[i]
    <3>1. CASE i <= Len(out)
      BY <1>2, <1>4, <2>3, <3>1
    <3>2. CASE i > Len(out)
      <4>1. i - Len(out) \in 1 .. Len(ds) /\ Len(out) + (i - Len(out)) = i
        BY <1>2, <3>2
      <4>2. ds[i - Len(out)] = target[i]
        BY <1>4, <4>1
      <4>3. QED BY <1>2, <2>3, <3>2, <4>2
    <3>3. QED BY <1>2, <3>1, <3>2
  <2>6. said = SubSeq(target, 1, k)
    <3> HIDE DEF said, k
    <3>1. \A i \in 1 .. k : target[i] \in Tokens
      BY <1>1, <2>4, ElementOfSeq
    <3>2. /\ SubSeq(target, 1, k) \in Seq(Tokens)
          /\ Len(SubSeq(target, 1, k)) = IF 1 <= k THEN k - 1 + 1 ELSE 0
          /\ \A i \in 1 .. k - 1 + 1 : SubSeq(target, 1, k)[i] = target[1 + i - 1]
      BY <2>4, <3>1, SubSeqProperties
    <3>3. Len(SubSeq(target, 1, k)) = k
      BY <2>4, <3>2
    <3>4. \A i \in 1 .. k : SubSeq(target, 1, k)[i] = target[i]
      BY <2>4, <3>2
    <3>5. QED BY <2>2, <2>5, <3>2, <3>3, <3>4, SeqEqual
  <2>7. Len(history \o ds) - Len(prompt) = k
    BY <1>1, <1>2, <2>1, <2>2, ConcatProperties
  <2>8. Draws(history \o ds, history \o ds) = {target[k + 1]}
    <3> HIDE DEF said, k
    <3>1. history \o ds = prompt \o SubSeq(target, 1, k)
      BY <2>1, <2>6
    <3>2. QED BY <1>4, <2>4, <2>7, <3>1 DEF Draws, target
  <2>9. target[k + 1] \in Tokens
    <3>1. k + 1 \in 1 .. Len(target)
      BY <1>1, <2>4
    <3>2. QED BY <1>1, <3>1, ElementOfSeq
  <2>10. QED BY <2>8, <2>9
<1>5. QED BY <1>3, <1>4 DEF CallType

-----------------------------------------------------------------------------
(* Steps that emit a token *)

LEMMA EmitFacts ==
  ASSUME prompt \in Seq(Tokens), out \in Seq(Tokens), HistoryInv, UNCHANGED call,
         NEW tok \in Tokens, Emit(tok)
  PROVE  /\ HistoryInv'
         /\ out' \in Seq(Tokens)
         /\ Len(out') = Len(out) + 1
         /\ \A i \in 1 .. Len(out) : out'[i] = out[i]
         /\ out'[Len(out) + 1] = tok
         /\ cur' = tok
         /\ history' = Append(history, tok)
<1>1. out' = Append(out, tok) /\ history' = Append(history, tok) /\ cur' = tok
  BY DEF Emit
<1>2. Append(out, tok) = out \o <<tok>>
  BY AppendIsConcat
<1>3. history \in Seq(Tokens)
  BY OutIsGenerated
<1>4. Append(history, tok) = history \o <<tok>>
  BY <1>3, AppendIsConcat
<1>5. <<tok>> \in Seq(Tokens)
  OBVIOUS
<1>6. (prompt \o out) \o <<tok>> = prompt \o (out \o <<tok>>)
  BY <1>5, ConcatAssociative
<1>7. history' = prompt \o out'
  BY <1>1, <1>2, <1>4, <1>6 DEF HistoryInv
<1>8. HistoryInv'
  BY <1>7, CallUnchanged DEF HistoryInv
<1>9. QED BY <1>1, <1>8, AppendProperties

(* The tokens emitted so far follow the stream when the next one does. *)
LEMMA EmitFollows ==
  ASSUME Len(out) \in Nat, Len(out') = Len(out) + 1,
         \A i \in 1 .. Len(out) : out'[i] = out[i],
         \A i \in 1 .. Len(out) : out[i] = target[i],
         out'[Len(out) + 1] = target[Len(out) + 1],
         UNCHANGED call
  PROVE  \A i \in 1 .. Len(out') : out'[i] = target'[i]
<1>1. SUFFICES ASSUME NEW i \in 1 .. Len(out') PROVE out'[i] = target[i]
  BY CallUnchanged
<1>2. i \in 1 .. Len(out) \/ i = Len(out) + 1
  OBVIOUS
<1>3. QED BY <1>2

LEMMA InvFirst ==
  ASSUME SpecInv, First
  PROVE  SpecInv'
<1>1. /\ UNCHANGED call
      /\ UNCHANGED <<cancel, drafts, committed, stats, cache, draftCache>>
      /\ pc = "first"
  BY DEF First, caches
<1>2. CallType /\ HistoryInv /\ GreedyInv /\ CountInv /\ LateInv /\ DoneInv
  BY DEF SpecInv
<1>3. prompt \in Seq(Tokens) /\ budget \in Nat
  BY <1>2, CallFacts DEF CallType
<1>4. /\ out = <<>> /\ budget > 0 /\ stats.forwards = 1 /\ stats.accepted = 0
      /\ cache = history /\ late = 0 /\ done = <<>>
  BY <1>1 DEF SpecInv, CachesInv, CountInv, LateInv, DoneInv
<1>5. Len(out) = 0 /\ out \in Seq(Tokens) /\ history \in Seq(Tokens)
  BY <1>2, <1>3, <1>4, OutIsGenerated DEF CallType
<1>6. PICK tok \in Draws(cache, history) :
        IF tok \in stopTokens
        THEN End("StopToken", 0) /\ UNCHANGED <<out, history, cur, late>>
        ELSE Emit(tok) /\ pc' = "loop" /\ UNCHANGED done
  BY DEF First
<1>7. tok \in Tokens /\ (greedy => tok = target[1])
  <2>1. history = history \o <<>> /\ <<>> \in Seq(Tokens) /\ Len(<<>>) = 0
    BY <1>5, ConcatEmptySeq, EmptySeq
  <2>2. tok \in Draws(history \o <<>>, history \o <<>>)
    BY <1>4, <1>6, <2>1
  <2>3. Len(out) + Len(<<>>) < budget
    BY <1>3, <1>4, <1>5
  <2>4. /\ \A i \in 1 .. Len(out) : out[i] = target[i]
        /\ \A i \in 1 .. Len(<<>>) : <<>>[i] = target[Len(out) + i]
    BY <1>5, <2>1
  <2>5. /\ tok \in Tokens
        /\ greedy => tok = target[Len(out) + Len(<<>>) + 1]
    BY <1>2, <2>1, <2>2, <2>3, <2>4, DrawsTokens
  <2>6. QED BY <1>5, <2>1, <2>5
<1>8. CASE tok \in stopTokens
  <2>1. End("StopToken", 0) /\ UNCHANGED <<out, history, cur, late>>
    BY <1>6, <1>8
  <2>2. pc \notin Finals
    BY <1>1 DEF Finals
  <2>3. UNCHANGED <<cancel, history, cur, drafts, committed, stats, cache, draftCache, out, late>>
    BY <1>1, <2>1
  <2>4. QED BY <1>1, <2>1, <2>2, <2>3, InvEnd
<1>9. CASE tok \notin stopTokens
  <2>1. Emit(tok) /\ pc' = "loop" /\ done' = done
    BY <1>6, <1>9
  <2>2. /\ HistoryInv' /\ out' \in Seq(Tokens) /\ Len(out') = 1
        /\ out'[1] = tok /\ cur' = tok /\ history' = Append(history, tok)
    BY <1>1, <1>2, <1>3, <1>5, <1>7, <2>1, EmitFacts
  <2>3. late' \in {0, 1} /\ (~cancel => late' = 0)
    BY <1>4, <2>1 DEF Emit
  <2>4. CallType'
    BY <1>1, <1>2, <1>7, <2>1, <2>2, <2>3, CallUnchanged DEF CallType
  <2>5. CachesInv' /\ DraftInv'
    BY <1>1, <1>4, <1>7, <2>1, <2>2, CallUnchanged DEF SpecInv, CachesInv, DraftInv
  <2>6. CountInv'
    BY <1>1, <1>3, <1>4, <2>1, <2>2, CallUnchanged DEF CountInv
  <2>10. LateInv'
    <3>1. late' <= NumDraft + 1
      BY <2>3, NumDraftAssumption
    <3>2. cancel' = cancel /\ pc' = "loop"
      BY <1>1, <2>1
    <3>3. ~cancel' => late' = 0
      BY <2>3, <3>2
    <3>4. QED BY <3>1, <3>2, <3>3 DEF LateInv
  <2>7. GreedyInv'
    <3>1. greedy' = greedy /\ target' = target
      BY <1>1, CallUnchanged
    <3>2. greedy => \A i \in 1 .. Len(out') : out'[i] = target[i]
      BY <1>7, <2>2
    <3>3. QED BY <2>1, <3>1, <3>2 DEF GreedyInv
  <2>8. DoneInv'
    BY <1>4, <2>1 DEF DoneInv
  <2>9. QED BY <2>2, <2>4, <2>5, <2>6, <2>7, <2>8, <2>10 DEF SpecInv
<1>10. QED BY <1>8, <1>9

-----------------------------------------------------------------------------
(* Proposing and verifying *)

LEMMA PrefixOfConcat ==
  ASSUME NEW s \in Seq(Tokens), NEW t \in Seq(Tokens), NEW n \in 0 .. Len(t)
  PROVE  /\ SubSeq(t, 1, n) \in Seq(Tokens)
         /\ Len(SubSeq(t, 1, n)) = n
         /\ \A i \in 1 .. n : SubSeq(t, 1, n)[i] = t[i]
         /\ SubSeq(s \o t, 1, Len(s) + n) = s \o SubSeq(t, 1, n)
<1>1. Len(s) \in Nat /\ Len(t) \in Nat
  BY LenProperties
<1>2. /\ SubSeq(t, 1, n) \in Seq(Tokens)
      /\ Len(SubSeq(t, 1, n)) = n
      /\ \A i \in 1 .. n : SubSeq(t, 1, n)[i] = t[i]
  <2>1. \A i \in 1 .. n : t[i] \in Tokens
    BY <1>1, ElementOfSeq
  <2>2. /\ SubSeq(t, 1, n) \in Seq(Tokens)
        /\ Len(SubSeq(t, 1, n)) = IF 1 <= n THEN n - 1 + 1 ELSE 0
        /\ \A i \in 1 .. n - 1 + 1 : SubSeq(t, 1, n)[i] = t[1 + i - 1]
    BY <1>1, <2>1, SubSeqProperties
  <2>3. QED BY <1>1, <2>2
<1>3. /\ s \o t \in Seq(Tokens)
      /\ Len(s \o t) = Len(s) + Len(t)
      /\ \A i \in 1 .. Len(s) + Len(t) : (s \o t)[i] = IF i <= Len(s) THEN s[i] ELSE t[i - Len(s)]
  BY ConcatProperties
<1> DEFINE m == Len(s) + n
           u == s \o t
           v == s \o SubSeq(t, 1, n)
<1>4. /\ v \in Seq(Tokens)
      /\ Len(v) = m
      /\ \A i \in 1 .. m : v[i] = IF i <= Len(s) THEN s[i] ELSE SubSeq(t, 1, n)[i - Len(s)]
  BY <1>2, ConcatProperties
<1>5. /\ SubSeq(u, 1, m) \in Seq(Tokens)
      /\ Len(SubSeq(u, 1, m)) = m
      /\ \A i \in 1 .. m : SubSeq(u, 1, m)[i] = u[i]
  <2>1. m \in Nat /\ m <= Len(u)
    BY <1>1, <1>3
  <2> HIDE DEF m, u
  <2>2. u \in Seq(Tokens)
    BY <1>3 DEF u
  <2>3. \A i \in 1 .. m : u[i] \in Tokens
    BY <2>1, <2>2, ElementOfSeq, LenProperties
  <2>4. /\ SubSeq(u, 1, m) \in Seq(Tokens)
        /\ Len(SubSeq(u, 1, m)) = IF 1 <= m THEN m - 1 + 1 ELSE 0
        /\ \A i \in 1 .. m - 1 + 1 : SubSeq(u, 1, m)[i] = u[1 + i - 1]
    BY <2>1, <2>3, SubSeqProperties
  <2>5. QED BY <2>1, <2>4
<1>6. ASSUME NEW i \in 1 .. m PROVE SubSeq(u, 1, m)[i] = v[i]
  <2>1. SubSeq(u, 1, m)[i] = u[i]
    BY <1>5
  <2>2. u[i] = IF i <= Len(s) THEN s[i] ELSE t[i - Len(s)]
    BY <1>1, <1>3
  <2>3. v[i] = IF i <= Len(s) THEN s[i] ELSE SubSeq(t, 1, n)[i - Len(s)]
    BY <1>4
  <2>4. CASE i <= Len(s)
    BY <2>1, <2>2, <2>3, <2>4
  <2>5. CASE i > Len(s)
    <3>1. i - Len(s) \in 1 .. n
      BY <1>1, <2>5
    <3>2. SubSeq(t, 1, n)[i - Len(s)] = t[i - Len(s)]
      BY <1>2, <3>1
    <3>3. ~(i <= Len(s))
      BY <1>1, <2>5
    <3>4. QED BY <2>1, <2>2, <2>3, <3>2, <3>3
  <2>6. QED BY <1>1, <2>4, <2>5
<1>7. SubSeq(u, 1, m) = v
  <2> HIDE DEF m, u, v
  <2>1. QED BY <1>4, <1>5, <1>6, SeqEqual
<1>8. QED BY <1>2, <1>7

(* truncate leaves the context before the step, cur and the accepted drafts. *)
LEMMA KeptIs ==
  ASSUME NEW s \in Seq(Tokens), NEW t \in Seq(Tokens), NEW n \in 0 .. Len(t),
         NEW base \in Nat, Len(s) = base + 1
  PROVE  Kept(s \o t, base, n) = s \o SubSeq(t, 1, n)
<1>1. Len(s \o t) = Len(s) + Len(t) /\ Len(t) \in Nat
  BY ConcatProperties, LenProperties
<1>2. CASE n = Len(t)
  <2>1. SubSeq(t, 1, n) = t
    BY <1>2, SubSeqFull
  <2>2. Len(s \o t) <= base + 1 + n
    BY <1>1, <1>2
  <2>3. QED BY <2>1, <2>2 DEF Kept
<1>3. CASE n < Len(t)
  <2>1. ~(Len(s \o t) <= base + 1 + n) /\ base + 1 + n = Len(s) + n
    BY <1>1, <1>3
  <2>2. SubSeq(s \o t, 1, Len(s) + n) = s \o SubSeq(t, 1, n)
    BY PrefixOfConcat
  <2>3. QED BY <2>1, <2>2 DEF Kept
<1>4. QED BY <1>1, <1>2, <1>3

LEMMA ProposalsFit ==
  ASSUME NEW k \in Nat, NEW ds \in Proposals(k)
  PROVE  ds \in Seq(Tokens) /\ Len(ds) <= k
<1>1. \E n \in 0 .. k : ds \in [1 .. n -> Tokens]
  BY DEF Proposals
<1>2. PICK n \in 0 .. k : ds \in [1 .. n -> Tokens]
  BY <1>1
<1>3. ds \in Seq(Tokens) /\ Len(ds) = n
  BY <1>2
<1>4. QED BY <1>3

LEMMA InvPropose ==
  ASSUME SpecInv, Propose
  PROVE  SpecInv'
<1> DEFINE k == DraftCap(budget - Len(generated))
<1>1. /\ UNCHANGED call
      /\ UNCHANGED <<cancel, cache, history, cur, committed, stats, out, done, late>>
      /\ pc = "loop" /\ pc' = "verify"
      /\ Len(generated) < budget /\ ~cancel
      /\ drafts' \in Proposals(k)
      /\ draftCache' = IF drafter = "draft_model" THEN draftCache \o DraftFed(drafts') ELSE draftCache
  BY DEF Propose, StepBegins, CancelSeen, events
<1>2. CallType /\ HistoryInv /\ CachesInv /\ DraftInv /\ CountInv /\ LateInv /\ GreedyInv /\ DoneInv
  BY DEF SpecInv
<1>3. prompt \in Seq(Tokens) /\ budget \in Nat
  BY <1>2, CallFacts DEF CallType
<1>4. out = generated /\ Len(out) \in Nat
  BY <1>2, <1>3, OutIsGenerated, LenProperties DEF CallType
<1>5. k \in Nat /\ k <= NumDraft /\ Len(out) + k < budget
  BY <1>1, <1>3, <1>4, NumDraftAssumption DEF DraftCap
<1> HIDE DEF k
<1>6. drafts' \in Seq(Tokens) /\ Len(drafts') <= k /\ Len(drafts') \in Nat
  BY <1>1, <1>5, ProposalsFit, LenProperties
<1>7. cur \in Tokens /\ history = Append(cache, cur)
  BY <1>1, <1>2 DEF CachesInv
<1>8. draftCache' \in Seq(Tokens) /\ (drafter = "draft_model" => draftCache' = history \o drafts')
  <2>1. CASE drafter # "draft_model"
    BY <1>1, <1>2, <2>1 DEF CallType
  <2>2. CASE drafter = "draft_model"
    <3>1. draftCache' = cache \o (<<cur>> \o drafts')
      BY <1>1, <1>2, <2>2 DEF DraftInv, DraftFed
    <3>2. cache \in Seq(Tokens) /\ <<cur>> \in Seq(Tokens)
      BY <1>2, <1>7 DEF CallType
    <3>3. cache \o (<<cur>> \o drafts') = (cache \o <<cur>>) \o drafts'
      BY <1>6, <3>2, ConcatAssociative
    <3>4. cache \o <<cur>> = history
      BY <1>7, <3>2, AppendIsConcat
    <3>5. history \in Seq(Tokens)
      BY <3>2, <3>4, ConcatProperties
    <3>6. QED BY <1>6, <3>1, <3>3, <3>4, <3>5, ConcatProperties
  <2>3. QED BY <2>1, <2>2
<1>9. CallType'
  BY <1>1, <1>2, <1>6, <1>8, CallUnchanged DEF CallType
<1>10. HistoryInv' /\ CachesInv' /\ DraftInv'
  BY <1>1, <1>2, <1>7, <1>8, CallUnchanged DEF HistoryInv, CachesInv, DraftInv
<1>11. CountInv'
  <2>1. Len(out) + Len(drafts') < budget /\ Len(drafts') <= NumDraft
    BY <1>3, <1>4, <1>5, <1>6, NumDraftAssumption
  <2>2. Len(out) = stats.forwards + stats.accepted /\ Len(out) <= budget
    BY <1>1, <1>2 DEF CountInv
  <2>3. QED BY <1>1, <2>1, <2>2, CallUnchanged DEF CountInv
<1>12. LateInv'
  <2>1. late = 0 /\ late <= NumDraft + 1
    BY <1>1, <1>2 DEF LateInv
  <2>2. QED BY <1>1, <2>1 DEF LateInv
<1>13. GreedyInv' /\ DoneInv'
  BY <1>1, <1>2, CallUnchanged DEF GreedyInv, DoneInv
<1>14. QED BY <1>9, <1>10, <1>11, <1>12, <1>13 DEF SpecInv

(* The drafts the target accepts continue its stream. *)
LEMMA AcceptedFollow ==
  ASSUME SpecInv, pc = "verify", greedy, NEW n \in 0 .. Len(drafts), Accepts(n)
  PROVE  \A i \in 1 .. n : drafts[i] = target[Len(out) + i]
<1>1. SUFFICES ASSUME NEW i \in 1 .. n PROVE drafts[i] = target[Len(out) + i]
  OBVIOUS
<1>2. CallType /\ HistoryInv /\ CachesInv
  BY DEF SpecInv
<1>3. prompt \in Seq(Tokens) /\ out \in Seq(Tokens) /\ drafts \in Seq(Tokens) /\ cache \in Seq(Tokens)
  BY <1>2, CallFacts DEF CallType
<1>4. Len(prompt) \in Nat /\ Len(out) \in Nat /\ Len(drafts) \in Nat
  BY <1>3, LenProperties
<1>5. cache \o <<cur>> = history
  BY <1>2, <1>3, AppendIsConcat DEF CachesInv
<1>6. history \in Seq(Tokens) /\ Len(history) = Len(prompt) + Len(out)
  BY <1>2, <1>3, OutIsGenerated
<1>7. drafts[i] \in Draws(history \o SubSeq(drafts, 1, i - 1), history \o SubSeq(drafts, 1, i - 1))
  BY <1>5 DEF Accepts, RowDraws
<1>8. drafts[i] \in Tokens
  <2>1. i \in 1 .. Len(drafts)
    BY <1>4
  <2>2. QED BY <1>3, <2>1, ElementOfSeq
<1>9. drafts[i] = target[Len(history \o SubSeq(drafts, 1, i - 1)) - Len(prompt) + 1]
  BY <1>7, <1>8, GreedyDraw
<1>10. SubSeq(drafts, 1, i - 1) \in Seq(Tokens) /\ Len(SubSeq(drafts, 1, i - 1)) = i - 1
  <2>1. i - 1 \in 0 .. Len(drafts)
    BY <1>4
  <2>2. QED BY <1>3, <2>1, PrefixOfConcat
<1>11. Len(history \o SubSeq(drafts, 1, i - 1)) = Len(prompt) + Len(out) + (i - 1)
  BY <1>6, <1>10, ConcatProperties
<1>12. Len(history \o SubSeq(drafts, 1, i - 1)) - Len(prompt) + 1 = Len(out) + i
  BY <1>4, <1>11
<1>13. QED BY <1>9, <1>12

LEMMA InvVerify ==
  ASSUME SpecInv, Verify
  PROVE  SpecInv'
<1>1. /\ UNCHANGED call
      /\ UNCHANGED <<cancel, history, cur, out, done, late>>
      /\ pc = "verify" /\ pc' = "commit"
      /\ drafts' = <<>>
  BY DEF Verify, events
<1>2. PICK n \in 0 .. Len(drafts) : \E bonus \in RowDraws(n + 1) :
        /\ Accepts(n)
        /\ committed' = Commits(n, bonus)
        /\ cache' = Kept(cache \o <<cur>> \o drafts, Len(cache), n)
        /\ draftCache' = IF drafter = "draft_model"
                         THEN Kept(draftCache, Len(draftCache) - Len(DraftFed(drafts)), n)
                         ELSE draftCache
        /\ stats' = [forwards |-> stats.forwards + 1, accepted |-> stats.accepted + n]
  BY DEF Verify
<1>3. PICK bonus \in RowDraws(n + 1) :
        /\ Accepts(n)
        /\ committed' = Commits(n, bonus)
        /\ cache' = Kept(cache \o <<cur>> \o drafts, Len(cache), n)
        /\ draftCache' = IF drafter = "draft_model"
                         THEN Kept(draftCache, Len(draftCache) - Len(DraftFed(drafts)), n)
                         ELSE draftCache
        /\ stats' = [forwards |-> stats.forwards + 1, accepted |-> stats.accepted + n]
  BY <1>2
<1>4. CallType /\ HistoryInv /\ CachesInv /\ DraftInv /\ CountInv /\ LateInv /\ GreedyInv /\ DoneInv
  BY DEF SpecInv
<1>5. /\ prompt \in Seq(Tokens) /\ budget \in Nat /\ cache \in Seq(Tokens)
      /\ drafts \in Seq(Tokens) /\ draftCache \in Seq(Tokens) /\ out \in Seq(Tokens)
  BY <1>4, CallFacts DEF CallType
<1>6. Len(cache) \in Nat /\ Len(drafts) \in Nat /\ Len(out) \in Nat /\ Len(prompt) \in Nat
  BY <1>5, LenProperties
<1>7. cur \in Tokens /\ cache \o <<cur>> = history /\ history = Append(cache, cur)
  BY <1>1, <1>4, <1>5, AppendIsConcat DEF CachesInv
<1>8. history \in Seq(Tokens) /\ Len(history) = Len(cache) + 1
  BY <1>5, <1>7, AppendProperties
<1> DEFINE ds == SubSeq(drafts, 1, n)
<1>9. ds \in Seq(Tokens) /\ Len(ds) = n /\ \A i \in 1 .. n : ds[i] = drafts[i]
  BY <1>5, PrefixOfConcat
<1>10. greedy => \A i \in 1 .. n : ds[i] = target[Len(out) + i]
  BY <1>1, <1>3, <1>9, AcceptedFollow
<1>11. Len(out) + n < budget /\ n <= NumDraft /\ Len(out) = stats.forwards + stats.accepted
  BY <1>1, <1>4, <1>5, <1>6, NumDraftAssumption DEF CountInv
<1>12. bonus \in Draws(history \o ds, history \o ds)
  <2>1. n + 1 - 1 = n
    OBVIOUS
  <2>2. RowDraws(n + 1) = Draws((cache \o <<cur>>) \o SubSeq(drafts, 1, n),
                                history \o SubSeq(drafts, 1, n))
    BY <2>1 DEF RowDraws
  <2>3. RowDraws(n + 1) = Draws(history \o ds, history \o ds)
    BY <1>7, <2>2
  <2>4. bonus \in RowDraws(n + 1)
    BY <1>3
  <2>5. QED BY <2>3, <2>4
<1>13. bonus \in Tokens /\ (greedy => bonus = target[Len(out) + n + 1])
  <2> HIDE DEF ds
  <2>1. Len(out) + Len(ds) < budget
    BY <1>9, <1>11
  <2>2. greedy => /\ \A i \in 1 .. Len(out) : out[i] = target[i]
                  /\ \A i \in 1 .. Len(ds) : ds[i] = target[Len(out) + i]
    BY <1>4, <1>9, <1>10 DEF GreedyInv
  <2>3. \A tok \in Draws(history \o ds, history \o ds) :
           /\ tok \in Tokens
           /\ greedy => tok = target[Len(out) + Len(ds) + 1]
    BY <1>4, <1>9, <2>1, <2>2, DrawsTokens
  <2>4. QED BY <1>9, <1>12, <2>3
<1>14. committed' = Append(ds, bonus)
  BY <1>3 DEF Commits
<1> HIDE DEF ds
<1>15. /\ committed' \in Seq(Tokens) /\ committed' # <<>>
       /\ Len(committed') = n + 1
       /\ \A i \in 1 .. n : committed'[i] = ds[i]
       /\ committed'[n + 1] = bonus
  BY <1>9, <1>13, <1>14, AppendProperties
<1>16. Front(committed') = ds
  <2>1. \A i \in 1 .. n : committed'[i] \in Tokens
    BY <1>6, <1>15, ElementOfSeq
  <2>2. /\ SubSeq(committed', 1, n) \in Seq(Tokens)
        /\ Len(SubSeq(committed', 1, n)) = IF 1 <= n THEN n - 1 + 1 ELSE 0
        /\ \A i \in 1 .. n - 1 + 1 : SubSeq(committed', 1, n)[i] = committed'[1 + i - 1]
    BY <2>1, SubSeqProperties
  <2>3. Len(SubSeq(committed', 1, n)) = n /\ \A i \in 1 .. n : SubSeq(committed', 1, n)[i] = ds[i]
    BY <1>15, <2>2
  <2>4. SubSeq(committed', 1, n) = ds
    BY <1>9, <2>2, <2>3, SeqEqual
  <2>5. Len(committed') - 1 = n
    BY <1>15
  <2>6. QED BY <2>4, <2>5 DEF Front
<1>17. cache' = history \o ds
  <2>1. cache' = Kept((cache \o <<cur>>) \o drafts, Len(cache), n)
    BY <1>3
  <2>2. cache' = Kept(history \o drafts, Len(cache), n)
    BY <1>7, <2>1
  <2>3. Kept(history \o drafts, Len(cache), n) = history \o SubSeq(drafts, 1, n)
    BY <1>5, <1>6, <1>8, KeptIs
  <2>4. QED BY <2>2, <2>3 DEF ds
<1>18. drafter = "draft_model" => draftCache' = history \o ds
  <2>1. ASSUME drafter = "draft_model" PROVE draftCache' = history \o ds
    <3>1. draftCache = history \o drafts
      BY <1>1, <1>4, <2>1 DEF DraftInv
    <3>2. Len(draftCache) = Len(history) + Len(drafts)
      BY <1>5, <1>8, <3>1, ConcatProperties
    <3>3. <<cur>> \in Seq(Tokens) /\ Len(<<cur>>) = 1
      BY <1>7
    <3>4. Len(DraftFed(drafts)) = 1 + Len(drafts)
      BY <1>5, <3>3, ConcatProperties DEF DraftFed
    <3>5. Len(draftCache) - Len(DraftFed(drafts)) = Len(cache)
      BY <1>6, <1>8, <3>2, <3>4
    <3>6. draftCache' = Kept(history \o drafts, Len(cache), n)
      BY <1>3, <2>1, <3>1, <3>5
    <3>7. QED BY <1>5, <1>6, <1>8, <3>6, KeptIs DEF ds
  <2>2. QED BY <2>1
<1>19. history \o ds \in Seq(Tokens)
  BY <1>8, <1>9, ConcatProperties
<1>20. draftCache' \in Seq(Tokens)
  BY <1>3, <1>5, <1>18, <1>19
<1>21. stats' \in [forwards : Nat, accepted : Nat]
  BY <1>3, <1>4, <1>6 DEF CallType
<1>22. CallType'
  BY <1>1, <1>4, <1>15, <1>17, <1>19, <1>20, <1>21, EmptySeq, CallUnchanged DEF CallType
<1>23. HistoryInv' /\ CachesInv' /\ DraftInv'
  BY <1>1, <1>4, <1>15, <1>16, <1>17, <1>18, CallUnchanged DEF HistoryInv, CachesInv, DraftInv
<1>24. CountInv'
  <2>1. stats'.forwards + stats'.accepted = stats.forwards + stats.accepted + n + 1
    BY <1>3, <1>4 DEF CallType
  <2>4. stats.forwards \in Nat /\ stats.accepted \in Nat
    BY <1>4 DEF CallType
  <2>5. stats'.forwards + stats'.accepted = Len(out) + n + 1
    BY <1>11, <2>1
  <2>2. /\ Len(out) + Len(committed') = stats'.forwards + stats'.accepted
        /\ Len(out) + Len(committed') <= budget
        /\ Len(out) <= budget
    BY <1>5, <1>6, <1>11, <1>15, <2>5
  <2>3. QED BY <1>1, <2>2, CallUnchanged DEF CountInv
<1>25. LateInv'
  <2>1. late = 0 /\ 0 + Len(committed') <= NumDraft + 1 /\ 0 <= NumDraft + 1
    BY <1>1, <1>4, <1>11, <1>15, NumDraftAssumption DEF LateInv
  <2>2. QED BY <1>1, <2>1 DEF LateInv
<1>26. GreedyInv'
  <2>1. greedy => \A i \in 1 .. Len(committed') : committed'[i] = target[Len(out) + i]
    <3>1. SUFFICES ASSUME greedy, NEW i \in 1 .. n + 1 PROVE committed'[i] = target[Len(out) + i]
      BY <1>15
    <3>2. CASE i \in 1 .. n
      BY <1>10, <1>15, <3>1, <3>2
    <3>3. CASE i = n + 1
      <4>1. Len(out) + n + 1 = Len(out) + i
        BY <1>6, <3>3
      <4>2. QED BY <1>13, <1>15, <3>1, <3>3, <4>1
    <3>4. QED BY <1>6, <3>2, <3>3
  <2>2. QED BY <1>1, <1>4, <2>1, CallUnchanged DEF GreedyInv
<1>27. DoneInv'
  BY <1>1, <1>4 DEF DoneInv
<1>28. QED BY <1>22, <1>23, <1>24, <1>25, <1>26, <1>27 DEF SpecInv

-----------------------------------------------------------------------------
(* Committing, and the end of the call *)

LEMMA InvEnds ==
  ASSUME SpecInv, ZeroBudget \/ LeaveLoop \/ CommitStop
  PROVE  SpecInv'
<1>1. /\ UNCHANGED call
      /\ UNCHANGED <<cancel, history, cur, drafts, committed, stats, cache, draftCache, out, late>>
      /\ pc \in {"start", "loop", "commit"}
  BY DEF ZeroBudget, LeaveLoop, CommitStop, caches
<1>2. CallType /\ HistoryInv /\ CountInv
  BY DEF SpecInv
<1>3. prompt \in Seq(Tokens) /\ budget \in Nat
  BY <1>2, CallFacts DEF CallType
<1>4. out = generated /\ Len(out) \in Nat
  BY <1>2, <1>3, OutIsGenerated, LenProperties DEF CallType
<1>5. pc \notin Finals
  BY <1>1 DEF Finals
<1>6. CASE ZeroBudget
  <2>1. End("MaxTokens", 0) /\ pc = "start"
    BY <1>6 DEF ZeroBudget
  <2>2. Len(out) = stats.forwards + stats.accepted
    BY <1>2, <2>1, EmptySeq DEF CountInv
  <2>3. QED BY <1>1, <1>5, <2>1, <2>2, InvEnd
<1>7. CASE LeaveLoop
  <2>1. /\ pc = "loop"
        /\ End("MaxTokens", Len(generated)) \/ End("Cancelled", Len(generated))
    BY <1>7 DEF LeaveLoop
  <2>2. Len(out) = stats.forwards + stats.accepted
    BY <1>2, <2>1 DEF CountInv
  <2>3. Len(generated) \in Nat
    BY <1>4
  <2>4. QED BY <1>1, <1>5, <2>1, <2>2, <2>3, InvEnd
<1>8. CASE CommitStop
  <2>1. End("StopToken", Len(generated))
    BY <1>8 DEF CommitStop
  <2>2. Len(generated) \in Nat
    BY <1>4
  <2>3. QED BY <1>1, <1>5, <2>1, <2>2, InvEnd
<1>9. QED BY <1>6, <1>7, <1>8

LEMMA FrontOfTail ==
  ASSUME NEW s \in Seq(Tokens), Len(s) >= 2
  PROVE  Front(Tail(s)) = SubSeq(s, 2, Len(s) - 1)
<1>1. s # <<>> /\ Len(s) \in Nat
  BY EmptySeq, LenProperties
<1>2. /\ Tail(s) \in Seq(Tokens)
      /\ Len(Tail(s)) = Len(s) - 1
      /\ \A i \in 1 .. Len(Tail(s)) : Tail(s)[i] = s[i + 1]
  BY <1>1, HeadTailProperties
<1> DEFINE t == Tail(s)
           n == Len(s) - 2
<1>3. n \in Nat /\ n = Len(t) - 1 /\ 2 + n - 1 = Len(s) - 1
  BY <1>1, <1>2
<1>4. /\ \A i \in 1 .. n : t[i] \in Tokens
      /\ \A i \in 2 .. Len(s) - 1 : s[i] \in Tokens
  <2>1. ASSUME NEW i \in 1 .. n PROVE t[i] \in Tokens
    <3>1. i \in 1 .. Len(t)
      BY <1>3
    <3>2. QED BY <1>2, <3>1, ElementOfSeq
  <2>2. ASSUME NEW i \in 2 .. Len(s) - 1 PROVE s[i] \in Tokens
    <3>1. i \in 1 .. Len(s)
      BY <1>1
    <3>2. QED BY <3>1, ElementOfSeq
  <2>3. QED BY <2>1, <2>2
<1>5. /\ SubSeq(t, 1, n) \in Seq(Tokens)
      /\ Len(SubSeq(t, 1, n)) = n
      /\ \A i \in 1 .. n : SubSeq(t, 1, n)[i] = t[i]
  <2> HIDE DEF t, n
  <2>1. /\ SubSeq(t, 1, n) \in Seq(Tokens)
        /\ Len(SubSeq(t, 1, n)) = IF 1 <= n THEN n - 1 + 1 ELSE 0
        /\ \A i \in 1 .. n - 1 + 1 : SubSeq(t, 1, n)[i] = t[1 + i - 1]
    BY <1>3, <1>4, SubSeqProperties
  <2>2. QED BY <1>3, <2>1
<1>6. /\ SubSeq(s, 2, Len(s) - 1) \in Seq(Tokens)
      /\ Len(SubSeq(s, 2, Len(s) - 1)) = n
      /\ \A i \in 1 .. n : SubSeq(s, 2, Len(s) - 1)[i] = s[i + 1]
  <2>1. /\ SubSeq(s, 2, Len(s) - 1) \in Seq(Tokens)
        /\ Len(SubSeq(s, 2, Len(s) - 1)) = IF 2 <= Len(s) - 1 THEN Len(s) - 1 - 2 + 1 ELSE 0
        /\ \A i \in 1 .. Len(s) - 1 - 2 + 1 : SubSeq(s, 2, Len(s) - 1)[i] = s[2 + i - 1]
    BY <1>1, <1>4, SubSeqProperties
  <2> DEFINE v == SubSeq(s, 2, Len(s) - 1)
  <2> HIDE DEF v
  <2>2. /\ v \in Seq(Tokens)
        /\ Len(v) = IF 2 <= Len(s) - 1 THEN Len(s) - 1 - 2 + 1 ELSE 0
        /\ \A i \in 1 .. Len(s) - 1 - 2 + 1 : v[i] = s[2 + i - 1]
    BY <2>1 DEF v
  <2>3. Len(v) = n
    <3>1. Len(v) = IF 2 <= Len(s) - 1 THEN Len(s) - 1 - 2 + 1 ELSE 0
      BY <2>2
    <3>2. Len(s) \in Nat /\ Len(s) >= 2
      BY <1>1
    <3>3. \A k \in Nat : k >= 2 => (IF 2 <= k - 1 THEN k - 1 - 2 + 1 ELSE 0) = k - 2
      OBVIOUS
    <3>4. QED BY <3>1, <3>2, <3>3
  <2>4. ASSUME NEW i \in 1 .. n PROVE v[i] = s[i + 1]
    <3>1. i \in 1 .. Len(s) - 1 - 2 + 1 /\ 2 + i - 1 = i + 1
      BY <1>1
    <3>2. v[i] = s[2 + i - 1]
      BY <2>2, <3>1
    <3>3. QED BY <3>1, <3>2
  <2>5. QED BY <2>2, <2>3, <2>4 DEF v
<1>7. ASSUME NEW i \in 1 .. n PROVE SubSeq(t, 1, n)[i] = SubSeq(s, 2, Len(s) - 1)[i]
  <2>1. t[i] = s[i + 1]
    BY <1>2, <1>3
  <2>2. QED BY <1>5, <1>6, <2>1
<1>8. SubSeq(t, 1, n) = SubSeq(s, 2, Len(s) - 1)
  <2> HIDE DEF t, n
  <2>1. QED BY <1>5, <1>6, <1>7, SeqEqual
<1>9. Front(t) = SubSeq(t, 1, n)
  BY <1>3 DEF Front
<1>10. QED BY <1>8, <1>9

LEMMA InvCommitToken ==
  ASSUME SpecInv, CommitToken
  PROVE  SpecInv'
<1> DEFINE tok == Head(committed)
<1>1. /\ UNCHANGED call
      /\ UNCHANGED <<cancel, drafts, stats, cache, draftCache>>
      /\ pc = "commit" /\ committed # <<>>
      /\ committed' = Tail(committed)
      /\ Emit(tok)
      /\ IF Len(generated) + 1 >= budget
         THEN End("MaxTokens", Len(generated) + 1)
         ELSE UNCHANGED <<pc, done>>
  BY DEF CommitToken, caches
<1>2. CallType /\ HistoryInv /\ CachesInv /\ DraftInv /\ CountInv /\ LateInv /\ GreedyInv /\ DoneInv
  BY DEF SpecInv
<1>3. prompt \in Seq(Tokens) /\ budget \in Nat /\ out \in Seq(Tokens) /\ committed \in Seq(Tokens)
  BY <1>2, CallFacts DEF CallType
<1>4. /\ out = generated /\ history \in Seq(Tokens)
      /\ Len(out) \in Nat /\ Len(committed) \in Nat
  BY <1>2, <1>3, OutIsGenerated, LenProperties
<1>5. /\ tok \in Tokens
      /\ committed' \in Seq(Tokens)
      /\ Len(committed') = Len(committed) - 1
      /\ \A i \in 1 .. Len(committed') : committed'[i] = committed[i + 1]
  BY <1>1, <1>3, HeadTailProperties
<1>6. tok = committed[1]
  BY <1>1
<1> HIDE DEF tok
<1>7. /\ HistoryInv' /\ out' \in Seq(Tokens) /\ Len(out') = Len(out) + 1
      /\ \A i \in 1 .. Len(out) : out'[i] = out[i]
      /\ out'[Len(out) + 1] = tok /\ cur' = tok /\ history' = Append(history, tok)
  BY <1>1, <1>2, <1>3, <1>5, EmitFacts
<1>8. late' = (IF cancel THEN late + 1 ELSE late) /\ late \in Nat
  BY <1>1, <1>2 DEF Emit, CallType
<1>9. /\ Len(out) + Len(committed) = stats.forwards + stats.accepted
      /\ Len(out) + Len(committed) <= budget
  BY <1>1, <1>2 DEF CountInv
<1>10. late + Len(committed) <= NumDraft + 1 /\ (~cancel => late = 0) /\ Len(committed) >= 1
  <2>1. Len(committed) # 0
    BY <1>1, <1>3, EmptySeq
  <2>2. QED BY <1>1, <1>2, <1>4, <2>1 DEF LateInv
<1>11. /\ Len(out') + Len(committed') = stats.forwards + stats.accepted
       /\ Len(out') + Len(committed') <= budget
       /\ Len(out') <= budget
       /\ late' + Len(committed') <= NumDraft + 1
       /\ late' <= NumDraft + 1
       /\ ~cancel => late' = 0
  BY <1>3, <1>4, <1>5, <1>7, <1>8, <1>9, <1>10, NumDraftAssumption
<1>12. greedy => /\ \A i \in 1 .. Len(out') : out'[i] = target'[i]
                 /\ \A i \in 1 .. Len(committed') : committed'[i] = target[Len(out') + i]
  <2>1. SUFFICES ASSUME greedy
                 PROVE  /\ \A i \in 1 .. Len(out') : out'[i] = target'[i]
                        /\ \A i \in 1 .. Len(committed') : committed'[i] = target[Len(out') + i]
    OBVIOUS
  <2>2. /\ \A i \in 1 .. Len(out) : out[i] = target[i]
        /\ \A i \in 1 .. Len(committed) : committed[i] = target[Len(out) + i]
    BY <1>1, <1>2, <2>1 DEF GreedyInv
  <2>3. tok = target[Len(out) + 1]
    BY <1>4, <1>6, <1>10, <2>2
  <2>4. \A i \in 1 .. Len(out') : out'[i] = target'[i]
    BY <1>1, <1>4, <1>7, <2>2, <2>3, EmitFollows
  <2>5. ASSUME NEW i \in 1 .. Len(committed') PROVE committed'[i] = target[Len(out') + i]
    <3>1. i + 1 \in 1 .. Len(committed)
      BY <1>4, <1>5
    <3>2. committed[i + 1] = target[Len(out) + (i + 1)]
      BY <2>2, <3>1
    <3>3. Len(out) + (i + 1) = Len(out') + i
      BY <1>4, <1>7
    <3>4. QED BY <1>5, <3>2, <3>3
  <2>6. QED BY <2>4, <2>5
<1>13. cache = history \o Front(committed)
  BY <1>1, <1>2 DEF CachesInv
<1>14. cache' = IF committed' = <<>> THEN history ELSE history' \o Front(committed')
  <2>1. CASE Len(committed) = 1
    <3>1. committed' = <<>>
      BY <1>5, <2>1, EmptySeq
    <3>2. Front(committed) = <<>>
      BY <2>1, SubSeqEmpty DEF Front
    <3>3. QED BY <1>1, <1>4, <1>13, <3>1, <3>2, ConcatEmptySeq
  <2>2. CASE Len(committed) # 1
    <3>1. Len(committed) >= 2 /\ committed' # <<>>
      BY <1>4, <1>5, <1>10, <2>2, EmptySeq
    <3>2. Front(committed) = <<tok>> \o SubSeq(committed, 2, Len(committed) - 1)
      <4>1. 1 \in 1 .. Len(committed) /\ Len(committed) - 1 \in 1 .. Len(committed)
        BY <1>4, <3>1
      <4>2. SubSeq(committed, 1, Len(committed) - 1)
              = <<committed[1]>> \o SubSeq(committed, 1 + 1, Len(committed) - 1)
        BY <1>3, <4>1, SubSeqRecursiveFirst
      <4>3. QED BY <1>6, <4>2 DEF Front
    <3>3. Front(committed') = SubSeq(committed, 2, Len(committed) - 1)
      BY <1>1, <1>3, <3>1, FrontOfTail
    <3>4. history' = history \o <<tok>>
      BY <1>4, <1>5, <1>7, AppendIsConcat
    <3>5. <<tok>> \in Seq(Tokens) /\ SubSeq(committed, 2, Len(committed) - 1) \in Seq(Tokens)
      <4>1. ASSUME NEW i \in 2 .. Len(committed) - 1 PROVE committed[i] \in Tokens
        <5>1. i \in 1 .. Len(committed)
          BY <1>4
        <5>2. QED BY <1>3, <5>1, ElementOfSeq
      <4>2. SubSeq(committed, 2, Len(committed) - 1) \in Seq(Tokens)
        BY <1>4, <4>1, SubSeqProperties
      <4>3. QED BY <1>5, <4>2
    <3>6. history \o (<<tok>> \o SubSeq(committed, 2, Len(committed) - 1))
            = (history \o <<tok>>) \o SubSeq(committed, 2, Len(committed) - 1)
      <4> DEFINE x == <<tok>>
                 w == SubSeq(committed, 2, Len(committed) - 1)
      <4>1. x \in Seq(Tokens) /\ w \in Seq(Tokens)
        BY <3>5
      <4> HIDE DEF x, w
      <4>2. (history \o x) \o w = history \o (x \o w)
        BY <1>4, <4>1, ConcatAssociative
      <4>3. QED BY <4>2 DEF x, w
    <3>7. cache = history' \o Front(committed')
      BY <1>13, <3>2, <3>3, <3>4, <3>6
    <3>8. cache' = cache
      BY <1>1
    <3>9. QED BY <3>1, <3>7, <3>8
  <2>3. QED BY <2>1, <2>2
<1>15. \/ pc' = "commit" /\ done' = done
       \/ pc' = "returned" /\ End("MaxTokens", Len(generated) + 1) /\ Len(out) + 1 >= budget
  BY <1>1, <1>4 DEF End
<1>16. CallType'
  BY <1>1, <1>2, <1>5, <1>7, <1>8, <1>15, CallUnchanged DEF CallType, Finals
<1>17. CachesInv'
  BY <1>5, <1>7, <1>14, <1>15, <1>1 DEF CachesInv
<1>18. DraftInv'
  BY <1>1, <1>2, <1>15, CallUnchanged DEF DraftInv
<1>19. CountInv'
  BY <1>1, <1>11, <1>15, CallUnchanged DEF CountInv
<1>20. LateInv'
  <2>1. cancel' = cancel /\ pc' \in {"commit", "returned"}
    BY <1>1, <1>15
  <2>2. QED BY <1>11, <2>1 DEF LateInv
<1>21. GreedyInv'
  <2>1. greedy' = greedy /\ target' = target
    BY <1>1, CallUnchanged
  <2>2. QED BY <1>12, <2>1 DEF GreedyInv
<1>22. DoneInv'
  <2>1. CASE pc' = "commit" /\ done' = done
    BY <1>1, <1>2, <2>1 DEF DoneInv
  <2>2. CASE pc' = "returned" /\ End("MaxTokens", Len(generated) + 1) /\ Len(out) + 1 >= budget
    <3> DEFINE Dones == [reason : {"StopToken", "MaxTokens", "Cancelled"}, generated : Nat]
               d == [reason |-> "MaxTokens", generated |-> Len(generated) + 1]
    <3>1. d \in Dones
      BY <1>4
    <3>2. done = <<>> /\ done' = Append(done, d)
      BY <1>1, <1>2, <2>2 DEF DoneInv, End
    <3> HIDE DEF Dones, d
    <3>3. done' \in Seq(Dones)
      BY <3>1, <3>2, EmptySeq, AppendProperties
    <3>4. Len(out') = stats'.forwards + stats'.accepted
      <4>1. Len(out') = stats.forwards + stats.accepted
        <5>1. Len(committed') \in Nat
          BY <1>5, LenProperties
        <5>2. Len(committed') = 0
          BY <1>3, <1>4, <1>7, <1>11, <2>2, <5>1
        <5>3. QED BY <1>4, <1>7, <1>11, <5>2
      <4>2. QED BY <1>1, <4>1
    <3>5. QED BY <2>2, <3>3, <3>4 DEF DoneInv, Dones
  <2>3. QED BY <1>15, <2>1, <2>2
<1>23. QED BY <1>7, <1>16, <1>17, <1>18, <1>19, <1>20, <1>21, <1>22 DEF SpecInv

-----------------------------------------------------------------------------
(* The theorems *)

LEMMA InvNext ==
  ASSUME SpecInv, [Next]_vars
  PROVE  SpecInv'
<1>1. CASE UNCHANGED vars
  <2>1. /\ UNCHANGED call
        /\ UNCHANGED <<cancel, pc, cache, draftCache, history, cur, drafts, committed, stats,
                       out, done, late>>
    BY <1>1 DEF vars, call
  <2>2. CallType' /\ HistoryInv' /\ CachesInv' /\ DraftInv'
    BY <2>1, CallUnchanged DEF SpecInv, CallType, HistoryInv, CachesInv, DraftInv
  <2>3. CountInv' /\ LateInv' /\ GreedyInv' /\ DoneInv'
    BY <2>1, CallUnchanged DEF SpecInv, CountInv, LateInv, GreedyInv, DoneInv
  <2>4. QED BY <2>2, <2>3 DEF SpecInv
<1>2. CASE Next
  <2>1. CASE Cancel \/ Refuse \/ Fail
    BY <2>1, InvQuiet
  <2>2. CASE ZeroBudget \/ LeaveLoop \/ CommitStop
    BY <2>2, InvEnds
  <2>3. CASE Prefill
    BY <2>3, InvPrefill
  <2>4. CASE First
    BY <2>4, InvFirst
  <2>5. CASE Propose
    BY <2>5, InvPropose
  <2>6. CASE Verify
    BY <2>6, InvVerify
  <2>7. CASE CommitToken
    BY <2>7, InvCommitToken
  <2>8. CASE CommitDone
    BY <2>8, InvCommitDone
  <2>9. QED BY <1>2, <2>1, <2>2, <2>3, <2>4, <2>5, <2>6, <2>7, <2>8 DEF Next, Step
<1>3. QED BY <1>1, <1>2

LEMMA SpecInvariant == Spec => []SpecInv
<1>1. Init => SpecInv
  BY InvInit
<1>2. SpecInv /\ [Next]_vars => SpecInv'
  BY InvNext
<1>3. QED BY <1>1, <1>2, PTL DEF Spec

(* Every token that reaches a cache, the history or the events is in the     *)
(* vocabulary, and the events are the generated tokens.                      *)
THEOREM SpecTypeOK == Spec => []TypeOK
<1>1. SpecInv => TypeOK
  <2>1. SUFFICES ASSUME SpecInv PROVE TypeOK
    OBVIOUS
  <2>2. CallType /\ HistoryInv
    BY <2>1 DEF SpecInv
  <2>3. out = generated /\ history \in Seq(Tokens)
    BY <2>2, CallFacts, OutIsGenerated DEF CallType
  <2>4. QED BY <2>2, <2>3 DEF TypeOK, CallType
<1>2. QED BY <1>1, SpecInvariant, PTL

(* Rollback: when a step begins, the target's cache and the draft model's    *)
(* hold exactly the committed tokens but the last one.                       *)
THEOREM SpecCachesInStep == Spec => []CachesInStep
<1>1. SpecInv => CachesInStep
  <2>1. SUFFICES ASSUME SpecInv PROVE CachesInStep
    OBVIOUS
  <2>2. CachesInv /\ DraftInv
    BY <2>1 DEF SpecInv
  <2>3. QED BY <2>2 DEF CachesInStep, CachesInv, DraftInv
<1>2. QED BY <1>1, SpecInvariant, PTL

(* The budget: a call that ends with MaxTokens dropped no accepted token.    *)
THEOREM SpecNothingWasted == Spec => []NothingWasted
<1>1. SpecInv => NothingWasted
  <2>1. SUFFICES ASSUME SpecInv, NEW d \in ToSet(done), d.reason = "MaxTokens"
                 PROVE  Len(generated) = stats.forwards + stats.accepted
    BY DEF NothingWasted
  <2>2. CallType /\ HistoryInv /\ DoneInv
    BY <2>1 DEF SpecInv
  <2>3. out = generated
    BY <2>2, CallFacts, OutIsGenerated DEF CallType
  <2>4. PICK i \in DOMAIN done : d = done[i]
    BY <2>1 DEF ToSet
  <2>5. pc = "returned"
    BY <2>2, <2>4 DEF DoneInv
  <2>6. i \in 1 .. Len(done)
    BY <2>2, <2>4, <2>5, LenProperties DEF DoneInv
  <2>7. Len(out) = stats.forwards + stats.accepted
    BY <2>1, <2>2, <2>4, <2>5, <2>6 DEF DoneInv
  <2>8. QED BY <2>3, <2>7
<1>2. QED BY <1>1, SpecInvariant, PTL

(* A cancel lets through at most the tokens of the step under way.           *)
THEOREM SpecCancelWithinOneStep == Spec => []CancelWithinOneStep
<1>1. SpecInv => CancelWithinOneStep
  BY DEF SpecInv, LateInv, CancelWithinOneStep
<1>2. QED BY <1>1, SpecInvariant, PTL

-----------------------------------------------------------------------------
(* A greedy call implements the contract of Generation *)

outBar == [r \in Requests |-> IF r = request /\ greedy THEN out ELSE <<>>]
reasonBar == [r \in Requests |->
  IF r = request /\ greedy /\ done # <<>> THEN Head(done).reason ELSE "None"]
cancelBar == [r \in Requests |-> r = request /\ cancel]

LEMMA StepStutters ==
  ASSUME UNCHANGED call, UNCHANGED <<out, done, cancel>>
  PROVE  UNCHANGED <<stream, outBar, reasonBar, cancelBar>>
BY CallUnchanged DEF outBar, reasonBar, cancelBar

LEMMA SampledStutters ==
  ASSUME UNCHANGED call, UNCHANGED cancel, ~greedy
  PROVE  UNCHANGED <<stream, outBar, reasonBar, cancelBar>>
BY CallUnchanged DEF outBar, reasonBar, cancelBar

(* What the abstract state is before a greedy call has ended. *)
LEMMA BarBefore ==
  ASSUME request \in Requests, greedy, done = <<>>
  PROVE  /\ outBar[request] = out
         /\ reasonBar[request] = "None"
BY DEF outBar, reasonBar

(* A Done event alone: only the reason changes. *)
LEMMA EndIsFinish ==
  ASSUME request \in Requests, greedy, done = <<>>, UNCHANGED call, UNCHANGED <<out, cancel>>,
         NEW why, NEW count, End(why, count)
  PROVE  /\ UNCHANGED <<stream, outBar, cancelBar>>
         /\ reasonBar' = [reasonBar EXCEPT ![request] = why]
<1>1. UNCHANGED <<stream, outBar, cancelBar>>
  BY CallUnchanged DEF outBar, cancelBar
<1>2. done' # <<>> /\ Head(done').reason = why
  BY DEF End
<1>3. reasonBar' = [r \in Requests |-> IF r = request THEN why ELSE "None"]
  BY <1>2, CallUnchanged DEF reasonBar
<1>4. [reasonBar EXCEPT ![request] = why] = [r \in Requests |-> IF r = request THEN why ELSE "None"]
  BY DEF reasonBar
<1>5. QED BY <1>1, <1>3, <1>4

LEMMA EmitIsToken ==
  ASSUME request \in Requests, greedy, UNCHANGED call, UNCHANGED cancel, NEW tok, Emit(tok)
  PROVE  /\ UNCHANGED <<stream, cancelBar>>
         /\ outBar' = [outBar EXCEPT ![request] = Append(@, tok)]
<1>1. UNCHANGED <<stream, cancelBar>>
  BY CallUnchanged DEF cancelBar
<1>2. outBar' = [r \in Requests |-> IF r = request THEN Append(out, tok) ELSE <<>>]
  BY CallUnchanged DEF outBar, Emit
<1>3. [outBar EXCEPT ![request] = Append(@, tok)]
        = [r \in Requests |-> IF r = request THEN Append(out, tok) ELSE <<>>]
  BY DEF outBar
<1>4. QED BY <1>1, <1>2, <1>3

LEMMA AloneInit ==
  ASSUME Init PROVE Alone!Init
BY DEF Init, Alone!Init

LEMMA AloneCancel ==
  ASSUME request \in Requests, Cancel
  PROVE  Alone!Next
<1>1. /\ UNCHANGED call /\ UNCHANGED <<out, done>>
      /\ ~cancel /\ cancel' = TRUE
  BY DEF Cancel, events
<1>2. UNCHANGED <<stream, outBar, reasonBar>>
  BY <1>1, CallUnchanged DEF outBar, reasonBar
<1>3. PICK S \in SUBSET Requests : S = {request}
  OBVIOUS
<1>4. Alone!Cancel(S)
  <2>1. \A r \in S : ~cancelBar[r]
    BY <1>1, <1>3 DEF cancelBar
  <2>2. cancelBar' = [r \in Requests |-> cancelBar[r] \/ r \in S]
    <3>1. cancelBar' = [r \in Requests |-> r = request]
      BY <1>1, CallUnchanged DEF cancelBar
    <3>2. \A r \in Requests : cancelBar[r] = FALSE
      BY <1>1 DEF cancelBar
    <3>3. \A r \in Requests : (cancelBar[r] \/ r \in S) = (r = request)
      BY <1>3, <3>2
    <3>4. QED BY <3>1, <3>3
  <2>3. QED BY <1>2, <2>1, <2>2 DEF Alone!Cancel, outBar, reasonBar, cancelBar
<1>5. QED BY <1>4 DEF Alone!Next

(* A stop token, a full budget or a cancel ends the call. *)
LEMMA AloneEnd ==
  ASSUME SpecInv, greedy, pc \notin Finals, UNCHANGED call, UNCHANGED <<out, cancel>>,
         NEW why, NEW count, End(why, count),
         \/ why = "StopToken" /\ Len(out) < budget /\ target[Len(out) + 1] \in stopTokens
         \/ why = "MaxTokens" /\ Len(out) = budget
         \/ why = "Cancelled" /\ Len(out) < budget /\ cancel
  PROVE  Alone!Next
<1>1. request \in Requests /\ done = <<>>
  BY DEF SpecInv, CallType, DoneInv, Finals
<1>2. PICK r \in Requests : r = request
  BY <1>1
<1>3. /\ UNCHANGED <<stream, outBar, cancelBar>>
      /\ reasonBar' = [reasonBar EXCEPT ![r] = why]
  BY <1>1, <1>2, EndIsFinish
<1>4. outBar[r] = out /\ reasonBar[r] = "None"
  BY <1>1, <1>2, BarBefore
<1>5. cancelBar[r] = cancel
  BY <1>1, <1>2 DEF cancelBar, SpecInv, CallType
<1>6. Alone!Finish(r, why)
  BY <1>3, <1>4 DEF Alone!Finish, outBar, reasonBar, cancelBar
<1>7. CASE why = "StopToken" /\ Len(out) < budget /\ target[Len(out) + 1] \in stopTokens
  <2>1. Alone!Next1(r) = target[Len(outBar[r]) + 1]
    BY <1>2 DEF Alone!Next1, target, outBar
  <2>2. Len(outBar[r]) < Budget[r] /\ Alone!Next1(r) \in StopTokens[r]
    BY <1>2, <1>4, <1>7, <2>1 DEF budget, stopTokens
  <2>3. Alone!Finish(r, "StopToken")
    BY <1>6, <1>7
  <2>4. Alone!Stop(r)
    BY <2>2, <2>3 DEF Alone!Stop, outBar
  <2>5. QED BY <2>4 DEF Alone!Next
<1>8. CASE why = "MaxTokens" /\ Len(out) = budget
  <2>1. Len(outBar[r]) = Budget[r]
    BY <1>2, <1>4, <1>8 DEF budget
  <2>2. Alone!Finish(r, "MaxTokens")
    BY <1>6, <1>8
  <2>3. Alone!Exhaust(r)
    BY <2>1, <2>2 DEF Alone!Exhaust, outBar
  <2>4. QED BY <2>3 DEF Alone!Next
<1>9. CASE why = "Cancelled" /\ Len(out) < budget /\ cancel
  <2>1. Len(outBar[r]) < Budget[r] /\ cancelBar[r]
    BY <1>2, <1>4, <1>5, <1>9 DEF budget
  <2>2. Alone!Finish(r, "Cancelled")
    BY <1>6, <1>9
  <2>3. Alone!Abandon(r)
    BY <2>1, <2>2 DEF Alone!Abandon, outBar, cancelBar
  <2>4. QED BY <2>3 DEF Alone!Next
<1>10. QED BY <1>7, <1>8, <1>9

(* The next token of the stream is emitted, and may fill the budget. *)
LEMMA AloneEmit ==
  ASSUME SpecInv, greedy, pc \notin Finals, UNCHANGED call, UNCHANGED cancel,
         NEW tok, Emit(tok), Len(out) < budget, tok = target[Len(out) + 1],
         tok \notin stopTokens,
         \/ UNCHANGED done
         \/ Len(out) + 1 = budget /\ \E count \in Nat : End("MaxTokens", count)
  PROVE  Alone!Next
<1>1. request \in Requests /\ done = <<>>
  BY DEF SpecInv, CallType, DoneInv, Finals
<1>2. PICK r \in Requests : r = request
  BY <1>1
<1>3. /\ UNCHANGED <<stream, cancelBar>>
      /\ outBar' = [outBar EXCEPT ![r] = Append(@, tok)]
  BY <1>1, <1>2, EmitIsToken
<1>4. outBar[r] = out /\ reasonBar[r] = "None"
  BY <1>1, <1>2, BarBefore
<1>5. Alone!Next1(r) = target[Len(outBar[r]) + 1]
  BY <1>2 DEF Alone!Next1, target, outBar
<1>6. Alone!Next1(r) = tok
  BY <1>4, <1>5
<1>7. Len(outBar[r]) < Budget[r] /\ Alone!Next1(r) \notin StopTokens[r]
  BY <1>2, <1>4, <1>6 DEF budget, stopTokens
<1>8. outBar' = [outBar EXCEPT ![r] = Append(@, Alone!Next1(r))]
  BY <1>3, <1>6
<1>9. \/ UNCHANGED reasonBar
      \/ /\ Len(outBar[r]) + 1 = Budget[r]
         /\ reasonBar' = [reasonBar EXCEPT ![r] = "MaxTokens"]
  <2>1. CASE UNCHANGED done
    BY <2>1, CallUnchanged DEF reasonBar
  <2>2. CASE Len(out) + 1 = budget /\ \E count \in Nat : End("MaxTokens", count)
    <3>1. Len(outBar[r]) + 1 = Budget[r]
      BY <1>2, <1>4, <2>2 DEF budget
    <3>2. done' # <<>> /\ Head(done').reason = "MaxTokens"
      BY <1>1, <2>2 DEF End
    <3>3. reasonBar' = [q \in Requests |-> IF q = request THEN "MaxTokens" ELSE "None"]
      BY <3>2, CallUnchanged DEF reasonBar
    <3>4. [reasonBar EXCEPT ![r] = "MaxTokens"]
            = [q \in Requests |-> IF q = request THEN "MaxTokens" ELSE "None"]
      BY <1>1, <1>2 DEF reasonBar
    <3>5. QED BY <3>1, <3>3, <3>4
  <2>3. QED BY <2>1, <2>2
<1>10. Alone!Token(r)
  BY <1>3, <1>4, <1>7, <1>8, <1>9 DEF Alone!Token, outBar, reasonBar, cancelBar
<1>11. QED BY <1>10 DEF Alone!Next

(* The first token of a greedy call, streamed or a stop token. *)
LEMMA AloneFirst ==
  ASSUME SpecInv, First, greedy
  PROVE  Alone!Next
<1>1. /\ pc = "first" /\ UNCHANGED call /\ UNCHANGED <<cancel, drafts, committed, stats>>
      /\ \E tok \in Draws(cache, history) :
           IF tok \in stopTokens
           THEN End("StopToken", 0) /\ UNCHANGED <<out, history, cur, late>>
           ELSE Emit(tok) /\ pc' = "loop" /\ UNCHANGED done
  BY DEF First
<1>2. CallType /\ HistoryInv /\ CachesInv /\ CountInv
  BY DEF SpecInv
<1>3. prompt \in Seq(Tokens) /\ budget \in Nat
  BY <1>2, CallFacts DEF CallType
<1>4. out = <<>> /\ Len(out) = 0 /\ budget > 0
  BY <1>1, <1>2 DEF CountInv
<1>5. PICK tok \in Draws(cache, history) :
        IF tok \in stopTokens
        THEN End("StopToken", 0) /\ UNCHANGED <<out, history, cur, late>>
        ELSE Emit(tok) /\ pc' = "loop" /\ UNCHANGED done
  BY <1>1
<1>6. \A i \in 1 .. 0 : FALSE
  OBVIOUS
<1>7. tok = target[Len(out) + 1]
  <2> DEFINE ds == <<>>
  <2>1. ds \in Seq(Tokens) /\ Len(ds) = 0
    BY EmptySeq
  <2>2. history \in Seq(Tokens)
    BY <1>2, <1>3, OutIsGenerated DEF CallType
  <2>3. history \o ds = history /\ cache = history
    BY <1>1, <1>2, <2>2, ConcatEmptySeq DEF CachesInv
  <2>4. Len(out) + Len(ds) < budget /\ Len(out) + Len(ds) + 1 = Len(out) + 1
    BY <1>3, <1>4, <2>1
  <2>5. /\ \A i \in 1 .. Len(out) : out[i] = target[i]
        /\ \A i \in 1 .. Len(ds) : ds[i] = target[Len(out) + i]
    BY <1>4, <1>6, <2>1
  <2> HIDE DEF ds
  <2>6. \A t \in Draws(history \o ds, history \o ds) :
          t \in Tokens /\ (greedy => t = target[Len(out) + Len(ds) + 1])
    BY <1>2, <2>1, <2>4, <2>5, DrawsTokens
  <2>7. tok \in Draws(history \o ds, history \o ds)
    BY <1>5, <2>3
  <2>8. QED BY <2>4, <2>6, <2>7
<1>8. pc \notin Finals /\ Len(out) < budget
  BY <1>1, <1>3, <1>4 DEF Finals
<1>9. CASE tok \in stopTokens
  <2>1. End("StopToken", 0) /\ UNCHANGED <<out, cancel>>
    BY <1>1, <1>5, <1>9
  <2>2. QED BY <1>1, <1>7, <1>8, <1>9, <2>1, AloneEnd
<1>10. CASE tok \notin stopTokens
  <2>1. Emit(tok) /\ UNCHANGED done /\ UNCHANGED cancel
    BY <1>1, <1>5, <1>10
  <2>2. QED BY <1>1, <1>7, <1>8, <1>10, <2>1, AloneEmit
<1>11. QED BY <1>9, <1>10

(* What a greedy call commits next continues its stream, within the budget.  *)
LEMMA CommitFacts ==
  ASSUME SpecInv, greedy, pc = "commit", committed # <<>>
  PROVE  /\ out = generated /\ Len(out) \in Nat /\ budget \in Nat
         /\ Len(out) < budget
         /\ Head(committed) = target[Len(out) + 1]
<1>1. CallType /\ HistoryInv /\ CountInv /\ GreedyInv
  BY DEF SpecInv
<1>2. prompt \in Seq(Tokens) /\ budget \in Nat /\ out \in Seq(Tokens) /\ committed \in Seq(Tokens)
  BY <1>1, CallFacts DEF CallType
<1>3. out = generated /\ Len(out) \in Nat /\ Len(committed) \in Nat
  BY <1>1, <1>2, OutIsGenerated, LenProperties
<1>4. Len(committed) >= 1
  BY <1>2, <1>3, EmptySeq
<1>5. Len(out) + Len(committed) <= budget
  BY <1>1 DEF CountInv
<1>6. committed[1] = target[Len(out) + 1]
  <2>1. 1 \in 1 .. Len(committed)
    BY <1>3, <1>4
  <2>2. QED BY <1>1, <2>1 DEF GreedyInv
<1>7. Head(committed) = committed[1]
  OBVIOUS
<1>8. QED BY <1>2, <1>3, <1>4, <1>5, <1>6, <1>7

LEMMA AloneCommit ==
  ASSUME SpecInv, CommitStop \/ CommitToken, greedy
  PROVE  Alone!Next
<1>1. pc = "commit" /\ committed # <<>> /\ UNCHANGED call /\ UNCHANGED cancel /\ pc \notin Finals
  BY DEF CommitStop, CommitToken, Finals
<1>2. /\ out = generated /\ Len(out) \in Nat /\ budget \in Nat
      /\ Len(out) < budget
      /\ Head(committed) = target[Len(out) + 1]
  BY <1>1, CommitFacts
<1>3. CASE CommitStop
  <2>1. /\ End("StopToken", Len(generated)) /\ UNCHANGED <<out, cancel>>
        /\ Head(committed) \in stopTokens
    BY <1>3 DEF CommitStop
  <2>2. QED BY <1>1, <1>2, <2>1, AloneEnd
<1>4. CASE CommitToken
  <2>1. /\ Emit(Head(committed)) /\ Head(committed) \notin stopTokens
        /\ IF Len(generated) + 1 >= budget
           THEN End("MaxTokens", Len(generated) + 1)
           ELSE UNCHANGED <<pc, done>>
    BY <1>4 DEF CommitToken
  <2>2. \/ UNCHANGED done
        \/ Len(out) + 1 = budget /\ \E count \in Nat : End("MaxTokens", count)
    <3>1. CASE Len(generated) + 1 >= budget
      <4>1. Len(out) + 1 = budget /\ Len(generated) + 1 \in Nat
        BY <1>2, <3>1
      <4>2. QED BY <2>1, <3>1, <4>1
    <3>2. CASE ~(Len(generated) + 1 >= budget)
      BY <2>1, <3>2
    <3>3. QED BY <3>1, <3>2
  <2>3. QED BY <1>1, <1>2, <2>1, <2>2, AloneEmit
<1>5. QED BY <1>3, <1>4

(* The two ends that no token precedes: no budget, or the loop's condition.  *)
LEMMA AloneLeave ==
  ASSUME SpecInv, ZeroBudget \/ LeaveLoop, greedy
  PROVE  Alone!Next
<1>1. UNCHANGED call /\ UNCHANGED <<out, cancel>> /\ pc \notin Finals
  BY DEF ZeroBudget, LeaveLoop, Finals
<1>2. CallType /\ HistoryInv /\ CountInv
  BY DEF SpecInv
<1>3. prompt \in Seq(Tokens) /\ budget \in Nat
  BY <1>2, CallFacts DEF CallType
<1>4. out = generated /\ Len(out) \in Nat /\ Len(out) <= budget
  BY <1>2, <1>3, OutIsGenerated, LenProperties DEF CallType, CountInv
<1>5. CASE ZeroBudget
  <2>1. End("MaxTokens", 0) /\ budget = 0
    BY <1>5 DEF ZeroBudget
  <2>2. Len(out) = budget
    BY <1>4, <2>1
  <2>3. QED BY <1>1, <2>1, <2>2, AloneEnd
<1>6. CASE LeaveLoop
  <2>1. \/ Len(generated) >= budget /\ End("MaxTokens", Len(generated))
        \/ Len(generated) < budget /\ cancel /\ End("Cancelled", Len(generated))
    BY <1>6 DEF LeaveLoop, CancelSeen
  <2>2. CASE Len(generated) >= budget /\ End("MaxTokens", Len(generated))
    <3>1. Len(out) = budget
      BY <1>3, <1>4, <2>2
    <3>2. QED BY <1>1, <2>2, <3>1, AloneEnd
  <2>3. CASE Len(generated) < budget /\ cancel /\ End("Cancelled", Len(generated))
    <3>1. Len(out) < budget /\ cancel
      BY <1>4, <2>3
    <3>2. QED BY <1>1, <2>3, <3>1, AloneEnd
  <2>4. QED BY <2>1, <2>2, <2>3
<1>7. QED BY <1>5, <1>6

LEMMA AloneNext ==
  ASSUME SpecInv, [Next]_vars
  PROVE  Alone!Next \/ UNCHANGED <<stream, outBar, reasonBar, cancelBar>>
<1>1. request \in Requests
  BY DEF SpecInv, CallType
<1>2. CASE UNCHANGED vars
  <2>1. UNCHANGED call /\ UNCHANGED <<out, done, cancel>>
    BY <1>2 DEF vars, call
  <2>2. QED BY <2>1, StepStutters
<1>3. CASE Cancel
  BY <1>1, <1>3, AloneCancel
<1>4. CASE Refuse \/ Prefill \/ Propose \/ Verify \/ CommitDone \/ Fail
  <2>1. UNCHANGED call /\ UNCHANGED <<out, done, cancel>>
    BY <1>4 DEF Refuse, Prefill, Propose, Verify, CommitDone, Fail, events
  <2>2. QED BY <2>1, StepStutters
<1>5. CASE ZeroBudget \/ LeaveLoop \/ First \/ CommitStop \/ CommitToken
  <2>1. CASE ~greedy
    <3>1. UNCHANGED call /\ UNCHANGED cancel
      BY <1>5 DEF ZeroBudget, LeaveLoop, First, CommitStop, CommitToken
    <3>2. QED BY <2>1, <3>1, SampledStutters
  <2>2. CASE greedy
    BY <1>5, <2>2, AloneLeave, AloneFirst, AloneCommit
  <2>3. QED BY <2>1, <2>2
<1>6. QED BY <1>2, <1>3, <1>4, <1>5 DEF Next, Step

(* Speculation is invisible: a greedy call, with any drafter and any drafts, *)
(* streams a prefix of what the model says one token at a time, up to the    *)
(* first stop token, the budget or a cancel.                                 *)
THEOREM SpecImplementsGeneration == Spec => GenerationSpec
<1>1. Init => Alone!Init
  BY AloneInit
<1>2. SpecInv /\ [Next]_vars => [Alone!Next]_(Alone!vars)
  <2>1. SUFFICES ASSUME SpecInv, [Next]_vars PROVE [Alone!Next]_(Alone!vars)
    OBVIOUS
  <2>2. Alone!Next \/ UNCHANGED <<stream, outBar, reasonBar, cancelBar>>
    BY <2>1, AloneNext
  <2>3. QED BY <2>2 DEF Alone!vars, outBar, reasonBar, cancelBar
<1>3. QED BY <1>1, <1>2, SpecInvariant, PTL DEF Spec, GenerationSpec, Alone!Spec

=============================================================================
