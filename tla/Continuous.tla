----------------------------- MODULE Continuous -----------------------------
(***************************************************************************)
(* generate_continuous of src/decode/continuous.rs: iteration-level         *)
(* continuous batching.  Up to MaxBatch requests decode at once, each over  *)
(* its own paged cache; when one retires its slot is refilled from the      *)
(* queue.  The CancelFlag may be set by any other thread, or by the caller's*)
(* on_event, between any two steps.                                         *)
(***************************************************************************)
EXTENDS Recording

CONSTANT MaxBatch  \* config.max_batch

ASSUME MaxBatchAssumption == MaxBatch \in Nat \ {0}

VARIABLES
  lanes,    \* the live lanes, by request, in lane order
  stepped,  \* the lanes of this step whose token is not recorded yet
  nextReq,  \* the first request still queued (next_req)
  cache,    \* cache[r]: the tokens in the paged cache of the lane of r
  logits    \* logits[r]: the token the last forward of lane r yields

vars == <<stream, cancel, pc, nextToken, generated, finish, out, done, late,
          lanes, stepped, nextReq, cache, logits>>

Queue == {r \in Requests : r >= nextReq}

Init ==
  /\ RecordingInit
  /\ lanes = <<>>
  /\ stepped = <<>>
  /\ nextReq = 1
  /\ cache = [r \in Requests |-> <<>>]
  /\ logits = [r \in Requests |-> Junk]

Cancel == SetCancel /\ UNCHANGED <<lanes, stepped, nextReq, cache, logits>>

(* The host loop moves on without touching a request. *)
MoveTo(place) ==
  /\ pc' = place
  /\ UNCHANGED <<stream, cancel, nextToken, generated, finish, out, done, late, nextReq, cache, logits>>

(* The typed pre-inference cancel, or the first slots are filled. *)
Start ==
  /\ pc = "start"
  /\ MoveTo(IF cancel THEN "refused" ELSE "admit")
  /\ UNCHANGED <<lanes, stepped>>

(* The lane of r samples tok; others are the lanes that already survived.    *)
RecordToken(r, tok, others) ==
  \/ Retire(r, tok) /\ lanes' = others
  \/ Continues(r, tok) /\ lanes' = Append(others, r)

-----------------------------------------------------------------------------
(* Filling slots *)

FreeSlot == Len(lanes) < MaxBatch /\ Queue # {}

(* admit_lane of a request the scheduler retired at admission *)
AdmitRetired(r) ==
  /\ finish[r] # "None"
  /\ EmitDone(r, "MaxTokens", 0)
  /\ UNCHANGED <<lanes, cache, logits, nextToken, generated, finish, out, late>>

(* admit_lane: prefill the prompt into a fresh cache and record the first    *)
(* token.  No cancel check: a set flag is seen at the next decode step.      *)
Prefill(r) ==
  /\ finish[r] = "None"
  /\ cache' = [cache EXCEPT ![r] = Prompt[r]]
  /\ logits' = [logits EXCEPT ![r] = Sampled(r, Prompt[r])]
  /\ RecordToken(r, Sampled(r, Prompt[r]), lanes)

(* One turn of either fill loop *)
Admit ==
  /\ pc = "admit"
  /\ FreeSlot
  /\ AdmitRetired(nextReq) \/ Prefill(nextReq)
  /\ nextReq' = nextReq + 1
  /\ UNCHANGED <<stream, cancel, pc, stepped>>

(* Mutant: a step waits for a full batch. *)
SlotsFull_WaitsForBatch ==
  /\ pc = "admit"
  /\ Len(lanes) = MaxBatch
  /\ MoveTo("decode")
  /\ UNCHANGED <<lanes, stepped>>

SlotsFull ==
  /\ pc = "admit"
  /\ ~FreeSlot
  /\ MoveTo("decode")
  /\ UNCHANGED <<lanes, stepped>>

-----------------------------------------------------------------------------
(* The decode loop *)

Forward ==
  /\ cache' = [r \in Requests |->
       IF r \in ToSet(lanes) THEN Append(cache[r], nextToken[r]) ELSE cache[r]]
  /\ logits' = [r \in Requests |->
       IF r \in ToSet(lanes) THEN Sampled(r, cache'[r]) ELSE logits[r]]
  /\ stepped' = lanes
  /\ pc' = "record"
  /\ UNCHANGED <<stream, cancel, nextReq, nextToken>>
  /\ UNCHANGED schedVars /\ UNCHANGED eventVars

(* Mutant: the cancel flag is not looked at between steps. *)
StepLogits_IgnoresCancel ==
  /\ pc = "decode"
  /\ lanes # <<>>
  /\ Forward
  /\ lanes' = <<>>

(* Mutant: the lanes are not taken out of the list they survive into. *)
StepLogits_KeepsLanes ==
  /\ pc = "decode"
  /\ lanes # <<>>
  /\ ~cancel
  /\ Forward
  /\ UNCHANGED lanes

(* step_logits, either mode: every live lane feeds its token to its own      *)
(* cache and gets its own row of logits.                                     *)
StepLogits ==
  /\ pc = "decode"
  /\ lanes # <<>>
  /\ ~cancel
  /\ Forward
  /\ lanes' = <<>>

(* Sample and record the next lane of the step. *)
RecordLane ==
  /\ pc = "record"
  /\ stepped # <<>>
  /\ RecordToken(Head(stepped), logits[Head(stepped)], lanes)
  /\ stepped' = Tail(stepped)
  /\ UNCHANGED <<stream, cancel, pc, nextReq, cache, logits>>

(* Mutant: the freed slots are not refilled. *)
StepRecorded_NoRefill ==
  /\ pc = "record"
  /\ stepped = <<>>
  /\ MoveTo("decode")
  /\ UNCHANGED <<lanes, stepped>>

StepRecorded ==
  /\ pc = "record"
  /\ stepped = <<>>
  /\ MoveTo("admit")
  /\ UNCHANGED <<lanes, stepped>>

(* The loop ends: no lane is left, or the flag is set.  The flag is read     *)
(* again after the loop.                                                     *)
LeaveLoop ==
  /\ pc = "decode"
  /\ lanes = <<>> \/ cancel
  /\ MoveTo(IF cancel THEN "cancelled" ELSE "returned")
  /\ UNCHANGED <<lanes, stepped>>

(* A forward or a sample returns an error, which leaves through `?`.         *)
Fail ==
  /\ \/ pc = "admit" /\ FreeSlot /\ finish[nextReq] = "None"
     \/ pc = "decode" /\ lanes # <<>> /\ ~cancel
     \/ pc = "record" /\ stepped # <<>>
  /\ MoveTo("failed")
  /\ lanes' = <<>>
  /\ stepped' = <<>>

-----------------------------------------------------------------------------
(* After a cancel: a Done for every lane, then for every queued request      *)

CancelLane ==
  /\ pc = "cancelled"
  /\ lanes # <<>>
  /\ EmitDone(Head(lanes), "Cancelled", Len(generated[Head(lanes)]))
  /\ lanes' = Tail(lanes)
  /\ UNCHANGED <<stream, cancel, pc, stepped, nextReq, cache, logits, nextToken, out, late>>
  /\ UNCHANGED schedVars

(* Mutant: a queued request of budget zero is reported cancelled. *)
QueuedReason_Always(r) == "Cancelled"

QueuedReason(r) == IF finish[r] = "Length" THEN "MaxTokens" ELSE "Cancelled"

CancelQueued ==
  /\ pc = "cancelled"
  /\ lanes = <<>>
  /\ Queue # {}
  /\ EmitDone(nextReq, QueuedReason(nextReq), 0)
  /\ nextReq' = nextReq + 1
  /\ UNCHANGED <<stream, cancel, pc, lanes, stepped, cache, logits, nextToken, out, late>>
  /\ UNCHANGED schedVars

AllSignalled ==
  /\ pc = "cancelled"
  /\ lanes = <<>>
  /\ Queue = {}
  /\ MoveTo("returned")
  /\ UNCHANGED <<lanes, stepped>>

-----------------------------------------------------------------------------

Engine ==
  \/ Start \/ Admit \/ SlotsFull \/ StepLogits \/ RecordLane \/ StepRecorded
  \/ LeaveLoop \/ Fail \/ CancelLane \/ CancelQueued \/ AllSignalled

Next == Cancel \/ Engine

Spec == Init /\ [][Next]_vars

(* The host loop runs on: a forward ends, and nothing makes it wait.         *)
FairSpec == Spec /\ WF_vars(Engine)

-----------------------------------------------------------------------------
(* Properties *)

TypeOK ==
  /\ RecordingTypeOK
  /\ pc \in Finals \cup {"start", "admit", "decode", "record", "cancelled"}
  /\ lanes \in Seq(Requests)
  /\ stepped \in Seq(Requests)
  /\ nextReq \in 1 .. NumRequests + 1
  /\ cache \in [Requests -> Seq(Tokens)]
  /\ logits \in [Requests -> Tokens \cup {Junk}]

(* A request is in the queue, in one lane (recorded or not), or has its one  *)
(* Done event, and never in two of these: no request is signalled twice, and *)
(* none is lost.                                                             *)
OnePlace ==
  /\ TypeOK
  /\ pc \notin {"failed", "refused"} =>
      \A r \in Requests :
        Cardinality({i \in DOMAIN lanes : lanes[i] = r})
          + Cardinality({i \in DOMAIN stepped : stepped[i] = r})
          + Len(done[r]) + (IF r \in Queue THEN 1 ELSE 0) = 1

(* A lane's cache holds its prompt and all its tokens but the last, which it *)
(* feeds next: neither a retirement nor an admission shifts a lane onto the  *)
(* state of another.                                                         *)
LanesInStep ==
  pc \in {"admit", "decode"} =>
    \A r \in ToSet(lanes) : Append(cache[r], nextToken[r]) = Prompt[r] \o generated[r]

(* The batch never drains and never overfills: a decode step starts with an  *)
(* unused slot only when the queue is empty.                                 *)
SlotsUsed ==
  /\ Len(lanes) + Len(stepped) <= MaxBatch
  /\ pc = "decode" /\ Queue # {} => Len(lanes) = MaxBatch

(* The flag was set mid-stream: before it was, a decode step had streamed a  *)
(* token of some request (its first comes from the prefill).                 *)
MidStream == cancel /\ \E q \in Requests : Len(out[q]) - late[q] > 1


=============================================================================
