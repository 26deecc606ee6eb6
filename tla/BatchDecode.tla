---------------------------- MODULE BatchDecode -----------------------------
(***************************************************************************)
(* generate_batch of src/decode/batch.rs: all requests prefill as one       *)
(* left-padded batch and decode in lockstep.  Row i of the batched KV cache *)
(* belongs to the i-th active lane; when lanes retire the cache is compacted*)
(* with retain_sequences.  A row is read through the mask of its own lane   *)
(* (everything right of its padding) and each cached token carries the RoPE *)
(* position it was computed at: the logits of a row are right only if the   *)
(* tokens, their positions and the mask all are.                            *)
(***************************************************************************)
EXTENDS Recording

CONSTANT Pad  \* what the left-pad region of a row holds

ASSUME PadAssumption == Pad \notin [tok : Tokens, pos : Nat]

VARIABLES
  rows,    \* the batched KV cache, one sequence of positions per row
  logits,  \* logits[i]: the token the last forward yields for row i
  active,  \* the lanes that survive so far, in row order
  todo,    \* the lanes of this step that are not recorded yet
  keep     \* the rows to keep, one per lane of active

vars == <<stream, cancel, pc, nextToken, generated, finish, out, done, late,
          rows, logits, active, todo, keep>>

Init ==
  /\ RecordingInit
  /\ rows = <<>>
  /\ logits = <<>>
  /\ active = <<>>
  /\ todo = <<>>
  /\ keep = <<>>

Cancel == SetCancel /\ UNCHANGED <<rows, logits, active, todo, keep>>

(* The host loop moves on without touching a request. *)
MoveTo(place) ==
  /\ pc' = place
  /\ UNCHANGED <<stream, cancel, nextToken, generated, finish, out, done, late>>

Start ==
  /\ pc = "start"
  /\ MoveTo(IF cancel THEN "refused" ELSE "prefill")
  /\ UNCHANGED <<rows, logits, active, todo, keep>>

-----------------------------------------------------------------------------
(* Rows *)

MaxPrompt == Max({Len(Prompt[r]) : r \in Requests})
PadLen(r) == MaxPrompt - Len(Prompt[r])

(* build_prefill: the prompt right-aligned, positions counted from its start *)
PaddedRow(r) ==
  [j \in 1 .. MaxPrompt |->
     IF j <= PadLen(r) THEN Pad
     ELSE [tok |-> Prompt[r][j - PadLen(r)], pos |-> j - PadLen(r) - 1]]

(* What a row says under the mask of lane r. *)
RowLogits(r, row) ==
  LET seen == SubSeq(row, PadLen(r) + 1, Len(row))
  IN IF \A j \in DOMAIN seen : seen[j] # Pad /\ seen[j].pos = j - 1
     THEN Sampled(r, [j \in DOMAIN seen |-> seen[j].tok])
     ELSE Junk

(* Mutant: the position is the width of the batch. *)
FeedPosition_Width(r) == Len(rows[1])

(* sched.offset(seq) - 1: the prompt and the tokens before the one fed *)
FeedPosition(r) == Len(Prompt[r]) + Len(generated[r]) - 1

(* Compact away the rows of the lanes that retired. *)
Compacted ==
  IF keep # <<>> /\ Len(keep) < Len(rows)
  THEN [i \in DOMAIN keep |-> rows[keep[i]]]
  ELSE rows

-----------------------------------------------------------------------------
(* Prefill *)

Prefill ==
  /\ pc = "prefill"
  /\ rows' = [r \in Requests |-> PaddedRow(r)]
  /\ logits' = [r \in Requests |-> RowLogits(r, PaddedRow(r))]
  /\ todo' = [r \in Requests |-> r]
  /\ MoveTo("first")
  /\ UNCHANGED <<active, keep>>

(* The row of the next lane to record *)
Row == Len(rows) - Len(todo) + 1

(* Mutant: the kept row is numbered by the survivors before it. *)
ApplyToken_KeepsRank(r, tok) ==
  \/ Retire(r, tok) /\ UNCHANGED <<active, keep>>
  \/ /\ Continues(r, tok)
     /\ active' = Append(active, r)
     /\ keep' = Append(keep, Len(active) + 1)

(* apply_token, and what both loops do with its answer *)
ApplyToken(r, tok) ==
  \/ Retire(r, tok) /\ UNCHANGED <<active, keep>>
  \/ /\ Continues(r, tok)
     /\ active' = Append(active, r)
     /\ keep' = Append(keep, Row)

(* Mutant: a request of budget zero is sampled like any other. *)
RecordFirst_IgnoresBudget ==
  /\ pc = "first"
  /\ todo # <<>>
  /\ ApplyToken(Head(todo), logits[Row])
  /\ todo' = Tail(todo)
  /\ UNCHANGED <<stream, cancel, pc, rows, logits>>

(* The first token of the next lane; a request of budget zero is done. *)
RecordFirst ==
  /\ pc = "first"
  /\ todo # <<>>
  /\ \/ /\ finish[Head(todo)] # "None"
        /\ EmitDone(Head(todo), "MaxTokens", 0)
        /\ UNCHANGED <<nextToken, generated, finish, out, late, active, keep>>
     \/ /\ finish[Head(todo)] = "None"
        /\ ApplyToken(Head(todo), logits[Row])
  /\ todo' = Tail(todo)
  /\ UNCHANGED <<stream, cancel, pc, rows, logits>>

PrefillRecorded ==
  /\ pc = "first"
  /\ todo = <<>>
  /\ rows' = Compacted
  /\ keep' = <<>>
  /\ MoveTo("decode")
  /\ UNCHANGED <<logits, active, todo>>

-----------------------------------------------------------------------------
(* The decode loop *)

Step ==
  /\ pc = "decode"
  /\ active # <<>>
  /\ ~cancel
  /\ rows' = [i \in DOMAIN rows |->
       Append(rows[i], [tok |-> nextToken[active[i]], pos |-> FeedPosition(active[i])])]
  /\ logits' = [i \in DOMAIN rows |-> RowLogits(active[i], rows'[i])]
  /\ todo' = active
  /\ active' = <<>>
  /\ MoveTo("record")
  /\ UNCHANGED keep

RecordRow ==
  /\ pc = "record"
  /\ todo # <<>>
  /\ ApplyToken(Head(todo), logits[Row])
  /\ todo' = Tail(todo)
  /\ UNCHANGED <<stream, cancel, pc, rows, logits>>

StepRecorded ==
  /\ pc = "record"
  /\ todo = <<>>
  /\ rows' = Compacted
  /\ keep' = <<>>
  /\ MoveTo(IF active = <<>> THEN "returned" ELSE "decode")
  /\ UNCHANGED <<logits, active, todo>>

(* Mutant: a cancel leaves the loop without a word to the rows that run. *)
LeaveLoop_Silent ==
  /\ pc = "decode"
  /\ active = <<>> \/ cancel
  /\ MoveTo("returned")
  /\ UNCHANGED <<rows, logits, active, todo, keep>>

(* Mutant: a set flag skips the step instead of ending the loop. *)
LeaveLoop_SpinsOnCancel ==
  /\ pc = "decode"
  /\ active = <<>>
  /\ MoveTo("returned")
  /\ UNCHANGED <<rows, logits, active, todo, keep>>

LeaveLoop ==
  /\ pc = "decode"
  /\ active = <<>> \/ cancel
  /\ MoveTo(IF active = <<>> THEN "returned" ELSE "cancelled")
  /\ UNCHANGED <<rows, logits, active, todo, keep>>

CancelRow ==
  /\ pc = "cancelled"
  /\ active # <<>>
  /\ EmitDone(Head(active), "Cancelled", Len(generated[Head(active)]))
  /\ active' = Tail(active)
  /\ UNCHANGED <<stream, cancel, pc, nextToken, generated, finish, out, late, rows, logits, todo, keep>>

AllSignalled ==
  /\ pc = "cancelled"
  /\ active = <<>>
  /\ MoveTo("returned")
  /\ UNCHANGED <<rows, logits, active, todo, keep>>

(* A forward, a sample or a compaction returns an error: `?`. *)
Fail ==
  /\ \/ pc = "prefill"
     \/ pc = "first" /\ (todo # <<>> => finish[Head(todo)] = "None")
     \/ pc = "decode" /\ active # <<>> /\ ~cancel
     \/ pc = "record"
  /\ MoveTo("failed")
  /\ UNCHANGED <<rows, logits, active, todo, keep>>

-----------------------------------------------------------------------------

Engine ==
  \/ Start \/ Prefill \/ RecordFirst \/ PrefillRecorded \/ Step \/ RecordRow
  \/ StepRecorded \/ LeaveLoop \/ CancelRow \/ AllSignalled \/ Fail

Next == Cancel \/ Engine

Spec == Init /\ [][Next]_vars

(* The host loop runs on: a forward ends, and nothing makes it wait. *)
FairSpec == Spec /\ WF_vars(Engine)

-----------------------------------------------------------------------------
(* Properties; those of Recording are checked too *)

Cell == [tok : Tokens, pos : Nat]

TypeOK ==
  /\ RecordingTypeOK
  /\ pc \in Finals \cup {"start", "prefill", "first", "decode", "record", "cancelled"}
  /\ rows \in Seq(Seq(Cell \cup {Pad}))
  /\ logits \in Seq(Tokens \cup {Junk})
  /\ active \in Seq(Requests)
  /\ todo \in Seq(Requests)
  /\ keep \in Seq(1 .. NumRequests)

(* Between steps row i, right of the padding of lane i, is the prompt and    *)
(* every token of that lane but the one it feeds next, at consecutive        *)
(* positions: compaction moves rows and lanes alike.                         *)
RowsFollowLanes ==
  /\ TypeOK
  /\ pc = "decode" /\ active # <<>> =>
      /\ Len(rows) = Len(active)
      /\ \A i \in DOMAIN active :
           LET r == active[i]
               said == Prompt[r] \o generated[r]
           IN /\ nextToken[r] = Last(said)
              /\ rows[i] = [j \in 1 .. PadLen(r) |-> Pad]
                             \o [j \in 1 .. Len(said) - 1 |-> [tok |-> said[j], pos |-> j - 1]]

=============================================================================
