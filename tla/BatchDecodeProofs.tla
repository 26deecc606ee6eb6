------------------------- MODULE BatchDecodeProofs --------------------------
(***************************************************************************)
(* Proofs about BatchDecode, for any number of requests, any vocabulary,    *)
(* model, prompts and budgets.                                              *)
(*                                                                          *)
(* BatchInv says of every request what the lists it is in mean for its      *)
(* tokens and its Done event (LiveInv, EndedInv, StreamInv), and of every   *)
(* row whose it is: RowsInv follows the rows through the recording of a     *)
(* step, where some lanes are kept, some retired and some still to come.    *)
(***************************************************************************)
EXTENDS BatchDecode, SequenceTheorems, FiniteSetTheorems, WellFoundedInduction, TLAPS

-----------------------------------------------------------------------------
(* Recording a token: the lemmas of ContinuousProofs, for this engine *)

Reasons == {"StopToken", "MaxTokens", "Cancelled"}
DoneEvents == [reason : Reasons, generated : Nat]

(* The Done event that agrees with the output of r. *)
Agreed(r) == [reason |-> OutputReason(r), generated |-> Len(generated[r])]

RecordType ==
  /\ stream \in Models
  /\ RecordingTypeOK

(* What request r has streamed is its output, and follows the model.         *)
StreamInv(r) ==
  /\ out[r] = generated[r]
  /\ Len(generated[r]) <= Budget[r]
  /\ \A i \in 1 .. Len(generated[r]) : generated[r][i] = stream[r][i]

(* A request that may still get a token: its lane is live. *)
Open(r) == finish[r] = "None" /\ done[r] = <<>> /\ Len(generated[r]) < Budget[r]

(* The token it gets when it runs alone. *)
NextOf(r) == stream[r][Len(generated[r]) + 1]

-----------------------------------------------------------------------------
(* Lists of lanes: no request is in one twice *)

Distinct(list) == \A i, j \in DOMAIN list : list[i] = list[j] => i = j

LEMMA EmptyPlaces == ToSet(<<>>) = {} /\ Distinct(<<>>)
BY DEF ToSet, Distinct

LEMMA AppendPlaces ==
  ASSUME NEW list \in Seq(Requests), NEW r \in Requests, Distinct(list), r \notin ToSet(list)
  PROVE  /\ Append(list, r) \in Seq(Requests)
         /\ Len(Append(list, r)) = Len(list) + 1
         /\ Distinct(Append(list, r))
         /\ ToSet(Append(list, r)) = ToSet(list) \cup {r}
<1> DEFINE longer == Append(list, r)
<1>1. /\ longer \in Seq(Requests) /\ Len(longer) = Len(list) + 1
      /\ \A i \in 1 .. Len(list) : longer[i] = list[i]
      /\ longer[Len(list) + 1] = r
  BY AppendProperties
<1>2. /\ Len(list) \in Nat /\ DOMAIN list = 1 .. Len(list)
      /\ DOMAIN longer = 1 .. Len(list) + 1
  BY <1>1, LenProperties
<1> HIDE DEF longer
<1>3. \A i \in 1 .. Len(list) : list[i] # r
  BY <1>2 DEF ToSet
<1>4. \A i \in 1 .. Len(list) + 1 : i \in 1 .. Len(list) \/ i = Len(list) + 1
  BY <1>2
<1>5. Distinct(longer)
  BY <1>1, <1>2, <1>3, <1>4 DEF Distinct
<1>6. ToSet(longer) = ToSet(list) \cup {r}
  <2>1. Len(list) + 1 \in 1 .. Len(list) + 1 /\ 1 .. Len(list) \subseteq 1 .. Len(list) + 1
    BY <1>2
  <2>2. QED BY <1>1, <1>2, <1>4, <2>1 DEF ToSet
<1>7. QED BY <1>1, <1>5, <1>6 DEF longer

LEMMA TailPlaces ==
  ASSUME NEW list \in Seq(Requests), Distinct(list), list # <<>>
  PROVE  /\ Head(list) \in Requests /\ Head(list) \in ToSet(list)
         /\ Tail(list) \in Seq(Requests)
         /\ Len(Tail(list)) = Len(list) - 1
         /\ Distinct(Tail(list))
         /\ ToSet(Tail(list)) = ToSet(list) \ {Head(list)}
<1>1. /\ Head(list) \in Requests /\ Tail(list) \in Seq(Requests)
      /\ Len(Tail(list)) = Len(list) - 1
      /\ \A i \in 1 .. Len(Tail(list)) : Tail(list)[i] = list[i + 1]
  BY HeadTailProperties
<1>2. /\ Len(list) \in Nat \ {0} /\ DOMAIN list = 1 .. Len(list)
      /\ DOMAIN Tail(list) = 1 .. Len(list) - 1
  BY <1>1, LenProperties, EmptySeq
<1>3. Head(list) = list[1]
  OBVIOUS
<1> DEFINE rest == Tail(list)
           first == Head(list)
<1> HIDE DEF rest, first
<1>4. \A i \in 1 .. Len(list) - 1 : i + 1 \in 1 .. Len(list) /\ rest[i] = list[i + 1]
  BY <1>1, <1>2 DEF rest
<1>5. Distinct(rest)
  <2>1. SUFFICES ASSUME NEW i \in 1 .. Len(list) - 1, NEW j \in 1 .. Len(list) - 1, rest[i] = rest[j]
                 PROVE  i = j
    BY <1>2 DEF Distinct, rest
  <2>2. i + 1 = j + 1
    BY <1>2, <1>4, <2>1 DEF Distinct
  <2>3. QED BY <2>2
<1>6. \A i \in 1 .. Len(list) : i = 1 \/ (i - 1 \in 1 .. Len(list) - 1 /\ (i - 1) + 1 = i)
  BY <1>2
<1>7. 1 \in 1 .. Len(list) /\ \A i \in 1 .. Len(list) - 1 : i + 1 # 1
  BY <1>2
<1>8. first = list[1]
  BY <1>3 DEF first
<1>9. ToSet(rest) = ToSet(list) \ {first}
  <2>1. \A i \in 1 .. Len(list) - 1 : rest[i] \in ToSet(list) /\ rest[i] # first
    BY <1>2, <1>4, <1>7, <1>8 DEF ToSet, Distinct
  <2>2. \A i \in 1 .. Len(list) : list[i] = first \/ list[i] \in ToSet(rest)
    <3>1. SUFFICES ASSUME NEW i \in 1 .. Len(list), i # 1 PROVE list[i] \in ToSet(rest)
      BY <1>8
    <3>2. i - 1 \in 1 .. Len(list) - 1 /\ list[i] = rest[i - 1]
      BY <1>4, <1>6, <3>1
    <3>3. QED BY <1>2, <3>2 DEF ToSet, rest
  <2>3. ToSet(rest) \subseteq ToSet(list) \ {first}
    BY <1>2, <2>1 DEF ToSet, rest
  <2>4. ToSet(list) \ {first} \subseteq ToSet(rest)
    BY <1>2, <2>2 DEF ToSet
  <2>5. QED BY <2>3, <2>4
<1>10. first \in ToSet(list)
  BY <1>2, <1>7, <1>8 DEF ToSet
<1>11. QED BY <1>1, <1>5, <1>9, <1>10 DEF rest, first

LEMMA AppendOfConcat ==
  ASSUME NEW s \in Seq(Tokens), NEW t \in Seq(Tokens), NEW e \in Tokens
  PROVE  Append(s \o t, e) = s \o Append(t, e)
<1>1. /\ Append(t, e) = t \o <<e>> /\ Append(s \o t, e) = (s \o t) \o <<e>>
      /\ <<e>> \in Seq(Tokens)
  BY AppendIsConcat, ConcatProperties
<1>2. QED BY <1>1, ConcatAssociative

-----------------------------------------------------------------------------
(* What the constants give a request *)

LEMMA RequestFacts ==
  ASSUME RecordType, NEW r \in Requests
  PROVE  /\ Prompt[r] \in Seq(Tokens) /\ Len(Prompt[r]) \in Nat
         /\ Budget[r] \in Nat
         /\ stream[r] \in Seq(Tokens)
         /\ Len(stream[r]) = Budget[r]
         /\ generated[r] \in Seq(Tokens) /\ Len(generated[r]) \in Nat
<1>1. Prompt[r] \in Seq(Tokens) /\ generated[r] \in Seq(Tokens)
  BY PromptAssumption DEF RecordType, RecordingTypeOK
<1>2. QED
  BY <1>1, BudgetAssumption, ModelsAssumption, LenProperties DEF RecordType

LEMMA NextOfType ==
  ASSUME RecordType, NEW r \in Requests, Len(generated[r]) < Budget[r]
  PROVE  NextOf(r) \in Tokens
<1>1. /\ stream[r] \in Seq(Tokens) /\ Len(stream[r]) = Budget[r]
      /\ Len(generated[r]) \in Nat /\ Budget[r] \in Nat
  BY RequestFacts
<1>2. Len(generated[r]) + 1 \in 1 .. Len(stream[r])
  BY <1>1
<1>3. QED BY <1>1, <1>2, ElementOfSeq DEF NextOf

(* A forward over the prompt and what was generated yields the next token.   *)
LEMMA SampledNext ==
  ASSUME RecordType, NEW r \in Requests, StreamInv(r), Len(generated[r]) < Budget[r]
  PROVE  Sampled(r, Prompt[r] \o generated[r]) = NextOf(r)
<1>1. /\ Prompt[r] \in Seq(Tokens) /\ Len(Prompt[r]) \in Nat
      /\ Budget[r] \in Nat /\ stream[r] \in Seq(Tokens) /\ Len(stream[r]) = Budget[r]
      /\ generated[r] \in Seq(Tokens) /\ Len(generated[r]) \in Nat
  BY RequestFacts
<1> DEFINE context == Prompt[r] \o generated[r]
           k == Len(context) - Len(Prompt[r])
           said == SubSeq(stream[r], 1, Len(generated[r]))
<1>2. Len(context) = Len(Prompt[r]) + Len(generated[r])
  BY <1>1, ConcatProperties
<1>3. k = Len(generated[r]) /\ k \in 0 .. Budget[r] - 1
  BY <1>1, <1>2
<1>4. said = generated[r]
  <2>1. \A i \in 1 .. Len(generated[r]) : stream[r][i] \in Tokens
    <3>1. SUFFICES ASSUME NEW i \in 1 .. Len(generated[r]) PROVE stream[r][i] \in Tokens
      OBVIOUS
    <3>2. i \in 1 .. Len(stream[r])
      BY <1>1, <3>1
    <3>3. QED BY <1>1, <3>2, ElementOfSeq
  <2>2. 1 \in Int /\ Len(generated[r]) \in Int
    BY <1>1
  <2>3. /\ said \in Seq(Tokens)
        /\ Len(said) = IF 1 <= Len(generated[r]) THEN Len(generated[r]) - 1 + 1 ELSE 0
        /\ \A i \in 1 .. Len(generated[r]) - 1 + 1 : said[i] = stream[r][1 + i - 1]
    BY <2>1, <2>2, SubSeqProperties
  <2>4. Len(said) = Len(generated[r])
    BY <1>1, <2>3
  <2>5. \A i \in 1 .. Len(said) : said[i] = generated[r][i]
    BY <1>1, <2>3, <2>4 DEF StreamInv
  <2>6. QED BY <1>1, <2>3, <2>4, <2>5, SeqEqual
<1> HIDE DEF context, said
<1>5. context = Prompt[r] \o SubSeq(stream[r], 1, k)
  BY <1>3, <1>4 DEF context, said
<1>6. Sampled(r, context) = stream[r][k + 1]
  BY <1>3, <1>5 DEF Sampled
<1>7. QED BY <1>3, <1>6 DEF context, NextOf

-----------------------------------------------------------------------------
(* The two event helpers *)

(* A Token event is one token more, and late only after a cancel. *)
LEMMA EmitTokenFacts ==
  ASSUME RecordType, NEW r \in Requests, NEW tok \in Tokens, EmitToken(r, tok)
  PROVE  /\ out' \in [Requests -> Seq(Tokens)]
         /\ out'[r] = Append(out[r], tok)
         /\ late' \in [Requests -> Nat]
         /\ late'[r] <= late[r] + 1
         /\ ~cancel => late' = late
         /\ \A q \in Requests \ {r} : out'[q] = out[q] /\ late'[q] = late[q]
<1>1. out \in [Requests -> Seq(Tokens)] /\ late \in [Requests -> Nat]
  BY DEF RecordType, RecordingTypeOK
<1>2. out[r] \in Seq(Tokens) /\ late[r] \in Nat
  BY <1>1
<1>3. Append(out[r], tok) \in Seq(Tokens)
  BY <1>2, AppendProperties
<1>4. /\ out' \in [Requests -> Seq(Tokens)]
      /\ out'[r] = Append(out[r], tok)
      /\ \A q \in Requests \ {r} : out'[q] = out[q]
  BY <1>1, <1>3 DEF EmitToken
<1>5. CASE cancel
  <2>1. late' = [late EXCEPT ![r] = @ + 1]
    BY <1>5 DEF EmitToken
  <2>2. /\ late' \in [Requests -> Nat] /\ late'[r] = late[r] + 1
        /\ \A q \in Requests \ {r} : late'[q] = late[q]
    BY <1>1, <1>2, <2>1
  <2>3. QED BY <1>2, <1>4, <1>5, <2>2
<1>6. CASE ~cancel
  <2>1. late' = late
    BY <1>6 DEF EmitToken
  <2>2. QED BY <1>1, <1>2, <1>4, <2>1
<1>7. QED BY <1>5, <1>6

LEMMA EmitDoneFacts ==
  ASSUME RecordType, NEW r \in Requests, NEW why \in Reasons, NEW count \in Nat,
         EmitDone(r, why, count), done[r] = <<>>
  PROVE  /\ done' \in [Requests -> Seq(DoneEvents)]
         /\ done'[r] = <<[reason |-> why, generated |-> count]>>
         /\ \A q \in Requests \ {r} : done'[q] = done[q]
<1>1. done \in [Requests -> Seq(DoneEvents)]
  BY DEF RecordType, RecordingTypeOK, DoneEvents, Reasons
<1> DEFINE e == [reason |-> why, generated |-> count]
<1>2. e \in DoneEvents
  BY DEF DoneEvents
<1>3. done' = [done EXCEPT ![r] = Append(@, e)]
  BY DEF EmitDone
<1> HIDE DEF e
<1>4. Append(<<>>, e) = <<e>> /\ <<e>> \in Seq(DoneEvents)
  BY <1>2
<1>5. /\ done' \in [Requests -> Seq(DoneEvents)]
      /\ done'[r] = <<e>>
      /\ \A q \in Requests \ {r} : done'[q] = done[q]
  BY <1>1, <1>3, <1>4
<1>6. QED BY <1>5 DEF e

(* generated'[r] with one token more still follows the model. *)
LEMMA OneMore ==
  ASSUME RecordType, NEW r \in Requests, StreamInv(r), Len(generated[r]) < Budget[r],
         stream' = stream, out'[r] = Append(out[r], NextOf(r)),
         generated' = [generated EXCEPT ![r] = Append(@, NextOf(r))]
  PROVE  /\ generated' \in [Requests -> Seq(Tokens)]
         /\ generated'[r] = Append(generated[r], NextOf(r))
         /\ Len(generated'[r]) = Len(generated[r]) + 1
         /\ \A q \in Requests \ {r} : generated'[q] = generated[q]
         /\ StreamInv(r)'
<1>1. /\ generated \in [Requests -> Seq(Tokens)]
      /\ generated[r] \in Seq(Tokens) /\ Len(generated[r]) \in Nat /\ Budget[r] \in Nat
  BY RequestFacts DEF RecordType, RecordingTypeOK
<1>2. NextOf(r) \in Tokens
  BY NextOfType
<1> DEFINE longer == Append(generated[r], NextOf(r))
<1>3. /\ longer \in Seq(Tokens) /\ Len(longer) = Len(generated[r]) + 1
      /\ \A i \in 1 .. Len(generated[r]) : longer[i] = generated[r][i]
      /\ longer[Len(generated[r]) + 1] = NextOf(r)
  BY <1>1, <1>2, AppendProperties
<1>4. longer = out'[r] /\ generated' = [generated EXCEPT ![r] = longer]
  BY DEF StreamInv
<1> HIDE DEF longer
<1>5. /\ generated' \in [Requests -> Seq(Tokens)]
      /\ generated'[r] = longer
      /\ \A q \in Requests \ {r} : generated'[q] = generated[q]
  BY <1>1, <1>3, <1>4
<1>6. \A i \in 1 .. Len(longer) : longer[i] = stream[r][i]
  <2>1. SUFFICES ASSUME NEW i \in 1 .. Len(longer) PROVE longer[i] = stream[r][i]
    OBVIOUS
  <2>2. CASE i \in 1 .. Len(generated[r])
    BY <1>3, <2>2 DEF StreamInv
  <2>3. CASE i = Len(generated[r]) + 1
    BY <1>3, <2>3 DEF NextOf
  <2>4. QED BY <1>1, <1>3, <2>1, <2>2, <2>3
<1>7. Len(longer) <= Budget[r]
  BY <1>1, <1>3
<1>8. StreamInv(r)'
  BY <1>4, <1>5, <1>6, <1>7 DEF StreamInv
<1>9. longer = Append(generated[r], NextOf(r))
  BY DEF longer
<1>10. QED BY <1>3, <1>5, <1>8, <1>9

-----------------------------------------------------------------------------
(* Recording a token *)

(* What no recording of a token of r touches. *)
OthersKept(r) ==
  \A q \in Requests \ {r} :
    /\ generated'[q] = generated[q] /\ finish'[q] = finish[q] /\ out'[q] = out[q]
    /\ done'[q] = done[q] /\ late'[q] = late[q] /\ nextToken'[q] = nextToken[q]

LEMMA StopHitFacts ==
  ASSUME RecordType, NEW r \in Requests, StreamInv(r), Open(r), NEW tok, StopHit(r, tok),
         stream' = stream, cancel' = cancel
  PROVE  /\ RecordType' /\ StreamInv(r)' /\ OthersKept(r)
         /\ late' = late /\ out' = out
         /\ done'[r] = <<Agreed(r)'>>
<1>1. /\ finish' = [finish EXCEPT ![r] = "Stop"]
      /\ EmitDone(r, "StopToken", Len(generated[r]))
      /\ UNCHANGED <<nextToken, generated, out, late>>
  BY DEF StopHit
<1>2. Len(generated[r]) \in Nat /\ done[r] = <<>> /\ "StopToken" \in Reasons
  BY RequestFacts DEF Open, Reasons
<1>3. /\ done' \in [Requests -> Seq(DoneEvents)]
      /\ done'[r] = <<[reason |-> "StopToken", generated |-> Len(generated[r])]>>
      /\ \A q \in Requests \ {r} : done'[q] = done[q]
  BY <1>1, <1>2, EmitDoneFacts
<1>4. /\ finish' \in [Requests -> {"None", "Stop", "Length"}]
      /\ finish'[r] = "Stop"
      /\ \A q \in Requests \ {r} : finish'[q] = finish[q]
  BY <1>1 DEF RecordType, RecordingTypeOK
<1>5. RecordType'
  BY <1>1, <1>3, <1>4 DEF RecordType, RecordingTypeOK, DoneEvents, Reasons
<1>6. StreamInv(r)'
  BY <1>1 DEF StreamInv
<1>7. Agreed(r)' = [reason |-> "StopToken", generated |-> Len(generated[r])]
  BY <1>1, <1>4 DEF Agreed, OutputReason
<1>8. QED BY <1>1, <1>3, <1>4, <1>5, <1>6, <1>7 DEF OthersKept

LEMMA BudgetFilledFacts ==
  ASSUME RecordType, NEW r \in Requests, StreamInv(r), Open(r),
         BudgetFilled(r, NextOf(r)), stream' = stream, cancel' = cancel
  PROVE  /\ RecordType' /\ StreamInv(r)' /\ OthersKept(r)
         /\ late'[r] <= late[r] + 1 /\ (~cancel => late' = late)
         /\ done'[r] = <<Agreed(r)'>>
<1>1. /\ generated' = [generated EXCEPT ![r] = Append(@, NextOf(r))]
      /\ finish' = [finish EXCEPT ![r] = "Length"]
      /\ EmitToken(r, NextOf(r))
      /\ EmitDone(r, "MaxTokens", Len(generated[r]) + 1)
      /\ UNCHANGED nextToken
  BY DEF BudgetFilled
<1>2. /\ Len(generated[r]) \in Nat /\ Len(generated[r]) < Budget[r] /\ done[r] = <<>>
      /\ "MaxTokens" \in Reasons /\ NextOf(r) \in Tokens
  BY RequestFacts, NextOfType DEF Open, Reasons
<1>3. Len(generated[r]) + 1 \in Nat
  BY <1>2
<1>4. /\ out' \in [Requests -> Seq(Tokens)]
      /\ out'[r] = Append(out[r], NextOf(r))
      /\ late' \in [Requests -> Nat]
      /\ late'[r] <= late[r] + 1
      /\ ~cancel => late' = late
      /\ \A q \in Requests \ {r} : out'[q] = out[q] /\ late'[q] = late[q]
  BY <1>1, <1>2, EmitTokenFacts
<1>5. /\ generated' \in [Requests -> Seq(Tokens)]
      /\ Len(generated'[r]) = Len(generated[r]) + 1
      /\ \A q \in Requests \ {r} : generated'[q] = generated[q]
      /\ StreamInv(r)'
  BY <1>1, <1>2, <1>4, OneMore
<1>6. /\ done' \in [Requests -> Seq(DoneEvents)]
      /\ done'[r] = <<[reason |-> "MaxTokens", generated |-> Len(generated[r]) + 1]>>
      /\ \A q \in Requests \ {r} : done'[q] = done[q]
  BY <1>1, <1>2, <1>3, EmitDoneFacts
<1>7. /\ finish' \in [Requests -> {"None", "Stop", "Length"}]
      /\ finish'[r] = "Length"
      /\ \A q \in Requests \ {r} : finish'[q] = finish[q]
  BY <1>1 DEF RecordType, RecordingTypeOK
<1>8. RecordType'
  BY <1>1, <1>4, <1>5, <1>6, <1>7 DEF RecordType, RecordingTypeOK, DoneEvents, Reasons
<1>9. Agreed(r)' = [reason |-> "MaxTokens", generated |-> Len(generated[r]) + 1]
  BY <1>5, <1>7 DEF Agreed, OutputReason
<1>10. QED BY <1>1, <1>4, <1>5, <1>6, <1>7, <1>8, <1>9 DEF OthersKept

LEMMA ContinuesFacts ==
  ASSUME RecordType, NEW r \in Requests, StreamInv(r), Open(r),
         Continues(r, NextOf(r)), stream' = stream, cancel' = cancel
  PROVE  /\ RecordType' /\ StreamInv(r)' /\ OthersKept(r) /\ Open(r)'
         /\ late'[r] <= late[r] + 1 /\ (~cancel => late' = late)
         /\ generated'[r] = Append(generated[r], NextOf(r))
         /\ nextToken'[r] = NextOf(r)
<1>1. /\ generated' = [generated EXCEPT ![r] = Append(@, NextOf(r))]
      /\ nextToken' = [nextToken EXCEPT ![r] = NextOf(r)]
      /\ EmitToken(r, NextOf(r))
      /\ UNCHANGED <<finish, done>>
      /\ Len(generated[r]) + 1 # Budget[r]
  BY DEF Continues
<1>2. /\ Len(generated[r]) \in Nat /\ Budget[r] \in Nat /\ Len(generated[r]) < Budget[r]
      /\ NextOf(r) \in Tokens
  BY RequestFacts, NextOfType DEF Open
<1>3. /\ out' \in [Requests -> Seq(Tokens)]
      /\ out'[r] = Append(out[r], NextOf(r))
      /\ late' \in [Requests -> Nat]
      /\ late'[r] <= late[r] + 1
      /\ ~cancel => late' = late
      /\ \A q \in Requests \ {r} : out'[q] = out[q] /\ late'[q] = late[q]
  BY <1>1, <1>2, EmitTokenFacts
<1>4. /\ generated' \in [Requests -> Seq(Tokens)]
      /\ generated'[r] = Append(generated[r], NextOf(r))
      /\ Len(generated'[r]) = Len(generated[r]) + 1
      /\ \A q \in Requests \ {r} : generated'[q] = generated[q]
      /\ StreamInv(r)'
  BY <1>1, <1>2, <1>3, OneMore
<1>5. /\ nextToken' \in [Requests -> Tokens \cup {Junk}]
      /\ nextToken'[r] = NextOf(r)
      /\ \A q \in Requests \ {r} : nextToken'[q] = nextToken[q]
  BY <1>1, <1>2 DEF RecordType, RecordingTypeOK
<1>6. RecordType'
  BY <1>1, <1>3, <1>4, <1>5 DEF RecordType, RecordingTypeOK
<1>7. Len(generated'[r]) < Budget[r]
  BY <1>1, <1>2, <1>4
<1>8. Open(r)'
  BY <1>1, <1>7 DEF Open
<1>9. QED BY <1>1, <1>3, <1>4, <1>5, <1>6, <1>8 DEF OthersKept

-----------------------------------------------------------------------------
(* Towards Generation: each of these steps is one step of the request alone. *)

reasonBar == [r \in Requests |-> IF done[r] = <<>> THEN "None" ELSE Head(done[r]).reason]
cancelBar == [r \in Requests |-> cancel]

(* A Done event of r, where there was none, finishes r and nobody else.      *)
LEMMA DoneIsFinish ==
  ASSUME NEW r \in Requests, NEW why, NEW count, done[r] = <<>>,
         done'[r] = <<[reason |-> why, generated |-> count]>>,
         \A q \in Requests \ {r} : done'[q] = done[q]
  PROVE  reasonBar[r] = "None" /\ reasonBar' = [reasonBar EXCEPT ![r] = why]
<1> DEFINE e == [reason |-> why, generated |-> count]
<1>1. <<e>> # <<>> /\ Head(<<e>>) = e /\ e.reason = why
  OBVIOUS
<1> HIDE DEF e
<1>2. done'[r] # <<>> /\ Head(done'[r]).reason = why
  BY <1>1 DEF e
<1>3. QED BY <1>2 DEF reasonBar

LEMMA AloneFinish ==
  ASSUME NEW r \in Requests, NEW why, reasonBar[r] = "None",
         reasonBar' = [reasonBar EXCEPT ![r] = why], UNCHANGED <<stream, out, cancel>>
  PROVE  Alone!Finish(r, why)
BY DEF Alone!Finish, reasonBar, cancelBar

(* Recording the next token of an open request is one step of Generation:    *)
(* the token, the token and the end of the budget, or the stop.              *)
LEMMA AloneRecord ==
  ASSUME RecordType, NEW r \in Requests, StreamInv(r), Open(r),
         Retire(r, NextOf(r)) \/ Continues(r, NextOf(r)),
         stream' = stream, cancel' = cancel
  PROVE  Alone!Next
<1>1. /\ Len(out[r]) < Budget[r] /\ out[r] = generated[r]
      /\ Alone!Next1(r) = NextOf(r)
      /\ Len(generated[r]) \in Nat /\ done[r] = <<>>
  BY RequestFacts DEF Open, StreamInv, Alone!Next1, NextOf
<1>2. CASE StopHit(r, NextOf(r))
  <2>1. /\ NextOf(r) \in StopTokens[r] /\ UNCHANGED <<stream, out, cancel>>
        /\ EmitDone(r, "StopToken", Len(generated[r])) /\ "StopToken" \in Reasons
    BY <1>2 DEF StopHit, Reasons
  <2>2. /\ done'[r] = <<[reason |-> "StopToken", generated |-> Len(generated[r])]>>
        /\ \A q \in Requests \ {r} : done'[q] = done[q]
    BY <1>1, <2>1, EmitDoneFacts
  <2>3. Alone!Finish(r, "StopToken")
    BY <1>1, <2>1, <2>2, DoneIsFinish, AloneFinish
  <2>4. Alone!Stop(r)
    BY <1>1, <2>1, <2>3 DEF Alone!Stop
  <2>5. QED BY <2>4 DEF Alone!Next
<1>3. ASSUME EmitToken(r, NextOf(r)), NextOf(r) \notin StopTokens[r],
             \/ reasonBar' = reasonBar
             \/ Len(out[r]) + 1 = Budget[r] /\ reasonBar' = [reasonBar EXCEPT ![r] = "MaxTokens"],
             reasonBar[r] = "None"
      PROVE  Alone!Next
  <2>1. out' = [out EXCEPT ![r] = Append(@, Alone!Next1(r))]
    BY <1>1, <1>3 DEF EmitToken
  <2>2. Alone!Token(r)
    BY <1>1, <1>3, <2>1 DEF Alone!Token, reasonBar, cancelBar
  <2>3. QED BY <2>2 DEF Alone!Next
<1>4. reasonBar[r] = "None"
  BY <1>1 DEF reasonBar
<1>5. CASE BudgetFilled(r, NextOf(r))
  <2>1. /\ NextOf(r) \notin StopTokens[r] /\ EmitToken(r, NextOf(r))
        /\ Len(generated[r]) + 1 = Budget[r]
        /\ EmitDone(r, "MaxTokens", Len(generated[r]) + 1) /\ "MaxTokens" \in Reasons
        /\ Len(generated[r]) + 1 \in Nat
    BY <1>1, <1>5 DEF BudgetFilled, Reasons
  <2>2. /\ done'[r] = <<[reason |-> "MaxTokens", generated |-> Len(generated[r]) + 1]>>
        /\ \A q \in Requests \ {r} : done'[q] = done[q]
    BY <1>1, <2>1, EmitDoneFacts
  <2>3. reasonBar' = [reasonBar EXCEPT ![r] = "MaxTokens"]
    BY <1>1, <2>2, DoneIsFinish
  <2>4. QED BY <1>1, <1>3, <1>4, <2>1, <2>3
<1>6. CASE Continues(r, NextOf(r))
  <2>1. NextOf(r) \notin StopTokens[r] /\ EmitToken(r, NextOf(r)) /\ done' = done
    BY <1>6 DEF Continues
  <2>2. reasonBar' = reasonBar
    BY <2>1 DEF reasonBar
  <2>3. QED BY <1>3, <1>4, <2>1, <2>2
<1>7. QED BY <1>2, <1>5, <1>6 DEF Retire

(* So is the Done event of a request that gets no token any more.            *)
LEMMA AloneDone ==
  ASSUME RecordType, NEW r \in Requests, StreamInv(r), done[r] = <<>>,
         NEW why, NEW count \in Nat, EmitDone(r, why, count),
         UNCHANGED <<stream, out, cancel>>,
         \/ why = "MaxTokens" /\ Len(generated[r]) = Budget[r]
         \/ why = "Cancelled" /\ cancel /\ Len(generated[r]) < Budget[r]
  PROVE  Alone!Next
<1>1. why \in Reasons
  BY DEF Reasons
<1>2. /\ done'[r] = <<[reason |-> why, generated |-> count]>>
      /\ \A q \in Requests \ {r} : done'[q] = done[q]
  BY <1>1, EmitDoneFacts
<1>3. Alone!Finish(r, why)
  BY <1>2, DoneIsFinish, AloneFinish
<1>4. out[r] = generated[r]
  BY DEF StreamInv
<1>5. CASE why = "MaxTokens" /\ Len(generated[r]) = Budget[r]
  <2>1. Alone!Exhaust(r)
    BY <1>3, <1>4, <1>5 DEF Alone!Exhaust
  <2>2. QED BY <2>1 DEF Alone!Next
<1>6. CASE why = "Cancelled" /\ cancel /\ Len(generated[r]) < Budget[r]
  <2>1. Alone!Abandon(r)
    BY <1>3, <1>4, <1>6 DEF Alone!Abandon, cancelBar
  <2>2. QED BY <2>1 DEF Alone!Next
<1>7. QED BY <1>5, <1>6

(* The flag is one flag, shared by all requests of the call. *)
LEMMA AloneCancel ==
  ASSUME SetCancel
  PROVE  Alone!Next
<1>1. ~cancel /\ cancel' = TRUE /\ UNCHANGED <<stream, out, done>>
  BY DEF SetCancel, eventVars
<1>2. reasonBar' = reasonBar
  BY <1>1 DEF reasonBar
<1>3. Alone!Cancel(Requests)
  BY <1>1, <1>2 DEF Alone!Cancel, reasonBar, cancelBar
<1>4. QED BY <1>3 DEF Alone!Next

LEMMA AloneInit ==
  ASSUME RecordingInit
  PROVE  Alone!Init
BY DEF RecordingInit, Alone!Init

(* What changes no event, no flag and no stream is no step of Generation.    *)
LEMMA AloneStutter ==
  ASSUME UNCHANGED <<stream, out, done, cancel>>
  PROVE  UNCHANGED Alone!vars
BY DEF Alone!vars

-----------------------------------------------------------------------------
(* The longest prompt *)

LEMMA GreatestOfFinite ==
  ASSUME NEW S \in SUBSET Nat, S # {}, IsFiniteSet(S)
  PROVE  \E x \in S : \A y \in S : x >= y
<1> DEFINE above(x) == {y \in S : y >= x}
           tops == {above(x) : x \in S}
           R == StrictSubsetOrdering(S)
<1>1. IsWellFoundedOn(R, SUBSET S)
  BY FS_StrictSubsetOrderingWellFounded, FS_FiniteSubsetsOfFinite
<1>2. tops \in SUBSET (SUBSET S) /\ tops # {}
  OBVIOUS
<1> HIDE DEF R
<1>3. PICK top \in tops : \A other \in tops : ~ (<<other, top>> \in R)
  BY <1>1, <1>2, WFMin
<1>4. PICK x \in S : top = above(x)
  BY <1>3
<1>5. ASSUME NEW y \in S, ~ (x >= y) PROVE FALSE
  <2>1. x \in Nat /\ y \in Nat /\ y > x
    BY <1>5
  <2>2. above(y) \subseteq above(x) /\ above(y) # above(x)
    <3>1. \A z \in above(y) : z \in S /\ z >= x
      BY <2>1
    <3>2. x \in above(x) /\ x \notin above(y)
      BY <2>1
    <3>3. QED BY <3>1, <3>2
  <2>3. above(y) \in tops /\ above(y) \in SUBSET S /\ above(x) \in SUBSET S
    OBVIOUS
  <2> HIDE DEF above, tops
  <2>4. <<above(y), above(x)>> \in R
    BY <2>2, <2>3 DEF R, StrictSubsetOrdering
  <2>5. QED BY <1>3, <1>4, <2>3, <2>4
<1>6. QED BY <1>5

LEMMA PadFacts ==
  ASSUME NEW r \in Requests
  PROVE  /\ MaxPrompt \in Nat /\ PadLen(r) \in Nat
         /\ MaxPrompt = PadLen(r) + Len(Prompt[r])
         /\ Prompt[r] \in Seq(Tokens) /\ Len(Prompt[r]) \in Nat \ {0}
<1> DEFINE lengths == {Len(Prompt[q]) : q \in Requests}
           f == [q \in Requests |-> Len(Prompt[q])]
<1>1. \A q \in Requests : Len(Prompt[q]) \in Nat
  BY PromptAssumption, LenProperties
<1>2. Prompt[r] \in Seq(Tokens) /\ Len(Prompt[r]) \in Nat \ {0}
  BY PromptAssumption, EmptySeq
<1>3. lengths \in SUBSET Nat /\ lengths # {} /\ Len(Prompt[r]) \in lengths
  BY <1>1
<1>4. IsFiniteSet(Requests)
  BY NumRequestsAssumption, FS_Interval DEF Requests
<1>5. f \in Surjection(Requests, lengths)
  BY DEF Surjection
<1>6. IsFiniteSet(lengths)
  BY <1>4, <1>5, FS_Surjection
<1> HIDE DEF lengths
<1>7. PICK x \in lengths : \A y \in lengths : x >= y
  BY <1>3, <1>6, GreatestOfFinite
<1>8. MaxPrompt \in lengths /\ \A y \in lengths : MaxPrompt >= y
  BY <1>7 DEF MaxPrompt, Max, lengths
<1>9. MaxPrompt \in Nat /\ MaxPrompt >= Len(Prompt[r])
  BY <1>3, <1>8
<1> HIDE DEF MaxPrompt
<1>10. QED BY <1>2, <1>9 DEF PadLen

LEMMA FunctionIsSeq ==
  ASSUME NEW S, NEW n \in Nat, NEW f \in [1 .. n -> S]
  PROVE  f \in Seq(S) /\ Len(f) = n
<1>1. f \in Seq(S)
  BY SeqDef
<1>2. DOMAIN f = 1 .. n /\ DOMAIN f = 1 .. Len(f) /\ Len(f) \in Nat
  BY <1>1, LenProperties
<1>3. Len(f) = n
  BY <1>2
<1>4. QED BY <1>1, <1>3

-----------------------------------------------------------------------------
(* Rows *)

Cells == Cell \cup {Pad}

(* The row of r after its prompt and its first tokens, said, have been fed. *)
RowOf(r, said) ==
  [j \in 1 .. PadLen(r) + Len(said) |->
     IF j <= PadLen(r) THEN Pad ELSE [tok |-> said[j - PadLen(r)], pos |-> j - PadLen(r) - 1]]

LEMMA RowOfType ==
  ASSUME NEW r \in Requests, NEW said \in Seq(Tokens)
  PROVE  /\ RowOf(r, said) \in Seq(Cells)
         /\ Len(RowOf(r, said)) = PadLen(r) + Len(said)
         /\ \A j \in 1 .. Len(said) :
              /\ PadLen(r) + j \in 1 .. PadLen(r) + Len(said)
              /\ RowOf(r, said)[PadLen(r) + j] = [tok |-> said[j], pos |-> j - 1]
<1>1. PadLen(r) \in Nat /\ Len(said) \in Nat
  BY PadFacts, LenProperties
<1> DEFINE P == PadLen(r)
           row == RowOf(r, said)
<1>2. ASSUME NEW j \in 1 .. P + Len(said)
      PROVE  row[j] \in Cells
  <2>1. row[j] = IF j <= P THEN Pad ELSE [tok |-> said[j - P], pos |-> j - P - 1]
    BY DEF RowOf
  <2>2. CASE j <= P
    BY <2>1, <2>2 DEF Cells
  <2>3. CASE ~ (j <= P)
    <3>1. j - P \in 1 .. Len(said) /\ j - P - 1 \in Nat
      BY <1>1, <2>3
    <3>2. said[j - P] \in Tokens
      BY <3>1, ElementOfSeq
    <3>3. QED BY <2>1, <2>3, <3>1, <3>2 DEF Cells, Cell
  <2>4. QED BY <2>2, <2>3
<1>3. P + Len(said) \in Nat
  BY <1>1
<1>4. row = [j \in 1 .. P + Len(said) |-> row[j]]
  BY DEF RowOf
<1>5. ASSUME NEW j \in 1 .. Len(said)
      PROVE  P + j \in 1 .. P + Len(said) /\ row[P + j] = [tok |-> said[j], pos |-> j - 1]
  <2>1. /\ P + j \in 1 .. P + Len(said) /\ ~ (P + j <= P) /\ (P + j) - P = j
        /\ (P + j) - P - 1 = j - 1
    BY <1>1
  <2> HIDE DEF P
  <2>2. row[P + j] = IF P + j <= P THEN Pad
                     ELSE [tok |-> said[(P + j) - P], pos |-> (P + j) - P - 1]
    BY <2>1 DEF RowOf, P
  <2>3. QED BY <2>1, <2>2
<1> HIDE DEF row, P
<1>6. row \in Seq(Cells) /\ Len(row) = P + Len(said)
  BY <1>2, <1>3, <1>4, FunctionIsSeq
<1>7. QED BY <1>5, <1>6 DEF row, P

(* The padded prompt is the row of the prompt. *)
LEMMA PaddedIsRow ==
  ASSUME NEW r \in Requests
  PROVE  PaddedRow(r) = RowOf(r, Prompt[r])
BY PadFacts DEF PaddedRow, RowOf

(* Feeding a token at the next position extends what the row has been told.  *)
LEMMA FedRow ==
  ASSUME NEW r \in Requests, NEW said \in Seq(Tokens), NEW t \in Tokens
  PROVE  Append(RowOf(r, said), [tok |-> t, pos |-> Len(said)]) = RowOf(r, Append(said, t))
<1> DEFINE P == PadLen(r)
           n == Len(said)
           old == RowOf(r, said)
           e == [tok |-> t, pos |-> n]
           long == Append(said, t)
           new == RowOf(r, long)
<1>1. /\ P \in Nat /\ n \in Nat
      /\ old \in Seq(Cells) /\ Len(old) = P + n
  BY PadFacts, LenProperties, RowOfType
<1>2. /\ long \in Seq(Tokens) /\ Len(long) = n + 1
      /\ \A j \in 1 .. n : long[j] = said[j]
      /\ long[n + 1] = t
  BY AppendProperties
<1>3. e \in Cells
  BY <1>1 DEF Cells, Cell
<1>4. /\ new \in Seq(Cells) /\ Len(new) = P + (n + 1)
  BY <1>2, RowOfType
<1>5. /\ Append(old, e) \in Seq(Cells) /\ Len(Append(old, e)) = P + n + 1
      /\ \A j \in 1 .. P + n : Append(old, e)[j] = old[j]
      /\ Append(old, e)[P + n + 1] = e
  BY <1>1, <1>3, AppendProperties
<1>6. \A j \in 1 .. P + n :
        old[j] = IF j <= P THEN Pad ELSE [tok |-> said[j - P], pos |-> j - P - 1]
  BY DEF RowOf
<1>7. \A j \in 1 .. P + (n + 1) :
        new[j] = IF j <= P THEN Pad ELSE [tok |-> long[j - P], pos |-> j - P - 1]
  BY <1>2 DEF RowOf
<1> HIDE DEF P, n, old, e, long, new
<1>8. ASSUME NEW j \in 1 .. P + n + 1
      PROVE  Append(old, e)[j] = new[j]
  <2>0. j \in 1 .. P + (n + 1)
    BY <1>1
  <2>1. CASE j <= P
    <3>1. j \in 1 .. P + n
      BY <1>1, <2>1
    <3>2. QED BY <1>5, <1>6, <1>7, <2>0, <2>1, <3>1
  <2>2. CASE ~ (j <= P) /\ j # P + n + 1
    <3>1. j \in 1 .. P + n /\ j - P \in 1 .. n
      BY <1>1, <2>2
    <3>2. QED BY <1>2, <1>5, <1>6, <1>7, <2>0, <2>2, <3>1
  <2>3. CASE j = P + n + 1
    <3>1. ~ (j <= P) /\ j - P = n + 1 /\ j - P - 1 = n
      BY <1>1, <2>3
    <3>2. new[j] = [tok |-> long[j - P], pos |-> j - P - 1]
      BY <1>7, <2>0, <3>1
    <3>3. new[j] = [tok |-> t, pos |-> n]
      BY <1>2, <3>1, <3>2
    <3>4. QED BY <1>5, <2>3, <3>3 DEF e
  <2>4. QED BY <2>1, <2>2, <2>3
<1>9. Len(new) = Len(Append(old, e))
  BY <1>1, <1>4, <1>5
<1>10. Append(old, e) = new
  BY <1>4, <1>5, <1>8, <1>9, SeqEqual
<1>11. QED BY <1>10 DEF P, n, old, e, long, new

(* Read through its own mask, a row says what its lane was told. *)
LEMMA ReadRow ==
  ASSUME NEW r \in Requests, NEW said \in Seq(Tokens)
  PROVE  RowLogits(r, RowOf(r, said)) = Sampled(r, said)
<1> DEFINE P == PadLen(r)
           row == RowOf(r, said)
           seen == SubSeq(row, P + 1, Len(row))
<1>1. /\ P \in Nat /\ Len(said) \in Nat
      /\ row \in Seq(Cells) /\ Len(row) = P + Len(said)
      /\ \A j \in 1 .. Len(said) :
           P + j \in 1 .. P + Len(said) /\ row[P + j] = [tok |-> said[j], pos |-> j - 1]
  BY PadFacts, LenProperties, RowOfType
<1> HIDE DEF P, row
<1>2. \A j \in P + 1 .. Len(row) : row[j] \in Cells
  <2>1. SUFFICES ASSUME NEW j \in P + 1 .. Len(row) PROVE row[j] \in Cells
    OBVIOUS
  <2>2. j \in 1 .. Len(row)
    BY <1>1
  <2>3. QED BY <1>1, <2>2, ElementOfSeq
<1>3. /\ seen \in Seq(Cells)
      /\ Len(seen) = IF P + 1 <= Len(row) THEN Len(row) - (P + 1) + 1 ELSE 0
      /\ \A j \in 1 .. Len(row) - (P + 1) + 1 : seen[j] = row[P + 1 + j - 1]
  <2>1. P + 1 \in Int /\ Len(row) \in Int
    BY <1>1
  <2>2. QED BY <1>2, <2>1, SubSeqProperties
<1>4. Len(seen) = Len(said) /\ Len(row) - (P + 1) + 1 = Len(said)
  BY <1>1, <1>3
<1>5. \A j \in 1 .. Len(said) : seen[j] = [tok |-> said[j], pos |-> j - 1]
  <2>1. SUFFICES ASSUME NEW j \in 1 .. Len(said)
                 PROVE  seen[j] = [tok |-> said[j], pos |-> j - 1]
    OBVIOUS
  <2>2. P + 1 + j - 1 = P + j
    BY <1>1
  <2>3. seen[j] = row[P + 1 + j - 1]
    BY <1>3, <1>4
  <2>4. QED BY <1>1, <2>2, <2>3
<1>6. DOMAIN seen = 1 .. Len(said)
  BY <1>3, <1>4, LenProperties
<1> HIDE DEF seen
<1>7. \A j \in DOMAIN seen : seen[j] # Pad /\ seen[j].pos = j - 1 /\ seen[j].tok = said[j]
  <2>1. SUFFICES ASSUME NEW j \in 1 .. Len(said)
                 PROVE  seen[j] # Pad /\ seen[j].pos = j - 1 /\ seen[j].tok = said[j]
    BY <1>6
  <2>2. said[j] \in Tokens /\ j - 1 \in Nat
    BY <1>1, ElementOfSeq
  <2>3. seen[j] = [tok |-> said[j], pos |-> j - 1]
    BY <1>5
  <2>4. seen[j] \in [tok : Tokens, pos : Nat]
    BY <2>2, <2>3
  <2>5. QED BY <2>3, <2>4, PadAssumption
<1>8. [j \in DOMAIN seen |-> seen[j].tok] = said
  <2>1. said = [j \in 1 .. Len(said) |-> said[j]]
    BY LenProperties
  <2>2. QED BY <1>6, <1>7, <2>1
<1>9. RowLogits(r, row) = IF \A j \in DOMAIN seen : seen[j] # Pad /\ seen[j].pos = j - 1
                          THEN Sampled(r, [j \in DOMAIN seen |-> seen[j].tok])
                          ELSE Junk
  BY DEF RowLogits, seen, P
<1>10. QED BY <1>7, <1>8, <1>9 DEF row

-----------------------------------------------------------------------------
(* The invariant *)

Before == {"start", "prefill", "refused"}

BatchType == TypeOK /\ stream \in Models

(* A request as it was admitted to the scheduler *)
Fresh(r) ==
  /\ generated[r] = <<>> /\ done[r] = <<>> /\ late[r] = 0
  /\ finish[r] = IF Budget[r] = 0 THEN "Length" ELSE "None"

(* The row of lane r, which feeds its last token at the next step *)
Fed(r, row) ==
  \E said \in Seq(Tokens) :
    /\ row = RowOf(r, said)
    /\ nextToken[r] \in Tokens
    /\ Append(said, nextToken[r]) = Prompt[r] \o generated[r]

StartInv == pc \in Before => active = <<>> /\ \A r \in Requests : Fresh(r)

PhaseInv ==
  /\ pc \notin {"first", "record"} => todo = <<>> /\ keep = <<>>
  /\ pc = "cancelled" => cancel
  /\ pc = "returned" => active = <<>>

PlacesInv ==
  /\ Distinct(active) /\ Distinct(todo)
  /\ ToSet(active) \cap ToSet(todo) = {}

(* A lane is open; only at the first token may one have no budget at all. *)
LiveInv ==
  /\ \A r \in ToSet(active) : Open(r)
  /\ \A r \in ToSet(todo) : Open(r) \/ (pc = "first" /\ Fresh(r) /\ Budget[r] = 0)

EndedInv ==
  pc \notin Before =>
    \A r \in Requests : r \notin ToSet(active) \cup ToSet(todo) => done[r] = <<Agreed(r)>>

LateInv == \A r \in Requests : ~cancel \/ r \in ToSet(todo) => late[r] = 0

Recorded == Len(rows) - Len(todo)

(* While a step is recorded, the first rows are those of the lanes that were *)
(* looked at, kept or not, and the others those of the lanes still to come,  *)
(* in order.  As long as every lane was kept, keep names every row.          *)
RecordingRows ==
  /\ Len(todo) <= Len(rows)
  /\ \A k \in 1 .. Len(todo) :
       Open(todo[k]) =>
         /\ rows[Recorded + k] = RowOf(todo[k], Prompt[todo[k]] \o generated[todo[k]])
         /\ logits[Recorded + k] = NextOf(todo[k])
  /\ Len(keep) = Len(active)
  /\ Len(keep) <= Recorded
  /\ \A i \in 1 .. Len(keep) : keep[i] \in 1 .. Recorded /\ Fed(active[i], rows[keep[i]])
  /\ Len(keep) = Recorded => \A i \in 1 .. Len(keep) : keep[i] = i

RowsInv ==
  /\ Len(rows) <= NumRequests
  /\ pc \in {"first", "record"} => RecordingRows
  /\ pc = "decode" /\ active # <<>> =>
       Len(rows) = Len(active) /\ \A i \in 1 .. Len(active) : Fed(active[i], rows[i])

Running ==
  /\ StartInv /\ PhaseInv /\ PlacesInv /\ LiveInv /\ EndedInv /\ LateInv /\ RowsInv

BatchInv ==
  /\ BatchType
  /\ \A r \in Requests : StreamInv(r) /\ late[r] <= 1
  /\ pc # "failed" => Running

LEMMA TypeIsRecordType == ASSUME BatchType PROVE RecordType
BY DEF BatchType, TypeOK, RecordType

LEMMA ListFacts ==
  ASSUME BatchType
  PROVE  /\ active \in Seq(Requests) /\ Len(active) \in Nat
         /\ todo \in Seq(Requests) /\ Len(todo) \in Nat
         /\ keep \in Seq(1 .. NumRequests) /\ Len(keep) \in Nat
         /\ rows \in Seq(Seq(Cells)) /\ Len(rows) \in Nat
         /\ logits \in Seq(Tokens \cup {Junk})
BY LenProperties DEF BatchType, TypeOK, Cells

-----------------------------------------------------------------------------
(* The beginning *)

LEMMA InvInit ==
  ASSUME Init
  PROVE  BatchInv
<1>1. RecordingInit /\ rows = <<>> /\ logits = <<>> /\ active = <<>> /\ todo = <<>> /\ keep = <<>>
  BY DEF Init
<1>2. /\ stream \in Models /\ cancel = FALSE /\ pc = "start"
      /\ nextToken = [r \in Requests |-> Junk]
      /\ generated = [r \in Requests |-> <<>>]
      /\ finish = [r \in Requests |-> IF Budget[r] = 0 THEN "Length" ELSE "None"]
      /\ out = [r \in Requests |-> <<>>]
      /\ done = [r \in Requests |-> <<>>]
      /\ late = [r \in Requests |-> 0]
  BY <1>1 DEF RecordingInit
<1>3. NumRequests \in Nat /\ ToSet(<<>>) = {} /\ Distinct(<<>>) /\ Len(<<>>) = 0
  BY NumRequestsAssumption, EmptyPlaces, EmptySeq
<1>4. BatchType
  <2>1. nextToken \in [Requests -> Tokens \cup {Junk}] /\ cancel \in BOOLEAN
    BY <1>2
  <2>2. generated \in [Requests -> Seq(Tokens)] /\ out \in [Requests -> Seq(Tokens)]
    BY <1>2
  <2>3. late \in [Requests -> Nat]
    BY <1>2
  <2>4. finish \in [Requests -> {"None", "Stop", "Length"}]
    BY <1>2
  <2>5. done \in [Requests -> Seq([reason : {"StopToken", "MaxTokens", "Cancelled"}, generated : Nat])]
    BY <1>2
  <2>6. /\ rows \in Seq(Seq(Cell \cup {Pad})) /\ logits \in Seq(Tokens \cup {Junk})
        /\ active \in Seq(Requests) /\ todo \in Seq(Requests) /\ keep \in Seq(1 .. NumRequests)
    BY <1>1
  <2>7. QED
    BY <1>2, <2>1, <2>2, <2>3, <2>4, <2>5, <2>6 DEF BatchType, TypeOK, RecordingTypeOK
<1>5. ASSUME NEW r \in Requests
      PROVE  StreamInv(r) /\ late[r] = 0 /\ Fresh(r)
  <2>1. generated[r] = <<>> /\ out[r] = <<>> /\ done[r] = <<>> /\ late[r] = 0
        /\ Budget[r] \in Nat /\ finish[r] = IF Budget[r] = 0 THEN "Length" ELSE "None"
    BY <1>2, BudgetAssumption
  <2>2. QED BY <1>3, <2>1 DEF StreamInv, Fresh
<1>6. StartInv /\ PhaseInv /\ PlacesInv /\ LiveInv /\ EndedInv
  BY <1>1, <1>2, <1>3, <1>5 DEF StartInv, PhaseInv, PlacesInv, LiveInv, EndedInv, Before
<1>7. LateInv /\ RowsInv
  BY <1>1, <1>2, <1>3, <1>5 DEF LateInv, RowsInv
<1>8. QED BY <1>4, <1>5, <1>6, <1>7 DEF BatchInv, Running

-----------------------------------------------------------------------------
(* Steps that touch no request *)

(* What no such step touches of the requests and the lists *)
Untouched ==
  UNCHANGED <<stream, nextToken, generated, finish, out, done, late>>

PhaseMoves ==
  /\ \/ pc' = pc
     \/ pc \notin {"first", "record"} /\ pc' \notin {"first", "record", "decode"}
     \/ pc' = "failed"
  /\ pc' \in Before => pc \in Before
  /\ pc \in Before => pc' \in Before \cup {"failed"}
  /\ pc' = "cancelled" => cancel'
  /\ pc' = "returned" => active = <<>>

LEMMA InvQuiet ==
  ASSUME BatchInv, pc # "failed", Untouched, UNCHANGED <<rows, logits, active, todo, keep>>,
         cancel' \in BOOLEAN, cancel => cancel',
         pc' \in Finals \cup {"start", "prefill", "first", "decode", "record", "cancelled"},
         PhaseMoves
  PROVE  BatchInv'
<1>1. BatchType'
  BY DEF BatchInv, BatchType, TypeOK, RecordingTypeOK, Untouched
<1>2. ASSUME NEW r \in Requests PROVE StreamInv(r)' /\ late'[r] <= 1
  <2>1. StreamInv(r) /\ late[r] <= 1
    BY DEF BatchInv
  <2>2. QED BY <2>1 DEF Untouched, StreamInv
<1>3. ASSUME pc' # "failed" PROVE Running'
  <2>1. Running
    BY DEF BatchInv
  <2>2. StartInv' /\ PhaseInv'
    BY <1>3, <2>1 DEF Running, StartInv, PhaseInv, Fresh, Untouched, PhaseMoves
  <2>3. PlacesInv'
    BY <2>1 DEF Running, PlacesInv
  <2>4. LiveInv'
    <3>1. (\A r \in ToSet(active) : Open(r)) /\ (pc' # pc => todo = <<>>) /\ ToSet(<<>>) = {}
      BY <1>3, <2>1, EmptyPlaces DEF Running, LiveInv, PhaseInv, PhaseMoves
    <3>2. \A r \in ToSet(active') : Open(r)'
      BY <3>1 DEF Untouched, Open
    <3>3. CASE pc' # pc
      BY <3>1, <3>2, <3>3 DEF LiveInv
    <3>4. CASE pc' = pc
      BY <2>1, <3>2, <3>4 DEF Running, LiveInv, Untouched, Open, Fresh
    <3>5. QED BY <3>3, <3>4
  <2>5. EndedInv'
    BY <1>3, <2>1 DEF Running, EndedInv, Untouched, Agreed, OutputReason, PhaseMoves
  <2>6. LateInv'
    BY <2>1 DEF Running, LateInv, Untouched
  <2>7. RowsInv'
    BY <1>3, <2>1 DEF Running, RowsInv, RecordingRows, Recorded, Untouched, Open, Fed, NextOf, PhaseMoves
  <2>8. QED BY <2>2, <2>3, <2>4, <2>5, <2>6, <2>7 DEF Running
<1>4. QED BY <1>1, <1>2, <1>3 DEF BatchInv

LEMMA InvMoves ==
  ASSUME BatchInv, Cancel \/ Start \/ LeaveLoop \/ AllSignalled \/ Fail
  PROVE  BatchInv'
<1>1. cancel \in BOOLEAN
      /\ pc \in Finals \cup {"start", "prefill", "first", "decode", "record", "cancelled"}
  BY DEF BatchInv, BatchType, TypeOK, RecordingTypeOK
<1>2. CASE Cancel
  <2>1. /\ Untouched /\ UNCHANGED <<rows, logits, active, todo, keep>>
        /\ cancel' = TRUE /\ pc' = pc /\ pc \notin Finals
    BY <1>2 DEF Cancel, SetCancel, schedVars, eventVars, Untouched
  <2>2. /\ cancel' \in BOOLEAN /\ (cancel => cancel') /\ pc # "failed" /\ pc' # "returned"
        /\ pc' \in Finals \cup {"start", "prefill", "first", "decode", "record", "cancelled"}
    BY <1>1, <2>1 DEF Finals
  <2>3. PhaseMoves
    BY <2>1 DEF PhaseMoves, Finals
  <2>4. QED BY <2>1, <2>2, <2>3, InvQuiet
<1>3. ASSUME NEW place, MoveTo(place), UNCHANGED <<rows, logits, active, todo, keep>>,
             \/ pc = "start" /\ place \in {"refused", "prefill"}
             \/ pc \in {"decode", "cancelled"} /\ place = "returned" /\ active = <<>>
             \/ pc = "decode" /\ place = "cancelled" /\ cancel
             \/ pc \notin Finals /\ place = "failed"
      PROVE  BatchInv'
  <2>1. Untouched /\ pc' = place /\ cancel' = cancel
    BY <1>3 DEF MoveTo, Untouched
  <2>2. /\ pc # "failed"
        /\ pc' \in Finals \cup {"start", "prefill", "first", "decode", "record", "cancelled"}
        /\ PhaseMoves
    BY <1>3, <2>1 DEF Finals, Before, PhaseMoves
  <2>3. QED BY <1>1, <1>3, <2>1, <2>2, InvQuiet
<1>4. CASE Start
  <2>1. pc = "start" /\ MoveTo(IF cancel THEN "refused" ELSE "prefill")
        /\ UNCHANGED <<rows, logits, active, todo, keep>>
    BY <1>4 DEF Start
  <2>2. QED BY <1>3, <2>1
<1>5. CASE LeaveLoop
  <2>1. pc = "decode" /\ MoveTo(IF active = <<>> THEN "returned" ELSE "cancelled")
        /\ (active = <<>> \/ cancel) /\ UNCHANGED <<rows, logits, active, todo, keep>>
    BY <1>5 DEF LeaveLoop
  <2>2. QED BY <1>3, <2>1
<1>6. CASE AllSignalled
  BY <1>3, <1>6 DEF AllSignalled
<1>7. CASE Fail
  <2>1. pc \notin Finals /\ MoveTo("failed") /\ UNCHANGED <<rows, logits, active, todo, keep>>
    BY <1>7 DEF Fail, Finals
  <2>2. QED BY <1>3, <2>1
<1>8. QED BY <1>2, <1>4, <1>5, <1>6, <1>7

LEMMA InvStutter ==
  ASSUME BatchInv, UNCHANGED vars
  PROVE  BatchInv'
<1>1. UNCHANGED <<stream, cancel, pc, nextToken, generated, finish, out, done, late,
                  rows, logits, active, todo, keep>>
  BY DEF vars
<1>2. BatchType'
  BY <1>1 DEF BatchInv, BatchType, TypeOK, RecordingTypeOK
<1>3. ASSUME NEW r \in Requests PROVE StreamInv(r)' /\ late'[r] <= 1
  <2>1. StreamInv(r) /\ late[r] <= 1
    BY DEF BatchInv
  <2>2. QED BY <1>1, <2>1 DEF StreamInv
<1>4. CASE pc = "failed"
  BY <1>1, <1>2, <1>3, <1>4 DEF BatchInv
<1>5. CASE pc # "failed"
  <2>1. /\ cancel' \in BOOLEAN /\ Untouched
        /\ pc' \in Finals \cup {"start", "prefill", "first", "decode", "record", "cancelled"}
    BY <1>1, <1>2 DEF BatchType, TypeOK, RecordingTypeOK, Untouched
  <2>2. PhaseMoves
    BY <1>1, <1>5 DEF PhaseMoves, BatchInv, Running, PhaseInv
  <2>3. (cancel => cancel') /\ UNCHANGED <<rows, logits, active, todo, keep>>
    BY <1>1
  <2>4. QED BY <1>5, <2>1, <2>2, <2>3, InvQuiet
<1>6. QED BY <1>4, <1>5

-----------------------------------------------------------------------------
(* Prefill *)

LEMMA InvPrefill ==
  ASSUME BatchInv, Prefill
  PROVE  BatchInv'
<1>1. /\ pc = "prefill" /\ pc' = "first"
      /\ rows' = [r \in Requests |-> PaddedRow(r)]
      /\ logits' = [r \in Requests |-> RowLogits(r, PaddedRow(r))]
      /\ todo' = [r \in Requests |-> r]
      /\ UNCHANGED <<stream, cancel, nextToken, generated, finish, out, done, late, active, keep>>
  BY DEF Prefill, MoveTo
<1>2. /\ Running /\ BatchType /\ RecordType
      /\ active = <<>> /\ keep = <<>> /\ todo = <<>>
      /\ \A r \in Requests : Fresh(r) /\ StreamInv(r)
  BY <1>1, TypeIsRecordType DEF BatchInv, Running, StartInv, PhaseInv, Before
<1>3. NumRequests \in Nat /\ Requests = 1 .. NumRequests
  BY NumRequestsAssumption DEF Requests
<1>4. ToSet(<<>>) = {} /\ Distinct(<<>>) /\ Len(<<>>) = 0
  BY EmptyPlaces, EmptySeq
<1>5. ASSUME NEW r \in Requests
      PROVE  /\ rows'[r] = RowOf(r, Prompt[r] \o generated[r]) /\ rows'[r] \in Seq(Cells)
             /\ logits'[r] \in Tokens \cup {Junk}
             /\ Open(r) => logits'[r] = NextOf(r)
             /\ Open(r) \/ Budget[r] = 0
  <2>1. /\ generated[r] = <<>> /\ Prompt[r] \in Seq(Tokens) /\ Budget[r] \in Nat
        /\ Len(generated[r]) = 0
    BY <1>2, <1>4, RequestFacts DEF Fresh
  <2>2. Prompt[r] \o generated[r] = Prompt[r]
    BY <2>1, ConcatEmptySeq
  <2>3. rows'[r] = RowOf(r, Prompt[r]) /\ logits'[r] = RowLogits(r, RowOf(r, Prompt[r]))
    BY <1>1, PaddedIsRow
  <2>4. rows'[r] \in Seq(Cells) /\ logits'[r] = Sampled(r, Prompt[r])
    BY <2>1, <2>3, RowOfType, ReadRow
  <2>5. CASE Budget[r] = 0
    <3>1. 0 .. Budget[r] - 1 = {}
      BY <2>1, <2>5
    <3>2. Sampled(r, Prompt[r]) = Junk
      BY <3>1 DEF Sampled
    <3>3. ~ Open(r)
      BY <2>1, <2>5 DEF Open
    <3>4. QED BY <2>2, <2>3, <2>4, <2>5, <3>2, <3>3
  <2>6. CASE Budget[r] # 0
    <3>1. Len(generated[r]) < Budget[r] /\ StreamInv(r)
      BY <1>2, <2>1, <2>6
    <3>2. Sampled(r, Prompt[r]) = NextOf(r) /\ NextOf(r) \in Tokens
      BY <1>2, <2>2, <3>1, SampledNext, NextOfType
    <3>3. Open(r)
      BY <1>2, <2>6, <3>1 DEF Fresh, Open
    <3>4. QED BY <2>2, <2>3, <2>4, <3>2, <3>3
  <2>7. QED BY <2>5, <2>6
<1>6. /\ rows' \in Seq(Seq(Cells)) /\ logits' \in Seq(Tokens \cup {Junk}) /\ todo' \in Seq(Requests)
      /\ Len(rows') = NumRequests /\ Len(todo') = NumRequests
  <2>1. rows' \in [1 .. NumRequests -> Seq(Cells)]
    <3>1. \A r \in Requests : rows'[r] \in Seq(Cells)
      BY <1>5
    <3>2. QED BY <1>1, <1>3, <3>1
  <2>2. logits' \in [1 .. NumRequests -> Tokens \cup {Junk}]
    <3>1. \A r \in Requests : logits'[r] \in Tokens \cup {Junk}
      BY <1>5
    <3>2. QED BY <1>1, <1>3, <3>1
  <2>3. todo' \in [1 .. NumRequests -> Requests]
    BY <1>1, <1>3
  <2>4. QED BY <1>3, <2>1, <2>2, <2>3, FunctionIsSeq
<1>7. BatchType'
  <2>1. rows' \in Seq(Seq(Cell \cup {Pad}))
    BY <1>6 DEF Cells
  <2>2. QED BY <1>1, <1>2, <1>6, <2>1 DEF BatchType, TypeOK, RecordingTypeOK
<1>8. \A r \in Requests : StreamInv(r)' /\ late'[r] <= 1
  <2>1. SUFFICES ASSUME NEW r \in Requests PROVE StreamInv(r)' /\ late'[r] <= 1
    OBVIOUS
  <2>2. StreamInv(r) /\ late[r] <= 1
    BY DEF BatchInv
  <2>3. QED BY <1>1, <2>2 DEF StreamInv
<1>9. DOMAIN todo' = Requests /\ ToSet(todo') = Requests /\ Distinct(todo)'
  BY <1>1 DEF ToSet, Distinct
<1>10. StartInv' /\ PhaseInv'
  BY <1>1 DEF StartInv, PhaseInv, Before
<1>11. PlacesInv'
  BY <1>1, <1>2, <1>4, <1>9 DEF PlacesInv
<1>12. LiveInv'
  <2>1. \A r \in Requests : Open(r)' \/ (Fresh(r)' /\ Budget[r] = 0)
    <3>1. SUFFICES ASSUME NEW r \in Requests PROVE Open(r)' \/ (Fresh(r)' /\ Budget[r] = 0)
      OBVIOUS
    <3>2. Fresh(r) /\ (Open(r) \/ Budget[r] = 0)
      BY <1>2, <1>5
    <3>3. (Open(r) => Open(r)') /\ Fresh(r)'
      BY <1>1, <3>2 DEF Open, Fresh
    <3>4. QED BY <3>2, <3>3
  <2>2. ToSet(active') = {} /\ ToSet(todo') = Requests /\ pc' = "first"
    BY <1>1, <1>2, <1>4, <1>9
  <2>3. QED BY <2>1, <2>2 DEF LiveInv
<1>13. EndedInv'
  BY <1>9 DEF EndedInv
<1>14. LateInv'
  BY <1>1, <1>2 DEF LateInv, Fresh
<1>15. RowsInv'
  <2>1. Recorded' = 0 /\ Len(todo') <= Len(rows')
    BY <1>3, <1>6 DEF Recorded
  <2>2. ASSUME NEW k \in 1 .. Len(todo'), Open(todo[k])'
        PROVE  (/\ rows[Recorded + k] = RowOf(todo[k], Prompt[todo[k]] \o generated[todo[k]])
                /\ logits[Recorded + k] = NextOf(todo[k]))'
    <3>1. k \in Requests /\ todo'[k] = k /\ Recorded' + k = k
      BY <1>1, <1>3, <1>6, <2>1
    <3>2. Open(k)
      BY <1>1, <2>2, <3>1 DEF Open
    <3>3. NextOf(todo[k])' = NextOf(k)
      BY <1>1, <3>1 DEF NextOf
    <3>4. rows'[k] = RowOf(k, Prompt[k] \o generated[k]) /\ logits'[k] = NextOf(k)
      BY <1>5, <3>1, <3>2
    <3>5. QED BY <1>1, <3>1, <3>3, <3>4
  <2>3. Len(keep') = 0 /\ Len(active') = 0
    BY <1>1, <1>2, <1>4
  <2>4. RecordingRows'
    BY <2>1, <2>2, <2>3 DEF RecordingRows
  <2>5. Len(rows') <= NumRequests
    BY <1>3, <1>6
  <2>6. QED BY <1>1, <2>4, <2>5 DEF RowsInv
<1>16. QED
  BY <1>7, <1>8, <1>10, <1>11, <1>12, <1>13, <1>14, <1>15 DEF BatchInv, Running

-----------------------------------------------------------------------------
(* A decode step begins *)

LEMMA InvStep ==
  ASSUME BatchInv, Step
  PROVE  BatchInv'
<1>1. /\ pc = "decode" /\ pc' = "record" /\ active # <<>> /\ ~cancel
      /\ rows' = [i \in DOMAIN rows |->
           Append(rows[i], [tok |-> nextToken[active[i]], pos |-> FeedPosition(active[i])])]
      /\ logits' = [i \in DOMAIN rows |-> RowLogits(active[i], rows'[i])]
      /\ todo' = active /\ active' = <<>>
      /\ UNCHANGED <<stream, cancel, nextToken, generated, finish, out, done, late, keep>>
  BY DEF Step, MoveTo
<1>2. Running /\ BatchType /\ RecordType
  BY <1>1, TypeIsRecordType DEF BatchInv
<1>3. /\ todo = <<>> /\ keep = <<>> /\ Len(rows) = Len(active) /\ Len(rows) <= NumRequests
      /\ \A i \in 1 .. Len(active) : Fed(active[i], rows[i])
  BY <1>1, <1>2 DEF Running, PhaseInv, RowsInv
<1>4. /\ active \in Seq(Requests) /\ Len(active) \in Nat
      /\ rows \in Seq(Seq(Cells)) /\ DOMAIN rows = 1 .. Len(active)
      /\ ToSet(<<>>) = {} /\ Distinct(<<>>) /\ Len(<<>>) = 0
  <2>1. active \in Seq(Requests) /\ Len(active) \in Nat /\ rows \in Seq(Seq(Cells))
    BY <1>2, ListFacts
  <2>2. DOMAIN rows = 1 .. Len(rows)
    BY <2>1, LenProperties
  <2>3. QED BY <1>3, <2>1, <2>2, EmptyPlaces, EmptySeq
<1>5. ASSUME NEW i \in 1 .. Len(active)
      PROVE  /\ active[i] \in Requests /\ Open(active[i])
             /\ rows'[i] = RowOf(active[i], Prompt[active[i]] \o generated[active[i]])
             /\ rows'[i] \in Seq(Cells)
             /\ logits'[i] = NextOf(active[i]) /\ logits'[i] \in Tokens
  <2> DEFINE r == active[i]
  <2>1. r \in Requests /\ r \in ToSet(active)
    BY <1>4, ElementOfSeq, LenProperties DEF ToSet
  <2>2. /\ rows'[i] = Append(rows[i], [tok |-> nextToken[r], pos |-> FeedPosition(r)])
        /\ logits'[i] = RowLogits(r, rows'[i])
        /\ Fed(r, rows[i])
    BY <1>1, <1>3, <1>4
  <2> HIDE DEF r
  <2>3. Open(r) /\ StreamInv(r) /\ Len(generated[r]) < Budget[r]
    BY <1>2, <2>1 DEF BatchInv, Running, LiveInv, Open
  <2>4. PICK said \in Seq(Tokens) :
          /\ rows[i] = RowOf(r, said)
          /\ nextToken[r] \in Tokens
          /\ Append(said, nextToken[r]) = Prompt[r] \o generated[r]
    BY <2>2 DEF Fed
  <2>5. /\ Prompt[r] \in Seq(Tokens) /\ generated[r] \in Seq(Tokens)
        /\ Len(Prompt[r]) \in Nat /\ Len(generated[r]) \in Nat /\ Len(said) \in Nat
    BY <1>2, <2>1, RequestFacts, LenProperties
  <2>6. /\ Len(Prompt[r] \o generated[r]) = Len(Prompt[r]) + Len(generated[r])
        /\ Prompt[r] \o generated[r] \in Seq(Tokens)
    BY <2>5, ConcatProperties
  <2>12. Len(Append(said, nextToken[r])) = Len(said) + 1
    BY <2>4, AppendProperties
  <2>13. Len(said) + 1 = Len(Prompt[r]) + Len(generated[r])
    BY <2>4, <2>6, <2>12
  <2>14. FeedPosition(r) = Len(Prompt[r]) + Len(generated[r]) - 1
    BY DEF FeedPosition
  <2>7. FeedPosition(r) = Len(said)
    <3>1. Len(Prompt[r]) \in Nat /\ Len(generated[r]) \in Nat /\ Len(said) \in Nat
      BY <2>5
    <3> DEFINE m == Len(Prompt[r])
               n == Len(generated[r])
               k == Len(said)
    <3>2. m \in Nat /\ n \in Nat /\ k \in Nat /\ k + 1 = m + n
      BY <2>13, <3>1
    <3>3. FeedPosition(r) = m + n - 1
      BY <2>14
    <3> HIDE DEF m, n, k
    <3>4. m + n - 1 = k
      BY <3>2
    <3>5. FeedPosition(r) = k
      BY <3>3, <3>4
    <3>6. QED BY <3>5 DEF k
  <2>8. rows'[i] = RowOf(r, Prompt[r] \o generated[r])
    BY <2>1, <2>2, <2>4, <2>7, FedRow
  <2>9. rows'[i] \in Seq(Cells) /\ logits'[i] = Sampled(r, Prompt[r] \o generated[r])
    BY <2>1, <2>2, <2>6, <2>8, RowOfType, ReadRow
  <2>10. logits'[i] = NextOf(r) /\ NextOf(r) \in Tokens
    BY <1>2, <2>1, <2>3, <2>9, SampledNext, NextOfType
  <2>11. QED BY <2>1, <2>3, <2>8, <2>9, <2>10 DEF r
<1>6. /\ rows' \in Seq(Seq(Cells)) /\ Len(rows') = Len(active)
      /\ logits' \in Seq(Tokens \cup {Junk})
  <2>1. rows' \in [1 .. Len(active) -> Seq(Cells)]
    <3>1. \A i \in 1 .. Len(active) : rows'[i] \in Seq(Cells)
      BY <1>5
    <3>2. QED BY <1>1, <1>4, <3>1
  <2>2. logits' \in [1 .. Len(active) -> Tokens \cup {Junk}]
    <3>1. \A i \in 1 .. Len(active) : logits'[i] \in Tokens \cup {Junk}
      BY <1>5
    <3>2. QED BY <1>1, <1>4, <3>1
  <2>3. QED BY <1>4, <2>1, <2>2, FunctionIsSeq
<1>7. BatchType'
  <2>1. rows' \in Seq(Seq(Cell \cup {Pad}))
    BY <1>6 DEF Cells
  <2>2. active' \in Seq(Requests)
    BY <1>1
  <2>3. QED BY <1>1, <1>2, <1>4, <1>6, <2>1, <2>2 DEF BatchType, TypeOK, RecordingTypeOK
<1>8. \A r \in Requests : StreamInv(r)' /\ late'[r] <= 1
  <2>1. SUFFICES ASSUME NEW r \in Requests PROVE StreamInv(r)' /\ late'[r] <= 1
    OBVIOUS
  <2>2. StreamInv(r) /\ late[r] <= 1
    BY DEF BatchInv
  <2>3. QED BY <1>1, <2>2 DEF StreamInv
<1>9. StartInv' /\ PhaseInv'
  BY <1>1 DEF StartInv, PhaseInv, Before
<1>10. PlacesInv'
  BY <1>1, <1>2, <1>4 DEF Running, PlacesInv
<1>11. LiveInv'
  <2>1. \A r \in ToSet(active) : Open(r)
    BY <1>2 DEF Running, LiveInv
  <2>2. \A r \in ToSet(active) : Open(r)'
    BY <1>1, <2>1 DEF Open
  <2>3. ToSet(active') = {} /\ ToSet(todo') = ToSet(active)
    BY <1>1, <1>4
  <2>4. QED BY <2>2, <2>3 DEF LiveInv
<1>12. EndedInv'
  BY <1>1, <1>2, <1>3, <1>4 DEF Running, EndedInv, Before, Agreed, OutputReason
<1>13. LateInv'
  BY <1>1, <1>2 DEF Running, LateInv
<1>14. RowsInv'
  <2>1. Recorded' = 0 /\ Len(todo') <= Len(rows')
    BY <1>1, <1>4, <1>6 DEF Recorded
  <2>2. ASSUME NEW k \in 1 .. Len(todo'), Open(todo[k])'
        PROVE  (/\ rows[Recorded + k] = RowOf(todo[k], Prompt[todo[k]] \o generated[todo[k]])
                /\ logits[Recorded + k] = NextOf(todo[k]))'
    <3>1. k \in 1 .. Len(active) /\ todo'[k] = active[k] /\ Recorded' + k = k
      BY <1>1, <2>1
    <3>2. NextOf(todo[k])' = NextOf(active[k])
      BY <1>1, <3>1 DEF NextOf
    <3>3. rows'[k] = RowOf(active[k], Prompt[active[k]] \o generated[active[k]])
          /\ logits'[k] = NextOf(active[k])
      BY <1>5, <3>1
    <3>4. QED BY <1>1, <3>1, <3>2, <3>3
  <2>3. Len(keep') = 0 /\ Len(active') = 0
    BY <1>1, <1>3, <1>4
  <2>4. RecordingRows'
    BY <2>1, <2>2, <2>3 DEF RecordingRows
  <2>5. QED BY <1>1, <1>3, <1>6, <2>4 DEF RowsInv
<1>15. QED
  BY <1>7, <1>8, <1>9, <1>10, <1>11, <1>12, <1>13, <1>14 DEF BatchInv, Running

-----------------------------------------------------------------------------
(* Recording the next lane *)

(* The rows of the lanes still to come stay in order when the first of them  *)
(* is taken from the list.                                                   *)
LEMMA RowsToCome ==
  ASSUME BatchType, RecordingRows, Distinct(todo), todo # <<>>, todo' = Tail(todo),
         UNCHANGED <<stream, rows, logits>>,
         \A q \in Requests \ {Head(todo)} :
           generated'[q] = generated[q] /\ finish'[q] = finish[q] /\ done'[q] = done[q]
  PROVE  /\ Recorded' = Recorded + 1 /\ Len(todo') <= Len(rows') /\ Recorded \in Nat
         /\ \A k \in 1 .. Len(todo') :
              (Open(todo[k]) =>
                 /\ rows[Recorded + k] = RowOf(todo[k], Prompt[todo[k]] \o generated[todo[k]])
                 /\ logits[Recorded + k] = NextOf(todo[k]))'
<1>1. /\ todo \in Seq(Requests) /\ Len(todo) \in Nat /\ Len(rows) \in Nat
      /\ Len(todo) <= Len(rows)
  BY ListFacts DEF RecordingRows
<1>2. /\ Tail(todo) \in Seq(Requests) /\ Len(Tail(todo)) = Len(todo) - 1
      /\ ToSet(Tail(todo)) = ToSet(todo) \ {Head(todo)}
  BY <1>1, TailPlaces
<1>3. \A k \in 1 .. Len(todo) - 1 : Tail(todo)[k] = todo[k + 1]
  BY <1>1, <1>2, HeadTailProperties
<1>4. Recorded' = Recorded + 1 /\ Len(todo') <= Len(rows') /\ Recorded \in Nat
  BY <1>1, <1>2 DEF Recorded
<1>5. ASSUME NEW k \in 1 .. Len(todo'), Open(todo[k])'
      PROVE  (/\ rows[Recorded + k] = RowOf(todo[k], Prompt[todo[k]] \o generated[todo[k]])
              /\ logits[Recorded + k] = NextOf(todo[k]))'
  <2>1. k \in 1 .. Len(todo) - 1 /\ k + 1 \in 1 .. Len(todo) /\ Recorded' + k = Recorded + (k + 1)
    BY <1>1, <1>2, <1>4
  <2>2. PICK q \in Requests : q = todo[k + 1]
    BY <1>1, <2>1, ElementOfSeq
  <2>3. todo'[k] = q /\ q \in ToSet(Tail(todo))
    <3>1. Tail(todo)[k] = q
      BY <1>3, <2>1, <2>2
    <3>2. k \in DOMAIN Tail(todo)
      BY <1>2, <2>1, LenProperties
    <3>3. QED BY <3>1, <3>2 DEF ToSet
  <2>4. q # Head(todo)
    BY <1>2, <2>3
  <2>5. /\ generated'[q] = generated[q] /\ finish'[q] = finish[q] /\ done'[q] = done[q]
    BY <2>4
  <2>6. Open(q) /\ NextOf(todo[k])' = NextOf(q)
    BY <1>5, <2>3, <2>5 DEF Open, NextOf
  <2>7. rows[Recorded + (k + 1)] = RowOf(q, Prompt[q] \o generated[q])
        /\ logits[Recorded + (k + 1)] = NextOf(q)
    BY <2>1, <2>2, <2>6 DEF RecordingRows
  <2>8. QED BY <2>1, <2>3, <2>5, <2>6, <2>7
<1>6. QED BY <1>4, <1>5

(* A Done event for a lane that gets no token any more *)
LEMMA InvSignal ==
  ASSUME BatchInv, pc # "failed", pc \notin Before,
         NEW r \in Requests, NEW why \in Reasons, NEW count \in Nat,
         EmitDone(r, why, count), done[r] = <<>>,
         [reason |-> why, generated |-> count] = Agreed(r),
         UNCHANGED <<stream, cancel, pc, nextToken, generated, finish, out, late, rows, logits, keep>>,
         active' \in Seq(Requests), Distinct(active'), ToSet(active') = ToSet(active) \ {r},
         todo' \in Seq(Requests), Distinct(todo'), ToSet(todo') = ToSet(todo) \ {r},
         PhaseInv', RowsInv'
  PROVE  BatchInv'
<1>1. RecordType /\ BatchType /\ Running
  BY TypeIsRecordType DEF BatchInv
<1>2. /\ done' \in [Requests -> Seq(DoneEvents)]
      /\ done'[r] = <<[reason |-> why, generated |-> count]>>
      /\ \A q \in Requests \ {r} : done'[q] = done[q]
  BY <1>1, EmitDoneFacts
<1>3. BatchType'
  BY <1>1, <1>2 DEF BatchType, TypeOK, RecordingTypeOK, DoneEvents, Reasons
<1>4. \A q \in Requests : StreamInv(q)' /\ late'[q] <= 1
  <2>1. SUFFICES ASSUME NEW q \in Requests PROVE StreamInv(q)' /\ late'[q] <= 1
    OBVIOUS
  <2>2. StreamInv(q) /\ late[q] <= 1
    BY DEF BatchInv
  <2>3. QED BY <2>2 DEF StreamInv
<1>5. StartInv'
  BY DEF StartInv
<1>6. PlacesInv'
  BY <1>1 DEF Running, PlacesInv
<1>7. ToSet(active) \subseteq Requests /\ ToSet(todo) \subseteq Requests
  <2>1. active \in Seq(Requests) /\ todo \in Seq(Requests)
    BY <1>1, ListFacts
  <2>2. QED BY <2>1, LenProperties, ElementOfSeq DEF ToSet
<1>8. LiveInv'
  <2>1. \A q \in ToSet(active') : Open(q)'
    <3>1. SUFFICES ASSUME NEW q \in ToSet(active') PROVE Open(q)'
      OBVIOUS
    <3>2. q \in Requests \ {r} /\ Open(q)
      BY <1>1, <1>7 DEF Running, LiveInv
    <3>3. QED BY <1>2, <3>2 DEF Open
  <2>2. \A q \in ToSet(todo') : (Open(q) \/ (pc = "first" /\ Fresh(q) /\ Budget[q] = 0))'
    <3>1. SUFFICES ASSUME NEW q \in ToSet(todo')
                   PROVE  (Open(q) \/ (pc = "first" /\ Fresh(q) /\ Budget[q] = 0))'
      OBVIOUS
    <3>2. q \in Requests \ {r} /\ (Open(q) \/ (pc = "first" /\ Fresh(q) /\ Budget[q] = 0))
      BY <1>1, <1>7 DEF Running, LiveInv
    <3>3. (Open(q) => Open(q)') /\ (Fresh(q) => Fresh(q)')
      BY <1>2, <3>2 DEF Open, Fresh
    <3>4. QED BY <3>2, <3>3
  <2>3. QED BY <2>1, <2>2 DEF LiveInv
<1>9. EndedInv'
  <2>1. SUFFICES ASSUME NEW q \in Requests, q \notin ToSet(active') \cup ToSet(todo')
                 PROVE  done'[q] = <<Agreed(q)'>>
    BY DEF EndedInv
  <2>2. Agreed(q)' = Agreed(q)
    BY DEF Agreed, OutputReason
  <2>3. CASE q = r
    BY <1>2, <2>2, <2>3
  <2>4. CASE q # r
    BY <1>1, <1>2, <2>1, <2>2, <2>4 DEF Running, EndedInv
  <2>5. QED BY <2>3, <2>4
<1>10. LateInv'
  BY <1>1 DEF Running, LateInv
<1>11. QED
  BY <1>3, <1>4, <1>5, <1>6, <1>8, <1>9, <1>10 DEF BatchInv, Running

(* What the head of the list of lanes to record is *)
LEMMA NextLane ==
  ASSUME BatchInv, pc \in {"first", "record"}, todo # <<>>, todo' = Tail(todo)
  PROVE  /\ Running /\ BatchType /\ RecordType /\ RecordingRows
         /\ Head(todo) \in Requests /\ Head(todo) \in ToSet(todo)
         /\ todo' \in Seq(Requests) /\ Distinct(todo') /\ Distinct(todo)
         /\ ToSet(todo') = ToSet(todo) \ {Head(todo)}
         /\ Row = Recorded + 1 /\ Recorded \in Nat /\ Recorded + 1 <= Len(rows)
         /\ Open(Head(todo)) =>
              /\ rows[Row] = RowOf(Head(todo), Prompt[Head(todo)] \o generated[Head(todo)])
              /\ logits[Row] = NextOf(Head(todo))
         /\ ~Open(Head(todo)) => pc = "first" /\ Fresh(Head(todo)) /\ Budget[Head(todo)] = 0
<1>1. Running /\ BatchType /\ RecordType /\ RecordingRows /\ Distinct(todo) /\ LiveInv
  BY TypeIsRecordType DEF BatchInv, Running, RowsInv, PlacesInv
<1>2. todo \in Seq(Requests) /\ Len(todo) \in Nat /\ Len(rows) \in Nat /\ Len(todo) <= Len(rows)
  BY <1>1, ListFacts DEF RecordingRows
<1>3. /\ Head(todo) \in Requests /\ Head(todo) \in ToSet(todo)
      /\ todo' \in Seq(Requests) /\ Distinct(todo')
      /\ ToSet(todo') = ToSet(todo) \ {Head(todo)}
  BY <1>1, <1>2, TailPlaces
<1>4. Len(todo) # 0 /\ Head(todo) = todo[1]
  BY <1>2, EmptySeq
<1>5. 1 \in 1 .. Len(todo) /\ Row = Recorded + 1 /\ Recorded \in Nat /\ Recorded + 1 <= Len(rows)
  BY <1>2, <1>4 DEF Row, Recorded
<1>6. Open(todo[1]) =>
        /\ rows[Recorded + 1] = RowOf(todo[1], Prompt[todo[1]] \o generated[todo[1]])
        /\ logits[Recorded + 1] = NextOf(todo[1])
  BY <1>1, <1>5 DEF RecordingRows
<1>7. Open(Head(todo)) \/ (pc = "first" /\ Fresh(Head(todo)) /\ Budget[Head(todo)] = 0)
  BY <1>1, <1>3 DEF LiveInv
<1>8. QED BY <1>1, <1>3, <1>4, <1>5, <1>6, <1>7

(* A request of budget zero is signalled and not kept. *)
LEMMA InvExhausted ==
  ASSUME BatchInv, pc = "first", todo # <<>>, finish[Head(todo)] # "None",
         EmitDone(Head(todo), "MaxTokens", 0), todo' = Tail(todo),
         UNCHANGED <<stream, cancel, pc, nextToken, generated, finish, out, late, rows, logits,
                     active, keep>>
  PROVE  BatchInv'
<1> DEFINE r == Head(todo)
<1>1. /\ Running /\ BatchType /\ RecordingRows /\ r \in Requests /\ r \in ToSet(todo)
      /\ todo' \in Seq(Requests) /\ Distinct(todo') /\ ToSet(todo') = ToSet(todo) \ {r}
      /\ Distinct(todo) /\ Recorded \in Nat
      /\ ~Open(r) => Fresh(r) /\ Budget[r] = 0
  BY NextLane
<1>2. Fresh(r) /\ Budget[r] = 0 /\ finish[r] # "None"
  BY <1>1 DEF Open
<1>3. RowsInv'
  <2>1. done' = [done EXCEPT ![r] = Append(@, [reason |-> "MaxTokens", generated |-> 0])]
        /\ done \in [Requests -> Seq(DoneEvents)]
    BY <1>1 DEF EmitDone, BatchType, TypeOK, RecordingTypeOK, DoneEvents, Reasons
  <2>2. \A q \in Requests \ {r} :
          generated'[q] = generated[q] /\ finish'[q] = finish[q] /\ done'[q] = done[q]
    BY <2>1
  <2>3. /\ Recorded' = Recorded + 1 /\ Len(todo') <= Len(rows') /\ Recorded \in Nat
        /\ \A k \in 1 .. Len(todo') :
             (Open(todo[k]) =>
                /\ rows[Recorded + k] = RowOf(todo[k], Prompt[todo[k]] \o generated[todo[k]])
                /\ logits[Recorded + k] = NextOf(todo[k]))'
    BY <1>1, <2>2, RowsToCome
  <2>4. /\ Len(keep) \in Nat /\ Len(keep) = Len(active) /\ Len(keep) <= Recorded
        /\ \A i \in 1 .. Len(keep) : keep[i] \in 1 .. Recorded /\ Fed(active[i], rows[keep[i]])
    BY <1>1, ListFacts DEF RecordingRows
  <2>5. Len(keep') = Len(active') /\ Len(keep') <= Recorded' /\ Len(keep') # Recorded'
    BY <1>1, <2>3, <2>4
  <2>6. \A i \in 1 .. Len(keep') : (keep[i] \in 1 .. Recorded /\ Fed(active[i], rows[keep[i]]))'
    <3>1. SUFFICES ASSUME NEW i \in 1 .. Len(keep)
                   PROVE  keep[i] \in 1 .. Recorded' /\ Fed(active[i], rows[keep[i]])'
      OBVIOUS
    <3>2. keep[i] \in 1 .. Recorded /\ Fed(active[i], rows[keep[i]])
      BY <2>4
    <3>3. keep[i] \in 1 .. Recorded'
      BY <1>1, <2>3, <3>2
    <3>4. Fed(active[i], rows[keep[i]])'
      BY <3>2 DEF Fed
    <3>5. QED BY <3>3, <3>4
  <2>7. RecordingRows'
    BY <2>3, <2>5, <2>6 DEF RecordingRows
  <2>8. Len(rows') <= NumRequests
    BY <1>1 DEF Running, RowsInv
  <2>9. QED BY <2>7, <2>8 DEF RowsInv
<1>4. done[r] = <<>> /\ [reason |-> "MaxTokens", generated |-> 0] = Agreed(r)
  <2>1. generated[r] = <<>> /\ Len(<<>>) = 0 /\ finish[r] = "Length" /\ done[r] = <<>>
    BY <1>2, EmptySeq DEF Fresh
  <2>2. QED BY <2>1 DEF Agreed, OutputReason
<1>5. PhaseInv'
  BY DEF PhaseInv
<1>6. active \in Seq(Requests) /\ Distinct(active) /\ r \notin ToSet(active)
  BY <1>1, ListFacts DEF Running, PlacesInv
<1>7. "MaxTokens" \in Reasons /\ 0 \in Nat /\ pc \notin Before /\ pc # "failed"
  BY DEF Reasons, Before
<1> HIDE DEF r
<1>8. active' \in Seq(Requests) /\ Distinct(active') /\ ToSet(active') = ToSet(active) \ {r}
  BY <1>6
<1>9. EmitDone(r, "MaxTokens", 0)
  BY DEF r
<1>10. QED BY <1>1, <1>3, <1>4, <1>5, <1>7, <1>8, <1>9, InvSignal

LEMMA InvCancelRow ==
  ASSUME BatchInv, CancelRow
  PROVE  BatchInv'
<1> DEFINE r == Head(active)
<1>1. /\ pc = "cancelled" /\ active # <<>> /\ active' = Tail(active)
      /\ EmitDone(r, "Cancelled", Len(generated[r]))
      /\ UNCHANGED <<stream, cancel, pc, nextToken, generated, finish, out, late, rows, logits,
                     todo, keep>>
      /\ "Cancelled" \in Reasons
  BY DEF CancelRow, Reasons
<1>2. /\ Running /\ BatchType /\ RecordType /\ active \in Seq(Requests) /\ Distinct(active)
      /\ todo = <<>>
  BY <1>1, TypeIsRecordType, ListFacts DEF BatchInv, Running, PlacesInv, PhaseInv
<1>3. /\ r \in Requests /\ r \in ToSet(active) /\ active' \in Seq(Requests)
      /\ Distinct(active') /\ ToSet(active') = ToSet(active) \ {r}
  BY <1>1, <1>2, TailPlaces
<1> HIDE DEF r
<1>4. Open(r) /\ Len(generated[r]) \in Nat
  BY <1>2, <1>3, RequestFacts DEF Running, LiveInv
<1>5. done[r] = <<>> /\ [reason |-> "Cancelled", generated |-> Len(generated[r])] = Agreed(r)
  BY <1>4 DEF Open, Agreed, OutputReason
<1>6. /\ todo' \in Seq(Requests) /\ Distinct(todo') /\ ToSet(todo') = ToSet(todo) \ {r}
  BY <1>1, <1>2, EmptyPlaces
<1>7. PhaseInv' /\ RowsInv'
  BY <1>1, <1>2 DEF Running, PhaseInv, RowsInv
<1>8. pc # "failed" /\ pc \notin Before
  BY <1>1 DEF Before
<1>9. QED BY <1>1, <1>3, <1>4, <1>5, <1>6, <1>7, <1>8, InvSignal

-----------------------------------------------------------------------------
(* The lane looked at gets its token *)

(* What the recording of a token of r leaves, whether r is kept or not *)
LEMMA InvRecorded ==
  ASSUME BatchInv, pc \in {"first", "record"}, todo # <<>>, todo' = Tail(todo),
         NEW r, r = Head(todo),
         UNCHANGED <<stream, cancel, pc, rows, logits>>,
         RecordType', StreamInv(r)', OthersKept(r),
         late'[r] <= late[r] + 1, ~cancel => late' = late,
         active' \in Seq(Requests), Distinct(active'), keep' \in Seq(1 .. NumRequests),
         ToSet(active) \subseteq ToSet(active'), ToSet(active') \subseteq ToSet(active) \cup {r},
         r \in ToSet(active') => Open(r)',
         r \notin ToSet(active') => done'[r] = <<Agreed(r)'>>,
         Len(keep') = Len(active'), Len(keep') <= Recorded',
         (\A i \in 1 .. Len(keep) : keep[i] \in 1 .. Recorded /\ Fed(active[i], rows[keep[i]]))',
         Len(keep') = Recorded' => \A i \in 1 .. Len(keep') : keep'[i] = i
  PROVE  BatchInv'
<1>1. /\ Running /\ BatchType /\ RecordingRows /\ r \in Requests /\ r \in ToSet(todo)
      /\ todo' \in Seq(Requests) /\ Distinct(todo') /\ ToSet(todo') = ToSet(todo) \ {r}
      /\ Distinct(todo)
  BY NextLane
<1>2. ToSet(active) \subseteq Requests /\ ToSet(todo) \subseteq Requests
  <2>1. active \in Seq(Requests) /\ todo \in Seq(Requests)
    BY <1>1, ListFacts
  <2>2. QED BY <2>1, LenProperties, ElementOfSeq DEF ToSet
<1>3. BatchType'
  BY <1>1 DEF BatchType, TypeOK, RecordType
<1>4. ASSUME NEW q \in Requests, q # r
      PROVE  /\ StreamInv(q)' /\ late'[q] = late[q] /\ done'[q] = done[q]
             /\ Agreed(q)' = Agreed(q)
             /\ Open(q) => Open(q)'
             /\ Fresh(q) => Fresh(q)'
  <2>1. /\ generated'[q] = generated[q] /\ finish'[q] = finish[q] /\ out'[q] = out[q]
        /\ done'[q] = done[q] /\ late'[q] = late[q]
    BY <1>4 DEF OthersKept
  <2>2. StreamInv(q)
    BY DEF BatchInv
  <2>3. StreamInv(q)'
    BY <2>1, <2>2 DEF StreamInv
  <2>4. Agreed(q)' = Agreed(q)
    BY <2>1 DEF Agreed, OutputReason
  <2>5. QED BY <2>1, <2>3, <2>4 DEF Open, Fresh
<1>5. late[r] = 0 /\ late'[r] <= 1
  BY <1>1 DEF Running, LateInv
<1>6. \A q \in Requests : StreamInv(q)' /\ late'[q] <= 1
  <2>1. SUFFICES ASSUME NEW q \in Requests PROVE StreamInv(q)' /\ late'[q] <= 1
    OBVIOUS
  <2>2. late[q] <= 1
    BY DEF BatchInv
  <2>3. QED BY <1>4, <1>5, <2>2
<1>7. StartInv' /\ PhaseInv'
  BY DEF StartInv, PhaseInv, Before
<1>8. PlacesInv'
  BY <1>1 DEF Running, PlacesInv
<1>9. LiveInv'
  <2>1. \A q \in ToSet(active') : Open(q)'
    <3>1. SUFFICES ASSUME NEW q \in ToSet(active'), q # r PROVE Open(q)'
      OBVIOUS
    <3>2. q \in Requests /\ Open(q)
      BY <1>1, <1>2, <3>1 DEF Running, LiveInv
    <3>3. QED BY <1>4, <3>1, <3>2
  <2>2. \A q \in ToSet(todo') : (Open(q) \/ (pc = "first" /\ Fresh(q) /\ Budget[q] = 0))'
    <3>1. SUFFICES ASSUME NEW q \in ToSet(todo')
                   PROVE  (Open(q) \/ (pc = "first" /\ Fresh(q) /\ Budget[q] = 0))'
      OBVIOUS
    <3>2. q \in Requests /\ q # r /\ (Open(q) \/ (pc = "first" /\ Fresh(q) /\ Budget[q] = 0))
      BY <1>1, <1>2 DEF Running, LiveInv
    <3>3. QED BY <1>4, <3>2
  <2>3. QED BY <2>1, <2>2 DEF LiveInv
<1>10. EndedInv'
  <2>1. SUFFICES ASSUME NEW q \in Requests, q \notin ToSet(active') \cup ToSet(todo')
                 PROVE  done'[q] = <<Agreed(q)'>>
    BY DEF EndedInv
  <2>2. CASE q = r
    BY <2>1, <2>2
  <2>3. CASE q # r
    <3>1. q \notin ToSet(active) \cup ToSet(todo)
      BY <1>1, <2>1, <2>3
    <3>2. done[q] = <<Agreed(q)>>
      BY <1>1, <3>1 DEF Running, EndedInv, Before
    <3>3. QED BY <1>4, <2>3, <3>2
  <2>4. QED BY <2>2, <2>3
<1>11. LateInv'
  <2>1. SUFFICES ASSUME NEW q \in Requests, ~cancel \/ q \in ToSet(todo')
                 PROVE  late'[q] = 0
    BY DEF LateInv
  <2>2. late[q] = 0
    BY <1>1, <2>1 DEF Running, LateInv
  <2>3. QED BY <1>1, <1>4, <2>1, <2>2
<1>12. RowsInv'
  <2>1. \A q \in Requests \ {Head(todo)} :
          generated'[q] = generated[q] /\ finish'[q] = finish[q] /\ done'[q] = done[q]
    BY DEF OthersKept
  <2>2. /\ Len(todo') <= Len(rows')
        /\ \A k \in 1 .. Len(todo') :
             (Open(todo[k]) =>
                /\ rows[Recorded + k] = RowOf(todo[k], Prompt[todo[k]] \o generated[todo[k]])
                /\ logits[Recorded + k] = NextOf(todo[k]))'
    BY <1>1, <2>1, RowsToCome
  <2>3. RecordingRows'
    BY <2>2 DEF RecordingRows
  <2>4. Len(rows') <= NumRequests
    BY <1>1 DEF Running, RowsInv
  <2>5. QED BY <2>3, <2>4 DEF RowsInv
<1>13. QED
  BY <1>3, <1>6, <1>7, <1>8, <1>9, <1>10, <1>11, <1>12 DEF BatchInv, Running

LEMMA InvApply ==
  ASSUME BatchInv, pc \in {"first", "record"}, todo # <<>>, Open(Head(todo)),
         ApplyToken(Head(todo), logits[Row]), todo' = Tail(todo),
         UNCHANGED <<stream, cancel, pc, rows, logits>>
  PROVE  BatchInv'
<1>0. PICK r : r = Head(todo)
  OBVIOUS
<1>1. /\ Running /\ BatchType /\ RecordType /\ RecordingRows /\ r \in Requests /\ r \in ToSet(todo)
      /\ Row = Recorded + 1 /\ Recorded \in Nat /\ Recorded + 1 <= Len(rows)
      /\ rows[Row] = RowOf(r, Prompt[r] \o generated[r]) /\ logits[Row] = NextOf(r)
      /\ Open(r)
  BY <1>0, NextLane
<1>2. StreamInv(r) /\ Open(r) /\ late[r] \in Nat
  BY <1>1 DEF BatchInv, RecordType, RecordingTypeOK
<1>3. /\ active \in Seq(Requests) /\ Len(active) \in Nat
      /\ keep \in Seq(1 .. NumRequests) /\ Len(keep) \in Nat
      /\ Distinct(active) /\ r \notin ToSet(active)
  BY <1>1, ListFacts DEF Running, PlacesInv
<1>4. /\ Len(keep) = Len(active) /\ Len(keep) <= Recorded
      /\ \A i \in 1 .. Len(keep) : keep[i] \in 1 .. Recorded /\ Fed(active[i], rows[keep[i]])
      /\ Len(keep) = Recorded => \A i \in 1 .. Len(keep) : keep[i] = i
  BY <1>1 DEF RecordingRows
<1>5. Recorded' = Recorded + 1
  <2>1. todo \in Seq(Requests) /\ Len(todo) \in Nat /\ Len(rows) \in Nat /\ Distinct(todo)
    BY <1>1, ListFacts DEF Running, PlacesInv
  <2>2. Len(Tail(todo)) = Len(todo) - 1
    BY <2>1, TailPlaces
  <2>3. QED BY <2>1, <2>2 DEF Recorded
<1>6. ASSUME OthersKept(r), NEW i \in 1 .. Len(keep),
             active'[i] = active[i], keep'[i] = keep[i]
      PROVE  (keep[i] \in 1 .. Recorded /\ Fed(active[i], rows[keep[i]]))'
  <2>1. PICK q \in Requests : q = active[i]
    BY <1>3, <1>4, ElementOfSeq
  <2>2. PICK row : row = rows[keep[i]]
    OBVIOUS
  <2>3. i \in DOMAIN active
    BY <1>3, <1>4, LenProperties
  <2>4. q # r
    BY <1>3, <2>1, <2>3 DEF ToSet
  <2>5. generated'[q] = generated[q] /\ nextToken'[q] = nextToken[q]
    BY <1>6, <2>4 DEF OthersKept
  <2>6. Fed(q, row) /\ keep[i] \in 1 .. Recorded
    BY <1>4, <2>1, <2>2
  <2>7. Fed(q, row)'
    BY <2>5, <2>6 DEF Fed
  <2>8. active'[i] = q /\ rows'[keep'[i]] = row
    BY <1>6, <2>1, <2>2
  <2>9. keep'[i] \in 1 .. Recorded'
    BY <1>1, <1>5, <1>6, <2>6
  <2>10. QED BY <2>7, <2>8, <2>9
<1>7. ApplyToken(r, NextOf(r)) /\ r = Head(todo)
  BY <1>0, <1>1
<1>8. CASE Retire(r, NextOf(r)) /\ UNCHANGED <<active, keep>>
  <2>1. /\ RecordType' /\ StreamInv(r)' /\ OthersKept(r)
        /\ late'[r] <= late[r] + 1 /\ (~cancel => late' = late)
        /\ done'[r] = <<Agreed(r)'>>
    <3>1. CASE StopHit(r, NextOf(r))
      <4>1. /\ RecordType' /\ StreamInv(r)' /\ OthersKept(r) /\ late' = late
            /\ done'[r] = <<Agreed(r)'>>
        BY <1>1, <1>2, <3>1, StopHitFacts
      <4>2. late'[r] <= late[r] + 1
        BY <1>2, <4>1
      <4>3. QED BY <4>1, <4>2
    <3>2. CASE BudgetFilled(r, NextOf(r))
      BY <1>1, <1>2, <3>2, BudgetFilledFacts
    <3>3. QED BY <1>8, <3>1, <3>2 DEF Retire
  <2>2. /\ Len(keep') = Len(active') /\ Len(keep') <= Recorded' /\ Len(keep') # Recorded'
    BY <1>1, <1>3, <1>4, <1>5, <1>8
  <2>3. (\A i \in 1 .. Len(keep) : keep[i] \in 1 .. Recorded /\ Fed(active[i], rows[keep[i]]))'
    BY <1>6, <1>8, <2>1
  <2>4. /\ active' \in Seq(Requests) /\ Distinct(active') /\ keep' \in Seq(1 .. NumRequests)
        /\ r \notin ToSet(active') /\ ToSet(active) \subseteq ToSet(active')
        /\ ToSet(active') \subseteq ToSet(active) \cup {r}
    BY <1>3, <1>8
  <2>5. QED BY <1>7, <2>1, <2>2, <2>3, <2>4, InvRecorded
<1>9. CASE Continues(r, NextOf(r)) /\ active' = Append(active, r) /\ keep' = Append(keep, Row)
  <2>1. /\ RecordType' /\ StreamInv(r)' /\ OthersKept(r) /\ Open(r)'
        /\ late'[r] <= late[r] + 1 /\ (~cancel => late' = late)
        /\ generated'[r] = Append(generated[r], NextOf(r))
        /\ nextToken'[r] = NextOf(r)
    BY <1>1, <1>2, <1>9, ContinuesFacts
  <2>2. /\ active' \in Seq(Requests) /\ Len(active') = Len(active) + 1
        /\ Distinct(active') /\ ToSet(active') = ToSet(active) \cup {r}
    BY <1>1, <1>3, <1>9, AppendPlaces
  <2>3. /\ \A i \in 1 .. Len(active) : active'[i] = active[i]
        /\ active'[Len(active) + 1] = r
    BY <1>1, <1>3, <1>9, AppendProperties
  <2>4. Row \in 1 .. NumRequests
    <3>1. Len(rows) <= NumRequests /\ Len(rows) \in Nat /\ NumRequests \in Nat
      BY <1>1, ListFacts, NumRequestsAssumption DEF Running, RowsInv
    <3>2. QED BY <1>1, <3>1
  <2>5. /\ keep' \in Seq(1 .. NumRequests) /\ Len(keep') = Len(keep) + 1
        /\ \A i \in 1 .. Len(keep) : keep'[i] = keep[i]
        /\ keep'[Len(keep) + 1] = Row
    BY <1>3, <1>9, <2>4, AppendProperties
  <2>6. PICK row : row = rows[Row] /\ Fed(r, row)'
    <3>1. /\ Prompt[r] \in Seq(Tokens) /\ generated[r] \in Seq(Tokens) /\ NextOf(r) \in Tokens
      BY <1>1, <1>2, RequestFacts, NextOfType DEF Open
    <3>2. PICK said : said = Prompt[r] \o generated[r]
      OBVIOUS
    <3>3. said \in Seq(Tokens) /\ Append(said, NextOf(r)) = Prompt[r] \o Append(generated[r], NextOf(r))
      BY <3>1, <3>2, ConcatProperties, AppendOfConcat
    <3>4. PICK row : row = rows[Row]
      OBVIOUS
    <3>5. row = RowOf(r, said) /\ generated'[r] = Append(generated[r], NextOf(r))
          /\ nextToken'[r] = NextOf(r)
      BY <1>1, <2>1, <3>2, <3>4
    <3>6. Fed(r, row)'
      BY <3>1, <3>3, <3>5 DEF Fed
    <3>7. QED BY <3>4, <3>6
  <2>7. ASSUME NEW i \in 1 .. Len(keep')
        PROVE  (keep[i] \in 1 .. Recorded /\ Fed(active[i], rows[keep[i]]))'
    <3>1. CASE i \in 1 .. Len(keep)
      <4>1. active'[i] = active[i] /\ keep'[i] = keep[i]
        BY <1>4, <2>3, <2>5, <3>1
      <4>2. QED BY <1>6, <2>1, <3>1, <4>1
    <3>2. CASE i = Len(keep) + 1
      <4>1. active'[i] = r /\ keep'[i] = Row
        BY <1>4, <2>3, <2>5, <3>2
      <4>2. Row \in 1 .. Recorded'
        BY <1>1, <1>5
      <4>3. rows'[keep'[i]] = row /\ Fed(r, row)'
        BY <2>6, <4>1
      <4>4. QED BY <4>1, <4>2, <4>3
    <3>3. QED BY <1>3, <2>5, <3>1, <3>2
  <2>8. Len(keep') = Len(active') /\ Len(keep') <= Recorded'
    BY <1>1, <1>3, <1>4, <1>5, <2>2, <2>5
  <2>9. Len(keep') = Recorded' => \A i \in 1 .. Len(keep') : keep'[i] = i
    <3>1. SUFFICES ASSUME Len(keep') = Recorded', NEW i \in 1 .. Len(keep')
                   PROVE  keep'[i] = i
      OBVIOUS
    <3>2. Len(keep) = Recorded /\ Row = Len(keep) + 1
      BY <1>1, <1>3, <1>5, <2>5, <3>1
    <3>3. i \in 1 .. Len(keep) \/ i = Len(keep) + 1
      BY <1>3, <2>5
    <3>4. CASE i \in 1 .. Len(keep)
      BY <1>4, <2>5, <3>2, <3>4
    <3>5. CASE i = Len(keep) + 1
      BY <2>5, <3>2, <3>5
    <3>6. QED BY <3>3, <3>4, <3>5
  <2>10. /\ r \in ToSet(active') /\ ToSet(active) \subseteq ToSet(active')
         /\ ToSet(active') \subseteq ToSet(active) \cup {r}
    BY <2>2
  <2>11. QED BY <1>7, <2>1, <2>2, <2>5, <2>7, <2>8, <2>9, <2>10, InvRecorded
<1>10. QED BY <1>7, <1>8, <1>9 DEF ApplyToken

LEMMA InvRecord ==
  ASSUME BatchInv, RecordFirst \/ RecordRow
  PROVE  BatchInv'
<1>1. /\ pc \in {"first", "record"} /\ todo # <<>> /\ todo' = Tail(todo)
      /\ UNCHANGED <<stream, cancel, pc, rows, logits>>
  BY DEF RecordFirst, RecordRow
<1>2. ~Open(Head(todo)) =>
        pc = "first" /\ Fresh(Head(todo)) /\ Budget[Head(todo)] = 0
  BY <1>1, NextLane
<1>3. CASE pc = "first" /\ finish[Head(todo)] # "None"
  <2>1. /\ EmitDone(Head(todo), "MaxTokens", 0)
        /\ UNCHANGED <<nextToken, generated, finish, out, late, active, keep>>
    BY <1>3 DEF RecordFirst, RecordRow
  <2>2. QED BY <1>1, <1>3, <2>1, InvExhausted
<1>4. CASE ~(pc = "first" /\ finish[Head(todo)] # "None")
  <2>1. ApplyToken(Head(todo), logits[Row])
    BY <1>4 DEF RecordFirst, RecordRow
  <2>2. Open(Head(todo))
    BY <1>2, <1>4 DEF Fresh
  <2>3. QED BY <1>1, <2>1, <2>2, InvApply
<1>5. QED BY <1>3, <1>4

-----------------------------------------------------------------------------
(* All lanes of the step are recorded *)

(* The rows that are kept, in the order of their lanes *)
LEMMA KeptRows ==
  ASSUME BatchType, RecordingRows, todo = <<>>
  PROVE  /\ Compacted \in Seq(Seq(Cells)) /\ Len(Compacted) \in Nat /\ Len(Compacted) <= Len(rows)
         /\ active # <<>> =>
              /\ Len(Compacted) = Len(active)
              /\ \A i \in 1 .. Len(active) : Fed(active[i], Compacted[i])
<1>1. /\ keep \in Seq(1 .. NumRequests) /\ Len(keep) \in Nat /\ DOMAIN keep = 1 .. Len(keep)
      /\ rows \in Seq(Seq(Cells)) /\ Len(rows) \in Nat
      /\ active \in Seq(Requests) /\ Len(active) \in Nat
  BY ListFacts, LenProperties
<1>2. Recorded = Len(rows)
  <2>1. Len(todo) = 0
    BY EmptySeq
  <2>2. QED BY <1>1, <2>1 DEF Recorded
<1>3. /\ Len(keep) = Len(active) /\ Len(keep) <= Len(rows)
      /\ \A i \in 1 .. Len(keep) : keep[i] \in 1 .. Len(rows) /\ Fed(active[i], rows[keep[i]])
      /\ Len(keep) = Len(rows) => \A i \in 1 .. Len(keep) : keep[i] = i
  BY <1>2 DEF RecordingRows
<1>4. active # <<>> => keep # <<>>
  BY <1>1, <1>3, EmptySeq
<1>5. CASE keep # <<>> /\ Len(keep) < Len(rows)
  <2>1. Compacted = [i \in 1 .. Len(keep) |-> rows[keep[i]]]
    BY <1>1, <1>5 DEF Compacted
  <2>2. \A i \in 1 .. Len(keep) : rows[keep[i]] \in Seq(Cells)
    BY <1>1, <1>3, ElementOfSeq
  <2>3. Compacted \in [1 .. Len(keep) -> Seq(Cells)]
    BY <2>1, <2>2
  <2>4. Compacted \in Seq(Seq(Cells)) /\ Len(Compacted) = Len(keep)
    BY <1>1, <2>3, FunctionIsSeq
  <2>5. \A i \in 1 .. Len(active) : Fed(active[i], Compacted[i])
    BY <1>3, <2>1
  <2>6. QED BY <1>1, <1>3, <2>4, <2>5
<1>6. CASE ~(keep # <<>> /\ Len(keep) < Len(rows))
  <2>1. Compacted = rows
    BY <1>6 DEF Compacted
  <2>2. ASSUME active # <<>>
        PROVE  Len(rows) = Len(active) /\ \A i \in 1 .. Len(active) : Fed(active[i], rows[i])
    <3>1. Len(keep) = Len(rows)
      BY <1>1, <1>3, <1>4, <1>6, <2>2
    <3>2. QED BY <1>3, <3>1
  <2>3. QED BY <1>1, <2>1, <2>2
<1>7. QED BY <1>5, <1>6

LEMMA InvCompact ==
  ASSUME BatchInv, PrefillRecorded \/ StepRecorded
  PROVE  BatchInv'
<1>1. /\ pc \in {"first", "record"} /\ todo = <<>> /\ rows' = Compacted /\ keep' = <<>>
      /\ pc' = "decode" \/ (pc' = "returned" /\ active = <<>>)
      /\ UNCHANGED <<stream, cancel, nextToken, generated, finish, out, done, late>>
      /\ UNCHANGED <<logits, active, todo>>
  BY DEF PrefillRecorded, StepRecorded, MoveTo
<1>2. Running /\ BatchType /\ RecordingRows /\ Len(rows) <= NumRequests
  BY <1>1 DEF BatchInv, Running, RowsInv
<1>3. /\ rows' \in Seq(Seq(Cells)) /\ Len(rows') <= Len(rows) /\ Len(rows') \in Nat
      /\ active # <<>> =>
           /\ Len(rows') = Len(active)
           /\ \A i \in 1 .. Len(active) : Fed(active[i], rows'[i])
  BY <1>1, <1>2, KeptRows
<1>4. BatchType'
  <2>1. rows' \in Seq(Seq(Cell \cup {Pad})) /\ keep' \in Seq(1 .. NumRequests)
    BY <1>1, <1>3 DEF Cells
  <2>2. pc' \in Finals \cup {"start", "prefill", "first", "decode", "record", "cancelled"}
    BY <1>1 DEF Finals
  <2>3. QED BY <1>1, <1>2, <2>1, <2>2 DEF BatchType, TypeOK, RecordingTypeOK
<1>5. \A r \in Requests : StreamInv(r)' /\ late'[r] <= 1
  <2>1. SUFFICES ASSUME NEW r \in Requests PROVE StreamInv(r)' /\ late'[r] <= 1
    OBVIOUS
  <2>2. StreamInv(r) /\ late[r] <= 1
    BY DEF BatchInv
  <2>3. QED BY <1>1, <2>2 DEF StreamInv
<1>6. StartInv' /\ PhaseInv'
  BY <1>1 DEF StartInv, PhaseInv, Before
<1>7. PlacesInv'
  BY <1>1, <1>2 DEF Running, PlacesInv
<1>8. LiveInv'
  <2>1. \A r \in ToSet(active) : Open(r)
    BY <1>2 DEF Running, LiveInv
  <2>2. \A r \in ToSet(active) : Open(r)'
    BY <1>1, <2>1 DEF Open
  <2>3. ToSet(active') = ToSet(active) /\ ToSet(todo') = {}
    BY <1>1, EmptyPlaces
  <2>4. QED BY <2>2, <2>3 DEF LiveInv
<1>9. EndedInv'
  BY <1>1, <1>2 DEF Running, EndedInv, Before, Agreed, OutputReason
<1>10. LateInv'
  BY <1>1, <1>2 DEF Running, LateInv
<1>11. RowsInv'
  <2>1. Len(rows') <= NumRequests
    <3>1. Len(rows) \in Nat /\ NumRequests \in Nat
      BY <1>2, ListFacts, NumRequestsAssumption
    <3>2. QED BY <1>2, <1>3, <3>1
  <2>2. active' = active
    BY <1>1
  <2>3. ASSUME active # <<>>, NEW i \in 1 .. Len(active)
        PROVE  Fed(active[i], rows[i])'
    <3>1. PICK r : r = active[i]
      OBVIOUS
    <3>2. PICK row : row = rows'[i]
      OBVIOUS
    <3>3. Fed(r, row)
      BY <1>3, <2>3, <3>1, <3>2
    <3>4. Fed(r, row)'
      BY <1>1, <3>3 DEF Fed
    <3>5. active'[i] = r
      BY <1>1, <3>1
    <3>6. QED BY <3>2, <3>4, <3>5
  <2>4. QED BY <1>1, <1>3, <2>1, <2>2, <2>3 DEF RowsInv
<1>12. QED
  BY <1>4, <1>5, <1>6, <1>7, <1>8, <1>9, <1>10, <1>11 DEF BatchInv, Running

-----------------------------------------------------------------------------
(* The theorems *)

LEMMA InvNext ==
  ASSUME BatchInv, [Next]_vars
  PROVE  BatchInv'
<1>1. CASE Next
  BY <1>1, InvMoves, InvPrefill, InvStep, InvRecord, InvCompact, InvCancelRow DEF Next, Engine
<1>2. CASE UNCHANGED vars
  BY <1>2, InvStutter
<1>3. QED BY <1>1, <1>2

(* Of every request the lists agree with its tokens and its Done event, and  *)
(* every row is that of a lane, before, during and after the recording of a  *)
(* step of generate_batch.                                                   *)
THEOREM BatchInvariant == Spec => []BatchInv
<1>1. Init => BatchInv
  BY InvInit
<1>2. BatchInv /\ [Next]_vars => BatchInv'
  BY InvNext
<1>3. QED BY <1>1, <1>2, PTL DEF Spec

(* The state of the batch has its type in every run. *)
THEOREM BatchTypeCorrect == Spec => []TypeOK
<1>1. BatchInv => TypeOK
  BY DEF BatchInv, BatchType
<1>2. QED BY <1>1, BatchInvariant, PTL

(* When generate_batch returns, every request was signalled once, and its    *)
(* events say what its output says.                                          *)
THEOREM BatchDoneAgrees == Spec => []OneDoneThatAgrees
<1>1. ASSUME BatchInv, pc = "returned", NEW r \in Requests
      PROVE  /\ out[r] = generated[r]
             /\ done[r] = <<[reason |-> OutputReason(r), generated |-> Len(generated[r])]>>
  <2>1. Running /\ StreamInv(r)
    BY <1>1 DEF BatchInv
  <2>2. active = <<>> /\ todo = <<>> /\ ToSet(<<>>) = {}
    BY <1>1, <2>1, EmptyPlaces DEF Running, PhaseInv
  <2>3. done[r] = <<Agreed(r)>>
    BY <1>1, <2>1, <2>2 DEF Running, EndedInv, Before
  <2>4. QED BY <2>1, <2>3 DEF StreamInv, Agreed
<1>2. BatchInv => OneDoneThatAgrees
  BY <1>1 DEF OneDoneThatAgrees
<1>3. QED BY <1>2, BatchInvariant, PTL

(* After the cancel flag is set, a request streams one more token at most.   *)
THEOREM BatchCancelIsPrompt == Spec => []AtMostOneLateToken
<1>1. BatchInv => AtMostOneLateToken
  BY DEF BatchInv, AtMostOneLateToken
<1>2. QED BY <1>1, BatchInvariant, PTL

(* A row is the padding of its lane and then its tokens, where they are.     *)
PaddingAndTokens(r, all) ==
  [j \in 1 .. PadLen(r) |-> Pad]
    \o [j \in 1 .. Len(all) - 1 |-> [tok |-> all[j], pos |-> j - 1]]

LEMMA RowIsPaddingAndTokens ==
  ASSUME NEW r \in Requests, NEW said \in Seq(Tokens), NEW t \in Tokens
  PROVE  /\ Last(Append(said, t)) = t
         /\ RowOf(r, said) = PaddingAndTokens(r, Append(said, t))
<1> DEFINE all == Append(said, t)
           P == PadLen(r)
           n == Len(said)
           row == RowOf(r, said)
           left == [j \in 1 .. P |-> Pad]
           right == [j \in 1 .. Len(all) - 1 |-> [tok |-> all[j], pos |-> j - 1]]
<1>1. /\ P \in Nat /\ n \in Nat /\ row \in Seq(Cells) /\ Len(row) = P + n
      /\ \A j \in 1 .. n : row[P + j] = [tok |-> said[j], pos |-> j - 1]
  BY PadFacts, LenProperties, RowOfType
<1>2. /\ Len(all) = n + 1 /\ all[n + 1] = t
      /\ \A j \in 1 .. n : all[j] = said[j]
  BY AppendProperties
<1>3. Last(all) = t
  BY <1>2 DEF Last
<1>4. Len(all) - 1 = n
  BY <1>1, <1>2
<1>5. \A j \in 1 .. P : row[j] = Pad
  <2>1. SUFFICES ASSUME NEW j \in 1 .. P PROVE row[j] = Pad
    OBVIOUS
  <2>2. j \in 1 .. P + n /\ j <= P
    BY <1>1
  <2>3. QED BY <2>2 DEF RowOf
<1>6. left \in Seq(Cells) /\ Len(left) = P /\ \A j \in 1 .. P : left[j] = Pad
  <2>1. left \in [1 .. P -> Cells]
    BY DEF Cells
  <2>2. QED BY <1>1, <2>1, FunctionIsSeq
<1>7. /\ right \in Seq(Cells) /\ Len(right) = n
      /\ \A j \in 1 .. n : right[j] = [tok |-> said[j], pos |-> j - 1]
  <2>1. \A j \in 1 .. n : said[j] \in Tokens /\ j - 1 \in Nat
    BY <1>1, ElementOfSeq
  <2>2. \A j \in 1 .. n : right[j] = [tok |-> said[j], pos |-> j - 1] /\ right[j] \in Cells
    BY <1>2, <1>4, <2>1 DEF Cells, Cell
  <2>3. right \in [1 .. n -> Cells]
    BY <1>4, <2>2
  <2>4. QED BY <1>1, <2>2, <2>3, FunctionIsSeq
<1> HIDE DEF all, P, n, row, left, right
<1>8. /\ left \o right \in Seq(Cells) /\ Len(left \o right) = P + n
      /\ \A j \in 1 .. P + n : (left \o right)[j] = IF j <= P THEN left[j] ELSE right[j - P]
  BY <1>6, <1>7, ConcatProperties
<1>9. ASSUME NEW j \in 1 .. P + n PROVE row[j] = (left \o right)[j]
  <2>1. CASE j <= P
    <3>1. j \in 1 .. P
      BY <1>1, <2>1
    <3>2. QED BY <1>5, <1>6, <1>8, <2>1, <3>1
  <2>2. CASE ~ (j <= P)
    <3>1. PICK k \in 1 .. n : j = P + k /\ j - P = k
      BY <1>1, <2>2
    <3>2. (left \o right)[j] = right[k]
      BY <1>8, <2>2, <3>1
    <3>3. QED BY <1>1, <1>7, <3>1, <3>2
  <2>3. QED BY <2>1, <2>2
<1>10. row = left \o right
  BY <1>1, <1>8, <1>9, SeqEqual
<1>11. QED BY <1>3, <1>10 DEF all, row, left, right, P, PaddingAndTokens

(* Between steps every row is that of its lane: padding, prompt, and every   *)
(* token but the one the lane feeds next, at consecutive positions, however  *)
(* many lanes retired and however often the rows were compacted.             *)
THEOREM RowsStayWithLanes == Spec => []RowsFollowLanes
<1>1. ASSUME BatchInv, pc = "decode", active # <<>>
      PROVE  /\ Len(rows) = Len(active)
             /\ \A i \in DOMAIN active :
                  LET r == active[i]
                      said == Prompt[r] \o generated[r]
                  IN /\ nextToken[r] = Last(said)
                     /\ rows[i] = [j \in 1 .. PadLen(r) |-> Pad]
                          \o [j \in 1 .. Len(said) - 1 |-> [tok |-> said[j], pos |-> j - 1]]
  <2>1. /\ active \in Seq(Requests) /\ DOMAIN active = 1 .. Len(active)
        /\ Len(rows) = Len(active) /\ \A i \in 1 .. Len(active) : Fed(active[i], rows[i])
    BY <1>1, ListFacts, LenProperties DEF BatchInv, Running, RowsInv
  <2>2. \A i \in 1 .. Len(active) : active[i] \in Requests
    BY <2>1, ElementOfSeq
  <2>3. SUFFICES ASSUME NEW i \in 1 .. Len(active), NEW r \in Requests, r = active[i],
                        NEW all, all = Prompt[r] \o generated[r]
                 PROVE  /\ nextToken[r] = Last(all)
                        /\ rows[i] = [j \in 1 .. PadLen(r) |-> Pad]
                             \o [j \in 1 .. Len(all) - 1 |-> [tok |-> all[j], pos |-> j - 1]]
    BY <2>1, <2>2
  <2>4. PICK said \in Seq(Tokens), t \in Tokens :
          rows[i] = RowOf(r, said) /\ nextToken[r] = t /\ all = Append(said, t)
    BY <2>1, <2>3 DEF Fed
  <2>5. /\ Last(Append(said, t)) = t
        /\ RowOf(r, said) = PaddingAndTokens(r, Append(said, t))
    BY RowIsPaddingAndTokens
  <2>6. nextToken[r] = Last(all) /\ rows[i] = PaddingAndTokens(r, all)
    BY <2>4, <2>5
  <2>7. QED BY <2>6 DEF PaddingAndTokens
<1>2. BatchInv => RowsFollowLanes
  BY <1>1 DEF RowsFollowLanes, BatchInv, BatchType
<1>3. QED BY <1>2, BatchInvariant, PTL

-----------------------------------------------------------------------------
(* The batch implements Generation *)

LEMMA AloneStep ==
  ASSUME BatchInv, [Next]_vars
  PROVE  [Alone!Next]_(Alone!vars)
<1>1. CASE Cancel
  BY <1>1, AloneCancel DEF Cancel
<1>2. CASE RecordFirst \/ RecordRow
  <2>1. /\ pc \in {"first", "record"} /\ todo # <<>> /\ todo' = Tail(todo)
        /\ UNCHANGED <<stream, cancel>>
    BY <1>2 DEF RecordFirst, RecordRow
  <2>2. PICK r : r = Head(todo)
    OBVIOUS
  <2>3. /\ RecordType /\ r \in Requests
        /\ Open(r) => logits[Row] = NextOf(r)
        /\ ~Open(r) => pc = "first" /\ Fresh(r) /\ Budget[r] = 0
    BY <2>1, <2>2, NextLane
  <2>4. StreamInv(r)
    BY <2>3 DEF BatchInv
  <2>5. CASE pc = "first" /\ finish[r] # "None"
    <3>1. Fresh(r) /\ Budget[r] = 0
      BY <2>3, <2>5 DEF Open
    <3>2. done[r] = <<>> /\ Len(generated[r]) = Budget[r]
      BY <3>1, EmptySeq DEF Fresh
    <3>3. EmitDone(r, "MaxTokens", 0) /\ UNCHANGED <<stream, out, cancel>> /\ 0 \in Nat
      BY <1>2, <2>1, <2>2, <2>5 DEF RecordFirst, RecordRow
    <3>4. QED BY <2>3, <2>4, <3>2, <3>3, AloneDone
  <2>6. CASE ~(pc = "first" /\ finish[r] # "None")
    <3>1. ApplyToken(r, logits[Row])
      BY <1>2, <2>2, <2>6 DEF RecordFirst, RecordRow
    <3>2. Open(r)
      BY <2>3, <2>6 DEF Fresh
    <3>3. Retire(r, NextOf(r)) \/ Continues(r, NextOf(r))
      BY <2>3, <3>1, <3>2 DEF ApplyToken
    <3>4. QED BY <2>1, <2>3, <2>4, <3>2, <3>3, AloneRecord
  <2>7. QED BY <2>5, <2>6
<1>3. CASE CancelRow
  <2>1. PICK r : r = Head(active)
    OBVIOUS
  <2>2. /\ pc = "cancelled" /\ active # <<>> /\ EmitDone(r, "Cancelled", Len(generated[r]))
        /\ UNCHANGED <<stream, out, cancel>>
    BY <1>3, <2>1 DEF CancelRow
  <2>3. /\ Running /\ RecordType /\ active \in Seq(Requests) /\ Distinct(active) /\ cancel
    BY <2>2, TypeIsRecordType, ListFacts DEF BatchInv, Running, PlacesInv, PhaseInv
  <2>4. r \in Requests /\ r \in ToSet(active)
    BY <2>1, <2>2, <2>3, TailPlaces
  <2>5. Open(r) /\ StreamInv(r)
    BY <2>3, <2>4 DEF BatchInv, Running, LiveInv
  <2>6. done[r] = <<>> /\ Len(generated[r]) < Budget[r] /\ Len(generated[r]) \in Nat
    BY <2>3, <2>4, <2>5, RequestFacts DEF Open
  <2>7. QED BY <2>2, <2>3, <2>4, <2>5, <2>6, AloneDone
<1>4. CASE Start \/ Prefill \/ PrefillRecorded \/ Step \/ StepRecorded \/ LeaveLoop
           \/ AllSignalled \/ Fail \/ UNCHANGED vars
  <2>1. UNCHANGED <<stream, out, done, cancel>>
    BY <1>4 DEF Start, Prefill, PrefillRecorded, Step, StepRecorded, LeaveLoop, AllSignalled,
                Fail, MoveTo, vars
  <2>2. QED BY <2>1, AloneStutter
<1>5. QED BY <1>1, <1>2, <1>3, <1>4 DEF Next, Engine

(* Lockstep batching gives every request, token for token, what it would get *)
(* alone, whatever the other requests of the batch do.                       *)
THEOREM BatchImplementsGeneration == Spec => GenerationSpec
<1>1. Init => Alone!Init
  BY AloneInit DEF Init
<1>2. BatchInv /\ [Next]_vars => [Alone!Next]_(Alone!vars)
  BY AloneStep
<1>3. QED BY <1>1, <1>2, BatchInvariant, PTL DEF Spec, GenerationSpec, Alone!Spec
=============================================================================
