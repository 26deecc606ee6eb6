-------------------------- MODULE ContinuousProofs --------------------------
(***************************************************************************)
(* Proofs about Continuous, for any number of requests and slots, any       *)
(* vocabulary, model, prompts and budgets.                                  *)
(*                                                                          *)
(* ContInv says for every request where it is (PlacesInv), what that place  *)
(* means for its tokens and its Done event (QueuedInv, LiveInv, EndedInv),  *)
(* that what it has streamed is the model's (StreamInv), what the cache and *)
(* the logits of its lane are (LanesInv), how late a cancel is (LateInv),   *)
(* and what the place of the host loop says of the slots (PhaseInv).        *)
(***************************************************************************)
EXTENDS Continuous, SequenceTheorems, FiniteSetTheorems, TLAPS

-----------------------------------------------------------------------------
(* Recording a token: what both batched engines share *)

Reasons == {"StopToken", "MaxTokens", "Cancelled"}
DoneEvents == [reason : Reasons, generated : Nat]

(* The Done event that agrees with the output of r. *)
Agreed(r) == [reason |-> OutputReason(r), generated |-> Len(generated[r])]

RecordType ==
  /\ stream \in Models
  /\ RecordingTypeOK

(* What request r has streamed is its output, and follows the model.         *)
StreamInv(r) ==
  /\ out[r] = generated[r]
  /\ Len(generated[r]) <= Budget[r]
  /\ \A i \in 1 .. Len(generated[r]) : generated[r][i] = stream[r][i]

(* A request that may still get a token: its lane is live. *)
Open(r) == finish[r] = "None" /\ done[r] = <<>> /\ Len(generated[r]) < Budget[r]

(* The token it gets when it runs alone. *)
NextOf(r) == stream[r][Len(generated[r]) + 1]

-----------------------------------------------------------------------------
(* Lists of lanes: no request is in one twice *)

Distinct(list) == \A i, j \in DOMAIN list : list[i] = list[j] => i = j

LEMMA EmptyPlaces == ToSet(<<>>) = {} /\ Distinct(<<>>)
BY DEF ToSet, Distinct

LEMMA AppendPlaces ==
  ASSUME NEW list \in Seq(Requests), NEW r \in Requests, Distinct(list), r \notin ToSet(list)
  PROVE  /\ Append(list, r) \in Seq(Requests)
         /\ Len(Append(list, r)) = Len(list) + 1
         /\ Distinct(Append(list, r))
         /\ ToSet(Append(list, r)) = ToSet(list) \cup {r}
<1> DEFINE longer == Append(list, r)
<1>1. /\ longer \in Seq(Requests) /\ Len(longer) = Len(list) + 1
      /\ \A i \in 1 .. Len(list) : longer[i] = list[i]
      /\ longer[Len(list) + 1] = r
  BY AppendProperties
<1>2. /\ Len(list) \in Nat /\ DOMAIN list = 1 .. Len(list)
      /\ DOMAIN longer = 1 .. Len(list) + 1
  BY <1>1, LenProperties
<1> HIDE DEF longer
<1>3. \A i \in 1 .. Len(list) : list[i] # r
  BY <1>2 DEF ToSet
<1>4. \A i \in 1 .. Len(list) + 1 : i \in 1 .. Len(list) \/ i = Len(list) + 1
  BY <1>2
<1>5. Distinct(longer)
  BY <1>1, <1>2, <1>3, <1>4 DEF Distinct
<1>6. ToSet(longer) = ToSet(list) \cup {r}
  <2>1. Len(list) + 1 \in 1 .. Len(list) + 1 /\ 1 .. Len(list) \subseteq 1 .. Len(list) + 1
    BY <1>2
  <2>2. QED BY <1>1, <1>2, <1>4, <2>1 DEF ToSet
<1>7. QED BY <1>1, <1>5, <1>6 DEF longer

LEMMA TailPlaces ==
  ASSUME NEW list \in Seq(Requests), Distinct(list), list # <<>>
  PROVE  /\ Head(list) \in Requests /\ Head(list) \in ToSet(list)
         /\ Tail(list) \in Seq(Requests)
         /\ Len(Tail(list)) = Len(list) - 1
         /\ Distinct(Tail(list))
         /\ ToSet(Tail(list)) = ToSet(list) \ {Head(list)}
<1>1. /\ Head(list) \in Requests /\ Tail(list) \in Seq(Requests)
      /\ Len(Tail(list)) = Len(list) - 1
      /\ \A i \in 1 .. Len(Tail(list)) : Tail(list)[i] = list[i + 1]
  BY HeadTailProperties
<1>2. /\ Len(list) \in Nat \ {0} /\ DOMAIN list = 1 .. Len(list)
      /\ DOMAIN Tail(list) = 1 .. Len(list) - 1
  BY <1>1, LenProperties, EmptySeq
<1>3. Head(list) = list[1]
  OBVIOUS
<1> DEFINE rest == Tail(list)
           first == Head(list)
<1> HIDE DEF rest, first
<1>4. \A i \in 1 .. Len(list) - 1 : i + 1 \in 1 .. Len(list) /\ rest[i] = list[i + 1]
  BY <1>1, <1>2 DEF rest
<1>5. Distinct(rest)
  <2>1. SUFFICES ASSUME NEW i \in 1 .. Len(list) - 1, NEW j \in 1 .. Len(list) - 1, rest[i] = rest[j]
                 PROVE  i = j
    BY <1>2 DEF Distinct, rest
  <2>2. i + 1 = j + 1
    BY <1>2, <1>4, <2>1 DEF Distinct
  <2>3. QED BY <2>2
<1>6. \A i \in 1 .. Len(list) : i = 1 \/ (i - 1 \in 1 .. Len(list) - 1 /\ (i - 1) + 1 = i)
  BY <1>2
<1>7. 1 \in 1 .. Len(list) /\ \A i \in 1 .. Len(list) - 1 : i + 1 # 1
  BY <1>2
<1>8. first = list[1]
  BY <1>3 DEF first
<1>9. ToSet(rest) = ToSet(list) \ {first}
  <2>1. \A i \in 1 .. Len(list) - 1 : rest[i] \in ToSet(list) /\ rest[i] # first
    BY <1>2, <1>4, <1>7, <1>8 DEF ToSet, Distinct
  <2>2. \A i \in 1 .. Len(list) : list[i] = first \/ list[i] \in ToSet(rest)
    <3>1. SUFFICES ASSUME NEW i \in 1 .. Len(list), i # 1 PROVE list[i] \in ToSet(rest)
      BY <1>8
    <3>2. i - 1 \in 1 .. Len(list) - 1 /\ list[i] = rest[i - 1]
      BY <1>4, <1>6, <3>1
    <3>3. QED BY <1>2, <3>2 DEF ToSet, rest
  <2>3. ToSet(rest) \subseteq ToSet(list) \ {first}
    BY <1>2, <2>1 DEF ToSet, rest
  <2>4. ToSet(list) \ {first} \subseteq ToSet(rest)
    BY <1>2, <2>2 DEF ToSet
  <2>5. QED BY <2>3, <2>4
<1>10. first \in ToSet(list)
  BY <1>2, <1>7, <1>8 DEF ToSet
<1>11. QED BY <1>1, <1>5, <1>9, <1>10 DEF rest, first

LEMMA AppendOfConcat ==
  ASSUME NEW s \in Seq(Tokens), NEW t \in Seq(Tokens), NEW e \in Tokens
  PROVE  Append(s \o t, e) = s \o Append(t, e)
<1>1. /\ Append(t, e) = t \o <<e>> /\ Append(s \o t, e) = (s \o t) \o <<e>>
      /\ <<e>> \in Seq(Tokens)
  BY AppendIsConcat, ConcatProperties
<1>2. QED BY <1>1, ConcatAssociative

-----------------------------------------------------------------------------
(* What the constants give a request *)

LEMMA RequestFacts ==
  ASSUME RecordType, NEW r \in Requests
  PROVE  /\ Prompt[r] \in Seq(Tokens) /\ Len(Prompt[r]) \in Nat
         /\ Budget[r] \in Nat
         /\ stream[r] \in Seq(Tokens)
         /\ Len(stream[r]) = Budget[r]
         /\ generated[r] \in Seq(Tokens) /\ Len(generated[r]) \in Nat
<1>1. Prompt[r] \in Seq(Tokens) /\ generated[r] \in Seq(Tokens)
  BY PromptAssumption DEF RecordType, RecordingTypeOK
<1>2. QED
  BY <1>1, BudgetAssumption, ModelsAssumption, LenProperties DEF RecordType

LEMMA NextOfType ==
  ASSUME RecordType, NEW r \in Requests, Len(generated[r]) < Budget[r]
  PROVE  NextOf(r) \in Tokens
<1>1. /\ stream[r] \in Seq(Tokens) /\ Len(stream[r]) = Budget[r]
      /\ Len(generated[r]) \in Nat /\ Budget[r] \in Nat
  BY RequestFacts
<1>2. Len(generated[r]) + 1 \in 1 .. Len(stream[r])
  BY <1>1
<1>3. QED BY <1>1, <1>2, ElementOfSeq DEF NextOf

(* A forward over the prompt and what was generated yields the next token.   *)
LEMMA SampledNext ==
  ASSUME RecordType, NEW r \in Requests, StreamInv(r), Len(generated[r]) < Budget[r]
  PROVE  Sampled(r, Prompt[r] \o generated[r]) = NextOf(r)
<1>1. /\ Prompt[r] \in Seq(Tokens) /\ Len(Prompt[r]) \in Nat
      /\ Budget[r] \in Nat /\ stream[r] \in Seq(Tokens) /\ Len(stream[r]) = Budget[r]
      /\ generated[r] \in Seq(Tokens) /\ Len(generated[r]) \in Nat
  BY RequestFacts
<1> DEFINE context == Prompt[r] \o generated[r]
           k == Len(context) - Len(Prompt[r])
           said == SubSeq(stream[r], 1, Len(generated[r]))
<1>2. Len(context) = Len(Prompt[r]) + Len(generated[r])
  BY <1>1, ConcatProperties
<1>3. k = Len(generated[r]) /\ k \in 0 .. Budget[r] - 1
  BY <1>1, <1>2
<1>4. said = generated[r]
  <2>1. \A i \in 1 .. Len(generated[r]) : stream[r][i] \in Tokens
    <3>1. SUFFICES ASSUME NEW i \in 1 .. Len(generated[r]) PROVE stream[r][i] \in Tokens
      OBVIOUS
    <3>2. i \in 1 .. Len(stream[r])
      BY <1>1, <3>1
    <3>3. QED BY <1>1, <3>2, ElementOfSeq
  <2>2. 1 \in Int /\ Len(generated[r]) \in Int
    BY <1>1
  <2>3. /\ said \in Seq(Tokens)
        /\ Len(said) = IF 1 <= Len(generated[r]) THEN Len(generated[r]) - 1 + 1 ELSE 0
        /\ \A i \in 1 .. Len(generated[r]) - 1 + 1 : said[i] = stream[r][1 + i - 1]
    BY <2>1, <2>2, SubSeqProperties
  <2>4. Len(said) = Len(generated[r])
    BY <1>1, <2>3
  <2>5. \A i \in 1 .. Len(said) : said[i] = generated[r][i]
    BY <1>1, <2>3, <2>4 DEF StreamInv
  <2>6. QED BY <1>1, <2>3, <2>4, <2>5, SeqEqual
<1> HIDE DEF context, said
<1>5. context = Prompt[r] \o SubSeq(stream[r], 1, k)
  BY <1>3, <1>4 DEF context, said
<1>6. Sampled(r, context) = stream[r][k + 1]
  BY <1>3, <1>5 DEF Sampled
<1>7. QED BY <1>3, <1>6 DEF context, NextOf

-----------------------------------------------------------------------------
(* The two event helpers *)

(* A Token event is one token more, and late only after a cancel. *)
LEMMA EmitTokenFacts ==
  ASSUME RecordType, NEW r \in Requests, NEW tok \in Tokens, EmitToken(r, tok)
  PROVE  /\ out' \in [Requests -> Seq(Tokens)]
         /\ out'[r] = Append(out[r], tok)
         /\ late' \in [Requests -> Nat]
         /\ late'[r] <= late[r] + 1
         /\ ~cancel => late' = late
         /\ \A q \in Requests \ {r} : out'[q] = out[q] /\ late'[q] = late[q]
<1>1. out \in [Requests -> Seq(Tokens)] /\ late \in [Requests -> Nat]
  BY DEF RecordType, RecordingTypeOK
<1>2. out[r] \in Seq(Tokens) /\ late[r] \in Nat
  BY <1>1
<1>3. Append(out[r], tok) \in Seq(Tokens)
  BY <1>2, AppendProperties
<1>4. /\ out' \in [Requests -> Seq(Tokens)]
      /\ out'[r] = Append(out[r], tok)
      /\ \A q \in Requests \ {r} : out'[q] = out[q]
  BY <1>1, <1>3 DEF EmitToken
<1>5. CASE cancel
  <2>1. late' = [late EXCEPT ![r] = @ + 1]
    BY <1>5 DEF EmitToken
  <2>2. /\ late' \in [Requests -> Nat] /\ late'[r] = late[r] + 1
        /\ \A q \in Requests \ {r} : late'[q] = late[q]
    BY <1>1, <1>2, <2>1
  <2>3. QED BY <1>2, <1>4, <1>5, <2>2
<1>6. CASE ~cancel
  <2>1. late' = late
    BY <1>6 DEF EmitToken
  <2>2. QED BY <1>1, <1>2, <1>4, <2>1
<1>7. QED BY <1>5, <1>6

LEMMA EmitDoneFacts ==
  ASSUME RecordType, NEW r \in Requests, NEW why \in Reasons, NEW count \in Nat,
         EmitDone(r, why, count), done[r] = <<>>
  PROVE  /\ done' \in [Requests -> Seq(DoneEvents)]
         /\ done'[r] = <<[reason |-> why, generated |-> count]>>
         /\ \A q \in Requests \ {r} : done'[q] = done[q]
<1>1. done \in [Requests -> Seq(DoneEvents)]
  BY DEF RecordType, RecordingTypeOK, DoneEvents, Reasons
<1> DEFINE e == [reason |-> why, generated |-> count]
<1>2. e \in DoneEvents
  BY DEF DoneEvents
<1>3. done' = [done EXCEPT ![r] = Append(@, e)]
  BY DEF EmitDone
<1> HIDE DEF e
<1>4. Append(<<>>, e) = <<e>> /\ <<e>> \in Seq(DoneEvents)
  BY <1>2
<1>5. /\ done' \in [Requests -> Seq(DoneEvents)]
      /\ done'[r] = <<e>>
      /\ \A q \in Requests \ {r} : done'[q] = done[q]
  BY <1>1, <1>3, <1>4
<1>6. QED BY <1>5 DEF e

(* generated'[r] with one token more still follows the model. *)
LEMMA OneMore ==
  ASSUME RecordType, NEW r \in Requests, StreamInv(r), Len(generated[r]) < Budget[r],
         stream' = stream, out'[r] = Append(out[r], NextOf(r)),
         generated' = [generated EXCEPT ![r] = Append(@, NextOf(r))]
  PROVE  /\ generated' \in [Requests -> Seq(Tokens)]
         /\ generated'[r] = Append(generated[r], NextOf(r))
         /\ Len(generated'[r]) = Len(generated[r]) + 1
         /\ \A q \in Requests \ {r} : generated'[q] = generated[q]
         /\ StreamInv(r)'
<1>1. /\ generated \in [Requests -> Seq(Tokens)]
      /\ generated[r] \in Seq(Tokens) /\ Len(generated[r]) \in Nat /\ Budget[r] \in Nat
  BY RequestFacts DEF RecordType, RecordingTypeOK
<1>2. NextOf(r) \in Tokens
  BY NextOfType
<1> DEFINE longer == Append(generated[r], NextOf(r))
<1>3. /\ longer \in Seq(Tokens) /\ Len(longer) = Len(generated[r]) + 1
      /\ \A i \in 1 .. Len(generated[r]) : longer[i] = generated[r][i]
      /\ longer[Len(generated[r]) + 1] = NextOf(r)
  BY <1>1, <1>2, AppendProperties
<1>4. longer = out'[r] /\ generated' = [generated EXCEPT ![r] = longer]
  BY DEF StreamInv
<1> HIDE DEF longer
<1>5. /\ generated' \in [Requests -> Seq(Tokens)]
      /\ generated'[r] = longer
      /\ \A q \in Requests \ {r} : generated'[q] = generated[q]
  BY <1>1, <1>3, <1>4
<1>6. \A i \in 1 .. Len(longer) : longer[i] = stream[r][i]
  <2>1. SUFFICES ASSUME NEW i \in 1 .. Len(longer) PROVE longer[i] = stream[r][i]
    OBVIOUS
  <2>2. CASE i \in 1 .. Len(generated[r])
    BY <1>3, <2>2 DEF StreamInv
  <2>3. CASE i = Len(generated[r]) + 1
    BY <1>3, <2>3 DEF NextOf
  <2>4. QED BY <1>1, <1>3, <2>1, <2>2, <2>3
<1>7. Len(longer) <= Budget[r]
  BY <1>1, <1>3
<1>8. StreamInv(r)'
  BY <1>4, <1>5, <1>6, <1>7 DEF StreamInv
<1>9. longer = Append(generated[r], NextOf(r))
  BY DEF longer
<1>10. QED BY <1>3, <1>5, <1>8, <1>9

-----------------------------------------------------------------------------
(* Recording a token *)

(* What no recording of a token of r touches. *)
OthersKept(r) ==
  \A q \in Requests \ {r} :
    /\ generated'[q] = generated[q] /\ finish'[q] = finish[q] /\ out'[q] = out[q]
    /\ done'[q] = done[q] /\ late'[q] = late[q] /\ nextToken'[q] = nextToken[q]

LEMMA StopHitFacts ==
  ASSUME RecordType, NEW r \in Requests, StreamInv(r), Open(r), NEW tok, StopHit(r, tok),
         stream' = stream, cancel' = cancel
  PROVE  /\ RecordType' /\ StreamInv(r)' /\ OthersKept(r)
         /\ late' = late /\ out' = out
         /\ done'[r] = <<Agreed(r)'>>
<1>1. /\ finish' = [finish EXCEPT ![r] = "Stop"]
      /\ EmitDone(r, "StopToken", Len(generated[r]))
      /\ UNCHANGED <<nextToken, generated, out, late>>
  BY DEF StopHit
<1>2. Len(generated[r]) \in Nat /\ done[r] = <<>> /\ "StopToken" \in Reasons
  BY RequestFacts DEF Open, Reasons
<1>3. /\ done' \in [Requests -> Seq(DoneEvents)]
      /\ done'[r] = <<[reason |-> "StopToken", generated |-> Len(generated[r])]>>
      /\ \A q \in Requests \ {r} : done'[q] = done[q]
  BY <1>1, <1>2, EmitDoneFacts
<1>4. /\ finish' \in [Requests -> {"None", "Stop", "Length"}]
      /\ finish'[r] = "Stop"
      /\ \A q \in Requests \ {r} : finish'[q] = finish[q]
  BY <1>1 DEF RecordType, RecordingTypeOK
<1>5. RecordType'
  BY <1>1, <1>3, <1>4 DEF RecordType, RecordingTypeOK, DoneEvents, Reasons
<1>6. StreamInv(r)'
  BY <1>1 DEF StreamInv
<1>7. Agreed(r)' = [reason |-> "StopToken", generated |-> Len(generated[r])]
  BY <1>1, <1>4 DEF Agreed, OutputReason
<1>8. QED BY <1>1, <1>3, <1>4, <1>5, <1>6, <1>7 DEF OthersKept

LEMMA BudgetFilledFacts ==
  ASSUME RecordType, NEW r \in Requests, StreamInv(r), Open(r),
         BudgetFilled(r, NextOf(r)), stream' = stream, cancel' = cancel
  PROVE  /\ RecordType' /\ StreamInv(r)' /\ OthersKept(r)
         /\ late'[r] <= late[r] + 1 /\ (~cancel => late' = late)
         /\ done'[r] = <<Agreed(r)'>>
<1>1. /\ generated' = [generated EXCEPT ![r] = Append(@, NextOf(r))]
      /\ finish' = [finish EXCEPT ![r] = "Length"]
      /\ EmitToken(r, NextOf(r))
      /\ EmitDone(r, "MaxTokens", Len(generated[r]) + 1)
      /\ UNCHANGED nextToken
  BY DEF BudgetFilled
<1>2. /\ Len(generated[r]) \in Nat /\ Len(generated[r]) < Budget[r] /\ done[r] = <<>>
      /\ "MaxTokens" \in Reasons /\ NextOf(r) \in Tokens
  BY RequestFacts, NextOfType DEF Open, Reasons
<1>3. Len(generated[r]) + 1 \in Nat
  BY <1>2
<1>4. /\ out' \in [Requests -> Seq(Tokens)]
      /\ out'[r] = Append(out[r], NextOf(r))
      /\ late' \in [Requests -> Nat]
      /\ late'[r] <= late[r] + 1
      /\ ~cancel => late' = late
      /\ \A q \in Requests \ {r} : out'[q] = out[q] /\ late'[q] = late[q]
  BY <1>1, <1>2, EmitTokenFacts
<1>5. /\ generated' \in [Requests -> Seq(Tokens)]
      /\ Len(generated'[r]) = Len(generated[r]) + 1
      /\ \A q \in Requests \ {r} : generated'[q] = generated[q]
      /\ StreamInv(r)'
  BY <1>1, <1>2, <1>4, OneMore
<1>6. /\ done' \in [Requests -> Seq(DoneEvents)]
      /\ done'[r] = <<[reason |-> "MaxTokens", generated |-> Len(generated[r]) + 1]>>
      /\ \A q \in Requests \ {r} : done'[q] = done[q]
  BY <1>1, <1>2, <1>3, EmitDoneFacts
<1>7. /\ finish' \in [Requests -> {"None", "Stop", "Length"}]
      /\ finish'[r] = "Length"
      /\ \A q \in Requests \ {r} : finish'[q] = finish[q]
  BY <1>1 DEF RecordType, RecordingTypeOK
<1>8. RecordType'
  BY <1>1, <1>4, <1>5, <1>6, <1>7 DEF RecordType, RecordingTypeOK, DoneEvents, Reasons
<1>9. Agreed(r)' = [reason |-> "MaxTokens", generated |-> Len(generated[r]) + 1]
  BY <1>5, <1>7 DEF Agreed, OutputReason
<1>10. QED BY <1>1, <1>4, <1>5, <1>6, <1>7, <1>8, <1>9 DEF OthersKept

LEMMA ContinuesFacts ==
  ASSUME RecordType, NEW r \in Requests, StreamInv(r), Open(r),
         Continues(r, NextOf(r)), stream' = stream, cancel' = cancel
  PROVE  /\ RecordType' /\ StreamInv(r)' /\ OthersKept(r) /\ Open(r)'
         /\ late'[r] <= late[r] + 1 /\ (~cancel => late' = late)
         /\ generated'[r] = Append(generated[r], NextOf(r))
         /\ nextToken'[r] = NextOf(r)
<1>1. /\ generated' = [generated EXCEPT ![r] = Append(@, NextOf(r))]
      /\ nextToken' = [nextToken EXCEPT ![r] = NextOf(r)]
      /\ EmitToken(r, NextOf(r))
      /\ UNCHANGED <<finish, done>>
      /\ Len(generated[r]) + 1 # Budget[r]
  BY DEF Continues
<1>2. /\ Len(generated[r]) \in Nat /\ Budget[r] \in Nat /\ Len(generated[r]) < Budget[r]
      /\ NextOf(r) \in Tokens
  BY RequestFacts, NextOfType DEF Open
<1>3. /\ out' \in [Requests -> Seq(Tokens)]
      /\ out'[r] = Append(out[r], NextOf(r))
      /\ late' \in [Requests -> Nat]
      /\ late'[r] <= late[r] + 1
      /\ ~cancel => late' = late
      /\ \A q \in Requests \ {r} : out'[q] = out[q] /\ late'[q] = late[q]
  BY <1>1, <1>2, EmitTokenFacts
<1>4. /\ generated' \in [Requests -> Seq(Tokens)]
      /\ generated'[r] = Append(generated[r], NextOf(r))
      /\ Len(generated'[r]) = Len(generated[r]) + 1
      /\ \A q \in Requests \ {r} : generated'[q] = generated[q]
      /\ StreamInv(r)'
  BY <1>1, <1>2, <1>3, OneMore
<1>5. /\ nextToken' \in [Requests -> Tokens \cup {Junk}]
      /\ nextToken'[r] = NextOf(r)
      /\ \A q \in Requests \ {r} : nextToken'[q] = nextToken[q]
  BY <1>1, <1>2 DEF RecordType, RecordingTypeOK
<1>6. RecordType'
  BY <1>1, <1>3, <1>4, <1>5 DEF RecordType, RecordingTypeOK
<1>7. Len(generated'[r]) < Budget[r]
  BY <1>1, <1>2, <1>4
<1>8. Open(r)'
  BY <1>1, <1>7 DEF Open
<1>9. QED BY <1>1, <1>3, <1>4, <1>5, <1>6, <1>8 DEF OthersKept

-----------------------------------------------------------------------------
(* Towards Generation: each of these steps is one step of the request alone. *)

reasonBar == [r \in Requests |-> IF done[r] = <<>> THEN "None" ELSE Head(done[r]).reason]
cancelBar == [r \in Requests |-> cancel]

(* A Done event of r, where there was none, finishes r and nobody else.      *)
LEMMA DoneIsFinish ==
  ASSUME NEW r \in Requests, NEW why, NEW count, done[r] = <<>>,
         done'[r] = <<[reason |-> why, generated |-> count]>>,
         \A q \in Requests \ {r} : done'[q] = done[q]
  PROVE  reasonBar[r] = "None" /\ reasonBar' = [reasonBar EXCEPT ![r] = why]
<1> DEFINE e == [reason |-> why, generated |-> count]
<1>1. <<e>> # <<>> /\ Head(<<e>>) = e /\ e.reason = why
  OBVIOUS
<1> HIDE DEF e
<1>2. done'[r] # <<>> /\ Head(done'[r]).reason = why
  BY <1>1 DEF e
<1>3. QED BY <1>2 DEF reasonBar

LEMMA AloneFinish ==
  ASSUME NEW r \in Requests, NEW why, reasonBar[r] = "None",
         reasonBar' = [reasonBar EXCEPT ![r] = why], UNCHANGED <<stream, out, cancel>>
  PROVE  Alone!Finish(r, why)
BY DEF Alone!Finish, reasonBar, cancelBar

(* Recording the next token of an open request is one step of Generation:    *)
(* the token, the token and the end of the budget, or the stop.              *)
LEMMA AloneRecord ==
  ASSUME RecordType, NEW r \in Requests, StreamInv(r), Open(r),
         Retire(r, NextOf(r)) \/ Continues(r, NextOf(r)),
         stream' = stream, cancel' = cancel
  PROVE  Alone!Next
<1>1. /\ Len(out[r]) < Budget[r] /\ out[r] = generated[r]
      /\ Alone!Next1(r) = NextOf(r)
      /\ Len(generated[r]) \in Nat /\ done[r] = <<>>
  BY RequestFacts DEF Open, StreamInv, Alone!Next1, NextOf
<1>2. CASE StopHit(r, NextOf(r))
  <2>1. /\ NextOf(r) \in StopTokens[r] /\ UNCHANGED <<stream, out, cancel>>
        /\ EmitDone(r, "StopToken", Len(generated[r])) /\ "StopToken" \in Reasons
    BY <1>2 DEF StopHit, Reasons
  <2>2. /\ done'[r] = <<[reason |-> "StopToken", generated |-> Len(generated[r])]>>
        /\ \A q \in Requests \ {r} : done'[q] = done[q]
    BY <1>1, <2>1, EmitDoneFacts
  <2>3. Alone!Finish(r, "StopToken")
    BY <1>1, <2>1, <2>2, DoneIsFinish, AloneFinish
  <2>4. Alone!Stop(r)
    BY <1>1, <2>1, <2>3 DEF Alone!Stop
  <2>5. QED BY <2>4 DEF Alone!Next
<1>3. ASSUME EmitToken(r, NextOf(r)), NextOf(r) \notin StopTokens[r],
             \/ reasonBar' = reasonBar
             \/ Len(out[r]) + 1 = Budget[r] /\ reasonBar' = [reasonBar EXCEPT ![r] = "MaxTokens"],
             reasonBar[r] = "None"
      PROVE  Alone!Next
  <2>1. out' = [out EXCEPT ![r] = Append(@, Alone!Next1(r))]
    BY <1>1, <1>3 DEF EmitToken
  <2>2. Alone!Token(r)
    BY <1>1, <1>3, <2>1 DEF Alone!Token, reasonBar, cancelBar
  <2>3. QED BY <2>2 DEF Alone!Next
<1>4. reasonBar[r] = "None"
  BY <1>1 DEF reasonBar
<1>5. CASE BudgetFilled(r, NextOf(r))
  <2>1. /\ NextOf(r) \notin StopTokens[r] /\ EmitToken(r, NextOf(r))
        /\ Len(generated[r]) + 1 = Budget[r]
        /\ EmitDone(r, "MaxTokens", Len(generated[r]) + 1) /\ "MaxTokens" \in Reasons
        /\ Len(generated[r]) + 1 \in Nat
    BY <1>1, <1>5 DEF BudgetFilled, Reasons
  <2>2. /\ done'[r] = <<[reason |-> "MaxTokens", generated |-> Len(generated[r]) + 1]>>
        /\ \A q \in Requests \ {r} : done'[q] = done[q]
    BY <1>1, <2>1, EmitDoneFacts
  <2>3. reasonBar' = [reasonBar EXCEPT ![r] = "MaxTokens"]
    BY <1>1, <2>2, DoneIsFinish
  <2>4. QED BY <1>1, <1>3, <1>4, <2>1, <2>3
<1>6. CASE Continues(r, NextOf(r))
  <2>1. NextOf(r) \notin StopTokens[r] /\ EmitToken(r, NextOf(r)) /\ done' = done
    BY <1>6 DEF Continues
  <2>2. reasonBar' = reasonBar
    BY <2>1 DEF reasonBar
  <2>3. QED BY <1>3, <1>4, <2>1, <2>2
<1>7. QED BY <1>2, <1>5, <1>6 DEF Retire

(* So is the Done event of a request that gets no token any more.            *)
LEMMA AloneDone ==
  ASSUME RecordType, NEW r \in Requests, StreamInv(r), done[r] = <<>>,
         NEW why, NEW count \in Nat, EmitDone(r, why, count),
         UNCHANGED <<stream, out, cancel>>,
         \/ why = "MaxTokens" /\ Len(generated[r]) = Budget[r]
         \/ why = "Cancelled" /\ cancel /\ Len(generated[r]) < Budget[r]
  PROVE  Alone!Next
<1>1. why \in Reasons
  BY DEF Reasons
<1>2. /\ done'[r] = <<[reason |-> why, generated |-> count]>>
      /\ \A q \in Requests \ {r} : done'[q] = done[q]
  BY <1>1, EmitDoneFacts
<1>3. Alone!Finish(r, why)
  BY <1>2, DoneIsFinish, AloneFinish
<1>4. out[r] = generated[r]
  BY DEF StreamInv
<1>5. CASE why = "MaxTokens" /\ Len(generated[r]) = Budget[r]
  <2>1. Alone!Exhaust(r)
    BY <1>3, <1>4, <1>5 DEF Alone!Exhaust
  <2>2. QED BY <2>1 DEF Alone!Next
<1>6. CASE why = "Cancelled" /\ cancel /\ Len(generated[r]) < Budget[r]
  <2>1. Alone!Abandon(r)
    BY <1>3, <1>4, <1>6 DEF Alone!Abandon, cancelBar
  <2>2. QED BY <2>1 DEF Alone!Next
<1>7. QED BY <1>5, <1>6

(* The flag is one flag, shared by all requests of the call. *)
LEMMA AloneCancel ==
  ASSUME SetCancel
  PROVE  Alone!Next
<1>1. ~cancel /\ cancel' = TRUE /\ UNCHANGED <<stream, out, done>>
  BY DEF SetCancel, eventVars
<1>2. reasonBar' = reasonBar
  BY <1>1 DEF reasonBar
<1>3. Alone!Cancel(Requests)
  BY <1>1, <1>2 DEF Alone!Cancel, reasonBar, cancelBar
<1>4. QED BY <1>3 DEF Alone!Next

LEMMA AloneInit ==
  ASSUME RecordingInit
  PROVE  Alone!Init
BY DEF RecordingInit, Alone!Init

(* What changes no event, no flag and no stream is no step of Generation.    *)
LEMMA AloneStutter ==
  ASSUME UNCHANGED <<stream, out, done, cancel>>
  PROVE  UNCHANGED Alone!vars
BY DEF Alone!vars

-----------------------------------------------------------------------------
(* The invariant *)

ContType == TypeOK /\ stream \in Models

PhaseInv ==
  /\ pc = "start" => nextReq = 1 /\ lanes = <<>>
  /\ pc # "record" => stepped = <<>>
  /\ pc = "cancelled" => cancel
  /\ pc = "returned" => lanes = <<>> /\ Queue = {}
  /\ SlotsUsed

(* The lanes, the lanes still to record and the queue share no request. *)
PlacesInv ==
  /\ Distinct(lanes) /\ Distinct(stepped)
  /\ ToSet(lanes) \cap ToSet(stepped) = {}
  /\ ToSet(lanes) \cap Queue = {}
  /\ ToSet(stepped) \cap Queue = {}

(* A queued request is as it was admitted to the scheduler. *)
QueuedInv ==
  \A r \in Queue :
    /\ generated[r] = <<>> /\ done[r] = <<>> /\ late[r] = 0
    /\ finish[r] = IF Budget[r] = 0 THEN "Length" ELSE "None"

LiveInv == \A r \in ToSet(lanes) \cup ToSet(stepped) : Open(r)

Gone(r) == r \notin Queue \cup ToSet(lanes) \cup ToSet(stepped)

EndedInv ==
  pc # "failed" => \A r \in Requests : Gone(r) => done[r] = <<Agreed(r)>>

LanesInv ==
  /\ \A r \in ToSet(lanes) :
       nextToken[r] \in Tokens /\ Append(cache[r], nextToken[r]) = Prompt[r] \o generated[r]
  /\ \A r \in ToSet(stepped) : cache[r] = Prompt[r] \o generated[r] /\ logits[r] = NextOf(r)

LateInv ==
  \A r \in Requests :
    /\ late[r] <= 1
    /\ ~cancel \/ r \in Queue \cup ToSet(stepped) => late[r] = 0

ContInv ==
  /\ ContType /\ PhaseInv /\ PlacesInv /\ QueuedInv /\ LiveInv /\ EndedInv /\ LanesInv /\ LateInv
  /\ \A r \in Requests : StreamInv(r)

LEMMA TypeIsRecordType == ASSUME ContType PROVE RecordType
BY DEF ContType, TypeOK, RecordType

-----------------------------------------------------------------------------
(* The beginning *)

LEMMA InvInit ==
  ASSUME Init
  PROVE  ContInv
<1>1. RecordingInit /\ lanes = <<>> /\ stepped = <<>> /\ nextReq = 1
      /\ cache = [r \in Requests |-> <<>>] /\ logits = [r \in Requests |-> Junk]
  BY DEF Init
<1>2. /\ stream \in Models /\ cancel = FALSE /\ pc = "start"
      /\ nextToken = [r \in Requests |-> Junk]
      /\ generated = [r \in Requests |-> <<>>]
      /\ finish = [r \in Requests |-> IF Budget[r] = 0 THEN "Length" ELSE "None"]
      /\ out = [r \in Requests |-> <<>>]
      /\ done = [r \in Requests |-> <<>>]
      /\ late = [r \in Requests |-> 0]
  BY <1>1 DEF RecordingInit
<1>3. NumRequests \in Nat /\ NumRequests + 1 >= 2 /\ MaxBatch \in Nat
  BY NumRequestsAssumption, MaxBatchAssumption
<1>4. ToSet(<<>>) = {} /\ Len(<<>>) = 0
  BY EmptyPlaces, EmptySeq
<1>5. ContType
  <2>1. nextToken \in [Requests -> Tokens \cup {Junk}] /\ cancel \in BOOLEAN
    BY <1>2
  <2>7. generated \in [Requests -> Seq(Tokens)] /\ out \in [Requests -> Seq(Tokens)]
    BY <1>2
  <2>8. late \in [Requests -> Nat]
    BY <1>2
  <2>6. finish \in [Requests -> {"None", "Stop", "Length"}]
    BY <1>2
  <2>2. done \in [Requests -> Seq([reason : {"StopToken", "MaxTokens", "Cancelled"}, generated : Nat])]
    BY <1>2
  <2>3. /\ cache \in [Requests -> Seq(Tokens)] /\ logits \in [Requests -> Tokens \cup {Junk}]
        /\ lanes \in Seq(Requests) /\ stepped \in Seq(Requests)
    BY <1>1
  <2>4. nextReq \in 1 .. NumRequests + 1
    BY <1>1, <1>3
  <2>5. QED BY <1>2, <2>1, <2>2, <2>3, <2>4, <2>6, <2>7, <2>8 DEF ContType, TypeOK, RecordingTypeOK
<1>6. PhaseInv
  BY <1>1, <1>2, <1>3, <1>4 DEF PhaseInv, SlotsUsed
<1>7. PlacesInv
  BY <1>1, <1>4, EmptyPlaces DEF PlacesInv
<1>8. Queue = Requests
  BY <1>1 DEF Queue, Requests
<1>9. QueuedInv /\ LateInv
  BY <1>2, <1>8 DEF QueuedInv, LateInv
<1>12. LiveInv /\ EndedInv /\ LanesInv
  BY <1>1, <1>4, <1>8 DEF LiveInv, EndedInv, Gone, LanesInv
<1>10. \A r \in Requests : StreamInv(r)
  <2>1. SUFFICES ASSUME NEW r \in Requests PROVE StreamInv(r)
    OBVIOUS
  <2>2. generated[r] = <<>> /\ out[r] = <<>> /\ Budget[r] \in Nat
    BY <1>2, BudgetAssumption
  <2>3. QED BY <1>4, <2>2 DEF StreamInv
<1>11. QED BY <1>5, <1>6, <1>7, <1>9, <1>10, <1>12 DEF ContInv

(* The queue is what nextReq and the requests after it are. *)
LEMMA QueueShrinks ==
  ASSUME ContType, Queue # {}
  PROVE  /\ nextReq \in Requests /\ nextReq \in Queue
         /\ nextReq' = nextReq + 1 =>
              nextReq' \in 1 .. NumRequests + 1 /\ Queue' = Queue \ {nextReq}
<1>1. nextReq \in 1 .. NumRequests + 1 /\ NumRequests \in Nat
  BY NumRequestsAssumption DEF ContType, TypeOK
<1>2. PICK q \in Requests : q >= nextReq
  BY DEF Queue
<1>3. nextReq \in Requests
  BY <1>1, <1>2 DEF Requests
<1>4. nextReq \in Queue
  BY <1>1, <1>3 DEF Queue
<1>5. ASSUME nextReq' = nextReq + 1
      PROVE  nextReq' \in 1 .. NumRequests + 1 /\ Queue' = Queue \ {nextReq}
  BY <1>1, <1>3, <1>5 DEF Queue, Requests
<1>6. QED BY <1>3, <1>4, <1>5

-----------------------------------------------------------------------------
(* Steps that touch no request *)

LEMMA InvMoved ==
  ASSUME ContInv, pc # "failed", PhaseInv',
         UNCHANGED <<stream, nextToken, generated, finish, out, done, late,
                     lanes, stepped, nextReq, cache, logits>>,
         cancel' \in BOOLEAN, cancel => cancel',
         pc' \in Finals \cup {"start", "admit", "decode", "record", "cancelled"}
  PROVE  ContInv'
<1>1. Queue' = Queue
  BY DEF Queue
<1>2. ContType'
  BY DEF ContInv, ContType, TypeOK, RecordingTypeOK
<1>3. PlacesInv' /\ LiveInv' /\ QueuedInv'
  BY <1>1 DEF ContInv, PlacesInv, LiveInv, QueuedInv, Open
<1>4. LanesInv'
  BY DEF ContInv, LanesInv, NextOf
<1>5. EndedInv'
  BY <1>1 DEF ContInv, EndedInv, Gone, Agreed, OutputReason
<1>6. LateInv'
  BY <1>1 DEF ContInv, LateInv
<1>7. \A r \in Requests : StreamInv(r)'
  BY DEF ContInv, StreamInv
<1>8. QED BY <1>2, <1>3, <1>4, <1>5, <1>6, <1>7 DEF ContInv

LEMMA InvQuiet ==
  ASSUME ContInv,
         Cancel \/ Start \/ SlotsFull \/ StepRecorded \/ LeaveLoop \/ AllSignalled
  PROVE  ContInv'
<1>1. /\ lanes \in Seq(Requests) /\ Len(lanes) \in Nat /\ cancel \in BOOLEAN
      /\ pc \in Finals \cup {"start", "admit", "decode", "record", "cancelled"}
      /\ MaxBatch \in Nat \ {0}
  BY MaxBatchAssumption, LenProperties DEF ContInv, ContType, TypeOK, RecordingTypeOK
<1>2. CASE Cancel
  <2>1. /\ UNCHANGED <<stream, nextToken, generated, finish, out, done, late,
                        lanes, stepped, nextReq, cache, logits>>
        /\ cancel' = TRUE /\ pc' = pc /\ pc \notin Finals
    BY <1>2 DEF Cancel, SetCancel, schedVars, eventVars
  <2>2. PhaseInv'
    BY <2>1 DEF ContInv, PhaseInv, SlotsUsed, Queue
  <2>3. QED BY <1>1, <2>1, <2>2, InvMoved DEF Finals
<1>3. ASSUME NEW place, MoveTo(place), lanes' = lanes, stepped' = stepped, pc # "failed",
             place \in {"refused", "admit", "decode", "cancelled", "returned"},
             stepped = <<>>,
             place = "cancelled" => cancel,
             place = "returned" => lanes = <<>> /\ Queue = {},
             place = "decode" /\ Queue # {} => Len(lanes) = MaxBatch
      PROVE  ContInv'
  <2>1. /\ UNCHANGED <<stream, cancel, nextToken, generated, finish, out, done, late,
                        lanes, stepped, nextReq, cache, logits>>
        /\ pc' = place
    BY <1>3 DEF MoveTo
  <2>2. PhaseInv'
    BY <1>3, <2>1 DEF ContInv, PhaseInv, SlotsUsed, Queue
  <2>3. QED BY <1>1, <1>3, <2>1, <2>2, InvMoved DEF Finals
<1>4. CASE Start
  BY <1>3, <1>4 DEF Start, ContInv, PhaseInv
<1>5. CASE SlotsFull
  <2>1. stepped = <<>> /\ Len(lanes) + Len(stepped) <= MaxBatch /\ Len(<<>>) = 0
    BY <1>5, EmptySeq DEF SlotsFull, ContInv, PhaseInv, SlotsUsed
  <2>2. Queue # {} => Len(lanes) = MaxBatch
    BY <1>1, <1>5, <2>1 DEF SlotsFull, FreeSlot
  <2>3. QED BY <1>3, <1>5, <2>1, <2>2 DEF SlotsFull
<1>6. CASE StepRecorded
  BY <1>3, <1>6 DEF StepRecorded
<1>7. CASE LeaveLoop
  <2>1. stepped = <<>> /\ (lanes = <<>> => Queue = {})
    BY <1>1, <1>7, EmptySeq DEF LeaveLoop, ContInv, PhaseInv, SlotsUsed
  <2>2. QED BY <1>3, <1>7, <2>1 DEF LeaveLoop
<1>8. CASE AllSignalled
  BY <1>3, <1>8 DEF AllSignalled, ContInv, PhaseInv
<1>9. QED BY <1>2, <1>4, <1>5, <1>6, <1>7, <1>8

LEMMA InvFail ==
  ASSUME ContInv, Fail
  PROVE  ContInv'
<1>1. /\ UNCHANGED <<stream, cancel, nextToken, generated, finish, out, done, late,
                      nextReq, cache, logits>>
      /\ pc' = "failed" /\ lanes' = <<>> /\ stepped' = <<>>
  BY DEF Fail, MoveTo
<1>2. ToSet(<<>>) = {} /\ Distinct(<<>>) /\ Len(<<>>) = 0 /\ MaxBatch \in Nat
  BY EmptyPlaces, EmptySeq, MaxBatchAssumption
<1>3. Queue' = Queue
  BY <1>1 DEF Queue
<1>4. ContType'
  BY <1>1 DEF ContInv, ContType, TypeOK, RecordingTypeOK, Finals
<1>5. PhaseInv' /\ PlacesInv'
  BY <1>1, <1>2 DEF PhaseInv, SlotsUsed, PlacesInv
<1>6. QueuedInv' /\ LateInv'
  BY <1>1, <1>2, <1>3 DEF ContInv, QueuedInv, LateInv
<1>7. LiveInv' /\ LanesInv' /\ EndedInv'
  BY <1>1, <1>2 DEF LiveInv, LanesInv, EndedInv
<1>8. \A r \in Requests : StreamInv(r)'
  BY <1>1 DEF ContInv, StreamInv
<1>9. QED BY <1>4, <1>5, <1>6, <1>7, <1>8 DEF ContInv

-----------------------------------------------------------------------------
(* A decode step begins *)

LEMMA InvForward ==
  ASSUME ContInv, StepLogits
  PROVE  ContInv'
<1>1. /\ UNCHANGED <<stream, cancel, nextReq, nextToken, generated, finish, out, done, late>>
      /\ cache' = [r \in Requests |->
           IF r \in ToSet(lanes) THEN Append(cache[r], nextToken[r]) ELSE cache[r]]
      /\ logits' = [r \in Requests |->
           IF r \in ToSet(lanes) THEN Sampled(r, cache'[r]) ELSE logits[r]]
      /\ stepped' = lanes /\ lanes' = <<>> /\ pc = "decode" /\ pc' = "record" /\ ~cancel
  BY DEF StepLogits, Forward, schedVars, eventVars
<1>2. RecordType /\ ContType
  BY TypeIsRecordType DEF ContInv
<1>3. \A r \in ToSet(lanes) : r \in Requests
  BY <1>2, LenProperties, ElementOfSeq DEF ContType, TypeOK, ToSet
<1>4. \A r \in ToSet(lanes) :
        /\ cache'[r] = Prompt[r] \o generated[r] /\ cache'[r] \in Seq(Tokens)
        /\ logits'[r] = NextOf(r) /\ logits'[r] \in Tokens
  <2>1. SUFFICES ASSUME NEW r \in ToSet(lanes)
                 PROVE  /\ cache'[r] = Prompt[r] \o generated[r] /\ cache'[r] \in Seq(Tokens)
                        /\ logits'[r] = NextOf(r) /\ logits'[r] \in Tokens
    OBVIOUS
  <2>2. r \in Requests /\ StreamInv(r) /\ Open(r)
    BY <1>3 DEF ContInv, LiveInv
  <2>3. cache'[r] = Append(cache[r], nextToken[r]) /\ logits'[r] = Sampled(r, cache'[r])
    BY <1>1, <2>2
  <2>4. nextToken[r] \in Tokens /\ cache'[r] = Prompt[r] \o generated[r]
    BY <2>3 DEF ContInv, LanesInv
  <2>5. cache[r] \in Seq(Tokens)
    BY <1>2, <2>2 DEF ContType, TypeOK
  <2>6. Append(cache[r], nextToken[r]) \in Seq(Tokens)
    BY <2>4, <2>5, AppendProperties
  <2>7. Sampled(r, Prompt[r] \o generated[r]) = NextOf(r) /\ NextOf(r) \in Tokens
    BY <1>2, <2>2, SampledNext, NextOfType DEF Open
  <2>8. QED BY <2>3, <2>4, <2>6, <2>7
<1>5. /\ cache' \in [Requests -> Seq(Tokens)]
      /\ logits' \in [Requests -> Tokens \cup {Junk}]
  <2>1. /\ cache \in [Requests -> Seq(Tokens)]
        /\ logits \in [Requests -> Tokens \cup {Junk}]
    BY <1>2 DEF ContType, TypeOK
  <2>2. \A r \in Requests : cache'[r] \in Seq(Tokens)
    BY <1>1, <1>4, <2>1
  <2>3. \A r \in Requests : logits'[r] \in Tokens \cup {Junk}
    BY <1>1, <1>4, <2>1
  <2>4. QED BY <1>1, <2>2, <2>3
<1>6. Queue' = Queue /\ ToSet(<<>>) = {} /\ Distinct(<<>>) /\ Len(<<>>) = 0
  BY <1>1, EmptyPlaces, EmptySeq DEF Queue
<1>7. ContType'
  <2>1. lanes' \in Seq(Requests) /\ stepped' \in Seq(Requests)
    BY <1>1, <1>2 DEF ContType, TypeOK
  <2>2. QED BY <1>1, <1>2, <1>5, <2>1 DEF ContType, TypeOK, RecordingTypeOK
<1>8. stepped = <<>> /\ Len(lanes) \in Nat
  BY <1>1, <1>2, LenProperties DEF ContInv, PhaseInv, ContType, TypeOK
<1>9. PhaseInv'
  BY <1>1, <1>6, <1>8 DEF ContInv, PhaseInv, SlotsUsed
<1>10. PlacesInv'
  BY <1>1, <1>6 DEF ContInv, PlacesInv
<1>11. QueuedInv' /\ LiveInv'
  BY <1>1, <1>6, <1>8 DEF ContInv, QueuedInv, LiveInv, Open
<1>12. LateInv'
  BY <1>1 DEF ContInv, LateInv
<1>13. LanesInv'
  BY <1>1, <1>4, <1>6 DEF LanesInv, NextOf
<1>14. EndedInv'
  BY <1>1, <1>6, <1>8 DEF ContInv, EndedInv, Gone, Agreed, OutputReason
<1>15. \A r \in Requests : StreamInv(r)'
  BY <1>1 DEF ContInv, StreamInv
<1>16. QED
  BY <1>7, <1>9, <1>10, <1>11, <1>12, <1>13, <1>14, <1>15 DEF ContInv

-----------------------------------------------------------------------------
(* A lane records a token: one taken from the step, or one just prefilled *)

LEMMA InvRecord ==
  ASSUME ContInv, NEW r \in Requests, Open(r), r \notin ToSet(lanes), late[r] = 0,
         RecordToken(r, NextOf(r), lanes), stream' = stream, cancel' = cancel, pc' = pc,
         pc \in {"admit", "record"},
         stepped' \in Seq(Requests), Distinct(stepped'), ToSet(stepped') = ToSet(stepped) \ {r},
         nextReq' \in 1 .. NumRequests + 1, Queue' = Queue \ {r},
         r \in Queue \cup ToSet(stepped),
         pc # "record" => stepped' = <<>>,
         Len(lanes) + 1 + Len(stepped') <= MaxBatch,
         cache' \in [Requests -> Seq(Tokens)], logits' \in [Requests -> Tokens \cup {Junk}],
         cache'[r] = Prompt[r] \o generated[r],
         \A q \in Requests \ {r} : cache'[q] = cache[q] /\ logits'[q] = logits[q]
  PROVE  ContInv'
<1>1. RecordType /\ ContType /\ StreamInv(r)
  BY TypeIsRecordType DEF ContInv
<1>2. lanes \in Seq(Requests) /\ Len(lanes) \in Nat /\ Len(stepped') \in Nat /\ MaxBatch \in Nat
  BY <1>1, LenProperties, MaxBatchAssumption DEF ContType, TypeOK
<1>3. \/ Retire(r, NextOf(r)) /\ lanes' = lanes
      \/ Continues(r, NextOf(r)) /\ lanes' = Append(lanes, r)
  BY DEF RecordToken
<1>4. /\ RecordType' /\ StreamInv(r)' /\ OthersKept(r)
      /\ late'[r] <= late[r] + 1 /\ (~cancel => late' = late)
      /\ \/ lanes' = lanes /\ done'[r] = <<Agreed(r)'>>
         \/ /\ lanes' = Append(lanes, r) /\ Open(r)'
            /\ generated'[r] = Append(generated[r], NextOf(r)) /\ nextToken'[r] = NextOf(r)
  <2>1. CASE StopHit(r, NextOf(r)) /\ lanes' = lanes
    <3>1. late[r] \in Nat
      BY <1>1 DEF RecordType, RecordingTypeOK
    <3>2. QED BY <1>1, <2>1, <3>1, StopHitFacts
  <2>2. CASE BudgetFilled(r, NextOf(r)) /\ lanes' = lanes
    BY <1>1, <2>2, BudgetFilledFacts
  <2>3. CASE Continues(r, NextOf(r)) /\ lanes' = Append(lanes, r)
    BY <1>1, <2>3, ContinuesFacts
  <2>4. QED BY <1>3, <2>1, <2>2, <2>3 DEF Retire
<1>5. /\ lanes' \in Seq(Requests) /\ Len(lanes') <= Len(lanes) + 1 /\ Len(lanes') \in Nat
      /\ Distinct(lanes')
      /\ ToSet(lanes') = IF lanes' = lanes THEN ToSet(lanes) ELSE ToSet(lanes) \cup {r}
  <2>1. Distinct(lanes)
    BY DEF ContInv, PlacesInv
  <2>2. CASE lanes' = lanes
    BY <1>2, <2>1, <2>2
  <2>3. CASE lanes' = Append(lanes, r) /\ lanes' # lanes
    BY <1>2, <2>1, <2>3, AppendPlaces
  <2>4. QED BY <1>4, <2>2, <2>3
<1>6. lanes' # lanes => /\ Open(r)' /\ nextToken'[r] = NextOf(r)
                        /\ generated'[r] = Append(generated[r], NextOf(r))
  BY <1>4
<1>7. lanes' = lanes => done'[r] = <<Agreed(r)'>>
  <2>1. Append(lanes, r) # lanes
    <3>1. Len(Append(lanes, r)) = Len(lanes) + 1
      BY <1>2, AppendProperties
    <3>2. QED BY <1>2, <3>1
  <2>2. QED BY <1>4, <2>1
<1>8. \A q \in ToSet(lanes) \cup ToSet(stepped) \cup Queue : q \in Requests
  BY <1>1, LenProperties, ElementOfSeq DEF ContType, TypeOK, ToSet, Queue
<1>9. ContType'
  BY <1>1, <1>4, <1>5 DEF ContType, TypeOK, RecordType
<1>10. PhaseInv'
  BY <1>2, <1>5 DEF PhaseInv, SlotsUsed, Finals
<1>11. PlacesInv'
  BY <1>5 DEF ContInv, PlacesInv
<1>12. QueuedInv'
  <2>1. SUFFICES ASSUME NEW q \in Queue \ {r}
                 PROVE  /\ generated'[q] = <<>> /\ done'[q] = <<>> /\ late'[q] = 0
                        /\ finish'[q] = IF Budget[q] = 0 THEN "Length" ELSE "None"
    BY DEF QueuedInv
  <2>2. q \in Requests /\ generated[q] = <<>> /\ done[q] = <<>> /\ late[q] = 0
        /\ finish[q] = IF Budget[q] = 0 THEN "Length" ELSE "None"
    BY <1>8, <2>1 DEF ContInv, QueuedInv
  <2>3. QED BY <1>4, <2>2 DEF OthersKept
<1>13. LiveInv'
  <2>1. \A q \in ToSet(lanes) \cup (ToSet(stepped) \ {r}) : q # r /\ Open(q) /\ q \in Requests
    BY <1>8 DEF ContInv, LiveInv
  <2>2. \A q \in ToSet(lanes) \cup (ToSet(stepped) \ {r}) : Open(q)'
    BY <1>4, <2>1 DEF Open, OthersKept
  <2>3. QED BY <1>5, <1>6, <2>2 DEF LiveInv
<1>14. EndedInv'
  <2>1. SUFFICES ASSUME NEW q \in Requests, Gone(q)' PROVE done'[q] = <<Agreed(q)'>>
    BY DEF EndedInv
  <2>2. CASE q = r
    BY <1>5, <1>7, <2>1, <2>2 DEF Gone
  <2>3. CASE q # r
    <3>1. Gone(q)
      BY <1>5, <2>1, <2>3 DEF Gone
    <3>2. done[q] = <<Agreed(q)>>
      BY <3>1 DEF ContInv, EndedInv
    <3>3. done'[q] = done[q] /\ Agreed(q)' = Agreed(q)
      BY <1>4, <2>3 DEF OthersKept, Agreed, OutputReason
    <3>4. QED BY <3>2, <3>3
  <2>4. QED BY <2>2, <2>3
<1>15. LanesInv'
  <2>1. \A q \in ToSet(lanes) :
          nextToken'[q] \in Tokens /\ Append(cache'[q], nextToken'[q]) = Prompt[q] \o generated'[q]
    <3>1. SUFFICES ASSUME NEW q \in ToSet(lanes)
                   PROVE  /\ nextToken'[q] \in Tokens
                          /\ Append(cache'[q], nextToken'[q]) = Prompt[q] \o generated'[q]
      OBVIOUS
    <3>2. q \in Requests \ {r}
      BY <1>8
    <3>3. nextToken'[q] = nextToken[q] /\ cache'[q] = cache[q] /\ generated'[q] = generated[q]
      BY <1>4, <3>2 DEF OthersKept
    <3>4. QED BY <3>3 DEF ContInv, LanesInv
  <2>2. lanes' # lanes =>
          nextToken'[r] \in Tokens /\ Append(cache'[r], nextToken'[r]) = Prompt[r] \o generated'[r]
    <3>1. /\ Prompt[r] \in Seq(Tokens) /\ generated[r] \in Seq(Tokens)
          /\ NextOf(r) \in Tokens
      BY <1>1, RequestFacts, NextOfType DEF Open
    <3>2. Append(Prompt[r] \o generated[r], NextOf(r)) = Prompt[r] \o Append(generated[r], NextOf(r))
      BY <3>1, AppendOfConcat
    <3>3. QED BY <1>6, <3>1, <3>2
  <2>3. \A q \in ToSet(stepped) \ {r} :
          cache'[q] = Prompt[q] \o generated'[q] /\ logits'[q] = NextOf(q)'
    <3>1. SUFFICES ASSUME NEW q \in ToSet(stepped) \ {r}
                   PROVE  cache'[q] = Prompt[q] \o generated'[q] /\ logits'[q] = NextOf(q)'
      OBVIOUS
    <3>2. q \in Requests \ {r}
      BY <1>8
    <3>3. /\ cache'[q] = cache[q] /\ generated'[q] = generated[q]
          /\ logits'[q] = logits[q] /\ NextOf(q)' = NextOf(q)
      BY <1>4, <3>2 DEF OthersKept, NextOf
    <3>4. cache[q] = Prompt[q] \o generated[q] /\ logits[q] = NextOf(q)
      BY DEF ContInv, LanesInv
    <3>5. QED BY <3>3, <3>4
  <2>4. \A q \in ToSet(lanes') :
          nextToken'[q] \in Tokens /\ Append(cache'[q], nextToken'[q]) = Prompt[q] \o generated'[q]
    <3>1. CASE lanes' = lanes
      BY <1>5, <2>1, <3>1
    <3>2. CASE lanes' # lanes
      BY <1>5, <2>1, <2>2, <3>2
    <3>3. QED BY <3>1, <3>2
  <2>5. \A q \in ToSet(stepped') :
          cache'[q] = Prompt[q] \o generated'[q] /\ logits'[q] = NextOf(q)'
    BY <2>3
  <2>6. QED BY <2>4, <2>5 DEF LanesInv
<1>16. LateInv'
  <2>1. late'[r] <= 1 /\ (~cancel => late'[r] = 0)
    BY <1>4
  <2>2. \A q \in Requests \ {r} : late'[q] = late[q]
    BY <1>4 DEF OthersKept
  <2>3. QED BY <2>1, <2>2 DEF ContInv, LateInv
<1>17. \A q \in Requests : StreamInv(q)'
  <2>1. \A q \in Requests \ {r} : StreamInv(q) /\ generated'[q] = generated[q] /\ out'[q] = out[q]
    BY <1>4 DEF ContInv, OthersKept
  <2>2. ASSUME NEW q \in Requests \ {r} PROVE StreamInv(q)'
    <3>1. StreamInv(q) /\ generated'[q] = generated[q] /\ out'[q] = out[q] /\ stream' = stream
      BY <2>1
    <3>2. QED BY <3>1 DEF StreamInv
  <2>3. QED BY <1>4, <2>2
<1>18. QED
  BY <1>9, <1>10, <1>11, <1>12, <1>13, <1>14, <1>15, <1>16, <1>17 DEF ContInv

LEMMA InvRecordLane ==
  ASSUME ContInv, RecordLane
  PROVE  ContInv'
<1> DEFINE r == Head(stepped)
<1>1. /\ pc = "record" /\ stepped # <<>> /\ stepped' = Tail(stepped)
      /\ RecordToken(r, logits[r], lanes)
      /\ UNCHANGED <<stream, cancel, pc, nextReq, cache, logits>>
  BY DEF RecordLane
<1>2. ContType /\ PlacesInv /\ stepped \in Seq(Requests) /\ Distinct(stepped)
  BY DEF ContInv, ContType, TypeOK, PlacesInv
<1>3. /\ r \in Requests /\ r \in ToSet(stepped)
      /\ stepped' \in Seq(Requests) /\ Len(stepped') = Len(stepped) - 1
      /\ Distinct(stepped') /\ ToSet(stepped') = ToSet(stepped) \ {r}
  BY <1>1, <1>2, TailPlaces
<1> HIDE DEF r
<1>4. Open(r) /\ logits[r] = NextOf(r) /\ cache[r] = Prompt[r] \o generated[r] /\ late[r] = 0
  BY <1>3 DEF ContInv, LiveInv, LanesInv, LateInv
<1>5. r \notin ToSet(lanes) /\ Queue' = Queue \ {r}
  BY <1>1, <1>2, <1>3 DEF PlacesInv, Queue
<1>6. Len(lanes) + 1 + Len(stepped') <= MaxBatch
  <2>1. Len(lanes) + Len(stepped) <= MaxBatch
    BY DEF ContInv, PhaseInv, SlotsUsed
  <2>2. Len(lanes) \in Nat /\ Len(stepped) \in Nat /\ MaxBatch \in Nat
    BY <1>2, LenProperties, MaxBatchAssumption DEF ContType, TypeOK
  <2>3. QED BY <1>3, <2>1, <2>2
<1>7. /\ nextReq' \in 1 .. NumRequests + 1 /\ cache' \in [Requests -> Seq(Tokens)]
      /\ logits' \in [Requests -> Tokens \cup {Junk}]
  BY <1>1, <1>2 DEF ContType, TypeOK
<1>8. QED BY <1>1, <1>3, <1>4, <1>5, <1>6, <1>7, InvRecord

LEMMA InvPrefill ==
  ASSUME ContInv, pc = "admit", FreeSlot, Prefill(nextReq), nextReq' = nextReq + 1,
         UNCHANGED <<stream, cancel, pc, stepped>>
  PROVE  ContInv'
<1> DEFINE r == nextReq
<1>1. /\ finish[r] = "None"
      /\ cache' = [cache EXCEPT ![r] = Prompt[r]]
      /\ logits' = [logits EXCEPT ![r] = Sampled(r, Prompt[r])]
      /\ RecordToken(r, Sampled(r, Prompt[r]), lanes)
  BY DEF Prefill
<1>2. /\ ContType /\ RecordType /\ PlacesInv /\ stepped = <<>>
      /\ cache \in [Requests -> Seq(Tokens)] /\ logits \in [Requests -> Tokens \cup {Junk}]
  BY TypeIsRecordType DEF ContInv, ContType, TypeOK, PhaseInv
<1>3. /\ r \in Requests /\ r \in Queue /\ nextReq' \in 1 .. NumRequests + 1
      /\ Queue' = Queue \ {r}
  BY <1>2, QueueShrinks DEF FreeSlot
<1> HIDE DEF r
<1>4. /\ generated[r] = <<>> /\ done[r] = <<>> /\ late[r] = 0 /\ StreamInv(r)
      /\ Prompt[r] \in Seq(Tokens) /\ Budget[r] \in Nat /\ Budget[r] # 0
  BY <1>1, <1>2, <1>3, RequestFacts DEF ContInv, QueuedInv
<1>5. Prompt[r] \o generated[r] = Prompt[r] /\ Len(generated[r]) < Budget[r]
  BY <1>4, ConcatEmptySeq, EmptySeq
<1>6. Sampled(r, Prompt[r]) = NextOf(r) /\ NextOf(r) \in Tokens
  <2>1. Sampled(r, Prompt[r] \o generated[r]) = NextOf(r)
    BY <1>2, <1>3, <1>4, <1>5, SampledNext
  <2>2. QED BY <1>2, <1>3, <1>5, <2>1, NextOfType
<1>7. Open(r)
  BY <1>1, <1>4, <1>5 DEF Open
<1>8. /\ cache' \in [Requests -> Seq(Tokens)] /\ cache'[r] = Prompt[r] \o generated[r]
      /\ logits' \in [Requests -> Tokens \cup {Junk}]
      /\ \A q \in Requests \ {r} : cache'[q] = cache[q] /\ logits'[q] = logits[q]
  BY <1>1, <1>2, <1>3, <1>4, <1>5, <1>6
<1>9. r \notin ToSet(lanes) /\ r \notin ToSet(stepped)
  BY <1>2, <1>3 DEF PlacesInv
<1>10. /\ stepped' \in Seq(Requests) /\ Distinct(stepped') /\ stepped' = <<>>
       /\ ToSet(stepped') = ToSet(stepped) \ {r}
  BY <1>2, <1>9, EmptyPlaces
<1>11. Len(lanes) + 1 + Len(stepped') <= MaxBatch
  <2>1. Len(lanes) \in Nat /\ MaxBatch \in Nat /\ Len(stepped') = 0 /\ Len(lanes) < MaxBatch
    BY <1>2, <1>10, LenProperties, EmptySeq, MaxBatchAssumption DEF ContType, TypeOK, FreeSlot
  <2>2. QED BY <2>1
<1>12. RecordToken(r, NextOf(r), lanes)
  BY <1>1, <1>6
<1>13. QED
  BY <1>3, <1>4, <1>7, <1>8, <1>9, <1>10, <1>11, <1>12, InvRecord

-----------------------------------------------------------------------------
(* A Done event without a token *)

LEMMA InvSignal ==
  ASSUME ContInv, NEW r \in Requests, NEW why \in Reasons, NEW count \in Nat,
         EmitDone(r, why, count), done[r] = <<>>,
         [reason |-> why, generated |-> count] = Agreed(r),
         UNCHANGED <<stream, cancel, pc, nextToken, generated, finish, out, late,
                     stepped, cache, logits>>,
         pc \in {"admit", "cancelled"},
         lanes' \in Seq(Requests), Distinct(lanes'), ToSet(lanes') = ToSet(lanes) \ {r},
         Len(lanes') <= Len(lanes),
         nextReq' \in 1 .. NumRequests + 1, Queue' = Queue \ {r}
  PROVE  ContInv'
<1>1. ContType /\ RecordType
  BY TypeIsRecordType DEF ContInv
<1>2. /\ done' \in [Requests -> Seq(DoneEvents)] /\ done'[r] = <<Agreed(r)>>
      /\ \A q \in Requests \ {r} : done'[q] = done[q]
  BY <1>1, EmitDoneFacts
<1>3. stepped = <<>> /\ ToSet(stepped) = {}
  BY EmptyPlaces DEF ContInv, PhaseInv
<1>4. \A q \in ToSet(lanes) \cup Queue : q \in Requests
  BY <1>1, LenProperties, ElementOfSeq DEF ContType, TypeOK, ToSet, Queue
<1>5. \A q \in Requests : Agreed(q)' = Agreed(q)
  BY DEF Agreed, OutputReason
<1>6. ContType'
  BY <1>1, <1>2 DEF ContType, TypeOK, RecordingTypeOK, DoneEvents, Reasons
<1>7. PhaseInv'
  <2>1. Len(lanes) \in Nat /\ Len(lanes') \in Nat /\ Len(stepped) = 0 /\ MaxBatch \in Nat
    BY <1>1, <1>3, LenProperties, EmptySeq, MaxBatchAssumption DEF ContType, TypeOK
  <2>2. Len(lanes') + Len(stepped') <= MaxBatch
    BY <2>1 DEF ContInv, PhaseInv, SlotsUsed
  <2>3. pc' = "cancelled" => cancel'
    BY DEF ContInv, PhaseInv
  <2>4. QED BY <1>3, <2>2, <2>3 DEF PhaseInv, SlotsUsed
<1>8. PlacesInv'
  BY <1>3, EmptyPlaces DEF ContInv, PlacesInv
<1>9. QueuedInv'
  BY <1>2, <1>4 DEF ContInv, QueuedInv
<1>10. LiveInv'
  <2>1. \A q \in ToSet(lanes') \cup ToSet(stepped') : q # r /\ Open(q) /\ q \in Requests
    BY <1>3, <1>4 DEF ContInv, LiveInv
  <2>2. QED BY <1>2, <2>1 DEF LiveInv, Open
<1>11. EndedInv'
  <2>1. SUFFICES ASSUME NEW q \in Requests, Gone(q)' PROVE done'[q] = <<Agreed(q)'>>
    BY DEF EndedInv
  <2>2. CASE q = r
    BY <1>2, <1>5, <2>2
  <2>3. CASE q # r
    <3>1. Gone(q) /\ pc # "failed"
      BY <2>1, <2>3 DEF Gone
    <3>2. done[q] = <<Agreed(q)>>
      BY <3>1 DEF ContInv, EndedInv
    <3>3. QED BY <1>2, <1>5, <2>3, <3>2
  <2>4. QED BY <2>2, <2>3
<1>12. LanesInv'
  BY <1>3 DEF ContInv, LanesInv
<1>13. LateInv'
  BY <1>3 DEF ContInv, LateInv
<1>14. \A q \in Requests : StreamInv(q)'
  BY DEF ContInv, StreamInv
<1>15. QED
  BY <1>6, <1>7, <1>8, <1>9, <1>10, <1>11, <1>12, <1>13, <1>14 DEF ContInv

(* A queued request, with what its Done event must say. *)
LEMMA QueuedFacts ==
  ASSUME ContInv, Queue # {}
  PROVE  LET r == nextReq
         IN /\ r \in Requests /\ r \in Queue /\ done[r] = <<>> /\ generated[r] = <<>>
            /\ Len(generated[r]) = 0 /\ Budget[r] \in Nat /\ StreamInv(r)
            /\ finish[r] # "None" =>
                 finish[r] = "Length" /\ Budget[r] = 0
                   /\ Agreed(r) = [reason |-> "MaxTokens", generated |-> 0]
            /\ finish[r] = "None" =>
                 Budget[r] # 0 /\ Agreed(r) = [reason |-> "Cancelled", generated |-> 0]
<1> DEFINE r == nextReq
<1>1. r \in Requests /\ r \in Queue
  BY QueueShrinks DEF ContInv
<1> HIDE DEF r
<1>2. /\ generated[r] = <<>> /\ done[r] = <<>> /\ StreamInv(r) /\ Len(<<>>) = 0
      /\ finish[r] = IF Budget[r] = 0 THEN "Length" ELSE "None"
      /\ Budget[r] \in Nat
  BY <1>1, BudgetAssumption, EmptySeq DEF ContInv, QueuedInv
<1>3. QED BY <1>1, <1>2 DEF r, Agreed, OutputReason

LEMMA InvAdmitRetired ==
  ASSUME ContInv, pc = "admit", FreeSlot, AdmitRetired(nextReq), nextReq' = nextReq + 1,
         UNCHANGED <<stream, cancel, pc, stepped>>
  PROVE  ContInv'
<1> DEFINE r == nextReq
<1>1. /\ finish[r] # "None" /\ EmitDone(r, "MaxTokens", 0)
      /\ UNCHANGED <<lanes, cache, logits, nextToken, generated, finish, out, late>>
      /\ Queue # {} /\ 0 \in Nat /\ "MaxTokens" \in Reasons
  BY DEF AdmitRetired, FreeSlot, Reasons
<1>2. /\ r \in Requests /\ r \in Queue /\ done[r] = <<>>
      /\ [reason |-> "MaxTokens", generated |-> 0] = Agreed(r)
  BY <1>1, QueuedFacts
<1>3. nextReq' \in 1 .. NumRequests + 1 /\ Queue' = Queue \ {r}
  BY <1>1, QueueShrinks DEF ContInv
<1>4. lanes \in Seq(Requests) /\ Distinct(lanes) /\ r \notin ToSet(lanes) /\ Len(lanes) \in Nat
  BY <1>2, LenProperties DEF ContInv, ContType, TypeOK, PlacesInv
<1> HIDE DEF r
<1>5. /\ lanes' \in Seq(Requests) /\ Distinct(lanes') /\ ToSet(lanes') = ToSet(lanes) \ {r}
      /\ Len(lanes') <= Len(lanes)
  BY <1>1, <1>4
<1>6. QED BY <1>1, <1>2, <1>3, <1>5, InvSignal

LEMMA InvCancelLane ==
  ASSUME ContInv, CancelLane
  PROVE  ContInv'
<1> DEFINE r == Head(lanes)
<1>1. /\ pc = "cancelled" /\ lanes # <<>> /\ lanes' = Tail(lanes)
      /\ EmitDone(r, "Cancelled", Len(generated[r]))
      /\ UNCHANGED <<stream, cancel, pc, stepped, nextReq, cache, logits, nextToken, out, late,
                     generated, finish>>
      /\ "Cancelled" \in Reasons
  BY DEF CancelLane, schedVars, Reasons
<1>2. ContType /\ RecordType /\ PlacesInv /\ lanes \in Seq(Requests) /\ Distinct(lanes)
  BY TypeIsRecordType DEF ContInv, ContType, TypeOK, PlacesInv
<1>3. /\ r \in Requests /\ r \in ToSet(lanes)
      /\ lanes' \in Seq(Requests) /\ Len(lanes') = Len(lanes) - 1
      /\ Distinct(lanes') /\ ToSet(lanes') = ToSet(lanes) \ {r}
  BY <1>1, <1>2, TailPlaces
<1> HIDE DEF r
<1>4. Open(r) /\ Len(generated[r]) \in Nat
  BY <1>2, <1>3, RequestFacts DEF ContInv, LiveInv
<1>5. done[r] = <<>> /\ [reason |-> "Cancelled", generated |-> Len(generated[r])] = Agreed(r)
  BY <1>4 DEF Open, Agreed, OutputReason
<1>6. Len(lanes') <= Len(lanes)
  BY <1>2, <1>3, LenProperties
<1>7. Queue' = Queue \ {r} /\ nextReq' \in 1 .. NumRequests + 1
  BY <1>1, <1>2, <1>3 DEF PlacesInv, Queue, ContType, TypeOK
<1>8. QED BY <1>1, <1>3, <1>4, <1>5, <1>6, <1>7, InvSignal

LEMMA InvCancelQueued ==
  ASSUME ContInv, CancelQueued
  PROVE  ContInv'
<1> DEFINE r == nextReq
           why == QueuedReason(r)
<1>1. /\ pc = "cancelled" /\ lanes = <<>> /\ Queue # {} /\ nextReq' = nextReq + 1
      /\ EmitDone(r, why, 0)
      /\ UNCHANGED <<stream, cancel, pc, lanes, stepped, cache, logits, nextToken, out, late,
                     generated, finish>>
      /\ 0 \in Nat
  BY DEF CancelQueued, schedVars
<1>2. /\ r \in Requests /\ r \in Queue /\ done[r] = <<>>
      /\ why \in Reasons /\ [reason |-> why, generated |-> 0] = Agreed(r)
  BY <1>1, QueuedFacts DEF QueuedReason, Reasons
<1>3. nextReq' \in 1 .. NumRequests + 1 /\ Queue' = Queue \ {r}
  BY <1>1, QueueShrinks DEF ContInv
<1>4. lanes \in Seq(Requests) /\ Distinct(lanes) /\ r \notin ToSet(lanes) /\ Len(lanes) \in Nat
  BY <1>2, LenProperties DEF ContInv, ContType, TypeOK, PlacesInv
<1> HIDE DEF r, why
<1>5. /\ lanes' \in Seq(Requests) /\ Distinct(lanes') /\ ToSet(lanes') = ToSet(lanes) \ {r}
      /\ Len(lanes') <= Len(lanes)
  BY <1>1, <1>4
<1>6. QED BY <1>1, <1>2, <1>3, <1>5, InvSignal

LEMMA InvStutter ==
  ASSUME ContInv, UNCHANGED vars
  PROVE  ContInv'
<1>1. UNCHANGED <<stream, cancel, pc, nextToken, generated, finish, out, done, late,
                  lanes, stepped, nextReq, cache, logits>>
  BY DEF vars
<1>2. ContType' /\ PhaseInv'
  BY <1>1 DEF ContInv, ContType, TypeOK, RecordingTypeOK, PhaseInv, SlotsUsed, Queue
<1>3. PlacesInv' /\ LiveInv' /\ QueuedInv' /\ LanesInv' /\ LateInv'
  BY <1>1 DEF ContInv, PlacesInv, LiveInv, QueuedInv, LanesInv, LateInv, Open, NextOf, Queue
<1>4. EndedInv'
  BY <1>1 DEF ContInv, EndedInv, Gone, Agreed, OutputReason, Queue
<1>5. \A r \in Requests : StreamInv(r)'
  BY <1>1 DEF ContInv, StreamInv
<1>6. QED BY <1>2, <1>3, <1>4, <1>5 DEF ContInv

LEMMA InvNext ==
  ASSUME ContInv, [Next]_vars
  PROVE  ContInv'
<1>1. CASE Admit
  <2>1. /\ pc = "admit" /\ FreeSlot /\ nextReq' = nextReq + 1
        /\ UNCHANGED <<stream, cancel, pc, stepped>>
        /\ AdmitRetired(nextReq) \/ Prefill(nextReq)
    BY <1>1 DEF Admit
  <2>2. QED BY <2>1, InvAdmitRetired, InvPrefill
<1>2. CASE Cancel \/ Start \/ SlotsFull \/ StepRecorded \/ LeaveLoop \/ AllSignalled
  BY <1>2, InvQuiet
<1>3. CASE Fail \/ StepLogits \/ RecordLane \/ CancelLane \/ CancelQueued
  BY <1>3, InvFail, InvForward, InvRecordLane, InvCancelLane, InvCancelQueued
<1>4. CASE UNCHANGED vars
  BY <1>4, InvStutter
<1>5. QED BY <1>1, <1>2, <1>3, <1>4 DEF Next, Engine

(* ContInv is an inductive invariant of the batch. *)
THEOREM ContinuousInvariant == Spec => []ContInv
<1>1. Init => ContInv
  BY InvInit
<1>2. ContInv /\ [Next]_vars => ContInv'
  BY InvNext
<1>3. QED BY <1>1, <1>2, PTL DEF Spec

-----------------------------------------------------------------------------
(* What follows from it *)

(* A list without repetitions has a request at one place or at none. *)
LEMMA PlaceCount ==
  ASSUME NEW list \in Seq(Requests), NEW r \in Requests, Distinct(list)
  PROVE  Cardinality({i \in DOMAIN list : list[i] = r}) = IF r \in ToSet(list) THEN 1 ELSE 0
<1> DEFINE places == {i \in DOMAIN list : list[i] = r}
<1>1. DOMAIN list = 1 .. Len(list) /\ Len(list) \in Nat
  BY LenProperties
<1>2. CASE r \in ToSet(list)
  <2>1. PICK i \in DOMAIN list : list[i] = r
    BY <1>1, <1>2 DEF ToSet
  <2>2. places = {i}
    BY <2>1 DEF Distinct
  <2>3. Cardinality({i}) = 1
    BY FS_Singleton
  <2>4. QED BY <1>2, <2>2, <2>3
<1>3. CASE r \notin ToSet(list)
  <2>1. places = {}
    BY <1>1, <1>3 DEF ToSet
  <2>2. QED BY <1>3, <2>1, FS_EmptySet
<1>4. QED BY <1>2, <1>3

(* The state of the batch has its type in every run. *)
THEOREM ContinuousTypeCorrect == Spec => []TypeOK
<1>1. ContInv => TypeOK
  BY DEF ContInv, ContType
<1>2. QED BY <1>1, ContinuousInvariant, PTL

(* No request is ever lost, decoded in two slots or signalled twice: each is *)
(* queued, or in one lane, or has its one Done event.                        *)
THEOREM EveryRequestInOnePlace == Spec => []OnePlace
<1>1. ASSUME ContInv PROVE OnePlace
  <2>1. TypeOK /\ PlacesInv /\ PhaseInv /\ lanes \in Seq(Requests) /\ stepped \in Seq(Requests)
    BY <1>1 DEF ContInv, ContType, TypeOK
  <2>2. SUFFICES ASSUME pc \notin {"failed", "refused"}, NEW r \in Requests
                 PROVE  Cardinality({i \in DOMAIN lanes : lanes[i] = r})
                          + Cardinality({i \in DOMAIN stepped : stepped[i] = r})
                          + Len(done[r]) + (IF r \in Queue THEN 1 ELSE 0) = 1
    BY <2>1 DEF OnePlace
  <2>3. /\ Cardinality({i \in DOMAIN lanes : lanes[i] = r}) = IF r \in ToSet(lanes) THEN 1 ELSE 0
        /\ Cardinality({i \in DOMAIN stepped : stepped[i] = r}) =
             IF r \in ToSet(stepped) THEN 1 ELSE 0
    BY <2>1, PlaceCount DEF PlacesInv
  <2>4. Len(done[r]) = IF r \in Queue \cup ToSet(lanes) \cup ToSet(stepped) THEN 0 ELSE 1
    <3>1. CASE Gone(r)
      <4>1. done[r] = <<Agreed(r)>>
        BY <1>1, <2>2, <3>1 DEF ContInv, EndedInv
      <4>2. QED BY <3>1, <4>1 DEF Gone
    <3>2. CASE ~Gone(r)
      <4>1. done[r] = <<>>
        BY <1>1, <3>2 DEF ContInv, Gone, QueuedInv, LiveInv, Open
      <4>2. QED BY <3>2, <4>1, EmptySeq DEF Gone
    <3>3. QED BY <3>1, <3>2
  <2>5. /\ ~(r \in ToSet(lanes) /\ r \in ToSet(stepped))
        /\ ~(r \in ToSet(lanes) /\ r \in Queue)
        /\ ~(r \in ToSet(stepped) /\ r \in Queue)
    BY <2>1 DEF PlacesInv
  <2>6. QED BY <2>3, <2>4, <2>5
<1>2. QED BY <1>1, ContinuousInvariant, PTL

(* When the batch returns, every request was signalled once, and its events  *)
(* say what its output says.                                                 *)
THEOREM DoneAgreesWithOutput == Spec => []OneDoneThatAgrees
<1>1. ASSUME ContInv, pc = "returned", NEW r \in Requests
      PROVE  /\ out[r] = generated[r]
             /\ done[r] = <<[reason |-> OutputReason(r), generated |-> Len(generated[r])]>>
  <2>1. stepped = <<>> /\ lanes = <<>> /\ Queue = {} /\ ToSet(<<>>) = {}
    BY <1>1, EmptyPlaces DEF ContInv, PhaseInv
  <2>2. Gone(r)
    BY <2>1 DEF Gone
  <2>3. QED BY <1>1, <2>2 DEF ContInv, EndedInv, StreamInv, Agreed
<1>2. ContInv => OneDoneThatAgrees
  BY <1>1 DEF OneDoneThatAgrees
<1>3. QED BY <1>2, ContinuousInvariant, PTL

(* A lane's cache is its own: the prompt and all its tokens but the one it   *)
(* feeds next.                                                               *)
THEOREM LanesKeepTheirCaches == Spec => []LanesInStep
<1>1. ContInv => LanesInStep
  BY DEF ContInv, LanesInv, LanesInStep
<1>2. QED BY <1>1, ContinuousInvariant, PTL

(* No decode step runs with a free slot while a request waits. *)
THEOREM BatchStaysFull == Spec => []SlotsUsed
<1>1. ContInv => SlotsUsed
  BY DEF ContInv, PhaseInv
<1>2. QED BY <1>1, ContinuousInvariant, PTL

(* After the cancel flag is set, a request streams one more token at most.   *)
THEOREM CancelIsPrompt == Spec => []AtMostOneLateToken
<1>1. ContInv => AtMostOneLateToken
  BY DEF ContInv, LateInv, AtMostOneLateToken
<1>2. QED BY <1>1, ContinuousInvariant, PTL

-----------------------------------------------------------------------------
(* The batch implements Generation *)

LEMMA AloneStep ==
  ASSUME ContInv, [Next]_vars
  PROVE  [Alone!Next]_(Alone!vars)
<1>1. RecordType
  BY TypeIsRecordType DEF ContInv
<1>2. CASE Cancel
  BY <1>2, AloneCancel DEF Cancel
<1>3. CASE Admit
  <2> DEFINE r == nextReq
  <2>1. /\ Queue # {} /\ UNCHANGED <<stream, cancel>> /\ "MaxTokens" \in Reasons
        /\ AdmitRetired(r) \/ Prefill(r)
    BY <1>3 DEF Admit, FreeSlot, Reasons
  <2>2. /\ r \in Requests /\ done[r] = <<>> /\ generated[r] = <<>> /\ Len(generated[r]) = 0
        /\ Budget[r] \in Nat /\ StreamInv(r)
        /\ finish[r] # "None" => Budget[r] = 0
        /\ finish[r] = "None" => Budget[r] # 0
    BY <2>1, QueuedFacts
  <2> HIDE DEF r
  <2>3. CASE AdmitRetired(r)
    <3>1. EmitDone(r, "MaxTokens", 0) /\ UNCHANGED <<stream, out, cancel>> /\ 0 \in Nat
          /\ Len(generated[r]) = Budget[r]
      BY <2>1, <2>2, <2>3 DEF AdmitRetired
    <3>2. QED BY <1>1, <2>2, <3>1, AloneDone
  <2>4. CASE Prefill(r)
    <3>1. finish[r] = "None" /\ RecordToken(r, Sampled(r, Prompt[r]), lanes)
      BY <2>4 DEF Prefill
    <3>2. Len(generated[r]) < Budget[r] /\ Open(r) /\ Prompt[r] \o generated[r] = Prompt[r]
      BY <1>1, <2>2, <3>1, RequestFacts, ConcatEmptySeq DEF Open
    <3>3. Sampled(r, Prompt[r]) = NextOf(r)
      BY <1>1, <2>2, <3>2, SampledNext
    <3>4. Retire(r, NextOf(r)) \/ Continues(r, NextOf(r))
      BY <3>1, <3>3 DEF RecordToken
    <3>5. QED BY <1>1, <2>1, <2>2, <3>2, <3>4, AloneRecord
  <2>5. QED BY <2>1, <2>3, <2>4
<1>4. CASE RecordLane
  <2> DEFINE r == Head(stepped)
  <2>1. /\ stepped # <<>> /\ RecordToken(r, logits[r], lanes) /\ UNCHANGED <<stream, cancel>>
        /\ stepped \in Seq(Requests) /\ Distinct(stepped)
    BY <1>4 DEF RecordLane, ContInv, ContType, TypeOK, PlacesInv
  <2>2. r \in Requests /\ r \in ToSet(stepped)
    BY <2>1, TailPlaces
  <2> HIDE DEF r
  <2>3. Open(r) /\ logits[r] = NextOf(r) /\ StreamInv(r)
    BY <2>2 DEF ContInv, LiveInv, LanesInv
  <2>4. Retire(r, NextOf(r)) \/ Continues(r, NextOf(r))
    BY <2>1, <2>3 DEF RecordToken
  <2>5. QED BY <1>1, <2>1, <2>2, <2>3, <2>4, AloneRecord
<1>5. CASE CancelLane
  <2> DEFINE r == Head(lanes)
  <2>1. /\ lanes # <<>> /\ EmitDone(r, "Cancelled", Len(generated[r])) /\ cancel
        /\ UNCHANGED <<stream, out, cancel>>
        /\ lanes \in Seq(Requests) /\ Distinct(lanes)
    BY <1>5 DEF CancelLane, ContInv, ContType, TypeOK, PlacesInv, PhaseInv
  <2>2. r \in Requests /\ r \in ToSet(lanes)
    BY <2>1, TailPlaces
  <2> HIDE DEF r
  <2>3. Open(r) /\ StreamInv(r)
    BY <2>2 DEF ContInv, LiveInv
  <2>4. done[r] = <<>> /\ Len(generated[r]) < Budget[r] /\ Len(generated[r]) \in Nat
    BY <1>1, <2>2, <2>3, RequestFacts DEF Open
  <2>5. QED BY <1>1, <2>1, <2>2, <2>3, <2>4, AloneDone
<1>6. CASE CancelQueued
  <2> DEFINE r == nextReq
  <2>1. /\ Queue # {} /\ EmitDone(r, QueuedReason(r), 0) /\ cancel /\ 0 \in Nat
        /\ UNCHANGED <<stream, out, cancel>>
    BY <1>6 DEF CancelQueued, ContInv, PhaseInv
  <2>2. /\ r \in Requests /\ done[r] = <<>> /\ Len(generated[r]) = 0
        /\ Budget[r] \in Nat /\ StreamInv(r)
        /\ finish[r] # "None" => finish[r] = "Length" /\ Budget[r] = 0
        /\ finish[r] = "None" => Budget[r] # 0
    BY <2>1, QueuedFacts
  <2> HIDE DEF r
  <2>3. \/ QueuedReason(r) = "MaxTokens" /\ Len(generated[r]) = Budget[r]
        \/ QueuedReason(r) = "Cancelled" /\ cancel /\ Len(generated[r]) < Budget[r]
    <3>1. CASE finish[r] = "None"
      BY <2>1, <2>2, <3>1 DEF QueuedReason
    <3>2. CASE finish[r] # "None"
      BY <2>2, <3>2 DEF QueuedReason
    <3>3. QED BY <3>1, <3>2
  <2>4. QED BY <1>1, <2>1, <2>2, <2>3, AloneDone
<1>7. CASE Start \/ SlotsFull \/ StepLogits \/ StepRecorded \/ LeaveLoop \/ Fail \/ AllSignalled
           \/ UNCHANGED vars
  <2>1. UNCHANGED <<stream, out, done, cancel>>
    BY <1>7 DEF Start, SlotsFull, StepLogits, StepRecorded, LeaveLoop, Fail, AllSignalled,
                MoveTo, Forward, eventVars, vars
  <2>2. QED BY <2>1, AloneStutter
<1>8. QED BY <1>2, <1>3, <1>4, <1>5, <1>6, <1>7 DEF Next, Engine

(* Continuous batching gives every request, token for token, what it would   *)
(* get alone: each step of the batch is one step of Generation for one       *)
(* request, or none.                                                         *)
THEOREM ContinuousImplementsGeneration == Spec => GenerationSpec
<1>1. Init => Alone!Init
  BY AloneInit DEF Init
<1>2. ContInv /\ [Next]_vars => [Alone!Next]_(Alone!vars)
  BY AloneStep
<1>3. QED BY <1>1, <1>2, ContinuousInvariant, PTL DEF Spec, GenerationSpec, Alone!Spec
=============================================================================
