-------------------------- MODULE ChatServerProofs --------------------------
(***************************************************************************)
(* Proofs about ChatServer and the TextPipeline under it, for any markers,  *)
(* stop strings and texts.                                                  *)
(*                                                                          *)
(* The filters are functions on the states of the pipe, and a text goes     *)
(* through one of them byte by byte.  The first half shows that each gives  *)
(* a state of the pipe again, whatever it holds back: CallInv.  ServerInv   *)
(* then relates what the sink of stream_chat has written to what the call   *)
(* has delivered: between two events they are equal, while an event is being*)
(* taken they differ by pipe.out, and after a write that failed the flag is *)
(* set and the client gone.                                                 *)
(***************************************************************************)
EXTENDS ChatServer, SequenceTheorems, FiniteSetTheorems, WellFoundedInduction, TLAPS

-----------------------------------------------------------------------------
(* Recursive functions *)

LEMMA LeastOfNonEmpty ==
  ASSUME NEW N \in SUBSET Nat, N # {}
  PROVE  \E x \in N : \A y \in N : x <= y
<1> DEFINE R == OpToRel(<, Nat)
<1>1. IsWellFoundedOn(R, Nat)
  BY NatLessThanWellFounded
<1>2. \A x, y \in Nat : y < x => <<y, x>> \in R
  BY DEF OpToRel
<1> HIDE DEF R
<1>3. PICK x \in N : \A y \in N : ~ (<<y, x>> \in R)
  BY <1>1, WFMin
<1>4. \A y \in N : ~ (y < x)
  BY <1>2, <1>3
<1>5. QED BY <1>4

(* From x in S, N steps can be taken one after another. *)
Runs(S, x, N, step) ==
  \E g \in [0 .. N -> S] : g[0] = x /\ \A n \in 1 .. N : g[n] = step[n][g[n - 1]]

LEMMA Recursion ==
  ASSUME NEW S, NEW x \in S, NEW N \in Nat, NEW step \in [1 .. N -> [S -> S]]
  PROVE  Runs(S, x, N, step)
<1> DEFINE Ok(k) == \E g \in [0 .. k -> S] : g[0] = x /\ \A n \in 1 .. k : g[n] = step[n][g[n - 1]]
           Bad   == {k \in 0 .. N : ~ Ok(k)}
<1>1. SUFFICES ASSUME Bad # {} PROVE FALSE
  <2>1. N \in 0 .. N
    OBVIOUS
  <2>2. Ok(N)
    BY <1>1, <2>1
  <2>3. QED BY <2>2 DEF Runs
<1>2. PICK k \in Bad : \A j \in Bad : k <= j
  <2>1. Bad \in SUBSET Nat
    OBVIOUS
  <2> HIDE DEF Bad
  <2>2. QED BY <1>1, <2>1, LeastOfNonEmpty
<1>3. CASE k = 0
  <2> DEFINE g == [n \in 0 .. 0 |-> x]
  <2>1. g \in [0 .. 0 -> S] /\ g[0] = x /\ \A n \in 1 .. 0 : g[n] = step[n][g[n - 1]]
    OBVIOUS
  <2>2. Ok(0)
    BY <2>1
  <2>3. QED BY <1>2, <1>3, <2>2
<1>4. CASE k # 0
  <2>1. k \in 1 .. N /\ k - 1 \in 0 .. N /\ ~ (k <= k - 1)
    BY <1>2, <1>4
  <2>2. Ok(k - 1)
    BY <1>2, <2>1
  <2>3. PICK g \in [0 .. k - 1 -> S] : g[0] = x /\ \A n \in 1 .. k - 1 : g[n] = step[n][g[n - 1]]
    BY <2>2
  <2> DEFINE h == [n \in 0 .. k |-> IF n = k THEN step[k][g[k - 1]] ELSE g[n]]
  <2>4. step[k] \in [S -> S] /\ g[k - 1] \in S
    BY <2>1, <2>3
  <2>5. h \in [0 .. k -> S]
    BY <2>1, <2>3, <2>4
  <2>6. h[0] = x
    BY <2>1, <2>3
  <2>7. ASSUME NEW n \in 1 .. k PROVE h[n] = step[n][h[n - 1]]
    <3>1. n - 1 \in 0 .. k - 1 /\ h[n - 1] = g[n - 1]
      BY <2>1
    <3>2. CASE n = k
      BY <3>1, <3>2
    <3>3. CASE n # k
      <4>1. n \in 1 .. k - 1 /\ h[n] = g[n]
        BY <2>1, <3>3
      <4>2. QED BY <2>3, <3>1, <4>1
    <3>4. QED BY <3>2, <3>3
  <2> HIDE DEF h
  <2>8. Ok(k)
    BY <2>5, <2>6, <2>7
  <2>9. QED BY <1>2, <2>8
<1>5. QED BY <1>3, <1>4

(* A function whose value at each place has its type if the one before has.  *)
LEMMA RecursionTyped ==
  ASSUME NEW S, NEW N \in Nat, NEW f, f[0] \in S,
         \A n \in 1 .. N : f[n - 1] \in S => f[n] \in S
  PROVE  f[N] \in S
<1> DEFINE Bad == {k \in 0 .. N : f[k] \notin S}
<1>1. SUFFICES ASSUME Bad # {} PROVE FALSE
  BY <1>1
<1>2. PICK k \in Bad : \A j \in Bad : k <= j
  <2>1. Bad \in SUBSET Nat
    OBVIOUS
  <2> HIDE DEF Bad
  <2>2. QED BY <1>1, <2>1, LeastOfNonEmpty
<1>3. k \in 1 .. N /\ k - 1 \in 0 .. N /\ ~ (k <= k - 1)
  BY <1>2
<1>4. f[k - 1] \in S
  BY <1>2, <1>3
<1>5. QED BY <1>2, <1>3, <1>4

(* A text goes through a stage to a state of the pipe. *)
LEMMA ThroughTyped ==
  ASSUME NEW stage \in [Pipe -> [Byte -> Pipe]], NEW p \in Pipe, NEW text \in Text
  PROVE  Through(stage, p, text) \in Pipe
<1>1. PICK N \in Nat : N = Len(text)
  BY LenProperties DEF Text
<1>2. \A n \in 1 .. N : text[n] \in Byte
  BY <1>1, ElementOfSeq DEF Text
<1> DEFINE step == [n \in 1 .. N |-> [q \in Pipe |-> stage[q][text[n]]]]
           Is(f) == f = [n \in 0 .. N |-> IF n = 0 THEN p ELSE stage[f[n - 1]][text[n]]]
           after == CHOOSE f : Is(f)
<1> HIDE DEF Pipe, Byte
<1>3. step \in [1 .. N -> [Pipe -> Pipe]]
  BY <1>2
<1>4. PICK g \in [0 .. N -> Pipe] : g[0] = p /\ \A n \in 1 .. N : g[n] = step[n][g[n - 1]]
  <2> HIDE DEF step
  <2>1. Runs(Pipe, p, N, step)
    BY <1>3, Recursion
  <2>2. QED BY <2>1 DEF Runs
<1>5. ASSUME NEW n \in 0 .. N PROVE g[n] = IF n = 0 THEN p ELSE stage[g[n - 1]][text[n]]
  <2>1. CASE n = 0
    BY <1>4, <2>1
  <2>2. CASE n # 0
    <3>1. n \in 1 .. N /\ n - 1 \in 0 .. N
      BY <2>2
    <3>2. g[n - 1] \in Pipe
      BY <1>4, <3>1
    <3>3. QED BY <1>4, <2>2, <3>1, <3>2
  <2>3. QED BY <2>1, <2>2
<1>6. Is(g)
  <2>1. DOMAIN g = 0 .. N /\ g = [n \in 0 .. N |-> g[n]]
    BY <1>4
  <2>2. QED BY <1>5, <2>1
<1>7. PICK a : a = after /\ Is(a)
  <2> HIDE DEF Is
  <2>1. QED BY <1>6
<1>8. a[0] \in Pipe
  <2>1. 0 \in 0 .. N
    OBVIOUS
  <2>2. QED BY <1>7, <2>1
<1>9. ASSUME NEW n \in 1 .. N, a[n - 1] \in Pipe PROVE a[n] \in Pipe
  <2>1. n \in 0 .. N /\ n # 0
    OBVIOUS
  <2>2. a[n] = stage[a[n - 1]][text[n]]
    BY <1>7, <2>1
  <2>3. QED BY <1>2, <1>9, <2>2
<1>10. a[N] \in Pipe
  BY <1>8, <1>9, RecursionTyped
<1>11. Through(stage, p, text) = a[N]
  BY <1>1, <1>7 DEF Through
<1>12. QED BY <1>10, <1>11

-----------------------------------------------------------------------------
(* Texts and the state of the pipe *)

LEMMA TextFacts ==
  /\ <<>> \in Text
  /\ \A text \in Text : Len(text) \in Nat /\ DOMAIN text = 1 .. Len(text)
                        /\ \A i \in 1 .. Len(text) : text[i] \in Byte
  /\ \A text \in Text, byte \in Byte : Append(text, byte) \in Text
  /\ \A s, t \in Text : s \o t \in Text
BY LenProperties, ElementOfSeq, AppendProperties, ConcatProperties, EmptySeq DEF Text

LEMMA SubTexts ==
  ASSUME NEW text \in Text, NEW n \in Nat
  PROVE  /\ Free(text, n) \in Text
         /\ n <= Len(text) => Kept(text, n) \in Text
         /\ SubSeq(text, n + 1, Len(text)) \in Text
<1>1. PICK len \in Nat : len = Len(text) /\ \A i \in 1 .. len : text[i] \in Byte
  BY TextFacts
<1>2. SubSeq(text, 1, len - n) \in Seq(Byte)
  BY <1>1, SubSeqProperties
<1>3. SubSeq(text, n + 1, len) \in Seq(Byte)
  BY <1>1, SubSeqProperties
<1>4. n <= len => SubSeq(text, len - n + 1, len) \in Seq(Byte)
  BY <1>1, SubSeqProperties
<1>5. QED BY <1>1, <1>2, <1>3, <1>4 DEF Free, Kept, Text

LEMMA MarkedTyped ==
  ASSUME NEW text \in Text, NEW channel \in {"Content", "Thinking"}
  PROVE  Marked(channel, text) \in Seq(Delta) /\ Len(Marked(channel, text)) = Len(text)
<1>1. PICK len \in Nat : len = Len(text) /\ DOMAIN text = 1 .. len /\ \A i \in 1 .. len : text[i] \in Byte
  BY TextFacts
<1>2. Marked(channel, text) \in [1 .. len -> Delta]
  BY <1>1 DEF Marked, Delta
<1>3. QED BY <1>1, <1>2, LenProperties

(* The fields of a pipe, each of its type, and what may be put into them. *)
LEMMA PipeFacts ==
  ASSUME NEW p \in Pipe
  PROVE  /\ p.thinking \in BOOLEAN /\ p.inBlock \in BOOLEAN /\ p.stopped \in BOOLEAN
         /\ p.heldThink \in Text /\ p.block \in Text /\ p.heldTool \in Text /\ p.heldStop \in Text
         /\ p.calls \in Seq(Text) /\ p.out \in Seq(Delta)
         /\ \A text \in Text : /\ [p EXCEPT !.heldThink = text] \in Pipe
                               /\ [p EXCEPT !.heldTool = text] \in Pipe
                               /\ [p EXCEPT !.heldStop = text] \in Pipe
                               /\ [p EXCEPT !.block = text] \in Pipe
         /\ \A out \in Seq(Delta) : [p EXCEPT !.out = out] \in Pipe
BY DEF Pipe

LEMMA ReleasedTyped ==
  ASSUME NEW p \in Pipe, NEW text \in Text, NEW channel \in {"Content", "Thinking"}
  PROVE  Released(p, channel, text) \in Pipe
<1>1. p.out \o Marked(channel, text) \in Seq(Delta)
  BY PipeFacts, MarkedTyped, ConcatProperties
<1>2. QED BY <1>1, PipeFacts DEF Released

LEMMA HeldLenTyped ==
  ASSUME NEW text \in Text, NEW markers \in SUBSET (Text \ {<<>>}), markers # {}
  PROVE  HeldLen(text, markers) \in 0 .. Len(text)
<1>1. PICK len \in Nat : len = Len(text)
  BY TextFacts
<1> DEFINE Held(n) == \E m \in markers :
                        n < Len(m) /\ SubSeq(text, Len(text) - n + 1, Len(text)) = SubSeq(m, 1, n)
           S == {n \in 0 .. len : Held(n)}
           R == {n \in 0 .. len : len - n \in S}
<1>2. 0 \in S
  <2>1. PICK m \in markers : Len(m) \in Nat /\ m # <<>>
    BY TextFacts
  <2>2. 0 < Len(m)
    BY <2>1, EmptySeq, LenProperties, TextFacts DEF Text
  <2>3. SubSeq(text, len + 1, len) = <<>> /\ SubSeq(m, 1, 0) = <<>>
    BY <1>1, TextFacts, SubSeqEmpty DEF Text
  <2>4. Held(0)
    BY <1>1, <2>2, <2>3
  <2>5. QED BY <2>4
<1> HIDE DEF Held
<1>3. len \in R
  BY <1>2
<1>4. PICK r \in R : \A q \in R : r <= q
  <2>1. R \in SUBSET Nat /\ R # {}
    BY <1>3
  <2> HIDE DEF R
  <2>2. QED BY <2>1, LeastOfNonEmpty
<1>5. /\ len - r \in S
      /\ \A n \in S : len - r >= n
  <2>1. \A n \in S : len - n \in R
    OBVIOUS
  <2>2. QED BY <1>4, <2>1
<1>6. Max(S) \in S
  BY <1>5 DEF Max
<1>7. HeldLen(text, markers) = Max(S)
  BY <1>1 DEF HeldLen, Held
<1>8. QED BY <1>1, <1>6, <1>7

-----------------------------------------------------------------------------
(* The stages *)

LEMMA SetupFacts ==
  ASSUME setup \in Setups \union {NoSetup}
  PROVE  /\ setup.thinking \in BOOLEAN /\ setup.primed \in BOOLEAN /\ setup.tools \in BOOLEAN
         /\ setup.stops \in SUBSET (Text \ {<<>>})
<1>1. CASE setup = NoSetup
  BY <1>1 DEF NoSetup
<1>2. CASE setup \in Setups
  <2>1. {setup.thinking, setup.primed, setup.tools} \subseteq BOOLEAN
    BY <1>2, SetupsAssumption
  <2>2. setup.stops \subseteq Text \ {<<>>}
    BY <1>2, SetupsAssumption
  <2>3. setup.thinking \in BOOLEAN /\ setup.primed \in BOOLEAN /\ setup.tools \in BOOLEAN
    BY <2>1
  <2>4. QED BY <2>2, <2>3
<1>3. QED BY <1>1, <1>2

(* A stage gives a state of the pipe for a state of the pipe and a byte.     *)
LEMMA EmitContentTyped ==
  ASSUME setup \in Setups \union {NoSetup}
  PROVE  EmitContent \in [Pipe -> [Byte -> Pipe]]
<1>1. ASSUME NEW p \in Pipe, NEW byte \in Byte
      PROVE  EmitContent[p][byte] \in Pipe
  <2> DEFINE text == Append(p.heldStop, byte)
             hits == {s \in setup.stops : IsSuffix(s, text)}
             hit  == CHOOSE s \in hits : TRUE
             n    == HeldLen(text, setup.stops)
             atStop == [Released(p, "Content", Free(text, Len(hit))) EXCEPT !.stopped = TRUE, !.heldStop = <<>>]
             past   == [Released(p, "Content", Free(text, n)) EXCEPT !.heldStop = Kept(text, n)]
  <2>1. text \in Text /\ <<byte>> \in Text
    <3>1. <<byte>> \in Text
      BY DEF Text
    <3>2. QED BY <3>1, PipeFacts, TextFacts
  <2>2. EmitContent[p][byte] = IF p.stopped THEN p
                               ELSE IF setup.stops = {} THEN Released(p, "Content", <<byte>>)
                               ELSE IF hits # {} THEN atStop ELSE past
    BY DEF EmitContent
  <2> HIDE DEF text
  <2>3. CASE p.stopped
    <3> HIDE DEF atStop, past
    <3>1. QED BY <2>2, <2>3
  <2>4. CASE ~ p.stopped /\ setup.stops = {}
    <3> HIDE DEF atStop, past
    <3>1. Released(p, "Content", <<byte>>) \in Pipe
      BY <2>1, ReleasedTyped
    <3>2. QED BY <2>2, <2>4, <3>1
  <2>5. CASE ~ p.stopped /\ setup.stops # {} /\ hits # {}
    <3>1. hit \in Text
      BY <2>5, SetupFacts
    <3> HIDE DEF hit
    <3>2. Len(hit) \in Nat
      BY <3>1, TextFacts
    <3>3. PICK q \in Pipe : q = Released(p, "Content", Free(text, Len(hit)))
      BY <2>1, <3>2, SubTexts, ReleasedTyped
    <3>4. [q EXCEPT !.stopped = TRUE, !.heldStop = <<>>] \in Pipe
      BY TextFacts DEF Pipe
    <3>5. atStop \in Pipe
      BY <3>3, <3>4
    <3> HIDE DEF atStop, past, hits
    <3>6. QED BY <2>2, <2>5, <3>5
  <2>6. CASE ~ p.stopped /\ setup.stops # {} /\ hits = {}
    <3>1. PICK m \in 0 .. Len(text) : m = n
      BY <2>1, <2>6, SetupFacts, HeldLenTyped
    <3>2. m \in Nat /\ m <= Len(text)
      BY <2>1, TextFacts
    <3>3. PICK q \in Pipe : q = Released(p, "Content", Free(text, m))
      BY <2>1, <3>2, SubTexts, ReleasedTyped
    <3>4. [q EXCEPT !.heldStop = Kept(text, m)] \in Pipe
      BY <2>1, <3>2, SubTexts, PipeFacts
    <3>5. past \in Pipe
      BY <3>1, <3>3, <3>4
    <3> HIDE DEF atStop, past, hits
    <3>6. QED BY <2>2, <2>6, <3>5
  <2>7. QED BY <2>3, <2>4, <2>5, <2>6
<1>2. EmitContent = [p \in Pipe |-> [byte \in Byte |-> EmitContent[p][byte]]]
  BY DEF EmitContent
<1>3. QED BY <1>1, <1>2

LEMMA ToolPiecesTyped ==
  ASSUME setup \in Setups \union {NoSetup}
  PROVE  ToolPieces \in [Pipe -> [Byte -> Pipe]]
<1>1. ASSUME NEW p \in Pipe, NEW byte \in Byte
      PROVE  ToolPieces[p][byte] \in Pipe
  <2> DEFINE text   == Append(p.heldTool, byte)
             marker == IF p.inBlock THEN CloseTool ELSE OpenTool
             n      == HeldLen(text, {marker})
             q      == [p EXCEPT !.heldTool = Kept(text, n)]
             turned == [p EXCEPT !.heldTool = <<>>, !.inBlock = ~@, !.block = <<>>,
                                 !.calls = IF p.inBlock THEN Append(@, p.block) ELSE @]
             within == [q EXCEPT !.block = @ \o Free(text, n)]
             past   == Through(EmitContent, q, Free(text, n))
  <2>1. text \in Text
    BY PipeFacts, TextFacts
  <2>2. ToolPieces[p][byte] = IF ~ setup.tools THEN EmitContent[p][byte]
                              ELSE IF text = marker THEN turned
                              ELSE IF p.inBlock THEN within ELSE past
    BY DEF ToolPieces
  <2>3. marker \in Text \ {<<>>}
    BY MarkersAssumption
  <2> HIDE DEF text, marker
  <2>4. PICK k \in 0 .. Len(text) : k = n
    BY <2>1, <2>3, HeldLenTyped
  <2>5. k \in Nat /\ k <= Len(text)
    BY <2>1, TextFacts
  <2>6. q \in Pipe /\ Free(text, n) \in Text
    BY <2>1, <2>4, <2>5, SubTexts, PipeFacts
  <2>7. EmitContent[p][byte] \in Pipe
    BY EmitContentTyped
  <2>8. turned \in Pipe
    <3>1. Append(p.calls, p.block) \in Seq(Text)
      BY PipeFacts, AppendProperties
    <3>2. PICK calls \in Seq(Text) : calls = IF p.inBlock THEN Append(p.calls, p.block) ELSE p.calls
      BY <3>1, PipeFacts
    <3>3. [p EXCEPT !.heldTool = <<>>, !.inBlock = ~@, !.block = <<>>, !.calls = calls] \in Pipe
      BY TextFacts DEF Pipe
    <3>4. turned = [p EXCEPT !.heldTool = <<>>, !.inBlock = ~@, !.block = <<>>, !.calls = calls]
      BY <3>2
    <3>5. QED BY <3>3, <3>4
  <2> HIDE DEF q, turned
  <2>9. within \in Pipe
    <3>1. q.block \o Free(text, n) \in Text
      BY <2>6, PipeFacts, TextFacts
    <3>2. QED BY <2>6, <3>1, PipeFacts
  <2>10. past \in Pipe
    BY <2>6, EmitContentTyped, ThroughTyped
  <2> HIDE DEF within, past
  <2>11. QED BY <2>2, <2>7, <2>8, <2>9, <2>10
<1>2. ToolPieces = [p \in Pipe |-> [byte \in Byte |-> ToolPieces[p][byte]]]
  BY DEF ToolPieces
<1>3. QED BY <1>1, <1>2

LEMMA SegmentTyped ==
  ASSUME setup \in Setups \union {NoSetup}
  PROVE  Segment \in [Pipe -> [Byte -> Pipe]]
<1>1. ASSUME NEW p \in Pipe, NEW byte \in Byte
      PROVE  Segment[p][byte] \in Pipe
  <2> DEFINE text   == Append(p.heldThink, byte)
             marker == IF p.thinking THEN CloseThink ELSE OpenThink
             n      == HeldLen(text, {marker})
             q      == [p EXCEPT !.heldThink = Kept(text, n)]
             turned == [p EXCEPT !.heldThink = <<>>, !.thinking = ~@]
             within == Released(q, "Thinking", Free(text, n))
             past   == Through(ToolPieces, q, Free(text, n))
  <2>1. text \in Text
    BY PipeFacts, TextFacts
  <2>2. Segment[p][byte] = IF ~ setup.thinking THEN ToolPieces[p][byte]
                           ELSE IF text = marker THEN turned
                           ELSE IF p.thinking THEN within ELSE past
    BY DEF Segment
  <2>3. marker \in Text \ {<<>>}
    BY MarkersAssumption
  <2> HIDE DEF text, marker
  <2>4. PICK k \in 0 .. Len(text) : k = n
    BY <2>1, <2>3, HeldLenTyped
  <2>5. k \in Nat /\ k <= Len(text)
    BY <2>1, TextFacts
  <2>6. q \in Pipe /\ Free(text, n) \in Text
    BY <2>1, <2>4, <2>5, SubTexts, PipeFacts
  <2>7. ToolPieces[p][byte] \in Pipe
    BY ToolPiecesTyped
  <2>8. turned \in Pipe
    BY TextFacts DEF Pipe
  <2> HIDE DEF q, turned
  <2>9. within \in Pipe
    BY <2>6, ReleasedTyped
  <2>10. past \in Pipe
    BY <2>6, ToolPiecesTyped, ThroughTyped
  <2> HIDE DEF within, past
  <2>11. QED BY <2>2, <2>7, <2>8, <2>9, <2>10
<1>2. Segment = [p \in Pipe |-> [byte \in Byte |-> Segment[p][byte]]]
  BY DEF Segment
<1>3. QED BY <1>1, <1>2

LEMMA FlushedTyped ==
  ASSUME setup \in Setups \union {NoSetup}, NEW p \in Pipe
  PROVE  Flushed(p) \in Pipe
<1>1. ASSUME NEW r \in Pipe PROVE FlushThink(r) \in Pipe
  <2> DEFINE q == [r EXCEPT !.heldThink = <<>>]
  <2>1. q \in Pipe /\ r.heldThink \in Text
    BY PipeFacts, TextFacts
  <2> HIDE DEF q
  <2>2. Released(q, "Thinking", r.heldThink) \in Pipe
    BY <2>1, ReleasedTyped
  <2>3. Through(ToolPieces, q, r.heldThink) \in Pipe
    BY <2>1, ToolPiecesTyped, ThroughTyped
  <2>4. QED BY <2>2, <2>3 DEF FlushThink, q
<1>2. ASSUME NEW r \in Pipe PROVE FlushTool(r) \in Pipe
  <2> DEFINE q    == [r EXCEPT !.heldTool = <<>>, !.block = <<>>, !.inBlock = FALSE]
             text == IF r.inBlock THEN OpenTool \o r.block \o r.heldTool ELSE r.heldTool
  <2>1. q \in Pipe
    BY TextFacts DEF Pipe
  <2>2. text \in Text
    <3>1. OpenTool \in Text
      BY MarkersAssumption
    <3>2. OpenTool \o r.block \in Text
      BY <3>1, PipeFacts, TextFacts
    <3>3. OpenTool \o r.block \o r.heldTool \in Text
      BY <3>2, PipeFacts, TextFacts
    <3>4. QED BY <3>3, PipeFacts
  <2> HIDE DEF q, text
  <2>3. Through(EmitContent, q, text) \in Pipe
    BY <2>1, <2>2, EmitContentTyped, ThroughTyped
  <2>4. QED BY <2>3 DEF FlushTool, q, text
<1>3. ASSUME NEW r \in Pipe PROVE FlushStop(r) \in Pipe
  <2>1. PICK q \in Pipe : q = Released(r, "Content", r.heldStop)
    BY PipeFacts, ReleasedTyped
  <2>2. [q EXCEPT !.heldStop = <<>>] \in Pipe
    BY TextFacts, PipeFacts
  <2>3. QED BY <2>1, <2>2 DEF FlushStop
<1>4. QED BY <1>1, <1>2, <1>3 DEF Flushed

-----------------------------------------------------------------------------
(* What the loop has generated, and what was said on a channel *)

LEMMA DecodeTyped ==
  ASSUME NEW text \in Text
  PROVE  Decode(text) \in Text
<1>1. CASE Complete(text)
  BY <1>1 DEF Decode
<1>2. CASE ~ Complete(text)
  <2>1. PICK len \in Nat : len = Len(text) /\ \A i \in 1 .. len : text[i] \in Byte
    BY TextFacts
  <2>2. text # <<>>
    BY <1>2 DEF Complete
  <2>3. len \in 1 .. len
    BY <2>1, <2>2, EmptySeq, LenProperties DEF Text
  <2>4. Last(text) \in Byte
    BY <2>1, <2>3 DEF Last
  <2>5. PICK k \in 1 .. 4 : k = Last(text)[2]
    BY <2>4 DEF Byte
  <2>6. Free(text, k) \in Text
    BY SubTexts
  <2>7. SubSeq(text, 1, Len(text) - Last(text)[2]) \in Text
    BY <2>5, <2>6 DEF Free
  <2>8. SubSeq(text, 1, Len(text) - Last(text)[2]) \o Replacement \in Text
    BY <2>7, MarkersAssumption, TextFacts
  <2>9. QED BY <1>2, <2>8 DEF Decode
<1>3. QED BY <1>1, <1>2

LEMMA FlattenTyped ==
  ASSUME NEW seqs \in Seq(Text)
  PROVE  FlattenSeq(seqs) \in Text
<1>1. PICK N \in Nat : N = Len(seqs)
  BY LenProperties
<1>2. CASE N = 0
  <2>1. seqs = <<>>
    BY <1>1, <1>2, EmptySeq
  <2>2. QED BY <1>1, <1>2, <2>1, TextFacts DEF FlattenSeq
<1>3. CASE N # 0
  <2>1. \A n \in 1 .. N : seqs[n] \in Text
    BY <1>1, ElementOfSeq
  <2> DEFINE step == [n \in 1 .. N |-> [t \in Text |-> t \o seqs[n]]]
             Is(f) == f = [i \in 1 .. N |-> IF i = 1 THEN seqs[i] ELSE f[i - 1] \o seqs[i]]
             flatten == CHOOSE f : Is(f)
  <2>2. step \in [1 .. N -> [Text -> Text]]
    BY <2>1, TextFacts
  <2>3. PICK g \in [0 .. N -> Text] : g[0] = <<>> /\ \A n \in 1 .. N : g[n] = step[n][g[n - 1]]
    <3> HIDE DEF step
    <3>1. Runs(Text, <<>>, N, step)
      BY <2>2, TextFacts, Recursion
    <3>2. QED BY <3>1 DEF Runs
  <2>4. ASSUME NEW n \in 1 .. N PROVE g[n] = IF n = 1 THEN seqs[n] ELSE g[n - 1] \o seqs[n]
    <3>1. n - 1 \in 0 .. N /\ g[n - 1] \in Text
      BY <2>3
    <3>2. g[n] = g[n - 1] \o seqs[n]
      BY <2>3, <3>1
    <3>3. <<>> \o seqs[n] = seqs[n]
      <4>1. PICK s \in Seq(Byte) : s = seqs[n]
        BY <2>1 DEF Text
      <4>2. QED BY <4>1, ConcatEmptySeq
    <3>4. n = 1 => g[n - 1] = <<>>
      BY <2>3
    <3>5. QED BY <3>2, <3>3, <3>4
  <2> DEFINE h == [n \in 1 .. N |-> g[n]]
  <2>5. Is(h)
    <3>1. ASSUME NEW n \in 1 .. N PROVE h[n] = IF n = 1 THEN seqs[n] ELSE h[n - 1] \o seqs[n]
      <4>1. CASE n = 1
        BY <2>4, <4>1
      <4>2. CASE n # 1
        <5>1. n - 1 \in 1 .. N
          BY <4>2
        <5>2. h[n - 1] = g[n - 1] /\ h[n] = g[n]
          BY <5>1
        <5>3. QED BY <2>4, <4>2, <5>2
      <4>3. QED BY <4>1, <4>2
    <3>2. DOMAIN h = 1 .. N /\ h = [n \in 1 .. N |-> h[n]]
      OBVIOUS
    <3> HIDE DEF h
    <3>3. QED BY <3>1, <3>2
  <2>6. PICK a : a = flatten /\ Is(a)
    <3> HIDE DEF Is, h
    <3>1. QED BY <2>5
  <2> DEFINE f == [n \in 0 .. N |-> IF n = 0 THEN <<>> ELSE a[n]]
  <2>7. f[0] \in Text
    BY TextFacts
  <2>8. ASSUME NEW n \in 1 .. N, f[n - 1] \in Text PROVE f[n] \in Text
    <3>1. n \in 0 .. N /\ n # 0 /\ f[n] = a[n]
      OBVIOUS
    <3>2. a[n] = IF n = 1 THEN seqs[n] ELSE a[n - 1] \o seqs[n]
      BY <2>6
    <3>3. CASE n = 1
      BY <2>1, <3>1, <3>2, <3>3
    <3>4. CASE n # 1
      <4>1. n - 1 \in 0 .. N /\ n - 1 # 0
        BY <3>4
      <4>2. a[n - 1] \in Text
        BY <2>8, <4>1
      <4>3. QED BY <2>1, <3>1, <3>2, <3>4, <4>2, TextFacts
    <3>5. QED BY <3>3, <3>4
  <2>9. f[N] \in Text
    <3> HIDE DEF f
    <3>1. QED BY <2>7, <2>8, RecursionTyped
  <2>10. f[N] = a[N]
    BY <1>3
  <2>11. FlattenSeq(seqs) = a[N]
    BY <1>1, <1>3, <2>6 DEF FlattenSeq
  <2>12. QED BY <2>9, <2>10, <2>11
<1>4. QED BY <1>2, <1>3

LEMMA GeneratedTyped ==
  ASSUME saying.pieces \in Seq(Text), NEW n \in 0 .. Len(saying.pieces)
  PROVE  Generated(n) \in Text /\ Len(Generated(n)) \in Nat
<1>1. PICK pieces \in Seq(Text) : pieces = saying.pieces
  OBVIOUS
<1>2. PICK first \in Seq(Text) : first = SubSeq(pieces, 1, n)
  <2>1. PICK len \in Nat : len = Len(pieces) /\ \A i \in 1 .. len : pieces[i] \in Text
    BY LenProperties, ElementOfSeq
  <2>2. n \in 0 .. len
    BY <1>1, <2>1
  <2>3. \A i \in 1 .. n : pieces[i] \in Text
    BY <2>1, <2>2
  <2>4. SubSeq(pieces, 1, n) \in Seq(Text)
    BY <2>2, <2>3, SubSeqProperties
  <2>5. QED BY <2>4
<1>3. PICK text \in Text : text = FlattenSeq(first)
  BY FlattenTyped
<1>4. Decode(text) \in Text
  BY DecodeTyped
<1>5. Generated(n) = Decode(text)
  BY <1>1, <1>2, <1>3 DEF Generated
<1>6. QED BY <1>4, <1>5, TextFacts

LEMMA SaidTyped ==
  ASSUME delivered \in Seq(Delta), NEW channel
  PROVE  Said(channel) \in Text
<1>1. PICK all \in Seq(Delta), N \in Nat : all = delivered /\ N = Len(all)
  BY LenProperties
<1>2. \A n \in 1 .. N : all[n].byte \in Byte
  <2>1. \A n \in 1 .. N : all[n] \in Delta
    BY <1>1, ElementOfSeq
  <2>2. QED BY <2>1 DEF Delta
<1> DEFINE More(n, t) == IF all[n].channel = channel THEN Append(t, all[n].byte) ELSE t
           step == [n \in 1 .. N |-> [t \in Text |-> More(n, t)]]
           Is(f) == f = [n \in 0 .. N |-> IF n = 0 THEN <<>>
                                          ELSE IF all[n].channel = channel THEN Append(f[n - 1], all[n].byte)
                                          ELSE f[n - 1]]
           said == CHOOSE f : Is(f)
<1>3. \A n \in 1 .. N, t \in Text : More(n, t) \in Text
  BY <1>2, TextFacts
<1>4. step \in [1 .. N -> [Text -> Text]]
  <2> HIDE DEF More
  <2>1. QED BY <1>3
<1>5. PICK g \in [0 .. N -> Text] : g[0] = <<>> /\ \A n \in 1 .. N : g[n] = step[n][g[n - 1]]
  <2> HIDE DEF step
  <2>1. Runs(Text, <<>>, N, step)
    BY <1>4, TextFacts, Recursion
  <2>2. QED BY <2>1 DEF Runs
<1>6. ASSUME NEW n \in 0 .. N PROVE g[n] = IF n = 0 THEN <<>> ELSE More(n, g[n - 1])
  <2> HIDE DEF More
  <2>1. CASE n = 0
    BY <1>5, <2>1
  <2>2. CASE n # 0
    <3>1. n \in 1 .. N /\ n - 1 \in 0 .. N
      BY <2>2
    <3>2. g[n - 1] \in Text
      BY <1>5, <3>1
    <3>3. QED BY <1>5, <2>2, <3>1, <3>2
  <2>3. QED BY <2>1, <2>2
<1>7. Is(g)
  <2>1. DOMAIN g = 0 .. N /\ g = [n \in 0 .. N |-> g[n]]
    BY <1>5
  <2>2. QED BY <1>6, <2>1
<1>8. PICK a : a = said /\ Is(a)
  <2> HIDE DEF Is
  <2>1. QED BY <1>7
<1>9. a[0] \in Text
  <2>1. 0 \in 0 .. N
    OBVIOUS
  <2>2. QED BY <1>8, <2>1, TextFacts
<1>10. ASSUME NEW n \in 1 .. N, a[n - 1] \in Text PROVE a[n] \in Text
  <2>1. n \in 0 .. N /\ n # 0
    OBVIOUS
  <2>2. a[n] = More(n, a[n - 1])
    BY <1>8, <2>1
  <2> HIDE DEF More
  <2>3. QED BY <1>3, <1>10, <2>2
<1>11. a[N] \in Text
  BY <1>9, <1>10, RecursionTyped
<1>12. Said(channel) = a[N]
  BY <1>1, <1>8 DEF Said
<1>13. QED BY <1>11, <1>12

-----------------------------------------------------------------------------
(* The invariant *)

CallInv ==
  /\ CallTypeOK
  /\ pc = "idle" => gen = 0 /\ shown = 0 /\ delivered = <<>>
  /\ pc = "returned" /\ Filtered => Said("Content") = output

(* Until a write fails, all that was delivered has been written but what is  *)
(* in the sink's hands.                                                      *)
UpToDate ==
  /\ pc \in {"event", "tailEvent"} => delivered = sent \o pipe.out
  /\ pc \notin {"event", "tailEvent", "panicked"} => delivered = sent

Serving ==
  \/ request = "complete" /\ replies = <<>> /\ sent = <<>>
  \/ request = "stream" /\ replies = <<"head", "role">> /\ (~ disconnected => UpToDate)

Answered ==
  CASE request = "stream" ->
         /\ replies = <<"head", "role", FinishReason, "[DONE]">>
         /\ sent = delivered
    [] request = "complete" ->
         /\ replies = <<FinishReason>>
         /\ pc = "returned" => sent = Marked("Content", output)
    [] OTHER -> replies = <<"response">>

ConnTypeOK ==
  /\ conn \in {"accept", "library", "reading", "answering", "serving", "closing"}
  /\ client \in {"none", "present", "gone"}
  /\ (conn \in {"accept", "library"}) = (client = "none")
  /\ pc # "idle" => conn \in {"library", "serving", "closing"}
  /\ sent \in Seq(Delta)

ServerInv ==
  /\ ConnTypeOK
  /\ disconnected => cancel /\ client = "gone" /\ conn \in {"serving", "closing"}
  /\ conn \notin {"serving", "closing"} => replies = <<>> /\ sent = <<>>
  /\ request = "stream" => IsPrefix(sent, delivered)
  /\ conn = "serving" => Serving
  /\ conn = "closing" /\ client = "present" => Answered

(* What was said depends on what was delivered alone. *)
LEMMA SaidKept ==
  ASSUME delivered' = delivered
  PROVE  Said("Content")' = Said("Content")
BY DEF Said

LEMMA CallFacts ==
  ASSUME CallInv
  PROVE  /\ setup \in Setups \union {NoSetup} /\ saying.pieces \in Seq(Text)
         /\ pipe \in Pipe /\ pipe.out \in Seq(Delta) /\ delivered \in Seq(Delta)
         /\ gen \in Nat /\ Len(saying.pieces) \in Nat /\ gen \in 0 .. Len(saying.pieces)
         /\ shown \in Nat /\ output \in Text
         /\ [pipe EXCEPT !.out = <<>>] \in Pipe
<1>1. Len(saying.pieces) \in Nat /\ <<>> \in Seq(Delta)
  BY LenProperties, EmptySeq DEF CallInv, CallTypeOK
<1>2. pipe \in Pipe
  BY DEF CallInv, CallTypeOK
<1>3. pipe.out \in Seq(Delta) /\ [pipe EXCEPT !.out = <<>>] \in Pipe
  BY <1>1, <1>2, PipeFacts
<1>4. gen \in 0 .. Len(saying.pieces)
  BY DEF CallInv, CallTypeOK
<1>5. gen \in Nat
  BY <1>1, <1>4
<1>6. QED BY <1>1, <1>3, <1>4, <1>5 DEF CallInv, CallTypeOK

LEMMA CallStutter ==
  ASSUME CallInv, UNCHANGED callVars
  PROVE  CallInv'
<1>1. Said("Content")' = Said("Content")
  BY SaidKept DEF callVars
<1>2. QED BY <1>1 DEF CallInv, CallTypeOK, callVars, Filtered

(* What the call does between two events. *)
LEMMA CallKeeps ==
  ASSUME CallInv, Call
  PROVE  /\ CallInv'
         /\ cancel' = cancel /\ (cancel => gen' = gen)
         /\ pc \in {"loop", "tails"} /\ pc' \notin {"idle", "returned"}
         /\ pipe'.out \in Seq(Delta)
         /\ \/ pc' \in {"event", "tailEvent", "panicked"} /\ delivered' = delivered \o pipe'.out
            \/ pc' \notin {"event", "tailEvent", "panicked"} /\ delivered' = delivered
<1>1. CASE NoToken
  BY <1>1, CallFacts DEF NoToken, EndLoop, CallInv, CallTypeOK
<1>2. CASE Token
  <2> DEFINE text == Generated(gen + 1)
             fresh == [pipe EXCEPT !.out = <<>>]
             rest == SubSeq(text, shown + 1, Len(text))
  <2>1. gen + 1 \in 0 .. Len(saying.pieces)
    BY <1>2, CallFacts DEF Token
  <2>2. text \in Text /\ Len(text) \in Nat
    BY <2>1, CallFacts, GeneratedTyped
  <2>3. fresh \in Pipe /\ rest \in Text
    BY <2>2, CallFacts, SubTexts
  <2>4. Through(Segment, fresh, rest) \in Pipe
    BY <2>3, CallFacts, SegmentTyped, ThroughTyped
  <2>5. /\ pipe' \in {fresh, Through(Segment, fresh, rest)}
        /\ shown' \in {shown, Len(text)}
        /\ pc' \in {"event", "panicked"}
    BY <1>2 DEF Token
  <2> HIDE DEF text, fresh, rest
  <2>6. pipe' \in Pipe /\ shown' \in Nat
    BY <2>2, <2>3, <2>4, <2>5, CallFacts
  <2>7. pipe'.out \in Seq(Delta)
    BY <2>6, PipeFacts
  <2>8. delivered' = delivered \o pipe'.out /\ delivered' \in Seq(Delta)
    BY <1>2, <2>7, CallFacts, ConcatProperties DEF Token
  <2>9. /\ pc = "loop" /\ ~ cancel /\ gen' = gen + 1
        /\ UNCHANGED <<setup, saying, cancel, reason, output>>
    BY <1>2 DEF Token
  <2>10. QED BY <2>1, <2>5, <2>6, <2>7, <2>8, <2>9 DEF CallInv, CallTypeOK
<1>3. CASE Fail
  BY <1>3, CallFacts DEF Fail, CallInv, CallTypeOK
<1>4. CASE Tails
  <2>1. pipe' \in Pipe
    BY <1>4, CallFacts, FlushedTyped DEF Tails
  <2>2. pipe'.out \in Seq(Delta)
    BY <2>1, PipeFacts
  <2>3. delivered' = delivered \o pipe'.out /\ delivered' \in Seq(Delta)
    BY <1>4, <2>2, CallFacts, ConcatProperties DEF Tails
  <2>4. QED BY <1>4, <2>1, <2>2, <2>3 DEF Tails, CallInv, CallTypeOK
<1>5. QED BY <1>1, <1>2, <1>3, <1>4 DEF Call

(* An event has been taken. *)
LEMMA ResumeKeeps ==
  ASSUME CallInv, Resume, UNCHANGED <<setup, saying, gen, shown, pipe, delivered>>, cancel' \in BOOLEAN
  PROVE  /\ CallInv'
         /\ pc \in {"event", "tailEvent"} /\ pc' \in {"loop", "tails", "returned"}
<1>1. CASE pc = "event"
  BY <1>1 DEF Resume, EndLoop, CallInv, CallTypeOK
<1>2. CASE pc # "event"
  <2>1. /\ pc = "tailEvent" /\ pc' = "returned" /\ UNCHANGED reason
        /\ output' = IF Filtered THEN Said("Content") ELSE Generated(gen)
    BY <1>2 DEF Resume
  <2>2. Said("Content") \in Text /\ Generated(gen) \in Text
    BY CallFacts, SaidTyped, GeneratedTyped
  <2>3. Said("Content")' = Said("Content") /\ (Filtered' = Filtered)
    BY SaidKept DEF Filtered
  <2>4. output' \in Text
    BY <2>1, <2>2
  <2>5. CallTypeOK'
    BY <2>1, <2>4 DEF CallInv, CallTypeOK
  <2>6. Filtered' => Said("Content")' = output'
    BY <2>1, <2>3
  <2>7. QED BY <2>1, <2>5, <2>6 DEF CallInv
<1>3. QED BY <1>1, <1>2

(* A call begins. *)
LEMMA BeginKeeps ==
  ASSUME CallInv, NEW flag \in BOOLEAN, Begin(flag),
         setup' \in Setups \union {NoSetup}, saying'.pieces \in Seq(Text)
  PROVE  /\ CallInv'
         /\ pc = "idle" /\ pc' \in {"loop", "refused"} /\ delivered = <<>>
         /\ UNCHANGED <<gen, delivered>>
<1>1. setup'.primed \in BOOLEAN
  <2>1. CASE setup' \in Setups
    <3>1. {setup'.thinking, setup'.primed, setup'.tools} \subseteq BOOLEAN
      BY <2>1, SetupsAssumption
    <3>2. QED BY <3>1
  <2>2. CASE setup' = NoSetup
    BY <2>2 DEF NoSetup
  <2>3. QED BY <2>1, <2>2
<1>2. FreshPipe \in Pipe
  <2>1. <<>> \in Text /\ <<>> \in Seq(Text) /\ <<>> \in Seq(Delta)
    BY TextFacts, EmptySeq
  <2>2. QED BY <2>1 DEF FreshPipe, Pipe
<1>3. Primed(setup') \in Pipe
  <2>1. \A b \in BOOLEAN : [FreshPipe EXCEPT !.thinking = b] \in Pipe
    BY <1>2 DEF Pipe
  <2>2. QED BY <1>1, <2>1 DEF Primed
<1>4. gen = 0 /\ Len(saying'.pieces) \in Nat
  BY LenProperties DEF Begin, CallInv
<1>5. QED BY <1>3, <1>4 DEF Begin, CallInv, CallTypeOK

(* A call is over. *)
LEMMA IdleKeeps ==
  ASSUME Idle
  PROVE  CallInv'
<1>1. <<>> \in Text /\ <<>> \in Seq(Text) /\ <<>> \in Seq(Delta) /\ Len(<<>>) = 0
  BY TextFacts, EmptySeq
<1>2. FreshPipe \in Pipe
  BY <1>1 DEF FreshPipe, Pipe
<1>3. NoSaying.pieces \in Seq(Text) /\ 0 \in 0 .. Len(NoSaying.pieces)
  BY <1>1 DEF NoSaying
<1>4. QED BY <1>1, <1>2, <1>3 DEF Idle, CallInv, CallTypeOK

LEMMA CallInit ==
  ASSUME IdleInit
  PROVE  CallInv
<1>1. <<>> \in Text /\ <<>> \in Seq(Text) /\ <<>> \in Seq(Delta) /\ Len(<<>>) = 0
  BY TextFacts, EmptySeq
<1>2. FreshPipe \in Pipe
  BY <1>1 DEF FreshPipe, Pipe
<1>3. NoSaying.pieces \in Seq(Text) /\ 0 \in 0 .. Len(NoSaying.pieces)
  BY <1>1 DEF NoSaying
<1>4. QED BY <1>1, <1>2, <1>3 DEF IdleInit, CallInv, CallTypeOK

-----------------------------------------------------------------------------
(* Beginnings of sequences *)

LEMMA PrefixPointwise ==
  ASSUME NEW s \in Seq(Delta), NEW t \in Seq(Delta)
  PROVE  /\ Len(s) \in Nat /\ Len(t) \in Nat
         /\ IsPrefix(s, t) <=> Len(s) <= Len(t) /\ \A i \in 1 .. Len(s) : s[i] = t[i]
<1>1. PICK m \in Nat, n \in Nat : m = Len(s) /\ n = Len(t)
  BY LenProperties
<1>2. /\ \A i \in 1 .. m : s[i] \in Delta
      /\ \A i \in 1 .. n : t[i] \in Delta
  BY <1>1, ElementOfSeq
<1>3. ASSUME m <= n PROVE SubSeq(s, 1, m) = SubSeq(t, 1, m) <=> \A i \in 1 .. m : s[i] = t[i]
  <2> DEFINE a == SubSeq(s, 1, m)
             b == SubSeq(t, 1, m)
  <2>1. /\ a \in Seq(Delta) /\ Len(a) = m /\ \A i \in 1 .. m : a[i] = s[i]
        /\ b \in Seq(Delta) /\ Len(b) = m /\ \A i \in 1 .. m : b[i] = t[i]
    BY <1>1, <1>2, <1>3, SubSeqProperties
  <2> HIDE DEF a, b
  <2>2. a = b <=> \A i \in 1 .. m : a[i] = b[i]
    BY <2>1, SeqEqual
  <2>3. a = b <=> \A i \in 1 .. m : s[i] = t[i]
    BY <2>1, <2>2
  <2>4. QED BY <2>3 DEF a, b
<1>4. QED BY <1>1, <1>3 DEF IsPrefix

LEMMA ConcatElements ==
  ASSUME NEW S, NEW s \in Seq(S), NEW t \in Seq(S)
  PROVE  /\ s \o t \in Seq(S) /\ Len(s \o t) = Len(s) + Len(t) /\ Len(s) \in Nat /\ Len(t) \in Nat
         /\ \A i \in 1 .. Len(s) : (s \o t)[i] = s[i]
         /\ \A i \in Len(s) + 1 .. Len(s) + Len(t) : (s \o t)[i] = t[i - Len(s)]
BY ConcatProperties, LenProperties

LEMMA PrefixGrows ==
  ASSUME NEW s \in Seq(Delta), NEW t \in Seq(Delta), NEW u \in Seq(Delta), IsPrefix(s, t)
  PROVE  IsPrefix(s, t \o u)
<1>1. Len(s) <= Len(t) /\ \A i \in 1 .. Len(s) : s[i] = t[i]
  BY PrefixPointwise
<1>2. PICK m \in Nat, n \in Nat, k \in Nat : m = Len(s) /\ n = Len(t) /\ k = Len(u)
  BY LenProperties
<1>3. PICK tu \in Seq(Delta) : /\ tu = t \o u /\ Len(tu) = n + k
                               /\ \A i \in 1 .. n : tu[i] = t[i]
  <2>1. PICK tu \in Seq(Delta) : tu = t \o u
    BY ConcatElements
  <2>2. Len(tu) = n + k /\ \A i \in 1 .. n : tu[i] = t[i]
    BY <1>2, <2>1, ConcatElements
  <2>3. QED BY <2>1, <2>2
<1>4. m <= Len(tu) /\ \A i \in 1 .. m : s[i] = tu[i]
  BY <1>1, <1>2, <1>3
<1>5. QED BY <1>2, <1>3, <1>4, PrefixPointwise

(* Writing the first k of the pieces in hand leaves a beginning of them all. *)
LEMMA PrefixWritten ==
  ASSUME NEW s \in Seq(Delta), NEW out \in Seq(Delta), NEW k \in 0 .. Len(out)
  PROVE  /\ s \o SubSeq(out, 1, k) \in Seq(Delta)
         /\ IsPrefix(s \o SubSeq(out, 1, k), s \o out)
         /\ k = Len(out) => SubSeq(out, 1, k) = out
<1>1. PICK m \in Nat, n \in Nat : m = Len(s) /\ n = Len(out)
  BY LenProperties
<1>2. \A i \in 1 .. n : out[i] \in Delta
  BY <1>1, ElementOfSeq
<1>3. k \in 0 .. n
  BY <1>1
<1>4. PICK w \in Seq(Delta) : /\ w = SubSeq(out, 1, k) /\ Len(w) = k
                              /\ \A i \in 1 .. k : w[i] = out[i]
  <2>1. \A i \in 1 .. k : out[i] \in Delta
    BY <1>2, <1>3
  <2>2. /\ SubSeq(out, 1, k) \in Seq(Delta) /\ Len(SubSeq(out, 1, k)) = k
        /\ \A i \in 1 .. k : SubSeq(out, 1, k)[i] = out[i]
    BY <1>3, <2>1, SubSeqProperties
  <2>3. QED BY <2>2
<1>5. PICK a \in Seq(Delta) : /\ a = s \o w /\ Len(a) = m + k
                              /\ \A i \in 1 .. m : a[i] = s[i]
                              /\ \A i \in m + 1 .. m + k : a[i] = w[i - m]
  <2>1. PICK a \in Seq(Delta) : a = s \o w
    BY ConcatElements
  <2>2. /\ Len(a) = m + k
        /\ \A i \in 1 .. m : a[i] = s[i]
        /\ \A i \in m + 1 .. m + k : a[i] = w[i - m]
    BY <1>1, <1>4, <2>1, ConcatElements
  <2>3. QED BY <2>1, <2>2
<1>6. PICK b \in Seq(Delta) : /\ b = s \o out /\ Len(b) = m + n
                              /\ \A i \in 1 .. m : b[i] = s[i]
                              /\ \A i \in m + 1 .. m + n : b[i] = out[i - m]
  <2>1. PICK b \in Seq(Delta) : b = s \o out
    BY ConcatElements
  <2>2. /\ Len(b) = m + n
        /\ \A i \in 1 .. m : b[i] = s[i]
        /\ \A i \in m + 1 .. m + n : b[i] = out[i - m]
    BY <1>1, <2>1, ConcatElements
  <2>3. QED BY <2>1, <2>2
<1>7. ASSUME NEW i \in 1 .. m + k PROVE a[i] = b[i]
  <2>1. CASE i <= m
    BY <1>5, <1>6, <2>1
  <2>2. CASE i > m
    <3>1. i \in m + 1 .. m + k /\ i \in m + 1 .. m + n /\ i - m \in 1 .. k
      BY <1>3, <2>2
    <3>2. QED BY <1>4, <1>5, <1>6, <3>1
  <2>3. QED BY <2>1, <2>2
<1>8. IsPrefix(a, b)
  <2>1. Len(a) <= Len(b) /\ \A i \in 1 .. Len(a) : a[i] = b[i]
    BY <1>3, <1>5, <1>6, <1>7
  <2>2. QED BY <2>1, PrefixPointwise
<1>9. k = n => w = out
  BY <1>1, <1>4, SeqEqual
<1>10. QED BY <1>1, <1>4, <1>5, <1>6, <1>8, <1>9

LEMMA EmptyPrefix ==
  ASSUME NEW t \in Seq(Delta)
  PROVE  <<>> \in Seq(Delta) /\ IsPrefix(<<>>, t)
<1>1. PICK s \in Seq(Delta) : s = <<>> /\ Len(s) = 0
  BY EmptySeq
<1>2. Len(s) <= Len(t) /\ \A i \in 1 .. Len(s) : s[i] = t[i]
  BY <1>1, LenProperties
<1>3. QED BY <1>1, <1>2, PrefixPointwise

LEMMA WholePair ==
  ASSUME NEW c, NEW d
  PROVE  SubSeq(<<c, d>>, 1, 2) = <<c, d>>
<1> DEFINE S == {c, d}
           t == <<c, d>>
<1>1. t \in Seq(S) /\ Len(t) = 2
  OBVIOUS
<1> HIDE DEF S, t
<1>2. \A i \in 1 .. 2 : t[i] \in S
  BY <1>1, ElementOfSeq
<1>3. /\ SubSeq(t, 1, 2) \in Seq(S) /\ Len(SubSeq(t, 1, 2)) = 2
      /\ \A i \in 1 .. 2 : SubSeq(t, 1, 2)[i] = t[i]
  BY <1>2, SubSeqProperties
<1>4. SubSeq(t, 1, 2) = t
  BY <1>1, <1>3, SeqEqual
<1>5. QED BY <1>4 DEF t

LEMMA TwoAndTwo ==
  ASSUME NEW a, NEW b, NEW c, NEW d
  PROVE  <<a, b>> \o SubSeq(<<c, d>>, 1, 2) = <<a, b, c, d>>
<1> DEFINE S == {a, b, c, d}
           s == <<a, b>>
           t == <<c, d>>
           r == <<a, b, c, d>>
<1>1. s \in Seq(S) /\ Len(s) = 2 /\ s[1] = a /\ s[2] = b
  OBVIOUS
<1>2. t \in Seq(S) /\ Len(t) = 2 /\ t[1] = c /\ t[2] = d
  OBVIOUS
<1>3. r \in Seq(S) /\ Len(r) = 4 /\ r[1] = a /\ r[2] = b /\ r[3] = c /\ r[4] = d
  OBVIOUS
<1> HIDE DEF S, s, t, r
<1>4. SubSeq(t, 1, 2) = t
  BY WholePair DEF t
<1>5. /\ s \o t \in Seq(S) /\ Len(s \o t) = 4
      /\ \A i \in 1 .. 2 : (s \o t)[i] = s[i]
      /\ \A i \in 3 .. 4 : (s \o t)[i] = t[i - 2]
  <2>1. /\ s \o t \in Seq(S) /\ Len(s \o t) = Len(s) + Len(t)
        /\ \A i \in 1 .. Len(s) : (s \o t)[i] = s[i]
        /\ \A i \in Len(s) + 1 .. Len(s) + Len(t) : (s \o t)[i] = t[i - Len(s)]
    BY <1>1, <1>2, ConcatElements
  <2>2. QED BY <1>1, <1>2, <2>1
<1>6. s \o t = r
  <2>1. (s \o t)[1] = a /\ (s \o t)[2] = b /\ (s \o t)[3] = c /\ (s \o t)[4] = d
    BY <1>1, <1>2, <1>5
  <2>2. \A i \in 1 .. 4 : (s \o t)[i] = r[i]
    <3>1. \A i \in 1 .. 4 : i = 1 \/ i = 2 \/ i = 3 \/ i = 4
      OBVIOUS
    <3>2. QED BY <1>3, <2>1, <3>1
  <2>3. QED BY <1>3, <1>5, <2>2, SeqEqual
<1>7. QED BY <1>4, <1>6 DEF s, t, r

-----------------------------------------------------------------------------
(* The server's steps *)

LEMMA ServerInit ==
  ASSUME Init
  PROVE  ServerInv /\ CallInv
<1>1. CallInv
  BY CallInit DEF Init
<1>2. <<>> \in Seq(Delta)
  BY EmptySeq
<1>3. pc = "idle"
  BY DEF Init, IdleInit
<1>4. QED BY <1>1, <1>2, <1>3 DEF Init, ServerInv, ConnTypeOK

(* Steps that leave the call alone *)
LEMMA QuietSteps ==
  ASSUME ServerInv, CallInv,
         Accept \/ ClientLeaves \/ ClientSends \/ ReadEnds \/ AnswerOther \/ ReplyComplete
           \/ ReplyStream
  PROVE  ServerInv' /\ CallInv'
<1>1. /\ ConnTypeOK /\ delivered \in Seq(Delta)
      /\ <<>> \in Seq(Delta) /\ IsPrefix(<<>>, delivered)
  BY CallFacts, EmptyPrefix DEF ServerInv
<1>2. CASE Accept
  <2>1. CallInv'
    BY <1>2, CallStutter DEF Accept
  <2>2. QED BY <1>2, <2>1 DEF Accept, callVars, ServerInv, ConnTypeOK
<1>3. CASE ClientLeaves
  <2>1. CallInv' /\ UNCHANGED <<pc, pipe, delivered, cancel, conn, request, disconnected, replies, sent>>
    BY <1>3, CallStutter DEF ClientLeaves, callVars
  <2>2. client = "present" /\ client' = "gone"
    BY <1>3 DEF ClientLeaves
  <2>3. Serving => Serving'
    BY <2>1 DEF Serving, UpToDate
  <2>4. QED BY <2>1, <2>2, <2>3 DEF ServerInv, ConnTypeOK
<1>4. CASE ClientSends
  <2>1. /\ conn = "reading" /\ conn' = "answering" /\ client = "present"
        /\ UNCHANGED <<cancel, pc, gen, shown, pipe, delivered, reason, output>>
        /\ UNCHANGED <<client, disconnected, replies, sent>>
    BY <1>4 DEF ClientSends
  <2>2. pc = "idle" /\ replies = <<>> /\ sent = <<>> /\ ~ disconnected
    BY <1>1, <2>1 DEF ServerInv, ConnTypeOK
  <2>3. setup' \in Setups \union {NoSetup} /\ saying'.pieces \in Seq(Text)
    <3>1. CASE UNCHANGED <<setup, saying>>
      BY <3>1, CallFacts
    <3>2. CASE setup' \in {u \in Setups : ~ u.tools} /\ saying' \in Sayings
      BY <3>2, SayingsAssumption
    <3>3. QED BY <1>4, <3>1, <3>2 DEF ClientSends
  <2>4. CallInv'
    <3>1. Len(saying'.pieces) \in Nat /\ gen = 0
      BY <2>2, <2>3, LenProperties DEF CallInv
    <3>2. QED BY <2>1, <2>2, <2>3, <3>1 DEF CallInv, CallTypeOK
  <2>5. IsPrefix(sent', delivered')
    BY <1>1, <2>1, <2>2
  <2>6. QED BY <1>1, <2>1, <2>2, <2>4, <2>5 DEF ServerInv, ConnTypeOK
<1>5. CASE ReadEnds
  <2>1. CallInv' /\ UNCHANGED pc
    BY <1>5, CallStutter DEF ReadEnds, callVars
  <2>2. pc = "idle"
    BY <1>1, <1>5 DEF ReadEnds, ConnTypeOK
  <2>3. QED BY <1>1, <1>5, <2>1, <2>2 DEF ReadEnds, Close, ServerInv, ConnTypeOK
<1>6. CASE AnswerOther
  <2>1. CallInv' /\ UNCHANGED <<pc, delivered, sent, client, request, disconnected>>
    BY <1>6, CallStutter DEF AnswerOther, callVars
  <2>2. /\ conn = "answering" /\ conn' = "closing" /\ request = "other"
        /\ pc = "idle" /\ ~ disconnected /\ client # "none"
    BY <1>1, <1>6 DEF AnswerOther, ServerInv, ConnTypeOK
  <2>3. client = "present" => replies' = <<"response">>
    BY <1>6 DEF AnswerOther, Writes
  <2>4. client = "present" => Answered'
    BY <2>1, <2>2, <2>3 DEF Answered
  <2>5. QED BY <1>1, <2>1, <2>2, <2>4 DEF ServerInv, ConnTypeOK
<1>7. CASE ReplyComplete
  <2>1. CallInv' /\ UNCHANGED <<pc, cancel, delivered, reason, output, client, request, disconnected>>
    BY <1>7, CallStutter DEF ReplyComplete, callVars
  <2>2. conn = "serving" /\ conn' = "closing" /\ request = "complete" /\ client # "none"
    BY <1>1, <1>7 DEF ReplyComplete, ConnTypeOK
  <2>3. PICK k \in Writes(1) :
          /\ replies' = IF k = 1 THEN <<FinishReason>> ELSE <<>>
          /\ sent' = IF k = 1 /\ pc = "returned" THEN Marked("Content", output) ELSE <<>>
    BY <1>7 DEF ReplyComplete
  <2>4. Marked("Content", output) \in Seq(Delta)
    BY CallFacts, MarkedTyped
  <2>5. sent' \in Seq(Delta)
    BY <1>1, <2>3, <2>4
  <2>6. client = "present" => k = 1
    BY <2>3 DEF Writes
  <2>7. client = "present" => Answered'
    BY <2>1, <2>2, <2>3, <2>6 DEF Answered, FinishReason
  <2>8. QED BY <1>1, <2>1, <2>2, <2>5, <2>7 DEF ServerInv, ConnTypeOK
<1>8. CASE ReplyStream
  <2>1. CallInv' /\ UNCHANGED <<pc, cancel, delivered, reason, client, request, disconnected, sent>>
    BY <1>8, CallStutter DEF ReplyStream, callVars
  <2>2. /\ conn = "serving" /\ conn' = "closing" /\ request = "stream" /\ client # "none"
        /\ pc \in {"returned", "refused", "failed"}
    BY <1>1, <1>8 DEF ReplyStream, Ended, ConnTypeOK
  <2>3. replies = <<"head", "role">> /\ (~ disconnected => sent = delivered)
    BY <2>2 DEF ServerInv, Serving, UpToDate
  <2>4. ASSUME client = "present" PROVE Answered'
    <3>1. ~ disconnected
      BY <2>4 DEF ServerInv
    <3>2. replies' = replies \o SubSeq(<<FinishReason, "[DONE]">>, 1, 2)
      BY <1>8, <2>4, <3>1 DEF ReplyStream, Writes
    <3>3. PICK why : why = FinishReason
      OBVIOUS
    <3>4. <<"head", "role">> \o SubSeq(<<why, "[DONE]">>, 1, 2) = <<"head", "role", why, "[DONE]">>
      BY TwoAndTwo
    <3>5. FinishReason' = why
      BY <2>1, <3>3 DEF FinishReason
    <3>6. QED BY <2>1, <2>2, <2>3, <3>1, <3>2, <3>3, <3>4, <3>5 DEF Answered
  <2>5. QED BY <1>1, <2>1, <2>2, <2>4 DEF ServerInv, ConnTypeOK
<1>9. QED BY <1>2, <1>3, <1>4, <1>5, <1>6, <1>7, <1>8

(* Steps of a call that a program makes directly *)
LEMMA LibrarySteps ==
  ASSUME ServerInv, CallInv, LibraryCall \/ LibraryCancel \/ LibraryEvent \/ LibraryReturn
  PROVE  ServerInv' /\ CallInv'
<1>1. /\ ConnTypeOK /\ delivered \in Seq(Delta)
      /\ <<>> \in Seq(Delta) /\ IsPrefix(<<>>, <<>>) /\ IsPrefix(<<>>, delivered)
  BY CallFacts, EmptyPrefix DEF ServerInv
<1>2. CASE LibraryCall
  <2>1. PICK flag \in BOOLEAN : Begin(flag)
    BY <1>2 DEF LibraryCall
  <2>2. setup' \in Setups \union {NoSetup} /\ saying'.pieces \in Seq(Text)
    BY <1>2, SayingsAssumption DEF LibraryCall
  <2>3. CallInv' /\ UNCHANGED delivered
    BY <2>1, <2>2, BeginKeeps
  <2>4. conn = "accept" /\ conn' = "library" /\ UNCHANGED <<client, request, disconnected, replies, sent>>
    BY <1>2 DEF LibraryCall
  <2>5. QED BY <1>1, <2>3, <2>4 DEF ServerInv, ConnTypeOK
<1>3. CASE LibraryCancel
  <2>1. /\ conn = "library" /\ cancel' = TRUE
        /\ UNCHANGED <<setup, saying, pc, gen, shown, pipe, delivered, reason, output>>
        /\ UNCHANGED <<conn, client, request, disconnected, replies, sent>>
    BY <1>3 DEF LibraryCancel, serverVars
  <2>2. Said("Content")' = Said("Content") /\ (Filtered' = Filtered)
    BY <2>1, SaidKept DEF Filtered
  <2>3. CallInv'
    BY <2>1, <2>2 DEF CallInv, CallTypeOK
  <2>4. QED BY <1>1, <2>1, <2>3 DEF ServerInv, ConnTypeOK
<1>4. CASE LibraryEvent
  <2>1. /\ conn = "library" /\ Resume
        /\ UNCHANGED <<setup, saying, cancel, gen, shown, pipe, delivered>>
        /\ UNCHANGED <<conn, client, request, disconnected, replies, sent>>
    BY <1>4 DEF LibraryEvent, serverVars
  <2>2. cancel' \in BOOLEAN
    BY <2>1 DEF CallInv, CallTypeOK
  <2>3. CallInv'
    BY <2>1, <2>2, ResumeKeeps
  <2>4. QED BY <1>1, <2>1, <2>3 DEF ServerInv, ConnTypeOK
<1>5. CASE LibraryReturn
  <2>1. CallInv' /\ pc' = "idle" /\ delivered' = <<>>
    BY <1>5, IdleKeeps DEF LibraryReturn, Idle
  <2>2. /\ conn = "library" /\ conn' = "accept"
        /\ UNCHANGED <<client, request, disconnected, replies, sent>>
    BY <1>5 DEF LibraryReturn
  <2>3. sent = <<>>
    BY <2>2 DEF ServerInv
  <2>4. IsPrefix(sent', delivered')
    BY <1>1, <2>1, <2>2, <2>3
  <2>5. QED BY <1>1, <2>1, <2>2, <2>4 DEF ServerInv, ConnTypeOK
<1>6. QED BY <1>2, <1>3, <1>4, <1>5

(* The call at work: what it delivers is in the sink's hands. *)
LEMMA ProviderStep ==
  ASSUME ServerInv, CallInv, Provider
  PROVE  ServerInv' /\ CallInv'
<1>1. /\ Call /\ conn \in {"library", "serving"}
      /\ UNCHANGED <<conn, client, request, disconnected, replies, sent>>
  BY DEF Provider, serverVars
<1>2. /\ CallInv' /\ cancel' = cancel
      /\ pc \in {"loop", "tails"} /\ pc' \notin {"idle", "returned"}
      /\ pipe'.out \in Seq(Delta)
      /\ \/ pc' \in {"event", "tailEvent", "panicked"} /\ delivered' = delivered \o pipe'.out
         \/ pc' \notin {"event", "tailEvent", "panicked"} /\ delivered' = delivered
  BY <1>1, CallKeeps
<1>3. ConnTypeOK /\ delivered \in Seq(Delta) /\ sent \in Seq(Delta)
  BY CallFacts DEF ServerInv, ConnTypeOK
<1>4. IsPrefix(sent, delivered) => IsPrefix(sent', delivered')
  <2>1. CASE delivered' = delivered
    BY <1>1, <2>1
  <2>2. CASE delivered' = delivered \o pipe'.out
    <3>1. PICK out \in Seq(Delta) : out = pipe'.out
      BY <1>2
    <3>2. IsPrefix(sent, delivered) => IsPrefix(sent, delivered \o out)
      BY <1>3, PrefixGrows
    <3>3. QED BY <1>1, <2>2, <3>1, <3>2
  <2>3. QED BY <1>2, <2>1, <2>2
<1>5. UpToDate => UpToDate'
  <2>1. UpToDate => delivered = sent
    BY <1>2 DEF UpToDate
  <2>2. QED BY <1>1, <1>2, <2>1 DEF UpToDate
<1>6. Serving => Serving'
  BY <1>1, <1>5 DEF Serving
<1>7. QED BY <1>1, <1>2, <1>3, <1>4, <1>6 DEF ServerInv, ConnTypeOK

(* The server begins a call. *)
LEMMA BeginSteps ==
  ASSUME ServerInv, CallInv, BeginComplete \/ BeginStream
  PROVE  ServerInv' /\ CallInv'
<1>1. /\ ConnTypeOK /\ delivered \in Seq(Delta)
      /\ <<>> \in Seq(Delta) /\ IsPrefix(<<>>, <<>>)
  BY CallFacts, EmptyPrefix DEF ServerInv
<1>2. /\ conn = "answering" /\ client # "none"
      /\ pc = "idle" /\ replies = <<>> /\ sent = <<>> /\ ~ disconnected
      /\ UNCHANGED <<client, request, disconnected, sent>>
  BY <1>1 DEF BeginComplete, BeginStream, ServerInv, ConnTypeOK
<1>3. delivered = <<>>
  BY <1>2 DEF CallInv
<1>4. ASSUME ServerCall
      PROVE  CallInv' /\ UNCHANGED delivered /\ pc' \in {"loop", "refused"}
  <2>1. Begin(FALSE) /\ UNCHANGED <<setup, saying>>
    BY <1>4 DEF ServerCall
  <2>2. setup' \in Setups \union {NoSetup} /\ saying'.pieces \in Seq(Text)
    BY <2>1, CallFacts
  <2>3. QED BY <2>1, <2>2, BeginKeeps
<1>5. CASE BeginComplete
  <2>1. ServerCall /\ request = "complete" /\ conn' = "serving" /\ UNCHANGED replies
    BY <1>5 DEF BeginComplete
  <2>2. QED BY <1>1, <1>2, <1>4, <2>1 DEF ServerInv, ConnTypeOK, Serving
<1>6. CASE BeginStream
  <2>1. PICK k \in Writes(2) :
          /\ replies' = SubSeq(<<"head", "role">>, 1, k)
          /\ IF k = 2 THEN ServerCall /\ conn' = "serving"
             ELSE conn' = "closing" /\ UNCHANGED callVars
    BY <1>6 DEF BeginStream
  <2>2. request = "stream"
    BY <1>6 DEF BeginStream
  <2>3. CASE k = 2
    <3>1. replies' = <<"head", "role">>
      BY <2>1, <2>3, WholePair
    <3>2. ServerCall /\ conn' = "serving"
      BY <2>1, <2>3
    <3>3. QED BY <1>1, <1>2, <1>3, <1>4, <2>2, <3>1, <3>2 DEF ServerInv, ConnTypeOK, Serving, UpToDate
  <2>4. CASE k # 2
    <3>1. client = "gone"
      BY <1>1, <1>2, <2>1, <2>4 DEF Writes
    <3>2. conn' = "closing" /\ UNCHANGED callVars
      BY <2>1, <2>4
    <3>3. CallInv' /\ UNCHANGED <<pc, delivered>>
      BY <3>2, CallStutter DEF callVars
    <3>4. QED BY <1>1, <1>2, <1>3, <2>2, <3>1, <3>2, <3>3 DEF ServerInv, ConnTypeOK
  <2>5. QED BY <2>3, <2>4
<1>7. QED BY <1>5, <1>6

(* The server's sinks take an event. *)
LEMMA EventSteps ==
  ASSUME ServerInv, CallInv, CompleteEvent \/ StreamEvent
  PROVE  ServerInv' /\ CallInv'
<1>1. /\ ConnTypeOK /\ delivered \in Seq(Delta) /\ sent \in Seq(Delta)
      /\ pipe.out \in Seq(Delta) /\ Len(pipe.out) \in Nat /\ cancel \in BOOLEAN
  BY CallFacts, LenProperties DEF ServerInv, ConnTypeOK, CallInv, CallTypeOK
<1>2. CASE CompleteEvent
  <2>1. /\ conn = "serving" /\ request = "complete" /\ Resume
        /\ UNCHANGED <<setup, saying, cancel, gen, shown, pipe, delivered>>
        /\ UNCHANGED <<conn, client, request, disconnected, replies, sent>>
    BY <1>2 DEF CompleteEvent, serverVars
  <2>2. CallInv'
    BY <1>1, <2>1, ResumeKeeps
  <2>3. Serving => Serving'
    BY <2>1 DEF Serving
  <2>4. QED BY <1>1, <2>1, <2>2, <2>3 DEF ServerInv, ConnTypeOK
<1>3. CASE StreamEvent
  <2>1. /\ conn = "serving" /\ request = "stream" /\ Resume
        /\ UNCHANGED <<setup, saying, gen, shown, pipe, delivered>>
        /\ UNCHANGED <<conn, client, request, replies>>
    BY <1>3 DEF StreamEvent
  <2>2. pc \in {"event", "tailEvent"}
    BY <2>1 DEF Resume
  <2>3. replies = <<"head", "role">> /\ (~ disconnected => delivered = sent \o pipe.out)
    BY <2>1, <2>2 DEF ServerInv, Serving, UpToDate
  <2>4. CASE disconnected
    <3>1. UNCHANGED <<cancel, disconnected, sent>>
      BY <1>3, <2>4 DEF StreamEvent
    <3>2. CallInv' /\ pc' \in {"loop", "tails", "returned"}
      BY <1>1, <2>1, <3>1, ResumeKeeps
    <3>3. Serving'
      BY <2>1, <2>3, <2>4, <3>1 DEF Serving
    <3>4. QED BY <1>1, <2>1, <3>1, <3>2, <3>3 DEF ServerInv, ConnTypeOK
  <2>5. CASE ~ disconnected
    <3>1. PICK k \in Writes(Len(pipe.out)) : SinkWrites(k)
      BY <1>3, <2>5 DEF StreamEvent
    <3>2. k \in 0 .. Len(pipe.out) /\ (client # "gone" => k = Len(pipe.out))
      BY <1>1, <3>1 DEF Writes
    <3>3. PICK out \in Seq(Delta) : out = pipe.out
      BY <1>1
    <3>4. /\ sent \o SubSeq(out, 1, k) \in Seq(Delta)
          /\ IsPrefix(sent \o SubSeq(out, 1, k), sent \o out)
          /\ k = Len(out) => SubSeq(out, 1, k) = out
      <4>1. k \in 0 .. Len(out)
        BY <3>2, <3>3
      <4>2. QED BY <1>1, <4>1, PrefixWritten
    <3>5. /\ sent' = sent \o SubSeq(out, 1, k)
          /\ disconnected' = (k < Len(out)) /\ cancel' = (cancel \/ k < Len(out))
      BY <3>1, <3>3 DEF SinkWrites
    <3>6. PICK failed \in BOOLEAN : failed = (k < Len(out))
      <4>1. (k < Len(out)) \in BOOLEAN
        OBVIOUS
      <4>2. QED BY <4>1, Zenon
    <3>7. (failed => client = "gone") /\ (~ failed => k = Len(out))
      <4>1. PICK n \in Nat : n = Len(out)
        BY <1>1, <3>3
      <4>2. k \in 0 .. n /\ (client # "gone" => k = n) /\ (failed <=> k < n)
        BY <3>2, <3>3, <3>6, <4>1
      <4>3. (failed => k # n) /\ (~ failed => k = n)
        BY <4>2
      <4>4. QED BY <4>1, <4>2, <4>3
    <3>8. disconnected' = failed /\ cancel' = (cancel \/ failed)
      BY <3>5, <3>6, Zenon
    <3>9. sent' \in Seq(Delta) /\ IsPrefix(sent', delivered')
      BY <2>1, <2>3, <2>5, <3>3, <3>4, <3>5
    <3>10. cancel' \in BOOLEAN /\ (disconnected' => cancel' /\ client = "gone")
      BY <1>1, <3>7, <3>8
    <3>11. ~ disconnected' => sent' = delivered'
      <4>1. ~ disconnected' => k = Len(out)
        BY <3>7, <3>8
      <4>2. QED BY <2>1, <2>3, <2>5, <3>3, <3>4, <3>5, <4>1
    <3>12. CallInv' /\ pc' \in {"loop", "tails", "returned"}
      BY <2>1, <3>10, ResumeKeeps
    <3>13. Serving'
      BY <2>1, <2>3, <3>11, <3>12 DEF Serving, UpToDate
    <3>14. QED BY <1>1, <2>1, <3>9, <3>10, <3>12, <3>13 DEF ServerInv, ConnTypeOK
  <2>6. QED BY <2>4, <2>5
<1>4. QED BY <1>2, <1>3

LEMMA ClosesStep ==
  ASSUME ServerInv, CallInv, Closes
  PROVE  ServerInv' /\ CallInv'
<1>1. CallInv' /\ pc' = "idle"
  BY IdleKeeps DEF Closes, Idle
<1>2. <<>> \in Seq(Delta)
  BY EmptySeq
<1>3. QED BY <1>1, <1>2 DEF Closes, Close, ServerInv, ConnTypeOK

LEMMA ServerNext ==
  ASSUME ServerInv, CallInv, [Next]_vars
  PROVE  ServerInv' /\ CallInv'
<1>1. CASE UNCHANGED vars
  <2>1. UNCHANGED callVars /\ UNCHANGED <<conn, client, request, disconnected, replies, sent>>
    BY <1>1 DEF vars, callVars
  <2>2. CallInv' /\ UNCHANGED <<pc, cancel, pipe, delivered, reason, output>>
    BY <2>1, CallStutter DEF callVars
  <2>3. (Serving => Serving') /\ (Answered => Answered')
    BY <2>1, <2>2 DEF Serving, UpToDate, Answered, FinishReason
  <2>4. QED BY <2>1, <2>2, <2>3 DEF ServerInv, ConnTypeOK
<1>2. CASE Next
  BY <1>2, QuietSteps, LibrarySteps, ProviderStep, BeginSteps, EventSteps, ClosesStep DEF Next, Write
<1>3. QED BY <1>1, <1>2

-----------------------------------------------------------------------------
(* Theorems *)

(* What is streamed is at any time a beginning of what was delivered, and a  *)
(* client that stays gets all of it and one proper end, whatever the text,   *)
(* the markers and the stop strings are: the sink of stream_chat and the     *)
(* replies of handle_chat.                                                   *)
THEOREM SpecWholeReply == Spec => []WholeReply
<1>1. ServerInv /\ CallInv => WholeReply
  <2>1. SUFFICES ASSUME ServerInv, CallInv PROVE WholeReply
    OBVIOUS
  <2>2. TypeOK
    BY <2>1 DEF ServerInv, ConnTypeOK, CallInv, TypeOK
  <2>3. request = "stream" => IsPrefix(sent, delivered)
    BY <2>1 DEF ServerInv
  <2>4. conn = "closing" /\ client = "present" => Answered
    BY <2>1 DEF ServerInv
  <2>5. pc = "returned" /\ Filtered => Said("Content") = output
    BY <2>1 DEF CallInv
  <2>6. QED BY <2>1, <2>2, <2>3, <2>4, <2>5 DEF WholeReply, Answered
<1>2. Init => ServerInv /\ CallInv
  BY ServerInit
<1>3. ServerInv /\ CallInv /\ [Next]_vars => (ServerInv /\ CallInv)'
  BY ServerNext
<1>4. QED BY <1>1, <1>2, <1>3, PTL DEF Spec

(* Not one token is generated after a write has failed: the doc comment of   *)
(* stream_chat, which promises that the decode loop stops promptly.          *)
THEOREM SpecCancelDisconnects == Spec => CancelDisconnects
<1>1. ASSUME ServerInv, CallInv, [Next]_vars
      PROVE  disconnected /\ conn' # "accept" => gen' = gen
  <2>1. SUFFICES ASSUME disconnected, conn' # "accept" PROVE gen' = gen
    OBVIOUS
  <2>2. cancel /\ conn \in {"serving", "closing"}
    BY <1>1, <2>1 DEF ServerInv
  <2>3. CASE UNCHANGED vars
    BY <2>3 DEF vars
  <2>4. CASE Provider
    <3>1. Call
      BY <2>4 DEF Provider
    <3>2. QED BY <1>1, <2>2, <3>1, CallKeeps
  <2>5. CASE LibraryCall \/ LibraryCancel \/ LibraryEvent \/ LibraryReturn
    BY <2>2, <2>5 DEF LibraryCall, LibraryCancel, LibraryEvent, LibraryReturn
  <2>6. CASE \/ Accept \/ ClientLeaves \/ ClientSends \/ ReadEnds
             \/ AnswerOther \/ ReplyComplete \/ ReplyStream
    BY <2>6 DEF Accept, ClientLeaves, ClientSends, ReadEnds, AnswerOther, ReplyComplete,
                ReplyStream, callVars
  <2>7. CASE BeginComplete \/ BeginStream
    BY <2>2, <2>7 DEF BeginComplete, BeginStream
  <2>8. CASE CompleteEvent \/ StreamEvent
    BY <2>8 DEF CompleteEvent, StreamEvent
  <2>9. CASE Closes
    BY <2>1, <2>9 DEF Closes, Close
  <2>10. QED BY <1>1, <2>3, <2>4, <2>5, <2>6, <2>7, <2>8, <2>9 DEF Next, Write
<1>2. Init => ServerInv /\ CallInv
  BY ServerInit
<1>3. ServerInv /\ CallInv /\ [Next]_vars => (ServerInv /\ CallInv)'
  BY ServerNext
<1>4. ServerInv /\ CallInv /\ [Next]_vars => [disconnected /\ conn' # "accept" => gen' = gen]_vars
  BY <1>1
<1>5. QED BY <1>2, <1>3, <1>4, PTL DEF Spec, CancelDisconnects

=============================================================================
