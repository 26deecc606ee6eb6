---------------------------- MODULE TextPipeline ----------------------------
(***************************************************************************)
(* LlamaProvider::generate of src/provider.rs, from the token ids of the    *)
(* decode loop to the text its caller sees: incremental detokenization, the *)
(* thinking segmenter, the tool-call segmenter and the stop matcher, each   *)
(* holding back what may be the beginning of a marker, and the tails that   *)
(* release it.  Some program runs one call at a time; what its on_event does*)
(* is for the module that extends this one to say (Resume).                 *)
(*                                                                          *)
(* Text is a sequence of bytes, <<s, i>> being the i-th byte of symbol s.   *)
(* How the text of one token is divided into events is left out.            *)
(*                                                                          *)
(* The segmenters and the matcher are external (core_llm), modelled from    *)
(* their use here: each releases all it has been given but the longest end  *)
(* that begins a marker, and after its stop string the matcher is silent.   *)
(***************************************************************************)
EXTENDS Integers, Sequences, FiniteSets, SequencesExt

CONSTANTS
  Width,        \* Width[s]: the bytes of symbol s in UTF-8
  Replacement,  \* the bytes of U+FFFD
  OpenThink, CloseThink, OpenTool, CloseTool,  \* the markers
  Setups,       \* what a request and its model may ask of the pipeline
  Sayings       \* what the loop may generate: pieces of text, and eos or not

ASSUME WidthAssumption == \A s \in DOMAIN Width : Width[s] \in 1 .. 4

Byte == {<<s, i>> : s \in DOMAIN Width, i \in 1 .. 4}
Text == Seq(Byte)

ASSUME MarkersAssumption ==
  /\ {OpenThink, CloseThink, OpenTool, CloseTool} \subseteq Text \ {<<>>}
  /\ Replacement \in Text
ASSUME SetupsAssumption ==
  \A u \in Setups : /\ {u.thinking, u.primed, u.tools} \subseteq BOOLEAN
                    /\ u.primed => u.thinking
                    /\ u.stops \subseteq Text \ {<<>>}
ASSUME SayingsAssumption ==
  \A w \in Sayings : w.pieces \in Seq(Text) /\ w.eos \in BOOLEAN

VARIABLES
  setup,      \* the filters of the call
  saying,     \* what the model says in it
  cancel,     \* the CancelFlag of the request
  pc,         \* where the call is
  gen,        \* how many tokens the loop has generated
  shown,      \* the bytes of decoded text passed on so far
  pipe,       \* the filters' state; pipe.out: what on_event is given now
  delivered,  \* all that on_event was given, by channel
  reason,     \* the finish reason of the loop
  output      \* the text of the TextLlmOutput

callVars == <<setup, saying, cancel, pc, gen, shown, pipe, delivered, reason, output>>

(* pipe.thinking and pipe.inBlock are the segmenters' modes, the three held  *)
(* texts what each stage keeps back, stopped the latch `halt`.               *)
FreshPipe ==
  [thinking |-> FALSE, heldThink |-> <<>>, inBlock |-> FALSE, block |-> <<>>, heldTool |-> <<>>,
   calls |-> <<>>, heldStop |-> <<>>, stopped |-> FALSE, out |-> <<>>]

NoSetup  == [thinking |-> FALSE, primed |-> FALSE, tools |-> FALSE, stops |-> {}]
NoSaying == [pieces |-> <<>>, eos |-> FALSE]

Delta == [channel : {"Content", "Thinking"}, byte : Byte]

Pipe ==
  [thinking : BOOLEAN, heldThink : Text, inBlock : BOOLEAN, block : Text, heldTool : Text,
   calls : Seq(Text), heldStop : Text, stopped : BOOLEAN,
   out : Seq(Delta)]

IdleInit ==
  /\ setup = NoSetup /\ saying = NoSaying
  /\ cancel = FALSE
  /\ pc = "idle"
  /\ gen = 0 /\ shown = 0
  /\ pipe = FreshPipe
  /\ delivered = <<>>
  /\ reason = "None"
  /\ output = <<>>

(* The call is over and its state is dropped. *)
Idle ==
  /\ setup' = NoSetup /\ saying' = NoSaying
  /\ cancel' = FALSE
  /\ pc' = "idle"
  /\ gen' = 0 /\ shown' = 0
  /\ pipe' = FreshPipe
  /\ delivered' = <<>>
  /\ reason' = "None"
  /\ output' = <<>>

-----------------------------------------------------------------------------
(* Detokenization *)

Complete(text) == text = <<>> \/ Last(text)[2] = Width[Last(text)[1]]

(* Tokenizer::decode: a symbol whose last bytes are still to come is one     *)
(* replacement character.                                                    *)
Decode(text) ==
  IF Complete(text) THEN text
  ELSE SubSeq(text, 1, Len(text) - Last(text)[2]) \o Replacement

Generated(n) == Decode(FlattenSeq(SubSeq(saying.pieces, 1, n)))

(* Slicing a str at a byte index panics unless a symbol begins there. *)
IsCharBoundary(text, n) == n = Len(text) \/ text[n + 1][2] = 1

-----------------------------------------------------------------------------
(* The filters *)

Marked(channel, text) == [i \in DOMAIN text |-> [channel |-> channel, byte |-> text[i]]]

Released(p, channel, text) == [p EXCEPT !.out = @ \o Marked(channel, text)]

(* The length of the longest end of text that begins one of the markers.     *)
HeldLen(text, markers) ==
  Max({n \in 0 .. Len(text) : \E m \in markers :
         n < Len(m) /\ SubSeq(text, Len(text) - n + 1, Len(text)) = SubSeq(m, 1, n)})

Free(text, n) == SubSeq(text, 1, Len(text) - n)
Kept(text, n) == SubSeq(text, Len(text) - n + 1, Len(text))

(* A text through a stage, byte by byte. *)
Through(stage, p, text) ==
  LET after[n \in 0 .. Len(text)] == IF n = 0 THEN p ELSE stage[after[n - 1]][text[n]]
  IN after[Len(text)]

(* emit_content: one byte through the stop matcher. *)
EmitContent[p \in Pipe] == [byte \in Byte |->
  LET text == Append(p.heldStop, byte)
      hits == {s \in setup.stops : IsSuffix(s, text)}
  IN IF p.stopped THEN p
     ELSE IF setup.stops = {} THEN Released(p, "Content", <<byte>>)
     ELSE IF hits # {}
          THEN [Released(p, "Content", Free(text, Len(CHOOSE s \in hits : TRUE)))
                  EXCEPT !.stopped = TRUE, !.heldStop = <<>>]
          ELSE LET n == HeldLen(text, setup.stops)
               IN [Released(p, "Content", Free(text, n)) EXCEPT !.heldStop = Kept(text, n)]]

(* tool_pieces: one byte of the answer through the tool segmenter.  A block  *)
(* is lifted out and becomes a call when it closes.                          *)
ToolPieces[p \in Pipe] == [byte \in Byte |->
  LET text   == Append(p.heldTool, byte)
      marker == IF p.inBlock THEN CloseTool ELSE OpenTool
      n      == HeldLen(text, {marker})
      q      == [p EXCEPT !.heldTool = Kept(text, n)]
  IN IF ~setup.tools THEN EmitContent[p][byte]
     ELSE IF text = marker
          THEN [p EXCEPT !.heldTool = <<>>, !.inBlock = ~@, !.block = <<>>,
                         !.calls = IF p.inBlock THEN Append(@, p.block) ELSE @]
     ELSE IF p.inBlock THEN [q EXCEPT !.block = @ \o Free(text, n)]
     ELSE Through(EmitContent, q, Free(text, n))]

(* One byte of decoded text through the thinking segmenter. *)
Segment[p \in Pipe] == [byte \in Byte |->
  LET text   == Append(p.heldThink, byte)
      marker == IF p.thinking THEN CloseThink ELSE OpenThink
      n      == HeldLen(text, {marker})
      q      == [p EXCEPT !.heldThink = Kept(text, n)]
  IN IF ~setup.thinking THEN ToolPieces[p][byte]
     ELSE IF text = marker THEN [p EXCEPT !.heldThink = <<>>, !.thinking = ~@]
     ELSE IF p.thinking THEN Released(q, "Thinking", Free(text, n))
     ELSE Through(ToolPieces, q, Free(text, n))]

(* The tails, in pipeline order: the thinking segmenter's ... *)
FlushThink(p) ==
  LET q == [p EXCEPT !.heldThink = <<>>]
  IN IF p.thinking THEN Released(q, "Thinking", p.heldThink)
     ELSE Through(ToolPieces, q, p.heldThink)

(* ... the tool segmenter's, an unterminated block included ... *)
FlushTool(p) ==
  Through(EmitContent, [p EXCEPT !.heldTool = <<>>, !.block = <<>>, !.inBlock = FALSE],
           IF p.inBlock THEN OpenTool \o p.block \o p.heldTool ELSE p.heldTool)

(* ... and the stop matcher's, unless a stop string was met. *)
FlushStop(p) ==
  IF p.stopped THEN p ELSE [Released(p, "Content", p.heldStop) EXCEPT !.heldStop = <<>>]

(* Mutant: the stop matcher is flushed before the segmenters feed it. *)
Flushed_StopFirst(p) == FlushTool(FlushThink(FlushStop(p)))

Flushed(p) == FlushStop(FlushTool(FlushThink(p)))

-----------------------------------------------------------------------------
(* The call *)

(* Mutant: a prompt that opens the thinking block is not taken into account. *)
Primed_Never(u) == FreshPipe

(* When the prompt opens the thinking block the segmenter is fed the marker. *)
Primed(u) == [FreshPipe EXCEPT !.thinking = u.primed]

(* A call with the new setup; one whose flag is set already is refused. *)
Begin(flag) ==
  /\ pc = "idle"
  /\ cancel' = flag
  /\ pipe' = Primed(setup')
  /\ pc' = IF flag THEN "refused" ELSE "loop"
  /\ UNCHANGED <<gen, shown, delivered, reason, output>>

Budget == Len(saying.pieces) + (IF saying.eos THEN 1 ELSE 0)

EndLoop(why) ==
  /\ reason' = why
  /\ pc' = "tails"

(* The top of the loop: the budget, the flag and the stop token. *)
NoToken ==
  /\ pc = "loop"
  /\ \/ gen = Budget /\ EndLoop("MaxTokens")
     \/ gen < Budget /\ cancel /\ EndLoop("Cancelled")
     \/ gen < Budget /\ ~cancel /\ gen = Len(saying.pieces) /\ EndLoop("StopToken")
  /\ UNCHANGED <<setup, saying, cancel, gen, shown, pipe, delivered, output>>

(* The sink is given a token: the text it adds is sliced off and filtered.   *)
Token ==
  /\ pc = "loop"
  /\ ~cancel
  /\ gen < Len(saying.pieces)
  /\ gen' = gen + 1
  /\ \E text \in {Generated(gen + 1)} :
       IF Len(text) > shown
       THEN /\ shown' = Len(text)
            /\ pc' = IF IsCharBoundary(text, shown) THEN "event" ELSE "panicked"
            /\ pipe' = Through(Segment, [pipe EXCEPT !.out = <<>>], SubSeq(text, shown + 1, Len(text)))
       ELSE /\ pc' = "event"
            /\ pipe' = [pipe EXCEPT !.out = <<>>]
            /\ UNCHANGED shown
  /\ delivered' = delivered \o pipe'.out
  /\ UNCHANGED <<setup, saying, cancel, reason, output>>

(* A forward or a sample returns an error, which leaves through `?`.         *)
Fail ==
  /\ pc = "loop"
  /\ ~cancel
  /\ gen < Budget
  /\ pc' = "failed"
  /\ UNCHANGED <<setup, saying, cancel, gen, shown, pipe, delivered, reason, output>>

Tails ==
  /\ pc = "tails"
  /\ pipe' = Flushed([pipe EXCEPT !.out = <<>>])
  /\ delivered' = delivered \o pipe'.out
  /\ pc' = "tailEvent"
  /\ UNCHANGED <<setup, saying, cancel, gen, shown, reason, output>>

Filtered == setup.thinking \/ setup.tools \/ setup.stops # {}

(* What was delivered on a channel. *)
Said(channel) ==
  LET said[n \in 0 .. Len(delivered)] ==
        IF n = 0 THEN <<>>
        ELSE IF delivered[n].channel = channel THEN Append(said[n - 1], delivered[n].byte)
        ELSE said[n - 1]
  IN said[Len(delivered)]

(* on_event has returned: the loop looks at the latch and the budget, or the *)
(* call returns.  What was streamed is the text, unless no filter is active. *)
Resume ==
  \/ /\ pc = "event"
     /\ \/ pipe.stopped /\ EndLoop("Stopped")
        \/ ~pipe.stopped /\ gen = Budget /\ EndLoop("MaxTokens")
        \/ ~pipe.stopped /\ gen < Budget /\ pc' = "loop" /\ UNCHANGED reason
     /\ UNCHANGED output
  \/ /\ pc = "tailEvent"
     /\ output' = IF Filtered THEN Said("Content") ELSE Generated(gen)
     /\ pc' = "returned"
     /\ UNCHANGED reason

Call == NoToken \/ Token \/ Fail \/ Tails

-----------------------------------------------------------------------------
(* Properties *)

CallTypeOK ==
  /\ setup \in Setups \union {NoSetup} /\ saying.pieces \in Seq(Text) /\ cancel \in BOOLEAN
  /\ pc \in {"idle", "loop", "event", "tails", "tailEvent", "returned", "refused", "failed", "panicked"}
  /\ gen \in 0 .. Len(saying.pieces)
  /\ shown \in Nat
  /\ pipe \in Pipe
  /\ delivered \in Seq(Delta)
  /\ reason \in {"None", "StopToken", "Stopped", "MaxTokens", "Cancelled"}
  /\ output \in Text

(* The comment of tests/contract_roundtrip.rs: the incremental deltas        *)
(* reconstruct the final text.                                               *)
DeltasReconstructText == pc = "returned" => Said("Content") = output

=============================================================================
