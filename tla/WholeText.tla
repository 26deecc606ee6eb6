----------------------------- MODULE WholeText -----------------------------
(***************************************************************************)
(* What one pass over a whole text would make of it: the reference that the *)
(* pipeline of TextPipeline, which sees it token by token, is checked with. *)
(***************************************************************************)
EXTENDS TextPipeline

(* Where a marker begins in a text. *)
Places(text, marker) ==
  {i \in 1 .. Len(text) - Len(marker) + 1 : IsPrefix(marker, SubSeq(text, i, Len(text)))}

(* The two channels of a whole text that begins in or out of a thinking block*)
RECURSIVE Channels(_, _)
Channels(text, thinking) ==
  LET marker  == IF thinking THEN CloseThink ELSE OpenThink
      channel == IF thinking THEN "Thinking" ELSE "Content"
      here    == Places(text, marker)
  IN IF here = {}
     THEN [[Content |-> <<>>, Thinking |-> <<>>] EXCEPT ![channel] = text]
     ELSE LET rest == Channels(SubSeq(text, Min(here) + Len(marker), Len(text)), ~thinking)
          IN [rest EXCEPT ![channel] = SubSeq(text, 1, Min(here) - 1) \o @]

(* A whole answer without its closed tool-call blocks. *)
RECURSIVE WithoutBlocks(_)
WithoutBlocks(text) ==
  LET open  == Places(text, OpenTool)
      rest  == SubSeq(text, Min(open) + Len(OpenTool), Len(text))
      close == Places(rest, CloseTool)
  IN IF open = {} \/ close = {} THEN text
     ELSE SubSeq(text, 1, Min(open) - 1)
            \o WithoutBlocks(SubSeq(rest, Min(close) + Len(CloseTool), Len(rest)))

(* The closed tool-call blocks of a whole answer. *)
RECURSIVE Blocks(_)
Blocks(text) ==
  LET open  == Places(text, OpenTool)
      rest  == SubSeq(text, Min(open) + Len(OpenTool), Len(text))
      close == Places(rest, CloseTool)
  IN IF open = {} \/ close = {} THEN <<>>
     ELSE <<SubSeq(rest, 1, Min(close) - 1)>>
            \o Blocks(SubSeq(rest, Min(close) + Len(CloseTool), Len(rest)))

(* A whole answer up to its first stop string. *)
UpToStop(text) ==
  LET here == UNION {Places(text, s) : s \in setup.stops}
  IN IF here = {} THEN text ELSE SubSeq(text, 1, Min(here) - 1)

(* However tokens cut the text, and whatever each stage held back, a call    *)
(* gives what one pass over the whole text gives: reasoning and answer apart,*)
(* tool calls lifted out, the answer cut at the first stop string; and what  *)
(* was streamed is what is returned.                                         *)
StreamedAsOneText ==
  pc = "returned" =>
    LET whole  == Generated(gen)
        parts  == IF setup.thinking THEN Channels(whole, setup.primed)
                  ELSE [Content |-> whole, Thinking |-> <<>>]
        answer == IF setup.tools THEN WithoutBlocks(parts.Content) ELSE parts.Content
    IN /\ output = UpToStop(answer)
       /\ Said("Content") = output
       /\ Said("Thinking") = parts.Thinking
       /\ pipe.calls = IF setup.tools THEN Blocks(parts.Content) ELSE <<>>

=============================================================================
