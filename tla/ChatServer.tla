----------------------------- MODULE ChatServer -----------------------------
(***************************************************************************)
(* The HTTP server of server/src/main.rs over the provider: one connection  *)
(* at a time, read, answered and closed.  A streamed reply writes each piece*)
(* of text as it comes; a write that fails trips the CancelFlag.  A write to*)
(* a client that has gone may succeed or fail: the socket buffers it.       *)
(*                                                                          *)
(* The provider is also called directly, by programs that may ask for tools *)
(* and set the CancelFlag from any thread: conn = "library".                *)
(***************************************************************************)
EXTENDS TextPipeline

VARIABLES
  conn,          \* what the thread is doing
  client,        \* is the peer of the connection still there?
  request,       \* the request that was read
  disconnected,  \* the latch of stream_chat's sink
  replies,       \* the parts of the reply written so far
  sent           \* the text written so far

serverVars == <<conn, client, request, disconnected, replies, sent>>
vars == <<setup, saying, cancel, pc, gen, shown, pipe, delivered, reason, output,
          conn, client, request, disconnected, replies, sent>>

Init ==
  /\ IdleInit
  /\ conn = "accept"
  /\ client = "none"
  /\ request = "none"
  /\ disconnected = FALSE
  /\ replies = <<>>
  /\ sent = <<>>

Ended == pc \in {"returned", "refused", "failed"}

-----------------------------------------------------------------------------
(* Direct calls *)

LibraryCall ==
  /\ conn = "accept"
  /\ setup' \in Setups /\ saying' \in Sayings
  /\ \E flag \in BOOLEAN : Begin(flag)
  /\ conn' = "library"
  /\ UNCHANGED <<client, request, disconnected, replies, sent>>

LibraryCancel ==
  /\ conn = "library"
  /\ ~cancel /\ ~Ended
  /\ cancel' = TRUE
  /\ UNCHANGED <<setup, saying, pc, gen, shown, pipe, delivered, reason, output>>
  /\ UNCHANGED serverVars

LibraryEvent ==
  /\ conn = "library"
  /\ Resume
  /\ UNCHANGED <<setup, saying, cancel, gen, shown, pipe, delivered>>
  /\ UNCHANGED serverVars

LibraryReturn ==
  /\ conn = "library"
  /\ Ended
  /\ Idle
  /\ conn' = "accept"
  /\ UNCHANGED <<client, request, disconnected, replies, sent>>

-----------------------------------------------------------------------------
(* A connection *)

(* listener.incoming gives the next connection. *)
Accept ==
  /\ conn = "accept"
  /\ conn' = "reading"
  /\ client' = "present"
  /\ UNCHANGED callVars /\ UNCHANGED <<request, disconnected, replies, sent>>

(* The peer goes away, at any time. *)
ClientLeaves ==
  /\ client = "present"
  /\ client' = "gone"
  /\ UNCHANGED callVars /\ UNCHANGED <<conn, request, disconnected, replies, sent>>

(* The peer sends a request: a chat, streamed or not, which offers no tools, *)
(* or one that is refused or answered at once (bad request, /v1/models,      *)
(* /health, not found).  What the model will say to it is chosen here.       *)
ClientSends ==
  /\ conn = "reading"
  /\ client = "present"
  /\ \/ /\ request' = "other"
        /\ UNCHANGED <<setup, saying>>
     \/ /\ request' \in {"stream", "complete"}
        /\ setup' \in {u \in Setups : ~u.tools}
        /\ saying' \in Sayings
  /\ conn' = "answering"
  /\ UNCHANGED <<cancel, pc, gen, shown, pipe, delivered, reason, output>>
  /\ UNCHANGED <<client, disconnected, replies, sent>>

(* Mutant: the latch of the sink outlives its request. *)
Close_LatchKept ==
  /\ conn' = "accept"
  /\ client' = "none"
  /\ request' = "none"
  /\ UNCHANGED disconnected
  /\ replies' = <<>>
  /\ sent' = <<>>

(* Mutant: the connection is left open. *)
Close_LeftOpen ==
  /\ conn' = "accept"
  /\ UNCHANGED client
  /\ request' = "none"
  /\ disconnected' = FALSE
  /\ replies' = <<>>
  /\ sent' = <<>>

Close ==
  /\ conn' = "accept"
  /\ client' = "none"
  /\ request' = "none"
  /\ disconnected' = FALSE
  /\ replies' = <<>>
  /\ sent' = <<>>

(* Mutant: the end of the stream is taken for an empty line. *)
ReadEnds_ReadsOn ==
  /\ conn = "reading"
  /\ client = "gone"
  /\ UNCHANGED vars

(* read_request meets the end of the stream, whatever it has read by then.   *)
ReadEnds ==
  /\ conn = "reading"
  /\ client = "gone"
  /\ Close
  /\ UNCHANGED callVars

(* How many of n writes in a row succeed: one fails only without a client,   *)
(* and none after it is tried.                                               *)
Writes(n) == IF client = "gone" THEN 0 .. n ELSE {n}

AnswerOther ==
  /\ conn = "answering"
  /\ request = "other"
  /\ \E k \in Writes(1) : replies' = IF k = 1 THEN <<"response">> ELSE <<>>
  /\ conn' = "closing"
  /\ UNCHANGED callVars /\ UNCHANGED <<client, request, disconnected, sent>>

(* Each request has a CancelFlag of its own. *)
ServerCall == UNCHANGED <<setup, saying>> /\ Begin(FALSE)

BeginComplete ==
  /\ conn = "answering"
  /\ request = "complete"
  /\ ServerCall
  /\ conn' = "serving"
  /\ UNCHANGED <<client, request, disconnected, replies, sent>>

(* The head and the role chunk go out before the provider is called.         *)
BeginStream ==
  /\ conn = "answering"
  /\ request = "stream"
  /\ \E k \in Writes(2) :
       /\ replies' = SubSeq(<<"head", "role">>, 1, k)
       /\ IF k = 2 THEN ServerCall /\ conn' = "serving"
          ELSE conn' = "closing" /\ UNCHANGED callVars
  /\ UNCHANGED <<client, request, disconnected, sent>>

(* Provider::complete drops the events. *)
CompleteEvent ==
  /\ conn = "serving" /\ request = "complete"
  /\ Resume
  /\ UNCHANGED <<setup, saying, cancel, gen, shown, pipe, delivered>>
  /\ UNCHANGED serverVars

(* Mutant: a failed write silences the sink but does not trip the flag. *)
SinkWrites_FlagForgotten(k) ==
  /\ sent' = sent \o SubSeq(pipe.out, 1, k)
  /\ disconnected' = (k < Len(pipe.out))
  /\ UNCHANGED cancel

(* k pieces are written; one that is not trips the flag and the latch. *)
SinkWrites(k) ==
  /\ sent' = sent \o SubSeq(pipe.out, 1, k)
  /\ disconnected' = (k < Len(pipe.out))
  /\ cancel' = (cancel \/ k < Len(pipe.out))

(* The sink of stream_chat writes the text of both channels. *)
StreamEvent ==
  /\ conn = "serving" /\ request = "stream"
  /\ Resume
  /\ IF disconnected THEN UNCHANGED <<cancel, disconnected, sent>>
     ELSE \E k \in Writes(Len(pipe.out)) : SinkWrites(k)
  /\ UNCHANGED <<setup, saying, gen, shown, pipe, delivered>>
  /\ UNCHANGED <<conn, client, request, replies>>

FinishReason ==
  CASE reason \in {"StopToken", "Stopped", "Cancelled"} -> "stop"
    [] reason = "MaxTokens" -> "length"
    [] OTHER -> "error"

ReplyComplete ==
  /\ conn = "serving" /\ request = "complete"
  /\ Ended
  /\ \E k \in Writes(1) :
       /\ replies' = IF k = 1 THEN <<FinishReason>> ELSE <<>>
       /\ sent' = IF k = 1 /\ pc = "returned" THEN Marked("Content", output) ELSE <<>>
  /\ conn' = "closing"
  /\ UNCHANGED callVars /\ UNCHANGED <<client, request, disconnected>>

(* After a failed write there is nothing more to send. *)
ReplyStream ==
  /\ conn = "serving" /\ request = "stream"
  /\ Ended
  /\ IF disconnected THEN UNCHANGED replies
     ELSE \E k \in Writes(2) : replies' = replies \o SubSeq(<<FinishReason, "[DONE]">>, 1, k)
  /\ conn' = "closing"
  /\ UNCHANGED callVars /\ UNCHANGED <<client, request, disconnected, sent>>

(* The connection is closed, and the next one is accepted. *)
Closes ==
  /\ conn = "closing"
  /\ Close
  /\ Idle

-----------------------------------------------------------------------------

(* The provider at work, for whoever called it *)
Provider == conn \in {"library", "serving"} /\ Call /\ UNCHANGED serverVars

(* What the server's thread does without waiting for the peer ... *)
Serve ==
  \/ ReadEnds \/ BeginComplete \/ CompleteEvent \/ Closes
  \/ conn = "serving" /\ Call /\ UNCHANGED serverVars

(* ... and its writes, which a peer that does not read may hold up. *)
Write == AnswerOther \/ BeginStream \/ StreamEvent \/ ReplyComplete \/ ReplyStream

Next ==
  \/ Provider
  \/ LibraryCall \/ LibraryCancel \/ LibraryEvent \/ LibraryReturn
  \/ Accept \/ ClientLeaves \/ ClientSends
  \/ ReadEnds \/ BeginComplete \/ CompleteEvent \/ Closes
  \/ Write

(* The thread runs on; a write ends at the latest when the peer is gone. No  *)
(* peer has to send anything, to read, or to leave.                          *)
Spec == Init /\ [][Next]_vars /\ WF_vars(Serve) /\ WF_vars(Write /\ client = "gone")

-----------------------------------------------------------------------------
(* Properties *)

TypeOK ==
  /\ CallTypeOK
  /\ conn \in {"accept", "library", "reading", "answering", "serving", "closing"}
  /\ client \in {"none", "present", "gone"}
  /\ (conn \in {"accept", "library"}) = (client = "none")
  /\ pc # "idle" => conn \in {"library", "serving", "closing"}

(* What is streamed is at any time a beginning of what was delivered, nothing*)
(* twice and nothing left out.  A client that stays gets a whole reply: all  *)
(* the text that was delivered or returned, and one proper end.              *)
WholeReply ==
  /\ TypeOK
  /\ request = "stream" => IsPrefix(sent, delivered)
  /\ conn = "closing" /\ client = "present" =>
      CASE request = "stream" ->
             /\ replies = <<"head", "role", FinishReason, "[DONE]">>
             /\ sent = delivered
             /\ pc = "returned" /\ Filtered => Said("Content") = output
        [] request = "complete" ->
             /\ replies = <<FinishReason>>
             /\ pc = "returned" => sent = Marked("Content", output)
        [] OTHER -> replies = <<"response">>

(* The doc comment of stream_chat: a failed write stops the decode loop      *)
(* promptly.  Not one token is generated after it.                           *)
CancelDisconnects == [][disconnected /\ conn' # "accept" => gen' = gen]_vars

(* ... and frees the engine: when its client has gone the server gets back   *)
(* to accepting, whatever it was doing.                                      *)
EngineFreed == client = "gone" ~> conn = "accept"

=============================================================================
