------------------------------- MODULE Forward -------------------------------
(***************************************************************************)
(* One request on its way through the tunnel: the front end's transport    *)
(* (internal/router/http.go), a stream of the session, handleInbound in    *)
(* the client (internal/host/host.go) with its two copiers, and the        *)
(* upstream's connection.  Router sees all of this as one step; here the   *)
(* bytes move chunk by chunk through buffers that fill up.                 *)
(*                                                                         *)
(* Chunk 1 of the request is the line with the slot's name, chunk 2 the    *)
(* header, the rest its body.  Chunk 1 of the answer is its header.  A     *)
(* stream's window is full when Window chunks wait to be read; what is     *)
(* sent on a link that is cut is lost.  Each end finds out by itself, and  *)
(* then reads what it had received as if the stream had ended there: so    *)
(* yamux reports a closed session.                                         *)
(***************************************************************************)
EXTENDS Naturals, Sequences

CONSTANTS
  ReqLen, RespLen,  \* chunks of the request, of the answer
  Window,           \* a stream's window, 256 KiB
  Buffered,         \* what bufio.Reader can hold beyond the first line
  TcpBuffer         \* what the upstream's connection holds each way

ASSUME SizesAssumption ==
  /\ {ReqLen, RespLen, Window, Buffered, TcpBuffer} \subseteq Nat
  /\ ReqLen > 2 /\ RespLen > 1 /\ Window > 0
  \* 4 KiB against the socket's buffer: the drain never blocks.
  /\ Buffered <= TcpBuffer

VARIABLES
  srv,       \* where the front end stands; its stream is open until "done"
  wrote,     \* chunks of the request it has written
  got,       \* chunks of the answer the user has got
  result,    \* what the user makes of it
  framing,   \* how the answer ends: "length" (or chunked), or with "close"
  link,      \* the connection under the session
  server, client,      \* each end's session: TRUE while it is open
  toClient, toServer,  \* the stream, each way
  h,         \* where handleInbound stands; its stream is open until "done"
  buf,       \* chunks in its bufio.Reader
  ended,     \* the copiers, "request" and "answer", that have ended
  toUp, fromUp,        \* the upstream's connection, each way
  upstream,  \* the upstream's end of it is open
  uGot,      \* chunks of the request the upstream has read
  uSent,     \* chunks of the answer it has written
  broken     \* history: it stopped reading before the client stopped writing

serverVars == <<srv, wrote, got, result, framing>>
streamVars == <<toClient, toServer>>
linkVars   == <<link, server, client>>
clientVars == <<h, buf, ended>>
upVars     == <<toUp, fromUp, upstream, uGot, uSent, broken>>
vars == <<serverVars, streamVars, linkVars, clientVars, upVars>>

BadGateway == 0   \* the only chunk of writeBadGateway's answer

Serving == h \in {"meta", "dial", "drain", "splice"}

TypeOK ==
  /\ srv \in {"dial", "request", "answer", "done"} /\ wrote \in 0..ReqLen
  /\ result \in {"none", "bad_gateway", "whole", "cut", "left"}
  /\ srv = "done" <=> result # "none"
  /\ framing \in {"length", "close"} /\ link \in {"up", "cut"}
  /\ server \in BOOLEAN /\ client \in BOOLEAN
  /\ upstream \in BOOLEAN /\ broken \in BOOLEAN
  /\ link = "up" => server /\ client
  /\ Serving \/ h \in {"none", "done"}
  /\ ended \subseteq {"request", "answer"} /\ uSent \in 0..RespLen
  /\ Len(toClient) <= Window /\ Len(toServer) <= Window
  /\ Len(buf) <= Buffered
  /\ Len(toUp) <= TcpBuffer /\ Len(fromUp) <= TcpBuffer
  /\ Len(got) <= RespLen /\ Len(uGot) < ReqLen

Init ==
  /\ srv = "dial" /\ wrote = 0 /\ got = <<>> /\ result = "none"
  /\ framing \in {"length", "close"}
  /\ link = "up" /\ server = TRUE /\ client = TRUE
  /\ toClient = <<>> /\ toServer = <<>>
  /\ h = "none" /\ buf = <<>> /\ ended = {}
  /\ toUp = <<>> /\ fromUp = <<>> /\ upstream = TRUE
  /\ uGot = <<>> /\ uSent = 0 /\ broken = FALSE

\* What is left of q when an end of it breaks.
Prefixes(q) == {SubSeq(q, 1, n) : n \in 0..Len(q)}

\* q with chunk c, if the connection still carries it.
Sent(q, c) == IF link = "up" THEN Append(q, c) ELSE q

-----------------------------------------------------------------------------
(* The front end.                                                          *)

\* The transport ends the round trip, or the copy of the answer, and closes
\* its connection, the stream.
End(r) == srv' = "done" /\ result' = r

\* DialContext: OpenStream, then the line, with a deadline.
DialStream ==
  /\ srv = "dial"
  /\ \/ /\ server
        /\ srv' = "request" /\ wrote' = 1 /\ toClient' = Sent(toClient, 1)
        /\ UNCHANGED result
     \/ link = "cut" /\ End("bad_gateway") /\ UNCHANGED <<wrote, toClient>>
  /\ UNCHANGED <<got, framing, toServer, linkVars, clientVars, upVars>>

\* The transport's write loop.
Write(room) ==
  /\ srv \in {"request", "answer"} /\ server /\ wrote < ReqLen /\ room
  /\ wrote' = wrote + 1 /\ toClient' = Sent(toClient, wrote')
  /\ UNCHANGED <<srv, got, result, framing, toServer, linkVars, clientVars,
                 upVars>>

\* Mutant of WriteRequest: the window is not looked at.
WriteUnbounded == Write(TRUE)

WriteRequest == Write(Len(toClient) < Window)

\* Its read loop: the header ends the round trip, the rest goes to the user.
\* An answer that tells its length is complete with its last chunk.
ReadAnswer ==
  /\ srv \in {"request", "answer"} /\ toServer # <<>>
  /\ got' = Append(got, Head(toServer)) /\ toServer' = Tail(toServer)
  /\ IF framing = "length" /\ Head(toServer) = RespLen
     THEN End("whole")
     ELSE srv' = "answer" /\ UNCHANGED result
  /\ UNCHANGED <<wrote, framing, toClient, linkVars, clientVars, upVars>>

\* The stream ends.  Only an answer that tells its length can be seen to be
\* short; writeBadGateway's does not.
ReadEnd ==
  /\ srv \in {"request", "answer"} /\ toServer = <<>>
  /\ ~ server \/ (link = "up" /\ h = "done")
  /\ End(IF srv = "request" THEN "bad_gateway"
         ELSE IF framing = "close" \/ got = <<BadGateway>> THEN "whole" ELSE "cut")
  /\ UNCHANGED <<wrote, got, framing, streamVars, linkVars, clientVars, upVars>>

\* Mutants of HeaderTimeout: none is set; the header does not stop the timer.
NoHeaderTimeout == FALSE /\ UNCHANGED vars

TimeoutGoesOn ==
  /\ srv \in {"request", "answer"} /\ wrote = ReqLen
  /\ End("bad_gateway")
  /\ UNCHANGED <<wrote, got, framing, streamVars, linkVars, clientVars, upVars>>

\* ResponseHeaderTimeout, which starts when the request is written.
HeaderTimeout ==
  /\ srv = "request" /\ wrote = ReqLen
  /\ End("bad_gateway")
  /\ UNCHANGED <<wrote, got, framing, streamVars, linkVars, clientVars, upVars>>

\* The user hangs up: the request's context is cancelled.
UserLeaves ==
  /\ srv # "done" /\ End("left")
  /\ UNCHANGED <<wrote, got, framing, streamVars, linkVars, clientVars, upVars>>

-----------------------------------------------------------------------------
(* The session.                                                            *)

Cut ==
  /\ link = "up" /\ link' = "cut"
  /\ toClient' \in Prefixes(toClient) /\ toServer' \in Prefixes(toServer)
  /\ UNCHANGED <<serverVars, server, client, clientVars, upVars>>

NoticeServer ==
  /\ link = "cut" /\ server /\ server' = FALSE
  /\ UNCHANGED <<serverVars, streamVars, link, client, clientVars, upVars>>

NoticeClient ==
  /\ link = "cut" /\ client /\ client' = FALSE
  /\ UNCHANGED <<serverVars, streamVars, link, server, clientVars, upVars>>

-----------------------------------------------------------------------------
(* The client.                                                             *)

\* The client has no more of the request to read.
RequestOver ==
  toClient = <<>> /\ (~ client \/ (link = "up" /\ srv = "done"))

\* AcceptStream, and the goroutine of handleInbound.
Accept ==
  /\ h = "none" /\ client /\ toClient # <<>> /\ h' = "meta"
  /\ UNCHANGED <<serverVars, streamVars, linkVars, buf, ended, upVars>>

\* ReadBytes('\n'): the reader may take more than the line.
ReadMeta ==
  /\ h = "meta"
  /\ \/ \E n \in 1 .. Len(toClient) :
          /\ n <= Buffered + 1 /\ h' = "dial"
          /\ buf' = SubSeq(toClient, 2, n)
          /\ toClient' = SubSeq(toClient, n + 1, Len(toClient))
     \/ RequestOver /\ h' = "done" /\ UNCHANGED <<buf, toClient>>
  /\ UNCHANGED <<serverVars, toServer, linkVars, ended, upVars>>

\* The slot's upstream: dialled, or not known or not answering.
DialUpstream ==
  /\ h = "dial"
  /\ \/ h' = "drain" /\ UNCHANGED toServer
     \/ h' = "done" /\ toServer' = IF client THEN Sent(toServer, BadGateway)
                                             ELSE toServer
  /\ UNCHANGED <<serverVars, toClient, linkVars, buf, ended, upVars>>

\* Mutant of Drain: the copier starts at the stream.
DrainSkipped ==
  /\ h = "drain" /\ h' = "splice" /\ buf' = <<>>
  /\ UNCHANGED <<serverVars, streamVars, linkVars, ended, upVars>>

\* handleInbound returns and its deferred calls close both connections.
\* Closing one with bytes unread resets it, and what it carries may be lost.
Returns ==
  /\ h' = "done" /\ fromUp' = <<>>
  /\ toUp' \in IF fromUp = <<>> THEN {toUp} ELSE Prefixes(toUp)

\* What the reader holds beyond the line goes to the upstream first.
Drain ==
  /\ h = "drain" /\ buf' = <<>>
  /\ \/ /\ upstream \/ buf = <<>>
        /\ h' = "splice" /\ toUp' = toUp \o buf /\ UNCHANGED <<fromUp, broken>>
     \/ /\ ~ upstream /\ buf # <<>>
        /\ Returns /\ broken' = TRUE
  /\ UNCHANGED <<serverVars, streamVars, linkVars, ended, upstream, uGot, uSent>>

\* Mutant of CopyRequest: a write that fails is tried again.
CopyRetries ==
  /\ h = "splice" /\ "request" \notin ended
  /\ \/ /\ toClient # <<>> /\ upstream /\ Len(toUp) < TcpBuffer
        /\ toUp' = Append(toUp, Head(toClient)) /\ toClient' = Tail(toClient)
        /\ UNCHANGED <<ended, broken>>
     \/ /\ toClient # <<>> /\ ~ upstream /\ broken' = TRUE
        /\ UNCHANGED <<toUp, toClient, ended>>
     \/ /\ RequestOver
        /\ ended' = ended \cup {"request"}
        /\ UNCHANGED <<toUp, toClient, broken>>
  /\ UNCHANGED <<serverVars, toServer, linkVars, h, buf, fromUp, upstream,
                 uGot, uSent>>

\* io.Copy(up, stream).  The first write to a connection the upstream has
\* closed may still succeed.
CopyRequest ==
  /\ h = "splice" /\ "request" \notin ended
  /\ \/ /\ toClient # <<>> /\ upstream /\ Len(toUp) < TcpBuffer
        /\ toUp' = Append(toUp, Head(toClient)) /\ toClient' = Tail(toClient)
        /\ UNCHANGED <<ended, broken>>
     \/ /\ toClient # <<>> /\ ~ upstream
        /\ toClient' = Tail(toClient) /\ broken' = TRUE
        /\ ended' \in {ended, ended \cup {"request"}}
        /\ UNCHANGED toUp
     \/ /\ RequestOver
        /\ ended' = ended \cup {"request"}
        /\ UNCHANGED <<toUp, toClient, broken>>
  /\ UNCHANGED <<serverVars, toServer, linkVars, h, buf, fromUp, upstream,
                 uGot, uSent>>

\* io.Copy(stream, up).
CopyAnswer ==
  /\ h = "splice" /\ "answer" \notin ended
  /\ \/ /\ fromUp # <<>> /\ client /\ Len(toServer) < Window
        /\ toServer' = Sent(toServer, Head(fromUp)) /\ fromUp' = Tail(fromUp)
        /\ UNCHANGED ended
     \/ /\ IF fromUp = <<>> THEN ~ upstream ELSE ~ client
        /\ ended' = ended \cup {"answer"}
        /\ UNCHANGED <<toServer, fromUp>>
  /\ UNCHANGED <<serverVars, toClient, linkVars, h, buf, toUp, upstream, uGot,
                 uSent, broken>>

HandlerEndsWhen(wait) ==
  /\ h = "splice" /\ wait /\ Returns
  /\ UNCHANGED <<serverVars, streamVars, linkVars, buf, ended, upstream, uGot,
                 uSent, broken>>

\* Mutants of HandlerReturns: it waits for both copiers, for none.
ReturnsAfterBoth == HandlerEndsWhen(ended = {"request", "answer"})
ReturnsAtOnce == HandlerEndsWhen(TRUE)

\* <-done: the first copier to end is enough.
HandlerReturns == HandlerEndsWhen(ended # {})

\* The process ends.
ClientStops ==
  /\ client /\ client' = FALSE /\ link' = "cut"
  /\ toClient' = <<>> /\ toServer' \in Prefixes(toServer)
  /\ Returns /\ buf' = <<>>
  /\ UNCHANGED <<serverVars, server, ended, upstream, uGot, uSent, broken>>

-----------------------------------------------------------------------------
(* The upstream: it reads when it likes, answers once it has the header,   *)
(* and may close at any time.                                              *)

UpstreamReads ==
  /\ upstream /\ toUp # <<>>
  /\ uGot' = Append(uGot, Head(toUp)) /\ toUp' = Tail(toUp)
  /\ UNCHANGED <<serverVars, streamVars, linkVars, clientVars, fromUp,
                 upstream, uSent, broken>>

UpstreamWrites ==
  /\ upstream /\ h = "splice" /\ uGot # <<>>
  /\ uSent < RespLen /\ Len(fromUp) < TcpBuffer
  /\ uSent' = uSent + 1 /\ fromUp' = Append(fromUp, uSent')
  /\ UNCHANGED <<serverVars, streamVars, linkVars, clientVars, toUp, upstream,
                 uGot, broken>>

UpstreamCloses ==
  /\ upstream /\ h \in {"drain", "splice"} /\ upstream' = FALSE
  /\ toUp' = <<>>
  /\ \/ toUp = <<>> /\ UNCHANGED <<fromUp, broken>>
     \/ toUp # <<>> /\ broken' = TRUE /\ fromUp' \in Prefixes(fromUp)
  /\ UNCHANGED <<serverVars, streamVars, linkVars, clientVars, uGot, uSent>>

-----------------------------------------------------------------------------
FrontEnd == DialStream \/ ReadAnswer \/ ReadEnd \/ HeaderTimeout
Handler  == Accept \/ ReadMeta \/ DialUpstream \/ Drain \/ HandlerReturns

Next == \/ FrontEnd \/ WriteRequest \/ UserLeaves
        \/ Cut \/ NoticeServer \/ NoticeClient
        \/ Handler \/ CopyRequest \/ CopyAnswer \/ ClientStops
        \/ UpstreamReads \/ UpstreamWrites \/ UpstreamCloses

Spec == Init /\ [][Next]_vars

\* The goroutines of both processes run, keepalives notice a cut link, and
\* DialStream's and HeaderTimeout's deadlines are timers.  WriteRequest: a
\* user who stays sends what it announced, as the server sets no deadline on
\* that.  Nothing is assumed of the upstream, nor that a user ever leaves.
FairSpec ==
  /\ Spec
  /\ WF_vars(DialStream) /\ WF_vars(ReadAnswer) /\ WF_vars(ReadEnd)
  /\ WF_vars(HeaderTimeout) /\ WF_vars(WriteRequest)
  /\ WF_vars(NoticeServer) /\ WF_vars(NoticeClient)
  /\ WF_vars(Handler) /\ WF_vars(CopyRequest) /\ WF_vars(CopyAnswer)

-----------------------------------------------------------------------------
(* Safety.                                                                 *)

\* The upstream gets the request without the line, in order and without a
\* gap, however much of it bufio.Reader took with the line (host.go 225-258);
\* the user gets the upstream's answer in order, or a bad gateway, never both.
InOrder ==
  /\ uGot \o toUp = [i \in 1 .. Len(uGot) + Len(toUp) |-> i + 1]
  /\ got \o toServer \in
       {<<BadGateway>>} \cup {[i \in 1 .. n |-> i] : n \in 0 .. RespLen}

\* An answer the user takes for complete is complete.  One that tells its
\* length always is.  One that ends with the connection lacks something only
\* when the link under it was cut, which yamux does not tell from an end, or
\* when the upstream closed without reading the whole request: then the
\* request's copier fails first and handleInbound closes the stream under the
\* answer's (host.go 260-263).
WholeIsWhole ==
  result = "whole" =>
    \/ got = <<BadGateway>>
    \/ framing = "length" /\ Len(got) = RespLen
    \/ framing = "close" /\ (Len(got) = uSent \/ link = "cut" \/ broken)

\* Seen from its two ends, the way through the tunnel is an exchange: counters
\* that never run ahead of their cause, and an end that is true of them.
Exchanged == INSTANCE Exchange
  WITH Request <- ReqLen - 1, Answer <- RespLen,
       sent <- IF wrote = 0 THEN 0 ELSE wrote - 1, taken <- Len(uGot),
       said <- uSent, heard <- IF got = <<BadGateway>> THEN 0 ELSE Len(got),
       sound <- link = "up" /\ ~ broken,
       outcome <- IF result = "whole" /\ got = <<BadGateway>> THEN "bad_gateway"
                  ELSE result
ImplementsExchange == Exchanged!Spec

\* What is still to be done.  A chunk counts once for each place it has yet to
\* leave, the handler for the stages before it, and each end that is open or
\* copier that runs for one.
One(open) == IF open THEN 1 ELSE 0
StagesLeft == CASE h = "none"   -> 5
                [] h = "meta"   -> 4
                [] h = "dial"   -> 3
                [] h = "drain"  -> 2
                [] h = "splice" -> 1
                [] OTHER        -> 0
RequestToDo == 4 * (ReqLen - wrote) + 3 * Len(toClient) + 2 * Len(buf) + Len(toUp)
AnswerToDo  == 3 * (RespLen - uSent) + 2 * Len(fromUp) + Len(toServer)
EndsOpen == One("request" \notin ended) + One("answer" \notin ended)
            + One(srv # "done") + One(link = "up") + One(server) + One(client)
            + One(upstream)
ToDo == RequestToDo + AnswerToDo + StagesLeft + EndsOpen

\* No loop turns on the spot: whatever fails, of either copier, the transport
\* or the handler, a step is never taken again (host.go 218-263).  So a request
\* costs the whole system at most 4 * ReqLen + 3 * RespLen + 12 steps, however
\* they are scheduled; where it does not end, somebody waits.
EveryStepCounts == [][ToDo' < ToDo]_vars

-----------------------------------------------------------------------------
(* Liveness.                                                               *)

\* The upstream has stopped reading with every buffer to it full.
WindowStaysFull == <>[](Len(toClient) = Window /\ wrote < ReqLen)
UpstreamStaysFull ==
  <>[](h = "splice" /\ toClient # <<>> /\ upstream /\ Len(toUp) = TcpBuffer)

\* A request gets the header of an answer or an error, unless the stream's
\* window stays full: ResponseHeaderTimeout does not run before the request
\* is written, and no other deadline covers the writing (http.go 92-97).
RequestEnds ==
  WindowStaysFull \/ (srv = "request" ~> srv # "request")

\* A handler ends once the front end is done with its stream or the session
\* is gone, with both copiers, unless the request's is stuck writing to the
\* upstream: nothing then closes the connection under it (host.go 260-263).
HandlerEnds ==
  UpstreamStaysFull \/ (Serving /\ (srv = "done" \/ ~ client) ~> h = "done")
=============================================================================
