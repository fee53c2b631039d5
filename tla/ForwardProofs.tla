---------------------------- MODULE ForwardProofs ----------------------------
(***************************************************************************)
(* Proofs about one request, for requests, answers, windows and buffers of *)
(* any size.  The chunks that one end has taken, those under way and those *)
(* still to come are consecutive: what a queue holds is known from where   *)
(* it starts.                                                              *)
(***************************************************************************)
EXTENDS Forward, SequenceTheorems, TLAPS

\* q holds consecutive chunks, the first of which is a.
Run(q, a) == q \in Seq(Nat) /\ \A i \in 1 .. Len(q) : q[i] = a + i - 1

-----------------------------------------------------------------------------
(* Runs.                                                                   *)

\* The empty queue is a run.
LEMMA RunEmpty ==
  ASSUME NEW a \in Nat
  PROVE  Run(<<>>, a) /\ Len(<<>>) = 0
  BY DEF Run

\* The first chunk makes a run of its own.
LEMMA RunOne ==
  Run(<<>>, 1) /\ Run(Append(<<>>, 1), 1) /\ Len(Append(<<>>, 1)) = 1
BY DEF Run

\* A run goes on with the chunk after its last.
LEMMA RunAppend ==
  ASSUME NEW q, NEW a \in Nat, Run(q, a), NEW c, c = a + Len(q)
  PROVE  Run(Append(q, c), a) /\ Len(q) \in Nat /\ Len(Append(q, c)) = Len(q) + 1
<1>1. q \in Seq(Nat) /\ Len(q) \in Nat /\ c \in Nat
  BY DEF Run
<1>2. Append(q, c) \in Seq(Nat) /\ Len(Append(q, c)) = Len(q) + 1
  BY <1>1
<1>3. \A i \in 1 .. Len(q) + 1 : Append(q, c)[i] = a + i - 1
  BY <1>1 DEF Run
<1> QED
  BY <1>1, <1>2, <1>3 DEF Run

\* A run without its first chunk is the run after it.
LEMMA RunTail ==
  ASSUME NEW q, NEW a \in Nat, Run(q, a), q # <<>>, NEW b, b = a + 1
  PROVE  /\ Head(q) = a /\ Len(q) \in Nat \ {0}
         /\ Len(Tail(q)) = Len(q) - 1 /\ Run(Tail(q), b)
  BY DEF Run

\* A part of a run is one.
LEMMA RunSubSeq ==
  ASSUME NEW q, NEW a \in Nat, Run(q, a),
         NEW k \in Nat \ {0}, NEW n \in Nat, k <= n + 1, n <= Len(q),
         NEW b, b = a + k - 1
  PROVE  /\ Len(q) \in Nat /\ Len(SubSeq(q, k, n)) = n + 1 - k
         /\ Run(SubSeq(q, k, n), b)
<1>1. q \in Seq(Nat) /\ Len(q) \in Nat
  BY DEF Run
<1>2. SubSeq(q, k, n) = [i \in 1 .. (n - k + 1) |-> q[k + i - 1]]
  BY <1>1
<1>3. \A i \in 1 .. (n - k + 1) : k + i - 1 \in 1 .. Len(q)
  BY <1>1
<1>4. SubSeq(q, k, n) \in Seq(Nat) /\ Len(SubSeq(q, k, n)) = n - k + 1
  BY <1>1, <1>2, <1>3
<1>5. \A i \in 1 .. (n - k + 1) : SubSeq(q, k, n)[i] = b + i - 1
  BY <1>1, <1>2, <1>3 DEF Run
<1> QED
  BY <1>1, <1>4, <1>5 DEF Run

\* A run and the run after it make one.
LEMMA RunConcat ==
  ASSUME NEW p, NEW q, NEW a \in Nat, Run(p, a), Run(q, a + Len(p))
  PROVE  /\ Len(p) \in Nat /\ Len(q) \in Nat /\ Len(p \o q) = Len(p) + Len(q)
         /\ Run(p \o q, a)
         /\ p \o q = [i \in 1 .. Len(p) + Len(q) |-> a + i - 1]
<1>1. p \in Seq(Nat) /\ q \in Seq(Nat) /\ Len(p) \in Nat /\ Len(q) \in Nat
  BY DEF Run
<1>2. p \o q \in Seq(Nat) /\ Len(p \o q) = Len(p) + Len(q)
  BY <1>1
<1>3. \A i \in 1 .. Len(p) + Len(q) : (p \o q)[i] = a + i - 1
  BY <1>1 DEF Run
<1>4. p \o q = [i \in 1 .. Len(p \o q) |-> (p \o q)[i]]
  BY <1>2, LenProperties
<1> QED
  BY <1>1, <1>2, <1>3, <1>4 DEF Run

\* A run is a sequence.
LEMMA RunLen ==
  ASSUME NEW q, NEW a, Run(q, a)
  PROVE  q \in Seq(Nat) /\ Len(q) \in Nat
  BY DEF Run

\* Whatever breaks off its end, a run stays a run, and gets no longer.
LEMMA RunPrefix ==
  ASSUME NEW q, NEW a \in Nat, Run(q, a), NEW p \in Prefixes(q)
  PROVE  Run(p, a) /\ Len(p) \in Nat /\ Len(p) <= Len(q) /\ Len(q) \in Nat
<1>1. PICK n \in 0 .. Len(q) : p = SubSeq(q, 1, n)
  BY DEF Prefixes
<1>2. Len(q) \in Nat
  BY DEF Run
<1> QED
  BY <1>1, <1>2, RunSubSeq

-----------------------------------------------------------------------------
(* The invariant.                                                          *)

\* The first chunk of the request that the client has not taken.
Start == IF h \in {"none", "meta"} THEN 1
         ELSE 2 + Len(uGot) + Len(toUp) + Len(buf)

\* Nothing is under way before the stream is open.
QueueInv ==
  /\ toClient \in Seq(Nat) /\ buf \in Seq(Nat)
  /\ srv = "dial" => wrote = 0 /\ toClient = <<>>

\* What the upstream has got, and what is on its way to it, has no gap.
TakenInv ==
  /\ Run(uGot, 2) /\ Run(toUp, 2 + Len(uGot)) /\ Len(uGot) + Len(toUp) + 1 <= ReqLen
  /\ h \in {"none", "meta", "dial", "drain"} => uGot = <<>> /\ toUp = <<>>

\* The reader holds what follows the line until the drain.
BufInv ==
  /\ h \in {"none", "meta", "splice"} => buf = <<>>
  /\ h \in {"dial", "drain"} => Run(buf, 2)

\* The stream goes on where the client stands; while the link works it ends
\* where the front end stands.  Once the upstream has closed, what the copier
\* takes is lost.
StreamInv ==
  h # "done" /\ (h = "splice" => upstream) =>
    /\ Run(toClient, Start) /\ Start + Len(toClient) <= wrote + 1
    /\ link = "up" => Start + Len(toClient) = wrote + 1

\* All of the above.
RequestInv == QueueInv /\ TakenInv /\ BufInv /\ StreamInv

\* A bad gateway, written or read.
IsBadGateway == \/ got = <<>> /\ toServer = <<BadGateway>>
                \/ got = <<BadGateway>> /\ toServer = <<>>

\* The answer's chunks, from the user back to the upstream.
AnswerInv ==
  /\ fromUp \in Seq(Nat)
  /\ h \in {"none", "meta", "dial", "drain"} =>
       uSent = 0 /\ fromUp = <<>> /\ got = <<>> /\ toServer = <<>>
  /\ broken => ~ upstream
  /\ \/ h = "done" /\ IsBadGateway
     \/ /\ Run(got, 1) /\ Run(toServer, 1 + Len(got))
        /\ Len(got) + Len(toServer) <= uSent
        /\ link = "up" /\ h = "splice" =>
             /\ Run(fromUp, 1 + Len(got) + Len(toServer))
             /\ Len(got) + Len(toServer) + Len(fromUp) <= uSent
             /\ ~ broken => Len(got) + Len(toServer) + Len(fromUp) = uSent

\* Why a copier has ended.
CopierInv ==
  /\ "request" \in ended => broken \/ link = "cut" \/ srv = "done"
  /\ "answer" \in ended /\ link = "up" => fromUp = <<>> /\ ~ upstream
  /\ h \in {"none", "meta", "dial", "drain"} => ended = {}

\* What a handler that has ended leaves is all there is.
EndInv ==
  h = "done" /\ link = "up" /\ ~ broken /\ srv # "done" =>
    IsBadGateway \/ Len(got) + Len(toServer) = uSent

\* What a user takes for complete does not change any more.
WholeInv ==
  /\ WholeIsWhole
  /\ result = "whole" /\ framing = "close" => h = "done" \/ link = "cut"

\* The inductive invariant.
IInv == TypeOK /\ RequestInv /\ AnswerInv /\ CopierInv /\ EndInv /\ WholeInv

\* The sizes are numbers.
LEMMA Sizes ==
  /\ ReqLen \in Nat /\ RespLen \in Nat /\ Window \in Nat
  /\ Buffered \in Nat /\ TcpBuffer \in Nat
  /\ ReqLen > 2 /\ RespLen > 1 /\ Window > 0 /\ Buffered <= TcpBuffer
  BY SizesAssumption

\* The initial state.
LEMMA InitIInv == Init => IInv
<1> SUFFICES ASSUME Init PROVE IInv
  OBVIOUS
<1>1. Run(<<>>, 1) /\ Run(<<>>, 2) /\ Len(<<>>) = 0 /\ <<>> \in Seq(Nat)
  BY RunEmpty DEF Run
<1>2. TypeOK
  <2>1. server \in BOOLEAN /\ client \in BOOLEAN /\ upstream \in BOOLEAN /\ broken \in BOOLEAN
        /\ server /\ client
    BY DEF Init
  <2>2. srv = "dial" /\ result = "none" /\ h = "none" /\ ended = {}
        /\ framing \in {"length", "close"} /\ link \in {"up", "cut"}
    BY DEF Init
  <2>3. \A q \in {toClient, toServer, buf, toUp, fromUp, got, uGot} : Len(q) = 0
    BY <1>1 DEF Init
  <2>4. wrote = 0 /\ uSent = 0
    BY DEF Init
  <2> QED
    BY <2>1, <2>2, <2>3, <2>4, Sizes DEF TypeOK
<1>3. RequestInv
  BY <1>1, Sizes DEF Init, RequestInv, QueueInv, TakenInv, BufInv, StreamInv, Start
<1>4. AnswerInv /\ CopierInv /\ EndInv /\ WholeInv
  BY <1>1 DEF Init, AnswerInv, CopierInv, EndInv, WholeInv, WholeIsWhole
<1> QED
  BY <1>2, <1>3, <1>4 DEF IInv

-----------------------------------------------------------------------------
(* The request.                                                            *)

\* Every step keeps the request's chunks consecutive.
LEMMA RequestStep ==
  ASSUME IInv, [Next]_vars
  PROVE  RequestInv'
<1>i. RequestInv
  BY DEF IInv
<1>0. /\ ReqLen \in Nat /\ ReqLen > 2
      /\ wrote \in Nat /\ wrote <= ReqLen
      /\ h \in {"none", "meta", "dial", "drain", "splice", "done"}
      /\ toClient \in Seq(Nat) /\ Len(toClient) \in Nat
      /\ Len(uGot) \in Nat /\ Len(toUp) \in Nat /\ Len(buf) \in Nat
  <2>1. TypeOK
    BY DEF IInv
  <2>2. ReqLen \in Nat /\ ReqLen > 2
    BY Sizes
  <2>3. wrote \in Nat /\ wrote <= ReqLen
        /\ h \in {"none", "meta", "dial", "drain", "splice", "done"}
    BY <2>1, <2>2 DEF TypeOK, Serving
  <2>4. /\ toClient \in Seq(Nat) /\ Len(toClient) \in Nat /\ Len(buf) \in Nat
        /\ Len(uGot) \in Nat /\ Len(toUp) \in Nat
    BY <1>i, RunLen DEF RequestInv, QueueInv, TakenInv, BufInv, StreamInv
  <2> QED
    BY <2>1, <2>2, <2>3, <2>4
<1> USE <1>0 DEF serverVars, streamVars, linkVars, clientVars, upVars
<1>1. ASSUME UNCHANGED <<wrote, toClient, h, buf, toUp, upstream, uGot>>,
             link' = "up" => link = "up", srv' # "dial" \/ srv' = srv
      PROVE  RequestInv'
  BY <1>i, <1>1 DEF RequestInv, QueueInv, TakenInv, BufInv, StreamInv, Start
<1>2. CASE DialStream
  <2>1. CASE UNCHANGED <<wrote, toClient>>
    BY <1>1, <1>2, <2>1 DEF DialStream, End
  <2>2. CASE srv' = "request" /\ wrote' = 1 /\ toClient' = Sent(toClient, 1)
    <3>1. toClient = <<>> /\ wrote = 0 /\ Len(<<>>) = 0
      BY <1>i, <1>2 DEF DialStream, RequestInv, QueueInv, TakenInv, BufInv, StreamInv
    <3>2. /\ Run(toClient', 1) /\ Len(toClient') <= 1 /\ toClient' \in Seq(Nat)
          /\ link = "up" => Len(toClient') = 1
      <4>1. Run(<<>>, 1) /\ Run(Append(<<>>, 1), 1) /\ Len(Append(<<>>, 1)) = 1
        BY RunOne
      <4>2. toClient' \in {<<>>, Append(<<>>, 1)} /\ (link = "up" => toClient' # <<>>)
        BY <2>2, <3>1 DEF Sent
      <4> QED
        <5>1. CASE toClient' = <<>>
          BY <2>2, <3>1, <4>1, <5>1 DEF Sent
        <5>2. CASE toClient' # <<>>
          <6>1. toClient' = Append(<<>>, 1)
            BY <2>2, <3>1, <5>2 DEF Sent
          <6> QED
            BY <4>1, <6>1, RunLen
        <5> QED
          BY <5>1, <5>2
    <3>3. Start + 0 <= 1 => h \in {"none", "meta"}
      BY <1>i DEF Start, RequestInv, QueueInv, TakenInv, BufInv, StreamInv, Run
    <3> QED
      <4>1. UNCHANGED <<link, h, buf, toUp, upstream, uGot>>
        BY <1>2 DEF DialStream, linkVars, clientVars, upVars
      <4>2. QueueInv' /\ TakenInv' /\ BufInv'
        BY <1>i, <2>2, <3>2, <4>1 DEF RequestInv, QueueInv, TakenInv, BufInv
      <4>3. ASSUME h # "done", h = "splice" => upstream
            PROVE  Start = 1 /\ Start' = 1
        BY <1>i, <3>1, <3>3, <4>1, <4>3 DEF RequestInv, StreamInv, Start
      <4>4. StreamInv'
        <5>1. SUFFICES ASSUME h # "done", h = "splice" => upstream
                       PROVE  /\ Run(toClient', Start') /\ Start' + Len(toClient') <= wrote' + 1
                              /\ link = "up" => Start' + Len(toClient') = wrote' + 1
          BY <4>1 DEF StreamInv
        <5>2. Start' = 1 /\ wrote' = 1
          BY <2>2, <4>3, <5>1
        <5>3. Run(toClient', Start') /\ Len(toClient') \in Nat
          BY <3>2, <5>2
        <5>4. Start' + Len(toClient') <= wrote' + 1
          BY <3>2, <5>2, <5>3
        <5>5. link = "up" => Start' + Len(toClient') = wrote' + 1
          BY <3>2, <5>2
        <5> QED
          BY <5>3, <5>4, <5>5
      <4> QED
        BY <4>2, <4>4 DEF RequestInv
  <2> QED
    BY <1>2, <2>1, <2>2 DEF DialStream
<1>3. CASE WriteRequest
  <2>1. wrote' = wrote + 1 /\ toClient' = Sent(toClient, wrote + 1)
        /\ UNCHANGED <<srv, link, h, buf, toUp, upstream, uGot>> /\ srv # "dial"
    BY <1>3 DEF WriteRequest, Write
  <2>2. toClient' \in Seq(Nat)
    BY <1>i, <2>1 DEF RequestInv, QueueInv, TakenInv, BufInv, StreamInv, Sent
  <2>3. Start' = Start /\ Start \in Nat
    BY <1>i, <2>1 DEF Start, RequestInv, QueueInv, TakenInv, BufInv, StreamInv, Run
  <2>4. ASSUME h # "done", h = "splice" => upstream
        PROVE  /\ Run(toClient', Start) /\ Start + Len(toClient') <= wrote' + 1
               /\ link = "up" => Start + Len(toClient') = wrote' + 1
    <3>1. /\ Run(toClient, Start) /\ Start + Len(toClient) <= wrote + 1
          /\ link = "up" => Start + Len(toClient) = wrote + 1
      BY <1>i, <2>4 DEF RequestInv, QueueInv, TakenInv, BufInv, StreamInv
    <3>2. Len(toClient) \in Nat
      BY <1>i DEF RequestInv, QueueInv, TakenInv, BufInv, StreamInv
    <3>3. CASE link = "up"
      <4>1. wrote + 1 = Start + Len(toClient) /\ toClient' = Append(toClient, wrote + 1)
        BY <2>1, <3>1, <3>3 DEF Sent
      <4> QED
        <5>1. wrote + 1 \in Nat /\ Run(toClient', Start)
              /\ Len(toClient') = Len(toClient) + 1
          BY <2>3, <3>1, <4>1, RunAppend
        <5> QED
          BY <2>1, <2>3, <3>2, <4>1, <5>1
    <3>4. CASE link # "up"
      BY <2>1, <2>3, <3>1, <3>2, <3>4 DEF Sent
    <3> QED
      BY <3>3, <3>4
  <2> QED
    BY <1>i, <2>1, <2>2, <2>3, <2>4 DEF RequestInv, QueueInv, TakenInv, BufInv, StreamInv
<1>4. CASE Cut
  <2>1. /\ link' = "cut" /\ toClient' \in Prefixes(toClient)
        /\ UNCHANGED <<srv, wrote, h, buf, toUp, upstream, uGot>>
    BY <1>4 DEF Cut
  <2>2. toClient' \in Seq(Nat) /\ (toClient = <<>> => toClient' = <<>>)
    <3>1. PICK n \in 0 .. Len(toClient) : toClient' = SubSeq(toClient, 1, n)
      BY <2>1 DEF Prefixes
    <3>2. SubSeq(toClient, 1, n) \in Seq(Nat)
      BY <3>1
    <3>3. toClient = <<>> => SubSeq(toClient, 1, n) = <<>>
      BY <3>1
    <3> QED
      BY <3>1, <3>2, <3>3
  <2>3. Start' = Start /\ Start \in Nat
    BY <1>i, <2>1 DEF Start, RequestInv, QueueInv, TakenInv, BufInv, StreamInv, Run
  <2>4. Run(toClient, Start) => Run(toClient', Start) /\ Len(toClient') <= Len(toClient)
    BY <2>1, <2>3, RunPrefix
  <2> QED
    BY <1>i, <2>1, <2>2, <2>3, <2>4 DEF RequestInv, QueueInv, TakenInv, BufInv, StreamInv
<1>5. CASE Accept
  BY <1>i, <1>5 DEF Accept, RequestInv, QueueInv, TakenInv, BufInv, StreamInv, Start
<1>6. CASE ReadMeta
  <2>1. CASE h' = "done" /\ UNCHANGED <<buf, toClient>>
    BY <1>i, <1>6, <2>1 DEF ReadMeta, RequestInv, QueueInv, TakenInv, BufInv, StreamInv
  <2>2. ASSUME NEW n \in 1 .. Len(toClient), h' = "dial", buf' = SubSeq(toClient, 2, n),
               toClient' = SubSeq(toClient, n + 1, Len(toClient))
        PROVE  RequestInv'
    <3>1. /\ h = "meta" /\ UNCHANGED <<srv, wrote, link, upstream, toUp, uGot>>
          /\ uGot = <<>> /\ toUp = <<>> /\ buf = <<>>
          /\ Run(toClient, 1) /\ Len(toClient) <= wrote
          /\ link = "up" => Len(toClient) = wrote
      BY <1>i, <1>6 DEF ReadMeta, RequestInv, QueueInv, TakenInv, BufInv, StreamInv, Start
    <3>2. Len(toClient) \in Nat
      BY <3>1 DEF Run
    <3>3. Run(buf', 2) /\ Len(buf') = n - 1
      BY <2>2, <3>1, <3>2, RunSubSeq
    <3>4. Run(toClient', n + 1) /\ Len(toClient') = Len(toClient) - n
      BY <2>2, <3>1, <3>2, RunSubSeq
    <3>5. Start' = n + 1
      BY <2>2, <3>1, <3>3 DEF Start
    <3>6. srv # "dial"
      BY <1>i, <2>2, <3>1 DEF RequestInv, QueueInv, TakenInv, BufInv, StreamInv
    <3>7. Run(uGot, 2) /\ Run(toUp, 2 + Len(uGot)) /\ Len(uGot) + Len(toUp) + 1 <= ReqLen
      BY <1>i DEF RequestInv, QueueInv, TakenInv, BufInv, StreamInv
    <3> QED
      <4>1. QueueInv'
        BY <3>1, <3>3, <3>4, <3>6, RunLen DEF QueueInv
      <4>2. TakenInv' /\ BufInv'
        BY <2>2, <3>1, <3>3, <3>7 DEF TakenInv, BufInv
      <4>3. StreamInv'
        <5>1. n \in Nat /\ Start' + Len(toClient') = Len(toClient) + 1
          BY <3>2, <3>4, <3>5
        <5>2. wrote' = wrote /\ link' = link
          BY <3>1
        <5>3. Run(toClient', Start')
          BY <3>4, <3>5
        <5> QED
          BY <3>1, <3>2, <5>1, <5>2, <5>3 DEF StreamInv
      <4> QED
        BY <4>1, <4>2, <4>3 DEF RequestInv
  <2> QED
    BY <1>6, <2>1, <2>2 DEF ReadMeta
<1>7. CASE DialUpstream
  BY <1>i, <1>7 DEF DialUpstream, RequestInv, QueueInv, TakenInv, BufInv, StreamInv, Start
<1>8. ASSUME h' = "done", toUp' \in {toUp} \cup Prefixes(toUp),
             toClient' \in {toClient, <<>>}, buf' \in {buf, <<>>},
             UNCHANGED <<srv, wrote, uGot>>
      PROVE  RequestInv'
  <2>1. Run(toUp, 2 + Len(uGot)) /\ Len(uGot) \in Nat
    BY <1>i DEF RequestInv, QueueInv, TakenInv, BufInv, StreamInv, Run
  <2>2. Run(toUp', 2 + Len(uGot)) /\ Len(toUp') <= Len(toUp)
        /\ Len(toUp') \in Nat /\ Len(toUp) \in Nat
    BY <1>8, <2>1, RunPrefix, RunLen
  <2> QED
    <3>1. QueueInv'
      <4>1. <<>> \in Seq(Nat)
        OBVIOUS
      <4>2. toClient' \in Seq(Nat) /\ buf' \in Seq(Nat)
        BY <1>i, <1>8, <4>1 DEF RequestInv, QueueInv
      <4> QED
        BY <1>i, <1>8, <4>2 DEF RequestInv, QueueInv
    <3>2. TakenInv'
      BY <1>i, <1>8, <2>1, <2>2 DEF RequestInv, TakenInv
    <3>3. BufInv' /\ StreamInv'
      BY <1>8 DEF BufInv, StreamInv
    <3> QED
      BY <3>1, <3>2, <3>3 DEF RequestInv
<1>9. CASE Drain
  <2>1. CASE Returns
    BY <1>8, <1>9, <2>1 DEF Drain, Returns
  <2>2. CASE h' = "splice" /\ toUp' = toUp \o buf
    <3>1. /\ h = "drain" /\ buf' = <<>>
          /\ UNCHANGED <<srv, wrote, link, upstream, uGot, toClient>>
          /\ uGot = <<>> /\ toUp = <<>> /\ Run(buf, 2)
          /\ Run(toClient, Start) /\ Start + Len(toClient) <= wrote + 1
          /\ link = "up" => Start + Len(toClient) = wrote + 1
      BY <1>i, <1>9 DEF Drain, RequestInv, QueueInv, TakenInv, BufInv, StreamInv
    <3>2. toUp' = buf /\ Len(<<>>) = 0
      BY <2>2, <3>1, ConcatEmptySeq DEF Run
    <3>3. Start = 2 + Len(buf) /\ Start' = Start /\ Len(buf) \in Nat /\ Len(toClient) \in Nat
      BY <2>2, <3>1, <3>2 DEF Start, Run
    <3> QED
      BY <1>i, <2>2, <3>1, <3>2, <3>3 DEF RequestInv, QueueInv, TakenInv, BufInv, StreamInv
  <2> QED
    BY <1>9, <2>1, <2>2 DEF Drain
<1>10. CASE CopyRequest
  <2>0. h = "splice" /\ UNCHANGED <<srv, wrote, link, h, buf, upstream, uGot>>
    BY <1>10 DEF CopyRequest
  <2>1. CASE UNCHANGED <<toUp, toClient>>
    BY <1>1, <2>0, <2>1
  <2>2. CASE ~ upstream /\ toUp' = toUp /\ toClient # <<>> /\ toClient' = Tail(toClient)
    BY <1>i, <2>0, <2>2 DEF RequestInv, QueueInv, TakenInv, BufInv, StreamInv
  <2>3. CASE upstream /\ toClient # <<>> /\ toUp' = Append(toUp, Head(toClient))
             /\ toClient' = Tail(toClient)
    <3>1. /\ buf = <<>> /\ Len(buf) = 0 /\ Run(uGot, 2) /\ Run(toUp, 2 + Len(uGot))
          /\ Run(toClient, Start) /\ Start + Len(toClient) <= wrote + 1
          /\ link = "up" => Start + Len(toClient) = wrote + 1
      BY <1>i, <2>0, <2>3 DEF RequestInv, QueueInv, TakenInv, BufInv, StreamInv
    <3>2. Len(uGot) \in Nat /\ Len(toUp) \in Nat /\ Len(toClient) \in Nat
          /\ Start = 2 + Len(uGot) + Len(toUp)
      BY <2>0, <3>1 DEF Start, Run
    <3>3. Head(toClient) = Start /\ Len(toClient') = Len(toClient) - 1
          /\ Len(toClient) > 0 /\ Run(toClient', Start + 1)
      BY <2>3, <3>1, <3>2, RunTail
    <3>4. Run(toUp', 2 + Len(uGot)) /\ Len(toUp') = Len(toUp) + 1
      BY <2>3, <3>1, <3>2, <3>3, RunAppend
    <3>5. Start' = Start + 1
      BY <2>0, <3>1, <3>2, <3>4 DEF Start
    <3>6. srv # "dial" /\ wrote <= ReqLen
      BY <1>i, <2>3 DEF RequestInv, QueueInv, TakenInv, BufInv, StreamInv
    <3> QED
      <4>1. QueueInv'
        BY <1>i, <2>0, <3>3, <3>6, RunLen DEF RequestInv, QueueInv
      <4>2. TakenInv' /\ BufInv'
        BY <2>0, <3>1, <3>2, <3>3, <3>4, <3>6 DEF TakenInv, BufInv
      <4>3. /\ Run(toClient', Start') /\ Start' + Len(toClient') = Start + Len(toClient)
            /\ wrote' = wrote /\ link' = link
        BY <2>0, <3>2, <3>3, <3>5
      <4>4. StreamInv'
        BY <3>1, <4>3 DEF StreamInv
      <4> QED
        BY <4>1, <4>2, <4>4 DEF RequestInv
  <2> QED
    BY <1>10, <2>1, <2>2, <2>3 DEF CopyRequest
<1>11. CASE HandlerReturns
  BY <1>8, <1>11 DEF HandlerReturns, HandlerEndsWhen, Returns
<1>12. CASE ClientStops
  BY <1>8, <1>12 DEF ClientStops, Returns
<1>13. CASE UpstreamReads
  <2>1. /\ toUp # <<>> /\ uGot' = Append(uGot, Head(toUp)) /\ toUp' = Tail(toUp)
        /\ UNCHANGED <<srv, wrote, link, h, buf, upstream, toClient>>
    BY <1>13 DEF UpstreamReads
  <2>2. Run(uGot, 2) /\ Run(toUp, 2 + Len(uGot)) /\ Len(uGot) \in Nat
    BY <1>i DEF RequestInv, QueueInv, TakenInv, BufInv, StreamInv, Run
  <2>3. Head(toUp) = 2 + Len(uGot) /\ Len(toUp) \in Nat \ {0}
        /\ Len(toUp') = Len(toUp) - 1 /\ Run(toUp', 2 + Len(uGot) + 1)
    BY <2>1, <2>2, RunTail
  <2>4. Run(uGot', 2) /\ Len(uGot') = Len(uGot) + 1
    BY <2>1, <2>2, <2>3, RunAppend
  <2>5. h \in {"splice", "done"}
    BY <1>i, <2>1 DEF RequestInv, QueueInv, TakenInv, BufInv, StreamInv
  <2>6. Start' = Start
    BY <1>i, <2>1, <2>2, <2>3, <2>4, <2>5
    DEF Start, RequestInv, QueueInv, TakenInv, BufInv, StreamInv
  <2> QED
    BY <1>i, <2>1, <2>2, <2>3, <2>4, <2>5, <2>6
    DEF RequestInv, QueueInv, TakenInv, BufInv, StreamInv
<1>14. CASE UpstreamCloses
  <2>1. toUp' = <<>> /\ upstream' = FALSE /\ h \in {"drain", "splice"}
        /\ UNCHANGED <<srv, wrote, link, h, buf, toClient, uGot>>
    BY <1>14 DEF UpstreamCloses
  <2>2. Len(uGot) \in Nat /\ Len(toUp) \in Nat /\ Len(<<>>) = 0 /\ Run(<<>>, 2 + Len(uGot))
    BY <1>i, RunEmpty DEF RequestInv, QueueInv, TakenInv, BufInv, StreamInv, Run
  <2>3. h = "drain" => Start' = Start
    BY <1>i, <2>1 DEF Start, RequestInv, QueueInv, TakenInv, BufInv, StreamInv
  <2> QED
    BY <1>i, <2>1, <2>2, <2>3 DEF RequestInv, QueueInv, TakenInv, BufInv, StreamInv
<1> QED
  BY <1>1, <1>2, <1>3, <1>4, <1>5, <1>6, <1>7, <1>9, <1>10, <1>11, <1>12, <1>13, <1>14
  DEF Next, FrontEnd, Handler, ReadAnswer, ReadEnd, HeaderTimeout, UserLeaves, End,
      NoticeServer, NoticeClient, CopyAnswer, UpstreamWrites, vars

-----------------------------------------------------------------------------
(* The answer.                                                             *)

\* Every step keeps the answer's chunks consecutive.
LEMMA AnswerStep ==
  ASSUME IInv, [Next]_vars
  PROVE  AnswerInv'
<1>i. AnswerInv /\ RequestInv /\ TypeOK
  BY DEF IInv
<1>0. /\ RespLen \in Nat /\ RespLen > 1 /\ uSent \in Nat /\ uSent <= RespLen
      /\ h \in {"none", "meta", "dial", "drain", "splice", "done"}
      /\ Len(got) \in Nat /\ Len(toServer) \in Nat /\ Len(fromUp) \in Nat
  <2>1. RespLen \in Nat /\ RespLen > 1
    BY Sizes
  <2>2. Len(<<>>) = 0 /\ Len(<<BadGateway>>) = 1
    OBVIOUS
  <2>3. Len(got) \in Nat /\ Len(toServer) \in Nat /\ Len(fromUp) \in Nat
    BY <1>i, <2>2, RunLen DEF AnswerInv, IsBadGateway
  <2> QED
    BY <1>i, <2>1, <2>3 DEF TypeOK, Serving
<1> USE <1>0 DEF serverVars, streamVars, linkVars, clientVars, upVars
<1>1. ASSUME UNCHANGED <<got, toServer, fromUp, uSent>>,
             h' = h \/ (h' # "splice" /\ (h = "done" => h' = "done")
                        /\ h \in {"none", "meta", "done"})
                    \/ (h \in {"dial", "drain"} /\ h' \in {"drain", "splice"}),
             link' = "up" => link = "up",
             broken' => broken \/ ~ upstream',
             upstream' => upstream, broken => broken'
      PROVE  AnswerInv'
  <2>1. h \in {"dial", "drain"} => Run(<<>>, 1) /\ Len(<<>>) = 0
    BY RunEmpty
  <2> QED
    BY <1>i, <1>1, <2>1 DEF AnswerInv, IsBadGateway
<1>2. CASE ReadAnswer
  <2>0. /\ toServer # <<>> /\ got' = Append(got, Head(toServer)) /\ toServer' = Tail(toServer)
        /\ UNCHANGED <<link, h, fromUp, uSent, upstream, broken>>
    BY <1>2 DEF ReadAnswer
  <2>1. CASE h = "done" /\ IsBadGateway
    <3>1. got = <<>> /\ toServer = <<BadGateway>>
      BY <2>0, <2>1 DEF IsBadGateway
    <3>2. Append(<<>>, Head(<<BadGateway>>)) = <<BadGateway>> /\ Tail(<<BadGateway>>) = <<>>
      OBVIOUS
    <3> QED
      BY <1>i, <2>0, <2>1, <3>1, <3>2 DEF AnswerInv, IsBadGateway
  <2>2. CASE ~ (h = "done" /\ IsBadGateway)
    <3>1. Run(got, 1) /\ Run(toServer, 1 + Len(got)) /\ Len(got) + Len(toServer) <= uSent
      BY <1>i, <2>2 DEF AnswerInv
    <3>2. Head(toServer) = 1 + Len(got) /\ Len(toServer') = Len(toServer) - 1
          /\ Run(toServer', 1 + Len(got) + 1) /\ Len(toServer) > 0
      BY <2>0, <3>1, RunTail
    <3>3. Run(got', 1) /\ Len(got') = Len(got) + 1
      BY <2>0, <3>1, <3>2, RunAppend
    <3>4. 1 + Len(got') = 1 + Len(got) + 1 /\ Len(got') + Len(toServer') = Len(got) + Len(toServer)
          /\ 1 + Len(got') + Len(toServer') = 1 + Len(got) + Len(toServer)
      BY <3>2, <3>3
    <3>5. h \in {"splice", "done"}
      BY <1>i, <2>0 DEF AnswerInv
    <3> QED
      BY <1>i, <2>0, <2>2, <3>1, <3>2, <3>3, <3>4, <3>5 DEF AnswerInv
  <2> QED
    BY <2>1, <2>2
<1>3. ASSUME link' = "cut", got' = got, toServer' \in Prefixes(toServer), uSent' = uSent,
             fromUp' \in {fromUp, <<>>}, h' = h \/ h' = "done",
             UNCHANGED <<upstream, broken>>
      PROVE  AnswerInv'
  <2>0. /\ fromUp' \in Seq(Nat) /\ (broken' => ~ upstream')
        /\ fromUp = <<>> => fromUp' = <<>>
    <3>1. <<>> \in Seq(Nat)
      OBVIOUS
    <3> QED
      BY <1>i, <1>3, <3>1 DEF AnswerInv
  <2>1. PICK n \in 0 .. Len(toServer) : toServer' = SubSeq(toServer, 1, n)
    BY <1>3 DEF Prefixes
  <2>2. CASE h = "done" /\ IsBadGateway
    <3>1. /\ Len(<<BadGateway>>) = 1 /\ SubSeq(<<BadGateway>>, 1, 1) = <<BadGateway>>
          /\ SubSeq(<<BadGateway>>, 1, 0) = <<>> /\ SubSeq(<<>>, 1, 0) = <<>> /\ Len(<<>>) = 0
      <4>1. Len(<<BadGateway>>) = 1 /\ Len(<<>>) = 0 /\ <<BadGateway>> \in Seq({BadGateway})
        OBVIOUS
      <4>2. SubSeq(<<BadGateway>>, 1, 1) = <<BadGateway>>
        BY <4>1, SubSeqFull
      <4>3. SubSeq(<<BadGateway>>, 1, 0) = <<>> /\ SubSeq(<<>>, 1, 0) = <<>>
        BY SubSeqEmpty
      <4> QED
        BY <4>1, <4>2, <4>3
    <3>2. toServer' = toServer \/ toServer' = <<>>
      <4>1. CASE toServer = <<>>
        BY <2>1, <3>1, <4>1
      <4>2. CASE toServer = <<BadGateway>>
        <5>1. n \in {0, 1}
          BY <2>1, <3>1, <4>2
        <5> QED
          BY <2>1, <3>1, <4>2, <5>1
      <4> QED
        BY <2>2, <4>1, <4>2 DEF IsBadGateway
    <3>3. CASE toServer' = toServer
      BY <1>3, <2>0, <2>2, <3>3 DEF AnswerInv, IsBadGateway
    <3>4. CASE toServer' = <<>> /\ got = <<>>
      <4>1. Run(<<>>, 1) /\ Run(<<>>, 1 + Len(<<>>))
        BY <3>1, RunEmpty
      <4> QED
        BY <1>3, <2>0, <2>2, <3>1, <3>4, <4>1 DEF AnswerInv
    <3> QED
      BY <2>2, <3>2, <3>3, <3>4 DEF IsBadGateway
  <2>3. CASE ~ (h = "done" /\ IsBadGateway)
    <3>1. Run(got, 1) /\ Run(toServer, 1 + Len(got)) /\ Len(got) + Len(toServer) <= uSent
      BY <1>i, <2>3 DEF AnswerInv
    <3>2. Run(toServer', 1 + Len(got)) /\ Len(toServer') <= Len(toServer) /\ Len(toServer') \in Nat
      BY <1>3, <3>1, RunPrefix
    <3>3. toServer = <<>> => toServer' = <<>>
      BY <3>1, <3>2, RunLen
    <3>4. Len(got) + Len(toServer') <= uSent
      <4>1. Len(got) \in Nat /\ Len(toServer) \in Nat /\ uSent \in Nat
        BY <3>1, Sizes DEF AnswerInv, Run
      <4> QED
        BY <3>1, <3>2, <4>1
    <3> QED
      BY <1>i, <1>3, <2>0, <2>3, <3>1, <3>2, <3>3, <3>4 DEF AnswerInv
  <2> QED
    BY <2>2, <2>3
<1>4. CASE DialUpstream
  <2>1. CASE h' = "drain" /\ UNCHANGED toServer
    BY <1>1, <1>4, <2>1 DEF DialUpstream
  <2>2. CASE h' = "done" /\ toServer' = IF client THEN Sent(toServer, BadGateway)
                                                  ELSE toServer
    <3>1. /\ h = "dial" /\ UNCHANGED <<got, fromUp, uSent, upstream, broken>>
          /\ uSent = 0 /\ fromUp = <<>> /\ got = <<>> /\ toServer = <<>>
      BY <1>i, <1>4 DEF DialUpstream, AnswerInv
    <3>2. toServer' \in {<<BadGateway>>, <<>>}
      BY <2>2, <3>1 DEF Sent
    <3>3. Run(<<>>, 1) /\ Run(<<>>, 1 + Len(<<>>)) /\ Len(<<>>) = 0
      BY RunEmpty
    <3> QED
      BY <1>i, <2>2, <3>1, <3>2, <3>3 DEF AnswerInv, IsBadGateway
  <2> QED
    BY <1>4, <2>1, <2>2 DEF DialUpstream
<1>5. ASSUME h' = "done", h # "none", h # "meta", fromUp' = <<>>,
             UNCHANGED <<got, toServer, uSent, upstream>>, broken' => broken \/ ~ upstream
      PROVE  AnswerInv'
  <2>1. Run(<<>>, 1) /\ Run(<<>>, 1 + Len(<<>>)) /\ Len(<<>>) = 0 /\ <<>> \in Seq(Nat)
    BY RunEmpty, RunLen
  <2> QED
    BY <1>i, <1>5, <2>1 DEF AnswerInv, IsBadGateway
<1>6. CASE Drain
  BY <1>1, <1>5, <1>6 DEF Drain, Returns
<1>7. CASE CopyAnswer
  <2>0. h = "splice" /\ UNCHANGED <<got, link, h, uSent, upstream, broken>>
    BY <1>7 DEF CopyAnswer
  <2>1. CASE UNCHANGED <<toServer, fromUp>>
    BY <1>1, <2>0, <2>1
  <2>2. CASE fromUp # <<>> /\ toServer' = Sent(toServer, Head(fromUp)) /\ fromUp' = Tail(fromUp)
    <3>1. Run(got, 1) /\ Run(toServer, 1 + Len(got)) /\ Len(got) + Len(toServer) <= uSent
      BY <1>i, <2>0 DEF AnswerInv
    <3>2. fromUp' \in Seq(Nat)
      BY <1>i, <2>2 DEF AnswerInv
    <3>3. CASE link = "up"
      <4>1. /\ Run(fromUp, 1 + Len(got) + Len(toServer))
            /\ Len(got) + Len(toServer) + Len(fromUp) <= uSent
            /\ ~ broken => Len(got) + Len(toServer) + Len(fromUp) = uSent
        BY <1>i, <2>0, <3>3 DEF AnswerInv
      <4>2. /\ Head(fromUp) = 1 + Len(got) + Len(toServer) /\ Len(fromUp) > 0
            /\ Len(fromUp') = Len(fromUp) - 1
            /\ Run(fromUp', 1 + Len(got) + Len(toServer) + 1)
        BY <2>2, <4>1, RunTail
      <4>3. Run(toServer', 1 + Len(got)) /\ Len(toServer') = Len(toServer) + 1
        BY <2>2, <3>1, <3>3, <4>2, RunAppend DEF Sent
      <4>4. 1 + Len(got) + Len(toServer') = 1 + Len(got) + Len(toServer) + 1
        BY <4>3
      <4>5. Len(got) + Len(toServer') + Len(fromUp') = Len(got) + Len(toServer) + Len(fromUp)
            /\ Len(got) + Len(toServer') <= uSent
        BY <4>1, <4>2, <4>3
      <4> QED
        BY <1>i, <2>0, <3>1, <3>2, <4>1, <4>2, <4>3, <4>4, <4>5 DEF AnswerInv
    <3>4. CASE link # "up"
      BY <1>i, <2>0, <2>2, <3>1, <3>2, <3>4 DEF AnswerInv, Sent
    <3> QED
      BY <3>3, <3>4
  <2> QED
    BY <1>7, <2>1, <2>2 DEF CopyAnswer
<1>8. CASE HandlerReturns
  BY <1>5, <1>8 DEF HandlerReturns, HandlerEndsWhen, Returns
<1>9. CASE UpstreamWrites
  <2>0. /\ upstream /\ h = "splice" /\ uSent' = uSent + 1 /\ fromUp' = Append(fromUp, uSent + 1)
        /\ UNCHANGED <<got, toServer, link, h, upstream, broken>>
    BY <1>9 DEF UpstreamWrites
  <2>1. Run(got, 1) /\ Run(toServer, 1 + Len(got)) /\ Len(got) + Len(toServer) <= uSent
        /\ fromUp \in Seq(Nat) /\ ~ broken
    BY <1>i, <2>0 DEF AnswerInv
  <2>2. fromUp' \in Seq(Nat) /\ Len(fromUp') = Len(fromUp) + 1
    BY <2>0, <2>1
  <2>3. CASE link = "up"
    <3>1. Run(fromUp, 1 + Len(got) + Len(toServer))
          /\ Len(got) + Len(toServer) + Len(fromUp) = uSent
      BY <1>i, <2>0, <2>1, <2>3 DEF AnswerInv
    <3>2. uSent + 1 = 1 + Len(got) + Len(toServer) + Len(fromUp)
          /\ 1 + Len(got) + Len(toServer) \in Nat
      BY <3>1
    <3>3. Run(fromUp', 1 + Len(got) + Len(toServer))
      BY <2>0, <3>1, <3>2, RunAppend
    <3>4. Len(got) + Len(toServer) + Len(fromUp') = uSent' /\ Len(got) + Len(toServer) <= uSent'
          /\ Len(got) + Len(toServer) + Len(fromUp') <= uSent'
      <4>1. uSent' = uSent + 1
        BY <2>0
      <4> QED
        BY <2>1, <2>2, <3>1, <4>1
    <3> QED
      BY <2>0, <2>1, <2>2, <3>3, <3>4 DEF AnswerInv
  <2>4. CASE link # "up"
    <3>1. Len(got) + Len(toServer) <= uSent'
      BY <2>0, <2>1
    <3> QED
      BY <2>0, <2>1, <2>2, <2>4, <3>1 DEF AnswerInv
  <2> QED
    BY <2>3, <2>4
<1>10. CASE UpstreamCloses
  <2>0. /\ h \in {"drain", "splice"} /\ upstream' = FALSE
        /\ UNCHANGED <<got, toServer, link, h, uSent>>
    BY <1>10 DEF UpstreamCloses
  <2>1. CASE UNCHANGED <<fromUp, broken>>
    BY <1>1, <2>0, <2>1
  <2>2. CASE broken' = TRUE /\ fromUp' \in Prefixes(fromUp)
    <3>1. /\ Run(got, 1) /\ Run(toServer, 1 + Len(got)) /\ Len(got) + Len(toServer) <= uSent
          /\ fromUp \in Seq(Nat)
      BY <1>i, <2>0, RunEmpty DEF AnswerInv
    <3>2. PICK n \in 0 .. Len(fromUp) : fromUp' = SubSeq(fromUp, 1, n)
      BY <2>2 DEF Prefixes
    <3>3. fromUp' \in Seq(Nat)
      BY <3>1, <3>2
    <3>4. h = "drain" => fromUp' = <<>>
      <4>1. ASSUME h = "drain" PROVE fromUp' = <<>>
        <5>1. fromUp = <<>> /\ Len(<<>>) = 0
          BY <1>i, <4>1 DEF AnswerInv
        <5>2. n = 0 /\ SubSeq(<<>>, 1, 0) = <<>>
          BY <3>2, <5>1
        <5> QED
          BY <3>2, <5>1, <5>2
      <4> QED
        BY <4>1
    <3>5. ASSUME link = "up", h = "splice"
          PROVE  /\ Run(fromUp', 1 + Len(got) + Len(toServer))
                 /\ Len(got) + Len(toServer) + Len(fromUp') <= uSent
      <4>1. Run(fromUp, 1 + Len(got) + Len(toServer))
            /\ Len(got) + Len(toServer) + Len(fromUp) <= uSent
        BY <1>i, <3>5 DEF AnswerInv
      <4>2. Run(fromUp', 1 + Len(got) + Len(toServer)) /\ Len(fromUp') \in Nat
            /\ Len(fromUp') <= Len(fromUp)
        BY <2>2, <4>1, RunPrefix
      <4> QED
        BY <4>1, <4>2
    <3> QED
      BY <1>i, <2>0, <2>2, <3>1, <3>3, <3>4, <3>5 DEF AnswerInv
  <2> QED
    BY <1>10, <2>1, <2>2 DEF UpstreamCloses
<1>11. CASE Cut \/ ClientStops
  BY <1>3, <1>11 DEF Cut, ClientStops, Returns
<1>12. CASE CopyRequest
  BY <1>1, <1>12 DEF CopyRequest
<1>13. CASE ReadMeta \/ Accept
  BY <1>1, <1>13 DEF ReadMeta, Accept
<1> QED
  BY <1>1, <1>2, <1>4, <1>6, <1>7, <1>8, <1>9, <1>10, <1>11, <1>12, <1>13
  DEF Next, FrontEnd, Handler, DialStream, WriteRequest, Write, ReadEnd, HeaderTimeout,
      UserLeaves, End, NoticeServer, NoticeClient, UpstreamReads, vars

-----------------------------------------------------------------------------
(* The end.                                                                *)

\* Every step that ends a copier has one of these reasons, and none goes away.
LEMMA CopierStep ==
  ASSUME IInv, [Next]_vars
  PROVE  CopierInv'
<1>i. CopierInv /\ (link = "up" => server /\ client) /\ (broken => ~ upstream)
  BY DEF IInv, TypeOK, AnswerInv
<1> USE <1>i DEF serverVars, streamVars, linkVars, clientVars, upVars, CopierInv
<1>1. CASE CopyRequest
  <2>0. h = "splice" /\ UNCHANGED <<srv, link, h, fromUp, upstream>>
    BY <1>1 DEF CopyRequest
  <2>1. ended' \in {ended, ended \cup {"request"}}
        /\ (broken => broken')
        /\ (ended' # ended => broken' \/ link = "cut" \/ srv = "done")
    <3>1. CASE UNCHANGED <<ended, broken>>
      BY <3>1
    <3>2. CASE broken' = TRUE /\ ended' \in {ended, ended \cup {"request"}}
      BY <3>2
    <3>3. CASE RequestOver /\ ended' = ended \cup {"request"} /\ UNCHANGED broken
      <4>1. link \in {"up", "cut"}
        BY DEF IInv, TypeOK
      <4> QED
        BY <3>3, <4>1 DEF RequestOver
    <3> QED
      BY <1>1, <3>1, <3>2, <3>3 DEF CopyRequest
  <2> QED
    BY <2>0, <2>1
<1>2. CASE CopyAnswer
  BY <1>2 DEF CopyAnswer
<1>3. CASE Drain \/ HandlerReturns \/ ClientStops
  BY <1>3 DEF Drain, HandlerReturns, HandlerEndsWhen, ClientStops, Returns
<1>4. CASE UpstreamWrites \/ UpstreamReads
  BY <1>4 DEF UpstreamWrites, UpstreamReads
<1>5. CASE UpstreamCloses
  BY <1>5 DEF UpstreamCloses
<1>6. CASE Accept \/ ReadMeta \/ DialUpstream
  BY <1>6 DEF Accept, ReadMeta, DialUpstream
<1>7. CASE FrontEnd \/ WriteRequest \/ UserLeaves \/ Cut \/ NoticeServer \/ NoticeClient
  BY <1>7 DEF FrontEnd, DialStream, ReadAnswer, ReadEnd, HeaderTimeout, WriteRequest, Write,
              UserLeaves, End, Cut, NoticeServer, NoticeClient
<1> QED
  BY <1>1, <1>2, <1>3, <1>4, <1>5, <1>6, <1>7 DEF Next, Handler, vars

\* A handler returns in the middle of an answer only for one of these reasons.
LEMMA EndStep ==
  ASSUME IInv, [Next]_vars
  PROVE  EndInv'
<1>i. EndInv /\ CopierInv /\ (link = "up" => server /\ client) /\ (broken => ~ upstream)
  BY DEF IInv, TypeOK, AnswerInv
<1> USE <1>i DEF serverVars, streamVars, linkVars, clientVars, upVars, EndInv
<1>1. ASSUME UNCHANGED <<got, toServer, h, link, uSent>>, broken => broken',
             srv = "done" => srv' = "done"
      PROVE  EndInv'
  BY <1>1 DEF IsBadGateway
<1>2. CASE ReadAnswer
  <2>1. /\ toServer # <<>> /\ got' = Append(got, Head(toServer)) /\ toServer' = Tail(toServer)
        /\ UNCHANGED <<h, link, broken, uSent>> /\ srv # "done"
    BY <1>2 DEF ReadAnswer
  <2>2. CASE IsBadGateway
    <3>1. got = <<>> /\ toServer = <<BadGateway>>
      BY <2>1, <2>2 DEF IsBadGateway
    <3>2. Append(<<>>, Head(<<BadGateway>>)) = <<BadGateway>> /\ Tail(<<BadGateway>>) = <<>>
      OBVIOUS
    <3> QED
      BY <2>1, <3>1, <3>2 DEF IsBadGateway
  <2>3. CASE ~ IsBadGateway
    <3>1. Run(got, 1) /\ Run(toServer, 1 + Len(got))
      BY <2>3 DEF IInv, AnswerInv
    <3>2. got \in Seq(Nat) /\ toServer \in Seq(Nat) /\ Head(toServer) \in Nat
      BY <2>1, <3>1, RunLen
    <3>3. Len(got') + Len(toServer') = Len(got) + Len(toServer)
      BY <2>1, <3>2
    <3> QED
      BY <2>1, <2>3, <3>3
  <2> QED
    BY <2>2, <2>3
<1>3. CASE DialUpstream
  <2>1. h = "dial" => got = <<>> /\ toServer = <<>>
    BY DEF IInv, AnswerInv
  <2> QED
    BY <1>3, <2>1 DEF DialUpstream, Sent, IsBadGateway
<1>4. CASE HandlerReturns
  <2>1. /\ ended # {} /\ h = "splice"
        /\ UNCHANGED <<srv, got, toServer, link, uSent, broken>>
    BY <1>4 DEF HandlerReturns, HandlerEndsWhen
  <2>2. ended \subseteq {"request", "answer"}
    BY DEF IInv, TypeOK
  <2>3. ASSUME link = "up", ~ broken, srv # "done"
        PROVE  Len(got) + Len(toServer) = uSent
    <3>1. fromUp = <<>>
      BY <2>1, <2>2, <2>3 DEF CopierInv
    <3>2. Len(got) + Len(toServer) + Len(fromUp) = uSent
          /\ Run(got, 1) /\ Run(toServer, 1 + Len(got))
      BY <2>1, <2>3 DEF IInv, AnswerInv
    <3>3. Len(fromUp) = 0 /\ Len(got) \in Nat /\ Len(toServer) \in Nat
      BY <3>1, <3>2, RunLen
    <3> QED
      BY <3>2, <3>3
  <2> QED
    BY <2>1, <2>3
<1>5. CASE UpstreamWrites
  BY <1>5 DEF UpstreamWrites
<1>6. CASE Cut \/ ClientStops
  BY <1>6 DEF Cut, ClientStops
<1>7. CASE Drain
  BY <1>7 DEF Drain, Returns
<1>8. CASE Accept \/ ReadMeta
  BY <1>8 DEF Accept, ReadMeta, RequestOver
<1>9. CASE CopyAnswer
  BY <1>9 DEF CopyAnswer
<1>10. CASE CopyRequest \/ UpstreamReads \/ UpstreamCloses
  BY <1>1, <1>10 DEF CopyRequest, UpstreamReads, UpstreamCloses
<1> QED
  BY <1>1, <1>2, <1>3, <1>4, <1>5, <1>6, <1>7, <1>8, <1>9, <1>10
  DEF Next, FrontEnd, Handler, DialStream, ReadEnd, HeaderTimeout, WriteRequest, Write,
      UserLeaves, End, NoticeServer, NoticeClient, vars

\* An answer is only taken for complete when it is, and stays so.
LEMMA WholeStep ==
  ASSUME IInv, [Next]_vars
  PROVE  WholeInv'
<1>i. WholeInv /\ EndInv /\ (link = "up" => server /\ client)
      /\ (srv = "done" <=> result # "none") /\ framing \in {"length", "close"}
      /\ link \in {"up", "cut"}
  BY DEF IInv, TypeOK
<1> USE <1>i DEF serverVars, streamVars, linkVars, clientVars, upVars, WholeInv, WholeIsWhole
<1>1. ASSUME UNCHANGED <<result, framing, got, uSent>>, h = "done" => h' = "done",
             link = "cut" => link' = "cut", broken => broken'
      PROVE  WholeInv'
  BY <1>1
<1>2. ASSUME result' # "whole" PROVE WholeInv'
  BY <1>2
<1>3. CASE ReadAnswer
  <2>1. /\ srv # "done" /\ toServer # <<>> /\ got' = Append(got, Head(toServer))
        /\ framing' = framing
        /\ \/ framing = "length" /\ Head(toServer) = RespLen
           \/ result' = result
    BY <1>3 DEF ReadAnswer, End
  <2>2. CASE result' = result
    BY <1>2, <2>1, <2>2
  <2>3. CASE framing = "length" /\ Head(toServer) = RespLen
    <3>1. Head(<<BadGateway>>) # RespLen
      BY Sizes DEF BadGateway
    <3>2. Run(got, 1) /\ Run(toServer, 1 + Len(got))
      BY <2>1, <2>3, <3>1 DEF IInv, AnswerInv, IsBadGateway
    <3>3. Len(got) \in Nat
      BY <3>2, RunLen
    <3>4. Head(toServer) = 1 + Len(got)
      BY <2>1, <3>2, <3>3, RunTail
    <3>5. Len(got') = Len(got) + 1
      BY <2>1, <3>2, <3>3, <3>4, RunAppend
    <3> QED
      BY <2>1, <2>3, <3>3, <3>4, <3>5
  <2> QED
    BY <2>1, <2>2, <2>3
<1>4. CASE ReadEnd
  <2>1. /\ srv # "done" /\ toServer = <<>> /\ Len(<<>>) = 0
        /\ UNCHANGED <<got, framing, h, link, uSent, broken>>
        /\ link = "up" => h = "done"
        /\ result' = "whole" => framing = "close" \/ got = <<BadGateway>>
    BY <1>4 DEF ReadEnd, End
  <2>2. ASSUME link = "up", ~ broken, framing = "close", result' = "whole"
        PROVE  got = <<BadGateway>> \/ Len(got) = uSent
    <3>1. <<>> # <<BadGateway>>
      OBVIOUS
    <3>2. CASE IsBadGateway
      BY <2>1, <3>1, <3>2 DEF IsBadGateway
    <3>3. CASE ~ IsBadGateway
      <4>1. Len(got) + 0 = uSent
        BY <2>1, <2>2, <3>3 DEF EndInv
      <4>2. Len(got) \in Nat
        BY <3>3, RunLen DEF IInv, AnswerInv
      <4> QED
        BY <4>1, <4>2
    <3> QED
      BY <3>2, <3>3
  <2> QED
    BY <2>1, <2>2
<1>5. CASE UpstreamWrites
  <2>1. h = "splice" /\ UNCHANGED <<result, framing, got, h, link, broken>>
    BY <1>5 DEF UpstreamWrites
  <2> QED
    BY <2>1
<1>6. CASE DialStream \/ HeaderTimeout \/ UserLeaves
  BY <1>1, <1>2, <1>6 DEF DialStream, HeaderTimeout, UserLeaves, End
<1>7. CASE CopyRequest \/ CopyAnswer \/ UpstreamReads \/ UpstreamCloses \/ WriteRequest
  BY <1>1, <1>7 DEF CopyRequest, CopyAnswer, UpstreamReads, UpstreamCloses, WriteRequest, Write
<1>8. CASE Cut \/ NoticeServer \/ NoticeClient \/ ClientStops
  BY <1>1, <1>8 DEF Cut, NoticeServer, NoticeClient, ClientStops, Returns
<1>9. CASE Handler
  BY <1>1, <1>9 DEF Handler, Accept, ReadMeta, DialUpstream, Drain, HandlerReturns,
                    HandlerEndsWhen, Returns
<1> QED
  BY <1>1, <1>3, <1>4, <1>5, <1>6, <1>7, <1>8, <1>9 DEF Next, FrontEnd, vars

-----------------------------------------------------------------------------
(* Types.                                                                  *)

\* No queue holds more than there is room for.
LEMMA SizeStep ==
  ASSUME IInv, [Next]_vars
  PROVE  /\ Len(toClient') <= Window /\ Len(toServer') <= Window
         /\ Len(buf') <= Buffered
         /\ Len(toUp') <= TcpBuffer /\ Len(fromUp') <= TcpBuffer
<1>i. /\ RequestInv /\ AnswerInv
      /\ Len(toClient) <= Window /\ Len(toServer) <= Window /\ Len(buf) <= Buffered
      /\ Len(toUp) <= TcpBuffer /\ Len(fromUp) <= TcpBuffer
  BY DEF IInv, TypeOK
<1>0. /\ Window \in Nat /\ Buffered \in Nat /\ TcpBuffer \in Nat
      /\ Window > 0 /\ Buffered <= TcpBuffer
  BY Sizes
<1>q. /\ toClient \in Seq(Nat) /\ toServer \in Seq(Nat) /\ buf \in Seq(Nat)
      /\ toUp \in Seq(Nat) /\ fromUp \in Seq(Nat)
  <2>1. toServer \in Seq(Nat)
    <3>1. <<>> \in Seq(Nat) /\ <<BadGateway>> \in Seq(Nat)
      BY DEF BadGateway
    <3> QED
      BY <1>i, <3>1, RunLen DEF AnswerInv, IsBadGateway
  <2> QED
    BY <1>i, <2>1, RunLen DEF RequestInv, QueueInv, TakenInv, AnswerInv
<1>p. ASSUME NEW q \in Seq(Nat), NEW p \in Prefixes(q)
      PROVE  Len(p) <= Len(q)
  BY <1>p DEF Prefixes
<1>e. Len(<<>>) = 0
  OBVIOUS
<1> USE <1>0, <1>q DEF serverVars, streamVars, linkVars, clientVars, upVars
<1>1. Len(toClient') <= Window
  <2>1. CASE DialStream
    <3>1. toClient = <<>>
      BY <1>i, <2>1 DEF DialStream, RequestInv, QueueInv
    <3>2. Len(Append(<<>>, 1)) = 1
      OBVIOUS
    <3>3. toClient' \in {<<>>, Append(<<>>, 1)}
      BY <2>1, <3>1 DEF DialStream, Sent
    <3>4. CASE toClient' = Append(<<>>, 1)
      BY <3>2, <3>4
    <3>5. CASE toClient' = <<>>
      BY <1>e, <3>5
    <3> QED
      BY <3>3, <3>4, <3>5
  <2>2. CASE WriteRequest
    <3>1. Len(toClient) < Window /\ toClient' \in {toClient, Append(toClient, wrote')}
      BY <2>2 DEF WriteRequest, Write, Sent
    <3>2. Len(Append(toClient, wrote')) = Len(toClient) + 1
      OBVIOUS
    <3> QED
      BY <1>i, <3>1, <3>2
  <2>3. CASE ReadMeta
    <3>1. ASSUME NEW n \in 1 .. Len(toClient)
          PROVE  Len(SubSeq(toClient, n + 1, Len(toClient))) <= Len(toClient)
      BY <3>1
    <3> QED
      BY <1>i, <2>3, <3>1 DEF ReadMeta
  <2>4. toClient' \in {toClient, <<>>} => Len(toClient') <= Window
    BY <1>i, <1>e
  <2>5. toClient # <<>> /\ toClient' = Tail(toClient) => Len(toClient') <= Window
    BY <1>i
  <2>6. toClient' \in Prefixes(toClient) => Len(toClient') <= Window
    BY <1>i, <1>p
  <2> QED
    BY <2>1, <2>2, <2>3, <2>4, <2>5, <2>6
    DEF Next, FrontEnd, Handler, ReadAnswer, ReadEnd, HeaderTimeout, UserLeaves, Cut,
        NoticeServer, NoticeClient, Accept, DialUpstream, Drain, HandlerReturns,
        HandlerEndsWhen, CopyRequest, CopyAnswer, ClientStops, UpstreamReads,
        UpstreamWrites, UpstreamCloses, vars
<1>2. Len(toServer') <= Window
  <2>1. CASE DialUpstream
    <3>1. toServer' \in {toServer, <<BadGateway>>}
      <4>1. toServer = <<>>
        BY <1>i, <2>1 DEF DialUpstream, AnswerInv
      <4> QED
        BY <2>1, <4>1 DEF DialUpstream, Sent
    <3>2. Len(<<BadGateway>>) = 1
      OBVIOUS
    <3>3. CASE toServer' = <<BadGateway>>
      BY <3>2, <3>3
    <3>4. CASE toServer' = toServer
      BY <1>i, <3>4
    <3> QED
      BY <3>1, <3>3, <3>4
  <2>2. CASE CopyAnswer
    <3>1. \/ toServer' = toServer
          \/ Len(toServer) < Window /\ toServer' = Append(toServer, Head(fromUp))
      <4>1. \/ UNCHANGED toServer
            \/ Len(toServer) < Window /\ toServer' = Sent(toServer, Head(fromUp))
        BY <2>2 DEF CopyAnswer
      <4> QED
        BY <4>1 DEF Sent
    <3>2. Len(Append(toServer, Head(fromUp))) = Len(toServer) + 1
      OBVIOUS
    <3> QED
      BY <1>i, <3>1, <3>2
  <2>3. CASE ReadAnswer
    BY <1>i, <2>3 DEF ReadAnswer
  <2>4. toServer' \in {toServer} \cup Prefixes(toServer) => Len(toServer') <= Window
    BY <1>i, <1>p
  <2> QED
    BY <2>1, <2>2, <2>3, <2>4
    DEF Next, FrontEnd, Handler, DialStream, WriteRequest, Write, ReadEnd, HeaderTimeout,
        UserLeaves, Cut, NoticeServer, NoticeClient, Accept, ReadMeta, Drain, HandlerReturns,
        HandlerEndsWhen, CopyRequest, ClientStops, UpstreamReads, UpstreamWrites,
        UpstreamCloses, vars
<1>3. Len(buf') <= Buffered
  <2>1. CASE ReadMeta
    <3>1. ASSUME NEW n \in 1 .. Len(toClient), n <= Buffered + 1
          PROVE  Len(SubSeq(toClient, 2, n)) <= Buffered
      BY <3>1
    <3> QED
      BY <1>i, <2>1, <3>1 DEF ReadMeta
  <2>2. buf' \in {buf, <<>>} => Len(buf') <= Buffered
    BY <1>i, <1>e
  <2> QED
    BY <2>1, <2>2
    DEF Next, FrontEnd, Handler, DialStream, WriteRequest, Write, ReadAnswer, ReadEnd,
        HeaderTimeout, UserLeaves, Cut, NoticeServer, NoticeClient, Accept, DialUpstream,
        Drain, HandlerReturns, HandlerEndsWhen, CopyRequest, CopyAnswer, ClientStops,
        UpstreamReads, UpstreamWrites, UpstreamCloses, vars
<1>4. Len(toUp') <= TcpBuffer
  <2>1. CASE Drain
    <3>1. h = "drain" => toUp = <<>>
      BY <1>i DEF RequestInv, TakenInv
    <3>2. <<>> \o buf = buf
      BY ConcatEmptySeq
    <3>3. Returns => Len(toUp') <= Len(toUp)
      BY <1>p DEF Returns
    <3> QED
      BY <1>i, <2>1, <3>1, <3>2, <3>3 DEF Drain
  <2>2. CASE CopyRequest
    <3>1. \/ UNCHANGED toUp
          \/ Len(toUp) < TcpBuffer /\ toUp' = Append(toUp, Head(toClient))
      BY <2>2 DEF CopyRequest
    <3>2. Len(Append(toUp, Head(toClient))) = Len(toUp) + 1
      OBVIOUS
    <3> QED
      BY <1>i, <3>1, <3>2
  <2>3. CASE UpstreamReads
    BY <1>i, <2>3 DEF UpstreamReads
  <2>4. toUp' \in {toUp, <<>>} \cup Prefixes(toUp) => Len(toUp') <= TcpBuffer
    BY <1>i, <1>p, <1>e
  <2> QED
    BY <2>1, <2>2, <2>3, <2>4
    DEF Next, FrontEnd, Handler, DialStream, WriteRequest, Write, ReadAnswer, ReadEnd,
        HeaderTimeout, UserLeaves, Cut, NoticeServer, NoticeClient, Accept, ReadMeta,
        DialUpstream, HandlerReturns, HandlerEndsWhen, CopyAnswer, ClientStops, Returns,
        UpstreamWrites, UpstreamCloses, vars
<1>5. Len(fromUp') <= TcpBuffer
  <2>1. CASE UpstreamWrites
    <3>1. Len(fromUp) < TcpBuffer /\ fromUp' = Append(fromUp, uSent')
      BY <2>1 DEF UpstreamWrites
    <3>2. Len(Append(fromUp, uSent')) = Len(fromUp) + 1
      OBVIOUS
    <3> QED
      BY <1>i, <3>1, <3>2
  <2>2. CASE CopyAnswer
    BY <1>i, <2>2 DEF CopyAnswer
  <2>3. fromUp' \in {fromUp, <<>>} \cup Prefixes(fromUp) => Len(fromUp') <= TcpBuffer
    BY <1>i, <1>p, <1>e
  <2> QED
    BY <2>1, <2>2, <2>3
    DEF Next, FrontEnd, Handler, DialStream, WriteRequest, Write, ReadAnswer, ReadEnd,
        HeaderTimeout, UserLeaves, Cut, NoticeServer, NoticeClient, Accept, ReadMeta,
        DialUpstream, Drain, HandlerReturns, HandlerEndsWhen, CopyRequest, ClientStops,
        Returns, UpstreamReads, UpstreamCloses, vars
<1> QED
  BY <1>1, <1>2, <1>3, <1>4, <1>5

\* Every variable keeps its type, and no end gets more than was sent.
LEMMA TypeStep ==
  ASSUME IInv, [Next]_vars
  PROVE  TypeOK'
<1>i. TypeOK
  BY DEF IInv
<1>0. /\ ReqLen \in Nat /\ RespLen \in Nat /\ ReqLen > 2 /\ RespLen > 1
      /\ wrote \in 0 .. ReqLen /\ uSent \in 0 .. RespLen
  BY <1>i, Sizes DEF TypeOK
<1> USE DEF serverVars, streamVars, linkVars, clientVars, upVars
<1>1. srv' \in {"dial", "request", "answer", "done"} /\ wrote' \in 0 .. ReqLen
  <2>1. CASE UNCHANGED <<srv, wrote>>
    BY <1>i, <2>1 DEF TypeOK
  <2>2. CASE WriteRequest
    BY <1>0, <1>i, <2>2 DEF TypeOK, WriteRequest, Write, End
  <2>3. CASE DialStream
    BY <1>0, <1>i, <2>3 DEF TypeOK, DialStream, End
  <2>4. CASE (srv' \in {srv, "answer", "done"}) /\ wrote' = wrote
    BY <1>i, <2>4 DEF TypeOK
  <2> QED
    BY <2>1, <2>2, <2>3, <2>4
    DEF Next, FrontEnd, ReadAnswer, ReadEnd, HeaderTimeout, UserLeaves, End, Handler, Cut,
        NoticeServer, NoticeClient, Accept, ReadMeta, DialUpstream, Drain,
        HandlerReturns, HandlerEndsWhen, CopyRequest, CopyAnswer, ClientStops, UpstreamReads,
        UpstreamWrites, UpstreamCloses, vars
<1>2. /\ result' \in {"none", "bad_gateway", "whole", "cut", "left"}
      /\ srv' = "done" <=> result' # "none"
  <2>1. CASE UNCHANGED <<srv, result>>
    BY <1>i, <2>1 DEF TypeOK
  <2>2. CASE FrontEnd \/ WriteRequest \/ UserLeaves
    BY <1>i, <2>2 DEF TypeOK, FrontEnd, DialStream, WriteRequest, Write, ReadAnswer, ReadEnd,
                      HeaderTimeout, UserLeaves, End
  <2> QED
    BY <2>1, <2>2
    DEF Next, Handler, Cut, NoticeServer, NoticeClient, Accept, ReadMeta, DialUpstream, Drain,
        HandlerReturns, HandlerEndsWhen, CopyRequest, CopyAnswer, ClientStops, UpstreamReads,
        UpstreamWrites, UpstreamCloses, vars
<1>3. /\ framing' \in {"length", "close"} /\ link' \in {"up", "cut"}
      /\ server' \in BOOLEAN /\ client' \in BOOLEAN
      /\ link' = "up" => server' /\ client'
  <2>1. CASE UNCHANGED <<framing, link, server, client>>
    BY <1>i, <2>1 DEF TypeOK
  <2>2. CASE Cut \/ NoticeServer \/ NoticeClient \/ ClientStops
    BY <1>i, <2>2 DEF TypeOK, Cut, NoticeServer, NoticeClient, ClientStops
  <2> QED
    BY <2>1, <2>2
    DEF Next, FrontEnd, Handler, DialStream, WriteRequest, Write, ReadAnswer, ReadEnd,
        HeaderTimeout, UserLeaves, End, Accept, ReadMeta, DialUpstream, Drain,
        HandlerReturns, HandlerEndsWhen, CopyRequest, CopyAnswer, UpstreamReads,
        UpstreamWrites, UpstreamCloses, vars
<1>4. /\ h' \in {"none", "meta", "dial", "drain", "splice", "done"}
      /\ ended' \subseteq {"request", "answer"} /\ upstream' \in BOOLEAN /\ broken' \in BOOLEAN
  <2>0. /\ h \in {"none", "meta", "dial", "drain", "splice", "done"}
        /\ ended \subseteq {"request", "answer"}
        /\ upstream \in BOOLEAN /\ broken \in BOOLEAN
    BY <1>i DEF TypeOK, Serving
  <2>1. CASE Handler \/ ClientStops
    BY <2>0, <2>1 DEF Handler, Accept, ReadMeta, DialUpstream, Drain, HandlerReturns,
                HandlerEndsWhen, ClientStops, Returns
  <2>2. CASE CopyRequest \/ CopyAnswer
    BY <2>0, <2>2 DEF CopyRequest, CopyAnswer
  <2>3. CASE UpstreamCloses
    BY <2>0, <2>3 DEF UpstreamCloses
  <2>4. CASE UNCHANGED <<h, ended, upstream, broken>>
    BY <2>0, <2>4
  <2> QED
    BY <2>1, <2>2, <2>3, <2>4
    DEF Next, FrontEnd, DialStream, WriteRequest, Write, ReadAnswer, ReadEnd,
        HeaderTimeout, UserLeaves, End, Cut, NoticeServer, NoticeClient, UpstreamReads,
        UpstreamWrites, vars
<1>5. uSent' \in 0 .. RespLen
  <2>1. CASE uSent' = uSent
    BY <1>0, <2>1
  <2>2. CASE uSent < RespLen /\ uSent' = uSent + 1
    BY <1>0, <2>2
  <2> QED
    BY <2>1, <2>2
    DEF Next, FrontEnd, Handler, DialStream, WriteRequest, Write, ReadAnswer, ReadEnd,
        HeaderTimeout, UserLeaves, End, Cut, NoticeServer, NoticeClient, Accept, ReadMeta,
        DialUpstream, Drain, HandlerReturns, HandlerEndsWhen, CopyRequest, CopyAnswer,
        ClientStops, UpstreamReads, UpstreamWrites, UpstreamCloses, vars
<1>6. Len(got') <= RespLen
  <2>1. CASE IsBadGateway'
    <3>1. Len(<<>>) = 0 /\ Len(<<BadGateway>>) = 1
      OBVIOUS
    <3>2. got' = <<>> \/ got' = <<BadGateway>>
      BY <2>1 DEF IsBadGateway
    <3>3. CASE got' = <<>>
      BY <1>0, <3>1, <3>3
    <3>4. CASE got' = <<BadGateway>>
      BY <1>0, <3>1, <3>4
    <3> QED
      BY <3>2, <3>3, <3>4
  <2>2. CASE ~ IsBadGateway'
    <3>1. Run(got, 1)' /\ Run(toServer, 1 + Len(got))' /\ Len(got') + Len(toServer') <= uSent'
      BY <2>2, AnswerStep DEF AnswerInv
    <3>2. Len(got') \in Nat /\ Len(toServer') \in Nat
      BY <3>1, RunLen
    <3> QED
      BY <1>0, <1>5, <3>1, <3>2
  <2> QED
    BY <2>1, <2>2
<1>7. Len(uGot') < ReqLen
  <2>1. Run(uGot, 2)' /\ Run(toUp, 2 + Len(uGot))' /\ Len(uGot') + Len(toUp') + 1 <= ReqLen
    BY RequestStep DEF RequestInv, TakenInv
  <2>2. Len(uGot') \in Nat /\ Len(toUp') \in Nat
    BY <2>1, RunLen
  <2> QED
    BY <1>0, <2>1, <2>2
<1> QED
  BY <1>1, <1>2, <1>3, <1>4, <1>5, <1>6, <1>7, SizeStep DEF TypeOK, Serving

-----------------------------------------------------------------------------
(* The theorems.                                                           *)

\* The invariant holds in every state of every run.
LEMMA Invariance == Spec => []IInv
<1>1. IInv /\ [Next]_vars => IInv'
  BY TypeStep, RequestStep, AnswerStep, CopierStep, EndStep, WholeStep DEF IInv
<1> QED
  BY <1>1, InitIInv, PTL DEF Spec

\* Every variable keeps its type; above all, no window or buffer overflows.
THEOREM ForwardTypeCorrect == Spec => []TypeOK
<1>1. IInv => TypeOK
  BY DEF IInv
<1> QED
  BY <1>1, Invariance, PTL

\* A sequence of the first n numbers.
LEMMA RunFromOne ==
  ASSUME NEW n \in Nat
  PROVE  [i \in 1 .. n |-> 1 + i - 1] = [i \in 1 .. n |-> i]
  OBVIOUS

\* Whatever the sizes, the upstream gets the request without the line in order
\* and without a gap, and the user the answer or a bad gateway.
THEOREM BytesStayInOrder == Spec => []InOrder
<1>1. ASSUME IInv PROVE InOrder
  <2>0. RespLen \in Nat /\ uSent \in Nat /\ uSent <= RespLen
    BY <1>1, Sizes DEF IInv, TypeOK
  <2>1. Run(uGot, 2) /\ Run(toUp, 2 + Len(uGot))
    BY <1>1 DEF IInv, RequestInv, TakenInv
  <2>2. uGot \o toUp = [i \in 1 .. Len(uGot) + Len(toUp) |-> 2 + i - 1]
    BY <2>1, RunConcat
  <2>3. uGot \o toUp = [i \in 1 .. Len(uGot) + Len(toUp) |-> i + 1]
    <3>1. Len(uGot) + Len(toUp) \in Nat
      BY <2>1, RunLen
    <3>2. [i \in 1 .. Len(uGot) + Len(toUp) |-> 2 + i - 1]
            = [i \in 1 .. Len(uGot) + Len(toUp) |-> i + 1]
      BY <3>1
    <3> QED
      BY <2>2, <3>2
  <2>4. CASE IsBadGateway
    <3>1. <<>> \o <<BadGateway>> = <<BadGateway>> /\ <<BadGateway>> \o <<>> = <<BadGateway>>
      OBVIOUS
    <3>2. got \o toServer = <<BadGateway>>
      BY <2>4, <3>1 DEF IsBadGateway
    <3> QED
      BY <2>3, <3>2 DEF InOrder
  <2>5. CASE ~ IsBadGateway
    <3> DEFINE n == Len(got) + Len(toServer)
    <3>1. Run(got, 1) /\ Run(toServer, 1 + Len(got)) /\ Len(got) + Len(toServer) <= uSent
      BY <1>1, <2>5 DEF IInv, AnswerInv
    <3>2. n \in 0 .. RespLen /\ n \in Nat
      BY <2>0, <3>1, RunLen
    <3>3. got \o toServer = [i \in 1 .. n |-> 1 + i - 1]
      BY <3>1, RunConcat
    <3>4. got \o toServer = [i \in 1 .. n |-> i]
      BY <3>2, <3>3, RunFromOne
    <3> HIDE DEF n
    <3> QED
      BY <2>3, <3>2, <3>4 DEF InOrder
  <2> QED
    BY <2>4, <2>5
<1> QED
  BY <1>1, Invariance, PTL

\* An answer the user takes for complete is, but for a link that was cut or an
\* upstream that closed with the request unread under an answer without length.
THEOREM CompleteIsComplete == Spec => []WholeIsWhole
<1>1. IInv => WholeIsWhole
  BY DEF IInv, WholeInv
<1> QED
  BY <1>1, Invariance, PTL

-----------------------------------------------------------------------------
(* The way through the tunnel is an exchange.                              *)

\* The upstream is ahead of nothing the front end has written after the line.
CausalInv == Len(uGot) + Len(toUp) = 0 \/ Len(uGot) + Len(toUp) + 1 <= wrote

\* Where the front end stands, and what the user has of the answer.
RoundInv ==
  /\ srv \in {"dial", "request"} => got = <<>>
  /\ srv = "answer" => got # <<>>
  /\ srv \in {"request", "answer"} => wrote > 0
  /\ srv = "answer" /\ framing = "length" => Len(got) < RespLen

\* The numbers in the invariant.
LEMMA Numbers ==
  ASSUME IInv
  PROVE  /\ wrote \in Nat /\ wrote <= ReqLen /\ uSent \in Nat
         /\ Len(uGot) \in Nat /\ Len(toUp) \in Nat
         /\ Run(uGot, 2) /\ Run(toUp, 2 + Len(uGot))
<1>1. Run(uGot, 2) /\ Run(toUp, 2 + Len(uGot))
  BY DEF IInv, RequestInv, TakenInv
<1> QED
  BY <1>1, RunLen, Sizes DEF IInv, TypeOK

\* A run that starts with 1 is no bad gateway.
LEMMA RunIsAnswer ==
  ASSUME NEW q, Run(q, 1)
  PROVE  q # <<BadGateway>>
<1>1. Len(<<BadGateway>>) = 1 /\ <<BadGateway>>[1] = 0
  BY DEF BadGateway
<1>2. ASSUME q = <<BadGateway>> PROVE FALSE
  <2>1. Len(q) = 1 /\ q[1] = 0
    BY <1>1, <1>2
  <2>2. q[1] = 1 + 1 - 1
    BY <2>1 DEF Run
  <2> QED
    BY <2>1, <2>2
<1> QED
  BY <1>2

\* The chunk the front end reads is a bad gateway or the answer's next.
LEMMA NextChunk ==
  ASSUME IInv, ReadAnswer
  PROVE  \/ /\ got = <<>> /\ got' = <<BadGateway>> /\ Head(toServer) # RespLen
         \/ /\ Run(got, 1) /\ Run(got', 1)
            /\ Len(got) \in Nat /\ Len(got') = Len(got) + 1
            /\ Head(toServer) = Len(got) + 1 /\ Len(got) < uSent
<1>1. toServer # <<>> /\ got' = Append(got, Head(toServer))
  BY DEF ReadAnswer
<1>2. CASE IsBadGateway
  <2>1. Append(<<>>, BadGateway) = <<BadGateway>> /\ Head(<<BadGateway>>) = BadGateway
    OBVIOUS
  <2>2. got = <<>> /\ toServer = <<BadGateway>>
    BY <1>1, <1>2 DEF IsBadGateway
  <2> QED
    BY <1>1, <2>1, <2>2, Sizes DEF BadGateway
<1>3. CASE ~ IsBadGateway
  <2>1. Run(got, 1) /\ Run(toServer, 1 + Len(got)) /\ Len(got) + Len(toServer) <= uSent
    BY <1>3 DEF IInv, AnswerInv
  <2>2. Len(got) \in Nat
    BY <2>1, RunLen
  <2>3. Head(toServer) = 1 + Len(got) /\ Len(toServer) \in Nat \ {0}
    BY <1>1, <2>1, <2>2, RunTail
  <2>4. Run(got', 1) /\ Len(got') = Len(got) + 1
    BY <1>1, <2>1, <2>2, <2>3, RunAppend
  <2> QED
    BY <2>1, <2>2, <2>3, <2>4, Numbers
<1> QED
  BY <1>2, <1>3

\* Nothing reaches the upstream's connection before it is written.
LEMMA CausalStep ==
  ASSUME IInv, CausalInv, [Next]_vars
  PROVE  CausalInv'
<1>i. /\ wrote \in Nat /\ Len(uGot) \in Nat /\ Len(toUp) \in Nat
      /\ Run(uGot, 2) /\ Run(toUp, 2 + Len(uGot)) /\ RequestInv
  BY Numbers DEF IInv
<1> USE DEF CausalInv
<1>1. ASSUME uGot' = uGot, toUp' = toUp, wrote' \in {wrote, wrote + 1} PROVE CausalInv'
  BY <1>i, <1>1
<1>2. ASSUME uGot' = uGot, wrote' = wrote, toUp' \in {toUp, <<>>} \cup Prefixes(toUp)
      PROVE  CausalInv'
  <2>1. Len(toUp') \in Nat /\ Len(toUp') <= Len(toUp)
    <3>1. Len(<<>>) = 0
      OBVIOUS
    <3> QED
      BY <1>i, <1>2, <3>1, RunPrefix
  <2> QED
    BY <1>i, <1>2, <2>1
<1>3. CASE Drain
  <2>1. CASE Returns
    BY <1>2, <1>3, <2>1 DEF Drain, Returns, serverVars
  <2>2. CASE toUp' = toUp \o buf
    <3>1. /\ h = "drain" /\ uGot = <<>> /\ toUp = <<>> /\ Run(buf, 2) /\ Run(toClient, Start)
          /\ Start + Len(toClient) <= wrote + 1 /\ uGot' = uGot /\ wrote' = wrote
      BY <1>i, <1>3 DEF Drain, RequestInv, TakenInv, BufInv, StreamInv, serverVars
    <3>2. toUp' = buf /\ Len(<<>>) = 0 /\ Len(buf) \in Nat /\ Len(toClient) \in Nat
      BY <2>2, <3>1, ConcatEmptySeq, RunLen DEF Run
    <3>3. Start = 2 + Len(buf)
      BY <3>1, <3>2 DEF Start
    <3> QED
      BY <1>i, <3>1, <3>2, <3>3
  <2> QED
    BY <1>3, <2>1, <2>2 DEF Drain
<1>4. CASE CopyRequest
  <2>1. h = "splice" /\ uGot' = uGot /\ wrote' = wrote
    BY <1>4 DEF CopyRequest, serverVars
  <2>2. CASE upstream /\ toClient # <<>> /\ toUp' = Append(toUp, Head(toClient))
    <3>1. /\ buf = <<>> /\ Len(buf) = 0 /\ Run(toClient, Start)
          /\ Start + Len(toClient) <= wrote + 1
      BY <1>i, <2>1, <2>2 DEF RequestInv, BufInv, StreamInv
    <3>2. Start = 2 + Len(uGot) + Len(toUp)
      BY <1>i, <2>1, <3>1 DEF Start
    <3>3. Head(toClient) = Start /\ Len(toClient) \in Nat \ {0}
      BY <1>i, <2>2, <3>1, <3>2, RunTail
    <3>4. Len(toUp') = Len(toUp) + 1
      BY <1>i, <2>2, <3>2, <3>3, RunAppend
    <3> QED
      BY <1>i, <2>1, <3>1, <3>2, <3>3, <3>4
  <2>3. CASE toUp' = toUp
    BY <1>1, <2>1, <2>3
  <2> QED
    BY <1>4, <2>2, <2>3 DEF CopyRequest
<1>5. CASE UpstreamReads
  <2>1. toUp # <<>> /\ uGot' = Append(uGot, Head(toUp)) /\ toUp' = Tail(toUp)
        /\ wrote' = wrote
    BY <1>5 DEF UpstreamReads, serverVars
  <2>2. Head(toUp) = 2 + Len(uGot) /\ Len(toUp') = Len(toUp) - 1 /\ Len(toUp) # 0
    BY <1>i, <2>1, RunTail
  <2>3. Len(uGot') = Len(uGot) + 1
    BY <1>i, <2>1, <2>2, RunAppend
  <2> QED
    BY <1>i, <2>1, <2>2, <2>3
<1>6. CASE DialStream
  <2>1. wrote = 0
    BY <1>i, <1>6 DEF DialStream, RequestInv, QueueInv
  <2> QED
    BY <1>1, <1>6, <2>1 DEF DialStream, upVars
<1>7. CASE UpstreamCloses \/ HandlerReturns \/ ClientStops
  BY <1>2, <1>7
  DEF UpstreamCloses, HandlerReturns, HandlerEndsWhen, ClientStops, Returns, serverVars
<1>8. CASE \/ ReadAnswer \/ ReadEnd \/ HeaderTimeout \/ WriteRequest \/ UserLeaves
           \/ Cut \/ NoticeServer \/ NoticeClient
           \/ Accept \/ ReadMeta \/ DialUpstream \/ CopyAnswer \/ UpstreamWrites
  BY <1>1, <1>8
  DEF ReadAnswer, ReadEnd, HeaderTimeout, WriteRequest, Write, UserLeaves, Cut, NoticeServer,
      NoticeClient, Accept, ReadMeta, DialUpstream, CopyAnswer, UpstreamWrites, serverVars, upVars
<1>9. CASE UNCHANGED vars
  BY <1>1, <1>9 DEF vars, serverVars, upVars
<1> QED
  BY <1>3, <1>4, <1>5, <1>6, <1>7, <1>8, <1>9 DEF Next, FrontEnd, Handler

\* A step of anybody but the front end leaves its state alone.
LEMMA OthersLeave ==
  ASSUME [Next]_vars
  PROVE  \/ DialStream \/ WriteRequest \/ ReadAnswer \/ ReadEnd \/ HeaderTimeout \/ UserLeaves
         \/ UNCHANGED serverVars
  BY DEF Next, FrontEnd, Handler, Cut, NoticeServer, NoticeClient, Accept, ReadMeta,
         DialUpstream, Drain, HandlerReturns, HandlerEndsWhen, CopyRequest, CopyAnswer,
         ClientStops, UpstreamReads, UpstreamWrites, UpstreamCloses, vars

\* The front end's stages keep what they say.
LEMMA RoundStep ==
  ASSUME IInv, RoundInv, [Next]_vars
  PROVE  RoundInv'
<1>i. wrote \in Nat /\ RespLen \in Nat /\ RespLen > 1 /\ framing \in {"length", "close"}
  BY Numbers, Sizes DEF IInv, TypeOK
<1> USE <1>i DEF RoundInv, serverVars
<1>1. CASE DialStream \/ ReadEnd \/ HeaderTimeout \/ UserLeaves
  BY <1>1 DEF DialStream, ReadEnd, HeaderTimeout, UserLeaves, End
<1>2. CASE WriteRequest
  BY <1>2 DEF WriteRequest, Write
<1>3. CASE ReadAnswer
  <2>1. UNCHANGED <<wrote, framing>> /\ srv \in {"request", "answer"}
        /\ \/ framing = "length" /\ Head(toServer) = RespLen /\ srv' = "done"
           \/ ~ (framing = "length" /\ Head(toServer) = RespLen) /\ srv' = "answer"
    BY <1>3 DEF ReadAnswer, End
  <2>2. CASE got' = <<BadGateway>>
    <3>1. Len(<<BadGateway>>) = 1 /\ <<BadGateway>> # <<>>
      OBVIOUS
    <3> QED
      BY <2>1, <2>2, <3>1
  <2>3. CASE Run(got, 1) /\ Run(got', 1) /\ Len(got) \in Nat /\ Len(got') = Len(got) + 1
             /\ Head(toServer) = Len(got) + 1 /\ Len(got) < uSent
    <3>1. got' # <<>> /\ uSent <= RespLen /\ uSent \in Nat
      <4>1. Len(<<>>) = 0
        OBVIOUS
      <4> QED
        BY <2>3, <4>1, Sizes DEF IInv, TypeOK
    <3>2. Len(got') <= RespLen
      BY <2>3, <3>1
    <3> QED
      BY <2>1, <2>3, <3>1, <3>2
  <2> QED
    BY <1>3, <2>2, <2>3, NextChunk
<1>4. CASE UNCHANGED serverVars
  BY <1>4
<1> QED
  BY <1>1, <1>2, <1>3, <1>4, OthersLeave

\* What a step does, seen from the two ends.
LEMMA ExchangeStep ==
  ASSUME IInv, CausalInv, RoundInv, [Next]_vars, WholeInv'
  PROVE  [Exchanged!Next]_(Exchanged!vars)
<1> DEFINE sent == IF wrote = 0 THEN 0 ELSE wrote - 1
           heard == IF got = <<BadGateway>> THEN 0 ELSE Len(got)
           sound == link = "up" /\ ~ broken
           outcome == IF result = "whole" /\ got = <<BadGateway>> THEN "bad_gateway"
                      ELSE result
<1>i. /\ wrote \in Nat /\ wrote <= ReqLen /\ uSent \in Nat /\ ReqLen \in Nat
      /\ Len(uGot) \in Nat /\ Len(toUp) \in Nat /\ RespLen \in Nat /\ RespLen > 1
      /\ srv = "done" <=> result # "none"
      /\ link \in {"up", "cut"} /\ framing \in {"length", "close"} /\ broken \in BOOLEAN
  BY Numbers, Sizes DEF IInv, TypeOK
<1>r. Len(<<>>) = 0 /\ <<>> # <<BadGateway>>
  OBVIOUS
<1>1. ASSUME UNCHANGED <<wrote, uGot, uSent, got, framing, result>>,
             sound' = sound \/ (sound /\ ~ sound')
      PROVE  [Exchanged!Next]_(Exchanged!vars)
  BY <1>1 DEF Exchanged!Next, Exchanged!vars, Exchanged!Break
<1>2. CASE DialStream
  <2>1. got = <<>> /\ got' = got /\ result = "none" /\ wrote = 0
        /\ UNCHANGED <<uGot, uSent, framing, link, broken>>
    BY <1>i, <1>2
    DEF DialStream, RoundInv, IInv, RequestInv, QueueInv, linkVars, upVars
  <2>2. CASE wrote' = 1 /\ result' = result
    BY <2>1, <2>2 DEF Exchanged!vars
  <2>3. CASE wrote' = wrote /\ result' = "bad_gateway"
    BY <1>r, <2>1, <2>3 DEF Exchanged!Next, Exchanged!End
  <2> QED
    BY <1>2, <2>2, <2>3 DEF DialStream, End
<1>3. CASE WriteRequest
  <2>1. /\ wrote < ReqLen /\ wrote' = wrote + 1 /\ wrote > 0 /\ result = "none"
        /\ UNCHANGED <<got, result, uGot, uSent, framing, link, broken>>
    BY <1>i, <1>3 DEF WriteRequest, Write, RoundInv, linkVars, upVars
  <2>2. sent < ReqLen - 1 /\ sent' = sent + 1
    BY <1>i, <2>1
  <2> QED
    BY <2>1, <2>2 DEF Exchanged!Next, Exchanged!Send
<1>4. CASE ReadAnswer
  <2>1. /\ result = "none"
        /\ \/ framing = "length" /\ Head(toServer) = RespLen /\ result' = "whole"
           \/ ~ (framing = "length" /\ Head(toServer) = RespLen) /\ result' = "none"
        /\ UNCHANGED <<wrote, uGot, uSent, framing, link, broken>>
    BY <1>i, <1>4 DEF ReadAnswer, End, linkVars, upVars
  <2>2. CASE got = <<>> /\ got' = <<BadGateway>> /\ Head(toServer) # RespLen
    <3>1. heard = 0 /\ heard' = 0 /\ outcome = "none" /\ outcome' = "none"
      BY <1>r, <2>1, <2>2
    <3> QED
      BY <2>1, <3>1 DEF Exchanged!vars
  <2>3. CASE Run(got, 1) /\ Run(got', 1) /\ Len(got) \in Nat /\ Len(got') = Len(got) + 1
             /\ Head(toServer) = Len(got) + 1 /\ Len(got) < uSent
    <3>1. got # <<BadGateway>> /\ got' # <<BadGateway>>
      BY <2>3, RunIsAnswer
    <3>2. heard < uSent /\ heard' = heard + 1 /\ outcome = "none"
          /\ outcome' = IF framing = "length" /\ heard' = RespLen THEN "whole" ELSE "none"
      BY <2>1, <2>3, <3>1
    <3> QED
      BY <2>1, <3>2 DEF Exchanged!Next, Exchanged!Hear
  <2> QED
    BY <1>4, <2>2, <2>3, NextChunk
<1>5. CASE ReadEnd
  <2>1. /\ result = "none" /\ srv \in {"request", "answer"}
        /\ result' = IF srv = "request" THEN "bad_gateway"
                     ELSE IF framing = "close" \/ got = <<BadGateway>> THEN "whole" ELSE "cut"
        /\ UNCHANGED <<wrote, got, uGot, uSent, framing, link, broken>>
    BY <1>i, <1>5 DEF ReadEnd, End, linkVars, upVars
  <2>2. CASE srv = "request" \/ got = <<BadGateway>>
    <3>1. heard = 0 /\ outcome = "none" /\ outcome' = "bad_gateway"
      BY <1>r, <2>1, <2>2 DEF RoundInv
    <3> QED
      BY <2>1, <3>1 DEF Exchanged!Next, Exchanged!End
  <2>3. CASE srv = "answer" /\ got # <<BadGateway>>
    <3>1. Len(got) \in Nat \ {0}
      <4>1. Run(got, 1)
        BY <2>3, <1>r DEF IInv, AnswerInv, IsBadGateway, RoundInv
      <4> QED
        BY <2>3, <4>1, RunLen DEF RoundInv
    <3>2. heard = Len(got) /\ outcome = "none" /\ outcome' = result'
      BY <2>1, <2>3
    <3>3. CASE framing = "length"
      <4>1. heard \in 1 .. RespLen - 1 /\ outcome' = "cut"
        BY <1>i, <2>1, <2>3, <3>1, <3>2, <3>3 DEF RoundInv
      <4> QED
        BY <2>1, <3>2, <3>3, <4>1 DEF Exchanged!Next, Exchanged!End
    <3>4. CASE framing = "close"
      <4>1. heard > 0 /\ outcome' = "whole"
        BY <2>1, <2>3, <3>1, <3>2, <3>4
      <4>2. heard = uSent \/ ~ sound
        BY <2>1, <2>3, <3>2, <3>4 DEF WholeInv, WholeIsWhole
      <4> QED
        BY <2>1, <3>2, <3>4, <4>1, <4>2 DEF Exchanged!Next, Exchanged!End
    <3> QED
      BY <1>i, <3>3, <3>4
  <2> QED
    BY <2>1, <2>2, <2>3
<1>6. CASE HeaderTimeout
  <2>1. got = <<>> /\ result = "none" /\ result' = "bad_gateway"
        /\ UNCHANGED <<wrote, got, uGot, uSent, framing, link, broken>>
    BY <1>i, <1>6 DEF HeaderTimeout, End, RoundInv, linkVars, upVars
  <2> QED
    BY <1>r, <2>1 DEF Exchanged!Next, Exchanged!End
<1>7. CASE UserLeaves
  <2>1. result = "none" /\ result' = "left"
        /\ UNCHANGED <<wrote, got, uGot, uSent, framing, link, broken>>
    BY <1>i, <1>7 DEF UserLeaves, End, linkVars, upVars
  <2> QED
    BY <2>1 DEF Exchanged!Next, Exchanged!End
<1>8. CASE UpstreamReads
  <2>1. toUp # <<>> /\ uGot' = Append(uGot, Head(toUp))
        /\ UNCHANGED <<wrote, got, result, uSent, framing, link, broken>>
    BY <1>8 DEF UpstreamReads, serverVars, linkVars
  <2>2. Head(toUp) = 2 + Len(uGot) /\ Len(toUp) # 0
    BY <1>i, <2>1, Numbers, RunTail
  <2>3. Len(uGot') = Len(uGot) + 1
    BY <1>i, <2>1, <2>2, Numbers, RunAppend
  <2>4. Len(uGot) < sent
    BY <1>i, <2>2 DEF CausalInv
  <2> QED
    BY <2>1, <2>3, <2>4 DEF Exchanged!Next, Exchanged!Take
<1>9. CASE UpstreamWrites
  <2>1. /\ uGot # <<>> /\ uSent < RespLen /\ uSent' = uSent + 1
        /\ UNCHANGED <<wrote, got, result, uGot, framing, link, broken>>
    BY <1>9 DEF UpstreamWrites, serverVars, linkVars
  <2>2. Len(uGot) > 0
    BY <1>i, <2>1, Numbers DEF Run
  <2> QED
    BY <2>1, <2>2 DEF Exchanged!Next, Exchanged!Say
<1>10. CASE \/ Cut \/ NoticeServer \/ NoticeClient \/ ClientStops
            \/ Accept \/ ReadMeta \/ DialUpstream \/ Drain \/ HandlerReturns
            \/ CopyRequest \/ CopyAnswer \/ UpstreamCloses
  <2>1. UNCHANGED <<wrote, got, result, framing, uGot, uSent>>
    BY <1>10
    DEF Cut, NoticeServer, NoticeClient, ClientStops, Accept, ReadMeta, DialUpstream, Drain,
        HandlerReturns, HandlerEndsWhen, CopyRequest, CopyAnswer, UpstreamCloses,
        serverVars, upVars
  <2>2. link' \in {link, "cut"} /\ (broken => broken') /\ broken' \in BOOLEAN
    BY <1>i, <1>10
    DEF Cut, NoticeServer, NoticeClient, ClientStops, Accept, ReadMeta, DialUpstream, Drain,
        HandlerReturns, HandlerEndsWhen, CopyRequest, CopyAnswer, UpstreamCloses,
        linkVars, upVars
  <2>3. sound' = sound \/ (sound /\ ~ sound')
    BY <1>i, <2>2
  <2> QED
    BY <1>1, <2>1, <2>3
<1>11. CASE UNCHANGED vars
  BY <1>11 DEF vars, serverVars, linkVars, upVars, Exchanged!vars
<1> QED
  BY <1>2, <1>3, <1>4, <1>5, <1>6, <1>7, <1>8, <1>9, <1>10, <1>11 DEF Next, FrontEnd, Handler

\* Whatever the sizes of streams, buffers, request and answer, the way through
\* the tunnel implements an exchange.
THEOREM ForwardIsExchange == Spec => ImplementsExchange
<1>1. Init => CausalInv /\ RoundInv /\ Exchanged!Init
  <2>1. Len(<<>>) = 0 /\ <<>> # <<BadGateway>>
    OBVIOUS
  <2> QED
    BY <2>1 DEF Init, CausalInv, RoundInv, Exchanged!Init
<1>2. IInv /\ [Next]_vars => WholeInv'
  BY WholeStep
<1> QED
  BY <1>1, <1>2, ExchangeStep, CausalStep, RoundStep, Invariance, PTL
     DEF Spec, Exchanged!Spec, ImplementsExchange

-----------------------------------------------------------------------------
(* Every step counts.                                                      *)

\* What the measure is made of is numbers.
QueuesOK ==
  /\ toClient \in Seq(Nat) /\ toServer \in Seq(Nat) /\ buf \in Seq(Nat)
  /\ toUp \in Seq(Nat) /\ fromUp \in Seq(Nat)
  /\ wrote \in 0 .. ReqLen /\ uSent \in 0 .. RespLen

LEMMA Queues == IInv => QueuesOK
<1> SUFFICES ASSUME IInv PROVE QueuesOK
  OBVIOUS
<1>1. wrote \in 0 .. ReqLen /\ uSent \in 0 .. RespLen
  BY DEF IInv, TypeOK
<1>2. toClient \in Seq(Nat) /\ buf \in Seq(Nat) /\ toUp \in Seq(Nat) /\ fromUp \in Seq(Nat)
  BY RunLen DEF IInv, RequestInv, QueueInv, TakenInv, AnswerInv
<1>3. toServer \in Seq(Nat)
  <2>1. <<>> \in Seq(Nat) /\ <<BadGateway>> \in Seq(Nat)
    BY DEF BadGateway
  <2> QED
    BY <2>1, RunLen DEF IInv, AnswerInv, IsBadGateway
<1> QED
  BY <1>1, <1>2, <1>3 DEF QueuesOK

\* The lengths of queues that gain or lose a chunk, or break off.
LEMMA Lengths ==
  ASSUME NEW q \in Seq(Nat)
  PROVE  /\ Len(q) \in Nat /\ Len(<<>>) = 0
         /\ \A c \in Nat : Len(Append(q, c)) = Len(q) + 1
         /\ q # <<>> => /\ Len(q) > 0 /\ Head(q) \in Nat
                        /\ Len(Tail(q)) = Len(q) - 1
         /\ \A p \in Prefixes(q) : Len(p) <= Len(q)
<1>1. Len(q) \in Nat /\ Len(<<>>) = 0
  OBVIOUS
<1>2. ASSUME NEW c \in Nat PROVE Len(Append(q, c)) = Len(q) + 1
  OBVIOUS
<1>3. ASSUME q # <<>>
      PROVE  Len(q) > 0 /\ Head(q) \in Nat /\ Len(Tail(q)) = Len(q) - 1
  BY <1>3
<1>4. ASSUME NEW n \in 0 .. Len(q) PROVE Len(SubSeq(q, 1, n)) <= Len(q)
  BY <1>1
<1> QED
  BY <1>1, <1>2, <1>3, <1>4 DEF Prefixes

\* The four parts are natural numbers.
Counted == /\ QueuesOK
           /\ RequestToDo \in Nat /\ AnswerToDo \in Nat
           /\ StagesLeft \in 0 .. 5 /\ EndsOpen \in 0 .. 7

LEMMA Counts == IInv => Counted
<1> SUFFICES ASSUME IInv, QueuesOK PROVE Counted
  BY Queues
<1>1. /\ Len(toClient) \in Nat /\ Len(buf) \in Nat /\ Len(toUp) \in Nat
      /\ Len(fromUp) \in Nat /\ Len(toServer) \in Nat
      /\ ReqLen - wrote \in Nat /\ RespLen - uSent \in Nat
  BY Sizes, Lengths DEF QueuesOK
<1>2. \A open : One(open) \in 0 .. 1
  BY DEF One
<1>3. RequestToDo \in Nat /\ AnswerToDo \in Nat
  <2>1. ASSUME NEW a \in Nat, NEW b \in Nat, NEW c \in Nat, NEW d \in Nat
        PROVE  4 * a + 3 * b + 2 * c + d \in Nat /\ 3 * a + 2 * b + c \in Nat
    OBVIOUS
  <2> QED
    BY <1>1, <2>1 DEF RequestToDo, AnswerToDo
<1>4. StagesLeft \in 0 .. 5
  BY DEF StagesLeft
<1>5. ASSUME NEW a \in 0 .. 1, NEW b \in 0 .. 1, NEW c \in 0 .. 1, NEW d \in 0 .. 1,
             NEW e \in 0 .. 1, NEW f \in 0 .. 1, NEW g \in 0 .. 1
      PROVE  a + b + c + d + e + f + g \in 0 .. 7
  OBVIOUS
<1>6. EndsOpen \in 0 .. 7
  BY <1>2, <1>5 DEF EndsOpen
<1> QED
  BY <1>3, <1>4, <1>6 DEF Counted

\* An end that closes counts, and none opens.
LEMMA EndCloses ==
  ASSUME EndsOpen \in Nat, EndsOpen' \in Nat,
         srv = "done" => srv' = "done", link' = "up" => link = "up",
         server' => server, client' => client, upstream' => upstream,
         ended \subseteq ended'
  PROVE  /\ EndsOpen' <= EndsOpen
         /\ \/ srv # "done" /\ srv' = "done"
            \/ link = "up" /\ link' # "up"
            \/ server /\ ~ server'
            \/ client /\ ~ client'
            \/ upstream /\ ~ upstream'
            \/ "request" \in ended' \ ended
            \/ "answer" \in ended' \ ended
            => EndsOpen' < EndsOpen
BY DEF EndsOpen, One

\* What a step does to the four parts.
LEMMA StepCounts ==
  ASSUME IInv, Counted, Counted', Next
  PROVE  ToDo' < ToDo
<1>n. /\ RequestToDo \in Nat /\ RequestToDo' \in Nat /\ AnswerToDo \in Nat
      /\ AnswerToDo' \in Nat /\ StagesLeft \in Nat /\ StagesLeft' \in Nat
      /\ EndsOpen \in Nat /\ EndsOpen' \in Nat
  BY DEF Counted
<1>q. /\ toClient \in Seq(Nat) /\ toServer \in Seq(Nat) /\ buf \in Seq(Nat)
      /\ toUp \in Seq(Nat) /\ fromUp \in Seq(Nat)
      /\ wrote \in Nat /\ uSent \in Nat /\ ReqLen \in Nat /\ RespLen \in Nat
      /\ wrote' \in Nat /\ uSent' \in Nat /\ wrote <= ReqLen /\ uSent <= RespLen
  BY Sizes DEF Counted, QueuesOK
<1>l. /\ Len(toClient) \in Nat /\ Len(toServer) \in Nat /\ Len(buf) \in Nat
      /\ Len(toUp) \in Nat /\ Len(fromUp) \in Nat
      /\ Len(toClient') \in Nat /\ Len(toServer') \in Nat /\ Len(buf') \in Nat
      /\ Len(toUp') \in Nat /\ Len(fromUp') \in Nat
  BY Lengths DEF Counted, QueuesOK
<1>t. ended \subseteq {"request", "answer"}
  BY DEF IInv, TypeOK
\* Nothing is added, and something is taken away.
<1>s. ASSUME RequestToDo' <= RequestToDo, AnswerToDo' <= AnswerToDo,
             StagesLeft' <= StagesLeft, EndsOpen' <= EndsOpen,
             \/ RequestToDo' < RequestToDo \/ AnswerToDo' < AnswerToDo
             \/ StagesLeft' < StagesLeft \/ EndsOpen' < EndsOpen
      PROVE  ToDo' < ToDo
  <2>1. PICK a \in Nat : a = RequestToDo'
    BY <1>n
  <2>2. PICK b \in Nat : b = AnswerToDo'
    BY <1>n
  <2>3. PICK c \in Nat : c = StagesLeft'
    BY <1>n
  <2>4. PICK d \in Nat : d = EndsOpen'
    BY <1>n
  <2>5. ToDo' = a + b + c + d
    BY <2>1, <2>2, <2>3, <2>4 DEF ToDo
  <2>6. /\ a <= RequestToDo /\ b <= AnswerToDo /\ c <= StagesLeft /\ d <= EndsOpen
        /\ a < RequestToDo \/ b < AnswerToDo \/ c < StagesLeft \/ d < EndsOpen
    BY <1>s, <2>1, <2>2, <2>3, <2>4
  <2>7. a + b + c + d < ToDo
    BY <1>n, <2>6 DEF ToDo
  <2> QED
    BY <2>5, <2>7
\* When the handler returns, what the upstream's connection carries is lost.
<1>r. ASSUME Returns, UNCHANGED <<wrote, uSent>>, Len(toClient') <= Len(toClient),
             Len(buf') <= Len(buf), Len(toServer') <= Len(toServer)
      PROVE  RequestToDo' <= RequestToDo /\ AnswerToDo' <= AnswerToDo
  <2>1. Len(toUp') <= Len(toUp) /\ Len(fromUp') = 0
    BY <1>q, <1>l, <1>r, Lengths DEF Returns
  <2> QED
    BY <1>q, <1>l, <1>r, <2>1 DEF RequestToDo, AnswerToDo
<1> USE DEF serverVars, streamVars, linkVars, clientVars, upVars
\* Steps that move nothing along.
<1>1. CASE ReadEnd \/ HeaderTimeout \/ UserLeaves \/ NoticeServer \/ NoticeClient
  <2>1. UNCHANGED <<wrote, toClient, buf, toUp, uSent, fromUp, toServer, h>>
    BY <1>1 DEF ReadEnd, HeaderTimeout, UserLeaves, NoticeServer, NoticeClient
  <2>2. EndsOpen' < EndsOpen
    BY <1>n, <1>1, EndCloses
    DEF ReadEnd, HeaderTimeout, UserLeaves, NoticeServer, NoticeClient, End
  <2> QED
    BY <1>n, <1>s, <2>1, <2>2 DEF RequestToDo, AnswerToDo, StagesLeft
<1>2. CASE Accept
  <2>1. UNCHANGED <<wrote, toClient, buf, toUp, uSent, fromUp, toServer, ended,
                   srv, link, server, client, upstream>>
    BY <1>2 DEF Accept
  <2>2. StagesLeft' < StagesLeft
    BY <1>2 DEF Accept, StagesLeft
  <2> QED
    BY <1>n, <1>s, <2>1, <2>2 DEF RequestToDo, AnswerToDo, EndsOpen
<1>3. CASE Cut
  <2>1. /\ UNCHANGED <<wrote, buf, toUp, uSent, fromUp, h, ended, srv, server, client, upstream>>
        /\ toClient' \in Prefixes(toClient) /\ toServer' \in Prefixes(toServer)
        /\ link = "up" /\ link' = "cut"
    BY <1>3 DEF Cut
  <2>2. Len(toClient') <= Len(toClient) /\ Len(toServer') <= Len(toServer)
    BY <1>q, <2>1, Lengths
  <2>3. EndsOpen' < EndsOpen
    BY <1>n, <2>1, EndCloses
  <2>4. RequestToDo' <= RequestToDo /\ AnswerToDo' <= AnswerToDo
    BY <1>q, <1>l, <2>1, <2>2 DEF RequestToDo, AnswerToDo
  <2> QED
    BY <1>n, <1>s, <2>1, <2>3, <2>4 DEF StagesLeft
\* The front end.
<1>4. CASE WriteRequest \/ DialStream
  <2>1. UNCHANGED <<buf, toUp, uSent, fromUp, toServer, h, ended, link, server, client, upstream>>
    BY <1>4 DEF WriteRequest, Write, DialStream
  <2>2. StagesLeft' = StagesLeft /\ AnswerToDo' = AnswerToDo
    BY <2>1 DEF StagesLeft, AnswerToDo
  <2>3. CASE /\ wrote < ReqLen /\ wrote' = wrote + 1
             /\ toClient' = Sent(toClient, wrote') /\ srv' # "done"
    <3>1. Len(toClient') <= Len(toClient) + 1
      BY <1>q, <1>l, <2>3, Lengths DEF Sent
    <3>2. RequestToDo' < RequestToDo
      BY <1>q, <1>l, <2>1, <2>3, <3>1 DEF RequestToDo
    <3>3. EndsOpen' <= EndsOpen
      <4>1. srv # "done"
        BY <1>4 DEF WriteRequest, Write, DialStream
      <4> QED
        BY <1>n, <2>1, <2>3, <4>1, EndCloses
    <3> QED
      BY <1>n, <1>s, <2>2, <3>2, <3>3
  <2>4. CASE srv = "dial" /\ srv' = "done" /\ UNCHANGED <<wrote, toClient>>
    <3>1. EndsOpen' < EndsOpen
      BY <1>n, <2>1, <2>4, EndCloses
    <3> QED
      BY <1>n, <1>s, <2>1, <2>2, <2>4, <3>1 DEF RequestToDo
  <2>5. srv = "dial" => wrote = 0 /\ 0 + 1 = 1 /\ 0 < ReqLen
    BY Sizes DEF IInv, RequestInv, QueueInv
  <2> QED
    BY <1>4, <2>3, <2>4, <2>5 DEF WriteRequest, Write, DialStream, End
<1>5. CASE ReadAnswer
  <2>1. /\ UNCHANGED <<wrote, toClient, buf, toUp, uSent, fromUp, h, ended, link, server, client,
                      upstream>>
        /\ toServer # <<>> /\ toServer' = Tail(toServer) /\ srv # "done"
    BY <1>5 DEF ReadAnswer
  <2>2. Len(toServer') = Len(toServer) - 1
    BY <1>q, <2>1, Lengths
  <2>3. AnswerToDo' < AnswerToDo
    BY <1>q, <1>l, <2>1, <2>2 DEF AnswerToDo
  <2>4. EndsOpen' <= EndsOpen
    BY <1>n, <2>1, EndCloses
  <2> QED
    BY <1>n, <1>s, <2>1, <2>3, <2>4 DEF StagesLeft, RequestToDo
\* The handler.
<1>6. CASE ReadMeta
  <2>1. /\ UNCHANGED <<wrote, toUp, uSent, fromUp, toServer, ended, srv, link, server, client,
                      upstream>>
        /\ h = "meta"
    BY <1>6 DEF ReadMeta
  <2>2. AnswerToDo' = AnswerToDo /\ EndsOpen' = EndsOpen
    BY <2>1 DEF AnswerToDo, EndsOpen
  <2>3. CASE h' = "done" /\ UNCHANGED <<buf, toClient>>
    <3>1. StagesLeft' < StagesLeft
      BY <2>1, <2>3 DEF StagesLeft
    <3> QED
      BY <1>n, <1>s, <2>1, <2>2, <2>3, <3>1 DEF RequestToDo
  <2>4. CASE h' = "dial" /\ \E n \in 1 .. Len(toClient) :
                /\ buf' = SubSeq(toClient, 2, n)
                /\ toClient' = SubSeq(toClient, n + 1, Len(toClient))
    <3>1. PICK n \in 1 .. Len(toClient) :
            /\ buf' = SubSeq(toClient, 2, n)
            /\ toClient' = SubSeq(toClient, n + 1, Len(toClient))
      BY <2>4
    <3>2. Len(buf') = n - 1
      BY <1>q, <1>l, <3>1
    <3>3. Len(toClient') = Len(toClient) - n
      BY <1>q, <1>l, <3>1
    <3>4. RequestToDo' <= RequestToDo
      BY <1>q, <1>l, <2>1, <3>2, <3>3 DEF RequestToDo
    <3>5. StagesLeft' < StagesLeft
      BY <2>1, <2>4 DEF StagesLeft
    <3> QED
      BY <1>n, <1>s, <2>2, <3>4, <3>5
  <2> QED
    BY <1>6, <2>3, <2>4 DEF ReadMeta
<1>7. CASE DialUpstream
  <2>1. /\ UNCHANGED <<wrote, toClient, buf, toUp, uSent, fromUp, ended, srv, link, server,
                      client, upstream>>
        /\ h = "dial" /\ h' \in {"drain", "done"}
    BY <1>7 DEF DialUpstream
  <2>2. RequestToDo' = RequestToDo /\ EndsOpen' = EndsOpen
    BY <2>1 DEF RequestToDo, EndsOpen
  <2>3. CASE toServer' = toServer
    <3>1. StagesLeft' < StagesLeft
      BY <2>1 DEF StagesLeft
    <3> QED
      BY <1>n, <1>s, <2>1, <2>2, <2>3, <3>1 DEF AnswerToDo
  <2>4. CASE h' = "done" /\ toServer' = Append(toServer, BadGateway)
    <3>1. Len(toServer') = Len(toServer) + 1
      BY <1>q, <2>4, Lengths DEF BadGateway
    <3>2. AnswerToDo' = AnswerToDo + 1
      BY <1>q, <1>l, <2>1, <3>1 DEF AnswerToDo
    <3>3. StagesLeft = 3 /\ StagesLeft' = 0
      BY <2>1, <2>4 DEF StagesLeft
    <3>4. ToDo' = RequestToDo + (AnswerToDo + 1) + 0 + EndsOpen
      BY <2>2, <3>2, <3>3 DEF ToDo
    <3>5. RequestToDo + (AnswerToDo + 1) + 0 + EndsOpen < ToDo
      BY <1>n, <3>3 DEF ToDo
    <3> QED
      BY <3>4, <3>5
  <2> QED
    BY <1>7, <2>3, <2>4 DEF DialUpstream, Sent
<1>8. CASE Drain
  <2>1. /\ UNCHANGED <<wrote, toClient, uSent, toServer, ended, srv, link, server, client,
                      upstream>>
        /\ h = "drain" /\ h' \in {"splice", "done"} /\ buf' = <<>>
    BY <1>8 DEF Drain, Returns
  <2>2. EndsOpen' = EndsOpen /\ StagesLeft' < StagesLeft
    BY <2>1 DEF EndsOpen, StagesLeft
  <2>3. Len(buf') = 0
    BY <2>1, <1>q, Lengths
  <2>4. CASE toUp' = toUp \o buf /\ fromUp' = fromUp
    <3>1. Len(toUp') = Len(toUp) + Len(buf)
      BY <1>q, <2>4
    <3>2. RequestToDo' <= RequestToDo
      BY <1>q, <1>l, <2>1, <2>3, <3>1 DEF RequestToDo
    <3> QED
      BY <1>n, <1>s, <2>1, <2>2, <2>4, <3>2 DEF AnswerToDo
  <2>5. CASE Returns
    BY <1>n, <1>s, <1>r, <2>1, <2>2, <2>3, <2>5
  <2> QED
    BY <1>8, <2>4, <2>5 DEF Drain
<1>9. CASE HandlerReturns
  <2>1. /\ UNCHANGED <<wrote, toClient, buf, uSent, toServer, ended, srv, link, server, client,
                      upstream>>
        /\ h = "splice" /\ h' = "done" /\ Returns
    BY <1>9 DEF HandlerReturns, HandlerEndsWhen, Returns
  <2>2. EndsOpen' = EndsOpen /\ StagesLeft' < StagesLeft
    BY <2>1 DEF EndsOpen, StagesLeft
  <2> QED
    BY <1>n, <1>l, <1>s, <1>r, <2>1, <2>2
<1>10. CASE CopyRequest
  <2>1. /\ UNCHANGED <<wrote, buf, uSent, fromUp, toServer, h, srv, link, server, client,
                      upstream>>
        /\ "request" \notin ended /\ ended \subseteq ended'
    BY <1>10 DEF CopyRequest
  <2>2. AnswerToDo' = AnswerToDo /\ StagesLeft' = StagesLeft /\ EndsOpen' <= EndsOpen
    BY <1>n, <2>1, EndCloses DEF AnswerToDo, StagesLeft
  <2>3. CASE /\ toClient # <<>> /\ toClient' = Tail(toClient)
             /\ toUp' \in {toUp, Append(toUp, Head(toClient))}
    <3>1. Len(toClient') = Len(toClient) - 1 /\ Head(toClient) \in Nat
      BY <1>q, <2>3, Lengths
    <3>2. Len(toUp') <= Len(toUp) + 1
      <4>1. Len(Append(toUp, Head(toClient))) = Len(toUp) + 1
        BY <1>q, <3>1, Lengths
      <4>2. CASE toUp' = toUp
        BY <1>l, <4>2
      <4>3. CASE toUp' = Append(toUp, Head(toClient))
        BY <1>l, <4>1, <4>3
      <4> QED
        BY <2>3, <4>2, <4>3
    <3>3. RequestToDo' < RequestToDo
      BY <1>q, <1>l, <2>1, <3>1, <3>2 DEF RequestToDo
    <3> QED
      BY <1>n, <1>s, <2>2, <3>3
  <2>4. CASE ended' = ended \cup {"request"} /\ UNCHANGED <<toUp, toClient>>
    <3>1. EndsOpen' < EndsOpen
      BY <1>n, <2>1, <2>4, EndCloses
    <3> QED
      BY <1>n, <1>s, <2>1, <2>2, <2>4, <3>1 DEF RequestToDo
  <2> QED
    BY <1>10, <2>3, <2>4 DEF CopyRequest
<1>11. CASE CopyAnswer
  <2>1. /\ UNCHANGED <<wrote, toClient, buf, toUp, uSent, h, srv, link, server, client, upstream>>
        /\ "answer" \notin ended /\ ended \subseteq ended'
    BY <1>11 DEF CopyAnswer
  <2>2. RequestToDo' = RequestToDo /\ StagesLeft' = StagesLeft /\ EndsOpen' <= EndsOpen
    BY <1>n, <2>1, EndCloses DEF RequestToDo, StagesLeft
  <2>3. CASE /\ fromUp # <<>> /\ fromUp' = Tail(fromUp)
             /\ toServer' = Sent(toServer, Head(fromUp))
    <3>1. Len(fromUp') = Len(fromUp) - 1 /\ Head(fromUp) \in Nat
      BY <1>q, <2>3, Lengths
    <3>2. Len(toServer') <= Len(toServer) + 1
      BY <1>q, <1>l, <2>3, <3>1, Lengths DEF Sent
    <3>3. AnswerToDo' < AnswerToDo
      BY <1>q, <1>l, <2>1, <3>1, <3>2 DEF AnswerToDo
    <3> QED
      BY <1>n, <1>s, <2>2, <3>3
  <2>4. CASE ended' = ended \cup {"answer"} /\ UNCHANGED <<fromUp, toServer>>
    <3>1. EndsOpen' < EndsOpen
      BY <1>n, <2>1, <2>4, EndCloses
    <3> QED
      BY <1>n, <1>s, <2>1, <2>2, <2>4, <3>1 DEF AnswerToDo
  <2> QED
    BY <1>11, <2>3, <2>4 DEF CopyAnswer
\* The process, and the upstream.
<1>12. CASE ClientStops
  <2>1. /\ UNCHANGED <<wrote, uSent, ended, srv, server, upstream>>
        /\ client /\ client' = FALSE /\ link' = "cut"
        /\ toClient' = <<>> /\ buf' = <<>> /\ toServer' \in Prefixes(toServer) /\ Returns
    BY <1>12 DEF ClientStops
  <2>2. EndsOpen' < EndsOpen
    BY <1>n, <2>1, EndCloses
  <2>3. StagesLeft' <= StagesLeft
    BY <1>n, <2>1 DEF Returns, StagesLeft
  <2>4. Len(toServer') <= Len(toServer) /\ Len(toClient') = 0 /\ Len(buf') = 0
    BY <1>q, <2>1, Lengths
  <2> QED
    BY <1>n, <1>l, <1>s, <1>r, <2>1, <2>2, <2>3, <2>4
<1>13. CASE UpstreamReads
  <2>1. /\ UNCHANGED <<wrote, toClient, buf, uSent, fromUp, toServer, h, ended, srv, link,
                      server, client, upstream>>
        /\ toUp # <<>> /\ toUp' = Tail(toUp)
    BY <1>13 DEF UpstreamReads
  <2>2. Len(toUp') = Len(toUp) - 1
    BY <1>q, <2>1, Lengths
  <2>3. RequestToDo' < RequestToDo
    BY <1>q, <1>l, <2>1, <2>2 DEF RequestToDo
  <2> QED
    BY <1>n, <1>s, <2>1, <2>3 DEF AnswerToDo, StagesLeft, EndsOpen
<1>14. CASE UpstreamWrites
  <2>1. /\ UNCHANGED <<wrote, toClient, buf, toUp, toServer, h, ended, srv, link, server,
                      client, upstream>>
        /\ uSent < RespLen /\ uSent' = uSent + 1 /\ fromUp' = Append(fromUp, uSent')
    BY <1>14 DEF UpstreamWrites
  <2>2. Len(fromUp') = Len(fromUp) + 1
    BY <1>q, <2>1, Lengths
  <2>3. AnswerToDo' < AnswerToDo
    BY <1>q, <1>l, <2>1, <2>2 DEF AnswerToDo
  <2> QED
    BY <1>n, <1>s, <2>1, <2>3 DEF RequestToDo, StagesLeft, EndsOpen
<1>15. CASE UpstreamCloses
  <2>1. /\ UNCHANGED <<wrote, toClient, buf, uSent, toServer, h, ended, srv, link, server, client>>
        /\ upstream /\ upstream' = FALSE /\ toUp' = <<>>
        /\ fromUp' \in {fromUp} \cup Prefixes(fromUp)
    BY <1>15 DEF UpstreamCloses
  <2>2. EndsOpen' < EndsOpen
    BY <1>n, <2>1, EndCloses
  <2>3. Len(toUp') = 0 /\ Len(fromUp') <= Len(fromUp)
    BY <1>q, <1>l, <2>1, Lengths
  <2>4. RequestToDo' <= RequestToDo /\ AnswerToDo' <= AnswerToDo
    BY <1>q, <1>l, <2>1, <2>3 DEF RequestToDo, AnswerToDo
  <2> QED
    BY <1>n, <1>s, <2>1, <2>2, <2>4 DEF StagesLeft
<1> QED
  BY <1>1, <1>2, <1>3, <1>4, <1>5, <1>6, <1>7, <1>8, <1>9, <1>10, <1>11, <1>12, <1>13, <1>14,
     <1>15 DEF Next, FrontEnd, Handler

\* Every step of a request's way, of whoever it is and whatever fails, takes
\* something away that nothing gives back, for all lengths and buffer sizes.
THEOREM EveryStepTells == Spec => EveryStepCounts
<1>1. Counted /\ Counted' /\ IInv /\ [Next]_vars => [ToDo' < ToDo]_vars
  BY StepCounts
<1> QED
  BY <1>1, Counts, Invariance, PTL DEF Spec, EveryStepCounts

\* There is never more to do than at the start, and never less than nothing: so
\* no request takes more steps than that, its user's, its upstream's and every
\* failure's included.
THEOREM WorkIsBounded == Spec => [](ToDo \in 0 .. 4 * ReqLen + 3 * RespLen + 12)
<1> DEFINE Bound == 4 * ReqLen + 3 * RespLen + 12
<1>1. Init => ToDo <= Bound
  <2> SUFFICES ASSUME Init PROVE ToDo <= Bound
    OBVIOUS
  <2>1. Len(<<>>) = 0
    OBVIOUS
  <2>2. RequestToDo = 4 * ReqLen /\ AnswerToDo = 3 * RespLen
    BY <2>1, Sizes DEF Init, RequestToDo, AnswerToDo
  <2>3. StagesLeft = 5
    BY DEF Init, StagesLeft
  <2>4. EndsOpen = 7
    BY DEF Init, EndsOpen, One
  <2> QED
    BY <2>2, <2>3, <2>4, Sizes DEF ToDo
<1>2. Counted => ToDo \in Nat
  BY DEF Counted, ToDo
<1>3. IInv /\ Counted /\ Counted' /\ ToDo \in Nat /\ (ToDo \in Nat)' /\ ToDo <= Bound /\ [Next]_vars
        => (ToDo <= Bound)'
  <2> SUFFICES ASSUME IInv, Counted, Counted', ToDo \in Nat, ToDo' \in Nat, ToDo <= Bound,
                      [Next]_vars
               PROVE  ToDo' <= Bound
    OBVIOUS
  <2>1. Bound \in Nat
    BY Sizes
  <2>2. CASE Next
    <3>1. PICK n \in Nat : n = ToDo'
      OBVIOUS
    <3>2. n < ToDo
      BY <2>2, <3>1, StepCounts
    <3> QED
      BY <2>1, <3>1, <3>2
  <2>3. CASE UNCHANGED vars
    BY <2>3 DEF vars, serverVars, streamVars, linkVars, clientVars, upVars, ToDo, RequestToDo,
                AnswerToDo, StagesLeft, EndsOpen
  <2> QED
    BY <2>2, <2>3
<1>4. ToDo \in Nat /\ ToDo <= Bound => ToDo \in 0 .. Bound
  BY Sizes
<1> QED
  BY <1>1, <1>2, <1>3, <1>4, Counts, Invariance, PTL DEF Spec
=============================================================================
