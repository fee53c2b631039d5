---------------------------- MODULE TunnelProofs ----------------------------
(***************************************************************************)
(* Proofs about the whole tunnel, for any clients, sessions and requests.  *)
(* Every step of TunnelSystem is one of Control as far as the control      *)
(* plane goes, so what ControlProofs shows holds here too; on top of that  *)
(* comes an invariant that ties a client to the session it holds and a     *)
(* request to the client it may reach.                                     *)
(***************************************************************************)
EXTENDS TunnelSystem, ControlProofs

\* A client holds a session from Dial to the end of run, alone.
SessionInv ==
  \A c \in Clients :
    /\ cpc[c] \in Connected <=> csess[c] # NoSession
    /\ csess[c] # NoSession =>
         /\ client[csess[c]]
         /\ \A d \in Clients \ {c} : csess[d] # csess[c]

\* A session that is free has no frame under way.
InboxInv == \A s \in Sessions : pc[s] = "none" => inbox[s] = NoFrame

\* What the server knows of a client's session is that client's frame.
OwnFrame ==
  \A c \in Clients : csess[c] # NoSession =>
    /\ inbox[csess[c]] \in {NoFrame, FrameOf[c]}
    /\ frame[csess[c]] \in {NoFrame, FrameOf[c]}

\* All sidecars of client c's slots are on disk.
OnDisk(c) ==
  \A n \in SlotsOf(c) : <<FrameOf[c].owner, FrameOf[c].tunnel, n>> \in slots

\* An ack that can still be read stands for sidecars that are on disk.
AckInv ==
  \A c \in Clients :
    csess[c] # NoSession /\ reply[csess[c]] = "register_ack" => OnDisk(c)

\* Between Lookup and its answer a request has an entry, and the client that
\* holds the entry's session, if there still is one, hosts the slot.
Holding == {"dial"} \cup Streaming
RequestGood(r) ==
  /\ rpc[r] \in {"lookup"} \cup Holding => asked[r] \in PublicKeys
  /\ rpc[r] \in Holding <=> entry[r] # NoEntry
  /\ entry[r] # NoEntry =>
       \A c \in Clients : csess[c] = entry[r].Session => Hosts(c, asked[r])
  /\ rpc[r] = "upstream" => Hosts(by[r], asked[r])
  /\ answer[r] = "served" => rpc[r] = "done" /\ Hosts(by[r], asked[r])
  /\ answer[r] # "unknown_slot"
RequestInv == \A r \in Requests : RequestGood(r)

\* All that concerns clients alone.
ClientInv == HostTypeOK /\ SessionInv

\* The inductive invariant.
TunnelInv == /\ IInv /\ ClientInv /\ RouterTypeOK(Clients)
             /\ InboxInv /\ OwnFrame /\ AckInv /\ ReadyMeansRegistered
             /\ RequestInv

-----------------------------------------------------------------------------
(* The composed system is a control plane.                                 *)

\* What the server and the network do of themselves.
Quiet == \/ ServerNext \/ ServerStop
         \/ \E s \in Sessions : LinkCut(s)

\* A step of the tunnel is one of the server or the network, of one client or
\* of one request.
LEMMA StepCases ==
  ASSUME [Next]_vars
  PROVE  \/ Quiet /\ UNCHANGED hostVars
            /\ (UNCHANGED routerVars \/ ResetRequests(Requests))
         \/ \E c \in Clients : ClientNext(c)
         \/ (\E r \in Requests : RequestNext(r))
         \/ UNCHANGED vars
  BY DEF Next, StopAll, Quiet

\* A client that is connected holds a session.
LEMMA HeldSession ==
  ASSUME ClientInv, NEW c \in Clients, cpc[c] \in Connected
  PROVE  csess[c] \in Sessions /\ client[csess[c]]
  BY DEF ClientInv, HostTypeOK, SessionInv

\* What a client does is one of these.
LEMMA ClientCases ==
  ASSUME NEW c \in Clients, ClientNext(c), ClientInv
  PROVE  /\ UNCHANGED routerVars
         /\ \/ \E s \in Sessions :
                 /\ cpc[c] = "dial" /\ cpc' = [cpc EXCEPT ![c] = "register"]
                 /\ csess' = [csess EXCEPT ![c] = s]
                 /\ PeerDial(s)
                 /\ \A r \in Requests : ~ HoldsSession(r, s)
            \/ /\ cpc[c] = "register" /\ cpc' = [cpc EXCEPT ![c] = "await"]
               /\ PeerSend(csess[c], FrameOf[c]) \/ UNCHANGED ControlVars
               /\ UNCHANGED csess
            \/ ReadAck(c)
            \/ \E to \in {"backoff", "off"} : cpc[c] \in Connected /\ Return(c, to)
            \/ /\ cpc[c] \notin Connected
               /\ \E to \in {"dial", "backoff", "off"} : cpc' = [cpc EXCEPT ![c] = to]
               /\ UNCHANGED <<csess, ControlVars>>
<1>1. CASE HostStep(c) /\ \A s \in Sessions, r \in Requests :
                            HoldsSession(r, s) => csess'[c] # s \/ csess[c] = s
  <2>1. ASSUME NEW s \in Sessions, Dial(c, s)
        PROVE  \A r \in Requests : ~ HoldsSession(r, s)
    <3>1. csess'[c] = s /\ csess[c] # s
      BY <2>1, NoSessionAssumption
      DEF Dial, Step, ClientInv, HostTypeOK, SessionInv, Connected
    <3> QED
      BY <1>1, <3>1
  <2> QED
    BY <1>1, <2>1
    DEF ClientNext, HostStep, Dial, DialFails, Register, ReadError, SessionLost,
        Backoff, Step, Connected
<1> QED
  BY <1>1 DEF ClientNext, Start, Interrupt, Step, Connected

\* A step of the tunnel is a step of the control plane, or none.
LEMMA Simulation ==
  ASSUME ClientInv, [Next]_vars
  PROVE  [ControlNext]_ControlVars
<1>1. CASE Quiet
  BY <1>1 DEF Quiet, ControlNext
<1>2. ASSUME NEW c \in Clients, ClientNext(c)
      PROVE  [ControlNext]_ControlVars
  <2>1. cpc[c] \in Connected => csess[c] \in Sessions
    BY HeldSession
  <2>2. FrameOf[c] \in Frames
    BY ClientsAssumption
  <2> QED
    BY <2>1, <2>2, <1>2, ClientCases
    DEF ControlNext, ReadAck, Step, Return, Connected
<1>3. CASE UNCHANGED ControlVars
  BY <1>3
<1> QED
  BY <1>1, <1>2, <1>3, StepCases DEF RequestNext, vars

-----------------------------------------------------------------------------
(* What a step does to a session, as its client sees it.                   *)

\* No step leaves a frame in a session that is free.
LEMMA InboxStep ==
  ASSUME ControlTypeOK, InboxInv, [ControlNext]_ControlVars
  PROVE  InboxInv'
<1> USE DEF InboxInv, ControlTypeOK, Goto, diskVars, handlerVars, connVars
<1>1. ASSUME NEW s \in Sessions, HandlerStep(s) \/ Notice(s)
      PROVE  InboxInv'
  BY <1>1 DEF HandlerStep, Notice, ReadRegister, ReadFails, PutTunnel, RejectSlot,
              PutSlot, BindSlot, WriteAck, DrainEnds, Unbind, Close, Fail
<1>2. ASSUME NEW s \in Sessions,
             \/ PeerDial(s) \/ PeerRead(s) \/ PeerHangUp(s) \/ PeerLeave(s)
             \/ LinkCut(s)
      PROVE  InboxInv'
  BY <1>2 DEF PeerDial, PeerRead, PeerHangUp, PeerLeave, LinkCut
<1>3. ASSUME NEW s \in Sessions, NEW f \in Frames, PeerSend(s, f)
      PROVE  InboxInv'
  BY <1>3 DEF PeerSend
<1>4. ServerStop \/ ServerStart \/ UNCHANGED ControlVars => InboxInv'
  BY DEF ServerStop, ServerStart, ControlVars
<1> QED
  BY <1>1, <1>2, <1>3, <1>4 DEF ControlNext, ServerNext

\* The server and the network never give a session a client or a frame of
\* another one, nor an ack whose sidecars are not on disk; as long as the
\* connection works they leave a handler in its drain loop.
LEMMA QuietStep ==
  ASSUME IInv, Quiet, NEW s \in Sessions
  PROVE  /\ client' = client
         /\ inbox'[s] \in {inbox[s], NoFrame}
         /\ frame'[s] \in {frame[s], inbox[s], NoFrame}
         /\ slots \subseteq slots'
         /\ reply'[s] = "register_ack" =>
              \/ reply[s] = "register_ack"
              \/ /\ frame[s] # NoFrame
                 /\ \A i \in 1..Len(frame[s].slots) : SlotDone(s, i)
         /\ conn'[s] = "up" =>
              /\ conn[s] = "up"
              /\ pc[s] = "drain" => pc'[s] = "drain" /\ frame'[s] = frame[s]
<1> USE NoReplyAssumption
    DEF ControlTypeOK, Goto, Reply, diskVars, handlerVars, connVars
<1>0. ControlTypeOK /\ FrameInv /\ DiskInv
  BY DEF IInv
<1>1. ASSUME NEW t \in Sessions, WriteAck(t)
      PROVE  /\ frame[t] # NoFrame
             /\ \A i \in 1..Len(frame[t].slots) : SlotDone(t, i)
  <2>1. frame[t] # NoFrame /\ Len(frame[t].slots) < next[t]
    BY <1>0, <1>1, CurrentType DEF WriteAck, MoreSlots, FrameInv, Registering
  <2>2. \A i \in 1..Len(frame[t].slots) : i < next[t]
    BY <1>0, <2>1, CurrentType
  <2> QED
    BY <1>0, <1>1, <2>1, <2>2 DEF WriteAck, DiskInv, Persisted
<1>2. ASSUME NEW t \in Sessions, WriteAck(t)
      PROVE  /\ client' = client /\ inbox' = inbox /\ frame' = frame
             /\ slots' = slots /\ conn' = conn
             /\ pc[t] # "drain" /\ \A u \in Sessions \ {t} : pc'[u] = pc[u]
             /\ reply'[s] = "register_ack" => reply[s] = "register_ack" \/ s = t
  BY <1>0, <1>2 DEF WriteAck, Write, Works
<1>3. CASE \E t \in Sessions : Notice(t) \/ LinkCut(t)
  BY <1>0, <1>3 DEF Notice, LinkCut
<1>4. CASE \E t \in Sessions : ReadRegister(t) \/ ReadFails(t) \/ DrainEnds(t)
                                 \/ Unbind(t) \/ Close(t)
  BY <1>0, <1>4 DEF ReadRegister, ReadFails, DrainEnds, Unbind, Close, Fail, Write, Works
<1>5. CASE \E t \in Sessions : PutTunnel(t) \/ RejectSlot(t) \/ PutSlot(t) \/ BindSlot(t)
  BY <1>0, <1>5 DEF PutTunnel, RejectSlot, PutSlot, BindSlot, Fail, Write, Works
<1>6. CASE ServerStop \/ ServerStart
  BY <1>0, <1>6 DEF ServerStop, ServerStart
<1> QED
  BY <1>1, <1>2, <1>3, <1>4, <1>5, <1>6 DEF Quiet, ServerNext, HandlerStep

\* What a client does to the session it holds or dials.
LEMMA ClientStep ==
  ASSUME ControlTypeOK, ClientInv, NEW c \in Clients, ClientNext(c)
  PROVE  /\ slots' = slots /\ m' = m
         /\ \A d \in Clients \ {c} :
              /\ cpc'[d] = cpc[d] /\ csess'[d] = csess[d]
              /\ csess[d] # NoSession =>
                   LET s == csess[d] IN
                   /\ s # csess'[c]
                   /\ client'[s] = client[s] /\ inbox'[s] = inbox[s]
                   /\ frame'[s] = frame[s] /\ reply'[s] = reply[s]
                   /\ conn'[s] = conn[s] /\ pc'[s] = pc[s]
<1> USE DEF ControlTypeOK, ClientInv, HostTypeOK, SessionInv, Connected,
            diskVars, handlerVars, connVars
<1>1. ASSUME NEW s \in Sessions, PeerDial(s), csess' = [csess EXCEPT ![c] = s],
             cpc' = [cpc EXCEPT ![c] = "register"]
      PROVE  /\ slots' = slots /\ m' = m
             /\ \A d \in Clients \ {c} :
                  /\ cpc'[d] = cpc[d] /\ csess'[d] = csess[d]
                  /\ csess[d] # NoSession => csess[d] # s /\ csess'[c] = s
  BY <1>1 DEF PeerDial, Fresh
<1> QED
  BY <1>1, ClientCases, NoSessionAssumption
  DEF PeerDial, PeerSend, PeerRead, PeerLeave, ReadAck, Return, Step, ControlVars

-----------------------------------------------------------------------------
(* The invariant, part by part.                                            *)

\* A session has at most one client, which knows it.
LEMMA SessionStep ==
  ASSUME IInv, ClientInv, [Next]_vars
  PROVE  ClientInv'
<1> USE DEF ControlTypeOK, ClientInv, HostTypeOK, SessionInv, Connected
<1>1. CASE Quiet /\ UNCHANGED hostVars
  <2>1. client' = client \/ Sessions = {}
    BY <1>1, QuietStep
  <2> QED
    BY <1>1, <2>1 DEF hostVars
<1>2. ASSUME NEW c \in Clients, ClientNext(c) PROVE ClientInv'
  <2>1. HostTypeOK' /\ (cpc'[c] \in Connected <=> csess'[c] # NoSession)
        /\ (csess'[c] # NoSession => client'[csess'[c]])
    BY <1>2, ClientCases, NoSessionAssumption
    DEF IInv, PeerDial, PeerSend, PeerRead, PeerLeave, ReadAck, Return, Step,
        ControlVars, connVars
  <2>2. \A d \in Clients \ {c} :
          /\ cpc'[d] = cpc[d] /\ csess'[d] = csess[d]
          /\ csess[d] # NoSession =>
               csess[d] # csess'[c] /\ client'[csess[d]] = client[csess[d]]
    BY <1>2, ClientStep DEF IInv
  <2> QED
    BY <2>1, <2>2
<1>3. CASE UNCHANGED <<ControlVars, hostVars>>
  BY <1>3 DEF ControlVars, hostVars
<1> QED
  BY <1>1, <1>2, <1>3, StepCases DEF RequestNext, vars

\* A session carries its own client's frame.
LEMMA OwnFrameStep ==
  ASSUME IInv, ClientInv, InboxInv, OwnFrame, [Next]_vars
  PROVE  OwnFrame'
<1> USE DEF OwnFrame
<1>1. CASE Quiet /\ UNCHANGED hostVars
  <2>1. ASSUME NEW c \in Clients, csess[c] # NoSession PROVE csess[c] \in Sessions
    BY <2>1 DEF ClientInv, HostTypeOK
  <2> QED
    BY <1>1, <2>1, QuietStep DEF hostVars
<1>2. ASSUME NEW c \in Clients, ClientNext(c) PROVE OwnFrame'
  <2>1. csess'[c] # NoSession =>
          inbox'[csess'[c]] \in {NoFrame, FrameOf[c]}
            /\ frame'[csess'[c]] \in {NoFrame, FrameOf[c]}
    <3> USE DEF ControlTypeOK, ClientInv, HostTypeOK, SessionInv, Connected, handlerVars
    <3>1. ASSUME NEW s \in Sessions, PeerDial(s), csess'[c] = s
          PROVE  inbox'[s] = NoFrame /\ frame'[s] = NoFrame
      BY <3>1 DEF IInv, FrameInv, InboxInv, PeerDial, Fresh
    <3>2. ASSUME csess' = csess, csess[c] # NoSession, PeerSend(csess[c], FrameOf[c])
          PROVE  inbox'[csess[c]] = FrameOf[c] /\ frame'[csess[c]] = frame[csess[c]]
      BY <3>2 DEF IInv, PeerSend
    <3>3. ASSUME csess' = csess, UNCHANGED ControlVars \/ PeerRead(csess[c])
          PROVE  UNCHANGED <<inbox, frame>>
      BY <3>3 DEF PeerRead, ControlVars
    <3> QED
      BY <1>2, <3>1, <3>2, <3>3, ClientCases DEF ReadAck, Return, Step, IInv
  <2> QED
    BY <1>2, <2>1, ClientStep DEF IInv
<1>3. CASE UNCHANGED <<ControlVars, hostVars>>
  BY <1>3 DEF ControlVars, hostVars
<1> QED
  BY <1>1, <1>2, <1>3, StepCases DEF RequestNext, vars

\* Once every slot of a client's frame has its sidecar, all the client hosts is
\* on disk.
LEMMA AllOnDisk ==
  ASSUME NEW c \in Clients, NEW s \in Sessions, frame[s] = FrameOf[c],
         \A i \in 1..Len(frame[s].slots) : SlotDone(s, i)
  PROVE  OnDisk(c)
  BY DEF OnDisk, SlotsOf, SlotDone

\* An ack is only written once every sidecar is, and none is removed.
LEMMA AckStep ==
  ASSUME IInv, ClientInv, OwnFrame, AckInv, [Next]_vars
  PROVE  AckInv'
<1> USE NoReplyAssumption DEF AckInv, OnDisk, Reply
<1>1. CASE Quiet /\ UNCHANGED hostVars
  <2>1. ASSUME NEW c \in Clients, csess[c] # NoSession, reply'[csess[c]] = "register_ack"
        PROVE  OnDisk(c)'
    <3>1. csess[c] \in Sessions
      BY <2>1 DEF ClientInv, HostTypeOK
    <3>2. slots \subseteq slots'
      BY <1>1, <3>1, QuietStep
    <3>3. OnDisk(c)
      BY <1>1, <2>1, <3>1, QuietStep, AllOnDisk DEF OwnFrame
    <3> QED
      BY <3>2, <3>3
  <2> QED
    BY <1>1, <2>1 DEF hostVars
<1>2. ASSUME NEW c \in Clients, ClientNext(c) PROVE AckInv'
  <2>1. csess'[c] # NoSession /\ reply'[csess'[c]] = "register_ack" => OnDisk(c)
    BY <1>2, ClientCases
    DEF IInv, ReplyInv, ControlTypeOK, ClientInv, HostTypeOK, SessionInv, PeerDial, Fresh,
        PeerSend, PeerRead, ReadAck, Return, Step, Connected, ControlVars, connVars
  <2> QED
    BY <1>2, <2>1, ClientStep DEF IInv
<1>3. CASE UNCHANGED <<ControlVars, hostVars>>
  BY <1>3 DEF ControlVars, hostVars, diskVars
<1> QED
  BY <1>1, <1>2, <1>3, StepCases DEF RequestNext, vars

\* A client that takes its ack finds its registration complete, and it stays so.
LEMMA ReadyStep ==
  ASSUME IInv, ClientInv, OwnFrame, AckInv, ReadyMeansRegistered, [Next]_vars
  PROVE  ReadyMeansRegistered'
<1> USE DEF ReadyMeansRegistered
<1>0. \A c \in Clients : cpc[c] = "serving" =>
        csess[c] \in Sessions /\ csess[c] # NoSession
  BY DEF ClientInv, HostTypeOK, SessionInv, Connected
<1>1. CASE Quiet /\ UNCHANGED hostVars
  BY <1>0, <1>1, QuietStep DEF hostVars
<1>2. ASSUME NEW c \in Clients, ClientNext(c) PROVE ReadyMeansRegistered'
  <2>1. CASE ReadAck(c)
    <3>1. csess[c] \in Sessions /\ csess[c] # NoSession /\ csess' = csess
      BY <2>1 DEF ReadAck, Step, ClientInv, HostTypeOK, SessionInv, Connected
    <3>2. UNCHANGED <<conn, pc, frame, slots>>
      BY <2>1 DEF ReadAck, PeerRead, diskVars, handlerVars
    <3>3. OnDisk(c)
      BY <2>1, <3>1 DEF ReadAck, AckInv
    <3>4. conn[csess[c]] = "up" => pc[csess[c]] = "drain" /\ frame[csess[c]] = FrameOf[c]
      BY <2>1, <3>1 DEF ReadAck, IInv, ReplyInv, FrameInv, Registering, OwnFrame
    <3>5. \A d \in Clients \ {c} : cpc'[d] = cpc[d]
      BY <2>1 DEF ReadAck, Step, ClientInv, HostTypeOK
    <3> QED
      BY <3>1, <3>2, <3>3, <3>4, <3>5 DEF OnDisk
  <2>2. CASE ~ ReadAck(c)
    <3>1. cpc'[c] # "serving"
      BY <1>2, <2>2, ClientCases DEF Return, ClientInv, HostTypeOK
    <3> QED
      BY <1>0, <1>2, <3>1, ClientStep DEF IInv
  <2> QED
    BY <2>1, <2>2
<1>3. CASE UNCHANGED <<ControlVars, hostVars>>
  BY <1>3 DEF ControlVars, hostVars, diskVars, handlerVars, connVars
<1> QED
  BY <1>1, <1>2, <1>3, StepCases DEF RequestNext, vars

-----------------------------------------------------------------------------
(* Requests.                                                               *)

\* Whoever holds the session of an entry hosts the entry's slot.
LEMMA EntryFits ==
  ASSUME IInv, ClientInv, OwnFrame, NEW k \in Keys, m[k] # NoEntry,
         NEW c \in Clients, csess[c] = m[k].Session
  PROVE  Hosts(c, k)
<1>1. m[k].Session \in Sessions
  BY HolderFacts DEF IInv
<1>2. frame[csess[c]] = FrameOf[c] /\ Listed(frame[csess[c]], next[csess[c]] - 1, k)
  BY <1>1, NoSessionAssumption DEF IInv, BoundAsRegistered, OwnFrame
<1>3. \E i \in 1..Len(FrameOf[c].slots) : FrameOf[c].slots[i].name = k[2]
  BY <1>1, <1>2, CurrentType DEF Listed, IInv, ControlTypeOK, BoundAsRegistered
<1> QED
  BY <1>2, <1>3 DEF Hosts, SlotsOf, Listed

\* No client takes over a session that a request refers to.
LEMMA NoNewHolder ==
  ASSUME IInv, ClientInv, NEW c \in Clients, ClientNext(c), RouterTypeOK(Clients),
         NEW r \in Requests, entry[r] # NoEntry,
         NEW d \in Clients, csess'[d] = entry[r].Session
  PROVE  csess[d] = csess'[d]
<1>1. CASE d # c
  BY <1>1, ClientStep DEF IInv
<1>2. CASE d = c
  <2>1. entry[r].Session \in Sessions
    BY DEF RouterTypeOK, Entry
  <2> QED
    BY <1>2, <2>1, ClientCases, NoSessionAssumption
    DEF HoldsSession, ReadAck, Return, ClientInv, HostTypeOK
<1> QED
  BY <1>1, <1>2

\* All that concerns requests.
RouterInv == RouterTypeOK(Clients) /\ RequestInv

\* A step of one request leaves the others as they are.
LEMMA OtherRequests ==
  ASSUME RouterInv, NEW r \in Requests, UNCHANGED hostVars, RequestGood(r)',
         \A q \in Requests \ {r} :
           /\ rpc'[q] = rpc[q] /\ asked'[q] = asked[q] /\ entry'[q] = entry[q]
           /\ answer'[q] = answer[q] /\ by'[q] = by[q]
  PROVE  RequestInv'
<1> SUFFICES ASSUME NEW q \in Requests \ {r} PROVE RequestGood(q)'
  BY DEF RequestInv
<1>1. RequestGood(q)
  BY DEF RouterInv, RequestInv
<1>2. csess' = csess /\ \A c, k : Hosts(c, k)' <=> Hosts(c, k)
  BY DEF Hosts, SlotsOf, hostVars
<1> QED
  BY <1>1, <1>2 DEF RequestGood, Holding, Streaming

\* An answer leaves nothing behind.
LEMMA AnswerStep ==
  ASSUME RouterInv, NEW r \in Requests, NEW a \in Answers \ {"unknown_slot"}, Answer(r, a),
         asked' = asked \/ rpc[r] = "idle",
         \E k \in PublicKeys \cup {NoKey} : asked' = [asked EXCEPT ![r] = k],
         by' = by, UNCHANGED hostVars,
         a = "served" => Hosts(by[r], asked[r])'
  PROVE  RouterInv'
<1>1. RouterTypeOK(Clients)'
  BY DEF RouterInv, RouterTypeOK, Answer
<1>2. /\ rpc'[r] = "done" /\ entry'[r] = NoEntry /\ answer'[r] = a
      /\ \A q \in Requests \ {r} :
           /\ rpc'[q] = rpc[q] /\ asked'[q] = asked[q] /\ entry'[q] = entry[q]
           /\ answer'[q] = answer[q] /\ by'[q] = by[q]
  BY DEF RouterInv, RouterTypeOK, Answer
<1>3. RequestGood(r)'
  BY <1>2 DEF RequestGood, Holding, Streaming
<1> QED
  BY <1>1, <1>2, <1>3, OtherRequests DEF RouterInv

\* Every step keeps a request's answer its own slot's.
LEMMA RouterStepInv ==
  ASSUME IInv, ClientInv, OwnFrame, RouterInv, [Next]_vars
  PROVE  RouterInv'
<1> USE DEF RouterInv, RouterTypeOK, Holding, Streaming, Answers
<1>1. ASSUME NEW R \in SUBSET Requests, ResetRequests(R), UNCHANGED hostVars
      PROVE  RouterInv'
  <2>1. RouterTypeOK(Clients)'
    BY <1>1 DEF ResetRequests
  <2>2. csess' = csess
    BY <1>1 DEF hostVars
  <2>3. \A r \in R : rpc'[r] = "idle" /\ entry'[r] = NoEntry /\ answer'[r] = "none"
    BY <1>1 DEF ResetRequests
  <2>4. \A r \in Requests \ R :
          /\ rpc'[r] = rpc[r] /\ entry'[r] = entry[r] /\ answer'[r] = answer[r]
          /\ asked'[r] = asked[r] /\ by'[r] = by[r]
    BY <1>1 DEF ResetRequests
  <2>5. \A c, k : Hosts(c, k)' <=> Hosts(c, k)
    BY <1>1 DEF Hosts, SlotsOf
  <2>6. ASSUME NEW r \in R PROVE RequestGood(r)'
    BY <2>3, <2>6 DEF RequestGood
  <2>7. ASSUME NEW r \in Requests \ R PROVE RequestGood(r)'
    BY <2>2, <2>4, <2>5, <2>7 DEF RequestInv, RequestGood
  <2> QED
    BY <2>1, <2>6, <2>7 DEF RequestInv
<1>2. CASE UNCHANGED <<csess, routerVars>>
  BY <1>2 DEF routerVars, RequestInv, RequestGood, Hosts, SlotsOf
<1>3. ASSUME NEW c \in Clients, ClientNext(c) PROVE RouterInv'
  <2>1. UNCHANGED routerVars
    BY <1>3 DEF ClientNext
  <2>2. ASSUME NEW r \in Requests, entry[r] # NoEntry, NEW d \in Clients,
               csess'[d] = entry[r].Session
        PROVE  Hosts(d, asked[r])
    BY <1>3, <2>2, NoNewHolder DEF RequestInv, RequestGood
  <2>3. ASSUME NEW r \in Requests PROVE RequestGood(r)'
    <3>1. RequestGood(r)
      BY DEF RequestInv
    <3> QED
      BY <2>1, <2>2, <3>1 DEF routerVars, RequestGood, Hosts, SlotsOf
  <2> QED
    BY <2>1, <2>3 DEF routerVars, RequestInv
<1>4. ASSUME NEW r \in Requests, RequestNext(r) PROVE RouterInv'
  <2>0. UNCHANGED hostVars
    BY <1>4 DEF RequestNext
  <2>1. ASSUME NEW k \in PublicKeys \cup {NoKey}, Arrive(r, k) PROVE RouterInv'
    <3>1. CASE Answer(r, "not_found")
      BY <2>0, <2>1, <3>1, AnswerStep DEF Arrive
    <3>2. CASE k # NoKey /\ Proceed(r, "lookup") /\ UNCHANGED <<entry, written>>
      <4>1. RouterTypeOK(Clients)'
        BY <2>1, <3>2 DEF Arrive, Proceed
      <4>2. /\ rpc'[r] = "lookup" /\ asked'[r] = k /\ UNCHANGED <<entry, answer, by>>
            /\ \A q \in Requests \ {r} : rpc'[q] = rpc[q] /\ asked'[q] = asked[q]
        BY <2>1, <3>2 DEF Arrive, Proceed
      <4>3. RequestGood(r)'
        BY <2>1, <3>2, <4>2 DEF Arrive, RequestInv, RequestGood
      <4> QED
        BY <2>0, <4>1, <4>2, <4>3, OtherRequests
    <3> QED
      BY <2>1, <3>1, <3>2 DEF Arrive
  <2>2. CASE LookupEntry(r)
    <3> DEFINE k == asked[r]
    <3>1. k \in PublicKeys /\ k \in Keys /\ Lookup(m, k[1], k[2]) = m[k]
      BY <2>2 DEF LookupEntry, RequestInv, RequestGood, PublicKeys, Keys, Lookup, key
    <3>2. CASE Answer(r, "nobody")
      BY <2>0, <2>2, <3>2, AnswerStep DEF LookupEntry
    <3>3. CASE m[k] # NoEntry /\ entry' = [entry EXCEPT ![r] = m[k]]
                 /\ Proceed(r, "dial") /\ UNCHANGED written
      <4>1. m[k] \in Entry
        BY <3>1, <3>3, HolderFacts DEF IInv
      <4>2. RouterTypeOK(Clients)'
        BY <2>2, <3>3, <4>1 DEF LookupEntry, Proceed
      <4>3. \A c \in Clients : csess[c] = m[k].Session => Hosts(c, k)
        BY <3>1, <3>3, EntryFits
      <4>4. /\ rpc'[r] = "dial" /\ entry'[r] = m[k] /\ UNCHANGED <<asked, answer, by>>
            /\ \A q \in Requests \ {r} : rpc'[q] = rpc[q] /\ entry'[q] = entry[q]
        BY <2>2, <3>3 DEF LookupEntry, Proceed
      <4>5. csess' = csess /\ \A c \in Clients : csess[c] = m[k].Session => Hosts(c, asked[r])'
        BY <2>0, <4>3, <4>4 DEF hostVars, Hosts, SlotsOf
      <4>6. RequestGood(r)'
        BY <2>2, <3>1, <3>3, <4>4, <4>5 DEF LookupEntry, RequestInv, RequestGood
      <4> QED
        BY <2>0, <4>2, <4>4, <4>6, OtherRequests
    <3> QED
      BY <2>2, <3>1, <3>2, <3>3 DEF LookupEntry
  <2>3. CASE OpenStream(r)
    <3>1. CASE Answer(r, "bad_gateway")
      BY <2>0, <2>3, <3>1, AnswerStep DEF OpenStream
    <3>2. CASE Proceed(r, "stream") /\ UNCHANGED <<entry, written>>
      <4>1. RouterTypeOK(Clients)'
        BY <2>3, <3>2 DEF OpenStream, Proceed
      <4>2. /\ rpc[r] = "dial" /\ rpc'[r] = "stream" /\ UNCHANGED <<asked, entry, answer, by>>
            /\ \A q \in Requests \ {r} : rpc'[q] = rpc[q]
        BY <2>3, <3>2 DEF OpenStream, Proceed
      <4>3. RequestGood(r)'
        BY <2>0, <4>2 DEF RequestInv, RequestGood, hostVars, Hosts, SlotsOf
      <4> QED
        BY <2>0, <4>1, <4>2, <4>3, OtherRequests
    <3> QED
      BY <2>3, <3>1, <3>2 DEF OpenStream
  <2>4. CASE StreamDies(r) \/ HeaderTimeout(r)
    BY <2>0, <2>4, AnswerStep DEF StreamDies, HeaderTimeout
  <2>5. CASE UpstreamAnswers(r)
    <3>1. Hosts(by[r], asked[r])' /\ UNCHANGED <<asked, by>> /\ Answer(r, "served")
      BY <2>5 DEF UpstreamAnswers, RequestInv, RequestGood, Hosts, SlotsOf
    <3> QED
      BY <2>0, <3>1, AnswerStep
  <2>6. CASE Finish(r)
    BY <1>1, <2>0, <2>6 DEF Finish
  <2>7. ASSUME NEW c \in Clients, Inbound(r, c) PROVE RouterInv'
    <3>1. Hosts(c, asked[r])
      BY <2>7 DEF Inbound, HandleInbound, RequestInv, RequestGood
    <3>2. asked[r][2] \in SlotsOf(c)
      BY <3>1 DEF Hosts
    <3>3. CASE Answer(r, "bad_gateway") /\ UNCHANGED by
      BY <2>0, <2>7, <3>3, AnswerStep DEF Inbound, HandleInbound
    <3>4. CASE by' = [by EXCEPT ![r] = c] /\ Proceed(r, "upstream")
                 /\ UNCHANGED <<asked, entry, written>>
      <4>1. RouterTypeOK(Clients)'
        BY <2>7, <3>4 DEF Proceed
      <4>2. /\ rpc[r] = "stream" /\ rpc'[r] = "upstream" /\ by'[r] = c
            /\ \A q \in Requests \ {r} : rpc'[q] = rpc[q] /\ by'[q] = by[q]
            /\ UNCHANGED <<asked, entry, answer>>
        BY <2>7, <3>4 DEF Inbound, HandleInbound, Proceed
      <4>3. RequestGood(r)'
        BY <2>0, <3>1, <4>2 DEF RequestInv, RequestGood, hostVars, Hosts, SlotsOf
      <4> QED
        BY <2>0, <4>1, <4>2, <4>3, OtherRequests
    <3> QED
      BY <2>7, <3>2, <3>3, <3>4 DEF Inbound, HandleInbound
  <2>8. CASE WriteRequest(r)
    <3>1. RouterTypeOK(Clients)' /\ UNCHANGED <<rpc, asked, entry, answer, by>>
      BY <2>8 DEF WriteRequest
    <3> QED
      BY <2>0, <3>1 DEF RequestInv, RequestGood, hostVars, Hosts, SlotsOf
  <2> QED
    BY <1>4, <2>1, <2>2, <2>3, <2>4, <2>5, <2>6, <2>7, <2>8 DEF RequestNext, RouterStep
<1> QED
  BY <1>1, <1>2, <1>3, <1>4, StepCases DEF hostVars, vars

-----------------------------------------------------------------------------
(* The theorems.                                                           *)

\* The invariant holds at first, is kept by every step, and so holds always.
LEMMA TunnelInit == Init => TunnelInv
<1> SUFFICES ASSUME Init PROVE TunnelInv
  OBVIOUS
<1>1. IInv
  BY InitIInv DEF Init
<1>2. ClientInv /\ InboxInv /\ OwnFrame /\ AckInv /\ ReadyMeansRegistered
  BY DEF Init, ControlInit, HostInit, ClientInv, HostTypeOK, SessionInv, Connected,
         InboxInv, OwnFrame, AckInv, ReadyMeansRegistered
<1>3. RouterTypeOK(Clients) /\ RequestInv
  BY DEF Init, RouterInit, RouterTypeOK, RequestInv, RequestGood, Holding, Streaming, Answers
<1> QED
  BY <1>1, <1>2, <1>3 DEF TunnelInv

\* The step of the induction.
LEMMA TunnelStep == TunnelInv /\ [Next]_vars => TunnelInv'
<1> SUFFICES ASSUME TunnelInv, [Next]_vars PROVE TunnelInv'
  OBVIOUS
<1>1. [ControlNext]_ControlVars
  BY Simulation DEF TunnelInv
<1>2. IInv'
  BY <1>1, NextIInv DEF TunnelInv
<1>3. ClientInv' /\ InboxInv' /\ OwnFrame' /\ AckInv' /\ ReadyMeansRegistered'
  BY <1>1, SessionStep, InboxStep, OwnFrameStep, AckStep, ReadyStep DEF TunnelInv, IInv
<1>4. RouterTypeOK(Clients)' /\ RequestInv'
  BY RouterStepInv DEF TunnelInv, RouterInv
<1> QED
  BY <1>2, <1>3, <1>4 DEF TunnelInv

\* The invariant holds in every state of every run.
LEMMA TunnelInvariance == Spec => []TunnelInv
  BY TunnelInit, TunnelStep, PTL DEF Spec

\* Whatever clients, sessions and requests there are, every variable of the
\* tunnel keeps its type.
THEOREM TunnelTypeCorrect == Spec => []TypeOK
<1>1. TunnelInv => TypeOK
  BY DEF TunnelInv, IInv, ClientInv, TypeOK
<1> QED
  BY <1>1, TunnelInvariance, PTL

\* No request is answered by an upstream of another tunnel or slot, however
\* takeovers, reconnects and cleanups fall between Lookup and the answer.
THEOREM NoRequestGoesAstray == Spec => []NoMisroute
<1>1. TunnelInv => NoMisroute
  BY DEF TunnelInv, RequestInv, RequestGood, NoMisroute
<1> QED
  BY <1>1, TunnelInvariance, PTL

\* A client never gets a stream for a slot it has not configured.
THEOREM StreamsFindTheirSlot == Spec => []NeverUnknownSlot
<1>1. TunnelInv => NeverUnknownSlot
  BY DEF TunnelInv, RequestInv, RequestGood, NeverUnknownSlot
<1> QED
  BY <1>1, TunnelInvariance, PTL

\* TUNNEL_READY means a complete registration.
THEOREM ReadyIsComplete == Spec => []ReadyMeansRegistered
<1>1. TunnelInv => ReadyMeansRegistered
  BY DEF TunnelInv
<1> QED
  BY <1>1, TunnelInvariance, PTL

\* With these clients in the place of arbitrary peers the server is the control
\* plane that ControlProofs is about, so its theorems hold of the tunnel.
THEOREM TunnelIsControl == Spec => ControlSpec
<1>1. Init => ControlInit
  BY DEF Init
<1>2. TunnelInv /\ [Next]_vars => [ControlNext]_ControlVars
  BY Simulation DEF TunnelInv
<1> QED
  BY <1>1, <1>2, TunnelInvariance, PTL DEF Spec, ControlSpec

-----------------------------------------------------------------------------
(* What the control plane keeps, the tunnel keeps.                         *)

\* No entry of the registry dangles, whatever clients and users do.
COROLLARY TunnelBindsAsRegistered == Spec => []BoundAsRegistered
  BY TunnelIsControl, NoDanglingBinding, PTL

\* No slot of the tunnel is reachable without its sidecar.
COROLLARY TunnelBindsPersisted == Spec => []BoundIsPersisted
  BY TunnelIsControl, BoundOnlyIfPersisted, PTL

\* The cleanup of a client's session takes down no other client's slot.
COROLLARY TunnelCleansUpOwn == Spec => CleanupOnlyOwn
  BY TunnelIsControl, CleanupTouchesOnlyOwn, PTL

\* The whole tunnel implements the directory of slots.
COROLLARY TunnelImplementsDirectory == Spec => ImplementsDirectory
  BY TunnelIsControl, ControlImplementsDirectory, PTL

-----------------------------------------------------------------------------
(* Without takeovers.                                                      *)

\* Both inductive invariants.
LEMMA TunnelHeldInvariance == Spec /\ NoTakeover => [](TunnelInv /\ HeldInv)
<1>1. Spec /\ NoTakeover => [](IInv /\ HeldInv)
  BY TunnelIsControl, HeldInvariance, PTL
<1> QED
  BY <1>1, TunnelInvariance, PTL

\* The handlers whose loops have passed slots of client c hold them.
OwnHeld(c) == \A k \in Keys : Hosts(c, k) => HeldAt(k)

\* A client with its ack and a working connection is in the registry if what
\* holds its slots holds them.
LEMMA OwnReachable ==
  ASSUME TunnelInv, NEW c \in Clients, OwnHeld(c), cpc[c] = "serving", conn[csess[c]] = "up"
  PROVE  Routed(c)
<1> DEFINE s == csess[c]
<1>1. s \in Sessions
  BY HeldSession DEF TunnelInv, Connected
<1>2. pc[s] = "drain" /\ frame[s] = FrameOf[c]
  BY DEF TunnelInv, ReadyMeansRegistered
<1>3. ASSUME NEW i \in 1..Len(FrameOf[c].slots)
      PROVE  HeldBy(m, key(FrameOf[c].tunnel, FrameOf[c].slots[i].name), s)
  <2> DEFINE k == key(FrameOf[c].tunnel, FrameOf[c].slots[i].name)
  <2>1. k \in Keys
    BY <1>1, <1>2, DrainKey DEF TunnelInv
  <2>2. Hosts(c, k)
    BY DEF Hosts, SlotsOf, key
  <2> QED
    BY <1>1, <1>2, <2>1, <2>2, DrainHolds DEF TunnelInv, OwnHeld
<1> QED
  BY <1>3 DEF Routed, SlotsOf

\* So all of them are if every handler holds what its loop has passed.
LEMMA HeldIsReachable == TunnelInv /\ HeldInv => ReadyIsReachable
  BY OwnReachable DEF ReadyIsReachable, HeldInv, OwnHeld

\* The entry that Bind replaces without closing its session is all that stands
\* between an acknowledged client with a working connection and its users.
THEOREM ReadyIsReachableUnlessTakenOver == Spec /\ NoTakeover => []ReadyIsReachable
  BY TunnelHeldInvariance, HeldIsReachable, PTL

\* "Re-running the same command reclaims the same hostname" holds of every run
\* without a takeover; the run reclaim shows that it fails with one.
THEOREM ReclaimsUnlessTakenOver == Spec /\ NoTakeover => []ReadyIsRouted
<1>1. ReadyIsReachable => ReadyIsRouted
  BY DEF ReadyIsReachable, ReadyIsRouted
<1> QED
  BY <1>1, ReadyIsReachableUnlessTakenOver, PTL

\* For any clients: where the handlers of a client's own slots take turns, its
\* ready means reachable, whatever becomes of the others.
THEOREM TurnsKeepReachable == Spec => TurnsKeepReady
<1>1. ASSUME NEW c \in Clients
      PROVE  Spec => ([]OwnTurns(c) =>
                        [](cpc[c] = "serving" /\ conn[csess[c]] = "up" => Routed(c)))
  <2> DEFINE Ready == cpc[c] = "serving" /\ conn[csess[c]] = "up" => Routed(c)
  <2>1. Init => OwnHeld(c)
    BY InitHeld DEF Init, HeldInv, OwnHeld
  <2>2. TunnelInv /\ OwnTurns(c) /\ OwnHeld(c) /\ [Next]_vars => OwnHeld(c)'
    <3> SUFFICES ASSUME TunnelInv, OwnTurns(c), OwnHeld(c), [Next]_vars,
                        NEW k \in Keys, Hosts(c, k)
                 PROVE  HeldAt(k)'
      BY DEF OwnHeld, Hosts, SlotsOf
    <3>1. IInv /\ [ControlNext]_ControlVars
      BY Simulation DEF TunnelInv
    <3>2. TurnsAt(k) /\ HeldAt(k)
      BY DEF OwnTurns, OwnHeld
    <3> QED
      BY <3>1, <3>2, TurnStep, HeldStep
  <2>3. TunnelInv /\ OwnHeld(c) => Ready
    BY OwnReachable
  <2> HIDE DEF Ready
  <2>4. Spec => ([]OwnTurns(c) => []Ready)
    BY <2>1, <2>2, <2>3, TunnelInvariance, PTL DEF Spec
  <2> QED
    BY <2>4 DEF Ready
<1> QED
  BY <1>1 DEF TurnsKeepReady

\* An answer means that the request is over.
AnswerIsLast == \A r \in Requests : answer[r] # "none" => rpc[r] = "done"

\* Only what ends a request answers it.
LEMMA AnswerIsLastStep == TunnelInv /\ AnswerIsLast /\ [Next]_vars => AnswerIsLast'
<1> SUFFICES ASSUME TunnelInv, AnswerIsLast, [Next]_vars PROVE AnswerIsLast'
  OBVIOUS
<1> USE DEF AnswerIsLast
<1>1. CASE UNCHANGED routerVars
  BY <1>1 DEF routerVars
<1>2. CASE ResetRequests(Requests)
  BY <1>2 DEF ResetRequests
<1>3. ASSUME NEW r \in Requests, RequestNext(r) PROVE AnswerIsLast'
  <2>0. rpc \in [Requests -> Streaming \cup {"idle", "lookup", "dial", "done"}]
        /\ answer \in [Requests -> Answers]
    BY DEF TunnelInv, RouterTypeOK
  <2>1. ASSUME NEW a, Answer(r, a) PROVE AnswerIsLast'
    BY <2>0, <2>1 DEF Answer
  <2>2. ASSUME NEW stage, Proceed(r, stage), rpc[r] # "done" PROVE AnswerIsLast'
    BY <2>0, <2>2 DEF Proceed
  <2>3. CASE Finish(r)
    BY <2>3 DEF Finish, ResetRequests
  <2>4. CASE \E a : Answer(r, a)
    BY <2>1, <2>4
  <2>5. CASE rpc[r] # "done" /\ \E stage : Proceed(r, stage)
    BY <2>2, <2>5
  <2>6. CASE WriteRequest(r)
    BY <2>6 DEF WriteRequest
  <2> QED
    BY <1>3, <2>3, <2>4, <2>5, <2>6
    DEF RequestNext, RouterStep, Arrive, LookupEntry, OpenStream, StreamDies, HeaderTimeout,
        UpstreamAnswers, Inbound, HandleInbound
<1> QED
  BY <1>1, <1>2, <1>3, StepCases DEF ClientNext, vars

\* A request in its lookup is answered "no client connected" by an empty entry.
LEMMA NobodyStep ==
  ASSUME TunnelInv, HeldInv, AnswerIsLast, [Next]_vars, NEW r \in Requests,
         rpc[r] = "lookup", answer'[r] = "nobody",
         NEW c \in Clients, cpc[c] = "serving", conn[csess[c]] = "up",
         Hosts(c, asked[r])
  PROVE  FALSE
<1> DEFINE k == asked[r]
<1>1. k \in Keys /\ k = key(FrameOf[c].tunnel, k[2]) /\ k[2] \in SlotsOf(c)
  BY DEF TunnelInv, RequestInv, RequestGood, PublicKeys, Hosts, Keys, key
<1>2. m[k] # NoEntry
  BY <1>1, HeldIsReachable DEF ReadyIsReachable, Routed, HeldBy
<1>3. answer[r] = "none"
  BY DEF AnswerIsLast
<1>4. LookupEntry(r)
  <2>1. answer'[r] # answer[r] /\ answer \in [Requests -> Answers]
    BY <1>3 DEF TunnelInv, RouterTypeOK
  <2>2. PICK q \in Requests : RequestNext(q)
    BY <2>1, StepCases DEF ClientNext, ResetRequests, routerVars, vars
  <2>3. q = r
    BY <2>1, <2>2
    DEF RequestNext, RouterStep, Arrive, LookupEntry, OpenStream, StreamDies, HeaderTimeout,
        WriteRequest, UpstreamAnswers, Finish, Inbound, HandleInbound, ResetRequests,
        Answer, Proceed
  <2> QED
    BY <2>1, <2>2, <2>3
    DEF RequestNext, RouterStep, Arrive, OpenStream, StreamDies, HeaderTimeout,
        WriteRequest, UpstreamAnswers, Finish, Inbound, ResetRequests, Streaming
<1>5. Lookup(m, k[1], k[2]) = NoEntry
  BY <1>3, <1>4 DEF LookupEntry, Proceed
<1> QED
  BY <1>1, <1>2, <1>5 DEF Lookup, key, Keys

\* "No client connected" is true in every run without a takeover; the run
\* nobody shows that it is not with one.
THEOREM NobodyUnlessTakenOver == Spec /\ NoTakeover => NobodyMeansNobody
<1> DEFINE A == \A r \in Requests : rpc[r] = "lookup" /\ answer'[r] = "nobody" =>
                  ~ \E c \in Clients : /\ cpc[c] = "serving" /\ conn[csess[c]] = "up"
                                       /\ Hosts(c, asked[r])
<1>1. Init => AnswerIsLast
  BY DEF Init, RouterInit, AnswerIsLast
<1>2. TunnelInv /\ HeldInv /\ AnswerIsLast /\ [Next]_vars => [A]_vars
  BY NobodyStep
<1>3. NobodyMeansNobody <=> [][A]_vars
  BY DEF NobodyMeansNobody
<1> HIDE DEF A
<1> QED
  BY <1>1, <1>2, <1>3, AnswerIsLastStep, TunnelHeldInvariance, PTL DEF Spec
=============================================================================
