---------------------------- MODULE ControlProofs ----------------------------
(***************************************************************************)
(* Proofs about the control plane, for every set of names, sessions and    *)
(* frames.  The registry's properties rest on one inductive invariant,     *)
(* IInv, which says what each stage of a handler has already established.  *)
(***************************************************************************)
EXTENDS Control, TLAPS

\* Stages with a validated frame, stages with the tunnel on disk.
Registering == {"tunnel", "slots", "bind", "drain"}
Persisted   == {"slots", "bind", "drain"}

\* A handler works on a frame from the moment it has read one, and has bound
\* nothing before.
FrameInv ==
  \A s \in Sessions :
    /\ pc[s] \in Registering => frame[s] # NoFrame
    /\ pc[s] = "read" => frame[s] = NoFrame /\ next[s] = 1
    /\ pc[s] = "none" => frame[s] = NoFrame /\ next[s] = 1
    /\ pc[s] = "tunnel" => next[s] = 1
    /\ pc[s] = "bind" => next[s] <= Len(frame[s].slots)

\* The sidecar of slot i of the frame of s is on disk, and slot i is http.
SlotDone(s, i) ==
  /\ frame[s].slots[i].kind = "http"
  /\ <<frame[s].owner, frame[s].tunnel, frame[s].slots[i].name>> \in slots

\* What is on disk at each stage.
DiskInv ==
  \A s \in Sessions :
    /\ pc[s] \in Persisted =>
         /\ <<frame[s].owner, frame[s].tunnel>> \in tunnels
         /\ \A i \in 1..Len(frame[s].slots) : i < next[s] => SlotDone(s, i)
    /\ pc[s] = "bind" => SlotDone(s, next[s])
    /\ pc[s] = "drain" => next[s] > Len(frame[s].slots)

\* An ack that can still be read means a handler in its drain loop.
ReplyInv ==
  \A s \in Sessions :
    /\ Works(s) => client[s]
    /\ ~ client[s] => reply[s] = NoReply
    /\ reply[s] = "register_ack" /\ conn[s] = "up" => pc[s] = "drain"

IInv == ControlTypeOK /\ FrameInv /\ DiskInv /\ ReplyInv
          /\ BoundAsRegistered /\ BoundIsPersisted

-----------------------------------------------------------------------------

\* The slot at the loop variable is one the frame's type allows.
LEMMA CurrentType ==
  ASSUME ControlTypeOK, NEW s \in Sessions, frame[s] # NoFrame
  PROVE  /\ frame[s] \in Frame
         /\ frame[s].owner \in Owners /\ frame[s].tunnel \in Tunnels
         /\ frame[s].slots \in Seq(Slot)
         /\ Len(frame[s].slots) \in Nat
         /\ \A i \in 1..Len(frame[s].slots) :
              /\ frame[s].slots[i] \in Slot
              /\ frame[s].slots[i].name \in SlotNames
         /\ next[s] <= Len(frame[s].slots) =>
              Current(s) \in Slot /\ Current(s).name \in SlotNames
<1>1. frame[s] \in Frame
  BY FramesAssumption DEF ControlTypeOK
<1>2. frame[s].slots \in Seq(Slot) /\ frame[s].owner \in Owners
      /\ frame[s].tunnel \in Tunnels
  BY <1>1 DEF Frame
<1>3. Len(frame[s].slots) \in Nat
      /\ \A i \in 1..Len(frame[s].slots) : frame[s].slots[i] \in Slot
  BY <1>2
<1>4. \A i \in 1..Len(frame[s].slots) : frame[s].slots[i].name \in SlotNames
  BY <1>3 DEF Slot
<1>5. next[s] <= Len(frame[s].slots) => next[s] \in 1..Len(frame[s].slots)
  BY <1>3 DEF ControlTypeOK
<1> QED
  BY <1>1, <1>2, <1>3, <1>4, <1>5 DEF Current

\* Binding an entry keeps a table a table, and changes the entry's key alone.
LEMMA BindType ==
  ASSUME NEW t \in Table, NEW e \in Entry
  PROVE  /\ Bind(t, e) \in Table
         /\ \A k \in Keys : Bind(t, e)[k] =
              IF k = <<e.Tunnel, e.Slot>> THEN e ELSE t[k]
BY DEF Table, Bind, key, Entry, Keys

\* Unbinding keeps a table a table.
LEMMA UnbindType ==
  ASSUME NEW t \in Table, NEW s \in Sessions
  PROVE  /\ UnbindSession(t, s) \in Table
         /\ \A k \in Keys : UnbindSession(t, s)[k] =
              IF HeldBy(t, k, s) THEN NoEntry ELSE t[k]
BY DEF Table, UnbindSession

\* What the handler of s binds is an entry of its own frame's slot.
LEMMA BoundEntry ==
  ASSUME ControlTypeOK, FrameInv, NEW s \in Sessions, pc[s] = "bind"
  PROVE  /\ EntryOf(frame[s], Current(s).name, s) \in Entry
         /\ frame[s] # NoFrame
         /\ next[s] \in 1..Len(frame[s].slots)
<1>1. frame[s] # NoFrame /\ next[s] <= Len(frame[s].slots)
  BY DEF FrameInv, Registering
<1>2. Current(s).name \in SlotNames /\ Len(frame[s].slots) \in Nat
      /\ frame[s].owner \in Owners /\ frame[s].tunnel \in Tunnels
  BY <1>1, CurrentType
<1>3. EntryOf(frame[s], Current(s).name, s) \in Entry
  BY <1>2 DEF EntryOf, Entry
<1> QED
  BY <1>1, <1>2, <1>3 DEF ControlTypeOK

\* The initial state.
LEMMA InitIInv == ControlInit => IInv
<1> SUFFICES ASSUME ControlInit PROVE IInv
  OBVIOUS
<1>1. ControlTypeOK
  BY DEF ControlInit, ControlTypeOK, New, Table, Stages, Active
<1>2. FrameInv /\ DiskInv /\ ReplyInv
  BY NoReplyAssumption
     DEF ControlInit, FrameInv, DiskInv, ReplyInv, Works, Registering, Persisted,
         Reply
<1>3. BoundAsRegistered /\ BoundIsPersisted
  BY DEF ControlInit, New, BoundAsRegistered, BoundIsPersisted
<1> QED
  BY <1>1, <1>2, <1>3 DEF IInv

-----------------------------------------------------------------------------
(* Types and stages.                                                       *)

\* Every step keeps every variable's type.
LEMMA TypeStep ==
  ControlTypeOK /\ FrameInv /\ [ControlNext]_ControlVars => ControlTypeOK'
<1> SUFFICES ASSUME ControlTypeOK, FrameInv, [ControlNext]_ControlVars
             PROVE  ControlTypeOK'
  OBVIOUS
<1> USE DEF ControlTypeOK, diskVars, handlerVars, connVars, Goto, Stages, Active
<1>1. ASSUME NEW s \in Sessions,
             \/ PeerDial(s) \/ PeerRead(s) \/ PeerHangUp(s) \/ PeerLeave(s)
             \/ LinkCut(s) \/ Notice(s)
      PROVE  ControlTypeOK'
  <2>1. CASE PeerDial(s)
    BY <2>1 DEF PeerDial
  <2>2. CASE PeerRead(s) \/ Notice(s)
    BY <2>2 DEF PeerRead, Notice
  <2>3. CASE PeerHangUp(s) \/ PeerLeave(s)
    BY <2>3 DEF PeerHangUp, PeerLeave
  <2>4. CASE LinkCut(s)
    BY <2>4 DEF LinkCut
  <2> QED
    BY <1>1, <2>1, <2>2, <2>3, <2>4
<1>2. ASSUME NEW s \in Sessions, NEW f \in Frames, PeerSend(s, f)
      PROVE  ControlTypeOK'
  BY <1>2 DEF PeerSend
<1>3. ASSUME NEW s \in Sessions, ReadRegister(s) PROVE ControlTypeOK'
  BY <1>3 DEF ReadRegister, Fail, Write, Reply
<1>4. ASSUME NEW s \in Sessions, PutTunnel(s) PROVE ControlTypeOK'
  <2>1. frame[s].owner \in Owners /\ frame[s].tunnel \in Tunnels
    BY <1>4, CurrentType DEF PutTunnel, FrameInv, Registering
  <2> QED
    BY <1>4, <2>1 DEF PutTunnel, Fail, Write, Reply
<1>5. ASSUME NEW s \in Sessions, PutSlot(s) PROVE ControlTypeOK'
  <2>1. frame[s] # NoFrame /\ next[s] <= Len(frame[s].slots)
    BY <1>5 DEF PutSlot, FrameInv, Registering, MoreSlots
  <2>2. frame[s].owner \in Owners /\ frame[s].tunnel \in Tunnels
        /\ Current(s).name \in SlotNames
    BY <2>1, CurrentType
  <2> QED
    BY <1>5, <2>2 DEF PutSlot, Fail, Write, Reply
<1>6. ASSUME NEW s \in Sessions, BindSlot(s) PROVE ControlTypeOK'
  <2>1. m' \in Table
    BY <1>6, BoundEntry, BindType DEF BindSlot
  <2> QED
    BY <1>6, <2>1 DEF BindSlot
<1>7. ASSUME NEW s \in Sessions, Unbind(s) PROVE ControlTypeOK'
  <2>1. m' \in Table
    BY <1>7, UnbindType DEF Unbind
  <2> QED
    BY <1>7, <2>1 DEF Unbind
<1>8. ASSUME NEW s \in Sessions,
             ReadFails(s) \/ RejectSlot(s) \/ WriteAck(s) \/ DrainEnds(s) \/ Close(s)
      PROVE  ControlTypeOK'
  BY <1>8 DEF ReadFails, RejectSlot, WriteAck, DrainEnds, Close, Fail, Write, Reply
<1>9. ASSUME ServerStop PROVE ControlTypeOK'
  <2>1. reply' \in [Sessions -> Reply \cup {NoReply}]
    BY <1>9 DEF ServerStop
  <2>2. m' \in Table
    BY <1>9 DEF ServerStop, New, Table
  <2>3. /\ frame' \in [Sessions -> Frames \cup {NoFrame}]
        /\ inbox' \in [Sessions -> Frames \cup {NoFrame}]
        /\ pc' \in [Sessions -> Stages] /\ next' \in [Sessions -> Nat \ {0}]
        /\ conn' \in [Sessions -> {"up", "eof", "cut", "closed"}]
    BY <1>9 DEF ServerStop
  <2> QED
    BY <1>9, <2>1, <2>2, <2>3 DEF ServerStop
<1>10. ASSUME ServerStart PROVE ControlTypeOK'
  BY <1>10 DEF ServerStart
<1>11. ASSUME UNCHANGED ControlVars PROVE ControlTypeOK'
  BY <1>11 DEF ControlVars
<1> QED
  BY <1>1, <1>2, <1>3, <1>4, <1>5, <1>6, <1>7, <1>8, <1>9, <1>10, <1>11
     DEF ControlNext, ServerNext, HandlerStep

\* A slot listed among the first slots of a frame is listed among more of them.
LEMMA ListedOn ==
  ASSUME NEW f, NEW k, NEW a \in Nat, NEW b \in Nat, a <= b, Listed(f, a - 1, k)
  PROVE  Listed(f, b - 1, k)
<1>1. \A i \in 1 .. a - 1 : i \in 1 .. b - 1
  OBVIOUS
<1> QED
  BY <1>1 DEF Listed

\* When the process stops, no handler is left.
LEMMA StopEndsAll ==
  ASSUME ServerStop
  PROVE  FrameInv' /\ DiskInv'
<1>1. \A s \in Sessions : pc'[s] = "none" /\ frame'[s] = NoFrame /\ next'[s] = 1
  BY DEF ServerStop
<1>2. FrameInv'
  BY <1>1 DEF FrameInv, Registering
<1>3. DiskInv'
  BY <1>1 DEF DiskInv, Persisted
<1> QED
  BY <1>2, <1>3

\* The environment and the process leave handlers alone, or end them all.
LEMMA FrameStep ==
  ControlTypeOK /\ FrameInv /\ [ControlNext]_ControlVars => FrameInv'
<1> SUFFICES ASSUME ControlTypeOK, FrameInv, [ControlNext]_ControlVars
             PROVE  FrameInv'
  OBVIOUS
<1> USE DEF FrameInv, Registering, Goto
<1>1. ASSUME UNCHANGED handlerVars PROVE FrameInv'
  BY <1>1 DEF handlerVars
<1>2. ASSUME NEW s \in Sessions, PeerDial(s) PROVE FrameInv'
  BY <1>2 DEF PeerDial, Fresh, ControlTypeOK
<1>3. ASSUME NEW s \in Sessions, ReadRegister(s) PROVE FrameInv'
  BY <1>3 DEF ReadRegister, Fail, ControlTypeOK
<1>4. ASSUME NEW s \in Sessions,
             PutTunnel(s) \/ RejectSlot(s) \/ ReadFails(s) \/ WriteAck(s) \/ DrainEnds(s)
                \/ Unbind(s)
      PROVE  FrameInv'
  BY <1>4 DEF PutTunnel, RejectSlot, ReadFails, WriteAck, DrainEnds, Unbind, Fail,
              ControlTypeOK
<1>5. ASSUME NEW s \in Sessions, PutSlot(s) PROVE FrameInv'
  BY <1>5 DEF PutSlot, MoreSlots, Fail, ControlTypeOK
<1>6. ASSUME NEW s \in Sessions, BindSlot(s) PROVE FrameInv'
  BY <1>6 DEF BindSlot, ControlTypeOK
<1>7. ASSUME NEW s \in Sessions, Close(s) PROVE FrameInv'
  BY <1>7 DEF Close, ControlTypeOK
<1>8. ASSUME ServerStop PROVE FrameInv'
  <2> HIDE DEF FrameInv
  <2> QED
    BY <1>8, StopEndsAll
<1> QED
  BY <1>1, <1>2, <1>3, <1>4, <1>5, <1>6, <1>7, <1>8
     DEF ControlNext, ServerNext, HandlerStep, PeerSend, PeerRead, PeerHangUp,
         PeerLeave, LinkCut,
         Notice, ServerStart, ControlVars, handlerVars

\* Sidecars are only added, so what a handler has written stays written.
LEMMA DiskStep ==
  ControlTypeOK /\ FrameInv /\ DiskInv /\ [ControlNext]_ControlVars => DiskInv'
<1> SUFFICES ASSUME ControlTypeOK, FrameInv, DiskInv, [ControlNext]_ControlVars
             PROVE  DiskInv'
  OBVIOUS
<1> USE DEF DiskInv, SlotDone, Persisted, Goto
<1>1. ASSUME UNCHANGED <<handlerVars, diskVars>> PROVE DiskInv'
  BY <1>1 DEF handlerVars, diskVars
<1>2. ASSUME NEW s \in Sessions,
             PeerDial(s) \/ ReadFails(s) \/ RejectSlot(s) \/ DrainEnds(s) \/ Unbind(s)
      PROVE  DiskInv'
  BY <1>2 DEF PeerDial, ReadFails, RejectSlot, DrainEnds, Unbind, Fail,
              ControlTypeOK, diskVars
<1>3. ASSUME NEW s \in Sessions, ReadRegister(s) PROVE DiskInv'
  BY <1>3 DEF ReadRegister, Fail, ControlTypeOK, diskVars
<1>4. ASSUME NEW s \in Sessions, PutTunnel(s) PROVE DiskInv'
  <2>1. frame[s] # NoFrame /\ next[s] = 1
    BY <1>4 DEF PutTunnel, FrameInv, Registering
  <2>2. \A i \in 1..Len(frame[s].slots) : ~ (i < 1)
    BY <2>1, CurrentType
  <2>3. CASE pc' = [pc EXCEPT ![s] = "slots"]
    <3>1. /\ tunnels' = tunnels \cup {<<frame[s].owner, frame[s].tunnel>>}
          /\ UNCHANGED <<slots, frame, next>>
      BY <1>4, <2>3 DEF PutTunnel, Fail, ControlTypeOK
    <3>2. tunnels \subseteq tunnels' /\ <<frame[s].owner, frame[s].tunnel>> \in tunnels'
      BY <3>1
    <3>3. pc'[s] = "slots" /\ \A t \in Sessions \ {s} : pc'[t] = pc[t]
      BY <2>3 DEF ControlTypeOK
    <3> QED
      BY <2>1, <2>2, <3>1, <3>2, <3>3
  <2>4. CASE pc' = [pc EXCEPT ![s] = "unbind"] /\ UNCHANGED tunnels
    BY <1>4, <2>4 DEF PutTunnel, ControlTypeOK
  <2> QED
    BY <1>4, <2>3, <2>4 DEF PutTunnel, Fail
<1>5. ASSUME NEW s \in Sessions, PutSlot(s) PROVE DiskInv'
  BY <1>5 DEF PutSlot, MoreSlots, Current, Fail, ControlTypeOK
<1>6. ASSUME NEW s \in Sessions, BindSlot(s) PROVE DiskInv'
  <2>1. next[s] \in Nat
    BY DEF ControlTypeOK
  <2>2. \A i \in 1..Len(frame[s].slots) : i < next[s] + 1 => i < next[s] \/ i = next[s]
    BY <2>1, <1>6, BoundEntry DEF BindSlot
  <2>3. /\ pc[s] = "bind" /\ pc'[s] = "slots" /\ next'[s] = next[s] + 1
        /\ frame' = frame /\ slots' = slots /\ tunnels' = tunnels
        /\ \A t \in Sessions \ {s} : pc'[t] = pc[t] /\ next'[t] = next[t]
    BY <1>6 DEF BindSlot, ControlTypeOK, diskVars
  <2>4. /\ <<frame[s].owner, frame[s].tunnel>> \in tunnels
        /\ \A i \in 1..Len(frame[s].slots) : i < next[s] + 1 => SlotDone(s, i)
    BY <2>2, <2>3
  <2> QED
    BY <2>3, <2>4
<1>7. ASSUME NEW s \in Sessions, WriteAck(s) PROVE DiskInv'
  <2>1. frame[s] # NoFrame
    BY <1>7 DEF WriteAck, FrameInv, Registering
  <2>2. next[s] > Len(frame[s].slots)
    BY <1>7, <2>1, CurrentType DEF WriteAck, MoreSlots, ControlTypeOK
  <2> QED
    BY <1>7, <2>2 DEF WriteAck, ControlTypeOK, diskVars
<1>8. ASSUME NEW s \in Sessions, Close(s) PROVE DiskInv'
  BY <1>8 DEF Close, ControlTypeOK, diskVars
<1>9. ASSUME ServerStop PROVE DiskInv'
  <2> HIDE DEF DiskInv
  <2> QED
    BY <1>9, StopEndsAll
<1> QED
  BY <1>1, <1>2, <1>3, <1>4, <1>5, <1>6, <1>7, <1>8, <1>9
     DEF ControlNext, ServerNext, HandlerStep, PeerSend, PeerRead, PeerHangUp,
         PeerLeave, LinkCut,
         Notice, ServerStart, ControlVars, handlerVars, diskVars

\* Only WriteAck sends an ack, and its handler leaves the drain loop only after
\* the connection is gone.
LEMMA ReplyStep ==
  ControlTypeOK /\ ReplyInv /\ [ControlNext]_ControlVars => ReplyInv'
<1> SUFFICES ASSUME ControlTypeOK, ReplyInv, [ControlNext]_ControlVars
             PROVE  ReplyInv'
  OBVIOUS
<1> USE NoReplyAssumption DEF ReplyInv, Works, Goto, Reply
<1>1. ASSUME UNCHANGED <<pc, conn, client, reply>> PROVE ReplyInv'
  BY <1>1
<1>2. ASSUME NEW s \in Sessions,
             PeerDial(s) \/ PeerRead(s) \/ PeerHangUp(s) \/ PeerLeave(s) \/ Notice(s)
      PROVE  ReplyInv'
  BY <1>2 DEF PeerDial, PeerRead, PeerHangUp, PeerLeave, Notice, Fresh, ControlTypeOK,
              handlerVars
<1>3. ASSUME NEW s \in Sessions, LinkCut(s) PROVE ReplyInv'
  BY <1>3 DEF LinkCut, ControlTypeOK, handlerVars
<1>4. ASSUME NEW s \in Sessions,
             ReadRegister(s) \/ PutTunnel(s) \/ RejectSlot(s) \/ PutSlot(s)
      PROVE  ReplyInv'
  BY <1>4 DEF ReadRegister, PutTunnel, RejectSlot, PutSlot, Fail, Write, ControlTypeOK
<1>5. ASSUME NEW s \in Sessions,
             ReadFails(s) \/ BindSlot(s) \/ DrainEnds(s) \/ Unbind(s) \/ Close(s)
      PROVE  ReplyInv'
  BY <1>5 DEF ReadFails, BindSlot, DrainEnds, Unbind, Close, ControlTypeOK, connVars
<1>6. ASSUME NEW s \in Sessions, WriteAck(s) PROVE ReplyInv'
  BY <1>6 DEF WriteAck, Write, ControlTypeOK
<1>7. ASSUME ServerStop PROVE ReplyInv'
  BY <1>7 DEF ServerStop, ControlTypeOK
<1> QED
  BY <1>1, <1>2, <1>3, <1>4, <1>5, <1>6, <1>7
     DEF ControlNext, ServerNext, HandlerStep, PeerSend, ServerStart, ControlVars,
         handlerVars, connVars

-----------------------------------------------------------------------------
(* The registry.                                                           *)

\* What BoundAsRegistered says of one key.
GoodEntry(k) ==
  m[k] # NoEntry =>
    LET s == m[k].Session IN
    /\ pc[s] \in Active
    /\ frame[s] # NoFrame
    /\ Listed(frame[s], next[s] - 1, k)
    /\ m[k] = EntryOf(frame[s], k[2], s)

\* A binding belongs to a known session, which has read its frame.
LEMMA HolderFacts ==
  ASSUME ControlTypeOK, FrameInv, BoundAsRegistered, NEW k \in Keys, m[k] # NoEntry
  PROVE  /\ m[k] \in Entry
         /\ m[k].Session \in Sessions
         /\ pc[m[k].Session] \in Active \ {"read", "tunnel"}
<1>1. m[k] \in Entry
  BY DEF ControlTypeOK, Table
<1>2. m[k].Session \in Sessions
  BY <1>1 DEF Entry
<1>3. pc[m[k].Session] \in Active /\ Listed(frame[m[k].Session], next[m[k].Session] - 1, k)
  BY DEF BoundAsRegistered
<1>4. next[m[k].Session] # 1
  BY <1>3 DEF Listed
<1> QED
  BY <1>1, <1>2, <1>3, <1>4 DEF FrameInv

\* A step keeps every binding its holder's own.  Bind adds one the loop has just
\* reached; UnbindSession removes all of the handler that stops being active.
LEMMA BoundStep ==
  ControlTypeOK /\ FrameInv /\ DiskInv /\ BoundAsRegistered /\ [ControlNext]_ControlVars
    => BoundAsRegistered'
<1> SUFFICES ASSUME ControlTypeOK, FrameInv, DiskInv, BoundAsRegistered, 
                    [ControlNext]_ControlVars
             PROVE  BoundAsRegistered'
  OBVIOUS
<1>0. BoundAsRegistered' <=> \A k \in Keys : GoodEntry(k)'
  BY DEF BoundAsRegistered, GoodEntry
<1>1. ASSUME UNCHANGED <<m, handlerVars>> PROVE BoundAsRegistered'
  BY <1>1 DEF handlerVars, BoundAsRegistered
<1>2. ASSUME NEW s \in Sessions, m' = m,
             PeerDial(s) \/ ReadRegister(s) \/ Close(s)
      PROVE  BoundAsRegistered'
  <2>1. \A k \in Keys : m[k] # NoEntry => m[k].Session # s
    BY <1>2, HolderFacts DEF PeerDial, Fresh, ReadRegister, Close, Active
  <2>2. \A t \in Sessions \ {s} : pc'[t] = pc[t] /\ frame'[t] = frame[t] /\ next'[t] = next[t]
    BY <1>2 DEF PeerDial, ReadRegister, Fail, Close, Goto, ControlTypeOK
  <2>3. ASSUME NEW k \in Keys, m'[k] # NoEntry PROVE GoodEntry(k)'
    BY <1>2, <2>1, <2>2, <2>3, HolderFacts DEF BoundAsRegistered, GoodEntry
  <2> QED
    BY <1>0, <2>3 DEF GoodEntry
<1>3. ASSUME NEW s \in Sessions, m' = m, UNCHANGED <<frame, next>>,
             \E stage \in Active : Goto(s, stage)
      PROVE  BoundAsRegistered'
  BY <1>3, HolderFacts DEF BoundAsRegistered, Goto, ControlTypeOK
<1>4. ASSUME NEW s \in Sessions, BindSlot(s) PROVE BoundAsRegistered'
  <2> DEFINE e == EntryOf(frame[s], Current(s).name, s)
             bk == <<frame[s].tunnel, Current(s).name>>
  <2>1. e \in Entry /\ next[s] \in 1..Len(frame[s].slots) /\ frame[s] # NoFrame
    BY <1>4, BoundEntry DEF BindSlot
  <2>2. \A k \in Keys : m'[k] = IF k = bk THEN e ELSE m[k]
    BY <1>4, <2>1, BindType DEF BindSlot, EntryOf, ControlTypeOK
  <2>3. /\ pc'[s] = "slots" /\ next'[s] = next[s] + 1
        /\ \A t \in Sessions \ {s} : pc'[t] = pc[t] /\ next'[t] = next[t]
        /\ frame' = frame
    BY <1>4 DEF BindSlot, Goto, ControlTypeOK
  <2>4. Current(s).kind = "http"
    BY <1>4 DEF BindSlot, DiskInv, SlotDone, Current
  <2>5. ASSUME NEW k \in Keys, m'[k] # NoEntry, k = bk PROVE GoodEntry(k)'
    <3>1. m'[k] = e /\ e.Session = s
      BY <2>2, <2>5 DEF EntryOf
    <3>2. k[1] = frame[s].tunnel /\ k[2] = Current(s).name
      BY <2>5
    <3>3. Listed(frame[s], next[s], k)
      BY <2>1, <2>4, <3>2 DEF Listed, Current
    <3>4. next'[s] - 1 = next[s]
      BY <2>1, <2>3
    <3>5. m'[k] = EntryOf(frame'[s], k[2], s)
      BY <2>3, <3>1, <3>2
    <3> QED
      BY <2>1, <2>3, <3>1, <3>3, <3>4, <3>5 DEF GoodEntry, Active
  <2>6. ASSUME NEW k \in Keys, m'[k] # NoEntry, k # bk PROVE GoodEntry(k)'
    <3> DEFINE t == m[k].Session
    <3>1. m'[k] = m[k] /\ m[k] # NoEntry
      BY <2>2, <2>6
    <3>2. t \in Sessions /\ pc[t] \in Active /\ frame[t] # NoFrame
          /\ Listed(frame[t], next[t] - 1, k) /\ m[k] = EntryOf(frame[t], k[2], t)
      BY <3>1, HolderFacts DEF BoundAsRegistered
    <3>3. next[t] \in Nat /\ next'[t] \in Nat /\ next[t] <= next'[t]
      BY <2>3, <3>2 DEF ControlTypeOK
    <3>4. Listed(frame[t], next'[t] - 1, k)
      BY <3>2, <3>3, ListedOn
    <3>5. pc'[t] \in Active /\ frame'[t] = frame[t]
      BY <2>3, <3>2 DEF Active
    <3>6. m'[k].Session = t /\ m'[k] = EntryOf(frame'[t], k[2], t)
      BY <3>1, <3>2, <3>5
    <3> QED
      BY <3>2, <3>4, <3>5, <3>6 DEF GoodEntry
  <2> QED
    BY <1>0, <2>5, <2>6 DEF GoodEntry
<1>5. ASSUME NEW s \in Sessions, Unbind(s) PROVE BoundAsRegistered'
  <2>1. \A k \in Keys : m'[k] = IF HeldBy(m, k, s) THEN NoEntry ELSE m[k]
    BY <1>5, UnbindType DEF Unbind, ControlTypeOK
  <2>2. /\ \A t \in Sessions \ {s} : pc'[t] = pc[t]
        /\ frame' = frame /\ next' = next
    BY <1>5 DEF Unbind, Goto, ControlTypeOK
  <2>3. ASSUME NEW k \in Keys, m'[k] # NoEntry PROVE GoodEntry(k)'
    <3>1. m'[k] = m[k] /\ m[k] # NoEntry /\ m[k].Session # s
      BY <2>1, <2>3 DEF HeldBy
    <3>2. m[k].Session \in Sessions \ {s}
      BY <3>1, HolderFacts
    <3> QED
      BY <2>2, <3>1, <3>2 DEF BoundAsRegistered, GoodEntry
  <2> QED
    BY <1>0, <2>3 DEF GoodEntry
<1>6. ASSUME ServerStop PROVE BoundAsRegistered'
  BY <1>6 DEF ServerStop, New, BoundAsRegistered
<1>7. ASSUME NEW s \in Sessions, PeerDial(s) \/ ReadRegister(s) \/ Close(s)
      PROVE  BoundAsRegistered'
  BY <1>2, <1>7 DEF PeerDial, ReadRegister, Close
<1>8. ASSUME NEW s \in Sessions,
             ReadFails(s) \/ PutTunnel(s) \/ RejectSlot(s) \/ PutSlot(s) \/ WriteAck(s)
                \/ DrainEnds(s)
      PROVE  BoundAsRegistered'
  <2>1. m' = m /\ UNCHANGED <<frame, next>> /\ \E stage \in Active : Goto(s, stage)
    BY <1>8 DEF ReadFails, PutTunnel, RejectSlot, PutSlot, WriteAck, DrainEnds, Fail, Active
  <2> QED
    BY <1>3, <2>1
<1> QED
  BY <1>1, <1>4, <1>5, <1>6, <1>7, <1>8
     DEF ControlNext, ServerNext, HandlerStep, PeerSend, PeerRead, PeerHangUp,
         PeerLeave, LinkCut,
         Notice, ServerStart, ControlVars, handlerVars

\* What is bound was on disk when it was bound, and nothing is ever deleted.
LEMMA PersistedStep ==
  ControlTypeOK /\ FrameInv /\ DiskInv /\ BoundIsPersisted /\ [ControlNext]_ControlVars
    => BoundIsPersisted'
<1> SUFFICES ASSUME ControlTypeOK, FrameInv, DiskInv, BoundIsPersisted,
                    [ControlNext]_ControlVars
             PROVE  BoundIsPersisted'
  OBVIOUS
<1>1. ASSUME m' = m PROVE BoundIsPersisted'
  <2>1. tunnels \subseteq tunnels' /\ slots \subseteq slots'
    BY DEF ControlNext, ServerNext, HandlerStep, PeerDial, PeerSend, PeerRead, PeerHangUp,
           PeerLeave, LinkCut, Notice, ReadRegister, ReadFails, PutTunnel, RejectSlot, PutSlot, BindSlot,
           WriteAck, DrainEnds, Unbind, Close, ServerStop, ServerStart, ControlVars, diskVars
  <2> QED
    BY <1>1, <2>1 DEF BoundIsPersisted
<1>2. ASSUME NEW s \in Sessions, BindSlot(s) PROVE BoundIsPersisted'
  <2> DEFINE e == EntryOf(frame[s], Current(s).name, s)
  <2>1. e \in Entry /\ pc[s] = "bind"
    BY <1>2, BoundEntry DEF BindSlot
  <2>2. \A k \in Keys : m'[k] = IF k = <<frame[s].tunnel, Current(s).name>> THEN e ELSE m[k]
    BY <1>2, <2>1, BindType DEF BindSlot, EntryOf, ControlTypeOK
  <2>3. e.OwnerKey \in tunnels
        /\ <<e.OwnerKey[1], frame[s].tunnel, Current(s).name>> \in slots
    BY <2>1 DEF DiskInv, Persisted, SlotDone, EntryOf, Current
  <2> QED
    BY <1>2, <2>2, <2>3 DEF BindSlot, BoundIsPersisted, diskVars
<1>3. ASSUME NEW s \in Sessions, Unbind(s) PROVE BoundIsPersisted'
  <2>1. m \in Table /\ m' = UnbindSession(m, s) /\ UNCHANGED <<tunnels, slots>>
    BY <1>3 DEF Unbind, ControlTypeOK, diskVars
  <2>2. \A k \in Keys : m'[k] # NoEntry => m'[k] = m[k]
    BY <2>1, UnbindType
  <2> QED
    BY <2>1, <2>2 DEF BoundIsPersisted
<1>4. ASSUME ServerStop PROVE BoundIsPersisted'
  BY <1>4 DEF ServerStop, New, BoundIsPersisted
<1> QED
  BY <1>1, <1>2, <1>3, <1>4
     DEF ControlNext, ServerNext, HandlerStep, PeerDial, PeerSend, PeerRead, PeerHangUp,
         PeerLeave, LinkCut, Notice, ReadRegister, ReadFails, PutTunnel, RejectSlot, PutSlot,
         WriteAck, DrainEnds, Close, ServerStart, ControlVars

\* IInv is inductive, and therefore an invariant.
LEMMA NextIInv == IInv /\ [ControlNext]_ControlVars => IInv'
BY TypeStep, FrameStep, DiskStep, ReplyStep, BoundStep, PersistedStep DEF IInv

\* The induction.
LEMMA Invariance == ControlSpec => []IInv
<1>1. ControlInit => IInv
  BY InitIInv
<1>2. IInv /\ [ControlNext]_ControlVars => IInv'
  BY NextIInv
<1> QED
  BY <1>1, <1>2, PTL DEF ControlSpec

-----------------------------------------------------------------------------

\* Every variable keeps its type: handleControl's state machine.
THEOREM TypeCorrect == ControlSpec => []ControlTypeOK
<1>1. IInv => ControlTypeOK
  BY DEF IInv
<1> QED
  BY <1>1, Invariance, PTL

\* Whatever path handleControl returns by, and however sessions take slots from
\* one another, an entry of the registry belongs to a handler that will still
\* unbind it and repeats what that session's own frame asked for.
THEOREM NoDanglingBinding == ControlSpec => []BoundAsRegistered
<1>1. IInv => BoundAsRegistered
  BY DEF IInv
<1> QED
  BY <1>1, Invariance, PTL

\* A slot that can be reached has its sidecars on disk (handler.go:97-121).
THEOREM BoundOnlyIfPersisted == ControlSpec => []BoundIsPersisted
<1>1. IInv => BoundIsPersisted
  BY DEF IInv
<1> QED
  BY <1>1, Invariance, PTL

\* An ack means that every slot of the frame was accepted and persisted, and
\* the handler stays in its drain loop while the connection works.
THEOREM AckIsComplete == ControlSpec => []AckedStaysServed
<1>1. ASSUME IInv PROVE AckedStaysServed
  <2> SUFFICES ASSUME NEW s \in Sessions, reply[s] = "register_ack", conn[s] = "up"
               PROVE  /\ pc[s] = "drain"
                      /\ \A i \in 1..Len(frame[s].slots) : SlotDone(s, i)
    BY DEF AckedStaysServed, SlotDone
  <2>1. pc[s] = "drain"
    BY <1>1 DEF IInv, ReplyInv
  <2>2. frame[s] # NoFrame /\ ControlTypeOK
    BY <1>1, <2>1 DEF IInv, FrameInv, Registering
  <2>3. next[s] > Len(frame[s].slots) /\ next[s] \in Nat /\ Len(frame[s].slots) \in Nat
    BY <1>1, <2>1, <2>2, CurrentType DEF IInv, DiskInv, ControlTypeOK
  <2>4. \A i \in 1..Len(frame[s].slots) : i < next[s]
    BY <2>3
  <2> QED
    BY <1>1, <2>1, <2>4 DEF IInv, DiskInv, Persisted
<1> QED
  BY <1>1, Invariance, PTL

-----------------------------------------------------------------------------
(* The directory of slots.                                                 *)

\* A step that moves no handler into or out of Active and leaves the registry
\* alone is a stutter of the directory.
LEMMA DirectoryStep ==
  IInv /\ [ControlNext]_ControlVars => [Directory!Next]_(Directory!vars)
<1> SUFFICES ASSUME IInv, [ControlNext]_ControlVars
             PROVE  [Directory!Next]_(Directory!vars)
  OBVIOUS
<1>0. ControlTypeOK /\ FrameInv /\ BoundAsRegistered
  BY DEF IInv
<1> DEFINE D == [k \in Keys |-> SessionOf(k)]
           L == {s \in Sessions : pc[s] \in Active}
<1>1. ASSUME D' = D, L' = L PROVE [Directory!Next]_(Directory!vars)
  BY <1>1 DEF Directory!vars
<1>2. ASSUME m' = m PROVE D' = D
  BY <1>2 DEF SessionOf
<1>3. ASSUME NEW s \in Sessions, PeerDial(s) PROVE Directory!Next
  <2>1. s \notin L /\ L' = L \cup {s} /\ D' = D
    BY <1>0, <1>2, <1>3 DEF PeerDial, Fresh, Active, ControlTypeOK
  <2>2. Directory!Enter(s)
    BY <2>1 DEF Directory!Enter
  <2> QED
    BY <2>2 DEF Directory!Next
<1>4. ASSUME NEW s \in Sessions, BindSlot(s) PROVE Directory!Next
  <2> DEFINE e == EntryOf(frame[s], Current(s).name, s)
             bk == <<frame[s].tunnel, Current(s).name>>
  <2>1. e \in Entry /\ bk \in Keys
    BY <1>0, <1>4, BoundEntry DEF BindSlot, Entry, EntryOf, Keys
  <2>2. \A k \in Keys : m'[k] = IF k = bk THEN e ELSE m[k]
    BY <1>0, <1>4, <2>1, BindType DEF BindSlot, EntryOf, ControlTypeOK
  <2>3. e # NoEntry /\ e.Session = s
    BY <2>1, NoEntryAssumption DEF EntryOf
  <2>4. \A k \in Keys : SessionOf(k)' = IF k = bk THEN s ELSE SessionOf(k)
    BY <2>2, <2>3 DEF SessionOf
  <2>5. D' = [D EXCEPT ![bk] = s]
    BY <2>1, <2>4
  <2>6. s \in L /\ L' = L
    BY <1>0, <1>4 DEF BindSlot, Goto, Active, ControlTypeOK
  <2>7. Directory!Claim(s, bk)
    BY <2>5, <2>6 DEF Directory!Claim
  <2> QED
    BY <2>1, <2>7 DEF Directory!Next
<1>5. ASSUME NEW s \in Sessions, Unbind(s) PROVE Directory!Next
  <2>1. \A k \in Keys : m'[k] = IF HeldBy(m, k, s) THEN NoEntry ELSE m[k]
    BY <1>0, <1>5, UnbindType DEF Unbind, ControlTypeOK
  <2>2. \A k \in Keys : SessionOf(k)' = IF SessionOf(k) = s THEN NoEntry ELSE SessionOf(k)
    BY <2>1, NoEntryAssumption DEF SessionOf, HeldBy
  <2>3. D' = [k \in Keys |-> IF D[k] = s THEN NoEntry ELSE D[k]]
    BY <2>2
  <2>4. s \in L /\ L' = L \ {s}
    BY <1>0, <1>5 DEF Unbind, Goto, Active, ControlTypeOK
  <2>5. Directory!Leave(s)
    BY <2>3, <2>4 DEF Directory!Leave
  <2> QED
    BY <2>5 DEF Directory!Next
<1>6. ASSUME ServerStop PROVE Directory!Next
  <2>1. L' = {} /\ D' = [k \in Keys |-> NoEntry]
    BY <1>6 DEF ServerStop, New, SessionOf, Active
  <2>2. Directory!Reset
    BY <2>1 DEF Directory!Reset
  <2> QED
    BY <2>2 DEF Directory!Next
<1>7. ASSUME NEW s \in Sessions,
             ReadRegister(s) \/ ReadFails(s) \/ PutTunnel(s) \/ RejectSlot(s) \/ PutSlot(s)
               \/ WriteAck(s) \/ DrainEnds(s) \/ Close(s)
      PROVE  D' = D /\ L' = L
  <2>1. m' = m
    BY <1>7 DEF ReadRegister, ReadFails, PutTunnel, RejectSlot, PutSlot, WriteAck,
                DrainEnds, Close
  <2>2. L' = L
    BY <1>0, <1>7 DEF ReadRegister, ReadFails, PutTunnel, RejectSlot, PutSlot, WriteAck,
                DrainEnds, Close, Fail, Goto, Active, ControlTypeOK
  <2> QED
    BY <1>2, <2>1, <2>2
<1>8. ASSUME UNCHANGED <<m, pc>> PROVE D' = D /\ L' = L
  BY <1>2, <1>8
<1> HIDE DEF D, L
<1> QED
  BY <1>1, <1>3, <1>4, <1>5, <1>6, <1>7, <1>8
     DEF ControlNext, ServerNext, HandlerStep, PeerSend, PeerRead, PeerHangUp,
         PeerLeave, LinkCut,
         Notice, ServerStart, ControlVars, handlerVars

\* The control plane implements the directory: sessions enter, claim slots with
\* the last claim winning, and leave with all they hold and nothing else.
THEOREM ControlImplementsDirectory == ControlSpec => ImplementsDirectory
<1>1. ControlInit => Directory!Init
  BY DEF ControlInit, New, Directory!Init, SessionOf, Active
<1>2. IInv /\ [ControlNext]_ControlVars => [Directory!Next]_(Directory!vars)
  BY DirectoryStep
<1> QED
  BY <1>1, <1>2, Invariance, PTL DEF ControlSpec, ImplementsDirectory, Directory!Spec

\* A step that takes a slot from a session is that session's own cleanup,
\* another handler's Bind, or the end of the process.
LEMMA CleanupStep ==
  ASSUME IInv, [ControlNext]_ControlVars, NEW k \in Keys, NEW s \in Sessions,
         HeldBy(m, k, s), ~ HeldBy(m, k, s)'
  PROVE  \/ pc[s] = "unbind" /\ m'[k] = NoEntry
         \/ \E t \in Sessions \ {s} : pc[t] = "bind" /\ HeldBy(m, k, t)'
         \/ ~ up'
<1>0. ControlTypeOK /\ FrameInv
  BY DEF IInv
<1>1. m' # m
  BY DEF HeldBy
<1>2. \/ \E t \in Sessions : BindSlot(t) \/ Unbind(t)
      \/ ServerStop
  BY <1>1 DEF ControlNext, ServerNext, HandlerStep, PeerDial, PeerSend, PeerRead, PeerHangUp,
         PeerLeave, LinkCut, Notice, ReadRegister, ReadFails, PutTunnel, RejectSlot, PutSlot,
         WriteAck, DrainEnds, Close, ServerStart, ControlVars
<1>3. CASE ServerStop
  BY <1>3 DEF ServerStop
<1>4. ASSUME NEW t \in Sessions, Unbind(t) PROVE pc[s] = "unbind" /\ m'[k] = NoEntry
  BY <1>0, <1>4, UnbindType DEF Unbind, HeldBy, ControlTypeOK
<1>5. ASSUME NEW t \in Sessions, BindSlot(t)
      PROVE  \E u \in Sessions \ {s} : pc[u] = "bind" /\ HeldBy(m, k, u)'
  <2> DEFINE e == EntryOf(frame[t], Current(t).name, t)
  <2>1. e \in Entry /\ pc[t] = "bind"
    BY <1>0, <1>5, BoundEntry DEF BindSlot
  <2>2. m'[k] = e \/ m'[k] = m[k]
    BY <1>0, <1>5, <2>1, BindType DEF BindSlot, ControlTypeOK
  <2>3. m'[k] = e /\ e # NoEntry /\ e.Session = t
    BY <2>1, <2>2, NoEntryAssumption DEF HeldBy, EntryOf
  <2>4. HeldBy(m, k, t)' /\ t # s
    BY <2>3 DEF HeldBy
  <2> QED
    BY <2>1, <2>4
<1> QED
  BY <1>2, <1>3, <1>4, <1>5

\* The cleanup of one session never takes down a slot another one holds.
THEOREM CleanupTouchesOnlyOwn == ControlSpec => CleanupOnlyOwn
<1> DEFINE A == \A k \in Keys, s \in Sessions :
                  HeldBy(m, k, s) /\ ~ HeldBy(m, k, s)' =>
                    \/ pc[s] = "unbind" /\ m'[k] = NoEntry
                    \/ \E t \in Sessions \ {s} : pc[t] = "bind" /\ HeldBy(m, k, t)'
                    \/ ~ up'
<1>1. IInv /\ [ControlNext]_ControlVars => [A]_ControlVars
  BY CleanupStep
<1>2. CleanupOnlyOwn <=> [][A]_ControlVars
  BY DEF CleanupOnlyOwn
<1> HIDE DEF A
<1> QED
  BY <1>1, <1>2, Invariance, PTL DEF ControlSpec

-----------------------------------------------------------------------------
(* The handler moves on.                                                   *)

\* The slots the loop of s has still to pass.
SlotsLeft(s) == IF MoreSlots(s) THEN Len(frame[s].slots) - next[s] + 1 ELSE 0

\* The steps the handler of s can still take once it has read its frame: two
\* per slot that is left and one for every other stage that is left.
StepsLeft(s) ==
  CASE pc[s] = "tunnel" -> 2 * SlotsLeft(s) + 5
    [] pc[s] = "slots"  -> 2 * SlotsLeft(s) + 4
    [] pc[s] = "bind"   -> 2 * SlotsLeft(s) + 3
    [] pc[s] = "drain"  -> 3
    [] pc[s] = "unbind" -> 2
    [] pc[s] = "close"  -> 1
    [] OTHER            -> 0

\* The loop passes no more slots than the frame has.
LEMMA SlotsLeftFacts ==
  ASSUME IInv, NEW s \in Sessions, pc[s] \in Registering
  PROVE  SlotsLeft(s) \in 0 .. Len(frame[s].slots) /\ Len(frame[s].slots) \in Nat
<1>1. frame[s] # NoFrame /\ next[s] \in Nat \ {0}
  BY DEF IInv, FrameInv, ControlTypeOK
<1>2. Len(frame[s].slots) \in Nat
  BY <1>1, CurrentType DEF IInv
<1> QED
  BY <1>1, <1>2 DEF SlotsLeft, MoreSlots

\* What a handler has read is a frame with a finite list of slots.
LEMMA FewStepsLeft ==
  ASSUME IInv, NEW s \in Sessions
  PROVE  StepsLeft(s) \in Nat
         /\ (frame[s] # NoFrame => StepsLeft(s) <= 2 * Len(frame[s].slots) + 5)
<1>1. frame[s] # NoFrame => Len(frame[s].slots) \in Nat
  BY CurrentType DEF IInv
<1>2. CASE pc[s] \in {"tunnel", "slots", "bind"}
  <2>1. PICK n : n = SlotsLeft(s)
    OBVIOUS
  <2>2. PICK l : l = Len(frame[s].slots)
    OBVIOUS
  <2>3. n \in 0 .. l /\ l \in Nat
    BY <1>2, <2>1, <2>2, SlotsLeftFacts DEF Registering
  <2>4. StepsLeft(s) \in {2 * n + 3, 2 * n + 4, 2 * n + 5}
    BY <1>2, <2>1 DEF StepsLeft
  <2>5. StepsLeft(s) \in Nat /\ StepsLeft(s) <= 2 * l + 5
    BY <2>3, <2>4
  <2> QED
    BY <2>2, <2>5
<1>3. CASE pc[s] \notin {"tunnel", "slots", "bind"}
  BY <1>1, <1>3 DEF StepsLeft
<1> QED
  BY <1>2, <1>3

\* Every step of the handler brings it nearer to its end.
LEMMA HandlerCounts ==
  ASSUME IInv, NEW s \in Sessions, pc[s] # "read", HandlerStep(s)
  PROVE  StepsLeft(s)' < StepsLeft(s)
<1>0. pc \in [Sessions -> Stages] /\ next \in [Sessions -> Nat \ {0}]
  BY DEF IInv, ControlTypeOK
<1>1. PICK n : n = SlotsLeft(s)
  OBVIOUS
<1>a. pc[s] \in Registering => n \in Nat /\ Len(frame[s].slots) \in Nat
  BY <1>1, SlotsLeftFacts
<1>b. frame' = frame /\ next' = next => n = SlotsLeft(s)'
  BY <1>1 DEF SlotsLeft, MoreSlots
<1>2. CASE Unbind(s) \/ Close(s) \/ DrainEnds(s)
  BY <1>0, <1>2 DEF Unbind, Close, DrainEnds, Goto, StepsLeft
<1>3. CASE PutTunnel(s)
  <2>1. pc[s] = "tunnel" /\ pc'[s] \in {"slots", "unbind"} /\ frame' = frame /\ next' = next
    BY <1>0, <1>3 DEF PutTunnel, Goto, Fail
  <2> QED
    BY <1>1, <1>a, <1>b, <2>1 DEF StepsLeft, Registering
<1>4. CASE RejectSlot(s)
  <2>1. pc[s] = "slots" /\ pc'[s] = "unbind"
    BY <1>0, <1>4 DEF RejectSlot, Goto, Fail
  <2> QED
    BY <1>1, <1>a, <2>1 DEF StepsLeft, Registering
<1>5. CASE PutSlot(s)
  <2>1. pc[s] = "slots" /\ pc'[s] \in {"bind", "unbind"} /\ frame' = frame /\ next' = next
    BY <1>0, <1>5 DEF PutSlot, Goto, Fail
  <2> QED
    BY <1>1, <1>a, <1>b, <2>1 DEF StepsLeft, Registering
<1>6. CASE BindSlot(s)
  <2>1. next[s] <= Len(frame[s].slots)
    BY <1>6 DEF BindSlot, IInv, FrameInv
  <2>2. pc[s] = "bind" /\ pc'[s] = "slots" /\ next'[s] = next[s] + 1 /\ frame' = frame
    BY <1>0, <1>6 DEF BindSlot, Goto
  <2>3. SlotsLeft(s)' = n - 1 /\ n \in Nat
    <3>1. next[s] \in Nat \ {0} /\ Len(frame[s].slots) \in Nat
      BY <1>0, <1>a, <2>2 DEF Registering
    <3>2. n = Len(frame[s].slots) - next[s] + 1
      BY <1>1, <2>1 DEF SlotsLeft, MoreSlots
    <3>3. SlotsLeft(s)' = IF next[s] + 1 <= Len(frame[s].slots)
                            THEN Len(frame[s].slots) - (next[s] + 1) + 1 ELSE 0
      BY <2>2 DEF SlotsLeft, MoreSlots
    <3> QED
      BY <2>1, <3>1, <3>2, <3>3
  <2> QED
    BY <1>1, <2>2, <2>3 DEF StepsLeft
<1>7. CASE WriteAck(s)
  <2>1. pc[s] = "slots" /\ pc'[s] \in {"drain", "unbind"}
    BY <1>0, <1>7 DEF WriteAck, Goto
  <2> QED
    BY <1>1, <1>a, <2>1 DEF StepsLeft, Registering
<1> QED
  BY <1>2, <1>3, <1>4, <1>5, <1>6, <1>7 DEF HandlerStep, ReadRegister, ReadFails

\* Nothing else adds to what is left, and only the end of the process takes away.
LEMMA OthersDoNot ==
  ASSUME IInv, NEW s \in Sessions, pc[s] \notin {"none", "read"}, [ControlNext]_ControlVars,
         ~ HandlerStep(s), up'
  PROVE  pc'[s] = pc[s] /\ frame'[s] = frame[s] /\ next'[s] = next[s]
<1>0. ControlTypeOK
  BY DEF IInv
<1>1. CASE UNCHANGED ControlVars \/ ServerStart
  BY <1>1 DEF ControlVars, handlerVars, ServerStart
<1>2. ~ ServerStop
  BY DEF ServerStop
<1>3. CASE \/ \E t \in Sessions : \/ PeerRead(t) \/ PeerHangUp(t) \/ PeerLeave(t)
                                 \/ LinkCut(t) \/ Notice(t)
           \/ \E t \in Sessions, f \in Frames : PeerSend(t, f)
  BY <1>3 DEF PeerSend, PeerRead, PeerHangUp, PeerLeave, LinkCut, Notice, handlerVars
<1>5. ASSUME NEW t \in Sessions, PeerDial(t)
      PROVE  pc'[s] = pc[s] /\ frame'[s] = frame[s] /\ next'[s] = next[s]
  BY <1>0, <1>5 DEF PeerDial, Fresh, ControlTypeOK
<1>4. ASSUME NEW t \in Sessions, HandlerStep(t)
      PROVE  pc'[s] = pc[s] /\ frame'[s] = frame[s] /\ next'[s] = next[s]
  <2>1. t # s
    BY <1>4
  <2> QED
    BY <1>0, <1>4, <2>1
       DEF HandlerStep, ReadRegister, ReadFails, PutTunnel, RejectSlot, PutSlot, BindSlot,
           WriteAck, DrainEnds, Unbind, Close, Fail, Goto, ControlTypeOK
<1> QED
  BY <1>1, <1>2, <1>3, <1>4, <1>5 DEF ControlNext, ServerNext

\* A handler that has read its frame is finite: each of its steps, whichever
\* return it takes, leaves fewer to take, at most two per slot and five more, and
\* no peer, other handler or fault ever adds one.  What can keep it is waiting
\* for its control stream to end, never a loop.
THEOREM HandlerIsFinite ==
  ControlSpec =>
    /\ [](\A s \in Sessions :
            StepsLeft(s) \in Nat
            /\ (frame[s] # NoFrame => StepsLeft(s) <= 2 * Len(frame[s].slots) + 5))
    /\ [][\A s \in Sessions : pc[s] \notin {"none", "read"} =>
            /\ HandlerStep(s) => StepsLeft(s)' < StepsLeft(s)
            /\ ~ HandlerStep(s) /\ up' => StepsLeft(s)' = StepsLeft(s)]_ControlVars
<1> DEFINE Few == \A s \in Sessions :
                    StepsLeft(s) \in Nat
                    /\ (frame[s] # NoFrame => StepsLeft(s) <= 2 * Len(frame[s].slots) + 5)
           Fewer == \A s \in Sessions : pc[s] \notin {"none", "read"} =>
                      /\ HandlerStep(s) => StepsLeft(s)' < StepsLeft(s)
                      /\ ~ HandlerStep(s) /\ up' => StepsLeft(s)' = StepsLeft(s)
<1>1. IInv => Few
  BY FewStepsLeft
<1>2. IInv /\ [ControlNext]_ControlVars => [Fewer]_ControlVars
  <2> SUFFICES ASSUME IInv, [ControlNext]_ControlVars, NEW s \in Sessions,
                      pc[s] \notin {"none", "read"}, ~ HandlerStep(s), up'
               PROVE  StepsLeft(s)' = StepsLeft(s)
    BY HandlerCounts
  <2> QED
    BY OthersDoNot DEF StepsLeft, SlotsLeft, MoreSlots
<1> HIDE DEF Few, Fewer
<1>3. ControlSpec => []Few /\ [][Fewer]_ControlVars
  BY <1>1, <1>2, Invariance, PTL DEF ControlSpec
<1> QED
  BY <1>3 DEF Few, Fewer

-----------------------------------------------------------------------------
(* Without takeovers.                                                      *)

\* What Bind replaces, if anything, is an entry of the same session.
KeepsHolderAt(k) ==
  m[k] # NoEntry /\ m'[k] # NoEntry => m'[k].Session = m[k].Session
KeepsHolder == \A k \in Keys : KeepsHolderAt(k)

\* Bind never returns the entry of another session.
NoTakeover == [][KeepsHolder]_m

\* A handler whose loop has passed slot k holds it.
HeldAt(k) ==
  \A s \in Sessions : pc[s] \in Persisted =>
    \A i \in 1..Len(frame[s].slots) :
      i < next[s] /\ key(frame[s].tunnel, frame[s].slots[i].name) = k => HeldBy(m, k, s)
HeldInv == \A k \in Keys : HeldAt(k)

\* What Bind does to the table.
LEMMA BindEffect ==
  ASSUME IInv, NEW t \in Sessions, BindSlot(t)
  PROVE  LET bk == key(frame[t].tunnel, Current(t).name) IN
         /\ bk \in Keys
         /\ HeldBy(m', bk, t)
         /\ \A k \in Keys \ {bk} : m'[k] = m[k]
<1> DEFINE e == EntryOf(frame[t], Current(t).name, t)
           bk == key(frame[t].tunnel, Current(t).name)
<1>1. e \in Entry /\ m \in Table
  BY BoundEntry DEF BindSlot, IInv, ControlTypeOK
<1>2. e.Tunnel = frame[t].tunnel /\ e.Slot = Current(t).name /\ e.Session = t
  BY DEF EntryOf
<1>3. bk \in Keys
  BY <1>1, <1>2 DEF Entry, key, Keys
<1>4. \A k \in Keys : m'[k] = IF k = bk THEN e ELSE m[k]
  BY <1>1, <1>2, BindType DEF BindSlot, key
<1>5. HeldBy(m', bk, t)
  BY <1>1, <1>2, <1>3, <1>4, NoEntryAssumption DEF HeldBy
<1> QED
  BY <1>3, <1>4, <1>5

\* At slot k a handler that registers is only disturbed by another one's Bind of
\* that very slot.
LEMMA HeldStep ==
  ASSUME IInv, NEW k \in Keys, HeldAt(k), [ControlNext]_ControlVars, [KeepsHolderAt(k)]_m
  PROVE  HeldAt(k)'
<1>0. ControlTypeOK /\ FrameInv
  BY DEF IInv
<1> SUFFICES ASSUME NEW s \in Sessions, pc'[s] \in Persisted,
                    NEW i \in 1..Len(frame'[s].slots), i < next'[s],
                    key(frame'[s].tunnel, frame'[s].slots[i].name) = k
             PROVE  HeldBy(m', k, s)
  BY DEF HeldAt, HeldBy, key
<1>1. \/ m' = m
      \/ \E t \in Sessions : BindSlot(t) \/ Unbind(t)
      \/ ServerStop
  BY DEF ControlNext, ServerNext, HandlerStep, PeerDial, PeerSend, PeerRead, PeerHangUp,
         PeerLeave, LinkCut, Notice, ReadRegister, ReadFails, PutTunnel, RejectSlot, PutSlot,
         WriteAck, DrainEnds, Close, ServerStart, ControlVars
<1>2. \/ pc[s] \in Persisted /\ UNCHANGED <<frame[s], next[s]>>
      \/ next'[s] = 1
      \/ BindSlot(s)
  BY <1>0
     DEF ControlNext, ServerNext, ServerStop, HandlerStep, PeerDial, PeerSend, PeerRead,
         PeerHangUp, PeerLeave, LinkCut, Notice, ReadRegister, ReadFails, PutTunnel,
         RejectSlot, PutSlot,
         BindSlot, WriteAck, DrainEnds, Unbind, Close, Fail, Goto, ServerStart, ControlVars,
         handlerVars, Persisted, FrameInv, ControlTypeOK
<1>3. next'[s] # 1
  BY <1>0, TypeStep DEF ControlTypeOK
<1>4. CASE BindSlot(s)
  <2>1. pc[s] = "bind" /\ frame' = frame /\ next'[s] = next[s] + 1
    BY <1>0, <1>4 DEF BindSlot, ControlTypeOK
  <2>2. CASE i = next[s]
    BY <1>4, <2>1, <2>2, BindEffect DEF Current
  <2>3. CASE i < next[s]
    <3>1. HeldBy(m, k, s)
      BY <2>1, <2>3 DEF HeldAt, Persisted
    <3> QED
      BY <1>4, <3>1, BindEffect DEF HeldBy
  <2> QED
    BY <1>0, <2>1, <2>2, <2>3 DEF ControlTypeOK
<1>5. CASE ~ BindSlot(s)
  <2>1. pc[s] \in Persisted /\ UNCHANGED <<frame[s], next[s]>>
    BY <1>2, <1>3, <1>5
  <2>2. HeldBy(m, k, s)
    BY <2>1 DEF HeldAt
  <2>3. CASE m' = m
    BY <2>2, <2>3 DEF HeldBy
  <2>4. ASSUME NEW t \in Sessions, BindSlot(t) PROVE HeldBy(m', k, s)
    BY <2>2, <2>4, BindEffect DEF KeepsHolderAt, HeldBy
  <2>5. ASSUME NEW t \in Sessions, Unbind(t) PROVE HeldBy(m', k, s)
    <3>1. t # s
      BY <1>0, <2>5 DEF Unbind, Goto, Persisted, ControlTypeOK
    <3>2. m'[k] = IF HeldBy(m, k, t) THEN NoEntry ELSE m[k]
      BY <1>0, <2>5, UnbindType DEF Unbind, ControlTypeOK
    <3> QED
      BY <2>2, <3>1, <3>2 DEF HeldBy
  <2>6. ~ ServerStop
    BY DEF ServerStop, Persisted
  <2> QED
    BY <1>1, <2>3, <2>4, <2>5, <2>6
<1> QED
  BY <1>4, <1>5

\* No handler is in its loop at the start.
LEMMA InitHeld == ControlInit => HeldInv
  BY DEF ControlInit, HeldInv, HeldAt, Persisted

\* The induction, at every slot.
LEMMA HeldInvariance == ControlSpec /\ NoTakeover => [](IInv /\ HeldInv)
<1>1. IInv /\ HeldInv /\ [ControlNext]_ControlVars /\ [KeepsHolder]_m => HeldInv'
  <2> SUFFICES ASSUME IInv, HeldInv, [ControlNext]_ControlVars, [KeepsHolder]_m,
                      NEW k \in Keys
               PROVE  HeldAt(k)'
    BY DEF HeldInv
  <2>1. HeldAt(k) /\ [KeepsHolderAt(k)]_m
    BY DEF HeldInv, KeepsHolder
  <2> QED
    BY <2>1, HeldStep
<1> QED
  BY <1>1, InitHeld, Invariance, PTL DEF ControlSpec, NoTakeover

\* In its drain loop a handler holds the slots of its frame.
LEMMA DrainHolds ==
  ASSUME IInv, NEW s \in Sessions, pc[s] = "drain", NEW i \in 1..Len(frame[s].slots),
         NEW k \in Keys, HeldAt(k), k = key(frame[s].tunnel, frame[s].slots[i].name)
  PROVE  HeldBy(m, k, s)
<1>1. frame[s] # NoFrame /\ ControlTypeOK
  BY DEF IInv, FrameInv, Registering
<1>2. next[s] > Len(frame[s].slots) /\ next[s] \in Nat /\ Len(frame[s].slots) \in Nat
  BY <1>1, CurrentType DEF IInv, DiskInv, ControlTypeOK
<1>3. i < next[s]
  BY <1>2
<1> QED
  BY <1>3 DEF HeldAt, Persisted

\* The slots of a handler's frame are keys of the table.
LEMMA DrainKey ==
  ASSUME IInv, NEW s \in Sessions, pc[s] = "drain", NEW i \in 1..Len(frame[s].slots)
  PROVE  key(frame[s].tunnel, frame[s].slots[i].name) \in Keys
<1>1. frame[s] # NoFrame /\ ControlTypeOK
  BY DEF IInv, FrameInv, Registering
<1> QED
  BY <1>1, CurrentType DEF key, Keys

\* As long as no Bind replaces another session's entry, an ack over a working
\* connection means that every slot of the frame leads to that session: the
\* entry that Bind returns and handler.go:121 drops is the only way to lose one.
THEOREM AckMeansBound ==
  ControlSpec /\ NoTakeover =>
    [](\A s \in Sessions : reply[s] = "register_ack" /\ conn[s] = "up" =>
         \A i \in 1..Len(frame[s].slots) :
           HeldBy(m, key(frame[s].tunnel, frame[s].slots[i].name), s))
<1> DEFINE Bound == \A s \in Sessions : reply[s] = "register_ack" /\ conn[s] = "up" =>
                      \A i \in 1..Len(frame[s].slots) :
                        HeldBy(m, key(frame[s].tunnel, frame[s].slots[i].name), s)
<1>1. IInv /\ HeldInv => Bound
  <2> SUFFICES ASSUME IInv, HeldInv, NEW s \in Sessions, reply[s] = "register_ack",
                      conn[s] = "up", NEW i \in 1..Len(frame[s].slots)
               PROVE  HeldBy(m, key(frame[s].tunnel, frame[s].slots[i].name), s)
    OBVIOUS
  <2>1. pc[s] = "drain"
    BY DEF IInv, ReplyInv
  <2>2. key(frame[s].tunnel, frame[s].slots[i].name) \in Keys
    BY <2>1, DrainKey
  <2> QED
    BY <2>1, <2>2, DrainHolds DEF HeldInv
<1> HIDE DEF Bound
<1>2. ControlSpec /\ NoTakeover => []Bound
  BY <1>1, HeldInvariance, PTL
<1> QED
  BY <1>2 DEF Bound

\* If the handlers of slot k take turns, Bind never takes it over.
LEMMA TurnStep ==
  ASSUME IInv, NEW k \in Keys, TurnsAt(k), [ControlNext]_ControlVars
  PROVE  [KeepsHolderAt(k)]_m
<1>0. ControlTypeOK /\ FrameInv /\ BoundAsRegistered
  BY DEF IInv
<1> SUFFICES ASSUME m' # m, m[k] # NoEntry, m'[k] # NoEntry
             PROVE  m'[k].Session = m[k].Session
  BY DEF KeepsHolderAt
<1>1. \/ \E t \in Sessions : BindSlot(t) \/ Unbind(t)
      \/ ServerStop
  BY DEF ControlNext, ServerNext, HandlerStep, PeerDial, PeerSend, PeerRead, PeerHangUp,
         PeerLeave, LinkCut, Notice, ReadRegister, ReadFails, PutTunnel, RejectSlot, PutSlot,
         WriteAck, DrainEnds, Close, ServerStart, ControlVars
<1>2. ASSUME NEW t \in Sessions, BindSlot(t) PROVE m'[k].Session = m[k].Session
  <2> DEFINE bk == key(frame[t].tunnel, Current(t).name)
  <2>1. CASE k = bk
    <3>1. pc[t] = "bind" /\ frame[t] # NoFrame /\ next[t] \in 1..Len(frame[t].slots)
      BY <1>0, <1>2, BoundEntry DEF BindSlot
    <3>2. Serves(t, k)
      BY <2>1, <3>1 DEF Serves, key, Current
    <3>3. m[k].Session \in Sessions /\ Serves(m[k].Session, k)
      <4>1. m[k].Session \in Sessions /\ pc[m[k].Session] \in Active \ {"read", "tunnel"}
        BY <1>0, HolderFacts
      <4>2. frame[m[k].Session] # NoFrame
            /\ Listed(frame[m[k].Session], next[m[k].Session] - 1, k)
        BY <1>0 DEF BoundAsRegistered
      <4>3. next[m[k].Session] \in Nat /\ Len(frame[m[k].Session].slots) \in Nat
        BY <1>0, <4>1, <4>2, CurrentType DEF ControlTypeOK
      <4> QED
        BY <4>1, <4>2, <4>3 DEF Serves, Listed, Active
    <3>4. m[k].Session = t
      BY <3>2, <3>3 DEF TurnsAt
    <3> QED
      BY <1>2, <2>1, <3>4, BindEffect DEF HeldBy
  <2>2. CASE k # bk
    BY <1>2, <2>2, BindEffect
  <2> QED
    BY <2>1, <2>2
<1>3. ASSUME NEW t \in Sessions, Unbind(t) PROVE m'[k].Session = m[k].Session
  BY <1>0, <1>3, UnbindType DEF Unbind, ControlTypeOK
<1>4. ~ ServerStop
  BY DEF ServerStop, New
<1> QED
  BY <1>1, <1>2, <1>3, <1>4

\* Turns are enough: no two handlers of one slot at a time, no takeover.
THEOREM TurnsMeanNoTakeover == ControlSpec /\ []TakeTurns => NoTakeover
<1>1. IInv /\ TakeTurns /\ [ControlNext]_ControlVars => [KeepsHolder]_m
  BY TurnStep DEF TakeTurns, KeepsHolder
<1> QED
  BY <1>1, Invariance, PTL DEF ControlSpec, NoTakeover

\* A slot is a matter of its own handlers: where those of k take turns, k's entry
\* is that of the acknowledged handler that lists it, whatever the handlers of
\* all the other slots do to theirs, of the same tunnel and the same frame too.
THEOREM SlotsAreIndependent ==
  ASSUME NEW k \in Keys
  PROVE  ControlSpec /\ []TurnsAt(k) =>
           [](\A s \in Sessions : reply[s] = "register_ack" /\ conn[s] = "up" =>
                \A i \in 1..Len(frame[s].slots) :
                  key(frame[s].tunnel, frame[s].slots[i].name) = k => HeldBy(m, k, s))
<1> DEFINE Bound == \A s \in Sessions : reply[s] = "register_ack" /\ conn[s] = "up" =>
                      \A i \in 1..Len(frame[s].slots) :
                        key(frame[s].tunnel, frame[s].slots[i].name) = k => HeldBy(m, k, s)
<1>1. ControlInit => HeldAt(k)
  BY InitHeld DEF HeldInv
<1>2. IInv /\ TurnsAt(k) /\ HeldAt(k) /\ [ControlNext]_ControlVars => HeldAt(k)'
  BY TurnStep, HeldStep
<1>3. IInv /\ HeldAt(k) => Bound
  BY DrainHolds DEF IInv, ReplyInv
<1> HIDE DEF Bound
<1>4. ControlSpec /\ []TurnsAt(k) => []Bound
  BY <1>1, <1>2, <1>3, Invariance, PTL DEF ControlSpec
<1> QED
  BY <1>4 DEF Bound
=============================================================================
