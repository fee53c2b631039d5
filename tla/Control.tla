------------------------------ MODULE Control ------------------------------
(***************************************************************************)
(* The control plane of the server, internal/control/handler.go: one       *)
(* goroutine runs handleControl for every connected client, all of them    *)
(* share the registry and the store.                                       *)
(*                                                                         *)
(* pc[s] is where the handler of session s stands; a step ends where the   *)
(* code touches something another goroutine can see (a file, the registry, *)
(* the connection).  A session identifier is reused once neither a handler *)
(* nor a client refers to it, as the memory of a session is, so the number *)
(* of reconnects is not bounded.                                           *)
(***************************************************************************)
EXTENDS Registry, Naturals, Sequences

CONSTANTS
  Frames,      \* first frames a client can send on the control stream
  NoFrame,     \* nothing sent, or nothing read
  NoReply,     \* nothing on its way to the client
  DiskFaults,  \* TRUE: a write to the store may fail
  LinkFaults   \* TRUE: a connection may break under both ends

Slot == [name: SlotNames, kind: {"http", "tcp", "other"}]

\* type "garbage" stands for a line that json.Unmarshal refuses.
Frame == [type: {"register", "other", "garbage"}, owner: Owners,
          tunnel: Tunnels, slots: Seq(Slot)]

ASSUME FramesAssumption == Frames \subseteq Frame /\ NoFrame \notin Frame
ASSUME FaultsAssumption == DiskFaults \in BOOLEAN /\ LinkFaults \in BOOLEAN

Reply == {"register_ack", "bad_frame", "bad_name", "store", "unsupported",
          "bad_kind"}
ASSUME NoReplyAssumption == NoReply \notin Reply

VARIABLES
  up,       \* the server process runs
  m,        \* the registry
  tunnels,  \* sidecars tunnel.md on disk, as <<owner, tunnel>>
  slots,    \* sidecars slots/<slot>.md on disk, as <<owner, tunnel, slot>>
  pc,       \* where the handler of each session stands
  frame,    \* the register frame the handler works on
  next,     \* index into the frame's slots: the loop variable
  conn,     \* "up"; "eof": the peer has closed the control stream only;
            \* "cut": broken, unnoticed by the server; "closed"
  client,   \* a client process holds the other end
  inbox,    \* the frame on its way from the client
  reply     \* the frame on its way to the client

diskVars    == <<tunnels, slots>>
handlerVars == <<pc, frame, next>>
connVars    == <<conn, client, inbox, reply>>
ControlVars == <<up, m, tunnels, slots, pc, frame, next, conn, client, inbox,
                 reply>>

\* Handlers that have not yet run their deferred UnbindSession.
Active == {"read", "tunnel", "slots", "bind", "drain", "unbind"}
Stages == Active \cup {"none", "close"}

ControlTypeOK ==
  /\ up \in BOOLEAN
  /\ m \in Table
  /\ tunnels \subseteq Owners \X Tunnels
  /\ slots \subseteq Owners \X Tunnels \X SlotNames
  /\ pc \in [Sessions -> Stages]
  /\ frame \in [Sessions -> Frames \cup {NoFrame}]
  /\ next \in [Sessions -> Nat \ {0}]
  /\ conn \in [Sessions -> {"up", "eof", "cut", "closed"}]
  /\ client \in [Sessions -> BOOLEAN]
  /\ inbox \in [Sessions -> Frames \cup {NoFrame}]
  /\ reply \in [Sessions -> Reply \cup {NoReply}]

ControlInit ==
  /\ up = TRUE
  /\ m = New
  /\ tunnels = {}
  /\ slots = {}
  /\ pc = [s \in Sessions |-> "none"]
  /\ frame = [s \in Sessions |-> NoFrame]
  /\ next = [s \in Sessions |-> 1]
  /\ conn = [s \in Sessions |-> "closed"]
  /\ client = [s \in Sessions |-> FALSE]
  /\ inbox = [s \in Sessions |-> NoFrame]
  /\ reply = [s \in Sessions |-> NoReply]

-----------------------------------------------------------------------------
(* The connection and the client's end of it.                              *)

Fresh(s) == pc[s] = "none" /\ ~client[s]

\* What either end writes to session s reaches the other.
Works(s) == conn[s] \in {"up", "eof"}

\* A client dials; Accept and yamux.Server succeed and the handler starts.
PeerDial(s) ==
  /\ up
  /\ Fresh(s)
  /\ pc' = [pc EXCEPT ![s] = "read"]
  /\ conn' = [conn EXCEPT ![s] = "up"]
  /\ client' = [client EXCEPT ![s] = TRUE]
  /\ UNCHANGED <<up, m, diskVars, frame, next, inbox, reply>>

\* It opens the control stream and writes its first frame.
PeerSend(s, f) ==
  /\ conn[s] = "up" /\ client[s]
  /\ pc[s] = "read" /\ inbox[s] = NoFrame
  /\ inbox' = [inbox EXCEPT ![s] = f]
  /\ UNCHANGED <<up, m, diskVars, handlerVars, conn, client, reply>>

\* It reads the server's answer.
PeerRead(s) ==
  /\ client[s] /\ reply[s] # NoReply
  /\ reply' = [reply EXCEPT ![s] = NoReply]
  /\ UNCHANGED <<up, m, diskVars, handlerVars, conn, client, inbox>>

\* It closes the control stream and keeps the session: what it has sent comes
\* before the end of the stream, and it can still read the answer.
PeerHangUp(s) ==
  /\ client[s] /\ conn[s] = "up"
  /\ conn' = [conn EXCEPT ![s] = "eof"]
  /\ UNCHANGED <<up, m, diskVars, handlerVars, client, inbox, reply>>

\* The client closes its end, or its process dies.  What it has sent still
\* arrives, what was on the way to it does not.
PeerLeave(s) ==
  /\ client[s]
  /\ client' = [client EXCEPT ![s] = FALSE]
  /\ conn' = [conn EXCEPT ![s] = IF Works(s) THEN "cut" ELSE @]
  /\ reply' = [reply EXCEPT ![s] = NoReply]
  /\ UNCHANGED <<up, m, diskVars, handlerVars, inbox>>

\* The connection breaks; frames on their way may or may not have arrived.
LinkCut(s) ==
  /\ LinkFaults /\ Works(s)
  /\ conn' = [conn EXCEPT ![s] = "cut"]
  /\ \E f \in {inbox[s], NoFrame} : inbox' = [inbox EXCEPT ![s] = f]
  /\ \E r \in {reply[s], NoReply} : reply' = [reply EXCEPT ![s] = r]
  /\ UNCHANGED <<up, m, diskVars, handlerVars, client>>

\* yamux meets a read error, or its keep-alive gets no answer: it closes the
\* session, and whatever the handler is doing goes on until it uses it.
Notice(s) ==
  /\ conn[s] = "cut"
  /\ conn' = [conn EXCEPT ![s] = "closed"]
  /\ UNCHANGED <<up, m, diskVars, handlerVars, client, inbox, reply>>

-----------------------------------------------------------------------------
(* handleControl, step by step.                                            *)

Goto(s, stage) == pc' = [pc EXCEPT ![s] = stage]

\* writeFrame on the control stream: lost unless the connection works.
Write(s, r) == reply' = [reply EXCEPT ![s] = IF Works(s) THEN r ELSE @]

\* Mutants of Fail: the return misses the deferred calls; it sends no frame.
FailWithoutUnbind(s, code) == Write(s, code) /\ Goto(s, "close")
FailSilently(s, code) == Goto(s, "unbind") /\ UNCHANGED reply

\* writeError, its result ignored, and return: the deferred calls are next.
Fail(s, code) == Write(s, code) /\ Goto(s, "unbind")

\* The frame's slot at the loop variable.
Current(s) == frame[s].slots[next[s]]

\* Mutant of MoreSlots: the loop ends one slot early.
MoreSlotsOffByOne(s) == next[s] < Len(frame[s].slots)

MoreSlots(s) == next[s] <= Len(frame[s].slots)

\* AcceptStream, ReadBytes, Unmarshal and the checks before the store.  Bytes
\* that came in before the session closed can still be read.
ReadRegister(s) ==
  LET f == inbox[s] IN
  /\ pc[s] = "read" /\ f # NoFrame
  /\ inbox' = [inbox EXCEPT ![s] = NoFrame]
  /\ frame' = [frame EXCEPT ![s] = f]
  /\ \/ /\ f.type # "register"
        /\ Fail(s, "bad_frame")
     \/ /\ f.type = "register"
        /\ ~ (ValidateName(f.owner) /\ ValidateName(f.tunnel))
        /\ Fail(s, "bad_name")
     \/ /\ f.type = "register"
        /\ ValidateName(f.owner) /\ ValidateName(f.tunnel)
        /\ Goto(s, "tunnel")
        /\ UNCHANGED reply
  /\ UNCHANGED <<up, m, diskVars, next, conn, client>>

\* AcceptStream or ReadBytes returns an error: return without a frame.
ReadFails(s) ==
  /\ pc[s] = "read"
  /\ conn[s] = "closed" \/ (conn[s] = "eof" /\ inbox[s] = NoFrame)
  /\ Goto(s, "unbind")
  /\ UNCHANGED <<up, m, diskVars, frame, next, connVars>>

PutTunnel(s) ==
  /\ pc[s] = "tunnel"
  /\ \/ /\ tunnels' = tunnels \cup {<<frame[s].owner, frame[s].tunnel>>}
        /\ Goto(s, "slots")
        /\ UNCHANGED reply
     \/ /\ DiskFaults
        /\ Fail(s, "store")
        /\ UNCHANGED tunnels
  /\ UNCHANGED <<up, m, slots, frame, next, conn, client, inbox>>

\* A slot the handler refuses; slots before it in the frame stay bound until
\* the deferred UnbindSession.
RejectSlot(s) ==
  /\ pc[s] = "slots" /\ MoreSlots(s)
  /\ \/ ~ ValidateName(Current(s).name) /\ Fail(s, "bad_name")
     \/ /\ ValidateName(Current(s).name) /\ Current(s).kind # "http"
        /\ Fail(s, IF Current(s).kind = "tcp" THEN "unsupported" ELSE "bad_kind")
  /\ UNCHANGED <<up, m, diskVars, frame, next, conn, client, inbox>>

\* Mutant of PutSlot: the store's error is dropped.
PutSlotIgnoringError(s) ==
  /\ pc[s] = "slots" /\ MoreSlots(s)
  /\ ValidateName(Current(s).name) /\ Current(s).kind = "http"
  /\ \/ slots' = slots \cup
            {<<frame[s].owner, frame[s].tunnel, Current(s).name>>}
     \/ DiskFaults /\ UNCHANGED slots
  /\ Goto(s, "bind")
  /\ UNCHANGED <<up, m, tunnels, frame, next, conn, client, inbox, reply>>

PutSlot(s) ==
  /\ pc[s] = "slots" /\ MoreSlots(s)
  /\ ValidateName(Current(s).name) /\ Current(s).kind = "http"
  /\ \/ /\ slots' = slots \cup
             {<<frame[s].owner, frame[s].tunnel, Current(s).name>>}
        /\ Goto(s, "bind")
        /\ UNCHANGED reply
     \/ /\ DiskFaults
        /\ Fail(s, "store")
        /\ UNCHANGED slots
  /\ UNCHANGED <<up, m, tunnels, frame, next, conn, client, inbox>>

\* Mutant of EntryOf: tunnel and owner change places.
EntryOfSwapped(f, n, s) ==
  [Tunnel |-> f.tunnel, Slot |-> n, Session |-> s,
   OwnerKey |-> <<f.tunnel, f.owner>>]

\* The entry of frame f's slot n for session s.
EntryOf(f, n, s) ==
  [Tunnel |-> f.tunnel, Slot |-> n, Session |-> s,
   OwnerKey |-> <<f.owner, f.tunnel>>]

\* reg.Bind: whoever held the slot loses it, its session is not closed.
BindSlot(s) ==
  /\ pc[s] = "bind"
  /\ m' = Bind(m, EntryOf(frame[s], Current(s).name, s))
  /\ next' = [next EXCEPT ![s] = @ + 1]
  /\ Goto(s, "slots")
  /\ UNCHANGED <<up, diskVars, frame, connVars>>

WriteAck(s) ==
  /\ pc[s] = "slots" /\ ~ MoreSlots(s)
  /\ Write(s, "register_ack")
  /\ Goto(s, IF conn[s] = "closed" THEN "unbind" ELSE "drain")
  /\ UNCHANGED <<up, m, diskVars, frame, next, conn, client, inbox>>

\* Mutant of DrainEnds: the loop goes on after a read error.
DrainGoesOn(s) ==
  pc[s] = "drain" /\ conn[s] \in {"eof", "closed"} /\ UNCHANGED ControlVars

\* The control stream ends, with its session or alone: ReadBytes returns an
\* error.
DrainEnds(s) ==
  /\ pc[s] = "drain" /\ conn[s] \in {"eof", "closed"}
  /\ Goto(s, "unbind")
  /\ UNCHANGED <<up, m, diskVars, frame, next, connVars>>

\* The deferred calls, last one first: UnbindSession, then sess.Close.
Unbind(s) ==
  /\ pc[s] = "unbind"
  /\ m' = UnbindSession(m, s)
  /\ Goto(s, "close")
  /\ UNCHANGED <<up, diskVars, frame, next, connVars>>

Close(s) ==
  /\ pc[s] = "close"
  /\ Goto(s, "none")
  /\ conn' = [conn EXCEPT ![s] = "closed"]
  /\ inbox' = [inbox EXCEPT ![s] = NoFrame]
  /\ frame' = [frame EXCEPT ![s] = NoFrame]
  /\ next' = [next EXCEPT ![s] = 1]
  /\ UNCHANGED <<up, m, diskVars, client, reply>>

HandlerStep(s) ==
  \/ ReadRegister(s) \/ ReadFails(s)
  \/ PutTunnel(s)
  \/ RejectSlot(s) \/ PutSlot(s) \/ BindSlot(s)
  \/ WriteAck(s) \/ DrainEnds(s)
  \/ Unbind(s) \/ Close(s)

-----------------------------------------------------------------------------
(* The process.  A stop and a crash are the same here: main calls Shutdown *)
(* with a context that is already cancelled and returns, so no handler     *)
(* runs its deferred calls.  The store survives.                           *)

ServerStop ==
  /\ up
  /\ up' = FALSE
  /\ m' = New
  /\ pc' = [s \in Sessions |-> "none"]
  /\ frame' = [s \in Sessions |-> NoFrame]
  /\ next' = [s \in Sessions |-> 1]
  /\ conn' = [s \in Sessions |-> "closed"]
  /\ inbox' = [s \in Sessions |-> NoFrame]
  /\ \E lost \in SUBSET {s \in Sessions : reply[s] # NoReply} :
       reply' = [s \in Sessions |-> IF s \in lost THEN NoReply ELSE reply[s]]
  /\ UNCHANGED <<diskVars, client>>

ServerStart ==
  /\ ~ up
  /\ up' = TRUE
  /\ UNCHANGED <<m, diskVars, handlerVars, connVars>>

ServerNext ==
  \/ \E s \in Sessions : Notice(s) \/ HandlerStep(s)
  \/ ServerStart

ControlNext ==
  \/ ServerNext
  \/ ServerStop
  \/ \E s \in Sessions : \/ PeerDial(s) \/ PeerRead(s) \/ PeerHangUp(s)
                         \/ PeerLeave(s) \/ LinkCut(s)
  \/ \E s \in Sessions, f \in Frames : PeerSend(s, f)

\* The Go scheduler runs every goroutine that can run, and yamux's keep-alive
\* detects a dead connection: of the two, one goes on as long as one can.  Nothing
\* is assumed of clients, which may stay silent or hang up, nor of the disk.
ServerFairness == \A s \in Sessions : WF_ControlVars(Notice(s) \/ HandlerStep(s))

ControlSpec == ControlInit /\ [][ControlNext]_ControlVars

FairControlSpec == ControlSpec /\ ServerFairness

-----------------------------------------------------------------------------
(* Properties.                                                             *)

\* Slot k is one of the first n of frame f, and of kind http.
Listed(f, n, k) ==
  /\ k[1] = f.tunnel
  /\ \E i \in 1..n : i <= Len(f.slots)
                     /\ f.slots[i].name = k[2] /\ f.slots[i].kind = "http"

\* An entry of the registry always belongs to a session whose handler is still
\* going to unbind it (so no return path, crash or takeover leaves a dangling
\* one), and says what that session's own frame asked for: this tunnel, a slot
\* the loop has already passed, under that owner.
BoundAsRegistered ==
  \A k \in Keys : m[k] # NoEntry =>
    LET s == m[k].Session IN
    /\ pc[s] \in Active
    /\ frame[s] # NoFrame
    /\ Listed(frame[s], next[s] - 1, k)
    /\ m[k] = EntryOf(frame[s], k[2], s)

\* No slot can be reached that has no sidecar on disk: handleControl persists
\* the tunnel, then the slot, and only then binds.
BoundIsPersisted ==
  \A k \in Keys : m[k] # NoEntry =>
    /\ m[k].OwnerKey \in tunnels
    /\ <<m[k].OwnerKey[1], k[1], k[2]>> \in slots

\* An acknowledged client stays registered as long as its connection works and
\* its control stream is open: its slots are all on disk and its handler has not
\* left the drain loop.
AckedStaysServed ==
  \A s \in Sessions : reply[s] = "register_ack" /\ conn[s] = "up" =>
    /\ pc[s] = "drain"
    /\ \A i \in 1..Len(frame[s].slots) :
         /\ frame[s].slots[i].kind = "http"
         /\ <<frame[s].owner, frame[s].tunnel, frame[s].slots[i].name>> \in slots

\* A slot stops leading to a session only by that session's own cleanup, by
\* another handler's Bind, or by the end of the process: the cleanup of one
\* session never takes down a slot another session has taken over.
CleanupOnlyOwn ==
  [][\A k \in Keys, s \in Sessions :
       HeldBy(m, k, s) /\ ~ HeldBy(m, k, s)' =>
         \/ pc[s] = "unbind" /\ m'[k] = NoEntry
         \/ \E t \in Sessions \ {s} : pc[t] = "bind" /\ HeldBy(m, k, t)'
         \/ ~ up']_ControlVars

\* A client that is gone, or that has ended its control stream and keeps the
\* session open, does not keep its slots, whatever stage its registration was in.
DroppedClientReleasesSlots ==
  \A s \in Sessions :
    (~ client[s] \/ conn[s] = "eof") ~> (\A k \in Keys : ~ HeldBy(m, k, s))

\* A client whose frame has arrived gets an answer, whichever of the handler's
\* returns is taken, also if it ends the control stream right after the frame,
\* unless it leaves or the connection or the server fails.
RegisterIsAnswered ==
  \A s \in Sessions :
    (inbox[s] # NoFrame /\ Works(s))
      ~> (reply[s] # NoReply \/ ~ client[s] \/ conn[s] = "cut" \/ ~ up)

\* The handler of s may hold slot k, now or as it goes on.
Serves(s, k) ==
  /\ pc[s] \in {"slots", "bind", "drain", "unbind"} /\ frame[s] # NoFrame
  /\ k[1] = frame[s].tunnel
  /\ \E i \in 1..Len(frame[s].slots) : frame[s].slots[i].name = k[2]

\* No two handlers serve slot k at a time.  Nothing in the code sees to it: it
\* is the condition under which what the documents say of slots is true.
TurnsAt(k) == \A s, t \in Sessions : Serves(s, k) /\ Serves(t, k) => s = t
TakeTurns  == \A k \in Keys : TurnsAt(k)

\* The control plane implements the directory of slots.
SessionOf(k) == IF m[k] = NoEntry THEN NoEntry ELSE m[k].Session
Directory == INSTANCE SlotDirectory
  WITH Nobody <- NoEntry, dir <- [k \in Keys |-> SessionOf(k)],
       live <- {s \in Sessions : pc[s] \in Active}
ImplementsDirectory == Directory!Spec
=============================================================================
