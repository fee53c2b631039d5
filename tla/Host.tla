-------------------------------- MODULE Host --------------------------------
(***************************************************************************)
(* The client, internal/host/host.go: the command "host" and its loop      *)
(* serve, which calls run again, after a pause, each time run ends.  This  *)
(* module replaces the arbitrary peers of Control by clients.              *)
(*                                                                         *)
(* cpc[c] is where client c stands, csess[c] the session it holds.         *)
(***************************************************************************)
EXTENDS Control

CONSTANTS
  Clients,     \* command lines; a client that ends may be started again
  FrameOf,     \* the register frame each command line leads to
  NoSession,   \* no session held
  Interrupts   \* TRUE: a client may be interrupted or killed

ASSUME ClientsAssumption == FrameOf \in [Clients -> Frames]
ASSUME NoSessionAssumption == NoSession \notin Sessions
ASSUME InterruptsAssumption == Interrupts \in BOOLEAN

VARIABLES cpc, csess

hostVars == <<cpc, csess>>

Connected == {"register", "await", "serving"}

HostTypeOK ==
  /\ cpc \in [Clients -> Connected \cup {"off", "dial", "backoff"}]
  /\ csess \in [Clients -> Sessions \cup {NoSession}]

HostInit == /\ cpc = [c \in Clients |-> "off"]
            /\ csess = [c \in Clients |-> NoSession]

Step(c, from, to) == cpc[c] = from /\ cpc' = [cpc EXCEPT ![c] = to]

\* Run has parsed the command line; it checks the slots' names only, so a bad
\* owner or tunnel name is for the server to refuse.
Start(c) == /\ Step(c, "off", "dial")
            /\ UNCHANGED <<csess, ControlVars>>

\* run: websocket.Dial, yamux.Client and OpenStream.
Dial(c, s) == /\ Step(c, "dial", "register")
              /\ csess' = [csess EXCEPT ![c] = s]
              /\ PeerDial(s)

DialFails(c) == /\ Step(c, "dial", "backoff")
                /\ ~ up \/ LinkFaults
                /\ UNCHANGED <<csess, ControlVars>>

\* Writes the register frame; on a connection that has broken the bytes go
\* into a buffer and nowhere else.
Register(c) == /\ Step(c, "register", "await")
               /\ \/ PeerSend(csess[c], FrameOf[c])
                  \/ conn[csess[c]] # "up" /\ UNCHANGED ControlVars
               /\ UNCHANGED csess

\* The ack: emitReady prints TUNNEL_READY, then streams are accepted.
ReadAck(c) == /\ Step(c, "await", "serving")
              /\ reply[csess[c]] = "register_ack"
              /\ PeerRead(csess[c])
              /\ UNCHANGED csess

\* run returns: its deferred calls close the session and the connection.
Return(c, to) == /\ cpc' = [cpc EXCEPT ![c] = to]
                 /\ csess' = [csess EXCEPT ![c] = NoSession]
                 /\ PeerLeave(csess[c])

\* An error frame.  serve treats it like every other error.
ReadError(c) == /\ cpc[c] = "await"
                /\ reply[csess[c]] \in Reply \ {"register_ack"}
                /\ Return(c, "backoff")

\* Mutant of SessionLost: a client that waits for its ack does not see it.
SessionLostServing(c) == /\ cpc[c] = "serving" /\ conn[csess[c]] # "up"
                         /\ Return(c, "backoff")

\* The session ends.  A frame that arrived before is read first.
SessionLost(c) == /\ cpc[c] \in Connected /\ conn[csess[c]] # "up"
                  /\ cpc[c] = "await" => reply[csess[c]] = NoReply
                  /\ Return(c, "backoff")

\* time.After(backoff): the pause has passed.
Backoff(c) == /\ Step(c, "backoff", "dial")
              /\ UNCHANGED <<csess, ControlVars>>

\* The context is cancelled, or the process is killed, at any point.
Interrupt(c) ==
  /\ Interrupts
  /\ \/ cpc[c] \in Connected /\ Return(c, "off")
     \/ /\ cpc[c] \in {"dial", "backoff"}
        /\ cpc' = [cpc EXCEPT ![c] = "off"]
        /\ UNCHANGED <<csess, ControlVars>>

\* What a client that runs does of itself.
HostStep(c) == \/ \E s \in Sessions : Dial(c, s)
               \/ DialFails(c) \/ Register(c)
               \/ ReadAck(c) \/ ReadError(c) \/ SessionLost(c)
               \/ Backoff(c)
=============================================================================
