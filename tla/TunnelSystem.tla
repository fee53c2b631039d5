---------------------------- MODULE TunnelSystem ----------------------------
(***************************************************************************)
(* The whole tunnel: the control plane (Control), the clients (Host) and   *)
(* the public front end (Router) around the one registry.                  *)
(***************************************************************************)
EXTENDS Host, Router

ASSUME NoOneAssumption == NoOne \notin Clients

vars == <<ControlVars, hostVars, routerVars>>

TypeOK == ControlTypeOK /\ HostTypeOK /\ RouterTypeOK(Clients)

Init == ControlInit /\ HostInit /\ RouterInit

\* The slots client c indexes its upstreams by.
SlotsOf(c) == {FrameOf[c].slots[i].name : i \in 1..Len(FrameOf[c].slots)}

\* Public slot k is one of client c's.
Hosts(c, k) == k[1] = FrameOf[c].tunnel /\ k[2] \in SlotsOf(c)

\* A new session is none that a request still refers to.
ClientNext(c) ==
  /\ \/ HostStep(c) /\ \A s \in Sessions, r \in Requests :
                          HoldsSession(r, s) => csess'[c] # s \/ csess[c] = s
     \/ Start(c)
     \/ Interrupt(c)
  /\ UNCHANGED routerVars

\* A stream reaches the client that holds the session's other end.  Until that
\* client has read its ack the stream waits in the session's backlog.
Inbound(r, c) == /\ rpc[r] = "stream" /\ cpc[c] = "serving"
                 /\ csess[c] = entry[r].Session
                 /\ HandleInbound(r, c, SlotsOf(c))

RequestNext(r) ==
  /\ \/ \E k \in PublicKeys \cup {NoKey} : Arrive(r, k)
     \/ RouterStep(r) \/ WriteRequest(r) \/ UpstreamAnswers(r) \/ Finish(r)
     \/ \E c \in Clients : Inbound(r, c)
  /\ UNCHANGED <<ControlVars, hostVars>>

\* The process ends with every request in it.
StopAll == ServerStop /\ ResetRequests(Requests) /\ UNCHANGED hostVars

Next == \/ ServerNext /\ UNCHANGED <<hostVars, routerVars>>
        \/ (\E s \in Sessions : LinkCut(s)) /\ UNCHANGED <<hostVars, routerVars>>
        \/ StopAll
        \/ \E c \in Clients : ClientNext(c)
        \/ \E r \in Requests : RequestNext(r)

Spec == Init /\ [][Next]_vars

\* The scheduler and the timers of both programs.  Users (who may keep back the
\* body of a request), upstreams, the network and whoever stops the server owe
\* nothing.
Fairness ==
  /\ \A s \in Sessions : WF_vars((Notice(s) \/ HandlerStep(s))
                                   /\ UNCHANGED <<hostVars, routerVars>>)
  /\ \A c \in Clients : WF_vars(HostStep(c) /\ ClientNext(c))
  /\ \A r \in Requests : WF_vars(RouterStep(r) /\ UNCHANGED <<ControlVars, hostVars>>)

FairSpec == Spec /\ Fairness

-----------------------------------------------------------------------------

\* An answer that comes from an upstream comes from one of a client that hosts
\* the very slot the host name names: no takeover, reconnect or cleanup between
\* Lookup and the answer sends a request to another tunnel's or slot's upstream.
NoMisroute ==
  \A r \in Requests : answer[r] = "served" => Hosts(by[r], asked[r])

\* handleInbound's "slot not configured" never happens: what the registry says
\* of a session is what the client behind that session has configured.
NeverUnknownSlot == \A r \in Requests : answer[r] # "unknown_slot"

\* TUNNEL_READY is only printed when the registration is complete: each slot
\* of the command line is on disk and, while the connection works, the handler
\* of the client's own session works on the client's own frame.
ReadyMeansRegistered ==
  \A c \in Clients : cpc[c] = "serving" =>
    /\ \A n \in SlotsOf(c) : <<FrameOf[c].owner, FrameOf[c].tunnel, n>> \in slots
    /\ conn[csess[c]] = "up" =>
         pc[csess[c]] = "drain" /\ frame[csess[c]] = FrameOf[c]

\* A request gets an answer even if the session dies without a sign, the client
\* never takes the stream or the upstream never answers, or else the server or
\* the user ends it.  One thing holds a request for ever: it is never written in
\* full, because the user keeps its body back or the client does not read what
\* exceeds the window.  No timer runs on that.
RequestIsAnswered ==
  \A r \in Requests : rpc[r] = "lookup" ~>
    (rpc[r] \in {"done", "idle"} \/ [](rpc[r] \in Streaming /\ ~ written[r]))

\* Every slot of client c leads to the session c holds.
Routed(c) == /\ cpc[c] = "serving"
             /\ \A n \in SlotsOf(c) :
                  HeldBy(m, key(FrameOf[c].tunnel, n), csess[c])

\* "Retrying in-process makes a server restart self-heal" (host.go:72): once
\* the server stays up and the clients keep running, all their slots end up,
\* and stay, bound to the sessions they hold.
SelfHeals ==
  \A c \in Clients : <>[](up /\ cpc[c] # "off") => <>[]Routed(c)

\* "Re-running the same command reclaims the same hostname": a client that has
\* its ack, over a working connection, on a server with no other handler left
\* to run, is reachable.
ReadyIsRouted ==
  \A c \in Clients :
    (/\ cpc[c] = "serving" /\ conn[csess[c]] = "up"
     /\ \A s \in Sessions \ {csess[c]} : pc[s] = "none") => Routed(c)

\* A client that has its ack, over a working connection, is reachable, other
\* handlers or not.
ReadyIsReachable ==
  \A c \in Clients : cpc[c] = "serving" /\ conn[csess[c]] = "up" => Routed(c)

\* The handlers of each slot of client c take turns.
OwnTurns(c) == \A k \in Keys : Hosts(c, k) => TurnsAt(k)

\* It always is if the handlers of its own slots take turns: two of them at work
\* at the same time are the only way in which a client that is acknowledged and
\* connected can be out of reach, whatever else fails and however the clients of
\* other slots and tunnels take theirs over.
TurnsKeepReady ==
  \A c \in Clients :
    []OwnTurns(c) => [](cpc[c] = "serving" /\ conn[csess[c]] = "up" => Routed(c))

\* "tunnel: no client connected for <slot>--<tunnel>" (http.go:41) is only said
\* when no client that hosts the slot is connected and registered.
NobodyMeansNobody ==
  [][\A r \in Requests : rpc[r] = "lookup" /\ answer'[r] = "nobody" =>
       ~ \E c \in Clients : /\ cpc[c] = "serving" /\ conn[csess[c]] = "up"
                            /\ Hosts(c, asked[r])]_vars
=============================================================================
