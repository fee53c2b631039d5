------------------------------- MODULE Aspire -------------------------------
(***************************************************************************)
(* The Aspire extension, Aspire.Hosting.AgentTunnel: one tunnel of an      *)
(* AppHost.  Each time a referenced resource raises "endpoints allocated"  *)
(* a handler runs, beside those of other events; the one that finds that   *)
(* all resources have raised it starts the client ("agent-tunnel host") as *)
(* a child process.  Each line the child prints is handled by a task       *)
(* nobody waits for, and its end by a callback; these run side by side and *)
(* are cut at their awaits.  Slots are sets: nothing depends on the order  *)
(* in which the code goes through them.                                    *)
(***************************************************************************)
EXTENDS Naturals, FiniteSets

CONSTANTS
  Slots,     \* the resources of the calls of WithReference
  Events,    \* bound: the events "endpoints allocated" that are raised
  SourceOf,  \* SourceOf[e]: the resource that raises e
  Asked,     \* the slots GetEndpoint is called for
  Tunnel,    \* the tunnel's own row in the dashboard
  MaxLines   \* bound: the TUNNEL_READY lines of one client

Rows == Slots \cup {Tunnel}

ASSUME SlotsAssumption == IsFiniteSet(Slots) /\ Slots # {}
ASSUME EventsAssumption == SourceOf \in [Events -> Slots]
ASSUME RowsAssumption == Tunnel \notin Slots
ASSUME MaxLinesAssumption == MaxLines \in Nat

VARIABLES
  apphost,    \* the AppHost's process runs
  withPort,   \* the slots whose resource has the endpoint that was named
  allocated,  \* SlotEndpointsAllocated
  cliStarted, \* CliStarted
  handler,    \* where the handler of each event stands, StartCliAsync included
  toStart,    \* the rows it has not yet published, for each event
  cli,        \* the child process
  cliSlots,   \* the slots on its command line
  printed,    \* TUNNEL_READY lines the child has printed
  reader,     \* where HandleStdoutAsync stands, for each line
  left,       \* the slots it has not yet shown, for each line
  at,         \* the slot it is at, for each line; Tunnel: none
  toExit,     \* the rows the Exited callback has not yet published
  publicUrls, \* the slots that have a URL in PublicUrls
  ready,      \* the task Ready is completed
  state,      \* the state of each row of the dashboard
  links,      \* the number of URLs each slot's row shows
  endpoint,   \* what GetEndpoint has resolved to
  late,       \* history: a line was unhandled when the child ended
  spawned     \* history: how many children have been started

startVars  == <<allocated, cliStarted, handler, toStart>>
cliVars    == <<cli, cliSlots, printed, late, spawned>>
readerVars == <<reader, left, at>>
shownVars  == <<publicUrls, ready, state, links>>
vars == <<apphost, withPort, startVars, cliVars, readerVars, toExit, shownVars,
          endpoint>>

Lines == 1..MaxLines

TypeOK ==
  /\ apphost \in BOOLEAN /\ cliStarted \in BOOLEAN
  /\ ready \in BOOLEAN /\ late \in BOOLEAN
  /\ withPort \subseteq Slots /\ allocated \subseteq Slots
  /\ handler \in [Events -> {"none", "gate", "returned", "rows", "spawn", "done", "failed"}]
  /\ toStart \in [Events -> SUBSET Rows] /\ toExit \subseteq Rows
  /\ cli \in {"none", "running", "exited"}
  /\ cliSlots \subseteq withPort
  /\ printed \in 0..MaxLines /\ spawned \in Nat
  /\ reader \in [Lines -> {"none", "url", "show", "tunnel", "ready", "done", "failed"}]
  /\ left \in [Lines -> SUBSET cliSlots]
  /\ at \in [Lines -> cliSlots \cup {Tunnel}]
  /\ publicUrls \subseteq Slots
  /\ state \in [Rows -> {"none", "Starting", "Running", "Exited"}]
  /\ links \in [Slots -> Nat]
  /\ endpoint \in [Asked -> {"none", "waiting", "url", "null"}]

Init ==
  /\ apphost = TRUE
  /\ withPort \in SUBSET Slots
  /\ allocated = {} /\ cliStarted = FALSE
  /\ handler = [e \in Events |-> "none"] /\ toStart = [e \in Events |-> Rows]
  /\ cli = "none" /\ cliSlots = {} /\ printed = 0 /\ late = FALSE /\ spawned = 0
  /\ reader = [l \in Lines |-> "none"] /\ left = [l \in Lines |-> {}]
  /\ at = [l \in Lines |-> Tunnel]
  /\ toExit = Rows /\ publicUrls = {} /\ ready = FALSE
  /\ state = [r \in Rows |-> "none"] /\ links = [s \in Slots |-> 0]
  /\ endpoint = [s \in Asked |-> "none"]

\* The rows among those in todo that come next: the tunnel's is the first.
NextRows(todo) == IF Tunnel \in todo THEN {Tunnel} ELSE todo

\* notifier.PublishUpdateAsync with a new State.
Publish(r, st) == state' = [state EXCEPT ![r] = st]

-----------------------------------------------------------------------------
(* Starting the client.                                                    *)

At(e, stage) == handler' = [handler EXCEPT ![e] = stage]

\* Mutants of EndpointsAllocated: the last event is not waited for; CliStarted
\* is not looked at; StartGate is not taken.
AllocatedOneEarly(e) ==
  /\ handler[e] = "none" /\ \A f \in Events : handler[f] # "gate"
  /\ allocated' = allocated \cup {SourceOf[e]}
  /\ At(e, IF cliStarted \/ Cardinality(allocated') < Cardinality(Slots) - 1
             THEN "returned" ELSE "gate")
  /\ UNCHANGED <<apphost, withPort, cliStarted, toStart, cliVars, readerVars, toExit,
                 shownVars, endpoint>>

AllocatedAgain(e) ==
  /\ handler[e] = "none" /\ \A f \in Events : handler[f] # "gate"
  /\ allocated' = allocated \cup {SourceOf[e]}
  /\ At(e, IF Cardinality(allocated') < Cardinality(Slots) THEN "returned" ELSE "gate")
  /\ UNCHANGED <<apphost, withPort, cliStarted, toStart, cliVars, readerVars, toExit,
                 shownVars, endpoint>>

AllocatedUngated(e) ==
  /\ handler[e] = "none"
  /\ allocated' = allocated \cup {SourceOf[e]}
  /\ At(e, IF cliStarted \/ Cardinality(allocated') < Cardinality(Slots)
             THEN "returned" ELSE "gate")
  /\ UNCHANGED <<apphost, withPort, cliStarted, toStart, cliVars, readerVars, toExit,
                 shownVars, endpoint>>

\* Event e is raised and its handler takes StartGate, adds its slot, and either
\* returns, releasing the gate, or goes on holding it.  The events of one
\* resource are several: it may be restarted.
EndpointsAllocated(e) ==
  /\ handler[e] = "none" /\ \A f \in Events : handler[f] # "gate"
  /\ allocated' = allocated \cup {SourceOf[e]}
  /\ At(e, IF cliStarted \/ Cardinality(allocated') < Cardinality(Slots)
             THEN "returned" ELSE "gate")
  /\ UNCHANGED <<apphost, withPort, cliStarted, toStart, cliVars, readerVars, toExit,
                 shownVars, endpoint>>

\* CliStarted is set and StartGate released.
ReleaseGate(e) ==
  /\ handler[e] = "gate"
  /\ cliStarted' = TRUE
  /\ At(e, "rows")
  /\ UNCHANGED <<apphost, withPort, allocated, toStart, cliVars, readerVars, toExit,
                 shownVars, endpoint>>

\* StartCliAsync: the rows, one await each.
PublishStarting(e) ==
  /\ handler[e] = "rows"
  /\ \E r \in NextRows(toStart[e]) :
       Publish(r, "Starting") /\ toStart' = [toStart EXCEPT ![e] = @ \ {r}]
  /\ At(e, IF toStart'[e] = {} THEN "spawn" ELSE "rows")
  /\ UNCHANGED <<apphost, withPort, allocated, cliStarted, cliVars, readerVars,
                 toExit, publicUrls, ready, links, endpoint>>

\* Mutant of Spawn: slots without a port are passed on.
SpawnWithAll(e) ==
  /\ handler[e] = "spawn"
  /\ At(e, "done")
  /\ cli' = "running" /\ spawned' = spawned + 1
  /\ cliSlots' = Slots
  /\ UNCHANGED <<apphost, withPort, allocated, cliStarted, toStart, printed, late,
                 readerVars, toExit, shownVars, endpoint>>

\* StartCliInternalAsync: slots without an allocated port are left out, then
\* Process.Start.
Spawn(e) ==
  /\ handler[e] = "spawn"
  /\ At(e, "done")
  /\ cli' = "running" /\ spawned' = spawned + 1
  /\ cliSlots' = withPort \cap allocated
  /\ UNCHANGED <<apphost, withPort, allocated, cliStarted, toStart, printed, late,
                 readerVars, toExit, shownVars, endpoint>>

\* A row cannot be published, there is no binary, or Process.Start throws.
\* Nothing clears CliStarted.
StartFails(e) ==
  /\ handler[e] \in {"rows", "spawn"}
  /\ At(e, "failed")
  /\ UNCHANGED <<apphost, withPort, allocated, cliStarted, toStart, cliVars,
                 readerVars, toExit, shownVars, endpoint>>

-----------------------------------------------------------------------------
(* The child process.                                                      *)

\* It registers, at first or after a reconnect: emitReady.  Without a slot it
\* ends at once.
PrintReady ==
  /\ cli = "running" /\ cliSlots # {} /\ printed < MaxLines
  /\ printed' = printed + 1
  /\ UNCHANGED <<apphost, withPort, startVars, cli, cliSlots, late, spawned, readerVars,
                 toExit, shownVars, endpoint>>

Unhandled == \E l \in 1..printed : reader[l] \notin {"done", "failed"}

\* It ends, whatever the reason.
CliExits ==
  /\ cli = "running"
  /\ cli' = "exited"
  /\ late' = Unhandled
  /\ UNCHANGED <<apphost, withPort, startVars, cliSlots, printed, spawned, readerVars,
                 toExit, shownVars, endpoint>>

-----------------------------------------------------------------------------
(* HandleStdoutAsync(line l).                                              *)

To(l, stage) == reader' = [reader EXCEPT ![l] = stage]

\* Mutant of Dispatch: Ready is completed before the line's URLs are stored.
DispatchReady(l) ==
  /\ l <= printed
  /\ reader[l] = "none" /\ \A k \in 1..(l - 1) : reader[k] # "none"
  /\ To(l, "url") /\ left' = [left EXCEPT ![l] = cliSlots]
  /\ ready' = TRUE
  /\ UNCHANGED <<apphost, withPort, startVars, cliVars, at, toExit, publicUrls,
                 state, links, endpoint>>

\* OutputDataReceived: lines come in order, their tasks overlap.
Dispatch(l) ==
  /\ l <= printed
  /\ reader[l] = "none" /\ \A k \in 1..(l - 1) : reader[k] # "none"
  /\ To(l, "url") /\ left' = [left EXCEPT ![l] = cliSlots]
  /\ UNCHANGED <<apphost, withPort, startVars, cliVars, at, toExit, shownVars,
                 endpoint>>

\* Mutant of StoreUrl: the URL of a child that has ended is not stored.
StoreUrlIfRunning(l) ==
  /\ reader[l] = "url"
  /\ \E s \in left[l] :
       /\ publicUrls' = IF cli = "running" THEN publicUrls \cup {s} ELSE publicUrls
       /\ at' = [at EXCEPT ![l] = s]
  /\ To(l, "show")
  /\ UNCHANGED <<apphost, withPort, startVars, cliVars, left, toExit, ready, state,
                 links, endpoint>>

\* tunnel.PublicUrls[s.Name] = url
StoreUrl(l) ==
  /\ reader[l] = "url"
  /\ \E s \in left[l] : /\ publicUrls' = publicUrls \cup {s}
                        /\ at' = [at EXCEPT ![l] = s]
  /\ To(l, "show")
  /\ UNCHANGED <<apphost, withPort, startVars, cliVars, left, toExit, ready, state,
                 links, endpoint>>

\* The row is Running and has one more URL.
ShowSlot(l) ==
  /\ reader[l] = "show"
  /\ Publish(at[l], "Running")
  /\ links' = [links EXCEPT ![at[l]] = @ + 1]
  /\ left' = [left EXCEPT ![l] = @ \ {at[l]}]
  /\ To(l, IF left'[l] = {} THEN "tunnel" ELSE "url")
  /\ UNCHANGED <<apphost, withPort, startVars, cliVars, at, toExit, publicUrls,
                 ready, endpoint>>

ShowTunnel(l) ==
  /\ reader[l] = "tunnel"
  /\ Publish(Tunnel, "Running")
  /\ To(l, "ready")
  /\ UNCHANGED <<apphost, withPort, startVars, cliVars, left, at, toExit,
                 publicUrls, ready, links, endpoint>>

\* Mutant of SetReady: a child that has ended in the meantime is not ready.
SetReadyIfRunning(l) ==
  /\ reader[l] = "ready"
  /\ ready' = (ready \/ cli = "running")
  /\ To(l, "done")
  /\ UNCHANGED <<apphost, withPort, startVars, cliVars, left, at, toExit,
                 publicUrls, state, links, endpoint>>

\* Ready.TrySetResult
SetReady(l) ==
  /\ reader[l] = "ready"
  /\ ready' = TRUE
  /\ To(l, "done")
  /\ UNCHANGED <<apphost, withPort, startVars, cliVars, left, at, toExit,
                 publicUrls, state, links, endpoint>>

\* The catch: something throws while the line is handled.  It is logged, and the
\* line does not complete Ready.
HandleFails(l) ==
  /\ reader[l] \in {"url", "show", "tunnel"}
  /\ To(l, "failed")
  /\ UNCHANGED <<apphost, withPort, startVars, cliVars, left, at, toExit, shownVars,
                 endpoint>>

HandleStdout(l) ==
  \/ Dispatch(l) \/ StoreUrl(l) \/ ShowSlot(l) \/ ShowTunnel(l) \/ SetReady(l)
  \/ HandleFails(l)

\* Mutant of Exited: the slots' rows are forgotten.
ExitedTunnelOnly ==
  /\ cli = "exited" /\ toExit # {}
  /\ Publish(Tunnel, "Exited") /\ toExit' = {}
  /\ UNCHANGED <<apphost, withPort, startVars, cliVars, readerVars, publicUrls,
                 ready, links, endpoint>>

\* The callback of Process.Exited, which waits for no line.  An update that
\* throws ends it, with the other rows left as they are.
Exited ==
  /\ cli = "exited"
  /\ \E r \in NextRows(toExit) : Publish(r, "Exited") /\ toExit' = toExit \ {r}
  /\ UNCHANGED <<apphost, withPort, startVars, cliVars, readerVars, publicUrls,
                 ready, links, endpoint>>

-----------------------------------------------------------------------------
(* GetEndpoint, and the end of the AppHost.                                *)

\* TunnelUrlValueProvider.GetValueAsync, for the value of slot s.
GetEndpoint(s) ==
  /\ \/ endpoint[s] = "none" /\ endpoint' = [endpoint EXCEPT ![s] = "waiting"]
     \/ /\ endpoint[s] = "waiting" /\ ready
        /\ endpoint' = [endpoint EXCEPT
                          ![s] = IF s \in publicUrls THEN "url" ELSE "null"]
  /\ UNCHANGED <<apphost, withPort, startVars, cliVars, readerVars, toExit,
                 shownVars>>

\* The AppHost ends.  Its container disposes of what it has created; an
\* AgentTunnelHooks it was given, AddSingleton(new ...), it does not dispose
\* of, so DisposeAsync is not called and the child is left alone.  (The comments
\* at AgentTunnelExtensions.cs:53 and 305 expect it to be: this is the documented
\* behaviour of Microsoft's container, which is not part of the repository.)
Shutdown ==
  /\ apphost' = FALSE
  /\ UNCHANGED <<withPort, startVars, cliVars, readerVars, toExit, shownVars,
                 endpoint>>

\* What the extension does of itself.
Start(e) == ReleaseGate(e) \/ PublishStarting(e) \/ Spawn(e) \/ StartFails(e)

Next ==
  \/ CliExits
  \/ /\ apphost
     /\ \/ \E e \in Events : EndpointsAllocated(e) \/ Start(e)
        \/ PrintReady \/ Exited
        \/ \E l \in Lines : HandleStdout(l)
        \/ \E s \in Asked : GetEndpoint(s)
        \/ Shutdown

Spec == Init /\ [][Next]_vars

\* The thread pool runs every task.  Nothing makes the child register, and
\* nothing keeps it or the AppHost running.
Fairness ==
  /\ \A e \in Events : WF_vars(apphost /\ Start(e))
  /\ \A l \in Lines : WF_vars(apphost /\ HandleStdout(l))
  /\ \A s \in Asked : WF_vars(apphost /\ GetEndpoint(s))

FairSpec == Spec /\ Fairness

-----------------------------------------------------------------------------

\* "by then every slot has an allocated port available": of all the handlers one
\* starts a client, and its command line lists every slot whose resource has
\* the endpoint, in whatever order and however often the resources raise their
\* events, and however the handlers overlap.
StartedOnceWithAll ==
  [][spawned' # spawned => spawned = 0 /\ spawned' = 1 /\ cliSlots' = withPort]_vars

\* GetEndpoint resolves to a URL, never to null, for every slot on the
\* client's command line, even while a second TUNNEL_READY is being handled.
ResolvesToUrl ==
  \A s \in Asked \cap withPort : endpoint[s] # "null"

\* A row that is shown as Running shows a URL, which GetEndpoint can return, and
\* a tunnel shown as Running has one for each slot of its client.
RunningHasUrl ==
  /\ \A s \in Slots : state[s] = "Running" => s \in publicUrls /\ links[s] > 0
  /\ state[Tunnel] = "Running" => withPort \subseteq publicUrls

\* The end of the client shows on every row, unless a line was still unhandled
\* when it ended: then its task may publish Running after the callback.
EndIsShown ==
  toExit = {} /\ ~ late => \A r \in Rows : state[r] = "Exited"

\* Once the client has registered, whoever waits for an endpoint gets it, also
\* if the client ends right after, or else the AppHost ends.  The exception are
\* lines that were all given up half-way: then the wait goes on.
AllFailed == \A l \in 1..printed : reader[l] = "failed"

EndpointsResolve ==
  \A s \in Asked :
    printed > 0 /\ endpoint[s] = "waiting" ~>
      endpoint[s] # "waiting" \/ ~ apphost \/ AllFailed
=============================================================================
