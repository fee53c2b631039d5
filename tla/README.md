# agent-tunnel in TLA+

Specifications, model-checking runs and machine-checked proofs for agent-tunnel,
a self-hosted development tunnel: a client (`agent-tunnel host`) keeps a
connection to a server, the server gives each of the client's HTTP slots a public
host name `<slot>--<tunnel>.<domain>`, and requests for that name travel back
through the connection to a local upstream.

Everything is translated from the code. `PROJECT.json` maps each definition to
the lines it stands for, lists the runs, the hazards they are aimed at, a mutant
of the code that each property detects, the findings and the theorems.

Paths below are relative to the repository; `server/` abbreviates
`src/agent-tunnel-server/`.

## 1. The system

| part | code | state it keeps | operations | speaks to |
|---|---|---|---|---|
| session registry | `server/internal/sessions` | map from (tunnel, slot) to the session that serves it, in memory | Bind, Lookup, UnbindSession, each under one mutex | written by the control plane, read by the front end |
| control plane | `server/internal/control` | one goroutine per connected client | register: validate, persist, bind, acknowledge; drain; deferred cleanup | client (frames on stream 0), store, registry |
| HTTP front end | `server/internal/router` | one goroutine per request | parse the host name, look up, open a stream, reverse-proxy | registry, client (one stream per request) |
| client | `src/agent-tunnel/internal/host` | one session, or a pause before the next | dial, register, read the ack, print TUNNEL_READY, serve streams, reconnect | control plane, upstreams, Aspire (stdout) |
| names and frames | `src/protocol` | none | ValidateName, SubdomainFor, ParseSubdomain; JSON frames | everyone |
| sidecar store | `server/internal/store` | Markdown files under the data directory | PutTunnel, PutSlot: write a temporary file, flush, rename | control plane |
| server process | `server/main.go` | - | start, stop | everything in the server |
| configuration, public URL | `server/internal/config`, `control` | none after start | Load, PublicScheme, publicPortSuffix | control plane, listeners |
| PROXY protocol policy | `server/internal/proxyproto` | none | ParseTrusted, Policy, Wrap | front end's listener |
| TLS set-up | `server/internal/tls` | certmagic's | Setup, redirectToHTTPS | listeners |
| Aspire extension | `src/aspire` | resource states, start gate, child process | WithReference, StartCliAsync, HandleStdoutAsync, Exited, GetEndpoint | client (process, stdout) |

What is hard in it:

- *No lock spans two steps.* A handler binds slots one by one; the front end uses
  a registry entry after the lock is released; a handler whose client is long
  gone keeps going until it next touches its connection. Handlers of an old and
  of a new session of the same client overlap.
- *Takeover.* The registry's key leaves the owner out and the last Bind wins. The
  loser is neither closed nor told.
- *Many return paths.* `handleControl` returns from thirteen places, with between
  none and all of its slots bound; one deferred call has to clean up after all.
- *Buffers.* A request passes a stream's window, a `bufio.Reader` and the
  upstream's connection; two copiers run in the client and the first to end takes
  both directions down. An end of a session reads like the end of a stream.
- *Silence.* A connection can die without a sign; only yamux's keep-alive, the
  front end's response-header timeout and the client's loop bring things on.
- *Restart.* The registry is in memory and is lost; sidecars survive; clients
  must find back by themselves.
- *Files.* Writes are meant to be atomic under failing system calls, crashes and
  loss of power, and all writers of a sidecar share one temporary name.
- *Settings.* Environment, defaults and flags are read in an order; one port is
  used to derive URLs, redirects and listeners, which have to agree.
- *Tasks nobody awaits.* In the AppHost, events of resources, a task per line of
  the client's output and the callback of its end overlap at every await.
- *Strings.* A host name handed out must be parsed back to the slot it was made
  for, and to no other.

## 2. Modules

| module | models | extends |
|---|---|---|
| `SlotDirectory` | abstract: what the control plane promises about slots | |
| `Registry` | the table and its methods, as operators | |
| `Control` | `handleControl` for every session, the connection, the sidecars on disk, the server process; clients are arbitrary | `Registry` |
| `Host` | the client: `serve`, `run` | `Control` |
| `Router` | a request in the front end and in the client's `handleInbound`, seen as one step each | `Control` |
| `TunnelSystem` | clients, control plane and front end together | `Host`, `Router` |
| `Exchange` | abstract: what the two ends of a request may rely on | |
| `Forward` | one request, byte by byte: the transport, a stream, `handleInbound` and its copiers, the upstream's connection | |
| `Names` | validation, spelling and parsing of names | |
| `Settings` | Load, the listeners, the port in public URLs and in redirects | |
| `ProxyPolicy` | ParseTrusted, Policy, Wrap | |
| `FrontDoor` | the public side of the server: settings, policy and names | `Names`, `Settings`, `ProxyPolicy` |
| `AtomicFile` | abstract: a file whose writes are atomic | |
| `Sidecar` | `writeFrontmatter` and `readFrontmatter`, system call by system call | |
| `Aspire` | one tunnel of an AppHost: start gate, child process, its lines and its end, GetEndpoint | |
| `ControlProofs`, `TunnelProofs`, `ForwardProofs`, `NamesProofs`, `FrontDoorProofs`, `SidecarProofs`, `AspireProofs` | theorems about the module of that name (`TunnelProofs`: about `TunnelSystem`) | that module, `TLAPS` |
| `MC...` | values of the constants for TLC | one of the above |

How they compose: the registry `m` is one variable, written by `Control` and read
by `Router`. `Control` alone lets any peer do anything the wire allows, also
end its control stream and keep the session (`PeerHangUp`), which `run` never does;
`Host` replaces those peers by the real client, using `Control`'s own actions on
the connection (`PeerDial`, `PeerSend`, `PeerRead`, `PeerLeave`), so each step of
`TunnelSystem` on the control plane is a step of `Control` (proved:
`TunnelIsControl`). `Forward` opens the steps `OpenStream`, `HandleInbound` and
`UpstreamAnswers` of `Router` for one request and one session; `Router` keeps
several requests and the sessions that come and go. Seen from its two ends `Forward` is an
`Exchange` (proved: `ForwardIsExchange`). `Aspire` meets the client at
its standard output only.

### Control

`pc[s]` says where the handler of session `s` stands:

    none -> read -> tunnel -> slots <-> bind
                                |
                                v
                              drain -> unbind -> close -> none

with a way to `unbind` from every stage but `bind`, which has no error path. One
action ends wherever the code touches what another goroutine can see: a file
(`PutTunnel`, `PutSlot`), the registry (`BindSlot`, `Unbind`), the connection
(`ReadRegister`, `WriteAck`, `DrainEnds`, `Close`). The deferred calls run in Go's
order, UnbindSession before sess.Close.

`conn[s]` is `up`, `eof` (the peer has closed the control stream and the session
lives), `cut` (broken, the server has not noticed) or `closed`; `inbox` and `reply`
hold the one frame each way the protocol has. A frame that arrived before the session
closed can still be read; a reply written to a connection that is gone is lost.
`LinkCut` may lose what is under way.

A stop of the server and a crash are one action: `main` calls `Shutdown` with a
context that is already cancelled and returns, so no handler runs its deferred
calls. A session identifier is used again once nothing refers to it, as the
memory of a `*yamux.Session` is, so reconnects are not bounded.

### Host, Router, TunnelSystem

`cpc[c]` is where client `c` stands: `off`, `dial`, `register`, `await`,
`serving`, `backoff`. Every error of `run` leads to `backoff`, and from there to
`dial` again; an interrupt leads to `off` from anywhere and the command may be
started again.

`rpc[r]` is where request `r` stands, `written[r]` whether all of it has gone down its
stream (`WriteRequest`), which is when the response-header timer starts. A body that
its user keeps back, or that fills a window the client does not empty, never is.
`HandleInbound` is the client's side of a stream: it is enabled only once that client
has read its ack, until then the stream waits in the session's backlog. The answer is
a class (`not_found`, `nobody`, `unknown_slot`, `bad_gateway`, `served`); `by`
remembers which client's upstream was reached.

### Forward

Chunks stand for bytes: the first of the request is the line with the slot's
name, the second its header. `toClient` and `toServer` are the stream, each at
most `Window` chunks long; `buf` is what `bufio.Reader` took beyond the line;
`toUp` and `fromUp` are the upstream's connection. `srv` is where the front end
stands (`dial`, `request`, `answer`, `done`), `h` where `handleInbound` stands
(`meta`, `dial`, `drain`, `splice`, `done`), `ended` which of its two copiers have
ended: the first is enough for `HandlerReturns`, which closes both connections.

The link under the session may be cut, which loses a suffix of what is on it, and
each end notices by itself. What an end has received it may still read; then its
stream ends as if the other side had closed it, since that is what yamux reports
of a closed session. So an answer framed by the end of its connection
(`framing = "close"`) cannot be told from a shortened one, and one with a length
can. `result` is what the user makes of it. An upstream reads when it likes,
answers once it has the header, and may close at any time; closing with bytes
unread resets the connection, in either direction.

`Exchange` is what remains when everything between the user and the upstream is
taken away: four counters (`sent`, `taken`, `said`, `heard`), none ahead of its
cause, whether the exchange is still `sound`, and its `outcome`. `Exchanged` maps
`Forward` to it: the counters are lengths without the tunnel's own line, an
exchange is sound until the link is cut or the upstream closes on an unread
request, and an answer made up by the front end is the outcome `bad_gateway`
and nothing heard.

### Names, Settings, ProxyPolicy, FrontDoor

A string is a sequence of characters; letters treated alike have one
representative each. A behaviour of `Names` spells a pair of names or a host
name, so the reachable states are all inputs up to the bounds and the invariants
state what the three functions do with them.

`Settings` follows `main`: `ReadEnv` (the environment, with defaults chosen from
its `ACME_EMAIL`), `ParseFlag` one by one, `Serve`, which comes up or fails.
`FrontPort`, `ChallengePort` and `ControlPort` say where the listeners are,
`UrlPort` and `RedirectPort` where browsers are sent. `ProxyPolicy` takes a
network for the set of its addresses; an IPv4 address in its mapped form names
another network than it seems to (`NetOf`).

In `FrontDoor` a behaviour either spells names or starts a server and sends it a
connection. The settings have no part in the parse, so interleaving the two
would multiply states and show nothing more.

### Sidecar

Files are inodes: `tmp` and `path` are the two names, `fd[w]` an open file. A
content is a whole version, empty, or torn. `durable` is what has been flushed.
Losing power takes every inode back to it. The directory is never flushed
(frontmatter.go:54), so a loss of power may bring back any that was current since the
operating system last wrote it (`WriteBack`): `disk` is that set. It is always the
directory of one moment, as with a journal; that is an assumption on the file system.

Every call may fail, the removal on the error path too, whose error the code drops.
Two history variables serve `ResultIsTrue`: `failed[w]`, the calls of the write in
progress that have failed, and `found[w]`, what a reader found when it called
os.Create. An error then means that a call failed, that readers find what they found
when the write began, and that the temporary file is gone unless the
calls that would see to it failed themselves; success means that none has failed.

`Spec` lets any number of writers run at once, as the code does. `TurnSpec` are
the runs in which no two of them use the temporary name at a time (`InTurns`). That
is no property of the code: it is what whoever deploys the server has to arrange,
and what the theorems about readers ask for.

### Aspire

Each event is raised by a resource (`SourceOf`), which may raise several, and has a
handler of its own: `handler[e]` is where it stands, StartCliAsync included, and
`toStart[e]` the rows it has yet to publish. `EndpointsAllocated(e)` takes StartGate,
adds the slot and looks at the count and at `CliStarted`; a handler that goes on
keeps the gate (stage `gate`) until `ReleaseGate(e)` has set `CliStarted`. A handler
may start the client while others run: that only one does is a property
(`StartedOnceWithAll`), broken in the run by leaving out either the gate or the look at
`CliStarted`. A start may fail (`StartFails`), and nothing starts it again.

Code is cut at each `await` of a notification: `toExit` are the rows that the Exited
callback has yet to publish, `reader[l]`, `left[l]` and `at[l]` the task that handles
line `l`, which may throw and then does not complete Ready (`HandleFails`). Slots are
sets: the code goes through a dictionary, whose order nothing depends on, and the
model takes every order. `withPort` are the resources that have the endpoint that was
named; the others never reach the command line.

## 3. Runs

| run | instance | shows |
|---|---|---|
| `control` | 2 sessions, 5 frames (one accepted with two slots, one refused after its first slot is bound, one per stage that refuses), peers that leave or hang up, all faults | types; no dangling or foreign entry (`BoundAsRegistered`); nothing reachable without sidecars (`BoundIsPersisted`); what an ack means (`AckedStaysServed`); cleanup is exact (`CleanupOnlyOwn`); refinement of `SlotDirectory`; clients that are gone or have hung up release their slots; registrations are answered |
| `tunnel_safety` | 2 clients contending for a slot, 2 tunnels, 2 slots, 1 request, interrupts, stops | `NoMisroute`, `NeverUnknownSlot`, `ReadyMeansRegistered` |
| `tunnel_faults` | 1 client, 1 request that need not be written in full, all faults | `RequestIsAnswered`; `TurnsKeepReady` |
| `tunnel_heal` | 2 clients with different tunnels, 3 sessions, stops at any point | `SelfHeals` |
| `forward` | a request of 7 chunks, an answer of 3, window 2, reader 1, upstream's connection 1 each way | no buffer overflows; `InOrder`; `WholeIsWhole`; refinement of `Exchange`; every step leaves less to do (`EveryStepCounts`); what alone can hold a request (`RequestEnds`) and a handler (`HandlerEnds`) for ever |
| `front_door` | names up to 4 and host names up to 7 of `a A - . :`; 2 to 4 values of each of 7 settings, 1 flag; 3 addresses | `ParseIsExact`, `NeverAnotherSlot`, `ParsesBack`; `UrlReachesFrontEnd`, `RedirectAgrees`, `DefaultsAreConsistent`; `TrustIsExact` |
| `sidecar` | 2 writers in turns (`TurnSpec`), a short and a long version, 3 inodes, failing calls, crash, power loss, symmetry | `ReadersSeeWhole`, `ResultIsTrue`, refinement of `AtomicFile` |
| `aspire` | 2 slots, 3 events, GetEndpoint for one of the slots and for one that is not a slot, 2 lines, failing start, lines that throw | client started once and with all slots (`StartedOnceWithAll`); `ResolvesToUrl`, `RunningHasUrl`, `EndIsShown`; `EndpointsResolve` |

Why the bounds are enough for what they are for. Two sessions are what any violation
of the registry's properties needs: a holder and one who takes over or leaves; the
theorems remove the bound. With one request, everything else can move between its
steps; requests share nothing but the registry, which they only read. `tunnel_heal`
has one session more than clients, for the one a server has not yet forgotten. In
`forward` the request is larger than the line and all buffers together, so that each
of them can be full at once and the front end still has something to write; the answer
is larger than the window. Four characters make every shape of name (`a`, `a-`, `a-a`,
`a--a`, `-a`), seven a host name with two such labels and a dot. The ports of
`front_door` are the defaults, the other scheme's, a custom one, and ones that clash;
one flag is enough to contradict the environment, and a flag may be the empty string.
Three inodes are the old file, the current one and the temporary one; of two versions
one is longer, so that writing the shorter over it leaves a torn file. Two lines in
`aspire` are a client that reconnects once while its first line is still handled; two
slots are a last event and one before it, and the third event is a resource that
raises its event again while another's handler is under way. One client is enough for
`TurnsKeepReady`, as its own old session is what overlaps with its new one; that other
clients cannot disturb it is proved. Two writers of a sidecar are one that has died or
failed and one that comes after it.

Symmetry is used in `tunnel_safety` and in `sidecar`, which check no liveness. Deadlock is
checked in every run but those where the system really stops: `front_door` and
`names_hyphen` (spelling ends at the bounds, a server that has failed is down),
`forward` (one request, which ends) and `aspire` (an AppHost that has ended).

### Fairness

- Handlers, requests and copiers are goroutines: a step that can be taken is taken
  (weak fairness per goroutine). Disk calls return.
- `Notice`, `NoticeServer`, `NoticeClient`: yamux's keep-alive and read loop
  detect a dead connection. In `Control` one condition covers a session's handler and
  its `Notice`: it asks that either goes on while one of them can.
- Clients run their loop: `HostStep`, with its timer, is weakly fair.
- `HeaderTimeout` is weakly fair once the request is written: a timer of the transport.
- In `Forward` a user who stays sends the body it announced (`WriteRequest`),
  since the code sets no deadline on that; `TunnelSystem` does not assume it. In
  `Aspire` the thread pool runs every handler, every line's task and every waiter of
  GetEndpoint. `Exited` is not fair, as an update that throws ends the callback.
- Nothing is assumed of users who leave, upstreams, the network, the disk's success,
  the child process, or whoever starts and stops server, clients and AppHost.
  `SelfHeals` therefore has the premise that the server stays up and the clients are
  kept running. `RequestIsAnswered` exempts requests that are never written in full,
  on which the code has no timer (no `ReadTimeout`, and `ResponseHeaderTimeout` starts
  after the write); `RequestEnds` opens that case and shows that, for a user who sends
  everything, a window that stays full is the only one. `HandlerEnds` likewise: an
  upstream that stays connected and stops reading is the only thing that holds a
  handler. `EndpointsResolve` asks for a client that has registered once, and exempts
  one whose lines have all thrown.

### Findings

Four runs state something the repository says and end in a counterexample.

- `reclaim`, `ReadyIsRouted`: "Re-running the same command reclaims the same
  hostname" (concepts.md:47). A handler that is past the slot's sidecar when its
  client is interrupted binds after the new session has registered, and then
  unbinds. The client is acknowledged, connected and unreachable.
  `ReclaimsUnlessTakenOver` shows that a Bind which replaces another session's entry
  is the only cause, `TurnsKeepReachable` that it takes two handlers of one of
  the client's own slots at the same time.
- `nobody`, `NobodyMeansNobody`: "no client connected for" (http.go:41), and "two
  owners cannot host the same tunnel name at once" (registry.go:22). A second
  owner takes the slot, fails at its next slot and leaves it empty; the first is
  still connected. `NobodyUnlessTakenOver`: without a takeover the answer is true.
- `names_hyphen`, `EveryPublicHostParses`: a slot `a-` is registered and given a
  host name the server refuses (docs/protocol.md:59). `ParsesBack` shows that a
  final hyphen of the slot is the only case.
- `sidecar_concurrent`, `ReadersSeeWhole`: "all mutations happen on the single
  control-plane goroutine" (docs/storage.md:108). There is a goroutine per client,
  and two of them share a temporary file. `ReadersFindWhole`: that they do not use it at
  the same time is all that is needed.

Three more show in properties of `front_door` that hold because they say exactly
how far the code goes.

- `UrlReachesFrontEnd`: with ACME the port in public URLs is derived from the
  challenge listener (handler.go:184). A custom `LISTEN_HTTPS`, as in README.md:194,
  never appears in them unless `PUBLIC_HTTP_PORT` repeats it.
- `DefaultsAreConsistent`: "Listener defaults flip when ACME is on" (config.go:57)
  is true of `ACME_EMAIL` and not of the flag `--acme-email`, which is parsed after
  the defaults are chosen.
- `TrustIsExact`: "Policy reads the header only from a trusted proxy ... Anyone else
  sending a header is refused" (listener.go:41-44) is false of a list with an address
  written `::ffff:a.b.c.d`: it becomes `::/32` (listener.go:26), the proxy it names is
  refused, and `::1` is believed. The property leaves such lists out and holds of
  all others.

One disagreement is recorded without a run. "disposed by DI on shutdown"
(AgentTunnelExtensions.cs:53) and "which kills the children" (305-309) expect the
container to dispose of `AgentTunnelHooks`. Microsoft's container disposes of what it
creates and not of an instance it is given, as with `AddSingleton(new ...)` here. That is
decided by a library outside the repository: `Shutdown` takes over its documented
behaviour, and a run would only show what was assumed.

## 4. Proofs

All theorems hold for every value of the constants that satisfies the named
assumptions of the modules: null values are none of the values they stand in for,
frames have the wire's shape, fault switches are Booleans, sizes are natural
numbers in the order the code gives them, the empty setting is no port, letters
and separators are different characters. Sets may be infinite or empty, but for
the slots of `Aspire`, which are finitely many and at least one.

| theorem | states |
|---|---|
| `TypeCorrect` | `ControlSpec => []ControlTypeOK` |
| `NoDanglingBinding` | `ControlSpec => []BoundAsRegistered` |
| `BoundOnlyIfPersisted` | `ControlSpec => []BoundIsPersisted` |
| `AckIsComplete` | `ControlSpec => []AckedStaysServed` |
| `CleanupTouchesOnlyOwn` | `ControlSpec => CleanupOnlyOwn` |
| `ControlImplementsDirectory` | `ControlSpec => ImplementsDirectory` |
| `AckMeansBound` | `ControlSpec /\ NoTakeover =>` an acknowledged session whose connection works holds all its slots, always |
| `TurnsMeanNoTakeover` | `ControlSpec /\ []TakeTurns => NoTakeover` |
| `SlotsAreIndependent` | for each slot `k`, `ControlSpec /\ []TurnsAt(k) =>` the entry of `k` is that of the acknowledged, connected session that lists it, always |
| `HandlerIsFinite` | `ControlSpec =>` each step of a handler that has read its frame lowers `StepsLeft`, at most `2 * Len(frame[s].slots) + 5`, and nobody else's raises it |
| `TunnelTypeCorrect` | `TunnelSystem`'s `TypeOK` |
| `NoRequestGoesAstray` | `[]NoMisroute` |
| `StreamsFindTheirSlot` | `[]NeverUnknownSlot` |
| `ReadyIsComplete` | `[]ReadyMeansRegistered` |
| `TunnelIsControl` | the composed `Spec => ControlSpec` |
| `TunnelImplementsDirectory` and three more corollaries | `ControlProofs`' theorems, of the composed `Spec` |
| `ReadyIsReachableUnlessTakenOver`, `ReclaimsUnlessTakenOver`, `NobodyUnlessTakenOver` | `Spec /\ NoTakeover` implies `[]ReadyIsReachable`, `[]ReadyIsRouted`, `NobodyMeansNobody` |
| `TurnsKeepReachable` | `Spec => TurnsKeepReady` |
| `ForwardTypeCorrect` | `Forward`'s `TypeOK`: no buffer overflows |
| `BytesStayInOrder` | `[]InOrder` |
| `CompleteIsComplete` | `[]WholeIsWhole` |
| `ForwardIsExchange` | `Spec => ImplementsExchange` |
| `EveryStepTells`, `WorkIsBounded` | `Spec => EveryStepCounts`, `Spec => [](ToDo \in 0 .. 4 * ReqLen + 3 * RespLen + 12)` |
| `HostNamesAreDistinct` | `SubdomainFor` gives no two registrable pairs one host name |
| `HostIsOfItsSlot`, `HostComesBack`, `ParseAcceptsHosts` | `[]NeverAnotherSlot`, `[]ParsesBack`, `[]ParseIsExact`, for strings of any length |
| `FrontDoorTypeCorrect`, `UrlsReachFrontEnd`, `RedirectsAgree`, `DefaultsLeadHome` | `[]FrontDoorTypeOK`, `[]UrlReachesFrontEnd`, `[]RedirectAgrees`, `[]DefaultsAreConsistent`, for all 65535 ports |
| `SidecarTypeCorrect` | `Spec => []TypeOK`, for any number of writers at once |
| `ReadersFindWhole`, `ReportsAreTrue`, `SidecarIsAtomic` | `TurnSpec` implies `[]ReadersSeeWhole`, `ResultIsTrue`, `ImplementsAtomicFile`, for any number of writers |
| `OneWriterIsAtomic` | where there is at most one writer, `Spec` itself implies all three |
| `AspireTypeCorrect`, `EndpointsAreUrls`, `RunningRowsHaveUrls`, `ExitIsShown`, `ClientStartsOnce` | `[]TypeOK`, `[]ResolvesToUrl`, `[]RunningHasUrl`, `[]EndIsShown`, `StartedOnceWithAll` |

*Control.* None of the properties is inductive: that the entry `BindSlot`
writes is persisted depends on what the handler did two steps before. `IInv` adds
what each stage has already established:

- `FrameInv`: a handler works on a frame from the moment it has read one, has
  bound nothing before, and in `bind` its loop variable is in range;
- `DiskInv`: from `slots` on the tunnel's sidecar is on disk, and so is that of
  each slot the loop has passed, each of kind http; in `bind` that of the current
  slot too; in `drain` the loop is over;
- `ReplyInv`: an ack that can still be read means a handler in its drain loop.

One lemma per conjunct (`TypeStep`, `FrameStep`, `DiskStep`, `ReplyStep`,
`BoundStep`, `PersistedStep`), each with one step per action that disturbs it. The
registry enters through `BindType`, `UnbindType` and `BoundEntry`. The refinement
needs `IInv` as well: `BindSlot` is a `Claim` because its key is in range, `Unbind`
is a `Leave`, `ServerStop` a `Reset`, the rest are stutters (`DirectoryStep`).

*Without takeovers.* Two findings are about clients that lose a slot unawares, and
the theorems say how far they reach. `NoTakeover` is the action property that no Bind
replaces the entry of another session (`KeepsHolder`). Under it `HeldInv` is an
invariant: the slots that a handler's loop has passed lead to its session, since
what else takes an entry away is that session's own cleanup and the end of the
process. An ack over a working connection means a handler in its drain loop, so all
slots of the frame lead to it (`AckMeansBound`), and a client that serves is
reachable. For
`NobodyMeansNobody` it takes one more invariant, `AnswerIsLast`: a request has no
answer before it has finished, so that "nobody" is the lookup's own word.
`TakeTurns` is a condition on states that whoever runs clients can see to: no two
handlers serve one slot at a time. It implies `NoTakeover` because an entry is
always that of a handler that still serves it (`BoundAsRegistered`).

Both lemmas of this argument, `HeldStep` and `TurnStep`, are about one slot `k`
(`HeldAt(k)`, `TurnsAt(k)`): what happens to `k`'s entry depends on the handlers that
list `k` and on nobody else, although a frame binds many slots in one loop and one
cleanup removes them. So the condition need only be met where it is to help.
`SlotsAreIndependent` says so of a slot, and `TurnsKeepReady` of a client: one whose
own slots never have two handlers at work at a time (a second client's, or that of
its own earlier session) is reachable whenever it is acknowledged and connected, even
if everybody else takes each other's slots over.

*The handler is finite.* `StepsLeft` counts two steps for each slot the loop has
still to pass and one for each stage after it. `HandlerCounts` takes the handler's
actions one by one; `BindSlot` is the one that needs `FrameInv`, as it lowers the
measure only if the loop variable is in range. So whichever return a handler takes
it comes to its cleanup, unless it waits: for its frame, or in the drain loop for
the end of the control stream.

*TunnelSystem.* `Simulation` shows that each step is a step of `Control` or leaves
it alone, so `Control`'s `IInv` is an invariant of the whole. On top of it
`TunnelInv` has: what a connected client's session holds is the client's own
frame, and no other client holds that session (`OwnFrame`, `SessionInv`); an ack
that waits for a client is its own (`AckInv`); a request past its lookup holds a
session whose client, if it has one, hosts the slot (`RequestInv`). The hard step
is a session identifier that is used again: it is fresh only if no entry, client
or request still refers to it, so no request can follow it to a new owner
(`NoNewHolder`).

*Forward.* What is in flight, in request order, is `uGot`, `toUp`, `buf`,
`toClient`, and what the front end has written: each is a run of consecutive
chunks, and each begins where the one before it ended as long as nothing was
lost. The lemmas on runs (`RunAppend`, `RunTail`, `RunSubSeq`, `RunConcat`,
`RunPrefix`) say what reading, writing and losing do to them; `RequestInv` and
`AnswerInv` are the two chains. `CopierInv`, `EndInv` and `WholeInv` say what
must have happened for a copier to have ended, a stream to have ended and an
answer to be taken for whole. That `Forward` refines `Exchange` needs two more:
`CausalInv`, that what has reached the upstream's connection was sent by the
user, and `RoundInv`, that the front end's stage agrees with what the user has
of the answer. Each action is one of the abstract steps or a stutter; a read of
the last chunk of an answer with a length is the one step that both hears and
ends.

`ToDo` weighs a chunk by the places it has yet to leave (four for one of the request
that is not written, one for one before the upstream), and adds the handler's stages
and the ends that are open. `StepCounts` shows for each action that it lowers `ToDo`;
that chunks never outnumber the lengths comes from `IInv`. What it says of the code
is that a failed write or read is never tried again and no end reopens. Liveness is
then a matter of waiting only: no run takes steps for ever, and whom a request or a
handler may be left waiting for is what `RequestEnds` and `HandlerEnds` say and TLC
checks.

*Names.* `HostNamesAreDistinct` does not go through the parse, which refuses some of
these names. It uses where the first `--` of a composed name is (below): if two
slots of different lengths had one host name, the tunnel of the shorter one would
begin with a hyphen, which `ValidateName` refuses (`SameSlotLength`).

The parse cuts a host name at its first `--` and its first dot. Two lemmas
say where these are in a name that was composed (`FirstSeparator`, `FirstDot`):
the first `--` is where `SubdomainFor` put it, unless the slot ends in a hyphen,
in which case what follows begins with a hyphen and `ValidateName` refuses it. That
a first position exists is the one use of well-founded induction, on a fixed
relation (`LeastIn`). For the other direction `FoldedHost` says what lower-casing and
dropping the port leave, and `SplitExact` that a cut at a separator is the pair the
host name is composed of.

*FrontDoor.* `LoadInv`: a setting no flag has named is what the environment makes of
it; `UpInv`: a server that is up has its listeners on different ports. The
URLs and redirects follow by cases on the mode and on whether the port is one of the
two that a URL leaves out; that the listeners do not clash excludes the rest.

*Sidecar.* `WriterInv`: at each stage the writer has the temporary file to itself and
its content is what that stage has made of it; `NamesInv`: in every directory the disk
may hold, the name that readers follow leads to a whole, flushed version and not to
the temporary file; `HistoryInv`: a write that is under way has had no failing call
until its error path, and readers still find what they found at its start. Only its
type is invariant without turns; the run `sidecar_concurrent` is the counterexample to
the rest. `InTurns` is a condition on the runs and not on the set of writers, which
may be of any size, and a single writer meets it by itself (`OneWriterIsAtomic`).

*Aspire.* `Gate`: of all handlers at most one is past the check of `CliStarted` or has
been, with every slot allocated, and it accounts for every client that was started;
`Reading`: what a line's task has stored so far covers the slots it has passed;
`Ended`: a row that the callback has passed can only be overwritten by a line that was
unhandled at the end.

Model-checked only: liveness (`DroppedClientReleasesSlots`, `RegisterIsAnswered`,
`RequestIsAnswered`, `SelfHeals`, `RequestEnds`, `HandlerEnds`, `EndpointsResolve`),
since liveness under fairness and ENABLED are beyond the prover. `TrustIsExact`, on
finite lists over a few addresses, is model-checked only as well. Every other property
of the passing runs is a theorem; for `Forward` and the handlers of `Control`, the
half of termination that is safety (a measure that every step lowers) is one too. That
liveness carries over from `Forward` to its abstraction is not claimed: `Exchange`
states no fairness.

## 5. What is left out

- *Inside a step.* `Control` treats a write of a sidecar as one step that happens or
  fails; `Sidecar` opens that step, and shows it is right for writers that take turns
  and wrong for two at once. A failed write leaves the set of sidecars as it was.
- *Payloads.* JSON text, URLs, headers, log lines, the fields of a sidecar (among
  them `CreatedAt`, which every registration overwrites), and the pings of the
  drain loop, which change no state.
- *Time.* A pause or a timeout may be of any length, so the doubling of the
  client's back-off and the rule that resets it are not modelled.
- *Upgrades.* A WebSocket through the tunnel is bytes after an answer's header, for
  which the front end has neither length nor timer.
- *Half-closed connections.* An upstream in `Forward` closes both directions at
  once.
- *The window in `Router`.* A request there is written in full or not (yet);
  `Forward` has the window itself.
- `PublicKeys` lets a request ask for any pair of valid names, also for a slot that
  ends in a hyphen, which no host name parses to.
- *Settings nothing else depends on*: the data directory, the domain, the
  authentication mode, the ACME token and directory.
- *Aspire.* How the binary is found (`ResolveCliBinary`, `WithLocalSource`), the
  override of public URLs and the builder's setters, which run before anything
  else. That the client outlives the AppHost is in `Shutdown` and in no property (see
  the end of Findings).
- *Not modelled:* the command line's text, the installation scripts, the
  development container, CI and documentation.
- The libraries (yamux, websocket, net/http, certmagic, go-proxyproto, .NET's
  Process and Aspire's notifications) are modelled from how the code uses them.

## 6. Plan

Done: every part of the running program, with the exceptions above, and proofs of
all safety properties but one (`TrustIsExact`). What could follow:

1. The back-off of `serve` as a function of how long runs last, with time as a
   counter.
2. `Forward` as a refinement of `Router`'s request, with several requests on one
   session. `Forward` implements `Exchange`; that `Router`'s steps do is still
   seen from the code and not from a proof.
