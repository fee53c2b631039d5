------------------------------- MODULE Router -------------------------------
(***************************************************************************)
(* The public HTTP front end, internal/router/http.go: one goroutine per   *)
(* request looks the host name up in the registry and sends the request    *)
(* down a new stream of the session it finds.  It takes no lock across     *)
(* these steps: the session may end, or lose the slot, in between.         *)
(*                                                                         *)
(* rpc[r] is where request r stands, asked[r] the slot its host name       *)
(* names, entry[r] the entry found, answer[r] what the user gets.          *)
(***************************************************************************)
EXTENDS Control

CONSTANTS
  Requests,   \* requests in flight at a time
  NoKey,      \* a host name that is not <slot>--<tunnel>.<domain>
  NoOne       \* no client has taken the stream

VARIABLES rpc, asked, entry, answer,
          written,  \* the whole request has been sent down the stream
          by        \* the client that answers

routerVars == <<rpc, asked, entry, answer, written, by>>

ASSUME NoKeyAssumption == NoKey \notin Keys

\* The slots a host name can lead to: ParseSubdomain validates both names.
PublicKeys == {k \in Keys : ValidateName(k[1]) /\ ValidateName(k[2])}

Answers == {"none", "not_found", "nobody", "unknown_slot", "bad_gateway", "served"}
Streaming == {"stream", "upstream"}

RouterTypeOK(clients) ==
  /\ rpc \in [Requests -> Streaming \cup {"idle", "lookup", "dial", "done"}]
  /\ asked \in [Requests -> PublicKeys \cup {NoKey}]
  /\ entry \in [Requests -> Entry \cup {NoEntry}]
  /\ answer \in [Requests -> Answers]
  /\ written \in [Requests -> BOOLEAN]
  /\ by \in [Requests -> clients \cup {NoOne}]

RouterInit ==
  /\ rpc = [r \in Requests |-> "idle"]
  /\ asked = [r \in Requests |-> NoKey]
  /\ entry = [r \in Requests |-> NoEntry]
  /\ answer = [r \in Requests |-> "none"]
  /\ written = [r \in Requests |-> FALSE]
  /\ by = [r \in Requests |-> NoOne]

\* Request r moves on to stage.
Proceed(r, stage) == /\ rpc' = [rpc EXCEPT ![r] = stage]
                     /\ UNCHANGED answer

\* The user gets answer a; the entry is no longer needed.
Answer(r, a) == /\ answer' = [answer EXCEPT ![r] = a]
                /\ rpc' = [rpc EXCEPT ![r] = "done"]
                /\ entry' = [entry EXCEPT ![r] = NoEntry]
                /\ written' = [written EXCEPT ![r] = FALSE]

\* A request refers to session s: the garbage collector keeps it.
HoldsSession(r, s) == entry[r] # NoEntry /\ entry[r].Session = s

\* A request comes in; a host name that does not parse gets a 404.
Arrive(r, k) ==
  /\ up /\ rpc[r] = "idle"
  /\ asked' = [asked EXCEPT ![r] = k]
  /\ \/ k = NoKey /\ Answer(r, "not_found")
     \/ k # NoKey /\ Proceed(r, "lookup") /\ UNCHANGED <<entry, written>>
  /\ UNCHANGED by

LookupEntry(r) ==
  LET e == Lookup(m, asked[r][1], asked[r][2]) IN
  /\ rpc[r] = "lookup"
  /\ \/ e = NoEntry /\ Answer(r, "nobody")
     \/ /\ e # NoEntry
        /\ entry' = [entry EXCEPT ![r] = e]
        /\ Proceed(r, "dial")
        /\ UNCHANGED written
  /\ UNCHANGED <<asked, by>>

\* DialContext: OpenStream and the line with the slot's name.
OpenStream(r) ==
  /\ rpc[r] = "dial"
  /\ \/ conn[entry[r].Session] = "closed" /\ Answer(r, "bad_gateway")
     \/ /\ conn[entry[r].Session] # "closed"
        /\ Proceed(r, "stream")
        /\ UNCHANGED <<entry, written>>
  /\ UNCHANGED <<asked, by>>

\* The last of the request has gone down the stream.  Nothing makes a user send
\* the body it announced, nor a client read what exceeds the stream's window:
\* the server sets no ReadTimeout and the transport no limit on writing.
WriteRequest(r) ==
  /\ rpc[r] \in Streaming /\ ~ written[r]
  /\ conn[entry[r].Session] # "closed"
  /\ written' = [written EXCEPT ![r] = TRUE]
  /\ UNCHANGED <<rpc, asked, entry, answer, by>>

\* handleInbound of client c, whose upstreams are those of the slots in
\* listed: refuse the slot, fail to dial the upstream, or reach it.
HandleInbound(r, c, listed) ==
  /\ rpc[r] = "stream" /\ conn[entry[r].Session] = "up"
  /\ \/ asked[r][2] \notin listed /\ Answer(r, "unknown_slot") /\ UNCHANGED by
     \/ asked[r][2] \in listed /\ Answer(r, "bad_gateway") /\ UNCHANGED by
     \/ /\ asked[r][2] \in listed
        /\ by' = [by EXCEPT ![r] = c]
        /\ Proceed(r, "upstream")
        /\ UNCHANGED <<entry, written>>
  /\ UNCHANGED asked

\* The upstream's answer comes back through the stream.  Nothing makes an
\* upstream answer.
UpstreamAnswers(r) ==
  /\ rpc[r] = "upstream" /\ conn[entry[r].Session] = "up"
  /\ Answer(r, "served")
  /\ UNCHANGED <<asked, by>>

\* The session closes and its streams with it: the transport fails.
StreamDies(r) ==
  /\ rpc[r] \in Streaming /\ conn[entry[r].Session] = "closed"
  /\ Answer(r, "bad_gateway")
  /\ UNCHANGED <<asked, by>>

\* Mutant of HeaderTimeout: the transport sets no timeout.
NoHeaderTimeout(r) == rpc[r] \in Streaming /\ written[r] /\ UNCHANGED routerVars

\* ResponseHeaderTimeout, which only starts when the whole request is written.
HeaderTimeout(r) ==
  /\ rpc[r] \in Streaming /\ written[r]
  /\ Answer(r, "bad_gateway")
  /\ UNCHANGED <<asked, by>>

ResetRequests(R) ==
  /\ rpc' = [r \in Requests |-> IF r \in R THEN "idle" ELSE rpc[r]]
  /\ asked' = [r \in Requests |-> IF r \in R THEN NoKey ELSE asked[r]]
  /\ entry' = [r \in Requests |-> IF r \in R THEN NoEntry ELSE entry[r]]
  /\ answer' = [r \in Requests |-> IF r \in R THEN "none" ELSE answer[r]]
  /\ written' = [r \in Requests |-> IF r \in R THEN FALSE ELSE written[r]]
  /\ by' = [r \in Requests |-> IF r \in R THEN NoOne ELSE by[r]]

\* The handler returns once the answer is out, or the user hangs up.
Finish(r) == rpc[r] # "idle" /\ ResetRequests({r})

\* What the front end does of itself.
RouterStep(r) == LookupEntry(r) \/ OpenStream(r) \/ StreamDies(r) \/ HeaderTimeout(r)
=============================================================================
