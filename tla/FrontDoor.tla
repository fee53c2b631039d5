------------------------------ MODULE FrontDoor ------------------------------
(***************************************************************************)
(* The public side of the server: the settings decide which port public    *)
(* URLs name (Settings), a connection passes the policy of the PROXY       *)
(* protocol (ProxyPolicy), the Host header of a request is parsed (Names). *)
(*                                                                         *)
(* A behaviour either spells names and host names or starts a server and   *)
(* sends it a connection: the settings have no part in the parse.          *)
(***************************************************************************)
EXTENDS Names, Settings, ProxyPolicy

CONSTANT None   \* no address

VARIABLES peer, claim, remote   \* the connection, and who it seems to be from

connectionVars == <<peer, claim, remote>>

FrontDoorTypeOK ==
  /\ SettingsTypeOK
  /\ peer \in Addresses \cup {None} /\ claim \in Addresses \cup {None}
  /\ remote \in Addresses \cup {None}

FrontDoorInit == /\ Init /\ SettingsInit
                 /\ peer = None /\ claim = None /\ remote = None

TrustedList == IF cfg.ProxyProtocolTrusted = Empty THEN <<>>
               ELSE cfg.ProxyProtocolTrusted

Spell == stage = "env" /\ Next /\ UNCHANGED <<settingsVars, connectionVars>>

Configure == /\ slot = <<>> /\ tunnel = <<>> /\ host = <<>>
             /\ \/ \E e \in Config : ReadEnv(e)
                \/ \E f \in Fields : \E v \in May(f) : ParseFlag(f, v)
                \/ Serve(~ Invalid(TrustedList))
             /\ UNCHANGED <<vars, connectionVars>>

\* The front end's listener accepts a connection from p that claims a.
Connect(p, a) == /\ stage = "up" /\ peer = None
                 /\ peer' = p /\ claim' = a
                 /\ remote' = RemoteAddr(ParseTrusted(TrustedList), p, a, None)
                 /\ UNCHANGED <<vars, settingsVars>>

FrontDoorNext ==
  \/ Spell \/ Configure
  \/ \E p \in Addresses, a \in Addresses \cup {None} : Connect(p, a)

FrontDoorVars == <<vars, settingsVars, connectionVars>>

FrontDoorSpec == FrontDoorInit /\ [][FrontDoorNext]_FrontDoorVars

-----------------------------------------------------------------------------

\* "allowed to prefix public-frontend connections with a PROXY protocol header"
\* (config.go:23), "Anyone else sending a header is refused" (listener.go:43):
\* a connection that claims nothing comes from its peer; one that claims an
\* address is believed if the list names the peer, and refused if it does not.
HeaderNeedsTrust ==
  peer # None =>
    remote = CASE claim = None -> peer
               [] claim # None /\ (\E e \in Range(TrustedList) : peer \in e.names) -> claim
               [] OTHER -> None

\* So it is unless the list names an address as ::ffff:a.b.c.d, whatever way the
\* list has taken from the environment or the command line to the listener.
TrustIsExact ==
  (\A e \in Range(TrustedList) : e.kind # "mapped") => HeaderNeedsTrust
=============================================================================
