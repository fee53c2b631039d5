----------------------------- MODULE MCFrontDoor -----------------------------
(***************************************************************************)
(* Settings of every kind: default ports, ports of the other scheme, custom *)
(* ports, ports that clash, lists of trusted proxies written in every way.  *)
(* Names: one lower-case letter, its upper case, every special character.   *)
(***************************************************************************)
EXTENDS FrontDoor

MCAlnum == {"a"}
MCUpper == {"A"}
MCLower == [c \in MCUpper |-> "a"]

\* p: the proxy; q: a client's IPv4 address; z: one in ::/32
MCAddresses == {"p", "q", "z"}
MCZeroBlock == {"z"}

List(kind, names) == <<[kind |-> kind, names |-> names]>>
Blank == [kind |-> "blank", names |-> {}]

MCLists == { List("address", {"p"}), List("cidr", {"p", "q"}) \o <<Blank>>,
             List("mapped", {"p"}), <<Blank>> \o List("bad", {}) }

MCChoices ==
  [f \in Fields |->
     CASE f = "ListenHTTP"       -> {80, 443, 8080}
       [] f = "ListenHTTPS"      -> {443, 8443}
       [] f = "ListenControl"           -> {443}
       [] f = "PublicHTTPPort"  -> {443, 8080, 8443}
       [] f = "Email"        -> {"ops"}
       [] f = "DNSProvider" -> {"other"}
       [] OTHER                   -> MCLists]
=============================================================================
