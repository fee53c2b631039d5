----------------------------- MODULE ProxyPolicy -----------------------------
(***************************************************************************)
(* Which peers of the public front end may speak for others: the list      *)
(* PROXY_PROTOCOL_TRUSTED and the policy made of it, internal/proxyproto.  *)
(* A network is the set of its addresses.                                  *)
(***************************************************************************)
EXTENDS Naturals, Sequences

CONSTANTS
  Addresses,  \* of peers and of clients
  ZeroBlock   \* those of them in ::/32

\* An entry of the list: how it is written, and the addresses it names.
\* "mapped" is an IPv4 address written as ::ffff:a.b.c.d.
Entries == [kind: {"blank", "address", "mapped", "cidr", "bad"},
            names: SUBSET Addresses]

ASSUME ZeroBlockAssumption == ZeroBlock \subseteq Addresses

\* An address becomes /32 or /128.  A mapped one has a To4, so it becomes /32,
\* which ParseCIDR counts from the left of the 128 bits.
NetOf(e) == IF e.kind = "mapped" THEN ZeroBlock ELSE e.names

Range(list) == {list[i] : i \in 1..Len(list)}

\* ParseTrusted returns an error.
Invalid(list) == \E e \in Range(list) : e.kind = "bad"

ParseTrusted(list) == {NetOf(e) : e \in {x \in Range(list) : x.kind # "blank"}}

\* Mutant of Policy: peers that are not trusted may still send a header.
PolicyLenient(trusted, peer) == "USE"

Policy(trusted, peer) ==
  IF \E n \in trusted : peer \in n THEN "USE" ELSE "REJECT"

\* The address the server sees for a connection from peer, which may begin
\* with a header that claims another; None if it is refused.  Wrap: without
\* trusted proxies a header is just bytes that are not HTTP or TLS.
RemoteAddr(trusted, peer, claim, None) ==
  IF claim = None THEN peer
  ELSE IF trusted # {} /\ Policy(trusted, peer) = "USE" THEN claim ELSE None
=============================================================================
