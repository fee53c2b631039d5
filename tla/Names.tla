-------------------------------- MODULE Names --------------------------------
(***************************************************************************)
(* The names that make up a public host name, src/protocol/names.go: the   *)
(* check every name passes before it is registered, the subdomain that is  *)
(* handed out for a slot, and the parse of a request's Host header that    *)
(* decides which slot the request is for.  A string is a sequence of       *)
(* characters; letters that are treated alike need only one or two         *)
(* representatives.                                                        *)
(***************************************************************************)
EXTENDS Naturals, Sequences

CONSTANTS
  Alnum,   \* the characters a-z and 0-9
  Upper,   \* the characters A-Z
  Lower    \* Lower[c]: the lower case of c

ASSUME AlphabetAssumption ==
  /\ Lower \in [Upper -> Alnum]
  /\ Alnum \cap {"-", ".", ":"} = {}
  /\ Upper \cap (Alnum \cup {"-", ".", ":"}) = {}

Char == Alnum \cup Upper \cup {"-", ".", ":"}

\* SlotSeparator occurs in n at position i.
SepAt(n, i) == n[i] = "-" /\ n[i + 1] = "-"
Seps(n) == {i \in 1..(Len(n) - 1) : SepAt(n, i)}

\* Mutant of ValidateName: the check for the separator is left out.
ValidateNameRx(n) ==
  /\ n # <<>>
  /\ n[1] \in Alnum
  /\ \A i \in 1..Len(n) : n[i] \in Alnum \cup {"-"}

\* ^[a-z0-9][a-z0-9-]*$, and no separator.
ValidateName(n) ==
  /\ n # <<>>
  /\ n[1] \in Alnum
  /\ \A i \in 1..Len(n) : n[i] \in Alnum \cup {"-"}
  /\ Seps(n) = {}

SubdomainFor(slot, tunnel) == slot \o <<"-", "-">> \o tunnel

Least(S) == CHOOSE i \in S : \A j \in S : i <= j

\* The positions of character c in h.
Occurs(h, c) == {i \in 1..Len(h) : h[i] = c}

UpTo(h, n) == SubSeq(h, 1, n)
After(h, n) == SubSeq(h, n + 1, Len(h))

StripPort(h) ==
  IF Occurs(h, ":") = {} THEN h ELSE UpTo(h, Least(Occurs(h, ":")) - 1)

ToLower(h) == [i \in 1..Len(h) |-> IF h[i] \in Upper THEN Lower[h[i]] ELSE h[i]]

\* ok = FALSE
NoMatch == [slot |-> <<>>, tunnel |-> <<>>]

\* Mutant of Split: the two names are not validated.
SplitUnchecked(prefix) ==
  IF Seps(prefix) = {} THEN NoMatch
  ELSE [slot   |-> UpTo(prefix, Least(Seps(prefix)) - 1),
        tunnel |-> After(prefix, Least(Seps(prefix)) + 1)]

\* The first label of the host, at its first separator.
Split(prefix) ==
  LET sep    == Least(Seps(prefix))
      slot   == UpTo(prefix, sep - 1)
      tunnel == After(prefix, sep + 1)
  IN  IF Seps(prefix) # {} /\ ValidateName(slot) /\ ValidateName(tunnel)
        THEN [slot |-> slot, tunnel |-> tunnel] ELSE NoMatch

ParseSubdomain(host) ==
  LET h    == ToLower(StripPort(host))
      dots == Occurs(h, ".")
  IN  IF dots = {} THEN NoMatch ELSE Split(UpTo(h, Least(dots) - 1))

-----------------------------------------------------------------------------
(* Inputs.  A behaviour spells a pair of names or a host name.             *)

CONSTANTS MaxName, MaxHost   \* bounds on their lengths

VARIABLES slot, tunnel, host

vars == <<slot, tunnel, host>>

Init == slot = <<>> /\ tunnel = <<>> /\ host = <<>>

SpellSlot   == /\ host = <<>> /\ Len(slot) < MaxName
               /\ \E c \in Char : slot' = Append(slot, c)
               /\ UNCHANGED <<tunnel, host>>
SpellTunnel == /\ host = <<>> /\ Len(tunnel) < MaxName
               /\ \E c \in Char : tunnel' = Append(tunnel, c)
               /\ UNCHANGED <<slot, host>>
SpellHost   == /\ slot = <<>> /\ tunnel = <<>> /\ Len(host) < MaxHost
               /\ \E c \in Char : host' = Append(host, c)
               /\ UNCHANGED <<slot, tunnel>>

Next == SpellSlot \/ SpellTunnel \/ SpellHost

Spec == Init /\ [][Next]_vars

-----------------------------------------------------------------------------

Pair == [slot |-> slot, tunnel |-> tunnel]
Registrable == ValidateName(slot) /\ ValidateName(tunnel)
PublicHost == SubdomainFor(slot, tunnel) \o <<".">>
EndsInHyphen(n) == n # <<>> /\ n[Len(n)] = "-"

\* A host name that parses is, but for case, port and domain, the subdomain of
\* the two names it parses to, and those are names a client can register; a
\* host name that does not parse is that of no registrable pair, except of one
\* whose slot ends in a hyphen.
ParseIsExact ==
  LET h == ToLower(StripPort(host))
      p == ParseSubdomain(host)
      IsHostOf(s, t) ==
        LET d == SubdomainFor(s, t) \o <<".">>
        IN  Len(d) <= Len(h) /\ UpTo(h, Len(d)) = d
      \* the ways to cut h into slot, separator, tunnel and dot
      Cuts == {<<UpTo(h, i - 1), SubSeq(h, i + 2, j - 1)>> :
                 i \in Seps(h), j \in Occurs(h, ".")}
  IN  /\ p # NoMatch => /\ ValidateName(p.slot) /\ ValidateName(p.tunnel)
                        /\ IsHostOf(p.slot, p.tunnel)
      /\ p = NoMatch =>
           \A c \in {x \in Cuts : ValidateName(x[1]) /\ ValidateName(x[2])} :
             IsHostOf(c[1], c[2]) => EndsInHyphen(c[1])

\* A request for the host name a slot was given never reaches another slot.
NeverAnotherSlot ==
  Registrable => ParseSubdomain(PublicHost) \in {Pair, NoMatch}

\* Two names that can be registered and whose slot does not end in a hyphen
\* come back from the host name they were given.
ParsesBack ==
  Registrable /\ ~ EndsInHyphen(slot) => ParseSubdomain(PublicHost) = Pair

\* Every host name handed out is one the server parses: "Server parses `Host:
\* <slot>--<tunnel>.<TLS_DOMAIN>` [...] slot and tunnel names match
\* ^[a-z0-9][a-z0-9-]*$" (docs/protocol.md:59).
EveryPublicHostParses == Registrable => ParseSubdomain(PublicHost) = Pair
=============================================================================
