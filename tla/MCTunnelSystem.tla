--------------------------- MODULE MCTunnelSystem ---------------------------
(***************************************************************************)
(* The tunnel for TLC: two command lines.  Contending ones belong to two   *)
(* owners and share the slot web--app; apart ones share nothing.           *)
(***************************************************************************)
EXTENDS TunnelSystem, TLC

Http(n) == [name |-> n, kind |-> "http"]

FrameFor(o, t, ns) == [type |-> "register", owner |-> o, tunnel |-> t,
                       slots |-> [i \in 1..Len(ns) |-> Http(ns[i])]]

MCOwners    == {"alice", "bob"}
MCTunnels   == {"app", "blog"}
MCSlotNames == {"web", "api"}
OneTunnel   == {"app"}
OneSlot     == {"web"}

MCClients  == {"c1", "c2"}
Contending == [c1 |-> FrameFor("alice", "app", <<"web", "api">>),
               c2 |-> FrameFor("bob", "app", <<"web">>)]
Apart      == [c1 |-> FrameFor("alice", "app", <<"web">>),
               c2 |-> FrameFor("bob", "blog", <<"web">>)]
Alone      == [c1 |-> FrameFor("alice", "app", <<"web">>)]

FramesContending == {Contending[c] : c \in MCClients}
FramesApart      == {Apart[c] : c \in MCClients}
FramesAlone      == {Alone["c1"]}

Symmetry == Permutations(Sessions)
=============================================================================
