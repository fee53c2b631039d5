------------------------------ MODULE MCControl ------------------------------
(***************************************************************************)
(* The control plane for TLC: a complete registration of two slots, one    *)
(* that is refused after its first slot is bound, and a frame for each     *)
(* stage at which the handler refuses one.  The sessions contend for "web". *)
(***************************************************************************)
EXTENDS Control

Http(n) == [name |-> n, kind |-> "http"]

FrameFor(o, t, ss) == [type |-> "register", owner |-> o, tunnel |-> t, slots |-> ss]

MCOwners    == {"bob", "-bad"}
MCTunnels   == {"app"}
MCSlotNames == {"web", "api", "-bad"}
MCBadNames  == {"-bad"}

MCFrames ==
  { FrameFor("bob", "app", <<Http("web"), Http("api")>>),
    FrameFor("bob", "app", <<Http("web"), Http("-bad")>>),
    FrameFor("bob", "app", <<[Http("web") EXCEPT !.kind = "tcp"]>>),
    FrameFor("-bad", "app", <<>>),
    [FrameFor("bob", "app", <<>>) EXCEPT !.type = "garbage"] }
=============================================================================
