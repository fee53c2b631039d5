--------------------------- MODULE SlotDirectory ---------------------------
(***************************************************************************)
(* What the control plane promises about slots, with no frames, disks,     *)
(* loops or connections: a directory from public slot to the session that  *)
(* serves it.  A session that is live may claim slots, the last claim      *)
(* wins, and when a session leaves all it still holds is given up in one   *)
(* step, and nothing that belongs to anybody else.                         *)
(***************************************************************************)
CONSTANTS Keys, Sessions, Nobody

VARIABLES dir,   \* dir[k]: the session slot k leads to, or Nobody
          live   \* the sessions that may hold slots

vars == <<dir, live>>

TypeOK == /\ dir \in [Keys -> Sessions \cup {Nobody}]
          /\ live \subseteq Sessions

Init == /\ dir = [k \in Keys |-> Nobody]
        /\ live = {}

Enter(s) == /\ s \notin live
            /\ live' = live \cup {s}
            /\ UNCHANGED dir

Claim(s, k) == /\ s \in live
               /\ dir' = [dir EXCEPT ![k] = s]
               /\ UNCHANGED live

Leave(s) == /\ s \in live
            /\ live' = live \ {s}
            /\ dir' = [k \in Keys |-> IF dir[k] = s THEN Nobody ELSE dir[k]]

\* The server process ends: every binding and session is gone at once.
Reset == /\ live' = {}
         /\ dir' = [k \in Keys |-> Nobody]

Next == \/ \E s \in Sessions : Enter(s) \/ Leave(s)
        \/ \E s \in Sessions, k \in Keys : Claim(s, k)
        \/ Reset

Spec == Init /\ [][Next]_vars

\* A slot never leads to a session that is not live.
NoDanglingSlot == \A k \in Keys : dir[k] # Nobody => dir[k] \in live
=============================================================================
