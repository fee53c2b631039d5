----------------------------- MODULE AtomicFile -----------------------------
(***************************************************************************)
(* What a store whose writes are atomic promises about one file: it holds  *)
(* nothing or one whole version, a write that reports success has replaced *)
(* what was there, one that fails has left it alone, and a loss of power   *)
(* takes the file back to what it held at a moment since the disk last     *)
(* caught up with it.                                                      *)
(***************************************************************************)
CONSTANTS Versions, Nothing

VARIABLES value,    \* what a reader finds
          stored    \* what a reader may find after a loss of power

vars == <<value, stored>>

Init == value = Nothing /\ stored = {Nothing}

Put(v) == value' = v /\ stored' = stored \cup {v}

\* The power fails.
Revert == value' \in stored /\ stored' = {value'}

\* The disk catches up.
Settle == value' = value /\ stored' = {value}

Next == (\E v \in Versions : Put(v)) \/ Revert \/ Settle

Spec == Init /\ [][Next]_vars
=============================================================================
