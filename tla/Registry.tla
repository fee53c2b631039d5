------------------------------ MODULE Registry ------------------------------
(***************************************************************************)
(* The in-memory table of slot bindings, internal/sessions/registry.go.    *)
(* The table is the only state the control plane and the HTTP front end    *)
(* share.  Every method holds the mutex from its first line to its last,   *)
(* so each is one operator on the table; the modules that EXTEND this one  *)
(* keep the table in a variable and use an operator in a single step.      *)
(*                                                                         *)
(* A Go map that lacks a key is a total function that holds NoEntry there. *)
(***************************************************************************)
CONSTANTS
  Owners,      \* owner names a register frame can carry
  Tunnels,     \* tunnel names a register frame can carry
  SlotNames,   \* slot names a register frame can carry
  BadNames,    \* those of the three sets above that ValidateName refuses
  Sessions,    \* yamux sessions (the pointers *yamux.Session)
  NoEntry      \* nil

Keys == Tunnels \X SlotNames

\* The map's key leaves the owner out.
key(tunnel, slot) == <<tunnel, slot>>

Entry == [Tunnel: Tunnels, Slot: SlotNames, Session: Sessions,
          OwnerKey: Owners \X Tunnels]

ASSUME NoEntryAssumption == NoEntry \notin Entry \cup Sessions

ValidateName(name) == name \notin BadNames

Table == [Keys -> Entry \cup {NoEntry}]

New == [k \in Keys |-> NoEntry]

\* Sets or replaces the binding of the entry's key.  The previous entry is
\* returned to a caller that drops it (handler.go:121), so only the table
\* matters.
Bind(m, e) == [m EXCEPT ![key(e.Tunnel, e.Slot)] = e]

\* Mutants of Lookup: a table keyed by the slot alone, or by the tunnel alone.
LookupBySlot(m, tunnel, slot) ==
  IF \E k \in Keys : k[2] = slot /\ m[k] # NoEntry
    THEN m[CHOOSE k \in Keys : k[2] = slot /\ m[k] # NoEntry] ELSE NoEntry

LookupByTunnel(m, tunnel, slot) ==
  IF \E k \in Keys : k[1] = tunnel /\ m[k] # NoEntry
    THEN m[CHOOSE k \in Keys : k[1] = tunnel /\ m[k] # NoEntry] ELSE NoEntry

Lookup(m, tunnel, slot) == m[key(tunnel, slot)]

\* Key k is bound to session s.
HeldBy(m, k, s) == m[k] # NoEntry /\ m[k].Session = s

\* Mutants of UnbindSession: it clears the tunnel of any slot s holds; it stops
\* at the first entry it deletes.
UnbindTunnel(m, s) ==
  [k \in Keys |-> IF \E l \in Keys : l[1] = k[1] /\ HeldBy(m, l, s)
                   THEN NoEntry ELSE m[k]]

UnbindFirst(m, s) ==
  LET held == {k \in Keys : HeldBy(m, k, s)}
  IN  [k \in Keys |-> IF k \in held /\ k = CHOOSE l \in held : TRUE
                       THEN NoEntry ELSE m[k]]

\* Removes every entry that points at s, and no other.
UnbindSession(m, s) ==
  [k \in Keys |-> IF HeldBy(m, k, s) THEN NoEntry ELSE m[k]]
=============================================================================
