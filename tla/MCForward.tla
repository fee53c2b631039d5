------------------------------ MODULE MCForward ------------------------------
(* Forward for TLC: a request of a line, a header and a body that overflows *)
(* every buffer on its way, an answer of a header and two chunks.           *)
EXTENDS Forward
=============================================================================
