------------------------------ MODULE MCAspire ------------------------------
(***************************************************************************)
(* One tunnel with two referenced resources, one of which raises its event *)
(* twice, and GetEndpoint also called for one that was never referenced.   *)
(***************************************************************************)
EXTENDS Aspire

MCSourceOf == [e1 |-> "web", e2 |-> "api", e3 |-> "web"]
=============================================================================
