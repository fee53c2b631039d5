------------------------------- MODULE MCNames -------------------------------
(***************************************************************************)
(* One lower-case letter, its upper case, and every special character.     *)
(***************************************************************************)
EXTENDS Names

MCAlnum == {"a"}
MCUpper == {"A"}
MCLower == [c \in MCUpper |-> "a"]
=============================================================================
