------------------------------ MODULE Exchange ------------------------------
(***************************************************************************)
(* What the tunnel promises about one request and its answer, with no      *)
(* streams, windows, buffers or copiers: the upstream takes no more than   *)
(* the user has sent, the user hears no more than the upstream has said,   *)
(* nothing is said before something is taken, and the way the exchange     *)
(* ends agrees with what was heard.  An exchange stops being sound when    *)
(* the link breaks or the upstream closes on an unread request; only then  *)
(* may an answer without a length be cut short unnoticed.                  *)
(***************************************************************************)
EXTENDS Naturals

CONSTANTS Request, Answer   \* chunks of each, without the tunnel's own line

VARIABLES
  sent, taken,  \* chunks of the request: by the user, by the upstream
  said, heard,  \* chunks of the answer: by the upstream, by the user
  framing,      \* "length": the answer tells its length; "close"
  sound,
  outcome       \* what the user makes of the exchange; "none" as yet

vars == <<sent, taken, said, heard, framing, sound, outcome>>

Init ==
  /\ sent = 0 /\ taken = 0 /\ said = 0 /\ heard = 0
  /\ framing \in {"length", "close"} /\ sound = TRUE /\ outcome = "none"

Send == /\ outcome = "none" /\ sent < Request /\ sent' = sent + 1
        /\ UNCHANGED <<taken, said, heard, framing, sound, outcome>>

Take == /\ taken < sent /\ taken' = taken + 1
        /\ UNCHANGED <<sent, said, heard, framing, sound, outcome>>

Say == /\ taken > 0 /\ said < Answer /\ said' = said + 1
       /\ UNCHANGED <<sent, taken, heard, framing, sound, outcome>>

\* The last chunk of an answer that tells its length completes it.
Hear ==
  /\ outcome = "none" /\ heard < said /\ heard' = heard + 1
  /\ outcome' = IF framing = "length" /\ heard' = Answer THEN "whole" ELSE "none"
  /\ UNCHANGED <<sent, taken, said, framing, sound>>

Break == /\ sound /\ sound' = FALSE
         /\ UNCHANGED <<sent, taken, said, heard, framing, outcome>>

\* A bad gateway comes instead of an answer, never after a part of one.
End ==
  /\ outcome = "none"
  /\ \/ outcome' = "left"
     \/ outcome' = "bad_gateway" /\ heard = 0
     \/ outcome' = "cut" /\ framing = "length" /\ heard \in 1 .. Answer - 1
     \/ /\ outcome' = "whole" /\ framing = "close"
        /\ heard > 0 /\ (heard = said \/ ~ sound)
  /\ UNCHANGED <<sent, taken, said, heard, framing, sound>>

Next == Send \/ Take \/ Say \/ Hear \/ Break \/ End

Spec == Init /\ [][Next]_vars
=============================================================================
