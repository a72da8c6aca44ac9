---------------------------- MODULE MCEventSystem ----------------------------
(***************************************************************************)
(* Two events, the first with up to three subscribers, so that an unsubscribe *)
(* can move the last entry to a place the loop has passed or has not.         *)
(***************************************************************************)
EXTENDS EventSystem, TLC

CONSTANTS e1, e2, c1, c2, c3

MCEvent == {e1, e2}
MCCallback == {c1, c2, c3}
MCInterest == c1 :> {e1, e2} @@ c2 :> {e1} @@ c3 :> {e1}
=============================================================================
