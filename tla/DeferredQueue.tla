---------------------------- MODULE DeferredQueue ----------------------------
(***************************************************************************)
(* What deferring an event promises: an accepted event is delivered once, in  *)
(* the order of acceptance, one at a time; only clearing the queue drops it.  *)
(***************************************************************************)
EXTENDS Sequences

CONSTANTS Message, Nobody

VARIABLES
    pending,       \* accepted and not yet delivered
    current        \* the event being delivered, or Nobody

vars == <<pending, current>>

Init == pending = <<>> /\ current = Nobody

Accept(m) ==
    /\ pending' = Append(pending, m)
    /\ UNCHANGED current

Deliver ==
    /\ pending # <<>> /\ current = Nobody
    /\ current' = Head(pending)
    /\ pending' = Tail(pending)

Done ==
    /\ current # Nobody
    /\ current' = Nobody
    /\ UNCHANGED pending

Clear ==
    /\ current = Nobody
    /\ pending' = <<>>
    /\ UNCHANGED current

Next == (\E m \in Message : Accept(m)) \/ Deliver \/ Done
=============================================================================
