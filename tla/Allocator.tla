------------------------------ MODULE Allocator ------------------------------
(***************************************************************************)
(* What an allocator of banked memory promises: a block it hands out shares   *)
(* no cell with a block that is in use, and a block stays in use, where and   *)
(* as large as it is, until its owner gives it back.                         *)
(***************************************************************************)
EXTENDS Integers

CONSTANTS
    Bank,
    Base, Limit    \* a bank's cells are Base..Limit-1

VARIABLE live      \* the blocks in use

Block == {b \in [bank : Bank, at : Base..(Limit - 1), size : 1..(Limit - Base)] : b.at + b.size <= Limit}

Apart(b, c) == b.bank # c.bank \/ b.at + b.size <= c.at \/ c.at + c.size <= b.at

Init == live = {}

Alloc(b) ==
    /\ \A c \in live : Apart(b, c)
    /\ live' = live \cup {b}

Free(b) == live' = live \ {b}

\* The new block is taken while the old one is still in use.
Move(b, c) ==
    /\ \A d \in live : Apart(c, d)
    /\ live' = (live \ {b}) \cup {c}

\* Everything in these banks is given up.
Reset(B) == live' = {b \in live : b.bank \notin B}

Next ==
    \/ \E b \in Block : Alloc(b)
    \/ \E b \in live : Free(b)
    \/ \E b \in live, c \in Block : Move(b, c)
    \/ \E B \in SUBSET Bank : Reset(B)

Spec == Init /\ [][Next]_live
=============================================================================
