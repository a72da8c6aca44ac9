----------------------------- MODULE MCFarHeap -----------------------------
(***************************************************************************)
(* Two banks of four cells with three records each.  A block of the middle   *)
(* can be split, so that its remainder is the last record of the array, and   *)
(* a table can be full while cells are free.                                 *)
(***************************************************************************)
EXTENDS FarHeap, TLC

BankSymmetry == Permutations(Bank)

\* A cell of which nobody expects anything can hold what it likes.
Noticed == [p \in DOMAIN held |-> [k \in DOMAIN held[p] |->
               IF held[p][k] = Unset THEN Unset ELSE memory[p.bank][p.at + k - 1]]]
View == <<allocs, held, Noticed, turn>>
=============================================================================
