----------------------------- MODULE MCPeephole -----------------------------
(***************************************************************************)
(* Values for Peephole: two bytes (zero and a negative one), registers A, X   *)
(* and SP, one base-page and one absolute cell.  Every operand is a number    *)
(* and nothing more; the base-page cell is also loaded and stored in absolute *)
(* mode.  One procedure declares that it changes X and the flags, another     *)
(* that it changes A and no flag; one simulated operation uses the stack.     *)
(* The instruction without a case changes nothing tracked (NOP).  Programs of *)
(* this kind are the ones the pass accounts for; their length is not bounded. *)
(***************************************************************************)
EXTENDS Peephole

MCProcs == {[clobbers |-> {"X"}, nz |-> TRUE, writes |-> {}],
            [clobbers |-> {"A"}, nz |-> FALSE, writes |-> {}]}
MCSimulated == {[clobbers |-> {"A"}, flags |-> TRUE, mem |-> FALSE, stack |-> TRUE],
                [clobbers |-> {"X"}, flags |-> TRUE, mem |-> FALSE, stack |-> FALSE]}
MCUnlisted == {[clobbers |-> {}, nz |-> FALSE]}

\* An operand that is a number and nothing more.
Number(a) == [is |-> a, read |-> a, mode |-> IF a \in ZeroPage THEN "base page" ELSE "absolute"]
MCImmediates == {[is |-> v, read |-> v] : v \in Byte}
MCModified == {Number(a) : a \in Address}
MCOperands == MCModified \cup {[is |-> a, read |-> a, mode |-> "absolute"] : a \in ZeroPage}

\* A label is reached with one stack pointer and one carry by the program as written.
MCArrivals == {m \in Machine : m.reg["SP"] = Zero /\ ~m.carry}

\* Programs are compared until they part ways.
Together == agree
=============================================================================
