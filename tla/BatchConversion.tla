-------------------------- MODULE BatchConversion --------------------------
(***************************************************************************)
(* What cvt_asm promises of a batch of files: each is converted once, in any *)
(* order, and when all have been, the exit code tells whether one failed.   *)
(***************************************************************************)
EXTENDS Integers

CONSTANT NumFiles

VARIABLES
    outcome,     \* per file, "pending" or what convertFile came to
    exitCode     \* NoExit until the program ends

vars == <<outcome, exitCode>>

File == 1..NumFiles
NoExit == -1

\* convertFile returns true or false, or an exception leaves it.
Outcome == {"ok", "failed", "thrown"}

ExitCode(outcomes) == IF \E f \in File : outcomes[f] = "failed" THEN 1 ELSE 0

Init ==
    /\ outcome = [f \in File |-> "pending"]
    /\ exitCode = NoExit

Convert ==
    /\ \E f \in File : \E o \in Outcome :
          /\ outcome[f] = "pending"
          /\ outcome' = [outcome EXCEPT ![f] = o]
    /\ UNCHANGED exitCode

Exit ==
    /\ exitCode = NoExit
    /\ \A f \in File : outcome[f] # "pending"
    /\ exitCode' = ExitCode(outcome)
    /\ UNCHANGED outcome

Next == Convert \/ Exit

Spec == Init /\ [][Next]_vars
=============================================================================
