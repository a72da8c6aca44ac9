--------------------------- MODULE DemandClosure ---------------------------
(***************************************************************************)
(* What selective archive linking promises, with no order of visiting the   *)
(* archives: starting from the objects named on the command line, an        *)
(* archive member joins the link only while it defines a symbol that the    *)
(* link needs and lacks, and the resolution closes only when no member of   *)
(* any archive could still supply a missing symbol.                         *)
(***************************************************************************)
CONSTANTS
    Inputs,    \* the objects named on the command line
    Members    \* the members of all the archives

VARIABLES
    exp,       \* exp[o]: the set of symbols object o defines, never changes
    imp,       \* imp[o]: the set of symbols object o refers to, never changes
    linked,    \* the objects that take part in the link
    closed     \* resolution is over

vars == <<exp, imp, linked, closed>>

Missing == (UNION {imp[o] : o \in linked}) \ (UNION {exp[o] : o \in linked})

Supplies(m) == m \in Members \ linked /\ exp[m] \cap Missing # {}

Init == linked = Inputs /\ closed = FALSE

Demand(m) ==
    /\ ~closed
    /\ Supplies(m)
    /\ linked' = linked \cup {m}
    /\ UNCHANGED <<exp, imp, closed>>

Close ==
    /\ ~closed
    /\ \A m \in Members : ~Supplies(m)
    /\ closed' = TRUE
    /\ UNCHANGED <<exp, imp, linked>>

Next == Close \/ \E m \in Members : Demand(m)

Spec == Init /\ [][Next]_vars
=============================================================================
