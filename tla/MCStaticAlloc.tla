--------------------------- MODULE MCStaticAlloc ---------------------------
EXTENDS StaticAlloc, FiniteSetsExt

CONSTANTS main, fa, fb, fc, irq

MCFunction == {main, fa, fb, fc, irq}
MCTextOrder == <<main, fa, fb, fc, irq>>
MCFrame == [x \in MCFunction |-> IF x = fb THEN 2 ELSE 1]

Make(calls, tails, local, sac) ==
    [calls |-> calls, tails |-> tails, local |-> local, sac |-> sac,
     isr |-> {irq}, frame |-> MCFrame]

\* Everybody may call fa, fb and fc.  Up to five calls.
Pairs == {main, fa, fb, fc, irq} \X {fa, fb, fc}
Graphs == UNION {kSubset(k, Pairs) : k \in 1..5}

\* main reaches what there is.
Interesting(calls) == \E c \in calls : c[1] = main

VisiblePrograms ==
    {Make(calls, {}, {}, sac) : calls \in {c \in Graphs : Interesting(c)},
                                sac \in {{fa, fb, fc}, {fa, fb}, {fc}}}

\* main calls fa, which ends by calling fb.  Nothing with a record calls fa and no
\* cycle goes through the tail call, so the linker's not seeing it does no harm.
TailPrograms ==
    {Make({<<main, fa>>} \cup calls, {<<fa, fb>>}, {}, sac) :
        calls \in SUBSET {<<main, fb>>, <<fa, fc>>, <<fb, fc>>, <<irq, fc>>},
        sac \in {{fa, fb, fc}, {fa, fb}}}

OrdinaryPrograms == VisiblePrograms \cup TailPrograms
=============================================================================
