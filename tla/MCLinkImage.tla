---------------------------- MODULE MCLinkImage ----------------------------
(***************************************************************************)
(* The units ca45 assembles from the output of cc45 and from the runtime,   *)
(* cut down to one or two instructions per function.                        *)
(***************************************************************************)
EXTENDS LinkImage

MCSegmentNames == <<"init", "code", "fast">>
MCTextBase == 16

Sub(name, body) == [name |-> name, body |-> body]
Unit(text, data, bss, labels) ==
    [text |-> text, data |-> data, bss |-> bss, labels |-> labels]

Fun(name, conv) == [Label(name, "text", 1, 0) EXCEPT !.conv = conv]
WeakFun(name, conv) == [Fun(name, conv) EXCEPT !.weak = TRUE]
Rts == Instr("rts", NoLabel)
Jsr(f) == Instr("jsr", f)
Ref(v) == Instr("ref", v)

Convs == {"stack", "zp"}
Option(us, db, bb, mode) == [units |-> us, dataBase |-> db, bssBase |-> bb, thunkMode |-> mode]

-----------------------------------------------------------------------------
\* Ordinary programs.

\* crt0: init code that calls main and clears BSS, then the exit loop.
Crt0 == Unit(<<Sub("init", <<Ref("__bss_start"), Ref("__bss_end"), Jsr("main")>>),
               Sub("code", <<Rts>>)>>, <<>>, 0,
             {Label("start", "text", 1, 0), Label("exit", "text", 2, 0)})

\* main, which calls f and uses the variable v, its own or f's.
Mains == {Unit(<<Sub("code", <<Jsr("f"), Ref("v"), Ref("exit"), Rts>>)>>, <<Ref("f")>>, 1,
               {Fun("main", c)} \cup l) :
            c \in Convs, l \in {{}, {[Label("v", "data", 1, 0) EXCEPT !.global = FALSE]}}}

\* A unit that defines f, weakly or not, in one of the text sub-segments, and the
\* variable v.
Callees(c) == {Unit(<<Sub(s, <<Ref("v"), Rts>>)>>, <<Ref("main"), Ref("v")>>, 2,
                    {[Fun("f", c) EXCEPT !.weak = w, !.off = 1],
                     IF s = "code" THEN Label("v", "bss", 1, 1) ELSE Label("v", "data", 1, 1)}) :
                 s \in {"code", "init", "fast"}, w \in BOOLEAN}

\* Another one, which defines f too, or something else.
Others(c) == {Unit(<<Sub(s, <<Rts>>)>>, <<Ref("exit")>>, 1, {l}) :
                s \in {"code", "init"}, l \in {Fun("f", c), WeakFun("f", c), Fun("g", c)}}

Orders(m, f, o) == {<<Crt0, m, f, o>>, <<o, Crt0, m, f>>, <<f, m, o, Crt0>>}
Programs == UNION {Orders(m, f, o) : m \in Mains, f \in Callees("stack"), o \in Others("stack")}

\* f is missing.
Incomplete == {<<Crt0, m>> : m \in Mains}

\* Data and BSS placed automatically, with thunks refused; or data placed where the
\* thunks leave it room.
OrdinaryLinks ==
    {Option(us, Unset, Unset, "error") : us \in Programs \cup Incomplete}
    \cup {Option(us, 40, Unset, "auto") : us \in Programs}

ASSUME PlainLinks ==
    \A lk \in Links : PlainLink(lk) /\ BoundariesFree(lk) /\ PlainFunctions(lk) /\ OwnCallsAgree(lk)
=============================================================================
