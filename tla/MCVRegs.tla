------------------------------ MODULE MCVRegs ------------------------------
(***************************************************************************)
(* Functions with a parameter, two locals and up to four temporaries that     *)
(* live side by side, with calls, a condition, a loop and a loop within it.   *)
(***************************************************************************)
EXTENDS VRegs

MCVreg == 0..6
p == 0   x == 1   r == 2   t == 3   u == 4   w == 5   s == 6

I(op, src, def, to) == [op |-> op, src |-> src, def |-> def, to |-> to]
Set(def, src) == I("compute", src, {def}, {})
Invoke(src, def) == I("call", src, def, {})
Goto(positions) == I("branch", {}, {}, positions)

\* Blocks begin where a branch goes and after a branch.
Leaders(c) == {1} \cup UNION {c[i].to : i \in DOMAIN c}
              \cup {i + 1 : i \in {j \in DOMAIN c : c[j].op = "branch"}}
BlockOf(c, i) == Cardinality({l \in Leaders(c) : l <= i})
Blocks(c) == [i \in DOMAIN c |-> [op |-> c[i].op, src |-> c[i].src, def |-> c[i].def,
                                  to |-> {BlockOf(c, j) : j \in c[i].to},
                                  block |-> BlockOf(c, i)]]

\* first: a call, an assignment, or a condition that skips the use of a; second: a call, an
\* assignment, or the end of an inner loop; back: where the outer loop begins.
Body(a, b, c, first, second, back) ==
    Blocks(<<Set(x, {p}), Set(r, {p}), Set(t, {p}), Set(u, {x}), Set(w, {r}),
             first, Set(x, {a, x}), second, Set(r, {b, r}), Set(x, {c}),
             Goto(back \cup {12}), I("return", {x, r, s}, {}, {})>>)

Bodies ==
    {Body(o[1], o[2], o[3], first, second, back) :
        o \in {<<t, u, w>>, <<w, u, t>>, <<u, t, w>>},
        first \in {Invoke({x}, {s}), Set(x, {x}), Goto({7, 9})},
        second \in {Invoke({r}, {}), Set(s, {r}), Goto({7, 9})},
        back \in {{}, {3}, {6}}}

WordsBut(S) == [v \in MCVreg |-> IF v \in S THEN 4 ELSE 2]
NoSizes == [v \in MCVreg |-> 0]
Fun(c, register, size, width, memory) ==
    [code |-> c, params |-> {p}, order |-> <<p, x, r, x>>, register |-> register,
     size |-> size, width |-> width, memory |-> memory]

MCFunction ==
    {Fun(c, register, NoSizes, WordsBut(S), {}) :
        c \in Bodies, register \in {{}, {r}}, S \in {{}, {t, s}, {u, x}}}
    \cup {Fun(c, {}, [NoSizes EXCEPT ![x] = 6, ![w] = 1], WordsBut({}), {w, t}) :
            c \in Bodies}

-----------------------------------------------------------------------------
\* (p ^ x) + (p & x)
Overlapping == {Fun(Blocks(<<Set(t, {p, x}), Set(u, {p, x}), Set(w, {t, u}),
                             I("return", {w}, {}, {})>>), {}, NoSizes, WordsBut({}), {})}
=============================================================================
