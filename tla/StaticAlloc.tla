---------------------------- MODULE StaticAlloc ----------------------------
(***************************************************************************)
(* Functions compiled with static allocation (SAC) keep their parameters    *)
(* and locals at fixed addresses.  ln45 finds out from the call graph of    *)
(* the linked code whether one could be entered while it is active          *)
(* (verifyStaticAllocSafety), then overlays the activation records of those *)
(* never active together (colorStaticAllocRegisters).  The model runs these *)
(* on a program and then the program itself: calls, tail calls, returns and *)
(* interrupts.                                                              *)
(***************************************************************************)
EXTENDS Integers, Sequences, FiniteSets

CONSTANTS
    Function,
    NoFunction,    \* not a function
    Main,          \* where execution starts
    TextOrder,     \* the functions in the order of their text
    Programs,      \* the programs considered
    MaxDepth       \* bound on the depth of the call stack in Run

ASSUME NoFunctionAssumption == NoFunction \notin Function
ASSUME MainAssumption == Main \in Function
ASSUME TextOrderAssumption ==
    /\ TextOrder \in Seq(Function)
    /\ \A f \in Function : \E i \in 1..Len(TextOrder) : TextOrder[i] = f

\* A program: calls by JSR and tail calls by JMP, as pairs of functions; functions
\* that are static to their file; those with the flags static_alloc and isr; and
\* the size of each activation record.
Program == [calls : SUBSET (Function \X Function), tails : SUBSET (Function \X Function),
            local : SUBSET Function, sac : SUBSET Function, isr : SUBSET Function,
            frame : [Function -> Nat]]

ASSUME ProgramsAssumption == Programs \subseteq Program

VARIABLES
    program,
    callGraph,     \* callGraph_, as pairs of functions
    pc,            \* "scan", "recursion", "isr", "conflicts", "color", "run", "error"
    left,          \* functions the current phase has yet to deal with
    root, visited, toVisit,  \* the search in progress: its root, if any
    reached,       \* what each completed search for recursion visited
    isrReachable,
    convErrors,    \* the SAC functions rejected so far
    conflicts,     \* per SAC function, those its record must not overlap
    arColor,       \* the slot of each SAC function coloured so far
    stack          \* the activations, the last one running

search == <<root, visited, toVisit>>
vars == <<program, callGraph, pc, left, root, visited, toVisit, reached,
          isrReachable, convErrors, conflicts, arColor, stack>>

-----------------------------------------------------------------------------
Position(f) == CHOOSE i \in 1..Len(TextOrder) : TextOrder[i] = f

\* The exported function whose range of text the code of f is counted to.
Owners(f) ==
    LET before == {g \in Function \ program.local : Position(g) <= Position(f)}
    IN  {g \in before : \A h \in before : Position(h) <= Position(g)}

\* The calls buildCallGraph sees: JSR instructions whose target is exported.
SeenCalls ==
    UNION {Owners(c[1]) \X {c[2]} : c \in {d \in program.calls : d[2] \notin program.local}}

Callees(f) == {c[2] : c \in {d \in callGraph : d[1] = f}}

Init ==
    /\ program \in Programs
    /\ callGraph = {}
    /\ pc = "scan"
    /\ left = {}
    /\ root = NoFunction /\ visited = {} /\ toVisit = {}
    /\ reached = [f \in Function |-> {}]
    /\ isrReachable = {}
    /\ convErrors = {}
    /\ conflicts = [f \in {} |-> {}]
    /\ arColor = [f \in {} |-> 0]
    /\ stack = <<>>

BuildCallGraph ==
    /\ pc = "scan"
    /\ callGraph' = SeenCalls
    /\ left' = program.sac
    /\ pc' = "recursion"
    /\ UNCHANGED <<program, search, reached, isrReachable, convErrors, conflicts, arColor, stack>>

-----------------------------------------------------------------------------
\* verifyStaticAllocSafety

\* Mutated: the search begins at the function itself.
StartingPointsSelf(f) == {f}

\* Where the search for recursion of f begins.
StartingPoints(f) == Callees(f)

\* Begin the search from one more SAC function.
SearchRecursion ==
    /\ pc = "recursion" /\ root = NoFunction /\ left # {}
    /\ \E f \in left :
          /\ root' = f
          /\ left' = left \ {f}
          /\ toVisit' = StartingPoints(f)
    /\ visited' = {}
    /\ UNCHANGED <<program, callGraph, pc, reached, isrReachable, convErrors, conflicts, arColor, stack>>

\* Begin the search from one more interrupt handler, at itself.
SearchIsr ==
    /\ pc = "isr" /\ root = NoFunction /\ left # {}
    /\ \E f \in left :
          /\ root' = f
          /\ left' = left \ {f}
          /\ toVisit' = {f}
    /\ visited' = {}
    /\ UNCHANGED <<program, callGraph, pc, reached, isrReachable, convErrors, conflicts, arColor, stack>>

\* Mutated: the callees of a visited function are not searched.
PendingShallow(c) == toVisit \ {c}

\* What is left to visit once c has been.
Pending(c) == (toVisit \cup Callees(c)) \ (visited \cup {c})

\* Visit one function; the search for recursion does not go on beyond its root.
Visit ==
    /\ root # NoFunction
    /\ \E c \in toVisit :
          /\ pc = "recursion" => c # root
          /\ visited' = visited \cup {c}
          /\ toVisit' = Pending(c)
    /\ UNCHANGED <<program, callGraph, pc, left, root, reached, isrReachable, convErrors, conflicts, arColor, stack>>

\* Coming back to the root ends the search.
FindRecursion ==
    /\ pc = "recursion" /\ root \in toVisit
    /\ convErrors' = convErrors \cup {root}
    /\ root' = NoFunction
    /\ UNCHANGED <<program, callGraph, pc, left, visited, toVisit, reached, isrReachable, conflicts, arColor, stack>>

EndSearch ==
    /\ root # NoFunction /\ toVisit = {}
    /\ root' = NoFunction
    /\ IF pc = "recursion"
       THEN reached' = [reached EXCEPT ![root] = visited] /\ UNCHANGED isrReachable
       ELSE isrReachable' = isrReachable \cup visited /\ UNCHANGED reached
    /\ UNCHANGED <<program, callGraph, pc, left, visited, toVisit, convErrors, conflicts, arColor, stack>>

StartIsrCheck ==
    /\ pc = "recursion" /\ root = NoFunction /\ left = {}
    /\ left' = program.isr
    /\ pc' = "isr"
    /\ UNCHANGED <<program, callGraph, search, reached, isrReachable, convErrors, conflicts, arColor, stack>>

\* The SAC functions an interrupt handler can reach.
RejectedByIsr == program.sac \cap isrReachable

\* The link fails if any SAC function was rejected.
EndVerify ==
    /\ pc = "isr" /\ root = NoFunction /\ left = {}
    /\ convErrors' = convErrors \cup RejectedByIsr
    /\ pc' = IF convErrors' = {} THEN "conflicts" ELSE "error"
    /\ left' = program.sac
    /\ UNCHANGED <<program, callGraph, search, reached, isrReachable, conflicts, arColor, stack>>

-----------------------------------------------------------------------------
\* colorStaticAllocRegisters

Closed(s) == \A f \in s : Callees(f) \subseteq s

\* What can be reached from the functions s along the call graph, s included.
ReachableFrom(s) ==
    LET around == {t \in SUBSET Function : s \subseteq t /\ Closed(t)}
    IN  {f \in Function : \A t \in around : f \in t}

\* Callers that nobody calls count as entry points of the main line.
EntryPoints == {f \in Function : Callees(f) # {} /\ \A g \in Function : f \notin Callees(g)}

\* The other SAC functions whose record must not overlap that of f: direct callers
\* and whatever f reaches, but none whose context (handlers or main line) f is
\* outside of.
ConflictsOf(f, isrSide, mainSide) ==
    LET Apart(g) == \/ f \in isrSide \ mainSide /\ g \in mainSide \ isrSide
                    \/ g \in isrSide \ mainSide /\ f \in mainSide \ isrSide
    IN  {g \in program.sac \ {f} :
            ~Apart(g) /\ (f \in Callees(g) \/ g \in ReachableFrom(Callees(f)))}

BuildConflicts ==
    /\ pc = "conflicts"
    /\ LET isrSide == ReachableFrom(program.isr)
           mainSide == ReachableFrom(EntryPoints)
       IN  conflicts' = [f \in program.sac |-> ConflictsOf(f, isrSide, mainSide)]
    /\ pc' = "color"
    /\ UNCHANGED <<program, callGraph, left, search, reached, isrReachable, convErrors,
                   arColor, stack>>

\* Mutated: records are never overlaid.
CanUseFree(f, color) == \A g \in DOMAIN arColor : arColor[g] # color

\* f conflicts with no function that has this slot.
CanUse(f, color) ==
    \A g \in DOMAIN arColor :
        arColor[g] = color => g \notin conflicts[f] /\ f \notin conflicts[g]

\* Each function gets the first slot free of conflicts.
ColorFunction ==
    /\ pc = "color" /\ left # {}
    /\ \E f \in left :
          /\ left' = left \ {f}
          /\ \E color \in 0..Cardinality(DOMAIN arColor) :
                /\ CanUse(f, color)
                /\ \A c \in 0..(color - 1) : ~CanUse(f, c)
                /\ arColor' = [g \in DOMAIN arColor \cup {f} |->
                                  IF g = f THEN color ELSE arColor[g]]
    /\ UNCHANGED <<program, callGraph, pc, search, reached, isrReachable, convErrors, conflicts, stack>>

InSlot(color) == {f \in DOMAIN arColor : arColor[f] = color}

\* Mutated: a slot has the size of its smallest record.
SlotSizeSmallest(color) ==
    CHOOSE n \in {program.frame[f] : f \in InSlot(color)} :
        \A f \in InSlot(color) : n <= program.frame[f]

\* A slot has the size of its largest record.
SlotSize(color) ==
    CHOOSE n \in {program.frame[f] : f \in InSlot(color)} :
        \A f \in InSlot(color) : n >= program.frame[f]

\* Slots follow one another.
SlotBase[color \in Nat] ==
    IF color = 0 THEN 0 ELSE SlotBase[color - 1] + SlotSize(color - 1)

Bytes(f) == SlotBase[arColor[f]] .. (SlotBase[arColor[f]] + program.frame[f] - 1)

-----------------------------------------------------------------------------
\* The program

Start ==
    /\ pc = "color" /\ left = {}
    /\ pc' = "run"
    /\ stack' = <<Main>>
    /\ UNCHANGED <<program, callGraph, left, search, reached, isrReachable, convErrors, conflicts, arColor>>

Running(f) == pc = "run" /\ stack # <<>> /\ stack[Len(stack)] = f

Call ==
    /\ \E c \in program.calls :
          /\ Running(c[1]) /\ Len(stack) < MaxDepth
          /\ stack' = Append(stack, c[2])
    /\ UNCHANGED <<program, callGraph, pc, left, search, reached, isrReachable, convErrors, conflicts, arColor>>

\* The caller's activation is over when the callee's begins.
TailCall ==
    /\ \E c \in program.tails :
          /\ Running(c[1])
          /\ stack' = [stack EXCEPT ![Len(stack)] = c[2]]
    /\ UNCHANGED <<program, callGraph, pc, left, search, reached, isrReachable, convErrors, conflicts, arColor>>

Return ==
    /\ pc = "run" /\ stack # <<>>
    /\ stack' = SubSeq(stack, 1, Len(stack) - 1)
    /\ UNCHANGED <<program, callGraph, pc, left, search, reached, isrReachable, convErrors, conflicts, arColor>>

\* An interrupt comes between any two steps, of a handler too.
Interrupt ==
    /\ pc = "run" /\ stack # <<>> /\ Len(stack) < MaxDepth
    /\ \E f \in program.isr : stack' = Append(stack, f)
    /\ UNCHANGED <<program, callGraph, pc, left, search, reached, isrReachable, convErrors, conflicts, arColor>>

Terminated == (pc = "error" \/ (pc = "run" /\ stack = <<>>)) /\ UNCHANGED vars

Next == BuildCallGraph \/ SearchRecursion \/ SearchIsr \/ Visit \/ FindRecursion
        \/ EndSearch \/ StartIsrCheck \/ EndVerify \/ BuildConflicts \/ ColorFunction \/ Start
        \/ Call \/ TailCall \/ Return \/ Interrupt \/ Terminated

Spec == Init /\ [][Next]_vars

-----------------------------------------------------------------------------
TypeOK ==
    /\ program \in Program
    /\ callGraph \subseteq Function \X Function
    /\ pc \in {"scan", "recursion", "isr", "conflicts", "color", "run", "error"}
    /\ left \subseteq Function
    /\ root \in Function \cup {NoFunction}
    /\ visited \subseteq Function /\ toVisit \subseteq Function
    /\ reached \in [Function -> SUBSET Function]
    /\ isrReachable \subseteq Function
    /\ convErrors \subseteq Function
    /\ stack \in Seq(Function)

\* No SAC function is entered while an activation of it lasts, on any path of
\* calls and interrupts (verifyStaticAllocSafety): it would overwrite its caller's
\* parameters and locals.
NoReentry ==
    \A i, j \in 1..Len(stack) : i # j /\ stack[i] \in program.sac => stack[i] # stack[j]

\* SAC functions that are active together have activation records apart
\* (colorStaticAllocRegisters).
FramesApart ==
    \A i, j \in 1..Len(stack) :
        /\ stack[i] \in program.sac /\ stack[j] \in program.sac
        /\ stack[i] # stack[j]
        => Bytes(stack[i]) \cap Bytes(stack[j]) = {}

\* A link is refused only for a function that can reach itself or be reached from
\* a handler.
RejectsOnlyForCause ==
    \A f \in convErrors :
        f \in ReachableFrom(Callees(f)) \/ f \in ReachableFrom(program.isr)

\* Records are overlaid: a slot beyond the first is used only because of a conflict
\* with a function in every earlier one.
OverlaysWherePossible ==
    \A f \in DOMAIN arColor : \A c \in 0..(arColor[f] - 1) :
        \E g \in InSlot(c) : g \in conflicts[f] \/ f \in conflicts[g]
=============================================================================
