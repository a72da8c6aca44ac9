-------------------------- MODULE StaticAlloc_proof --------------------------
(***************************************************************************)
(* Proofs about StaticAlloc.  NoReentry is proved for programs whose every  *)
(* call the linker sees: no tail calls and no static functions.  So is that  *)
(* the records of functions that are active together share no byte; that a  *)
(* record is put apart only for a conflict and a function refused only for a *)
(* cycle or a handler holds for any program.                                *)
(***************************************************************************)
EXTENDS StaticAlloc, SequenceTheorems, FiniteSetTheorems, WellFoundedInduction, TLAPS

AllCallsVisible == \A p \in Programs : p.local = {} /\ p.tails = {}

-----------------------------------------------------------------------------
\* The inductive invariant.

\* The search for recursion of f is yet to begin or under way.
Unsearched(f) == pc = "recursion" /\ (f \in left \/ f = root)

\* reached[f] shows that f cannot come back to itself.
Cleared(f) ==
    /\ Callees(f) \subseteq reached[f]
    /\ Closed(reached[f])
    /\ f \notin reached[f]

Verified == pc \in {"conflicts", "color", "run"}

\* The call graph has every call of the program.
GraphComplete ==
    /\ program.local = {} /\ program.tails = {}
    /\ pc # "scan" => program.calls \subseteq callGraph

\* A search has visited or noted all it must, and only that.
SearchSound ==
    root # NoFunction =>
        /\ pc \in {"recursion", "isr"}
        /\ \A v \in visited : Callees(v) \subseteq visited \cup toVisit
        /\ pc = "recursion" => /\ Callees(root) \subseteq visited \cup toVisit
                              /\ root \notin visited
        /\ pc = "isr" => root \in visited \cup toVisit

RecursionSound ==
    pc # "scan" =>
        \A f \in program.sac : Unsearched(f) \/ f \in convErrors \/ Cleared(f)

IsrSound ==
    /\ Closed(isrReachable)
    /\ pc = "scan" => isrReachable = {}
    /\ pc = "isr" => \A f \in program.isr : f \in left \/ f = root \/ f \in isrReachable
    /\ Verified => /\ program.isr \subseteq isrReachable
                   /\ program.sac \cap isrReachable = {}
                   /\ convErrors = {}

VerifySound == SearchSound /\ RecursionSound /\ IsrSound

\* What is above an activation of a SAC function was reached from it or from a
\* handler.
StackSound ==
    /\ pc # "run" => stack = <<>>
    /\ \A i, j \in 1..Len(stack) :
          i < j /\ stack[i] \in program.sac
          => stack[j] \in reached[stack[i]] \cup isrReachable

IInv == TypeOK /\ GraphComplete /\ VerifySound /\ StackSound

-----------------------------------------------------------------------------
(* The calls of functions are functions.                                    *)
LEMMA CalleesType ==
    ASSUME TypeOK, NEW f
    PROVE  Callees(f) \subseteq Function
BY DEF TypeOK, Callees

(* The initial state has the types declared.                                *)
LEMMA InitType == Init => TypeOK
BY ProgramsAssumption DEF Init, TypeOK

(* Every step keeps the types.                                              *)
LEMMA TypeStep == TypeOK /\ [Next]_vars => TypeOK'
<1> SUFFICES ASSUME TypeOK, [Next]_vars PROVE TypeOK'
  OBVIOUS
<1> USE DEF TypeOK
<1>1. CASE BuildCallGraph
  <2>1. SeenCalls \subseteq Function \X Function
    BY DEF SeenCalls, Owners, Program
  <2> QED
    BY <1>1, <2>1 DEF BuildCallGraph, search, Program
<1>2. CASE SearchRecursion
  BY <1>2, CalleesType DEF SearchRecursion, StartingPoints
<1>3. CASE SearchIsr
  BY <1>3 DEF SearchIsr
<1>4. CASE Visit
  <2>1. PICK c \in toVisit : visited' = visited \cup {c} /\ toVisit' = Pending(c)
    BY <1>4 DEF Visit
  <2>2. Callees(c) \subseteq Function
    BY CalleesType
  <2> QED
    BY <1>4, <2>1, <2>2 DEF Visit, Pending
<1>17. CASE FindRecursion
  BY <1>17, NoFunctionAssumption DEF FindRecursion
<1>5. CASE EndSearch
  BY <1>5 DEF EndSearch
<1>6. CASE StartIsrCheck
  BY <1>6 DEF StartIsrCheck, search, Program
<1>7. CASE EndVerify
  BY <1>7 DEF EndVerify, RejectedByIsr, search, Program
<1>8. CASE BuildConflicts
  BY <1>8 DEF BuildConflicts, search
<1>9. CASE ColorFunction
  BY <1>9 DEF ColorFunction, search
<1>10. CASE Start
  BY <1>10, MainAssumption DEF Start, search
<1>11. CASE Call
  BY <1>11 DEF Call, search, Program
<1>12. CASE TailCall
  <2>1. PICK c \in program.tails : Running(c[1]) /\ stack' = [stack EXCEPT ![Len(stack)] = c[2]]
    BY <1>12 DEF TailCall
  <2>2. c[2] \in Function
    BY DEF Program
  <2>3. stack # <<>>
    BY <2>1 DEF Running
  <2>4. stack' \in Seq(Function)
    BY <2>1, <2>2, <2>3, ExceptSeq
  <2> QED
    BY <1>12, <2>4 DEF TailCall, search
<1>13. CASE Return
  BY <1>13 DEF Return, search
<1>14. CASE Interrupt
  BY <1>14 DEF Interrupt, search, Program
<1>15. CASE Terminated
  BY <1>15 DEF Terminated, vars
<1>16. CASE UNCHANGED vars
  BY <1>16 DEF vars
<1> QED
  BY <1>1, <1>2, <1>3, <1>4, <1>5, <1>6, <1>7, <1>8, <1>9, <1>10, <1>11, <1>12,
     <1>13, <1>14, <1>15, <1>16, <1>17 DEF Next

(* Every variable keeps its type, for any set of functions and programs.    *)
THEOREM TypeCorrect == Spec => []TypeOK
BY InitType, TypeStep, PTL DEF Spec

-----------------------------------------------------------------------------
(* Every function has a place in the text.                                  *)
LEMMA PositionType == \A f \in Function : Position(f) \in Int
<1> TAKE f \in Function
<1>1. PICK i \in 1..Len(TextOrder) : TextOrder[i] = f
  BY TextOrderAssumption
<1>2. Position(f) \in 1..Len(TextOrder)
  BY <1>1 DEF Position
<1> QED
  BY <1>2

(* Without static functions the code of a function is counted to it.        *)
LEMMA OwnsItself ==
    ASSUME program.local = {}, NEW f \in Function
    PROVE  f \in Owners(f)
BY PositionType DEF Owners

(* ... so that the call graph gets every call.                              *)
LEMMA SeesEveryCall ==
    ASSUME program \in Program, program.local = {}
    PROVE  program.calls \subseteq SeenCalls
<1> SUFFICES ASSUME NEW c \in program.calls PROVE c \in SeenCalls
  OBVIOUS
<1>1. c[1] \in Function /\ c[2] \in Function /\ c = <<c[1], c[2]>>
  BY DEF Program
<1>2. c \in Owners(c[1]) \X {c[2]}
  BY <1>1, OwnsItself
<1> QED
  BY <1>2 DEF SeenCalls

(* The callees are those of the call graph.                                 *)
LEMMA CallIsSeen ==
    ASSUME GraphComplete, pc # "scan", NEW c \in program.calls
    PROVE  c[2] \in Callees(c[1])
BY DEF GraphComplete, Callees

LEMMA CalleesUnchanged ==
    UNCHANGED callGraph => \A f : Callees(f)' = Callees(f)
BY DEF Callees

LEMMA GraphStep == TypeOK /\ GraphComplete /\ [Next]_vars => GraphComplete'
<1> SUFFICES ASSUME TypeOK, GraphComplete, [Next]_vars PROVE GraphComplete'
  OBVIOUS
<1>1. CASE BuildCallGraph
  <2>1. program.calls \subseteq SeenCalls
    BY SeesEveryCall DEF TypeOK, GraphComplete
  <2> QED
    BY <1>1, <2>1 DEF BuildCallGraph, GraphComplete
<1>2. CASE ~BuildCallGraph
  <2>1. UNCHANGED <<program, callGraph>> /\ (pc = "scan" => pc' = "scan")
    BY <1>2 DEF Next, vars, SearchRecursion, SearchIsr, Visit, FindRecursion, EndSearch,
       StartIsrCheck, EndVerify, BuildConflicts, ColorFunction, Start, Call, TailCall,
       Return, Interrupt, Terminated
  <2> QED
    BY <2>1 DEF GraphComplete
<1> QED
  BY <1>1, <1>2

-----------------------------------------------------------------------------
(* Steps that leave the call graph alone keep what is closed closed.        *)
LEMMA ClosedUnchanged ==
    UNCHANGED callGraph => \A s : Closed(s)' <=> Closed(s)
BY CalleesUnchanged DEF Closed

LEMMA ClearedUnchanged ==
    UNCHANGED <<callGraph, reached>> => \A f : Cleared(f)' <=> Cleared(f)
BY CalleesUnchanged DEF Closed, Cleared

(* Beginning a search.                                                      *)
LEMMA BeginStep ==
    TypeOK /\ VerifySound /\ (SearchRecursion \/ SearchIsr) => VerifySound'
<1> SUFFICES ASSUME TypeOK, VerifySound, SearchRecursion \/ SearchIsr PROVE VerifySound'
  OBVIOUS
<1>1. UNCHANGED <<program, callGraph, pc, reached, isrReachable, convErrors>>
  BY DEF SearchRecursion, SearchIsr
<1>2. \A f : Callees(f)' = Callees(f)
  BY <1>1, CalleesUnchanged
<1>3. PICK f \in left : root' = f /\ left' = left \ {f}
  BY DEF SearchRecursion, SearchIsr
<1>4. SearchSound'
  BY <1>2, <1>3 DEF SearchRecursion, SearchIsr, StartingPoints, SearchSound, TypeOK
<1>5. RecursionSound'
  <2>1. \A g \in Function : Unsearched(g) => Unsearched(g)'
    BY <1>1, <1>3, NoFunctionAssumption DEF Unsearched, SearchRecursion, SearchIsr
  <2>2. \A g : Cleared(g)' <=> Cleared(g)
    BY <1>1, ClearedUnchanged
  <2> QED
    BY <1>1, <2>1, <2>2 DEF RecursionSound, VerifySound, TypeOK, Program
<1>6. IsrSound'
  <2>1. Closed(isrReachable)' <=> Closed(isrReachable)
    BY <1>1, <1>2 DEF Closed
  <2>2. root = NoFunction
    BY DEF SearchRecursion, SearchIsr
  <2> QED
    BY <1>1, <1>3, <2>1, <2>2, NoFunctionAssumption
    DEF IsrSound, VerifySound, Verified, TypeOK, Program
<1> QED
  BY <1>4, <1>5, <1>6 DEF VerifySound

(* Going on with a search.                                                  *)
LEMMA VisitStep ==
    TypeOK /\ VerifySound /\ (Visit \/ FindRecursion) => VerifySound'
<1> SUFFICES ASSUME TypeOK, VerifySound, Visit \/ FindRecursion PROVE VerifySound'
  OBVIOUS
<1>1. UNCHANGED <<program, callGraph, pc, left, reached, isrReachable>>
  BY DEF Visit, FindRecursion
<1>2. \A f : Callees(f)' = Callees(f)
  BY <1>1, CalleesUnchanged
<1>3. \A g : Cleared(g)' <=> Cleared(g)
  BY <1>1, ClearedUnchanged
<1>4. Closed(isrReachable)' <=> Closed(isrReachable)
  BY <1>1, <1>2 DEF Closed
<1>5. CASE Visit
  <2>1. PICK c \in toVisit : (pc = "recursion" => c # root)
                             /\ visited' = visited \cup {c} /\ toVisit' = Pending(c)
    BY <1>5 DEF Visit
  <2>2. root' = root /\ convErrors' = convErrors
    BY <1>5 DEF Visit
  <2>3. SearchSound'
    BY <1>1, <1>2, <2>1, <2>2 DEF SearchSound, VerifySound, Pending
  <2>4. RecursionSound'
    BY <1>1, <1>3, <2>2 DEF RecursionSound, VerifySound, Unsearched
  <2>5. IsrSound'
    BY <1>1, <1>4, <2>2 DEF IsrSound, VerifySound, Verified
  <2> QED
    BY <2>3, <2>4, <2>5 DEF VerifySound
<1>6. CASE FindRecursion
  <2>1. convErrors' = convErrors \cup {root} /\ root' = NoFunction /\ pc = "recursion"
    BY <1>6 DEF FindRecursion
  <2>2. SearchSound'
    BY <2>1 DEF SearchSound
  <2>3. RecursionSound'
    BY <1>1, <1>3, <2>1 DEF RecursionSound, VerifySound, Unsearched
  <2>4. IsrSound'
    BY <1>1, <1>4, <2>1 DEF IsrSound, VerifySound, Verified
  <2> QED
    BY <2>2, <2>3, <2>4 DEF VerifySound
<1> QED
  BY <1>5, <1>6

(* Ending a search.                                                         *)
LEMMA EndSearchStep ==
    TypeOK /\ VerifySound /\ EndSearch => VerifySound'
<1> SUFFICES ASSUME TypeOK, VerifySound, EndSearch PROVE VerifySound'
  OBVIOUS
<1>1. UNCHANGED <<program, callGraph, pc, left, visited, convErrors>>
      /\ root # NoFunction /\ root' = NoFunction /\ toVisit = {}
  BY DEF EndSearch
<1>2. \A f : Callees(f)' = Callees(f)
  BY <1>1, CalleesUnchanged
<1>3. Closed(visited) /\ pc \in {"recursion", "isr"}
  BY <1>1 DEF VerifySound, SearchSound, Closed
<1>4. SearchSound'
  BY <1>1 DEF SearchSound
<1>5. CASE pc = "recursion"
  <2>1. reached' = [reached EXCEPT ![root] = visited] /\ isrReachable' = isrReachable
    BY <1>5 DEF EndSearch
  <2>2. ASSUME NEW f, f = root
        PROVE  Cleared(f)'
    <3>1. reached'[f] = visited
      BY <1>1, <2>1, <2>2 DEF TypeOK
    <3>2. Callees(f) \subseteq visited /\ f \notin visited
      BY <1>1, <1>5, <2>2 DEF VerifySound, SearchSound
    <3> QED
      BY <1>2, <1>3, <3>1, <3>2 DEF Cleared, Closed
  <2>3. ASSUME NEW f \in program.sac, f # root, Cleared(f)
        PROVE  Cleared(f)'
    <3>1. reached'[f] = reached[f]
      BY <2>1, <2>3 DEF TypeOK, Program
    <3> QED
      BY <1>2, <2>3, <3>1 DEF Cleared, Closed
  <2>4. RecursionSound'
    <3> SUFFICES ASSUME NEW f \in program.sac
                 PROVE  Unsearched(f)' \/ f \in convErrors' \/ Cleared(f)'
      BY <1>1 DEF RecursionSound
    <3>1. CASE f = root
      BY <2>2, <3>1
    <3>2. CASE f # root
      BY <1>1, <1>5, <2>3, <3>2 DEF VerifySound, RecursionSound, Unsearched
    <3> QED
      BY <3>1, <3>2
  <2>5. IsrSound'
    BY <1>1, <1>2, <1>5, <2>1 DEF VerifySound, IsrSound, Closed, Verified
  <2> QED
    BY <1>4, <2>4, <2>5 DEF VerifySound
<1>6. CASE pc = "isr"
  <2>1. isrReachable' = isrReachable \cup visited /\ reached' = reached
    BY <1>6 DEF EndSearch
  <2>2. RecursionSound'
    <3>1. \A f : Cleared(f)' <=> Cleared(f)
      BY <1>1, <2>1, ClearedUnchanged
    <3> QED
      BY <1>1, <1>6, <3>1 DEF VerifySound, RecursionSound, Unsearched
  <2>3. IsrSound'
    <3>1. \A g \in isrReachable \cup visited : Callees(g) \subseteq isrReachable \cup visited
      BY <1>3 DEF VerifySound, IsrSound, Closed
    <3>2. Closed(isrReachable)'
      BY <1>2, <2>1, <3>1 DEF Closed
    <3>3. root \in visited
      BY <1>1, <1>6 DEF VerifySound, SearchSound
    <3> QED
      BY <1>1, <1>6, <2>1, <3>2, <3>3 DEF VerifySound, IsrSound, Verified
  <2> QED
    BY <1>4, <2>2, <2>3 DEF VerifySound
<1> QED
  BY <1>3, <1>5, <1>6

(* The steps between the searches.                                          *)
LEMMA PhaseStep ==
    TypeOK /\ VerifySound /\ (BuildCallGraph \/ StartIsrCheck \/ EndVerify) => VerifySound'
<1> SUFFICES ASSUME TypeOK, VerifySound, BuildCallGraph \/ StartIsrCheck \/ EndVerify
             PROVE  VerifySound'
  OBVIOUS
<1>1. UNCHANGED <<program, search, reached, isrReachable>> /\ root = NoFunction
  BY NoFunctionAssumption
  DEF BuildCallGraph, StartIsrCheck, EndVerify, search, VerifySound, SearchSound
<1>2. SearchSound'
  BY <1>1 DEF SearchSound, search
<1>3. CASE BuildCallGraph
  <2>1. RecursionSound'
    BY <1>1, <1>3 DEF BuildCallGraph, RecursionSound, Unsearched
  <2>2. IsrSound'
    BY <1>1, <1>3 DEF BuildCallGraph, VerifySound, IsrSound, Closed, Verified
  <2> QED
    BY <1>2, <2>1, <2>2 DEF VerifySound
<1>4. CASE StartIsrCheck \/ EndVerify
  <2>1. UNCHANGED callGraph /\ pc # "scan" /\ pc' # "scan" /\ left = {}
        /\ convErrors \subseteq convErrors'
    BY <1>4 DEF StartIsrCheck, EndVerify
  <2>2. \A f : Cleared(f)' <=> Cleared(f)
    BY <1>1, <2>1, ClearedUnchanged
  <2>3. \A f \in Function : ~Unsearched(f)
    BY <1>1, <2>1, NoFunctionAssumption DEF Unsearched
  <2>4. RecursionSound'
    BY <1>1, <2>1, <2>2, <2>3 DEF VerifySound, RecursionSound, TypeOK, Program
  <2>5. Closed(isrReachable)'
    BY <1>1, <2>1, CalleesUnchanged DEF VerifySound, IsrSound, Closed
  <2>6. CASE StartIsrCheck
    BY <1>1, <1>2, <2>4, <2>5, <2>6 DEF StartIsrCheck, VerifySound, IsrSound, Verified
  <2>7. CASE EndVerify
    <3>1. program.isr \subseteq isrReachable
      BY <1>1, <2>7, NoFunctionAssumption DEF EndVerify, VerifySound, IsrSound, TypeOK, Program
    <3>2. pc' = "conflicts" => convErrors' = {} /\ program.sac \cap isrReachable = {}
      BY <2>7 DEF EndVerify, RejectedByIsr
    <3> QED
      BY <1>1, <1>2, <2>4, <2>5, <2>7, <3>1, <3>2
      DEF EndVerify, VerifySound, IsrSound, Verified
  <2> QED
    BY <1>2, <1>4, <2>4, <2>6, <2>7 DEF VerifySound
<1> QED
  BY <1>3, <1>4

Afterwards ==
    BuildConflicts \/ ColorFunction \/ Start \/ Call \/ TailCall \/ Return \/ Interrupt

(* What comes after the verification leaves its results alone.              *)
LEMMA AfterwardsStep ==
    TypeOK /\ VerifySound /\ (Afterwards \/ UNCHANGED vars) => VerifySound'
<1> SUFFICES ASSUME TypeOK, VerifySound, Afterwards \/ UNCHANGED vars PROVE VerifySound'
  OBVIOUS
<1>1. UNCHANGED <<program, callGraph, search, reached, isrReachable, convErrors>>
  BY DEF Afterwards, BuildConflicts, ColorFunction, Start, Call, TailCall, Return,
     Interrupt, Running, vars, search
<1>2. (Verified /\ Verified') \/ UNCHANGED <<pc, left>>
  <2>1. CASE BuildConflicts \/ ColorFunction \/ Start
    BY <2>1 DEF BuildConflicts, ColorFunction, Start, Verified
  <2>2. CASE Call \/ TailCall \/ Return \/ Interrupt \/ UNCHANGED vars
    BY <2>2 DEF Call, TailCall, Return, Interrupt, vars
  <2> QED
    BY <2>1, <2>2 DEF Afterwards
<1>3. \A f : Callees(f)' = Callees(f) /\ (Cleared(f)' <=> Cleared(f))
  BY <1>1, CalleesUnchanged, ClearedUnchanged
<1>4. Closed(isrReachable)'
  BY <1>1, <1>3 DEF VerifySound, IsrSound, Closed
<1>5. CASE Verified /\ Verified'
  <2>1. root = NoFunction
    BY <1>5 DEF VerifySound, SearchSound, Verified
  <2>2. SearchSound'
    BY <1>1, <2>1 DEF SearchSound, search
  <2>3. RecursionSound'
    BY <1>1, <1>3, <1>5 DEF VerifySound, RecursionSound, Unsearched, Verified
  <2>4. IsrSound'
    BY <1>1, <1>4, <1>5 DEF VerifySound, IsrSound, Verified
  <2> QED
    BY <2>2, <2>3, <2>4 DEF VerifySound
<1>6. CASE UNCHANGED <<pc, left>>
  <2>1. SearchSound'
    BY <1>1, <1>3, <1>6 DEF VerifySound, SearchSound, search
  <2>2. RecursionSound'
    BY <1>1, <1>3, <1>6 DEF VerifySound, RecursionSound, Unsearched, search
  <2>3. IsrSound'
    BY <1>1, <1>4, <1>6 DEF VerifySound, IsrSound, Verified, search
  <2> QED
    BY <2>1, <2>2, <2>3 DEF VerifySound
<1> QED
  BY <1>2, <1>5, <1>6

LEMMA VerifyStep == TypeOK /\ VerifySound /\ [Next]_vars => VerifySound'
BY BeginStep, VisitStep, EndSearchStep, PhaseStep, AfterwardsStep
DEF Next, Afterwards, Terminated

-----------------------------------------------------------------------------
(* Once the program runs, no SAC function reaches itself or is reached from a *)
(* handler.                                                                 *)
LEMMA RunsVerified ==
    ASSUME TypeOK, VerifySound, pc = "run"
    PROVE  /\ \A f \in program.sac : Cleared(f) /\ f \notin isrReachable
           /\ Closed(isrReachable)
           /\ program.isr \subseteq isrReachable
BY DEF VerifySound, RecursionSound, IsrSound, Unsearched, Verified

(* Entering a function keeps StackSound when it is called by the last        *)
(* activation or is a handler.                                              *)
LEMMA EnterStep ==
    ASSUME TypeOK, VerifySound, StackSound, pc = "run", stack # <<>>, NEW f \in Function,
           f \in Callees(stack[Len(stack)]) \/ f \in program.isr,
           stack' = Append(stack, f),
           UNCHANGED <<program, pc, reached, isrReachable>>
    PROVE  StackSound'
<1> SUFFICES ASSUME NEW i \in 1..Len(stack'), NEW j \in 1..Len(stack'),
                    i < j, stack'[i] \in program.sac
             PROVE  stack'[j] \in reached[stack'[i]] \cup isrReachable
  BY DEF StackSound
<1>1. Len(stack) \in Nat /\ Len(stack) > 0 /\ Len(stack') = Len(stack) + 1
      /\ \A k \in 1..Len(stack) : stack'[k] = stack[k]
  BY DEF TypeOK
<1>2. stack'[Len(stack) + 1] = f
  BY DEF TypeOK
<1>3. i \in 1..Len(stack) /\ stack'[i] = stack[i]
  BY <1>1
<1>4. CASE j \in 1..Len(stack)
  BY <1>1, <1>3, <1>4 DEF StackSound
<1>5. CASE j = Len(stack) + 1
  <2>1. CASE f \in program.isr
    BY <1>2, <1>5, <2>1, RunsVerified
  <2>2. CASE f \in Callees(stack[Len(stack)])
    <3>1. Cleared(stack[i])
      BY <1>3, RunsVerified
    <3>2. CASE i = Len(stack)
      BY <1>2, <1>3, <1>5, <2>2, <3>1, <3>2 DEF Cleared
    <3>3. CASE i < Len(stack)
      <4>1. stack[Len(stack)] \in reached[stack[i]] \cup isrReachable
        BY <1>1, <1>3, <3>3 DEF StackSound
      <4> QED
        BY <1>2, <1>3, <1>5, <2>2, <3>1, <4>1, RunsVerified DEF Cleared, Closed
    <3> QED
      BY <1>1, <1>3, <3>2, <3>3
  <2> QED
    BY <2>1, <2>2
<1> QED
  BY <1>1, <1>4, <1>5

\* What is left when the last activation returns.
LEMMA ReturnPops ==
    ASSUME stack \in Seq(Function), stack # <<>>, stack' = SubSeq(stack, 1, Len(stack) - 1)
    PROVE  Len(stack') = Len(stack) - 1 /\ \A k \in 1..Len(stack') : stack'[k] = stack[k]
<1>1. stack \in Seq(Function) /\ Len(stack) \in Nat /\ Len(stack) > 0
  OBVIOUS
<1>2. Len(stack) - 1 \in Int /\ 1 \in Int /\ \A k \in 1..(Len(stack) - 1) : stack[k] \in Function
  BY <1>1
<1>3. /\ Len(SubSeq(stack, 1, Len(stack) - 1))
           = IF 1 <= Len(stack) - 1 THEN Len(stack) - 1 - 1 + 1 ELSE 0
      /\ \A k \in 1..(Len(stack) - 1 - 1 + 1) :
            SubSeq(stack, 1, Len(stack) - 1)[k] = stack[1 + k - 1]
  BY <1>2, SubSeqProperties
<1>4. Len(stack') = Len(stack) - 1
  <2>1. Len(stack') = IF 1 <= Len(stack) - 1 THEN Len(stack) - 1 - 1 + 1 ELSE 0
    BY <1>3, Zenon
  <2>2. \A n \in Nat : n > 0 => (IF 1 <= n - 1 THEN n - 1 - 1 + 1 ELSE 0) = n - 1
    OBVIOUS
  <2> QED
    BY <1>1, <2>1, <2>2, Zenon
<1>5. ASSUME NEW k \in 1..Len(stack') PROVE stack'[k] = stack[k]
  <2>1. k \in 1..(Len(stack) - 1 - 1 + 1) /\ 1 + k - 1 = k
    BY <1>1, <1>4
  <2>2. stack'[k] = stack[1 + k - 1]
    BY <1>3, <2>1, Zenon
  <2> QED
    BY <2>1, <2>2
<1> QED
  BY <1>4, <1>5

LEMMA StackStep ==
    TypeOK /\ GraphComplete /\ VerifySound /\ StackSound /\ [Next]_vars => StackSound'
<1> SUFFICES ASSUME TypeOK, GraphComplete, VerifySound, StackSound, [Next]_vars
             PROVE  StackSound'
  OBVIOUS
<1>1. CASE pc # "run" /\ pc' # "run"
  <2>1. stack' = stack
    BY <1>1 DEF Next, vars, BuildCallGraph, SearchRecursion, SearchIsr, Visit, FindRecursion,
       EndSearch, StartIsrCheck, EndVerify, BuildConflicts, ColorFunction, Start, Call,
       TailCall, Return, Interrupt, Terminated, Running
  <2> QED
    BY <1>1, <2>1 DEF StackSound
<1>2. CASE Start
  <2>1. stack' = <<Main>> /\ pc' = "run"
    BY <1>2 DEF Start
  <2> QED
    BY <2>1 DEF StackSound
<1>3. CASE Call
  <2>1. PICK c \in program.calls : Running(c[1]) /\ stack' = Append(stack, c[2])
    BY <1>3 DEF Call
  <2>2. c[2] \in Function /\ c[2] \in Callees(stack[Len(stack)])
    BY <2>1, CallIsSeen DEF Running, TypeOK, Program
  <2>3. pc = "run" /\ stack # <<>> /\ UNCHANGED <<program, pc, reached, isrReachable>>
    BY <1>3, <2>1 DEF Call, Running
  <2> QED
    BY <2>1, <2>2, <2>3, EnterStep
<1>4. CASE TailCall
  BY <1>4 DEF TailCall, GraphComplete
<1>5. CASE Return
  <2>1. UNCHANGED <<program, pc, reached, isrReachable>> /\ pc = "run" /\ stack # <<>>
        /\ stack' = SubSeq(stack, 1, Len(stack) - 1)
    BY <1>5 DEF Return
  <2>2. Len(stack') = Len(stack) - 1 /\ \A k \in 1..Len(stack') : stack'[k] = stack[k]
    BY <2>1, ReturnPops DEF TypeOK
  <2>3. Len(stack) \in Nat
    BY DEF TypeOK
  <2>4. SUFFICES ASSUME NEW i \in 1..Len(stack'), NEW j \in 1..Len(stack'),
                        i < j, stack'[i] \in program.sac
                 PROVE  stack'[j] \in reached[stack'[i]] \cup isrReachable
    BY <2>1 DEF StackSound
  <2>5. i \in 1..Len(stack) /\ j \in 1..Len(stack)
        /\ stack'[i] = stack[i] /\ stack'[j] = stack[j]
    BY <2>2, <2>3
  <2> QED
    BY <2>4, <2>5 DEF StackSound
<1>6. CASE Interrupt
  <2>1. PICK f \in program.isr : stack' = Append(stack, f)
    BY <1>6 DEF Interrupt
  <2>2. f \in Function
    BY DEF TypeOK, Program
  <2>3. pc = "run" /\ stack # <<>> /\ UNCHANGED <<program, pc, reached, isrReachable>>
    BY <1>6 DEF Interrupt
  <2> QED
    BY <2>1, <2>2, <2>3, EnterStep
<1>7. CASE Terminated \/ UNCHANGED vars
  BY <1>7 DEF Terminated, vars, StackSound
<1>8. pc = "run" \/ pc' = "run" =>
        Start \/ Call \/ TailCall \/ Return \/ Interrupt \/ Terminated \/ UNCHANGED vars
  BY DEF Next, BuildCallGraph, SearchRecursion, SearchIsr, Visit, FindRecursion,
     EndSearch, StartIsrCheck, EndVerify, BuildConflicts, ColorFunction, VerifySound, SearchSound
<1> QED
  BY <1>1, <1>2, <1>3, <1>4, <1>5, <1>6, <1>7, <1>8

-----------------------------------------------------------------------------
LEMMA InitIInv ==
    ASSUME AllCallsVisible
    PROVE  Init => IInv
<1> SUFFICES ASSUME Init PROVE IInv
  OBVIOUS
<1>1. TypeOK
  BY InitType
<1>2. GraphComplete
  BY DEF AllCallsVisible, GraphComplete, Init
<1>3. VerifySound
  BY DEF VerifySound, SearchSound, RecursionSound, IsrSound, Closed, Verified, Init
<1>4. StackSound
  BY DEF StackSound, Init
<1> QED
  BY <1>1, <1>2, <1>3, <1>4 DEF IInv

LEMMA StepIInv == IInv /\ [Next]_vars => IInv'
BY TypeStep, GraphStep, VerifyStep, StackStep DEF IInv

(* In a program that runs, what is above a SAC function was reached from it, *)
(* which it is not itself, or from a handler, which it is not either.        *)
LEMMA NoReentryFollows == IInv => NoReentry
<1> SUFFICES ASSUME IInv, NEW i \in 1..Len(stack), NEW j \in 1..Len(stack),
                    i < j, stack[i] \in program.sac, stack[i] = stack[j]
             PROVE  FALSE
  <2>1. Len(stack) \in Nat
    BY DEF IInv, TypeOK
  <2> QED
    BY <2>1 DEF NoReentry
<1>1. pc = "run"
  BY DEF IInv, StackSound
<1>2. Cleared(stack[i]) /\ stack[i] \notin isrReachable
  BY <1>1, RunsVerified DEF IInv
<1>3. stack[j] \in reached[stack[i]] \cup isrReachable
  BY DEF IInv, StackSound
<1> QED
  BY <1>2, <1>3 DEF Cleared

(* A program that ln45 accepts never enters a SAC function while an          *)
(* activation of it lasts, whatever its calls and interrupts, provided the   *)
(* linker sees every call (verifyStaticAllocSafety).                         *)
THEOREM ReentryExcluded ==
    ASSUME AllCallsVisible
    PROVE  Spec => []NoReentry
<1>1. Init => IInv
  BY InitIInv
<1> QED
  BY <1>1, StepIInv, NoReentryFollows, PTL DEF Spec

-----------------------------------------------------------------------------
\* Bases of the slots.

LEMMA LeastNatural ==
    ASSUME NEW S \in SUBSET Nat, S # {}
    PROVE  \E m \in S : \A i \in S : m <= i
<1>. DEFINE R == OpToRel(<, Nat)
<1>1. IsWellFoundedOn(R, Nat)
  BY NatLessThanWellFounded
<1>2. PICK m \in S : \A i \in S : <<i, m>> \notin R
  <2>. HIDE DEF R
  <2>. QED BY <1>1, WFMin, Zenon
<1>3. \A i \in S : ~(i < m)
  BY <1>2 DEF OpToRel
<1>. QED BY <1>3

\* The bases of the slots up to n.
Bases(h, n) == h = [c \in 0..n |-> IF c = 0 THEN 0 ELSE h[c - 1] + SlotSize(c - 1)]

LEMMA BasesExist == \A n \in Nat : \E h : Bases(h, n)
<1>. DEFINE S == {n \in Nat : ~\E h : Bases(h, n)}
<1>. SUFFICES ASSUME S # {} PROVE FALSE
  OBVIOUS
<1>1. PICK n \in S : \A i \in S : n <= i
  BY LeastNatural
<1>2. CASE n = 0
  <2>. DEFINE h == [c \in 0..0 |-> 0]
  <2>1. h = [c \in 0..0 |-> IF c = 0 THEN 0 ELSE h[c - 1] + SlotSize(c - 1)]
    OBVIOUS
  <2>. HIDE DEF h
  <2>2. Bases(h, 0)
    BY <2>1 DEF Bases
  <2>. QED BY <1>2, <2>2
<1>3. CASE n # 0
  <2>1. n - 1 \in Nat /\ n - 1 \notin S
    BY <1>1, <1>3
  <2>2. PICK g : Bases(g, n - 1)
    BY <2>1
  <2>. DEFINE h == [c \in 0..n |-> IF c = n THEN g[n - 1] + SlotSize(n - 1) ELSE g[c]]
  <2>3. ASSUME NEW c \in 0..n
        PROVE  h[c] = IF c = 0 THEN 0 ELSE h[c - 1] + SlotSize(c - 1)
    <3>1. \A i \in 0..(n - 1) : g[i] = IF i = 0 THEN 0 ELSE g[i - 1] + SlotSize(i - 1)
      BY <2>2 DEF Bases
    <3>2. CASE c = n
      BY <1>3, <3>2
    <3>3. CASE c # n
      <4>1. c \in 0..(n - 1) /\ (c # 0 => c - 1 \in 0..n /\ c - 1 # n)
        BY <3>3
      <4>. QED BY <3>1, <3>3, <4>1
    <3>. QED BY <3>2, <3>3
  <2>4. DOMAIN h = 0..n /\ h = [c \in DOMAIN h |-> h[c]]
    OBVIOUS
  <2>. HIDE DEF h
  <2>5. Bases(h, n)
    BY <2>3, <2>4 DEF Bases
  <2>. QED BY <2>5
<1>. QED BY <1>2, <1>3

LEMMA BasesAgree ==
    ASSUME NEW m \in Nat, NEW n \in Nat, NEW g, NEW h, Bases(g, m), Bases(h, n)
    PROVE  \A c \in 0..m : c <= n => g[c] = h[c]
<1>. DEFINE S == {c \in 0..m : c <= n /\ g[c] # h[c]}
<1>. SUFFICES ASSUME S # {} PROVE FALSE
  OBVIOUS
<1>1. S \in SUBSET Nat
  OBVIOUS
<1>2. PICK c \in S : \A i \in S : c <= i
  <2>. HIDE DEF S
  <2>. QED BY <1>1, LeastNatural
<1>3. /\ \A i \in 0..m : g[i] = IF i = 0 THEN 0 ELSE g[i - 1] + SlotSize(i - 1)
      /\ \A i \in 0..n : h[i] = IF i = 0 THEN 0 ELSE h[i - 1] + SlotSize(i - 1)
  BY DEF Bases
<1>4. c \in 0..m /\ c \in 0..n /\ g[c] # h[c]
  BY <1>2
<1>5. c # 0
  BY <1>3, <1>4
<1>6. c - 1 \in 0..m /\ c - 1 <= n /\ c - 1 \notin S
  BY <1>2, <1>4, <1>5
<1>. QED BY <1>3, <1>4, <1>5, <1>6

\* The recursive definition of the bases means what it says.
LEMMA SlotBaseIs ==
    \A c \in Nat : SlotBase[c] = IF c = 0 THEN 0 ELSE SlotBase[c - 1] + SlotSize(c - 1)
<1>. DEFINE Chosen(n) == CHOOSE h : Bases(h, n)
            G == [n \in Nat |-> Chosen(n)[n]]
<1>1. \A n \in Nat : Bases(Chosen(n), n)
  BY BasesExist
<1>2. ASSUME NEW c \in Nat
      PROVE  G[c] = IF c = 0 THEN 0 ELSE G[c - 1] + SlotSize(c - 1)
  <2>1. Chosen(c)[c] = IF c = 0 THEN 0 ELSE Chosen(c)[c - 1] + SlotSize(c - 1)
    <3>1. Bases(Chosen(c), c) /\ c \in 0..c
      BY <1>1
    <3>. HIDE DEF Chosen
    <3>. QED BY <3>1 DEF Bases
  <2>2. c # 0 => Chosen(c)[c - 1] = Chosen(c - 1)[c - 1]
    <3>. SUFFICES ASSUME c # 0 PROVE Chosen(c)[c - 1] = Chosen(c - 1)[c - 1]
      OBVIOUS
    <3>1. c - 1 \in Nat /\ c - 1 \in 0..(c - 1) /\ c - 1 <= c
      OBVIOUS
    <3>2. Bases(Chosen(c - 1), c - 1) /\ Bases(Chosen(c), c)
      BY <1>1, <3>1
    <3>. HIDE DEF Chosen
    <3>. QED BY <3>1, <3>2, BasesAgree
  <2>. HIDE DEF Chosen
  <2>. QED BY <2>1, <2>2
<1>. HIDE DEF Chosen
<1>3. DOMAIN G = Nat /\ G = [c \in DOMAIN G |-> G[c]]
  OBVIOUS
<1>. HIDE DEF G
<1>4. G = [c \in Nat |-> IF c = 0 THEN 0 ELSE G[c - 1] + SlotSize(c - 1)]
  BY <1>2, <1>3
<1>5. SlotBase = [c \in Nat |-> IF c = 0 THEN 0 ELSE SlotBase[c - 1] + SlotSize(c - 1)]
  BY <1>4 DEF SlotBase
<1>. QED BY <1>5

\* A slot begins where all before it have ended.
LEMMA SlotsFollow ==
    ASSUME NEW n \in Nat, \A c \in 0..(n - 1) : SlotSize(c) \in Nat
    PROVE  /\ \A c \in 0..n : SlotBase[c] \in Nat
           /\ \A c, d \in 0..n : c < d => SlotBase[c] + SlotSize(c) <= SlotBase[d]
<1>1. \A c \in 0..n : c # 0 => c - 1 \in 0..(n - 1) /\ SlotBase[c] = SlotBase[c - 1] + SlotSize(c - 1)
  BY SlotBaseIs
<1>2. SlotBase[0] = 0
  BY SlotBaseIs
<1>3. \A c \in 0..n : SlotBase[c] \in Nat
  <2>. DEFINE S == {c \in 0..n : SlotBase[c] \notin Nat}
  <2>. SUFFICES ASSUME S # {} PROVE FALSE
    OBVIOUS
  <2>1. S \in SUBSET Nat
    OBVIOUS
  <2>2. PICK c \in S : \A i \in S : c <= i
    <3>. HIDE DEF S
    <3>. QED BY <2>1, LeastNatural
  <2>3. c # 0
    BY <1>2, <2>2
  <2>4. c - 1 \in 0..(n - 1) /\ SlotBase[c] = SlotBase[c - 1] + SlotSize(c - 1)
    BY <1>1, <2>2, <2>3
  <2>5. SlotBase[c - 1] \in Nat
    <3>1. c - 1 \in 0..n /\ c - 1 \notin S
      BY <2>2, <2>4
    <3>. QED BY <3>1
  <2>. QED BY <2>2, <2>4, <2>5
<1>4. ASSUME NEW c \in 0..n
      PROVE  \A d \in 0..n : c < d => SlotBase[c] + SlotSize(c) <= SlotBase[d]
  <2>. DEFINE S == {d \in 0..n : c < d /\ ~(SlotBase[c] + SlotSize(c) <= SlotBase[d])}
  <2>. SUFFICES ASSUME S # {} PROVE FALSE
    OBVIOUS
  <2>1. S \in SUBSET Nat
    OBVIOUS
  <2>2. PICK d \in S : \A i \in S : d <= i
    <3>. HIDE DEF S
    <3>. QED BY <2>1, LeastNatural
  <2>3. d \in 0..n /\ c < d /\ c \in 0..(n - 1) /\ d # 0
    BY <2>2
  <2>4. d - 1 \in 0..(n - 1) /\ SlotBase[d] = SlotBase[d - 1] + SlotSize(d - 1)
    BY <1>1, <2>3
  <2>5. d - 1 \in 0..n /\ d - 1 \notin S
    BY <2>2, <2>4
  <2>6. SlotBase[c] \in Nat /\ SlotSize(c) \in Nat /\ SlotBase[d - 1] \in Nat /\ SlotSize(d - 1) \in Nat
    BY <1>3, <2>3, <2>4, <2>5
  <2>7. CASE c = d - 1
    BY <2>2, <2>4, <2>6, <2>7
  <2>8. CASE c < d - 1
    BY <2>2, <2>4, <2>5, <2>6, <2>8
  <2>. QED BY <2>3, <2>7, <2>8
<1>. QED BY <1>3, <1>4

-----------------------------------------------------------------------------
\* What can be reached.

LEMMA Reaching ==
    ASSUME callGraph \subseteq Function \X Function, NEW s \in SUBSET Function
    PROVE  /\ s \subseteq ReachableFrom(s) /\ ReachableFrom(s) \subseteq Function
           /\ Closed(ReachableFrom(s))
           /\ \A t \in SUBSET Function : s \subseteq t /\ Closed(t) => ReachableFrom(s) \subseteq t
<1>1. \A f : Callees(f) \subseteq Function
  BY DEF Callees
<1>. QED BY <1>1 DEF ReachableFrom, Closed

\* Steps that leave the call graph alone leave what is reached.
LEMMA ReachingUnchanged ==
    UNCHANGED callGraph => \A s : ReachableFrom(s)' = ReachableFrom(s)
BY CalleesUnchanged DEF ReachableFrom, Closed

\* What a search has come to can be reached from where it began.
SearchWithin ==
    root # NoFunction =>
        /\ pc \in {"recursion", "isr"}
        /\ pc = "recursion" => visited \cup toVisit \subseteq ReachableFrom(Callees(root))
        /\ pc = "isr" => visited \cup toVisit \subseteq ReachableFrom(program.isr)

CauseSound ==
    /\ SearchWithin
    /\ pc = "isr" => left \subseteq program.isr
    /\ pc = "scan" => convErrors = {} /\ isrReachable = {} /\ root = NoFunction
    /\ isrReachable \subseteq ReachableFrom(program.isr)
    /\ RejectsOnlyForCause

LEMMA CauseStep == TypeOK /\ CauseSound /\ [Next]_vars => CauseSound'
<1>. SUFFICES ASSUME TypeOK, CauseSound, [Next]_vars PROVE CauseSound'
  OBVIOUS
<1>1. /\ callGraph \subseteq Function \X Function /\ program.isr \in SUBSET Function
      /\ \A f : Callees(f) \in SUBSET Function
  BY CalleesType DEF TypeOK, Program
<1>2. CASE BuildCallGraph
  BY <1>2 DEF BuildCallGraph, CauseSound, SearchWithin, RejectsOnlyForCause, search
<1>3. CASE ~BuildCallGraph
  <2>1. UNCHANGED <<program, callGraph>>
    BY <1>3 DEF Next, vars, SearchRecursion, SearchIsr, Visit, FindRecursion, EndSearch,
       StartIsrCheck, EndVerify, BuildConflicts, ColorFunction, Start, Call, TailCall,
       Return, Interrupt, Terminated
  <2>2. \A s : ReachableFrom(s)' = ReachableFrom(s)
    BY <2>1, ReachingUnchanged
  <2>3. \A f : Callees(f)' = Callees(f)
    BY <2>1, CalleesUnchanged
  <2>4. CASE UNCHANGED <<convErrors, isrReachable, search, pc, left>>
    BY <2>1, <2>2, <2>3, <2>4 DEF CauseSound, SearchWithin, RejectsOnlyForCause, search
  <2>5. CASE SearchRecursion
    <3>1. PICK f \in left : root' = f /\ toVisit' = Callees(f) /\ visited' = {}
      BY <2>5 DEF SearchRecursion, StartingPoints
    <3>2. visited' \cup toVisit' \subseteq ReachableFrom(Callees(f))
      BY <1>1, <3>1, Reaching
    <3>. QED BY <2>1, <2>2, <2>3, <2>5, <3>1, <3>2
             DEF SearchRecursion, CauseSound, SearchWithin, RejectsOnlyForCause
  <2>6. CASE SearchIsr
    <3>1. PICK f \in left : root' = f /\ toVisit' = {f} /\ visited' = {} /\ left' = left \ {f}
      BY <2>6 DEF SearchIsr
    <3>2. visited' \cup toVisit' \subseteq ReachableFrom(program.isr)
      BY <1>1, <2>6, <3>1, Reaching DEF SearchIsr, CauseSound
    <3>. QED BY <2>1, <2>2, <2>3, <2>6, <3>1, <3>2
             DEF SearchIsr, CauseSound, SearchWithin, RejectsOnlyForCause
  <2>7. CASE Visit
    <3>1. PICK c \in toVisit : visited' = visited \cup {c} /\ toVisit' = Pending(c)
      BY <2>7 DEF Visit
    <3>2. visited' \cup toVisit' \subseteq visited \cup toVisit \cup Callees(c)
      BY <3>1 DEF Pending
    <3>3. ASSUME NEW s \in SUBSET Function, visited \cup toVisit \subseteq ReachableFrom(s)
          PROVE  visited' \cup toVisit' \subseteq ReachableFrom(s)
      <4>1. Callees(c) \subseteq ReachableFrom(s)
        BY <1>1, <3>3, Reaching DEF Closed
      <4>. QED BY <3>2, <3>3, <4>1
    <3>4. UNCHANGED <<pc, left, root, isrReachable, convErrors>>
      BY <2>7 DEF Visit
    <3>5. SearchWithin'
      BY <1>1, <2>1, <2>2, <2>3, <3>3, <3>4 DEF CauseSound, SearchWithin
    <3>. QED BY <2>1, <2>2, <2>3, <3>4, <3>5 DEF CauseSound, RejectsOnlyForCause
  <2>8. CASE FindRecursion
    <3>1. root \in toVisit /\ root # NoFunction /\ pc = "recursion"
      BY <2>8, NoFunctionAssumption DEF FindRecursion, TypeOK
    <3>2. root \in ReachableFrom(Callees(root))
      BY <3>1 DEF CauseSound, SearchWithin
    <3>3. convErrors' = convErrors \cup {root} /\ root' = NoFunction
          /\ UNCHANGED <<pc, left, isrReachable>>
      BY <2>8 DEF FindRecursion
    <3>4. RejectsOnlyForCause'
      BY <2>1, <2>2, <2>3, <3>2, <3>3 DEF CauseSound, RejectsOnlyForCause
    <3>. QED BY <2>1, <2>2, <3>1, <3>3, <3>4 DEF CauseSound, SearchWithin
  <2>9. CASE EndSearch
    <3>1. UNCHANGED <<pc, left, convErrors>> /\ root' = NoFunction /\ root # NoFunction
      BY <2>9 DEF EndSearch
    <3>2. isrReachable' \subseteq ReachableFrom(program.isr)
      BY <2>9 DEF EndSearch, CauseSound, SearchWithin
    <3>. QED BY <2>1, <2>2, <2>3, <3>1, <3>2 DEF CauseSound, SearchWithin, RejectsOnlyForCause
  <2>10. CASE StartIsrCheck
    BY <2>1, <2>2, <2>3, <2>10 DEF StartIsrCheck, CauseSound, SearchWithin, RejectsOnlyForCause, search
  <2>11. CASE EndVerify
    <3>1. convErrors' = convErrors \cup RejectedByIsr /\ RejectedByIsr \subseteq isrReachable
          /\ root' = NoFunction /\ pc' # "scan" /\ pc' # "isr" /\ isrReachable' = isrReachable
      BY <2>11 DEF EndVerify, RejectedByIsr, search
    <3>. QED BY <2>1, <2>2, <2>3, <3>1 DEF CauseSound, SearchWithin, RejectsOnlyForCause
  <2>12. CASE BuildConflicts \/ Start
    BY <2>1, <2>2, <2>3, <2>12
    DEF BuildConflicts, Start, CauseSound, SearchWithin, RejectsOnlyForCause, search
  <2>13. CASE ColorFunction
    <3>1. UNCHANGED <<convErrors, isrReachable, search, pc>> /\ pc = "color"
      BY <2>13 DEF ColorFunction
    <3>. QED BY <2>1, <2>2, <2>3, <3>1 DEF CauseSound, SearchWithin, RejectsOnlyForCause, search
  <2>14. CASE Call \/ TailCall \/ Return \/ Interrupt \/ Terminated \/ UNCHANGED vars
    BY <2>4, <2>14 DEF Call, TailCall, Return, Interrupt, Terminated, vars, search
  <2>. QED BY <1>3, <2>5, <2>6, <2>7, <2>8, <2>9, <2>10, <2>11, <2>12, <2>13, <2>14 DEF Next
<1>. QED BY <1>2, <1>3

\* Whatever the program, a link is refused only for a function that can reach itself or
\* be reached from a handler (verifyStaticAllocSafety).
THEOREM RefusedForCause == Spec => []RejectsOnlyForCause
<1>1. Init => CauseSound
  BY DEF Init, CauseSound, SearchWithin, RejectsOnlyForCause
<1>2. CauseSound => RejectsOnlyForCause
  BY DEF CauseSound
<1>. QED BY <1>1, <1>2, TypeCorrect, CauseStep, PTL DEF Spec

-----------------------------------------------------------------------------
\* The slots.

Coloring == pc \in {"color", "run"}

\* BuildConflicts computed the conflicts of every SAC function.
ConflictsBuilt ==
    Coloring => conflicts = [f \in program.sac |->
                               ConflictsOf(f, ReachableFrom(program.isr), ReachableFrom(EntryPoints))]

\* A SAC function has been coloured or is left, not both.
Partition ==
    /\ IsFiniteSet(DOMAIN arColor)
    /\ pc = "conflicts" => left = program.sac
    /\ ~Coloring => DOMAIN arColor = {}
    /\ pc = "color" => left \cap DOMAIN arColor = {} /\ left \cup DOMAIN arColor = program.sac
    /\ pc = "run" => DOMAIN arColor = program.sac

NoClash ==
    \A f, g \in DOMAIN arColor :
        f # g /\ arColor[f] = arColor[g] => g \notin conflicts[f]

\* One record of a slot is at least as large as the others.
LargestExists ==
    \A f \in DOMAIN arColor : \E g \in InSlot(arColor[f]) :
        \A h \in InSlot(arColor[f]) : program.frame[h] <= program.frame[g]

ColorSound ==
    /\ Partition
    /\ \A f \in DOMAIN arColor : arColor[f] \in Nat
    /\ NoClash
    /\ OverlaysWherePossible
    /\ LargestExists

LEMMA ColoringStep ==
    ASSUME TypeOK, ColorSound, ColorFunction
    PROVE  ColorSound'
<1>1. PICK f \in left, color \in 0..Cardinality(DOMAIN arColor) :
        /\ left' = left \ {f}
        /\ CanUse(f, color)
        /\ \A c \in 0..(color - 1) : ~CanUse(f, c)
        /\ arColor' = [g \in DOMAIN arColor \cup {f} |-> IF g = f THEN color ELSE arColor[g]]
  BY DEF ColorFunction
<1>2. pc = "color" /\ UNCHANGED <<program, pc, conflicts>>
  BY DEF ColorFunction
<1>3. color \in Nat
  BY FS_CardinalityType DEF ColorSound, Partition
<1>4. f \notin DOMAIN arColor /\ left \cup DOMAIN arColor = program.sac
  BY <1>1, <1>2 DEF ColorSound, Partition
<1>5. /\ DOMAIN arColor' = DOMAIN arColor \cup {f} /\ arColor'[f] = color
      /\ \A g \in DOMAIN arColor : g # f /\ arColor'[g] = arColor[g]
  BY <1>1, <1>4
<1>6. Partition'
  <2>1. IsFiniteSet(DOMAIN arColor')
    BY <1>5, FS_AddElement DEF ColorSound, Partition
  <2>. QED BY <1>1, <1>2, <1>4, <1>5, <2>1 DEF ColorSound, Partition, Coloring
<1>7. \A g \in DOMAIN arColor' : arColor'[g] \in Nat
  BY <1>3, <1>5 DEF ColorSound
<1>8. NoClash'
  <2>1. \A g \in DOMAIN arColor : arColor[g] = color => g \notin conflicts[f] /\ f \notin conflicts[g]
    BY <1>1 DEF CanUse
  <2>. QED BY <1>2, <1>5, <2>1 DEF ColorSound, NoClash
<1>9. \A c : InSlot(c)' = IF c = color THEN InSlot(c) \cup {f} ELSE InSlot(c)
  BY <1>4, <1>5 DEF InSlot
<1>10. OverlaysWherePossible'
  <2>. SUFFICES ASSUME NEW g \in DOMAIN arColor', NEW c \in 0..(arColor'[g] - 1)
                PROVE  \E h \in InSlot(c)' : h \in conflicts[g] \/ g \in conflicts[h]
    BY <1>2 DEF OverlaysWherePossible
  <2>1. CASE g = f
    <3>1. ~CanUse(f, c)
      BY <1>1, <1>5, <2>1
    <3>2. PICK h \in DOMAIN arColor : arColor[h] = c /\ (h \in conflicts[f] \/ f \in conflicts[h])
      BY <3>1 DEF CanUse
    <3>3. h \in InSlot(c)
      BY <3>2 DEF InSlot
    <3>. QED BY <1>9, <2>1, <3>2, <3>3
  <2>2. CASE g # f
    <3>1. g \in DOMAIN arColor /\ c \in 0..(arColor[g] - 1)
      BY <1>5, <2>2
    <3>2. PICK h \in InSlot(c) : h \in conflicts[g] \/ g \in conflicts[h]
      BY <3>1 DEF ColorSound, OverlaysWherePossible
    <3>. QED BY <1>9, <3>2
  <2>. QED BY <2>1, <2>2
<1>11. LargestExists'
  <2>1. \A g \in Function : program.frame[g] \in Nat
    BY DEF TypeOK, Program
  <2>2. f \in Function /\ DOMAIN arColor \subseteq Function
    BY <1>4, <1>1 DEF TypeOK, Program
  <2>. SUFFICES ASSUME NEW g \in DOMAIN arColor', NEW c, c = arColor'[g]
                PROVE  \E m \in InSlot(c)' : \A h \in InSlot(c)' :
                          program.frame[h] <= program.frame[m]
    BY <1>2 DEF LargestExists, InSlot
  <2>3. CASE c # color
    <3>1. g \in DOMAIN arColor /\ c = arColor[g] /\ InSlot(c)' = InSlot(arColor[g])
      BY <1>5, <1>9, <2>3
    <3>. QED BY <3>1 DEF ColorSound, LargestExists
  <2>4. CASE c = color /\ InSlot(color) = {}
    <3>1. InSlot(c)' = {f}
      BY <1>9, <2>4
    <3>. QED BY <2>1, <2>2, <3>1
  <2>5. CASE c = color /\ InSlot(color) # {}
    <3>1. PICK h \in DOMAIN arColor : arColor[h] = color
      BY <2>5 DEF InSlot
    <3>2. PICK m \in InSlot(color) : \A i \in InSlot(color) : program.frame[i] <= program.frame[m]
      BY <3>1 DEF ColorSound, LargestExists
    <3>3. InSlot(c)' = InSlot(color) \cup {f}
      BY <1>9, <2>5
    <3>4. InSlot(color) \subseteq Function
      BY <2>2 DEF InSlot
    <3>5. CASE program.frame[f] <= program.frame[m]
      BY <3>2, <3>3, <3>5
    <3>6. CASE ~(program.frame[f] <= program.frame[m])
      <4>1. \A i \in InSlot(color) \cup {f} : program.frame[i] <= program.frame[f]
        BY <2>1, <2>2, <3>2, <3>4, <3>6
      <4>. QED BY <3>3, <4>1
    <3>. QED BY <3>5, <3>6
  <2>. QED BY <2>3, <2>4, <2>5
<1>. QED BY <1>6, <1>7, <1>8, <1>10, <1>11 DEF ColorSound

LEMMA ColorStep == TypeOK /\ ColorSound /\ [Next]_vars => ColorSound'
<1>. SUFFICES ASSUME TypeOK, ColorSound, [Next]_vars PROVE ColorSound'
  OBVIOUS
<1>1. CASE ColorFunction
  BY <1>1, ColoringStep
<1>2. CASE BuildConflicts
  <2>1. pc = "conflicts" /\ pc' = "color" /\ UNCHANGED <<program, left, arColor>>
        /\ left = program.sac /\ DOMAIN arColor = {}
    BY <1>2 DEF BuildConflicts, ColorSound, Partition, Coloring
  <2>2. Partition'
    BY <2>1 DEF ColorSound, Partition, Coloring
  <2>. QED BY <2>1, <2>2 DEF ColorSound, NoClash, OverlaysWherePossible, LargestExists
<1>3. CASE Start
  <2>1. pc = "color" /\ pc' = "run" /\ UNCHANGED <<program, arColor, conflicts>> /\ left = {}
    BY <1>3 DEF Start
  <2>2. Partition'
    BY <2>1 DEF ColorSound, Partition, Coloring
  <2>. QED BY <2>1, <2>2 DEF ColorSound, NoClash, OverlaysWherePossible, LargestExists, InSlot
<1>4. CASE BuildCallGraph \/ SearchRecursion \/ SearchIsr \/ Visit \/ FindRecursion
           \/ EndSearch \/ StartIsrCheck
  <2>1. ~Coloring \/ (UNCHANGED <<pc, left>> /\ ~(SearchRecursion \/ SearchIsr))
    BY <1>4 DEF BuildCallGraph, SearchRecursion, SearchIsr, Visit, FindRecursion, EndSearch,
       StartIsrCheck, Coloring
  <2>2. (~Coloring => ~Coloring') /\ UNCHANGED <<program, arColor, conflicts>>
        /\ (pc' = "conflicts" => UNCHANGED <<pc, left>>)
    BY <1>4 DEF BuildCallGraph, SearchRecursion, SearchIsr, Visit, FindRecursion, EndSearch,
       StartIsrCheck, Coloring
  <2>3. Partition'
    BY <2>1, <2>2 DEF ColorSound, Partition, Coloring
  <2>. QED BY <2>2, <2>3 DEF ColorSound, NoClash, OverlaysWherePossible, LargestExists, InSlot
<1>5. CASE EndVerify
  <2>1. ~Coloring /\ ~Coloring' /\ UNCHANGED <<program, arColor, conflicts>> /\ left' = program.sac
    BY <1>5 DEF EndVerify, Coloring
  <2>2. Partition'
    BY <2>1 DEF ColorSound, Partition, Coloring
  <2>. QED BY <2>1, <2>2 DEF ColorSound, NoClash, OverlaysWherePossible, LargestExists, InSlot
<1>6. CASE Call \/ TailCall \/ Return \/ Interrupt \/ Terminated \/ UNCHANGED vars
  <2>1. UNCHANGED <<program, pc, left, arColor, conflicts>>
    BY <1>6 DEF Call, TailCall, Return, Interrupt, Terminated, vars
  <2>2. Partition'
    BY <2>1 DEF ColorSound, Partition, Coloring
  <2>. QED BY <2>1, <2>2 DEF ColorSound, NoClash, OverlaysWherePossible, LargestExists, InSlot
<1>. QED BY <1>1, <1>2, <1>3, <1>4, <1>5, <1>6 DEF Next

\* Whatever the program, a record is put behind others only because of a conflict in every
\* slot before (colorStaticAllocRegisters).
THEOREM SharedWherePossible == Spec => []OverlaysWherePossible
<1>1. Init => ColorSound
  <2>. SUFFICES ASSUME Init PROVE ColorSound
    OBVIOUS
  <2>1. DOMAIN arColor = {} /\ pc = "scan"
    BY DEF Init
  <2>. QED BY <2>1, FS_EmptySet
           DEF ColorSound, Partition, Coloring, NoClash, OverlaysWherePossible, LargestExists
<1>2. ColorSound => OverlaysWherePossible
  BY DEF ColorSound
<1>. QED BY <1>1, <1>2, TypeCorrect, ColorStep, PTL DEF Spec

-----------------------------------------------------------------------------
\* Records of functions that are active together.

\* What is above an activation of a SAC function can be reached from it, or was reached
\* from a handler.
StackReach ==
    \A i, j \in 1..Len(stack) :
        i < j /\ stack[i] \in program.sac
        => stack[j] \in ReachableFrom(Callees(stack[i])) \cup isrReachable

FInv == IInv /\ ColorSound /\ ConflictsBuilt /\ StackReach

LEMMA ConflictsStep == TypeOK /\ ConflictsBuilt /\ [Next]_vars => ConflictsBuilt'
<1>. SUFFICES ASSUME TypeOK, ConflictsBuilt, [Next]_vars PROVE ConflictsBuilt'
  OBVIOUS
<1>1. CASE ~Coloring'
  BY <1>1 DEF ConflictsBuilt
<1>2. CASE Coloring' /\ (Coloring \/ BuildConflicts)
  <2>1. UNCHANGED <<program, callGraph>>
    BY <1>2 DEF Next, vars, BuildCallGraph, SearchRecursion, SearchIsr, Visit, FindRecursion,
       EndSearch, StartIsrCheck, EndVerify, BuildConflicts, ColorFunction, Start, Call, TailCall,
       Return, Interrupt, Terminated, Coloring
  <2>2. (\A s : ReachableFrom(s)' = ReachableFrom(s)) /\ (\A f : Callees(f)' = Callees(f))
    BY <2>1, ReachingUnchanged, CalleesUnchanged
  <2>3. EntryPoints' = EntryPoints
    BY <2>2 DEF EntryPoints
  <2>4. \A f, s, t : ConflictsOf(f, s, t)' = ConflictsOf(f, s, t)
    BY <2>1, <2>2 DEF ConflictsOf
  <2>5. ReachableFrom(program.isr)' = ReachableFrom(program.isr)
        /\ ReachableFrom(EntryPoints)' = ReachableFrom(EntryPoints)
    BY <2>1, <2>2, <2>3 DEF ReachableFrom, Closed
  <2>6. conflicts' = [f \in program.sac |->
                        ConflictsOf(f, ReachableFrom(program.isr), ReachableFrom(EntryPoints))]
    <3>1. CASE BuildConflicts
      BY <3>1 DEF BuildConflicts
    <3>2. CASE Coloring
      <4>1. conflicts' = conflicts
        BY <3>2 DEF Next, vars, BuildCallGraph, SearchRecursion, SearchIsr, Visit, FindRecursion,
           EndSearch, StartIsrCheck, EndVerify, BuildConflicts, ColorFunction, Start, Call,
           TailCall, Return, Interrupt, Terminated, Coloring
      <4>. QED BY <3>2, <4>1 DEF ConflictsBuilt
    <3>. QED BY <1>2, <3>1, <3>2
  <2>7. \A f : ConflictsOf(f, ReachableFrom(program.isr), ReachableFrom(EntryPoints))' =
               ConflictsOf(f, ReachableFrom(program.isr), ReachableFrom(EntryPoints))
    BY <2>1, <2>2, <2>5 DEF ConflictsOf
  <2>. QED BY <2>1, <2>6, <2>7 DEF ConflictsBuilt
<1>3. Coloring' => Coloring \/ BuildConflicts
  BY DEF Next, vars, BuildCallGraph, SearchRecursion, SearchIsr, Visit, FindRecursion,
     EndSearch, StartIsrCheck, EndVerify, BuildConflicts, ColorFunction, Start, Call, TailCall,
     Return, Interrupt, Terminated, Coloring
<1>. QED BY <1>1, <1>2, <1>3

\* Entering a function that the last activation calls, or a handler.
LEMMA EnterReach ==
    ASSUME TypeOK, VerifySound, StackReach, pc = "run", stack # <<>>, NEW f \in Function,
           f \in Callees(stack[Len(stack)]) \/ f \in program.isr,
           stack' = Append(stack, f),
           UNCHANGED <<program, callGraph, isrReachable>>
    PROVE  StackReach'
<1>. SUFFICES ASSUME NEW i \in 1..Len(stack'), NEW j \in 1..Len(stack'),
                     i < j, stack'[i] \in program.sac
              PROVE  stack'[j] \in ReachableFrom(Callees(stack'[i])) \cup isrReachable
  BY CalleesUnchanged DEF StackReach, ReachableFrom, Closed
<1>1. /\ Len(stack) \in Nat /\ Len(stack) > 0 /\ Len(stack') = Len(stack) + 1
      /\ \A k \in 1..Len(stack) : stack'[k] = stack[k] /\ stack[k] \in Function
      /\ stack'[Len(stack) + 1] = f
  BY DEF TypeOK
<1>2. i \in 1..Len(stack) /\ stack'[i] = stack[i]
  BY <1>1
<1>3. CASE j \in 1..Len(stack)
  BY <1>1, <1>2, <1>3 DEF StackReach
<1>4. CASE j = Len(stack) + 1
  <2>1. CASE f \in program.isr
    BY <1>1, <1>4, <2>1, RunsVerified
  <2>2. CASE f \in Callees(stack[Len(stack)])
    <3>1. /\ Callees(stack[i]) \subseteq ReachableFrom(Callees(stack[i]))
          /\ Closed(ReachableFrom(Callees(stack[i]))) /\ Closed(isrReachable)
      BY CalleesType, Reaching, RunsVerified DEF TypeOK
    <3>2. CASE i = Len(stack)
      BY <1>1, <1>2, <1>4, <2>2, <3>1, <3>2
    <3>3. CASE i < Len(stack)
      <4>1. stack[Len(stack)] \in ReachableFrom(Callees(stack[i])) \cup isrReachable
        BY <1>1, <1>2, <3>3 DEF StackReach
      <4>. QED BY <1>1, <1>2, <1>4, <2>2, <3>1, <4>1 DEF Closed
    <3>. QED BY <1>1, <1>2, <3>2, <3>3
  <2>. QED BY <2>1, <2>2
<1>. QED BY <1>1, <1>3, <1>4

LEMMA ReachStep == IInv /\ StackReach /\ [Next]_vars => StackReach'
<1>. SUFFICES ASSUME IInv, StackReach, [Next]_vars PROVE StackReach'
  OBVIOUS
<1>. USE DEF IInv
<1>1. CASE pc # "run" /\ pc' # "run"
  <2>1. stack = <<>> /\ stack' = stack
    BY <1>1 DEF StackSound, Next, vars, BuildCallGraph, SearchRecursion, SearchIsr, Visit,
       FindRecursion, EndSearch, StartIsrCheck, EndVerify, BuildConflicts, ColorFunction, Start,
       Call, TailCall, Return, Interrupt, Terminated, Running
  <2>. QED BY <2>1 DEF StackReach
<1>2. CASE Start
  <2>1. stack' = <<Main>>
    BY <1>2 DEF Start
  <2>. QED BY <2>1 DEF StackReach
<1>3. CASE Call
  <2>1. PICK c \in program.calls : Running(c[1]) /\ stack' = Append(stack, c[2])
    BY <1>3 DEF Call
  <2>2. c[2] \in Function /\ c[2] \in Callees(stack[Len(stack)])
    BY <2>1, CallIsSeen DEF Running, TypeOK, Program
  <2>3. pc = "run" /\ stack # <<>> /\ UNCHANGED <<program, callGraph, isrReachable>>
    BY <1>3, <2>1 DEF Call, Running
  <2>. QED BY <2>1, <2>2, <2>3, EnterReach
<1>4. CASE TailCall
  BY <1>4 DEF TailCall, GraphComplete
<1>5. CASE Return
  <2>1. /\ UNCHANGED <<program, callGraph, isrReachable>>
        /\ Len(stack) \in Nat /\ Len(stack') = Len(stack) - 1
        /\ \A n \in 1..Len(stack') : stack'[n] = stack[n]
    BY <1>5, ReturnPops DEF Return, TypeOK
  <2>2. \A f : ReachableFrom(Callees(f))' = ReachableFrom(Callees(f))
    BY <2>1, CalleesUnchanged DEF ReachableFrom, Closed
  <2>3. ASSUME NEW i \in 1..Len(stack'), NEW j \in 1..Len(stack'), i < j, stack'[i] \in program.sac
        PROVE  stack'[j] \in ReachableFrom(Callees(stack'[i])) \cup isrReachable
    <3>1. i \in 1..Len(stack) /\ j \in 1..Len(stack) /\ stack'[i] = stack[i] /\ stack'[j] = stack[j]
      BY <2>1
    <3>. QED BY <2>3, <3>1 DEF StackReach
  <2>. QED BY <2>1, <2>3, CalleesUnchanged DEF StackReach, ReachableFrom, Closed
<1>6. CASE Interrupt
  <2>1. PICK f \in program.isr : stack' = Append(stack, f)
    BY <1>6 DEF Interrupt
  <2>2. f \in Function
    BY DEF TypeOK, Program
  <2>3. pc = "run" /\ stack # <<>> /\ UNCHANGED <<program, callGraph, isrReachable>>
    BY <1>6 DEF Interrupt
  <2>. QED BY <2>1, <2>2, <2>3, EnterReach
<1>7. CASE Terminated \/ UNCHANGED vars
  <2>1. UNCHANGED <<program, callGraph, isrReachable, stack>>
    BY <1>7 DEF Terminated, vars
  <2>. QED BY <2>1, CalleesUnchanged DEF StackReach, ReachableFrom, Closed
<1>8. pc = "run" \/ pc' = "run" =>
        Start \/ Call \/ TailCall \/ Return \/ Interrupt \/ Terminated \/ UNCHANGED vars
  BY DEF Next, BuildCallGraph, SearchRecursion, SearchIsr, Visit, FindRecursion,
     EndSearch, StartIsrCheck, EndVerify, BuildConflicts, ColorFunction, VerifySound, SearchSound
<1>. QED BY <1>1, <1>2, <1>3, <1>4, <1>5, <1>6, <1>7, <1>8

\* A function whose record must be apart from that of f, being active above it, is in
\* conflict with it: neither is on the handlers' side.
LEMMA ActiveConflict ==
    ASSUME FInv, NEW i \in 1..Len(stack), NEW j \in 1..Len(stack), i < j,
           stack[i] \in program.sac, stack[j] \in program.sac, stack[i] # stack[j]
    PROVE  stack[j] \in conflicts[stack[i]]
<1>1. pc = "run"
  BY DEF FInv, IInv, StackSound
<1>2. /\ \A f \in program.sac : f \notin isrReachable
      /\ Closed(isrReachable) /\ program.isr \subseteq isrReachable
  BY <1>1, RunsVerified DEF FInv, IInv
<1>3. stack[j] \in ReachableFrom(Callees(stack[i]))
  BY <1>2 DEF FInv, StackReach
<1>4. ReachableFrom(program.isr) \subseteq isrReachable
  BY <1>2, Reaching DEF FInv, IInv, TypeOK, Program
<1>5. stack[j] \in ConflictsOf(stack[i], ReachableFrom(program.isr), ReachableFrom(EntryPoints))
  BY <1>2, <1>3, <1>4 DEF ConflictsOf
<1>. QED BY <1>1, <1>5 DEF FInv, ConflictsBuilt, Coloring

\* A slot is at least as large as each of its records.
LEMMA SlotHolds ==
    ASSUME TypeOK, ColorSound, NEW f \in DOMAIN arColor, DOMAIN arColor \subseteq Function
    PROVE  SlotSize(arColor[f]) \in Nat /\ program.frame[f] <= SlotSize(arColor[f])
<1>1. \A g \in Function : program.frame[g] \in Nat
  BY DEF TypeOK, Program
<1>2. f \in InSlot(arColor[f]) /\ InSlot(arColor[f]) \subseteq Function
  BY DEF InSlot
<1>3. PICK m \in InSlot(arColor[f]) :
        \A h \in InSlot(arColor[f]) : program.frame[h] <= program.frame[m]
  BY DEF ColorSound, LargestExists
<1>. DEFINE c == arColor[f]
            Sizes == {program.frame[g] : g \in InSlot(c)}
<1>4. \E n \in Sizes : \A g \in InSlot(c) : n >= program.frame[g]
  <2>1. program.frame[m] \in Sizes
    BY <1>3
  <2>2. \A g \in InSlot(c) : program.frame[m] >= program.frame[g]
    BY <1>1, <1>2, <1>3
  <2>. QED BY <2>1, <2>2
<1>5. SlotSize(c) \in Sizes /\ \A g \in InSlot(c) : SlotSize(c) >= program.frame[g]
  BY <1>4 DEF SlotSize
<1>. QED BY <1>1, <1>2, <1>5

\* Two records of different slots share no byte.
LEMMA SlotsApart ==
    ASSUME TypeOK, ColorSound, DOMAIN arColor \subseteq Function,
           NEW f \in DOMAIN arColor, NEW g \in DOMAIN arColor, arColor[f] < arColor[g]
    PROVE  Bytes(f) \cap Bytes(g) = {}
<1>. DEFINE c == arColor[f]
            d == arColor[g]
<1>1. c \in Nat /\ d \in Nat /\ program.frame[f] \in Nat /\ program.frame[g] \in Nat
  BY DEF ColorSound, TypeOK, Program
<1>2. \A e \in 0..(d - 1) : SlotSize(e) \in Nat
  <2>. SUFFICES ASSUME NEW e \in 0..(d - 1) PROVE SlotSize(e) \in Nat
    OBVIOUS
  <2>1. PICK h \in InSlot(e) : TRUE
    BY DEF ColorSound, OverlaysWherePossible
  <2>2. h \in DOMAIN arColor /\ arColor[h] = e
    BY <2>1 DEF InSlot
  <2>. QED BY <2>2, SlotHolds
<1>3. SlotBase[c] \in Nat /\ SlotBase[d] \in Nat /\ SlotBase[c] + SlotSize(c) <= SlotBase[d]
  <2>. HIDE DEF c, d
  <2>1. c \in 0..d /\ d \in 0..d /\ c < d
    BY <1>1 DEF c, d
  <2>. QED BY <1>1, <1>2, <2>1, SlotsFollow
<1>4. SlotSize(c) \in Nat /\ program.frame[f] <= SlotSize(c)
  BY SlotHolds
<1>. QED BY <1>1, <1>3, <1>4 DEF Bytes

LEMMA Disjointness == FInv => FramesApart
<1>. SUFFICES ASSUME FInv, NEW i \in 1..Len(stack), NEW j \in 1..Len(stack), i < j,
                     stack[i] \in program.sac, stack[j] \in program.sac, stack[i] # stack[j]
              PROVE  Bytes(stack[i]) \cap Bytes(stack[j]) = {}
  <2>1. Len(stack) \in Nat
    BY DEF FInv, IInv, TypeOK
  <2>2. \A i, j \in 1..Len(stack) : i < j \/ j < i \/ i = j
    BY <2>1
  <2>. QED BY <2>2 DEF FramesApart
<1>1. pc = "run"
  BY DEF FInv, IInv, StackSound
<1>2. DOMAIN arColor = program.sac /\ DOMAIN arColor \subseteq Function
  BY <1>1 DEF FInv, IInv, ColorSound, Partition, TypeOK, Program
<1>3. arColor[stack[i]] # arColor[stack[j]]
  BY <1>2, ActiveConflict DEF FInv, ColorSound, NoClash
<1>4. arColor[stack[i]] \in Nat /\ arColor[stack[j]] \in Nat
  BY <1>2 DEF FInv, ColorSound
<1>5. CASE arColor[stack[i]] < arColor[stack[j]]
  BY <1>2, <1>5, SlotsApart DEF FInv, IInv
<1>6. CASE arColor[stack[j]] < arColor[stack[i]]
  BY <1>2, <1>6, SlotsApart DEF FInv, IInv
<1>. QED BY <1>3, <1>4, <1>5, <1>6

\* SAC functions that are active together have records that share no byte, whatever the
\* program's calls and interrupts and the sizes of the records, provided the linker sees
\* every call (colorStaticAllocRegisters).
THEOREM RecordsApart ==
    ASSUME AllCallsVisible
    PROVE  Spec => []FramesApart
<1>1. Init => FInv
  <2>. SUFFICES ASSUME Init PROVE FInv
    OBVIOUS
  <2>1. DOMAIN arColor = {} /\ pc = "scan" /\ stack = <<>>
    BY DEF Init
  <2>2. ColorSound
    BY <2>1, FS_EmptySet
    DEF ColorSound, Partition, Coloring, NoClash, OverlaysWherePossible, LargestExists
  <2>. QED BY <2>1, <2>2, InitIInv DEF FInv, ConflictsBuilt, Coloring, StackReach
<1>2. FInv /\ [Next]_vars => FInv'
  <2>1. FInv => IInv /\ TypeOK /\ ColorSound /\ ConflictsBuilt /\ StackReach
    BY DEF FInv, IInv
  <2>. QED BY <2>1, StepIInv, ColorStep, ConflictsStep, ReachStep DEF FInv
<1>. QED BY <1>1, <1>2, Disjointness, PTL DEF Spec
=============================================================================
