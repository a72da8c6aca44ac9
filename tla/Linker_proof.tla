---------------------------- MODULE Linker_proof ----------------------------
(***************************************************************************)
(* Proofs about ln45: archive member resolution, for any number of objects, *)
(* archives, members and symbols; then the link proper, for any units that  *)
(* ca45 can write, any options and any names of sub-segments.               *)
(***************************************************************************)
EXTENDS LibraryResolution, LinkImage, SequenceTheorems, FiniteSetTheorems,
        WellFoundedInduction, TLAPS

-----------------------------------------------------------------------------
\* The inductive invariant is TypeOK, WorklistExact and these five.

\* The loop is entered with `changed' set.
FreshStart == pc = "collect" => changed

\* The command line's objects stay in the link.
InputsLinked == Input \subseteq InLink

\* pulledMembers remembers exactly the members in the link.
KeysExact == pulledMembers = {Key(m) : m \in InLink \cap Member}

\* While a pass has pulled nothing, no entry behind the scan calls for its
\* member: `undefined' has not grown since the scan went by.
QuietPass ==
    pc = "scan" /\ ~changed =>
        \A i \in 1..Len(Archive) :
            \A j \in 1..Len(exports[Archive[i]]) :
                i < mem \/ (i = mem /\ j < sym) => ~Pullable(i, j)

\* After the last pass no entry of the index calls for its member.
Settled ==
    pc = "done" =>
        \A i \in 1..Len(Archive) :
            \A j \in 1..Len(exports[Archive[i]]) : ~Pullable(i, j)

IInv ==
    /\ TypeOK /\ WorklistExact /\ FreshStart /\ InputsLinked /\ KeysExact
    /\ QuietPass /\ Settled

-----------------------------------------------------------------------------
(* A member appended to the link is the one element its entries gain.       *)
LEMMA EntriesAppend ==
    ASSUME NEW S, NEW s \in Seq(S), NEW e \in S
    PROVE  Entries(Append(s, e)) = Entries(s) \cup {e}
BY DEF Entries

(* Entries of a sequence over S are elements of S.                          *)
LEMMA EntriesIn ==
    ASSUME NEW S, NEW s \in Seq(S)
    PROVE  Entries(s) \subseteq S
BY DEF Entries

(* Every member of an archive is an object.                                 *)
LEMMA ArchiveMember ==
    ASSUME NEW i \in 1..Len(Archive)
    PROVE  Archive[i] \in Member /\ Archive[i] \in Object
BY OrderAssumption DEF Object

(* The initial states satisfy the invariant.                                *)
LEMMA InitIInv == Init => IInv
<1> SUFFICES ASSUME Init PROVE IInv
  OBVIOUS
<1>1. TypeOK
  <2>1. exports \in [Object -> Seq(Symbol)]
    BY TablesAssumption DEF Init
  <2>2. imports \in [Object -> SUBSET Symbol]
    BY TablesAssumption DEF Init
  <2>3. objects \in Seq(Object)
    BY OrderAssumption DEF Init, Object
  <2>4. Len(Archive) \in Nat
    BY OrderAssumption
  <2>. QED
    BY <2>1, <2>2, <2>3, <2>4 DEF Init, TypeOK
<1>2. InputsLinked
  BY OrderAssumption DEF Init, InputsLinked, InLink, Entries
<1>3. KeysExact
  BY OrderAssumption, ObjectsAssumption DEF Init, KeysExact, InLink, Entries
<1>. QED
  BY <1>1, <1>2, <1>3 DEF Init, IInv, WorklistExact, FreshStart, QuietPass, Settled

(* Pulling member m updates `defined' and `undefined' to what the link with *)
(* m in it defines and lacks.                                               *)
LEMMA PullWorklist ==
    ASSUME TypeOK, WorklistExact, PullMember
    PROVE  /\ InLink' = InLink \cup {Archive[mem]}
           /\ defined' = DefinedBy(InLink)'
           /\ undefined' = (ImportedBy(InLink) \ DefinedBy(InLink))'
<1>. DEFINE m == Archive[mem]
<1>1. m \in Member /\ m \in Object
  BY ArchiveMember DEF TypeOK, PullMember, AtEntry, Scanning
<1>2. InLink' = InLink \cup {m}
  BY <1>1, EntriesAppend DEF TypeOK, PullMember, InLink
<1>3. DefinedBy(InLink)' = DefinedBy(InLink) \cup Defines(m)
  BY <1>2 DEF PullMember, DefinedBy, Defines
<1>4. ImportedBy(InLink)' = ImportedBy(InLink) \cup imports[m]
  BY <1>2 DEF PullMember, ImportedBy
<1>5. /\ defined = DefinedBy(InLink)
      /\ undefined = ImportedBy(InLink) \ DefinedBy(InLink)
  BY DEF WorklistExact, PullMember, AtEntry, Scanning
<1>. QED
  BY <1>2, <1>3, <1>4, <1>5 DEF PullMember, Worklist

(* Entering or leaving the loop keeps its variables in their types.          *)
LEMMA StartPassType ==
    ASSUME TypeOK, NEW again, NEW missing, StartPass(again, missing)
    PROVE  /\ pc' \in {"scan", "done"}
           /\ changed' \in BOOLEAN
           /\ mem' \in 1..(Len(Archive) + 1)
           /\ sym' \in Nat \ {0}
<1>1. changed' \in BOOLEAN
  BY DEF StartPass, TypeOK
<1>2. Len(Archive) \in Nat
  BY OrderAssumption
<1>3. /\ pc' \in {"scan", "done"}
      /\ mem' \in 1..(Len(Archive) + 1)
      /\ sym' \in Nat \ {0}
  <2>1. CASE again /\ missing # {}
    <3>1. pc' = "scan" /\ mem' = 1 /\ sym' = 1
      BY <2>1 DEF StartPass
    <3>. QED
      BY <1>2, <3>1
  <2>2. CASE ~(again /\ missing # {})
    <3>1. pc' = "done" /\ mem' = mem /\ sym' = sym
      BY <2>2 DEF StartPass
    <3>. QED
      BY <3>1 DEF TypeOK
  <2>. QED
    BY <2>1, <2>2
<1>. QED
  BY <1>1, <1>3

(* Every step preserves the types.                                          *)
LEMMA TypeStep == TypeOK /\ [Next]_vars => TypeOK'
<1> SUFFICES ASSUME TypeOK, [Next]_vars PROVE TypeOK'
  OBVIOUS
<1>. USE DEF TypeOK
<1>0. \A o \in Object : Defines(o) \subseteq Symbol
  BY EntriesIn DEF Defines
<1>1. CASE Collect
  <2>1. InLink \subseteq Object
    BY EntriesIn DEF InLink
  <2>2. DefinedBy(InLink) \subseteq Symbol
    BY <1>0, <2>1 DEF DefinedBy
  <2>3. ImportedBy(InLink) \subseteq Symbol
    BY <2>1 DEF ImportedBy
  <2>. QED
    BY <1>1, <2>2, <2>3, StartPassType DEF Collect
<1>2. CASE SkipEntry
  BY <1>2 DEF SkipEntry
<1>3. CASE PullMember
  <2>1. Archive[mem] \in Member /\ Archive[mem] \in Object
    BY <1>3, ArchiveMember DEF PullMember, AtEntry, Scanning
  <2>2. objects' \in Seq(Object)
    BY <1>3, <2>1 DEF PullMember
  <2>3. defined' \subseteq Symbol /\ undefined' \subseteq Symbol
    BY <1>0, <1>3, <2>1 DEF PullMember, Worklist
  <2>4. pulledMembers' \subseteq {Key(m) : m \in Member}
    BY <1>3, <2>1 DEF PullMember
  <2>5. exports' = exports /\ imports' = imports /\ changed' = TRUE
        /\ mem' = mem /\ pc' = pc /\ sym' = sym + 1
    BY <1>3 DEF PullMember
  <2>. QED
    BY <2>2, <2>3, <2>4, <2>5
<1>4. CASE ReadError
  BY <1>4 DEF ReadError
<1>5. CASE NextMember
  BY <1>5 DEF NextMember, Scanning
<1>6. CASE EndPass
  BY <1>6, StartPassType DEF EndPass
<1>7. CASE UNCHANGED vars
  BY <1>7 DEF vars
<1>. QED
  BY <1>1, <1>2, <1>3, <1>4, <1>5, <1>6, <1>7 DEF Next, Terminated

(* Every step preserves the invariant.                                      *)
LEMMA StepIInv == IInv /\ [Next]_vars => IInv'
<1> SUFFICES ASSUME IInv, [Next]_vars PROVE IInv'
  OBVIOUS
<1>. USE DEF IInv
<1>0. TypeOK'
  BY TypeStep
<1>1. CASE Collect
  <2>. USE <1>1 DEF Collect, StartPass
  <2>1. WorklistExact'
    BY DEF WorklistExact, InLink, DefinedBy, ImportedBy, Defines
  <2>2. InputsLinked' /\ KeysExact'
    BY DEF InputsLinked, KeysExact, InLink
  <2>3. QuietPass'
    BY OrderAssumption DEF QuietPass, TypeOK
  <2>4. Settled'
    BY DEF Settled, Pullable, FreshStart
  <2>. QED
    BY <1>0, <2>1, <2>2, <2>3, <2>4 DEF FreshStart
<1>2. CASE SkipEntry
  <2>. USE <1>2 DEF SkipEntry, AtEntry, Scanning
  <2>1. WorklistExact' /\ InputsLinked' /\ KeysExact' /\ FreshStart' /\ Settled'
    BY DEF WorklistExact, InputsLinked, KeysExact, FreshStart, Settled,
           InLink, DefinedBy, ImportedBy, Defines
  <2>2. QuietPass'
    <3>1. mem \in Nat /\ sym \in Nat
      BY DEF TypeOK
    <3>2. \A i, j : Pullable(i, j)' = Pullable(i, j)
      BY DEF Pullable
    <3>3. \A j \in Nat : j < sym + 1 => j < sym \/ j = sym
      BY <3>1
    <3>4. \A i : \A j \in 1..Len(exports[Archive[i]]) : j \in Nat
      OBVIOUS
    <3>. QED BY <3>2, <3>3, <3>4 DEF QuietPass
  <2>. QED
    BY <1>0, <2>1, <2>2
<1>3. CASE PullMember
  <2>. DEFINE m == Archive[mem]
  <2>1. m \in Member
    BY <1>3, ArchiveMember DEF TypeOK, PullMember, AtEntry, Scanning
  <2>2. InLink' = InLink \cup {m}
    BY <1>3, PullWorklist
  <2>3. WorklistExact'
    BY <1>3, PullWorklist DEF WorklistExact
  <2>4. InputsLinked'
    BY <2>2 DEF InputsLinked
  <2>5. KeysExact'
    BY <1>3, <2>1, <2>2 DEF KeysExact, PullMember
  <2>6. QuietPass' /\ FreshStart' /\ Settled'
    BY <1>3 DEF QuietPass, FreshStart, Settled, PullMember, AtEntry, Scanning
  <2>. QED
    BY <1>0, <2>3, <2>4, <2>5, <2>6
<1>4. CASE ReadError
  BY <1>0, <1>4 DEF ReadError, AtEntry, Scanning, WorklistExact, InputsLinked,
     KeysExact, FreshStart, QuietPass, Settled, InLink, DefinedBy, ImportedBy, Defines
<1>5. CASE NextMember
  <2>. USE <1>5 DEF NextMember, Scanning
  <2>1. WorklistExact' /\ InputsLinked' /\ KeysExact' /\ FreshStart' /\ Settled'
    BY DEF WorklistExact, InputsLinked, KeysExact, FreshStart, Settled,
           InLink, DefinedBy, ImportedBy, Defines
  <2>2. QuietPass'
    <3>. SUFFICES ASSUME ~changed, NEW i \in 1..Len(Archive),
                         NEW j \in 1..Len(exports[Archive[i]]),
                         i < mem + 1
                  PROVE  ~Pullable(i, j)
      BY DEF QuietPass, Pullable, TypeOK
    <3>1. Len(exports[Archive[i]]) \in Nat
      BY ArchiveMember DEF TypeOK
    <3>2. i < mem \/ (i = mem /\ j < sym)
      BY <3>1 DEF TypeOK
    <3>. QED
      BY <3>2 DEF QuietPass
  <2>. QED
    BY <1>0, <2>1, <2>2
<1>6. CASE EndPass
  <2>. USE <1>6 DEF EndPass, StartPass
  <2>1. WorklistExact' /\ InputsLinked' /\ KeysExact' /\ FreshStart'
    BY DEF WorklistExact, InputsLinked, KeysExact, FreshStart,
           InLink, DefinedBy, ImportedBy, Defines
  <2>2. QuietPass'
    BY ArchiveMember DEF QuietPass, TypeOK
  <2>3. Settled'
    <3>. SUFFICES ASSUME pc' = "done", NEW i \in 1..Len(Archive),
                         NEW j \in 1..Len(exports[Archive[i]])
                  PROVE  ~Pullable(i, j)
      BY DEF Settled, Pullable
    <3>1. CASE changed
      BY <3>1 DEF Pullable
    <3>2. CASE ~changed
      BY <3>2, OrderAssumption DEF QuietPass, TypeOK
    <3>. QED
      BY <3>1, <3>2
  <2>. QED
    BY <1>0, <2>1, <2>2, <2>3
<1>7. CASE UNCHANGED vars
  BY <1>0, <1>7 DEF vars, WorklistExact, InputsLinked, KeysExact, FreshStart,
     QuietPass, Settled, Pullable, InLink, DefinedBy, ImportedBy, Defines
<1>. QED
  BY <1>1, <1>2, <1>3, <1>4, <1>5, <1>6, <1>7 DEF Next, Terminated

(* The invariant of archive member resolution holds throughout.             *)
LEMMA InductiveInvariant == Spec => []IInv
BY InitIInv, StepIInv, PTL DEF Spec

-----------------------------------------------------------------------------
(* Every variable of resolveLibraries keeps its type.                       *)
THEOREM TypeCorrect == Spec => []TypeOK
BY InductiveInvariant, PTL DEF IInv

(* The worklist sets always equal what recomputing them would give.         *)
THEOREM WorklistIsExact == Spec => []WorklistExact
BY InductiveInvariant, PTL DEF IInv

(* A step leaves the link as it is, or appends a member that was not in it  *)
(* and that defines a symbol the link lacks.                                *)
LEMMA LinkStep ==
    ASSUME IInv, [Next]_vars
    PROVE  \/ UNCHANGED <<exports, imports, objects>>
           \/ \E m \in Member :
                /\ m \notin InLink
                /\ Defines(m) \cap (ImportedBy(InLink) \ DefinedBy(InLink)) # {}
                /\ objects' = Append(objects, m)
                /\ UNCHANGED <<exports, imports>>
<1>1. CASE PullMember
  <2>. DEFINE m == Archive[mem]
  <2>1. m \in Member /\ m \in Object
    BY <1>1, ArchiveMember DEF IInv, TypeOK, PullMember, AtEntry, Scanning
  <2>2. m \notin InLink
    BY <1>1, <2>1 DEF IInv, KeysExact, PullMember, Pullable
  <2>3. exports[m][sym] \in Defines(m)
    BY <1>1, <2>1 DEF Defines, Entries, IInv, TypeOK, PullMember, AtEntry, Scanning
  <2>4. exports[m][sym] \in ImportedBy(InLink) \ DefinedBy(InLink)
    BY <1>1 DEF IInv, WorklistExact, PullMember, Pullable, AtEntry, Scanning
  <2>. QED
    BY <1>1, <2>1, <2>2, <2>3, <2>4 DEF PullMember
<1>. QED
  BY <1>1 DEF Next, Collect, SkipEntry, ReadError, NextMember, EndPass, Terminated, vars

(* The link starts as the command line's objects, none of them a member.    *)
LEMMA InitialLink == Init => objects \in Seq(Input) /\ InLink = Input
BY OrderAssumption DEF Init, InLink, Entries

(* Every pulled member was needed by an object linked before it.            *)
THEOREM OnlyNeededHolds == Spec => []OnlyNeeded
<1>1. Init => OnlyNeeded
  BY InitialLink, ObjectsAssumption DEF OnlyNeeded
<1>2. IInv /\ OnlyNeeded /\ [Next]_vars => OnlyNeeded'
  <2>. SUFFICES ASSUME IInv, OnlyNeeded, [Next]_vars PROVE OnlyNeeded'
    OBVIOUS
  <2>1. objects \in Seq(Object)
    BY DEF IInv, TypeOK
  <2>2. CASE UNCHANGED <<exports, imports, objects>>
    BY <2>2 DEF OnlyNeeded, Before, ImportedBy, DefinedBy, Defines
  <2>3. CASE \E m \in Member :
                /\ m \notin InLink
                /\ Defines(m) \cap (ImportedBy(InLink) \ DefinedBy(InLink)) # {}
                /\ objects' = Append(objects, m)
                /\ UNCHANGED <<exports, imports>>
    <3>. PICK m \in Member :
                /\ Defines(m) \cap (ImportedBy(InLink) \ DefinedBy(InLink)) # {}
                /\ objects' = Append(objects, m)
                /\ UNCHANGED <<exports, imports>>
      BY <2>3
    <3>1. m \in Object
      BY DEF Object
    <3>. PICK n \in Nat : n = Len(objects)
      BY <2>1
    <3>2. /\ Len(objects') = n + 1
          /\ objects'[n + 1] = m
          /\ \A i \in 1..n : objects'[i] = objects[i]
      BY <2>1, <3>1
    <3>3. ASSUME NEW i \in 1..n
          PROVE  objects'[i] = objects[i] /\ Before(i)' = Before(i)
      BY <3>2 DEF Before
    <3>4. Before(n + 1)' = InLink
      <4>1. Before(n + 1)' = {objects'[j] : j \in 1..n}
        BY DEF Before
      <4>. QED
        BY <3>2, <4>1 DEF InLink, Entries
    <3>5. \A os : ImportedBy(os)' = ImportedBy(os) /\ DefinedBy(os)' = DefinedBy(os)
      BY DEF ImportedBy, DefinedBy, Defines
    <3>. SUFFICES ASSUME NEW i \in 1..Len(objects'), objects'[i] \in Member
                  PROVE  Defines(objects'[i])
                            \cap (ImportedBy(Before(i)') \ DefinedBy(Before(i)')) # {}
      BY <3>5 DEF OnlyNeeded, ImportedBy, DefinedBy, Defines
    <3>6. CASE i \in 1..n
      BY <3>3, <3>6 DEF OnlyNeeded
    <3>7. CASE i = n + 1
      BY <3>2, <3>4, <3>7
    <3>. QED
      BY <3>2, <3>6, <3>7
  <2>. QED
    BY <2>2, <2>3, LinkStep
<1>. QED
  BY <1>1, <1>2, InductiveInvariant, PTL DEF Spec

(* If member keys are distinct, a member outside the link defines nothing    *)
(* that is still missing when no index entry calls for its member.          *)
LEMMA SettledMeansClosed ==
    ASSUME KeysDistinct, IInv, pc # "collect",
           \A i \in 1..Len(Archive) :
               \A j \in 1..Len(exports[Archive[i]]) : ~Pullable(i, j),
           NEW m \in Member, m \notin InLink
    PROVE  Defines(m) \cap undefined = {}
<1>. SUFFICES ASSUME NEW s \in Defines(m), s \in undefined PROVE FALSE
  OBVIOUS
<1>1. PICK i \in 1..Len(Archive) : Archive[i] = m
  BY OrderAssumption
<1>2. PICK j \in 1..Len(exports[m]) : exports[m][j] = s
  BY DEF Defines, Entries
<1>3. Key(m) \in pulledMembers
  BY <1>1, <1>2 DEF Pullable
<1>. QED
  BY <1>3 DEF IInv, KeysExact, KeysDistinct

(* With distinct member keys, resolution ends only when no archive member   *)
(* outside the link defines a missing symbol.                               *)
THEOREM NothingLeftToPullHolds == KeysDistinct => (Spec => []NothingLeftToPull)
<1>. SUFFICES ASSUME KeysDistinct PROVE Spec => []NothingLeftToPull
  OBVIOUS
<1>1. IInv => NothingLeftToPull
  BY SettledMeansClosed DEF IInv, Settled, NothingLeftToPull
<1>. QED
  BY <1>1, InductiveInvariant, PTL

(* The link stays inside every set of objects that contains the command     *)
(* line's and is closed under "imports a symbol defined by".                *)
LinkInClosures == \A os \in SUBSET Object : ClosedLink(os) => InLink \subseteq os

(* The link lies in every closure.                                          *)
LEMMA LinkInClosuresHolds == Spec => []LinkInClosures
<1>1. Init => LinkInClosures
  BY InitialLink DEF LinkInClosures, ClosedLink
<1>2. IInv /\ LinkInClosures /\ [Next]_vars => LinkInClosures'
  <2>. SUFFICES ASSUME IInv, LinkInClosures, [Next]_vars PROVE LinkInClosures'
    OBVIOUS
  <2>1. CASE UNCHANGED <<exports, imports, objects>>
    BY <2>1 DEF LinkInClosures, ClosedLink, InLink, Defines, ImportedBy
  <2>2. CASE \E m \in Member :
                /\ Defines(m) \cap (ImportedBy(InLink) \ DefinedBy(InLink)) # {}
                /\ objects' = Append(objects, m)
                /\ UNCHANGED <<exports, imports>>
    <3>. PICK m \in Member :
                /\ Defines(m) \cap (ImportedBy(InLink) \ DefinedBy(InLink)) # {}
                /\ objects' = Append(objects, m)
                /\ UNCHANGED <<exports, imports>>
      BY <2>2
    <3>1. InLink' = InLink \cup {m}
      BY EntriesAppend DEF IInv, TypeOK, InLink, Object
    <3>. SUFFICES ASSUME NEW os \in SUBSET Object, ClosedLink(os)
                  PROVE  InLink \cup {m} \subseteq os
      BY <3>1 DEF LinkInClosures, ClosedLink, Defines, ImportedBy
    <3>2. InLink \subseteq os
      BY DEF LinkInClosures
    <3>3. ImportedBy(InLink) \subseteq ImportedBy(os)
      BY <3>2 DEF ImportedBy
    <3>. QED
      BY <3>2, <3>3 DEF ClosedLink
  <2>. QED
    BY <2>1, <2>2, LinkStep
<1>. QED
  BY <1>1, <1>2, InductiveInvariant, PTL DEF Spec

(* With distinct member keys and one definition of each symbol, the link is *)
(* the least closed set of objects: scanning order decides nothing.         *)
THEOREM LeastClosureHolds == KeysDistinct => (Spec => []LeastClosure)
<1>. SUFFICES ASSUME KeysDistinct PROVE Spec => []LeastClosure
  OBVIOUS
<1>1. IInv /\ LinkInClosures => LeastClosure
  <2>. SUFFICES ASSUME IInv, LinkInClosures, pc = "done", OneDefinition
                PROVE  ClosedLink(InLink)
    BY DEF LeastClosure, LinkInClosures
  <2>. SUFFICES ASSUME NEW m \in Member, NEW s \in Defines(m),
                       s \in ImportedBy(InLink), m \notin InLink
                PROVE  FALSE
    BY DEF ClosedLink, IInv, InputsLinked
  <2>1. s \notin undefined
    BY SettledMeansClosed DEF IInv, Settled
  <2>2. PICK o \in InLink : s \in Defines(o)
    BY <2>1 DEF IInv, WorklistExact, DefinedBy
  <2>3. o \in Object /\ m \in Object
    BY EntriesIn DEF InLink, IInv, TypeOK, Object
  <2>. QED
    BY <2>2, <2>3 DEF OneDefinition
<1>. QED
  BY <1>1, InductiveInvariant, LinkInClosuresHolds, PTL

-----------------------------------------------------------------------------
(* With distinct member keys, resolveLibraries implements closure on demand *)
(* in no particular order.                                                  *)
THEOREM Refinement == KeysDistinct => (Spec => Implements)
<1>. SUFFICES ASSUME KeysDistinct PROVE Spec => Implements
  OBVIOUS
<1>1. Init => Abstract!Init
  BY InitialLink DEF Init, Abstract!Init
<1>2. IInv => NothingLeftToPull
  BY SettledMeansClosed DEF IInv, Settled, NothingLeftToPull
<1>3. IInv /\ NothingLeftToPull' /\ [Next]_vars => [Abstract!Next]_(Abstract!vars)
  <2>. SUFFICES ASSUME IInv, NothingLeftToPull', [Next]_vars
                PROVE  [Abstract!Next]_(Abstract!vars)
    OBVIOUS
  <2>1. Abstract!Missing = ImportedBy(InLink) \ DefinedBy(InLink)
    <3>1. \A o \in InLink : [p \in Object |-> Defines(p)][o] = Defines(o)
      BY EntriesIn DEF IInv, TypeOK, InLink
    <3>. QED
      BY <3>1 DEF Abstract!Missing, ImportedBy, DefinedBy
  <2>2. ASSUME NEW m \in Member
        PROVE  Abstract!Supplies(m) <=>
                   /\ m \notin InLink
                   /\ Defines(m) \cap (ImportedBy(InLink) \ DefinedBy(InLink)) # {}
    BY <2>1 DEF Abstract!Supplies, Object
  <2>3. exports' = exports => UNCHANGED [o \in Object |-> Defines(o)]
    BY DEF Defines
  <2>4. CASE UNCHANGED <<exports, imports, objects>> /\ (pc = "done" <=> pc' = "done")
    BY <2>3, <2>4 DEF Abstract!vars, InLink
  <2>5. CASE PullMember
    <3>1. PICK m \in Member :
             /\ m \notin InLink
             /\ Defines(m) \cap (ImportedBy(InLink) \ DefinedBy(InLink)) # {}
             /\ objects' = Append(objects, m)
             /\ UNCHANGED <<exports, imports>>
      <4>1. ~UNCHANGED objects
        BY <2>5 DEF PullMember, IInv, TypeOK
      <4>. QED
        BY <4>1, LinkStep
    <3>2. InLink' = InLink \cup {m}
      BY <3>1, EntriesAppend DEF IInv, TypeOK, InLink, Object
    <3>3. pc # "done" /\ pc' # "done"
      BY <2>5 DEF PullMember, AtEntry, Scanning
    <3>4. Abstract!Demand(m)
      BY <2>2, <2>3, <3>1, <3>2, <3>3 DEF Abstract!Demand
    <3>. QED
      BY <3>4 DEF Abstract!Next
  <2>6. CASE pc # "done" /\ pc' = "done" /\ UNCHANGED <<exports, imports, objects>>
    <3>1. ASSUME NEW m \in Member PROVE ~Abstract!Supplies(m)
      <4>1. IInv'
        BY StepIInv
      <4>2. undefined' = ImportedBy(InLink) \ DefinedBy(InLink)
        BY <2>6, <4>1 DEF IInv, WorklistExact, ImportedBy, DefinedBy, InLink, Defines
      <4>3. m \notin InLink => Defines(m) \cap undefined' = {}
        BY <2>6 DEF NothingLeftToPull, InLink, Defines
      <4>. QED
        BY <2>2, <4>2, <4>3
    <3>. QED
      BY <2>3, <2>6, <3>1 DEF Abstract!Close, Abstract!Next, InLink
  <2>. QED
    BY <2>4, <2>5, <2>6 DEF Next, Collect, StartPass, SkipEntry, ReadError,
       NextMember, EndPass, Terminated, vars, AtEntry, Scanning
<1>. QED
  BY <1>1, <1>2, <1>3, InductiveInvariant, PTL DEF Spec, Implements, Abstract!Spec

-----------------------------------------------------------------------------
\* Facts about units.

(* Every non-empty set of natural numbers has a least element.              *)
LEMMA LeastNumber ==
    ASSUME NEW S \in SUBSET Nat, S # {}
    PROVE  \E m \in S : \A i \in S : m <= i
<1>. DEFINE R == OpToRel(<, Nat)
<1>1. IsWellFoundedOn(R, Nat)
  BY NatLessThanWellFounded
<1>2. PICK m \in S : \A i \in S : <<i, m>> \notin R
  <2>. HIDE DEF R
  <2>. QED BY <1>1, WFMin, Zenon
<1>3. \A i \in S : ~(i < m)
  BY <1>2 DEF OpToRel
<1>. QED BY <1>3

\* f joins the first elements of the sequence of sequences ss.
Joins(f, ss) ==
    f = [i \in 1..Len(ss) |-> IF i = 1 THEN ss[i] ELSE f[i - 1] \o ss[i]]

(* The function FlattenSeq defines by recursion exists.                     *)
LEMMA JoinsExists ==
    ASSUME NEW ss \in Seq(Seq(Cells))
    PROVE  \E f : Joins(f, ss)
<1>. DEFINE Upto(n, f) == f = [i \in 1..n |-> IF i = 1 THEN ss[i] ELSE f[i - 1] \o ss[i]]
           Bad == {n \in 0..Len(ss) : ~ \E f : Upto(n, f)}
<1>1. ASSUME Bad # {} PROVE FALSE
  <2>1. PICK n \in Bad : \A i \in Bad : n <= i
    <3>1. Bad \in SUBSET Nat
      <4>. HIDE DEF Upto
      <4>. QED OBVIOUS
    <3>. HIDE DEF Bad
    <3>. QED BY <1>1, <3>1, LeastNumber
  <2>2. n # 0
    <3>1. Upto(0, [i \in 1..0 |-> <<>>])
      OBVIOUS
    <3>. QED BY <3>1
  <2>3. n - 1 \in 0..Len(ss) /\ n - 1 \notin Bad /\ n \in 1..Len(ss)
    <3>1. n \in 0..Len(ss) /\ Len(ss) \in Nat
      <4>. HIDE DEF Upto
      <4>. QED BY <2>1
    <3>2. n - 1 \in 0..Len(ss) /\ n \in 1..Len(ss) /\ ~(n <= n - 1)
      BY <3>1, <2>2
    <3>. HIDE DEF Bad
    <3>. QED BY <3>2, <2>1
  <2>4. PICK f : Upto(n - 1, f)
    <3>. HIDE DEF Upto
    <3>. QED BY <2>3
  <2>. DEFINE g == [i \in 1..n |-> IF i < n THEN f[i]
                                    ELSE IF i = 1 THEN ss[i] ELSE f[i - 1] \o ss[i]]
  <2>5. \A i \in 1..(n - 1) : f[i] = IF i = 1 THEN ss[i] ELSE f[i - 1] \o ss[i]
    BY <2>4
  <2>6. ASSUME NEW i \in 1..n PROVE g[i] = IF i = 1 THEN ss[i] ELSE g[i - 1] \o ss[i]
    <3>1. i # 1 => i - 1 \in 1..n /\ i - 1 < n /\ g[i - 1] = f[i - 1]
      BY <2>3
    <3>2. CASE i < n
      <4>1. i \in 1..(n - 1)
        BY <3>2, <2>3
      <4>. QED BY <4>1, <3>1, <3>2, <2>5
    <3>3. CASE i = n
      BY <3>1, <3>3, <2>3
    <3>. QED BY <3>2, <3>3, <2>3
  <2>7. g = [i \in 1..n |-> g[i]]
    OBVIOUS
  <2>. HIDE DEF g
  <2>8. Upto(n, g)
    BY <2>6, <2>7
  <2>9. n \notin Bad
    <3>. HIDE DEF Upto
    <3>. QED BY <2>8
  <2>. QED
    <3>. HIDE DEF Bad
    <3>. QED BY <2>1, <2>9
<1>2. Len(ss) \notin Bad
  <2>. HIDE DEF Bad
  <2>. QED BY <1>1
<1>3. PICK f : Upto(Len(ss), f)
  <2>1. Len(ss) \in 0..Len(ss)
    OBVIOUS
  <2>. HIDE DEF Upto
  <2>. QED BY <1>2, <2>1
<1>. QED BY <1>3 DEF Joins

(* The lengths of a joined prefix, and its type.                            *)
LEMMA JoinsStep ==
    ASSUME NEW ss \in Seq(Seq(Cells)), NEW f, Joins(f, ss)
    PROVE  /\ \A i \in 1..Len(ss) : f[i] \in Seq(Cells)
           /\ \A i \in 1..Len(ss) :
                 Len(f[i]) = IF i = 1 THEN Len(ss[i]) ELSE Len(f[i - 1]) + Len(ss[i])
           /\ \A i \in 1..Len(ss) : f[i] = IF i = 1 THEN ss[i] ELSE f[i - 1] \o ss[i]
<1>1. \A i \in 1..Len(ss) : f[i] = IF i = 1 THEN ss[i] ELSE f[i - 1] \o ss[i]
  BY DEF Joins
<1>2. \A i \in 1..Len(ss) : ss[i] \in Seq(Cells)
  OBVIOUS
<1>3. \A i \in 1..Len(ss) : f[i] \in Seq(Cells)
  <2>. DEFINE Bad == {i \in 1..Len(ss) : f[i] \notin Seq(Cells)}
  <2>1. ASSUME Bad # {} PROVE FALSE
    <3>1. PICK n \in Bad : \A i \in Bad : n <= i
      <4>1. Bad \in SUBSET Nat
        OBVIOUS
      <4>. HIDE DEF Bad
      <4>. QED BY <2>1, <4>1, LeastNumber
    <3>2. n # 1 => n - 1 \in 1..Len(ss) /\ n - 1 \notin Bad
      BY <3>1
    <3>3. n # 1 => f[n - 1] \in Seq(Cells)
      BY <3>2
    <3>4. n \in 1..Len(ss) /\ f[n] \notin Seq(Cells) /\ ss[n] \in Seq(Cells)
      BY <3>1, <1>2
    <3>5. f[n] = IF n = 1 THEN ss[n] ELSE f[n - 1] \o ss[n]
      BY <3>4, <1>1
    <3>6. n # 1 => f[n - 1] \o ss[n] \in Seq(Cells)
      BY <3>3, <3>4
    <3>. QED BY <3>4, <3>5, <3>6
  <2>. QED BY <2>1
<1>4. ASSUME NEW i \in 1..Len(ss)
      PROVE  Len(f[i]) = IF i = 1 THEN Len(ss[i]) ELSE Len(f[i - 1]) + Len(ss[i])
  <2>1. CASE i = 1
    BY <2>1, <1>1
  <2>2. CASE i # 1
    <3>0. i - 1 \in 1..Len(ss)
      BY <2>2
    <3>1. f[i - 1] \in Seq(Cells) /\ ss[i] \in Seq(Cells) /\ f[i] = f[i - 1] \o ss[i]
      BY <3>0, <2>2, <1>1, <1>2, <1>3
    <3>. QED BY <3>1, <2>2
  <2>. QED BY <2>1, <2>2
<1>. QED BY <1>1, <1>3, <1>4

(* FlattenSeq yields what the recursion computes last.                      *)
LEMMA FlattenJoins ==
    ASSUME NEW ss \in Seq(Seq(Cells)), Len(ss) # 0
    PROVE  \E f : Joins(f, ss) /\ FlattenSeq(ss) = f[Len(ss)]
<1>. DEFINE F == CHOOSE f : Joins(f, ss)
<1>1. Joins(F, ss)
  BY JoinsExists, Zenon
<1>2. FlattenSeq(ss) = F[Len(ss)]
  BY DEF FlattenSeq, Joins
<1>. QED BY <1>1, <1>2

(* Joining a prefix is the beginning of joining the whole.                  *)
LEMMA JoinsPrefix ==
    ASSUME NEW ss \in Seq(Seq(Cells)), NEW pp \in Seq(Seq(Cells)), Len(pp) <= Len(ss),
           \A i \in 1..Len(pp) : pp[i] = ss[i],
           NEW f, Joins(f, ss), NEW g, Joins(g, pp)
    PROVE  \A i \in 1..Len(pp) : g[i] = f[i]
<1>. DEFINE Bad == {i \in 1..Len(pp) : g[i] # f[i]}
<1>1. ASSUME Bad # {} PROVE FALSE
  <2>1. PICK n \in Bad : \A i \in Bad : n <= i
    <3>1. Bad \in SUBSET Nat
      OBVIOUS
    <3>. HIDE DEF Bad
    <3>. QED BY <1>1, <3>1, LeastNumber
  <2>2. n \in 1..Len(pp) /\ n \in 1..Len(ss) /\ g[n] # f[n]
    OBVIOUS
  <2>3. n # 1 => g[n - 1] = f[n - 1]
    <3>1. n # 1 => n - 1 \in 1..Len(pp) /\ n - 1 \notin Bad
      BY <2>1, <2>2
    <3>. QED BY <3>1
  <2>4. g[n] = IF n = 1 THEN pp[n] ELSE g[n - 1] \o pp[n]
    <3>. HIDE DEF Bad
    <3>. QED BY <2>2 DEF Joins
  <2>5. f[n] = IF n = 1 THEN ss[n] ELSE f[n - 1] \o ss[n]
    <3>. HIDE DEF Bad
    <3>. QED BY <2>2 DEF Joins
  <2>6. pp[n] = ss[n]
    BY <2>2
  <2>. HIDE DEF Bad
  <2>. QED BY <2>2, <2>3, <2>4, <2>5, <2>6
<1>. QED BY <1>1

\* The bodies of a unit's text sub-segments.
Bodies(u) == [i \in 1..Len(u.text) |-> u.text[i].body]

(* The bodies of a unit's sub-segments.                                     *)
LEMMA BodiesType ==
    ASSUME NEW u, IsUnit(u)
    PROVE  /\ Bodies(u) \in Seq(Seq(Cells)) /\ Len(Bodies(u)) = Len(u.text)
           /\ Len(u.text) \in Nat
           /\ \A i \in 1..Len(u.text) : Bodies(u)[i] = u.text[i].body
                                        /\ u.text[i].body \in Seq(Cells)
                                        /\ Len(u.text[i].body) \in Nat
<1>1. u.text \in Seq([name : STRING, body : Seq(Cells)])
  BY DEF IsUnit
<1>2. \A i \in 1..Len(u.text) : u.text[i].body \in Seq(Cells)
  <2>1. \A i \in 1..Len(u.text) : u.text[i] \in [name : STRING, body : Seq(Cells)]
    BY <1>1, ElementOfSeq
  <2>. QED BY <2>1
<1>3. Len(u.text) \in Nat
  BY <1>1
<1>. QED BY <1>2, <1>3 DEF Bodies

\* What joining the bodies says of the offsets of the sub-segments.
LEMMA SubOffsetIs ==
    ASSUME NEW u, IsUnit(u), NEW f, Joins(f, Bodies(u)), NEW k \in 1..(Len(u.text) + 1)
    PROVE  SubOffset(u, k) = IF k = 1 THEN 0 ELSE Len(f[k - 1])
<1>. DEFINE pp == [i \in 1..(k - 1) |-> u.text[i].body]
<1>0. Len(u.text) \in Nat /\ k \in Nat /\ k - 1 \in Nat
  BY BodiesType
<1>1. pp \in Seq(Seq(Cells)) /\ Len(pp) = k - 1 /\ \A i \in 1..(k - 1) : pp[i] = Bodies(u)[i]
  <2>1. \A i \in 1..(k - 1) : i \in 1..Len(u.text)
    BY <1>0
  <2>2. \A i \in 1..(k - 1) : u.text[i].body \in Seq(Cells) /\ Bodies(u)[i] = u.text[i].body
    BY <2>1, BodiesType
  <2>. QED BY <1>0, <2>2
<1>2. CASE k = 1
  <2>1. Len(pp) = 0
    BY <1>1, <1>2
  <2>2. FlattenSeq(pp) = pp
    BY <2>1 DEF FlattenSeq
  <2>. QED BY <1>2, <2>1, <2>2 DEF SubOffset
<1>3. CASE k # 1
  <2>. HIDE DEF pp
  <2>1. Len(pp) # 0 /\ k - 1 \in 1..Len(pp)
    BY <1>0, <1>1, <1>3
  <2>2. PICK g : Joins(g, pp) /\ FlattenSeq(pp) = g[Len(pp)]
    BY <1>1, <2>1, FlattenJoins
  <2>3. Len(pp) <= Len(Bodies(u)) /\ Bodies(u) \in Seq(Seq(Cells))
    BY <1>0, <1>1, BodiesType
  <2>4. g[k - 1] = f[k - 1]
    <3>1. \A i \in 1..Len(pp) : g[i] = f[i]
      <4>1. Joins(f, Bodies(u)) /\ Joins(g, pp) /\ pp \in Seq(Seq(Cells))
        BY <1>1, <2>2
      <4>2. \A i \in 1..Len(pp) : pp[i] = Bodies(u)[i]
        BY <1>1
      <4>. DEFINE bs == Bodies(u)
      <4>3. Joins(f, bs) /\ bs \in Seq(Seq(Cells)) /\ Len(pp) <= Len(bs)
            /\ \A i \in 1..Len(pp) : pp[i] = bs[i]
        BY <4>1, <4>2, <2>3
      <4>. HIDE DEF bs
      <4>. QED BY <4>1, <4>3, JoinsPrefix
    <3>. QED BY <2>1, <3>1
  <2>5. SubOffset(u, k) = Len(FlattenSeq(pp))
    BY DEF SubOffset, pp
  <2>. QED BY <1>1, <1>3, <2>2, <2>4, <2>5
<1>. QED BY <1>2, <1>3

(* Where the sub-segments of a unit start: at 0, each behind the one before,  *)
(* and the last one ends with the text.                                     *)
LEMMA SubOffsets ==
    ASSUME NEW u, IsUnit(u)
    PROVE  /\ TextOf(u) \in Seq(Cells)
           /\ SubOffset(u, 1) = 0
           /\ \A k \in 1..(Len(u.text) + 1) : SubOffset(u, k) \in Nat
           /\ \A k \in 1..Len(u.text) :
                 SubOffset(u, k + 1) = SubOffset(u, k) + Len(u.text[k].body)
           /\ SubOffset(u, Len(u.text) + 1) = Len(TextOf(u))
<1>1. PICK f : Joins(f, Bodies(u))
  BY BodiesType, JoinsExists, Zenon
<1>. DEFINE L == Len(u.text)
<1>2. L \in Nat /\ Bodies(u) \in Seq(Seq(Cells)) /\ Len(Bodies(u)) = L
  BY BodiesType
<1>3. /\ \A i \in 1..L : f[i] \in Seq(Cells)
      /\ \A i \in 1..L : Len(f[i]) = IF i = 1 THEN Len(u.text[i].body)
                                     ELSE Len(f[i - 1]) + Len(u.text[i].body)
  <2>1. /\ \A i \in 1..L : f[i] \in Seq(Cells)
        /\ \A i \in 1..L : Len(f[i]) = IF i = 1 THEN Len(Bodies(u)[i])
                                       ELSE Len(f[i - 1]) + Len(Bodies(u)[i])
    <3>. HIDE DEF L
    <3>1. /\ \A i \in 1..Len(Bodies(u)) : f[i] \in Seq(Cells)
          /\ \A i \in 1..Len(Bodies(u)) : Len(f[i]) = IF i = 1 THEN Len(Bodies(u)[i])
                                       ELSE Len(f[i - 1]) + Len(Bodies(u)[i])
      BY <1>1, <1>2, JoinsStep
    <3>. QED BY <3>1, <1>2
  <2>. QED BY <2>1, BodiesType
<1>4. \A k \in 1..(L + 1) : SubOffset(u, k) = IF k = 1 THEN 0 ELSE Len(f[k - 1])
  BY <1>1, SubOffsetIs
<1>5. TextOf(u) = FlattenSeq(Bodies(u))
  BY DEF TextOf, Bodies
<1>6. TextOf(u) \in Seq(Cells) /\ SubOffset(u, L + 1) = Len(TextOf(u))
  <2>1. CASE L = 0
    <3>1. FlattenSeq(Bodies(u)) = Bodies(u) /\ Bodies(u) = <<>>
      BY <1>2, <2>1 DEF FlattenSeq
    <3>. QED BY <1>4, <1>5, <2>1, <3>1
  <2>2. CASE L # 0
    <3>1. PICK g : Joins(g, Bodies(u)) /\ FlattenSeq(Bodies(u)) = g[L]
      BY <1>2, <2>2, FlattenJoins
    <3>2. L \in 1..L /\ L + 1 \in 1..(L + 1) /\ L + 1 # 1
      BY <1>2, <2>2
    <3>3. g[L] = f[L]
      <4>1. \A i \in 1..Len(Bodies(u)) : g[i] = f[i]
        BY <1>1, <1>2, <3>1, JoinsPrefix
      <4>. QED BY <1>2, <3>2, <4>1
    <3>4. SubOffset(u, L + 1) = Len(f[(L + 1) - 1]) /\ (L + 1) - 1 = L
      <4>. HIDE DEF L
      <4>. QED BY <1>2, <1>4, <3>2
    <3>5. f[L] \in Seq(Cells)
      <4>. HIDE DEF L
      <4>. QED BY <1>3, <3>2
    <3>. HIDE DEF L
    <3>. QED BY <1>5, <3>1, <3>3, <3>4, <3>5
  <2>. QED BY <2>1, <2>2
<1>7. \A k \in 1..(L + 1) : SubOffset(u, k) \in Nat
  <2>. SUFFICES ASSUME NEW k \in 1..(L + 1) PROVE SubOffset(u, k) \in Nat
    OBVIOUS
  <2>1. k # 1 => k - 1 \in 1..L
    BY <1>2
  <2>. QED BY <1>3, <1>4, <2>1
<1>8. \A k \in 1..L : SubOffset(u, k + 1) = SubOffset(u, k) + Len(u.text[k].body)
  <2>. SUFFICES ASSUME NEW k \in 1..L
                PROVE  SubOffset(u, k + 1) = SubOffset(u, k) + Len(u.text[k].body)
    OBVIOUS
  <2>1. k \in 1..(L + 1) /\ k + 1 \in 1..(L + 1) /\ k + 1 # 1 /\ (k + 1) - 1 = k
    BY <1>2
  <2>2. Len(f[k]) = IF k = 1 THEN Len(u.text[k].body) ELSE Len(f[k - 1]) + Len(u.text[k].body)
    BY <1>3
  <2>3. Len(u.text[k].body) \in Nat
    BY BodiesType
  <2>4. SubOffset(u, k + 1) = Len(f[k]) /\ SubOffset(u, k) = IF k = 1 THEN 0 ELSE Len(f[k - 1])
    <3>. HIDE DEF L
    <3>. QED BY <1>4, <2>1
  <2>5. k # 1 => k - 1 \in 1..L /\ Len(f[k - 1]) \in Nat
    BY <1>2, <1>3
  <2>. DEFINE a == SubOffset(u, k)  b == SubOffset(u, k + 1)  n == Len(u.text[k].body)
              p == Len(f[k - 1])  q == Len(f[k])
  <2>6. /\ n \in Nat /\ b = q /\ a = (IF k = 1 THEN 0 ELSE p)
        /\ q = (IF k = 1 THEN n ELSE p + n) /\ (k # 1 => p \in Nat)
    BY <2>2, <2>3, <2>4, <2>5
  <2>7. b = a + n
    <3>. HIDE DEF a, b, n, p, q
    <3>. QED BY <2>6
  <2>. QED BY <2>7
<1>. QED
  <2>1. SubOffset(u, 1) = 0
    BY <1>2, <1>4
  <2>. QED BY <1>6, <1>7, <1>8, <2>1

(* Sub-segments follow one another.                                         *)
LEMMA SubOffsetsGrow ==
    ASSUME NEW u, IsUnit(u), NEW k \in 1..(Len(u.text) + 1), NEW j \in 1..Len(u.text), j < k
    PROVE  SubOffset(u, j) + Len(u.text[j].body) <= SubOffset(u, k)
<1>. DEFINE L == Len(u.text)
            off(i) == SubOffset(u, i)
            len(i) == Len(u.text[i].body)
            Bad == {i \in 1..(L + 1) : j < i /\ ~(off(j) + len(j) <= off(i))}
<1>1. /\ L \in Nat /\ \A i \in 1..(L + 1) : off(i) \in Nat
      /\ \A i \in 1..L : len(i) \in Nat /\ off(i + 1) = off(i) + len(i)
  BY SubOffsets, BodiesType
<1>. HIDE DEF L, off, len
<1>2. j \in 1..L /\ k \in 1..(L + 1)
  BY DEF L
<1>3. ASSUME Bad # {} PROVE FALSE
  <2>1. PICK i \in Bad : \A x \in Bad : i <= x
    <3>1. Bad \in SUBSET Nat
      BY <1>1
    <3>. HIDE DEF Bad
    <3>. QED BY <1>3, <3>1, LeastNumber
  <2>2. i \in 1..(L + 1) /\ j < i /\ ~(off(j) + len(j) <= off(i))
    OBVIOUS
  <2>3. i # j + 1
    BY <1>1, <1>2, <2>2
  <2>4. i - 1 \in 1..(L + 1) /\ i - 1 \in 1..L /\ j < i - 1 /\ (i - 1) + 1 = i
    BY <1>1, <1>2, <2>2, <2>3
  <2>5. i - 1 \notin Bad
    BY <2>1, <2>4
  <2>6. off(j) + len(j) <= off(i - 1)
    BY <2>4, <2>5
  <2>7. off(i) = off(i - 1) + len(i - 1) /\ len(i - 1) \in Nat
    BY <1>1, <2>4
  <2>. HIDE DEF Bad
  <2>. QED BY <1>1, <1>2, <2>2, <2>4, <2>6, <2>7
<1>4. off(j) + len(j) <= off(k)
  <2>1. k \notin Bad
    BY <1>3
  <2>. QED BY <1>2, <2>1
<1>. QED BY <1>4 DEF off, len

\* Offset off lies in text sub-segment k.
LiesIn(u, k, off) ==
    SubOffset(u, k) <= off /\ off < SubOffset(u, k) + Len(u.text[k].body)

(* Every offset of the text lies in one sub-segment.                        *)
LEMMA SubSegmentExists ==
    ASSUME NEW u, IsUnit(u), NEW off \in Nat, off < Len(TextOf(u))
    PROVE  \E k \in 1..Len(u.text) : LiesIn(u, k, off)
<1>. DEFINE L == Len(u.text)
            after == {k \in 1..(L + 1) : off < SubOffset(u, k)}
<1>1. L \in Nat /\ \A k \in 1..(L + 1) : SubOffset(u, k) \in Nat
  BY SubOffsets, BodiesType
<1>2. off < SubOffset(u, L + 1)
  BY SubOffsets
<1>3. PICK k \in after : \A x \in after : k <= x
  <2>1. L + 1 \in after
    BY <1>1, <1>2
  <2>2. after \in SUBSET Nat
    BY <1>1
  <2>. HIDE DEF after
  <2>. QED BY <2>1, <2>2, LeastNumber
<1>4. k # 1
  BY SubOffsets
<1>5. k - 1 \in 1..L /\ k - 1 \in 1..(L + 1) /\ (k - 1) + 1 = k /\ k - 1 \notin after
  <2>1. k \in 1..(L + 1)
    OBVIOUS
  <2>2. k - 1 \in 1..L /\ k - 1 \in 1..(L + 1) /\ (k - 1) + 1 = k /\ ~(k <= k - 1)
    BY <1>1, <1>4, <2>1
  <2>. HIDE DEF after
  <2>. QED BY <1>3, <2>2
<1>6. SubOffset(u, k) = SubOffset(u, k - 1) + Len(u.text[k - 1].body)
  BY <1>5, SubOffsets
<1>7. SubOffset(u, k - 1) <= off /\ off < SubOffset(u, k)
  BY <1>1, <1>5
<1>. QED BY <1>5, <1>6, <1>7 DEF LiesIn

(* But not in two.                                                          *)
LEMMA SubSegmentUnique ==
    ASSUME NEW u, IsUnit(u), NEW off \in Nat,
           NEW j \in 1..Len(u.text), NEW k \in 1..Len(u.text), LiesIn(u, j, off), LiesIn(u, k, off)
    PROVE  j = k
<1>1. \A i \in 1..Len(u.text) : /\ i \in 1..(Len(u.text) + 1)
                                /\ SubOffset(u, i) \in Nat /\ Len(u.text[i].body) \in Nat
  <2>1. Len(u.text) \in Nat
    BY BodiesType
  <2>2. \A i \in 1..Len(u.text) : i \in 1..(Len(u.text) + 1)
    BY <2>1
  <2>. QED BY <2>2, SubOffsets, BodiesType
<1>2. j < k => SubOffset(u, j) + Len(u.text[j].body) <= SubOffset(u, k)
  BY <1>1, SubOffsetsGrow
<1>3. k < j => SubOffset(u, k) + Len(u.text[k].body) <= SubOffset(u, j)
  BY <1>1, SubOffsetsGrow
<1>4. /\ j \in Nat /\ SubOffset(u, j) \in Nat /\ Len(u.text[j].body) \in Nat
      /\ k \in Nat /\ SubOffset(u, k) \in Nat /\ Len(u.text[k].body) \in Nat
  BY <1>1
<1>5. ~(j < k)
  BY <1>2, <1>4 DEF LiesIn
<1>6. ~(k < j)
  BY <1>3, <1>4 DEF LiesIn
<1>. QED BY <1>4, <1>5, <1>6

(* A text sub-segment lies within the text.                                 *)
LEMMA SubSegmentInText ==
    ASSUME NEW u, IsUnit(u), NEW k \in 1..Len(u.text)
    PROVE  /\ SubOffset(u, k) \in Nat /\ Len(u.text[k].body) \in Nat
           /\ SubOffset(u, k) + Len(u.text[k].body) <= Len(TextOf(u))
<1>1. Len(u.text) \in Nat
  BY BodiesType
<1>2. Len(u.text) + 1 \in 1..(Len(u.text) + 1) /\ k < Len(u.text) + 1
      /\ k \in 1..(Len(u.text) + 1)
  BY <1>1
<1>3. SubOffset(u, k) + Len(u.text[k].body) <= SubOffset(u, Len(u.text) + 1)
  BY <1>2, SubOffsetsGrow
<1>. QED BY <1>2, <1>3, SubOffsets, BodiesType

-----------------------------------------------------------------------------
\* Facts about the objects ca45 writes.

\* The cells of an object, and those of an image.
ObjectCells == [op : {"jsr", "ref", "rts"}, to : STRING, val : Nat,
                home : (Nat \ {0}) \X {"text", "data"} \X Nat]
ImageCells == [op : {"jsr", "ref", "rts", "thunk"}, to : STRING \cup {NoLabel}, val : Nat,
               home : Nat \X ({"text", "data", "gap"} \cup Conventions)
                          \X (Nat \cup STRING \cup {NoLabel})]

(* What the assembler leaves in a cell is a number.                         *)
LEMMA AssembledType ==
    ASSUME NEW u, IsUnit(u), NEW cell
    PROVE  Assembled(u, cell) \in Nat
<1>1. CASE IsDefined(u, cell.to)
  <2>1. LabelOf(u, cell.to) \in u.labels
    BY <1>1 DEF IsDefined, LabelOf
  <2>2. LabelOf(u, cell.to).off \in Nat
    BY <2>1 DEF IsUnit, Labels
  <2>. QED BY <1>1, <2>2 DEF Assembled
<1>2. CASE ~IsDefined(u, cell.to)
  BY <1>2 DEF Assembled
<1>. QED BY <1>1, <1>2

(* The cells of a body, one by one.                                         *)
LEMMA BodyCells ==
    ASSUME NEW u, IsUnit(u), NEW n \in Nat \ {0}, NEW seg \in {"text", "data"},
           NEW cells \in Seq(Cells)
    PROVE  /\ Body(u, n, seg, cells) \in Seq(ObjectCells)
           /\ Len(Body(u, n, seg, cells)) = Len(cells)
           /\ \A i \in 1..Len(cells) :
                 Body(u, n, seg, cells)[i] =
                    [op |-> cells[i].op, to |-> cells[i].to,
                     val |-> Assembled(u, cells[i]), home |-> <<n, seg, i - 1>>]
<1>1. \A i \in 1..Len(cells) : cells[i] \in Cells
  BY ElementOfSeq
<1>2. \A i \in 1..Len(cells) : i - 1 \in Nat
  OBVIOUS
<1>. DEFINE e(i) == [op |-> cells[i].op, to |-> cells[i].to,
                     val |-> Assembled(u, cells[i]), home |-> <<n, seg, i - 1>>]
<1>3. \A i \in 1..Len(cells) : e(i) \in ObjectCells
  BY <1>1, <1>2, AssembledType DEF ObjectCells, Cells
<1>4. Body(u, n, seg, cells) = [i \in 1..Len(cells) |-> e(i)]
  BY DEF Body
<1>. HIDE DEF e
<1>5. Len(cells) \in Nat
  OBVIOUS
<1>6. [i \in 1..Len(cells) |-> e(i)] \in Seq(ObjectCells)
      /\ Len([i \in 1..Len(cells) |-> e(i)]) = Len(cells)
  BY <1>3, <1>5
<1>. QED BY <1>4, <1>6 DEF e

(* An object's bodies hold one cell for each of the unit's.                 *)
LEMMA ObjectBodies ==
    ASSUME NEW u, IsUnit(u), NEW n \in Nat \ {0}
    PROVE  LET o == EmitO45(u, n) IN
           /\ o.textBody \in Seq(ObjectCells) /\ o.dataBody \in Seq(ObjectCells)
           /\ Len(o.textBody) = Len(TextOf(u)) /\ Len(o.dataBody) = Len(u.data)
           /\ \A i \in 1..Len(TextOf(u)) :
                 /\ o.textBody[i].op = TextOf(u)[i].op
                 /\ o.textBody[i].to = TextOf(u)[i].to
                 /\ o.textBody[i].val = Assembled(u, TextOf(u)[i])
                 /\ o.textBody[i].home = <<n, "text", i - 1>>
           /\ \A i \in 1..Len(u.data) :
                 /\ o.dataBody[i].op = u.data[i].op
                 /\ o.dataBody[i].to = u.data[i].to
                 /\ o.dataBody[i].val = Assembled(u, u.data[i])
                 /\ o.dataBody[i].home = <<n, "data", i - 1>>
           /\ o.blen = u.bss /\ o.blen \in Nat
<1>1. TextOf(u) \in Seq(Cells) /\ u.data \in Seq(Cells) /\ u.bss \in Nat
  BY SubOffsets DEF IsUnit
<1>2. /\ EmitO45(u, n).textBody = Body(u, n, "text", TextOf(u))
      /\ EmitO45(u, n).dataBody = Body(u, n, "data", u.data)
      /\ EmitO45(u, n).blen = u.bss
  BY DEF EmitO45
<1>3. /\ Body(u, n, "text", TextOf(u)) \in Seq(ObjectCells)
      /\ Len(Body(u, n, "text", TextOf(u))) = Len(TextOf(u))
      /\ \A i \in 1..Len(TextOf(u)) : Body(u, n, "text", TextOf(u))[i] =
                    [op |-> TextOf(u)[i].op, to |-> TextOf(u)[i].to,
                     val |-> Assembled(u, TextOf(u)[i]), home |-> <<n, "text", i - 1>>]
  BY <1>1, BodyCells
<1>4. /\ Body(u, n, "data", u.data) \in Seq(ObjectCells)
      /\ Len(Body(u, n, "data", u.data)) = Len(u.data)
      /\ \A i \in 1..Len(u.data) : Body(u, n, "data", u.data)[i] =
                    [op |-> u.data[i].op, to |-> u.data[i].to,
                     val |-> Assembled(u, u.data[i]), home |-> <<n, "data", i - 1>>]
  BY <1>1, BodyCells
<1>. DEFINE T == TextOf(u)  B == Body(u, n, "text", TextOf(u))
            d == u.data  D == Body(u, n, "data", u.data)
<1>5. \A i \in 1..Len(T) : B[i].op = T[i].op /\ B[i].to = T[i].to
           /\ B[i].val = Assembled(u, T[i]) /\ B[i].home = <<n, "text", i - 1>>
  <2>1. \A i \in 1..Len(T) : B[i] = [op |-> T[i].op, to |-> T[i].to,
                     val |-> Assembled(u, T[i]), home |-> <<n, "text", i - 1>>]
    BY <1>3
  <2>. SUFFICES ASSUME NEW i \in 1..Len(T)
                PROVE  B[i].op = T[i].op /\ B[i].to = T[i].to
                       /\ B[i].val = Assembled(u, T[i]) /\ B[i].home = <<n, "text", i - 1>>
    OBVIOUS
  <2>. DEFINE h == <<n, "text", i - 1>>  v == Assembled(u, T[i])
  <2>2. B[i] = [op |-> T[i].op, to |-> T[i].to, val |-> v, home |-> h]
    BY <2>1
  <2>. HIDE DEF T, B, h, v
  <2>3. B[i].op = T[i].op /\ B[i].to = T[i].to /\ B[i].val = v /\ B[i].home = h
    BY <2>2
  <2>. QED BY <2>3 DEF h, v
<1>6. \A i \in 1..Len(d) : D[i].op = d[i].op /\ D[i].to = d[i].to
           /\ D[i].val = Assembled(u, d[i]) /\ D[i].home = <<n, "data", i - 1>>
  <2>1. \A i \in 1..Len(d) : D[i] = [op |-> d[i].op, to |-> d[i].to,
                     val |-> Assembled(u, d[i]), home |-> <<n, "data", i - 1>>]
    BY <1>4
  <2>. SUFFICES ASSUME NEW i \in 1..Len(d)
                PROVE  D[i].op = d[i].op /\ D[i].to = d[i].to
                       /\ D[i].val = Assembled(u, d[i]) /\ D[i].home = <<n, "data", i - 1>>
    OBVIOUS
  <2>. DEFINE h == <<n, "data", i - 1>>  v == Assembled(u, d[i])
  <2>2. D[i] = [op |-> d[i].op, to |-> d[i].to, val |-> v, home |-> h]
    BY <2>1
  <2>. HIDE DEF d, D, h, v
  <2>3. D[i].op = d[i].op /\ D[i].to = d[i].to /\ D[i].val = v /\ D[i].home = h
    BY <2>2
  <2>. QED BY <2>3 DEF h, v
<1>7. B \in Seq(ObjectCells) /\ D \in Seq(ObjectCells) /\ Len(B) = Len(T) /\ Len(D) = Len(d)
  BY <1>3, <1>4
<1>. HIDE DEF T, B, d, D
<1>8. EmitO45(u, n).textBody = B /\ EmitO45(u, n).dataBody = D /\ EmitO45(u, n).blen = u.bss
      /\ TextOf(u) = T /\ u.data = d
  BY <1>2 DEF T, B, d, D
<1>. QED BY <1>1, <1>5, <1>6, <1>7, <1>8

\* The chunk that is sub-segment k of unit u, number n.
ChunkOf(u, n, k) == [object |-> n, src |-> SubOffset(u, k), len |-> Len(u.text[k].body),
                     name |-> u.text[k].name]
Filled(u) == {k \in 1..Len(u.text) : u.text[k].body # <<>>}

(* The chunks of an object are the sub-segments of its unit, empty ones left *)
(* out, whether ca45 recorded them or not.                                  *)
LEMMA ChunksAre ==
    ASSUME NEW u, IsUnit(u), NEW n \in Nat \ {0}, inputs[n] = EmitO45(u, n)
    PROVE  /\ Chunks(n) = {ChunkOf(u, n, k) : k \in Filled(u)}
           /\ inputs[n].segAttrs = {} => \A c \in Chunks(n) : c.name = "code"
<1>. DEFINE o == inputs[n]
            attr(k) == [name |-> u.text[k].name, offset |-> SubOffset(u, k),
                        length |-> Len(u.text[k].body)]
<1>1. Len(o.textBody) = Len(TextOf(u)) /\ o.textBody \in Seq(ObjectCells)
      /\ o.segAttrs = SegAttrs(u)
  BY ObjectBodies DEF EmitO45
<1>2. SegAttrs(u) = IF Len(u.text) = 1 /\ u.text[1].name = "code" THEN {}
                    ELSE {attr(k) : k \in Filled(u)}
  BY DEF SegAttrs, Filled
<1>3. \A k \in 1..Len(u.text) : u.text[k].body \in Seq(Cells) /\ SubOffset(u, k) \in Nat
         /\ SubOffset(u, k) + Len(u.text[k].body) <= Len(TextOf(u))
  BY BodiesType, SubSegmentInText
<1>4. o.textBody = <<>> <=> Filled(u) = {}
  <2>1. ASSUME o.textBody # <<>> PROVE Filled(u) # {}
    <3>1. 0 < Len(TextOf(u))
      BY <1>1, <2>1
    <3>2. PICK k \in 1..Len(u.text) : LiesIn(u, k, 0)
      BY <3>1, SubSegmentExists
    <3>3. u.text[k].body # <<>>
      BY <1>3, <3>2 DEF LiesIn
    <3>. QED BY <3>3 DEF Filled
  <2>2. ASSUME NEW k \in Filled(u) PROVE o.textBody # <<>>
    <3>1. k \in 1..Len(u.text) /\ u.text[k].body # <<>>
      BY DEF Filled
    <3>2. Len(u.text[k].body) > 0
      BY <1>3, <3>1
    <3>3. Len(o.textBody) > 0
      BY <1>1, <1>3, <3>1, <3>2
    <3>. QED BY <1>1, <3>3
  <2>. QED BY <2>1, <2>2
<1>5. CASE o.textBody = <<>>
  BY <1>4, <1>5 DEF Chunks
<1>6. CASE o.textBody # <<>> /\ o.segAttrs = {}
  <2>1. Len(u.text) = 1 /\ u.text[1].name = "code"
    <3>1. Filled(u) # {} /\ SegAttrs(u) = {}
      BY <1>1, <1>4, <1>6
    <3>2. {attr(k) : k \in Filled(u)} # {}
      <4>. HIDE DEF attr
      <4>. QED BY <3>1
    <3>. HIDE DEF attr
    <3>. QED BY <1>2, <3>1, <3>2
  <2>2. Filled(u) = {1}
    BY <1>4, <1>6, <2>1 DEF Filled
  <2>3. SubOffset(u, 1) = 0 /\ Len(u.text[1].body) = Len(o.textBody)
    <3>1. Len(u.text) + 1 = 2 /\ 1 + 1 = 2
      BY <2>1
    <3>2. SubOffset(u, 2) = SubOffset(u, 1) + Len(u.text[1].body) /\ SubOffset(u, 2) = Len(TextOf(u))
      <4>1. 1 \in 1..Len(u.text)
        BY <2>1
      <4>2. SubOffset(u, 1 + 1) = SubOffset(u, 1) + Len(u.text[1].body)
        BY <4>1, SubOffsets
      <4>3. SubOffset(u, Len(u.text) + 1) = Len(TextOf(u))
        BY SubOffsets
      <4>. QED BY <3>1, <4>2, <4>3
    <3>3. Len(u.text[1].body) \in Nat
      BY <2>1, BodiesType
    <3>. QED BY <1>1, <3>2, <3>3, SubOffsets
  <2>4. Chunks(n) = {[object |-> n, src |-> 0, len |-> Len(o.textBody), name |-> "code"]}
    BY <1>6 DEF Chunks
  <2>5. {ChunkOf(u, n, k) : k \in Filled(u)} = {ChunkOf(u, n, 1)}
    BY <2>2
  <2>6. ChunkOf(u, n, 1) = [object |-> n, src |-> 0, len |-> Len(o.textBody), name |-> "code"]
    BY <2>1, <2>3 DEF ChunkOf
  <2>. QED BY <2>4, <2>5, <2>6
<1>7. CASE o.textBody # <<>> /\ o.segAttrs # {}
  <2>1. o.segAttrs = {attr(k) : k \in Filled(u)}
    BY <1>1, <1>2, <1>7
  <2>2. Chunks(n) = {[object |-> n, src |-> a.offset, len |-> a.length, name |-> a.name] :
                        a \in o.segAttrs}
    BY <1>7 DEF Chunks
  <2>3. \A k : ChunkOf(u, n, k) = [object |-> n, src |-> attr(k).offset, len |-> attr(k).length,
                                   name |-> attr(k).name]
    BY DEF ChunkOf
  <2>. HIDE DEF attr, o
  <2>. QED BY <1>7, <2>1, <2>2, <2>3 DEF o
<1>. QED BY <1>5, <1>6, <1>7

(* What a chunk of an object says.                                          *)
LEMMA ChunkFacts ==
    ASSUME NEW u, IsUnit(u), NEW n \in Nat \ {0}, inputs[n] = EmitO45(u, n),
           \A k \in DOMAIN u.text : u.text[k].name \in ToSet(SegmentNames),
           NEW c \in Chunks(n)
    PROVE  /\ c.object = n /\ c.src \in Nat /\ c.len \in Nat /\ c.len > 0
           /\ c.src + c.len <= Len(inputs[n].textBody)
           /\ c.name \in ToSet(SegmentNames)
           /\ \E k \in Filled(u) : c = ChunkOf(u, n, k)
<1>1. PICK k \in Filled(u) : c = ChunkOf(u, n, k)
  BY ChunksAre
<1>2. k \in 1..Len(u.text) /\ u.text[k].body # <<>>
  BY <1>1 DEF Filled
<1>3. c.object = n /\ c.src = SubOffset(u, k) /\ c.len = Len(u.text[k].body)
      /\ c.name = u.text[k].name
  BY <1>1 DEF ChunkOf
<1>4. Len(u.text[k].body) > 0
  <2>1. u.text[k].body \in Seq(Cells)
    BY <1>2, BodiesType
  <2>. QED BY <1>2, <2>1
<1>5. Len(inputs[n].textBody) = Len(TextOf(u))
  BY ObjectBodies
<1>6. k \in DOMAIN u.text
  <2>1. u.text \in Seq([name : STRING, body : Seq(Cells)])
    BY DEF IsUnit
  <2>. QED BY <1>2, <2>1
<1>. QED BY <1>1, <1>2, <1>3, <1>4, <1>5, <1>6, SubSegmentInText

(* The chunks of an object divide its text.                                 *)
LEMMA ChunksDivide ==
    ASSUME NEW u, IsUnit(u), NEW n \in Nat \ {0}, inputs[n] = EmitO45(u, n)
    PROVE  /\ \A off \in Nat : off < Len(inputs[n].textBody) =>
                 \E c \in Chunks(n) : c.src <= off /\ off < c.src + c.len
           /\ \A c, d \in Chunks(n) : \A off \in Nat :
                 /\ c.src <= off /\ off < c.src + c.len
                 /\ d.src <= off /\ off < d.src + d.len
                 => c = d
<1>1. Len(inputs[n].textBody) = Len(TextOf(u))
  BY ObjectBodies
<1>2. ASSUME NEW off \in Nat, off < Len(inputs[n].textBody)
      PROVE  \E c \in Chunks(n) : c.src <= off /\ off < c.src + c.len
  <2>1. PICK k \in 1..Len(u.text) : LiesIn(u, k, off)
    BY <1>1, <1>2, SubSegmentExists
  <2>2. u.text[k].body # <<>>
    <3>1. SubOffset(u, k) \in Nat /\ Len(<<>>) = 0
      BY SubSegmentInText
    <3>. QED BY <2>1, <3>1 DEF LiesIn
  <2>3. ChunkOf(u, n, k) \in Chunks(n)
    BY <2>2, ChunksAre DEF Filled
  <2>4. ChunkOf(u, n, k).src = SubOffset(u, k) /\ ChunkOf(u, n, k).len = Len(u.text[k].body)
    BY DEF ChunkOf
  <2>. QED BY <2>1, <2>3, <2>4 DEF LiesIn
<1>3. ASSUME NEW c \in Chunks(n), NEW d \in Chunks(n), NEW off \in Nat,
             c.src <= off, off < c.src + c.len, d.src <= off, off < d.src + d.len
      PROVE  c = d
  <2>1. PICK j \in Filled(u) : c = ChunkOf(u, n, j)
    BY ChunksAre
  <2>2. PICK k \in Filled(u) : d = ChunkOf(u, n, k)
    BY ChunksAre
  <2>3. LiesIn(u, j, off) /\ LiesIn(u, k, off)
    BY <1>3, <2>1, <2>2 DEF ChunkOf, LiesIn
  <2>4. j = k
    BY <2>3, SubSegmentUnique DEF Filled
  <2>. QED BY <2>1, <2>2, <2>4
<1>. QED BY <1>2, <1>3

-----------------------------------------------------------------------------
\* The inductive invariant: layout.

\* The objects are what ca45 wrote for the units, throughout.
InputsAreUnits ==
    /\ link \in Links
    /\ inputs = [n \in 1..Len(link.units) |-> EmitO45(link.units[n], n)]

\* Patching changes a cell's value only.
SameCell(b, c) == b.op = c.op /\ b.to = c.to /\ b.home = c.home

IsThunk(b) == b.op = "thunk" /\ b.home[1] = 0 /\ b.home[2] \in Conventions

Placement(c, D) == [src |-> c.src, len |-> c.len, dest |-> D[c]]
PlacedChunks == AllChunks \ unplaced

\* Chunk c went to position D[c] of the text: it is there, its object knows it, and
\* chunks come in the order of ChunkBefore.
LaidOut(D) ==
    /\ D \in [PlacedChunks -> Nat]
    /\ \A c \in PlacedChunks :
          /\ D[c] + c.len <= Len(mergedText)
          /\ \A i \in 1..c.len :
                SameCell(mergedText[D[c] + i], inputs[c.object].textBody[c.src + i])
          /\ \E k \in DOMAIN textRemaps[c.object] : textRemaps[c.object][k] = Placement(c, D)
    /\ \A i \in 1..Len(mergedText) :
          \/ IsThunk(mergedText[i])
          \/ \E c \in PlacedChunks : D[c] < i /\ i <= D[c] + c.len
    /\ \A c, d \in PlacedChunks :
          \/ c = d
          \/ ChunkBefore(c, d) /\ D[c] + c.len <= D[d]
          \/ ChunkBefore(d, c) /\ D[d] + d.len <= D[c]
    /\ \A n \in ObjectIndex : \A k \in DOMAIN textRemaps[n] :
          \E c \in PlacedChunks : c.object = n /\ textRemaps[n][k] = Placement(c, D)
    /\ \A c \in PlacedChunks : \A d \in unplaced : ChunkBefore(c, d)

\* How many objects' data and BSS have been placed.
PlacedObjects == IF phase = "layout" THEN next - 1 ELSE Len(inputs)

DataLaidOut ==
    /\ Len(dataOffset) = PlacedObjects
    /\ \A n \in 1..PlacedObjects :
          /\ dataOffset[n] + Len(inputs[n].dataBody) <= Len(mergedData)
          /\ \A i \in 1..Len(inputs[n].dataBody) :
                SameCell(mergedData[dataOffset[n] + i], inputs[n].dataBody[i])
    /\ \A i \in 1..Len(mergedData) :
          \E n \in 1..PlacedObjects :
              dataOffset[n] < i /\ i <= dataOffset[n] + Len(inputs[n].dataBody)
    /\ \A m, n \in 1..PlacedObjects :
          m < n => dataOffset[m] + Len(inputs[m].dataBody) <= dataOffset[n]

BssLaidOut ==
    /\ Len(bssOffset) = PlacedObjects
    /\ \A n \in 1..PlacedObjects : bssOffset[n] = BssBefore(link.units, n)
    /\ mergedBssLen = BssBefore(link.units, PlacedObjects + 1)

LayoutTypes ==
    /\ phase \in {"layout", "resolve", "analyse", "relocate", "done", "error"}
    /\ next \in 1..(Len(inputs) + 1)
    /\ unplaced \subseteq AllChunks
    /\ unplaced # {} => phase = "layout" /\ next = 1
    /\ textRemaps \in [ObjectIndex -> Seq([src : Nat, len : Nat, dest : Nat])]
    /\ dataOffset \in Seq(Nat) /\ bssOffset \in Seq(Nat)
    /\ mergedText \in Seq(ImageCells) /\ mergedData \in Seq(ObjectCells)
    /\ mergedBssLen \in Nat

LayoutInv ==
    /\ InputsAreUnits /\ LayoutTypes
    /\ \E D : LaidOut(D)
    /\ DataLaidOut /\ BssLaidOut

(* What InputsAreUnits says of each object.                                 *)
LEMMA ObjectsOfUnits ==
    ASSUME InputsAreUnits
    PROVE  /\ Len(inputs) \in Nat /\ Len(inputs) = Len(link.units)
           /\ DOMAIN link.units = ObjectIndex
           /\ \A n \in ObjectIndex :
                 /\ n \in Nat \ {0} /\ IsUnit(link.units[n])
                 /\ inputs[n] = EmitO45(link.units[n], n)
                 /\ \A k \in DOMAIN link.units[n].text :
                       link.units[n].text[k].name \in ToSet(SegmentNames)
                 /\ inputs[n].textBody \in Seq(ObjectCells)
                 /\ inputs[n].dataBody \in Seq(ObjectCells)
                 /\ inputs[n].blen \in Nat /\ inputs[n].blen = link.units[n].bss
<1>. DEFINE us == link.units
<1>1. us \in Seq(ToSet(us)) /\ \A u \in ToSet(us) :
          /\ IsUnit(u) /\ \A k \in DOMAIN u.text : u.text[k].name \in ToSet(SegmentNames)
  BY LinksAssumption DEF InputsAreUnits
<1>2. inputs = [n \in 1..Len(us) |-> EmitO45(us[n], n)]
  BY DEF InputsAreUnits
<1>. HIDE DEF us
<1>3. Len(us) \in Nat /\ Len(inputs) = Len(us) /\ DOMAIN us = 1..Len(us)
  BY <1>1, <1>2
<1>4. \A n \in 1..Len(us) : us[n] \in ToSet(us)
  BY <1>1
<1>5. ASSUME NEW n \in 1..Len(us)
      PROVE  /\ n \in Nat \ {0} /\ IsUnit(us[n]) /\ inputs[n] = EmitO45(us[n], n)
             /\ \A k \in DOMAIN us[n].text : us[n].text[k].name \in ToSet(SegmentNames)
             /\ inputs[n].textBody \in Seq(ObjectCells)
             /\ inputs[n].dataBody \in Seq(ObjectCells)
             /\ inputs[n].blen \in Nat /\ inputs[n].blen = us[n].bss
  <2>1. n \in Nat \ {0} /\ IsUnit(us[n]) /\ inputs[n] = EmitO45(us[n], n)
        /\ \A k \in DOMAIN us[n].text : us[n].text[k].name \in ToSet(SegmentNames)
    BY <1>1, <1>2, <1>3, <1>4
  <2>. QED BY <2>1, ObjectBodies
<1>. QED BY <1>3, <1>5 DEF us, ObjectIndex

\* f adds up the BSS of the units.
Sums(f, us) == f = [k \in 0..Len(us) |-> IF k = 0 THEN 0 ELSE f[k - 1] + us[k].bss]

(* The function BssBefore defines by recursion exists.                      *)
LEMMA SumsExists ==
    ASSUME NEW us, Len(us) \in Nat
    PROVE  \E f : Sums(f, us)
<1>. DEFINE Upto(n, f) == f = [k \in 0..n |-> IF k = 0 THEN 0 ELSE f[k - 1] + us[k].bss]
            Bad == {n \in 0..Len(us) : ~ \E f : Upto(n, f)}
<1>1. ASSUME Bad # {} PROVE FALSE
  <2>1. PICK n \in Bad : \A i \in Bad : n <= i
    <3>1. Bad \in SUBSET Nat
      <4>. HIDE DEF Upto
      <4>. QED OBVIOUS
    <3>. HIDE DEF Bad
    <3>. QED BY <1>1, <3>1, LeastNumber
  <2>2. n # 0
    <3>1. Upto(0, [i \in 0..0 |-> 0])
      OBVIOUS
    <3>. QED BY <3>1
  <2>3. n - 1 \in 0..Len(us) /\ n - 1 \notin Bad /\ n \in 1..Len(us)
    <3>1. n \in 0..Len(us)
      <4>. HIDE DEF Upto
      <4>. QED BY <2>1
    <3>2. n - 1 \in 0..Len(us) /\ n \in 1..Len(us) /\ ~(n <= n - 1)
      BY <3>1, <2>2
    <3>. HIDE DEF Bad
    <3>. QED BY <3>2, <2>1
  <2>4. PICK f : Upto(n - 1, f)
    <3>. HIDE DEF Upto
    <3>. QED BY <2>3
  <2>. DEFINE g == [k \in 0..n |-> IF k < n THEN f[k]
                                    ELSE IF k = 0 THEN 0 ELSE f[k - 1] + us[k].bss]
  <2>5. \A k \in 0..(n - 1) : f[k] = IF k = 0 THEN 0 ELSE f[k - 1] + us[k].bss
    BY <2>4
  <2>6. ASSUME NEW k \in 0..n PROVE g[k] = IF k = 0 THEN 0 ELSE g[k - 1] + us[k].bss
    <3>1. k # 0 => k - 1 \in 0..n /\ k - 1 < n /\ g[k - 1] = f[k - 1]
      BY <2>3
    <3>2. CASE k < n
      <4>1. k \in 0..(n - 1)
        BY <3>2, <2>3
      <4>. QED BY <4>1, <3>1, <3>2, <2>5
    <3>3. CASE k = n
      BY <3>1, <3>3, <2>3
    <3>. QED BY <3>2, <3>3, <2>3
  <2>7. g = [k \in 0..n |-> g[k]]
    OBVIOUS
  <2>. HIDE DEF g
  <2>8. Upto(n, g)
    BY <2>6, <2>7
  <2>9. n \notin Bad
    <3>. HIDE DEF Upto
    <3>. QED BY <2>8
  <2>. QED
    <3>. HIDE DEF Bad
    <3>. QED BY <2>1, <2>9
<1>2. Len(us) \notin Bad
  <2>. HIDE DEF Bad
  <2>. QED BY <1>1
<1>3. PICK f : Upto(Len(us), f)
  <2>1. Len(us) \in 0..Len(us)
    OBVIOUS
  <2>. HIDE DEF Upto
  <2>. QED BY <1>2, <2>1
<1>. QED BY <1>3 DEF Sums

(* The BSS of the units before one: none before the first, and the next unit's *)
(* start behind it.                                                         *)
LEMMA BssSums ==
    ASSUME NEW us, Len(us) \in Nat, \A k \in 1..Len(us) : us[k].bss \in Nat
    PROVE  /\ BssBefore(us, 1) = 0
           /\ \A n \in 1..(Len(us) + 1) : BssBefore(us, n) \in Nat
           /\ \A n \in 1..Len(us) : BssBefore(us, n + 1) = BssBefore(us, n) + us[n].bss
<1>. DEFINE F == CHOOSE f : Sums(f, us)
<1>1. Sums(F, us)
  BY SumsExists, Zenon
<1>2. \A n : BssBefore(us, n) = F[n - 1]
  BY DEF BssBefore, Sums
<1>. HIDE DEF F
<1>3. \A k \in 0..Len(us) : F[k] = IF k = 0 THEN 0 ELSE F[k - 1] + us[k].bss
  BY <1>1 DEF Sums
<1>. DEFINE Bad == {k \in 0..Len(us) : F[k] \notin Nat}
<1>4. ASSUME Bad # {} PROVE FALSE
  <2>1. PICK k \in Bad : \A i \in Bad : k <= i
    <3>1. Bad \in SUBSET Nat
      OBVIOUS
    <3>. HIDE DEF Bad
    <3>. QED BY <1>4, <3>1, LeastNumber
  <2>2. k \in 0..Len(us) /\ F[k] \notin Nat
    OBVIOUS
  <2>3. k # 0
    BY <1>3, <2>2
  <2>4. k - 1 \in 0..Len(us) /\ k - 1 \notin Bad /\ k \in 1..Len(us)
    <3>1. k - 1 \in 0..Len(us) /\ ~(k <= k - 1) /\ k \in 1..Len(us)
      BY <2>2, <2>3
    <3>. HIDE DEF Bad
    <3>. QED BY <2>1, <3>1
  <2>5. F[k - 1] \in Nat
    BY <2>4
  <2>6. F[k] = F[k - 1] + us[k].bss
    BY <1>3, <2>2, <2>3
  <2>. HIDE DEF Bad
  <2>. QED BY <2>2, <2>4, <2>5, <2>6
<1>5. \A k \in 0..Len(us) : F[k] \in Nat
  BY <1>4
<1>6. \A n \in 1..(Len(us) + 1) : n - 1 \in 0..Len(us)
  OBVIOUS
<1>7. \A n \in 1..Len(us) : (n + 1) - 1 = n /\ n \in 0..Len(us) /\ n # 0
  OBVIOUS
<1>8. 1 - 1 = 0 /\ 0 \in 0..Len(us)
  OBVIOUS
<1>. HIDE DEF Bad
<1>. QED BY <1>2, <1>3, <1>5, <1>6, <1>7, <1>8

(* Of the units in a link, nobody's BSS is negative.                        *)
LEMMA BssOfUnits ==
    ASSUME InputsAreUnits
    PROVE  /\ BssBefore(link.units, 1) = 0
           /\ \A n \in 1..(Len(inputs) + 1) : BssBefore(link.units, n) \in Nat
           /\ \A n \in ObjectIndex :
                 BssBefore(link.units, n + 1) = BssBefore(link.units, n) + inputs[n].blen
<1>1. Len(link.units) \in Nat /\ Len(inputs) = Len(link.units)
      /\ \A n \in 1..Len(link.units) : link.units[n].bss \in Nat /\ inputs[n].blen = link.units[n].bss
  BY ObjectsOfUnits DEF ObjectIndex
<1>. QED BY <1>1, BssSums DEF ObjectIndex

(* What the chunks of a link say.                                           *)
LEMMA ChunksOfLink ==
    ASSUME InputsAreUnits, NEW c \in AllChunks
    PROVE  /\ c.object \in ObjectIndex /\ c \in Chunks(c.object)
           /\ c.src \in Nat /\ c.len \in Nat /\ c.len > 0
           /\ c.src + c.len <= Len(inputs[c.object].textBody)
           /\ inputs[c.object].textBody \in Seq(ObjectCells)
           /\ c.name \in ToSet(SegmentNames)
           /\ IsDefault(c) => c.name = "code"
           /\ \E k \in Filled(link.units[c.object]) :
                 c = ChunkOf(link.units[c.object], c.object, k)
<1>1. PICK n \in ObjectIndex : c \in Chunks(n)
  BY DEF AllChunks
<1>2. /\ n \in Nat \ {0} /\ IsUnit(link.units[n]) /\ inputs[n] = EmitO45(link.units[n], n)
      /\ \A k \in DOMAIN link.units[n].text :
             link.units[n].text[k].name \in ToSet(SegmentNames)
      /\ inputs[n].textBody \in Seq(ObjectCells)
  BY ObjectsOfUnits
<1>. DEFINE u == link.units[n]
<1>3. IsUnit(u) /\ inputs[n] = EmitO45(u, n)
      /\ \A k \in DOMAIN u.text : u.text[k].name \in ToSet(SegmentNames)
  BY <1>2
<1>. HIDE DEF u
<1>4. /\ c.object = n /\ c.src \in Nat /\ c.len \in Nat /\ c.len > 0
      /\ c.src + c.len <= Len(inputs[n].textBody)
      /\ c.name \in ToSet(SegmentNames)
      /\ \E k \in Filled(u) : c = ChunkOf(u, n, k)
  BY <1>1, <1>2, <1>3, ChunkFacts
<1>5. inputs[n].segAttrs = {} => c.name = "code"
  BY <1>1, <1>2, <1>3, ChunksAre
<1>. QED BY <1>1, <1>2, <1>4, <1>5 DEF IsDefault, u

(* The text of an object is divided into its chunks.                        *)
LEMMA ChunksDivideObject ==
    ASSUME InputsAreUnits, NEW n \in ObjectIndex
    PROVE  /\ \A off \in Nat : off < Len(inputs[n].textBody) =>
                 \E c \in Chunks(n) : c \in AllChunks /\ c.object = n
                                      /\ c.src <= off /\ off < c.src + c.len
           /\ \A c, d \in AllChunks : \A off \in Nat :
                 /\ c.object = n /\ d.object = n
                 /\ c.src <= off /\ off < c.src + c.len
                 /\ d.src <= off /\ off < d.src + d.len
                 => c = d
<1>1. n \in Nat \ {0} /\ IsUnit(link.units[n]) /\ inputs[n] = EmitO45(link.units[n], n)
  BY ObjectsOfUnits
<1>2. /\ \A off \in Nat : off < Len(inputs[n].textBody) =>
             \E c \in Chunks(n) : c.src <= off /\ off < c.src + c.len
      /\ \A c, d \in Chunks(n) : \A off \in Nat :
             /\ c.src <= off /\ off < c.src + c.len
             /\ d.src <= off /\ off < d.src + d.len
             => c = d
  BY <1>1, ChunksDivide
<1>3. \A c \in Chunks(n) : c \in AllChunks
  BY DEF AllChunks
<1>4. \A c \in Chunks(n) : c.object = n
  BY <1>1, ChunksAre DEF ChunkOf
<1>5. \A c \in AllChunks : c.object = n => c \in Chunks(n)
  BY ChunksOfLink
<1>6. ASSUME NEW c \in AllChunks, NEW d \in AllChunks, NEW off \in Nat,
             c.object = n, d.object = n,
             c.src <= off, off < c.src + c.len, d.src <= off, off < d.src + d.len
      PROVE  c = d
  <2>1. c \in Chunks(n) /\ d \in Chunks(n)
    BY <1>5, <1>6
  <2>. QED BY <1>2, <1>6, <2>1
<1>7. ASSUME NEW off \in Nat, off < Len(inputs[n].textBody)
      PROVE  \E c \in Chunks(n) : c \in AllChunks /\ c.object = n
                                  /\ c.src <= off /\ off < c.src + c.len
  <2>1. PICK c \in Chunks(n) : c.src <= off /\ off < c.src + c.len
    BY <1>2, <1>7
  <2>. QED BY <1>3, <1>4, <2>1
<1>. QED BY <1>6, <1>7

(* What depends on the objects alone stays.                                 *)
LEMMA ObjectsKept ==
    ASSUME inputs' = inputs
    PROVE  /\ ObjectIndex' = ObjectIndex /\ AllChunks' = AllChunks
           /\ \A c, d : ChunkBefore(c, d)' <=> ChunkBefore(c, d)
           /\ AllRelocs' = AllRelocs
BY DEF ObjectIndex, AllChunks, Chunks, ChunkBefore, IsDefault, InObjectOrder, AllRelocs

(* LinkInit establishes the layout invariant.                               *)
LEMMA LayoutInit == LinkInit => LayoutInv
<1>. SUFFICES ASSUME LinkInit PROVE LayoutInv
  OBVIOUS
<1>1. InputsAreUnits
  BY DEF LinkInit, InputsAreUnits
<1>2. Len(inputs) \in Nat
  BY <1>1, ObjectsOfUnits
<1>3. unplaced = AllChunks /\ mergedText = <<>> /\ mergedData = <<>> /\ mergedBssLen = 0
      /\ textRemaps = [n \in ObjectIndex |-> <<>>] /\ dataOffset = <<>> /\ bssOffset = <<>>
      /\ next = 1 /\ phase = "layout"
  BY DEF LinkInit
<1>4. LayoutTypes
  BY <1>2, <1>3 DEF LayoutTypes
<1>5. PlacedChunks = {}
  BY <1>3 DEF PlacedChunks
<1>6. LaidOut([c \in {} |-> 0])
  BY <1>3, <1>5 DEF LaidOut
<1>7. PlacedObjects = 0
  BY <1>3 DEF PlacedObjects
<1>8. DataLaidOut
  BY <1>3, <1>7 DEF DataLaidOut
<1>9. BssLaidOut
  BY <1>1, <1>3, <1>7, BssOfUnits DEF BssLaidOut
<1>. QED BY <1>1, <1>4, <1>6, <1>8, <1>9 DEF LayoutInv

(* The cells of an object can be cells of an image.                          *)
LEMMA ObjectCellsFit == ObjectCells \subseteq ImageCells
<1>. SUFFICES ASSUME NEW b \in ObjectCells PROVE b \in ImageCells
  OBVIOUS
<1>1. b.home \in (Nat \ {0}) \X {"text", "data"} \X Nat /\ b.op \in {"jsr", "ref", "rts"}
      /\ b.to \in STRING /\ b.val \in Nat
      /\ b = [op |-> b.op, to |-> b.to, val |-> b.val, home |-> b.home]
  BY DEF ObjectCells
<1>2. PICK n \in Nat \ {0}, s \in {"text", "data"}, o \in Nat : b.home = <<n, s, o>>
  BY <1>1
<1>. DEFINE T == {"text", "data", "gap"} \cup Conventions
            U == Nat \cup STRING \cup {NoLabel}
<1>3. <<n, s, o>> \in Nat \X T \X U
  <2>1. n \in Nat /\ s \in T /\ o \in U
    OBVIOUS
  <2>. HIDE DEF T, U
  <2>. QED BY <2>1
<1>. QED BY <1>1, <1>2, <1>3 DEF ImageCells

\* What PlaceChunk does with the chunk it places.
CopiesChunk(c) ==
    /\ mergedText' = mergedText \o SubSeq(inputs[c.object].textBody, c.src + 1, c.src + c.len)
    /\ textRemaps' = [textRemaps EXCEPT ![c.object] =
          Append(@, [src |-> c.src, len |-> c.len, dest |-> Len(mergedText)])]

(* PlaceChunk copies the chunk and tells its object.                         *)
LEMMA ChunkCopied ==
    ASSUME InputsAreUnits, LayoutTypes, NEW c \in AllChunks, CopiesChunk(c)
    PROVE  LET n == c.object
               r == [src |-> c.src, len |-> c.len, dest |-> Len(mergedText)]
           IN
           /\ n \in ObjectIndex /\ Len(mergedText) \in Nat
           /\ mergedText' \in Seq(ImageCells) /\ Len(mergedText') = Len(mergedText) + c.len
           /\ \A i \in 1..Len(mergedText) : mergedText'[i] = mergedText[i]
           /\ \A i \in 1..c.len :
                 mergedText'[Len(mergedText) + i] = inputs[n].textBody[c.src + i]
           /\ textRemaps' \in [ObjectIndex -> Seq([src : Nat, len : Nat, dest : Nat])]
           /\ \A m \in ObjectIndex : m # n => textRemaps'[m] = textRemaps[m]
           /\ Len(textRemaps'[n]) = Len(textRemaps[n]) + 1 /\ Len(textRemaps[n]) \in Nat
           /\ \A k \in 1..Len(textRemaps[n]) : textRemaps'[n][k] = textRemaps[n][k]
           /\ textRemaps'[n][Len(textRemaps[n]) + 1] = r
           /\ \A m \in ObjectIndex : DOMAIN textRemaps[m] = 1..Len(textRemaps[m])
           /\ DOMAIN textRemaps'[n] = 1..(Len(textRemaps[n]) + 1)
<1>. DEFINE n == c.object  body == inputs[n].textBody  len == Len(mergedText)
            S == SubSeq(body, c.src + 1, c.src + c.len)
<1>6. /\ n \in ObjectIndex /\ c.src \in Nat /\ c.len \in Nat /\ c.len > 0
      /\ c.src + c.len <= Len(body) /\ body \in Seq(ObjectCells)
  BY ChunksOfLink
<1>7. S \in Seq(ObjectCells) /\ Len(S) = c.len /\ \A i \in 1..c.len : S[i] = body[c.src + i]
  <2>. HIDE DEF body
  <2>1. Len(body) \in Nat
    BY <1>6
  <2>2. \A i \in (c.src + 1)..(c.src + c.len) : i \in 1..Len(body)
    BY <1>6, <2>1
  <2>3. \A i \in (c.src + 1)..(c.src + c.len) : body[i] \in ObjectCells
    BY <1>6, <2>2
  <2>4. c.src + 1 \in Int /\ c.src + c.len \in Int /\ (c.src + c.len) - (c.src + 1) + 1 = c.len
        /\ c.src + 1 <= c.src + c.len
    BY <1>6
  <2>5. /\ S \in Seq(ObjectCells)
        /\ Len(S) = (c.src + c.len) - (c.src + 1) + 1
        /\ \A i \in 1..((c.src + c.len) - (c.src + 1) + 1) : S[i] = body[c.src + 1 + i - 1]
    BY <2>3, <2>4, SubSeqProperties
  <2>6. \A i \in 1..c.len : c.src + 1 + i - 1 = c.src + i
    BY <1>6
  <2>. HIDE DEF S
  <2>. QED BY <2>4, <2>5, <2>6
<1>8. mergedText \in Seq(ImageCells) /\ ObjectCells \subseteq ImageCells
  BY ObjectCellsFit DEF LayoutTypes
<1>. HIDE DEF S, body
<1>9. mergedText' = mergedText \o S
  BY DEF S, body, CopiesChunk
<1>10. S \in Seq(ImageCells)
  BY <1>7, <1>8
<1>11. /\ mergedText' \in Seq(ImageCells) /\ len \in Nat /\ Len(mergedText') = len + c.len
       /\ \A i \in 1..len : mergedText'[i] = mergedText[i]
       /\ \A i \in 1..c.len : mergedText'[len + i] = S[i]
  BY <1>6, <1>7, <1>8, <1>9, <1>10
<1>. DEFINE r == [src |-> c.src, len |-> c.len, dest |-> len]
<1>12. /\ textRemaps' \in [ObjectIndex -> Seq([src : Nat, len : Nat, dest : Nat])]
       /\ \A m \in ObjectIndex : m # n => textRemaps'[m] = textRemaps[m]
       /\ Len(textRemaps'[n]) = Len(textRemaps[n]) + 1 /\ Len(textRemaps[n]) \in Nat
       /\ \A k \in 1..Len(textRemaps[n]) : textRemaps'[n][k] = textRemaps[n][k]
       /\ textRemaps'[n][Len(textRemaps[n]) + 1] = r
       /\ \A m \in ObjectIndex : DOMAIN textRemaps[m] = 1..Len(textRemaps[m])
       /\ DOMAIN textRemaps'[n] = 1..(Len(textRemaps[n]) + 1)
  <2>1. textRemaps \in [ObjectIndex -> Seq([src : Nat, len : Nat, dest : Nat])]
    BY DEF LayoutTypes
  <2>2. r \in [src : Nat, len : Nat, dest : Nat]
    BY <1>6, <1>11
  <2>3. textRemaps' = [textRemaps EXCEPT ![n] = Append(textRemaps[n], r)]
    BY DEF CopiesChunk
  <2>4. n \in ObjectIndex
    BY <1>6
  <2>. DEFINE T == [src : Nat, len : Nat, dest : Nat]
  <2>. HIDE DEF r, T, n
  <2>5. textRemaps \in [ObjectIndex -> Seq(T)] /\ r \in T
    BY <2>1, <2>2 DEF T
  <2>6. textRemaps[n] \in Seq(T)
    BY <2>4, <2>5
  <2>7. /\ Append(textRemaps[n], r) \in Seq(T)
        /\ Len(Append(textRemaps[n], r)) = Len(textRemaps[n]) + 1
        /\ Len(textRemaps[n]) \in Nat
        /\ \A k \in 1..Len(textRemaps[n]) : Append(textRemaps[n], r)[k] = textRemaps[n][k]
        /\ Append(textRemaps[n], r)[Len(textRemaps[n]) + 1] = r
    BY <2>5, <2>6
  <2>8. textRemaps' \in [ObjectIndex -> Seq(T)]
        /\ textRemaps'[n] = Append(textRemaps[n], r)
        /\ \A m \in ObjectIndex : m # n => textRemaps'[m] = textRemaps[m]
    BY <2>3, <2>4, <2>5, <2>7
  <2>9. \A m \in ObjectIndex : DOMAIN textRemaps[m] = 1..Len(textRemaps[m])
    BY <2>5
  <2>10. DOMAIN Append(textRemaps[n], r) = 1..(Len(textRemaps[n]) + 1)
    BY <2>7
  <2>. QED BY <2>7, <2>8, <2>9, <2>10 DEF T
<1>13. \A i \in 1..c.len : mergedText'[len + i] = body[c.src + i]
  BY <1>7, <1>11
<1>. QED BY <1>6, <1>11, <1>12, <1>13 DEF body

\* Chunk c goes to the end of the text.
Extended(D, c) ==
    [x \in PlacedChunks \cup {c} |-> IF x = c THEN Len(mergedText) ELSE D[x]]

(* PlaceChunk puts the chunk behind those that come before it.              *)
LEMMA PlaceChunkLaysOut ==
    ASSUME LayoutInv, PlaceChunk
    PROVE  LayoutTypes' /\ \E D : LaidOut(D)'
<1>1. PICK c \in unplaced :
          /\ \A d \in unplaced \ {c} : ChunkBefore(c, d)
          /\ mergedText' = mergedText
                \o SubSeq(inputs[c.object].textBody, c.src + 1, c.src + c.len)
          /\ textRemaps' = [textRemaps EXCEPT ![c.object] =
                Append(@, [src |-> c.src, len |-> c.len, dest |-> Len(mergedText)])]
          /\ unplaced' = unplaced \ {c}
  BY DEF PlaceChunk
<1>2. PICK D : LaidOut(D)
  BY DEF LayoutInv
<1>3. InputsAreUnits /\ LayoutTypes
  BY DEF LayoutInv
<1>4. inputs' = inputs /\ link' = link /\ phase' = phase /\ next' = next /\ mergedData' = mergedData
      /\ dataOffset' = dataOffset /\ bssOffset' = bssOffset /\ mergedBssLen' = mergedBssLen
      /\ phase = "layout"
  BY DEF PlaceChunk
<1>5. c \in AllChunks
  BY <1>1, <1>3 DEF LayoutTypes
<1>. DEFINE n == c.object  body == inputs[n].textBody  len == Len(mergedText)
            r == [src |-> c.src, len |-> c.len, dest |-> len]
<1>6. /\ n \in ObjectIndex /\ c.src \in Nat /\ c.len \in Nat /\ c.len > 0
      /\ c.src + c.len <= Len(body) /\ body \in Seq(ObjectCells)
  BY <1>3, <1>5, ChunksOfLink
<1>0. PICK E : E = Extended(D, c)
  OBVIOUS
<1>10. /\ mergedText' \in Seq(ImageCells) /\ len \in Nat /\ Len(mergedText') = len + c.len
       /\ \A i \in 1..len : mergedText'[i] = mergedText[i]
       /\ \A i \in 1..c.len : mergedText'[len + i] = body[c.src + i]
       /\ textRemaps' \in [ObjectIndex -> Seq([src : Nat, len : Nat, dest : Nat])]
       /\ \A m \in ObjectIndex : m # n => textRemaps'[m] = textRemaps[m]
       /\ Len(textRemaps'[n]) = Len(textRemaps[n]) + 1 /\ Len(textRemaps[n]) \in Nat
       /\ \A k \in 1..Len(textRemaps[n]) : textRemaps'[n][k] = textRemaps[n][k]
       /\ textRemaps'[n][Len(textRemaps[n]) + 1] = r
       /\ \A m \in ObjectIndex : DOMAIN textRemaps[m] = 1..Len(textRemaps[m])
       /\ DOMAIN textRemaps'[n] = 1..(Len(textRemaps[n]) + 1)
  BY <1>1, <1>3, <1>5, ChunkCopied DEF CopiesChunk
<1>. HIDE DEF body
<1>11. /\ mergedText' \in Seq(ImageCells) /\ len \in Nat /\ Len(mergedText') = len + c.len
       /\ \A i \in 1..len : mergedText'[i] = mergedText[i]
       /\ \A i \in 1..c.len : mergedText'[len + i] = body[c.src + i]
  BY <1>10
<1>12. /\ textRemaps' \in [ObjectIndex -> Seq([src : Nat, len : Nat, dest : Nat])]
       /\ \A m \in ObjectIndex : m # n => textRemaps'[m] = textRemaps[m]
       /\ Len(textRemaps'[n]) = Len(textRemaps[n]) + 1 /\ Len(textRemaps[n]) \in Nat
       /\ \A k \in 1..Len(textRemaps[n]) : textRemaps'[n][k] = textRemaps[n][k]
       /\ textRemaps'[n][Len(textRemaps[n]) + 1] = r
       /\ \A m \in ObjectIndex : DOMAIN textRemaps[m] = 1..Len(textRemaps[m])
       /\ DOMAIN textRemaps'[n] = 1..(Len(textRemaps[n]) + 1)
  BY <1>10
<1>13. LayoutTypes'
  <2>1. ObjectIndex' = ObjectIndex /\ AllChunks' = AllChunks
    BY <1>4, ObjectsKept
  <2>2. next = 1
    BY <1>1, <1>3 DEF LayoutTypes
  <2>. QED BY <1>1, <1>3, <1>4, <1>11, <1>12, <2>1, <2>2 DEF LayoutTypes
<1>14. PlacedChunks' = PlacedChunks \cup {c} /\ c \notin PlacedChunks
  <2>1. AllChunks' = AllChunks
    BY <1>4, ObjectsKept
  <2>. QED BY <1>1, <1>5, <2>1 DEF PlacedChunks
<1>15. /\ D \in [PlacedChunks -> Nat]
       /\ \A x \in PlacedChunks : D[x] + x.len <= len
  BY <1>2 DEF LaidOut
<1>16. /\ E \in [PlacedChunks \cup {c} -> Nat] /\ E[c] = len
       /\ \A x \in PlacedChunks : E[x] = D[x]
  BY <1>0, <1>11, <1>14, <1>15 DEF Extended
<1>17. \A x \in PlacedChunks : x \in AllChunks /\ x.object \in ObjectIndex /\ x.len \in Nat
                               /\ D[x] \in Nat
  BY <1>3, <1>15, ChunksOfLink DEF PlacedChunks
<1>18. Placement(c, E) = r /\ \A x \in PlacedChunks : Placement(x, E) = Placement(x, D)
  BY <1>16 DEF Placement
<1>. DEFINE Copied(x) == /\ E[x] + x.len <= Len(mergedText')
                         /\ \A i \in 1..x.len : SameCell(mergedText'[E[x] + i],
                                                    inputs[x.object].textBody[x.src + i])
                         /\ \E k \in DOMAIN textRemaps'[x.object] :
                               textRemaps'[x.object][k] = Placement(x, E)
<1>19. \A x \in PlacedChunks \cup {c} : Copied(x)
  <2>1. ASSUME NEW x \in PlacedChunks PROVE Copied(x)
    <3>1. /\ D[x] + x.len <= len
          /\ \A i \in 1..x.len : SameCell(mergedText[D[x] + i], inputs[x.object].textBody[x.src + i])
          /\ \E k \in DOMAIN textRemaps[x.object] : textRemaps[x.object][k] = Placement(x, D)
      BY <1>2 DEF LaidOut
    <3>2. E[x] + x.len <= Len(mergedText')
      BY <1>6, <1>11, <1>16, <1>17, <3>1
    <3>3. \A i \in 1..x.len : D[x] + i \in 1..len
      BY <1>11, <1>17, <3>1
    <3>4. \A i \in 1..x.len : mergedText'[E[x] + i] = mergedText[D[x] + i]
      BY <1>11, <1>16, <3>3
    <3>5. PICK k \in DOMAIN textRemaps[x.object] : textRemaps[x.object][k] = Placement(x, D)
      BY <3>1
    <3>6. k \in DOMAIN textRemaps'[x.object] /\ textRemaps'[x.object][k] = textRemaps[x.object][k]
      <4>2. k \in 1..Len(textRemaps[x.object])
        BY <1>12, <1>17, <3>5
      <4>3. CASE x.object = n
        <5>1. k \in 1..Len(textRemaps[n]) /\ k \in 1..(Len(textRemaps[n]) + 1)
          BY <1>12, <4>2, <4>3
        <5>. QED BY <1>12, <4>3, <5>1
      <4>4. CASE x.object # n
        BY <1>12, <1>17, <3>5, <4>4
      <4>. QED BY <4>3, <4>4
    <3>. QED BY <1>18, <3>1, <3>2, <3>4, <3>5, <3>6
  <2>2. Copied(c)
    <3>1. E[c] + c.len <= Len(mergedText')
      BY <1>11, <1>16
    <3>2. \A i \in 1..c.len : mergedText'[E[c] + i] = body[c.src + i]
      BY <1>11, <1>16
    <3>3. Len(textRemaps[n]) + 1 \in DOMAIN textRemaps'[n]
      BY <1>12
    <3>. QED BY <1>12, <1>18, <3>1, <3>2, <3>3 DEF SameCell, body
  <2>. QED BY <2>1, <2>2
<1>20. ASSUME NEW i \in 1..Len(mergedText')
       PROVE  \/ IsThunk(mergedText'[i])
              \/ \E x \in PlacedChunks \cup {c} : E[x] < i /\ i <= E[x] + x.len
  <2>1. CASE i <= len
    <3>1. i \in 1..len
      BY <1>11, <2>1
    <3>2. \/ IsThunk(mergedText[i])
          \/ \E x \in PlacedChunks : D[x] < i /\ i <= D[x] + x.len
      BY <1>2, <3>1 DEF LaidOut
    <3>. QED BY <1>11, <1>16, <3>1, <3>2
  <2>2. CASE ~(i <= len)
    BY <1>11, <1>16, <2>2
  <2>. QED BY <2>1, <2>2
<1>21. ASSUME NEW x \in PlacedChunks \cup {c}, NEW y \in PlacedChunks \cup {c}
       PROVE  \/ x = y
              \/ ChunkBefore(x, y) /\ E[x] + x.len <= E[y]
              \/ ChunkBefore(y, x) /\ E[y] + y.len <= E[x]
  <2>1. \A z \in PlacedChunks : ChunkBefore(z, c) /\ E[z] + z.len <= E[c]
    BY <1>1, <1>2, <1>15, <1>16 DEF LaidOut
  <2>2. \A w, z \in PlacedChunks :
          \/ w = z
          \/ ChunkBefore(w, z) /\ D[w] + w.len <= D[z]
          \/ ChunkBefore(z, w) /\ D[z] + z.len <= D[w]
    BY <1>2 DEF LaidOut
  <2>. QED BY <1>16, <2>1, <2>2
<1>22. ASSUME NEW m \in ObjectIndex, NEW k \in DOMAIN textRemaps'[m]
       PROVE  \E x \in PlacedChunks \cup {c} : x.object = m /\ textRemaps'[m][k] = Placement(x, E)
  <2>1. \A j \in DOMAIN textRemaps[m] :
          \E x \in PlacedChunks : x.object = m /\ textRemaps[m][j] = Placement(x, D)
    BY <1>2 DEF LaidOut
  <2>2. CASE m # n
    <3>1. k \in DOMAIN textRemaps[m] /\ textRemaps'[m][k] = textRemaps[m][k]
      BY <1>12, <2>2
    <3>2. PICK x \in PlacedChunks : x.object = m /\ textRemaps[m][k] = Placement(x, D)
      BY <2>1, <3>1
    <3>. QED BY <1>18, <3>1, <3>2
  <2>3. CASE m = n
    <3>. DEFINE K == Len(textRemaps[n])
    <3>1. k \in 1..(K + 1) /\ K \in Nat
      BY <1>12, <2>3
    <3>2. k \in 1..K \/ k = K + 1
      <4>. HIDE DEF K
      <4>. QED BY <3>1
    <3>3. CASE k = Len(textRemaps[n]) + 1
      <4>1. textRemaps'[m][k] = Placement(c, E)
        BY <1>12, <1>18, <2>3, <3>3
      <4>. QED BY <2>3, <4>1
    <3>4. CASE k \in 1..Len(textRemaps[n])
      <4>1. textRemaps'[m][k] = textRemaps[n][k] /\ k \in DOMAIN textRemaps[n]
        BY <1>6, <1>12, <2>3, <3>4
      <4>2. PICK x \in PlacedChunks : x.object = n /\ textRemaps[n][k] = Placement(x, D)
        BY <2>1, <2>3, <4>1
      <4>. QED BY <1>18, <2>3, <4>1, <4>2
    <3>. QED BY <3>2, <3>3, <3>4
  <2>. QED BY <2>2, <2>3
<1>23. ASSUME NEW x \in PlacedChunks \cup {c}, NEW y \in unplaced \ {c}
       PROVE  ChunkBefore(x, y)
  BY <1>1, <1>2 DEF LaidOut
<1>24. LaidOut(E)'
  <2>1. ObjectIndex' = ObjectIndex /\ \A x, y : ChunkBefore(x, y)' <=> ChunkBefore(x, y)
    BY <1>4, ObjectsKept
  <2>2. PlacedChunks' = PlacedChunks \cup {c} /\ unplaced' = unplaced \ {c} /\ inputs' = inputs
    BY <1>1, <1>4, <1>14
  <2>3. \A x : Placement(x, E)' = Placement(x, E)
    BY DEF Placement
  <2>. HIDE DEF Copied, r, n, len
  <2>4. (\A x \in PlacedChunks :
          /\ E[x] + x.len <= Len(mergedText)
          /\ \A i \in 1..x.len :
                SameCell(mergedText[E[x] + i], inputs[x.object].textBody[x.src + i])
          /\ \E k \in DOMAIN textRemaps[x.object] : textRemaps[x.object][k] = Placement(x, E))'
    BY <1>19, <2>2, <2>3 DEF Copied
  <2>5. (\A i \in 1..Len(mergedText) :
          \/ IsThunk(mergedText[i])
          \/ \E x \in PlacedChunks : E[x] < i /\ i <= E[x] + x.len)'
    BY <1>20, <2>2
  <2>. QED BY <1>16, <1>21, <1>22, <1>23, <2>1, <2>2, <2>3, <2>4, <2>5 DEF LaidOut
<1>. QED BY <1>13, <1>24

(* Patching cells and appending thunks leaves the code where it is.         *)
LEMMA TextKept ==
    ASSUME InputsAreUnits, NEW D, LaidOut(D), mergedText \in Seq(ImageCells),
           inputs' = inputs, textRemaps' = textRemaps, unplaced' = unplaced,
           mergedText' \in Seq(ImageCells), Len(mergedText') >= Len(mergedText),
           \A i \in 1..Len(mergedText) : SameCell(mergedText'[i], mergedText[i]),
           \A i \in 1..Len(mergedText') : i > Len(mergedText) => IsThunk(mergedText'[i])
    PROVE  LaidOut(D)'
<1>1. ObjectIndex' = ObjectIndex /\ PlacedChunks' = PlacedChunks
      /\ \A c, d : ChunkBefore(c, d)' <=> ChunkBefore(c, d)
  <2>1. ObjectIndex' = ObjectIndex /\ AllChunks' = AllChunks
        /\ \A c, d : ChunkBefore(c, d)' <=> ChunkBefore(c, d)
    BY ObjectsKept
  <2>. QED BY <2>1 DEF PlacedChunks
<1>2. \A c : Placement(c, D)' = Placement(c, D)
  BY DEF Placement
<1>3. Len(mergedText) \in Nat /\ Len(mergedText') \in Nat
  OBVIOUS
<1>4. \A c \in PlacedChunks : D[c] \in Nat /\ c.len \in Nat /\ D[c] + c.len <= Len(mergedText)
  BY ChunksOfLink DEF LaidOut, PlacedChunks
<1>5. ASSUME NEW c \in PlacedChunks
      PROVE  /\ D[c] + c.len <= Len(mergedText')
             /\ \A i \in 1..c.len :
                   SameCell(mergedText'[D[c] + i], inputs[c.object].textBody[c.src + i])
             /\ \E k \in DOMAIN textRemaps[c.object] : textRemaps[c.object][k] = Placement(c, D)
  <2>1. /\ \A i \in 1..c.len :
              SameCell(mergedText[D[c] + i], inputs[c.object].textBody[c.src + i])
        /\ \E k \in DOMAIN textRemaps[c.object] : textRemaps[c.object][k] = Placement(c, D)
    BY DEF LaidOut
  <2>2. \A i \in 1..c.len : D[c] + i \in 1..Len(mergedText)
    BY <1>3, <1>4
  <2>3. \A i \in 1..c.len : SameCell(mergedText'[D[c] + i], mergedText[D[c] + i])
    BY <2>2
  <2>4. D[c] + c.len <= Len(mergedText')
    BY <1>3, <1>4
  <2>. QED BY <2>1, <2>3, <2>4 DEF SameCell
<1>6. ASSUME NEW i \in 1..Len(mergedText')
      PROVE  \/ IsThunk(mergedText'[i])
             \/ \E c \in PlacedChunks : D[c] < i /\ i <= D[c] + c.len
  <2>1. CASE i > Len(mergedText)
    BY <2>1
  <2>2. CASE ~(i > Len(mergedText))
    <3>1. i \in 1..Len(mergedText)
      BY <1>3, <2>2
    <3>2. \/ IsThunk(mergedText[i])
          \/ \E c \in PlacedChunks : D[c] < i /\ i <= D[c] + c.len
      BY <3>1 DEF LaidOut
    <3>3. IsThunk(mergedText[i]) => IsThunk(mergedText'[i])
      BY <3>1 DEF SameCell, IsThunk
    <3>. QED BY <3>2, <3>3
  <2>. QED BY <2>1, <2>2
<1>7. (\A c \in PlacedChunks :
          /\ D[c] + c.len <= Len(mergedText)
          /\ \A i \in 1..c.len :
                SameCell(mergedText[D[c] + i], inputs[c.object].textBody[c.src + i])
          /\ \E k \in DOMAIN textRemaps[c.object] : textRemaps[c.object][k] = Placement(c, D))'
  BY <1>1, <1>2, <1>5
<1>8. (\A i \in 1..Len(mergedText) :
          \/ IsThunk(mergedText[i])
          \/ \E c \in PlacedChunks : D[c] < i /\ i <= D[c] + c.len)'
  BY <1>1, <1>6
<1>. QED BY <1>1, <1>2, <1>7, <1>8 DEF LaidOut

(* Patching leaves the data where it is.                                    *)
LEMMA DataKept ==
    ASSUME InputsAreUnits, DataLaidOut, PlacedObjects \in 0..Len(inputs), dataOffset \in Seq(Nat),
           inputs' = inputs, dataOffset' = dataOffset, PlacedObjects' = PlacedObjects,
           mergedData' \in Seq(ObjectCells), Len(mergedData') = Len(mergedData),
           \A i \in 1..Len(mergedData) : SameCell(mergedData'[i], mergedData[i])
    PROVE  DataLaidOut'
<1>1. \A n \in 1..PlacedObjects : /\ n \in ObjectIndex /\ dataOffset[n] \in Nat
                                  /\ Len(inputs[n].dataBody) \in Nat
  <2>1. Len(inputs) \in Nat
    BY ObjectsOfUnits
  <2>2. \A n \in 1..PlacedObjects : n \in ObjectIndex
    BY <2>1 DEF ObjectIndex
  <2>3. \A n \in ObjectIndex : inputs[n].dataBody \in Seq(ObjectCells)
    BY ObjectsOfUnits
  <2>4. Len(dataOffset) = PlacedObjects
    BY DEF DataLaidOut
  <2>. QED BY <2>2, <2>3, <2>4
<1>2. ASSUME NEW n \in 1..PlacedObjects
      PROVE  /\ dataOffset[n] + Len(inputs[n].dataBody) <= Len(mergedData)
             /\ \A i \in 1..Len(inputs[n].dataBody) :
                   SameCell(mergedData'[dataOffset[n] + i], inputs[n].dataBody[i])
  <2>1. /\ dataOffset[n] + Len(inputs[n].dataBody) <= Len(mergedData)
        /\ \A i \in 1..Len(inputs[n].dataBody) :
              SameCell(mergedData[dataOffset[n] + i], inputs[n].dataBody[i])
    BY DEF DataLaidOut
  <2>2. Len(mergedData) \in Nat
    OBVIOUS
  <2>3. \A i \in 1..Len(inputs[n].dataBody) : dataOffset[n] + i \in 1..Len(mergedData)
    <3>. DEFINE d == dataOffset[n]  L == Len(inputs[n].dataBody)  M == Len(mergedData)
    <3>1. d \in Nat /\ L \in Nat /\ M \in Nat /\ d + L <= M
      BY <1>1, <2>1, <2>2
    <3>. HIDE DEF d, L, M
    <3>2. \A i \in 1..L : d + i \in 1..M
      BY <3>1
    <3>. QED BY <3>2 DEF d, L, M
  <2>. QED BY <2>1, <2>3 DEF SameCell
<1>. QED BY <1>2 DEF DataLaidOut

(* PlaceData puts the object's data behind the data so far.                 *)
LEMMA PlaceDataLaysOut ==
    ASSUME LayoutInv, PlaceData
    PROVE  LayoutInv'
<1>1. /\ phase = "layout" /\ unplaced = {} /\ next <= Len(inputs)
      /\ dataOffset' = Append(dataOffset, Len(mergedData))
      /\ mergedData' = mergedData \o inputs[next].dataBody
      /\ bssOffset' = Append(bssOffset, mergedBssLen)
      /\ mergedBssLen' = mergedBssLen + inputs[next].blen
      /\ next' = next + 1
      /\ inputs' = inputs /\ link' = link /\ textRemaps' = textRemaps /\ unplaced' = unplaced
      /\ mergedText' = mergedText /\ phase' = phase
  BY DEF PlaceData
<1>2. InputsAreUnits /\ LayoutTypes /\ DataLaidOut /\ BssLaidOut
  BY DEF LayoutInv
<1>3. PICK D : LaidOut(D)
  BY DEF LayoutInv
<1>4. InputsAreUnits'
  BY <1>1, <1>2 DEF InputsAreUnits
<1>5. LaidOut(D)'
  <2>1. mergedText \in Seq(ImageCells)
    BY <1>2 DEF LayoutTypes
  <2>. QED BY <1>1, <1>2, <1>3, <2>1, TextKept DEF SameCell
<1>. DEFINE body == inputs[next].dataBody  K == next - 1  len == Len(mergedData)
<1>6. /\ next \in ObjectIndex /\ next \in Nat /\ K \in Nat /\ body \in Seq(ObjectCells)
      /\ inputs[next].blen \in Nat /\ Len(inputs) \in Nat /\ next = K + 1
  <2>1. next \in ObjectIndex /\ next \in Nat /\ Len(inputs) \in Nat
    BY <1>1, <1>2, ObjectsOfUnits DEF LayoutTypes, ObjectIndex
  <2>. QED BY <1>2, <2>1, ObjectsOfUnits DEF ObjectIndex
<1>7. PlacedObjects = K /\ PlacedObjects' = K + 1
  BY <1>1, <1>6 DEF PlacedObjects
<1>8. /\ dataOffset \in Seq(Nat) /\ bssOffset \in Seq(Nat) /\ mergedData \in Seq(ObjectCells)
      /\ len \in Nat /\ mergedBssLen \in Nat
  BY <1>2 DEF LayoutTypes
<1>9. Len(dataOffset) = K /\ Len(bssOffset) = K
  BY <1>2, <1>7 DEF DataLaidOut, BssLaidOut
<1>. HIDE DEF body
<1>10. /\ mergedData' \in Seq(ObjectCells) /\ Len(mergedData') = len + Len(body) /\ Len(body) \in Nat
       /\ \A i \in 1..len : mergedData'[i] = mergedData[i]
       /\ \A i \in 1..Len(body) : mergedData'[len + i] = body[i]
  <2>1. mergedData' = mergedData \o body
    BY <1>1 DEF body
  <2>. QED BY <1>6, <1>8, <2>1
<1>11. /\ dataOffset' \in Seq(Nat) /\ Len(dataOffset') = K + 1
       /\ \A n \in 1..K : dataOffset'[n] = dataOffset[n]
       /\ dataOffset'[K + 1] = len
  <2>. HIDE DEF len, K
  <2>1. dataOffset' = Append(dataOffset, len)
    BY <1>1 DEF len
  <2>. QED BY <1>8, <1>9, <2>1, AppendProperties
<1>11b. /\ bssOffset' \in Seq(Nat) /\ Len(bssOffset') = K + 1
        /\ \A n \in 1..K : bssOffset'[n] = bssOffset[n]
        /\ bssOffset'[K + 1] = mergedBssLen
  <2>. HIDE DEF K
  <2>1. bssOffset' = Append(bssOffset, mergedBssLen)
    BY <1>1
  <2>. QED BY <1>8, <1>9, <2>1, AppendProperties
<1>12. LayoutTypes'
  <2>1. ObjectIndex' = ObjectIndex /\ AllChunks' = AllChunks
    BY <1>1, ObjectsKept
  <2>2. next + 1 \in 1..(Len(inputs) + 1)
    BY <1>1, <1>6
  <2>3. mergedBssLen' \in Nat
    BY <1>1, <1>6, <1>8
  <2>. QED BY <1>1, <1>2, <1>10, <1>11, <1>11b, <2>1, <2>2, <2>3 DEF LayoutTypes
<1>13. BssLaidOut'
  <2>1. \A n \in 1..K : bssOffset[n] = BssBefore(link.units, n)
    BY <1>2, <1>7 DEF BssLaidOut
  <2>2. mergedBssLen = BssBefore(link.units, K + 1)
    BY <1>2, <1>7 DEF BssLaidOut
  <2>3. BssBefore(link.units, (K + 1) + 1) = BssBefore(link.units, K + 1) + inputs[next].blen
    BY <1>2, <1>6, BssOfUnits
  <2>4. mergedBssLen' = BssBefore(link.units, (K + 1) + 1)
    BY <1>1, <2>2, <2>3
  <2>5. ASSUME NEW n \in 1..(K + 1) PROVE bssOffset'[n] = BssBefore(link.units, n)
    <3>1. n \in 1..K \/ n = K + 1
      BY <1>6
    <3>. QED BY <1>11b, <2>1, <2>2, <3>1
  <2>. HIDE DEF K
  <2>. QED BY <1>1, <1>7, <1>11b, <2>4, <2>5 DEF BssLaidOut
<1>14. DataLaidOut'
  <2>1. /\ \A n \in 1..K :
              /\ dataOffset[n] + Len(inputs[n].dataBody) <= len
              /\ \A i \in 1..Len(inputs[n].dataBody) :
                    SameCell(mergedData[dataOffset[n] + i], inputs[n].dataBody[i])
        /\ \A i \in 1..len : \E n \in 1..K :
              dataOffset[n] < i /\ i <= dataOffset[n] + Len(inputs[n].dataBody)
        /\ \A m, n \in 1..K : m < n => dataOffset[m] + Len(inputs[m].dataBody) <= dataOffset[n]
    BY <1>2, <1>7 DEF DataLaidOut
  <2>2. \A n \in 1..K : dataOffset[n] \in Nat /\ Len(inputs[n].dataBody) \in Nat
    <3>1. \A n \in 1..K : n \in ObjectIndex
      BY <1>6 DEF ObjectIndex
    <3>2. \A n \in 1..K : inputs[n].dataBody \in Seq(ObjectCells)
      BY <1>2, <3>1, ObjectsOfUnits
    <3>. QED BY <1>8, <1>9, <3>2
  <2>3. \A n \in 1..(K + 1) : n \in 1..K \/ n = K + 1
    BY <1>6
  <2>4. inputs[K + 1].dataBody = body
    BY <1>6 DEF body
  <2>5. ASSUME NEW n \in 1..(K + 1)
        PROVE  /\ dataOffset'[n] + Len(inputs[n].dataBody) <= len + Len(body)
               /\ \A i \in 1..Len(inputs[n].dataBody) :
                     SameCell(mergedData'[dataOffset'[n] + i], inputs[n].dataBody[i])
    <3>1. CASE n \in 1..K
      <4>0. /\ dataOffset[n] \in Nat /\ Len(inputs[n].dataBody) \in Nat
            /\ len \in Nat /\ Len(body) \in Nat
            /\ dataOffset[n] + Len(inputs[n].dataBody) <= len
        BY <1>8, <1>10, <2>1, <2>2, <3>1
      <4>1. \A i \in 1..Len(inputs[n].dataBody) : dataOffset[n] + i \in 1..len
        BY <4>0
      <4>2. dataOffset[n] + Len(inputs[n].dataBody) <= len + Len(body)
        BY <4>0
      <4>3. dataOffset'[n] = dataOffset[n]
        BY <1>11, <3>1
      <4>4. \A i \in 1..Len(inputs[n].dataBody) :
               mergedData'[dataOffset[n] + i] = mergedData[dataOffset[n] + i]
        BY <1>10, <4>1
      <4>5. \A i \in 1..Len(inputs[n].dataBody) :
               SameCell(mergedData[dataOffset[n] + i], inputs[n].dataBody[i])
        BY <2>1, <3>1
      <4>. QED BY <4>2, <4>3, <4>4, <4>5
    <3>2. CASE n = K + 1
      <4>1. dataOffset'[n] = len /\ inputs[n].dataBody = body
        BY <1>11, <2>4, <3>2
      <4>2. len + Len(body) <= len + Len(body)
        BY <1>8, <1>10
      <4>. HIDE DEF len
      <4>. QED BY <1>10, <4>1, <4>2 DEF SameCell
    <3>. QED BY <2>3, <3>1, <3>2
  <2>6. ASSUME NEW i \in 1..(len + Len(body))
        PROVE  \E n \in 1..(K + 1) :
                  dataOffset'[n] < i /\ i <= dataOffset'[n] + Len(inputs[n].dataBody)
    <3>1. CASE i \in 1..len
      <4>1. PICK n \in 1..K : dataOffset[n] < i /\ i <= dataOffset[n] + Len(inputs[n].dataBody)
        BY <2>1, <3>1
      <4>2. n \in 1..(K + 1)
        BY <1>6
      <4>. HIDE DEF K
      <4>. QED BY <1>11, <4>1, <4>2
    <3>2. CASE i \notin 1..len
      <4>1. len < i /\ K + 1 \in 1..(K + 1)
        BY <1>6, <1>8, <1>10, <3>2
      <4>. HIDE DEF K
      <4>. QED BY <1>11, <2>4, <4>1
    <3>. QED BY <3>1, <3>2
  <2>7. ASSUME NEW m \in 1..(K + 1), NEW n \in 1..(K + 1), m < n
        PROVE  dataOffset'[m] + Len(inputs[m].dataBody) <= dataOffset'[n]
    <3>1. m \in 1..K
      BY <1>6, <2>7
    <3>. HIDE DEF K
    <3>. QED BY <1>11, <2>1, <2>3, <2>7, <3>1
  <2>. HIDE DEF K, len
  <2>. QED BY <1>1, <1>7, <1>10, <1>11, <2>5, <2>6, <2>7 DEF DataLaidOut
<1>. QED BY <1>4, <1>5, <1>12, <1>13, <1>14 DEF LayoutInv

-----------------------------------------------------------------------------
\* Labels and exports.

(* What a label of a unit says.                                             *)
LEMMA LabelFacts ==
    ASSUME NEW u, IsUnit(u), NEW l \in u.labels
    PROVE  /\ IsDefined(u, l.name) /\ LabelOf(u, l.name) = l /\ l.name # NoLabel
           /\ l.name \in STRING /\ l.seg \in {"text", "data", "bss"}
           /\ l.global \in BOOLEAN /\ l.weak \in BOOLEAN /\ l.conv \in Conventions
           /\ l.off \in Nat /\ l.sub \in Nat
           /\ l.seg = "text" => l.sub \in 1..Len(u.text) /\ l.off < Len(u.text[l.sub].body)
           /\ l.seg = "data" => l.off < Len(u.data)
           /\ l.seg = "bss"  => l.off < u.bss
           /\ ExportOffset(u, l) \in Nat
           /\ l.seg = "text" => /\ ExportOffset(u, l) < Len(TextOf(u))
                                /\ ExportOffset(u, l) = SubOffset(u, l.sub) + l.off
           /\ l.seg # "text" => ExportOffset(u, l) = l.off
<1>1. l \in Labels
  BY DEF IsUnit
<1>2. /\ l.name \in STRING /\ l.seg \in {"text", "data", "bss"}
      /\ l.global \in BOOLEAN /\ l.weak \in BOOLEAN /\ l.conv \in Conventions
      /\ l.off \in Nat /\ l.sub \in Nat
  BY <1>1 DEF Labels
<1>3. /\ l.name # NoLabel
      /\ l.seg = "text" => l.sub \in 1..Len(u.text) /\ l.off < Len(u.text[l.sub].body)
      /\ l.seg = "data" => l.off < Len(u.data)
      /\ l.seg = "bss"  => l.off < u.bss
  BY DEF IsUnit
<1>4. IsDefined(u, l.name) /\ LabelOf(u, l.name) = l
  <2>1. \A x, y \in u.labels : x.name = y.name => x = y
    BY DEF IsUnit
  <2>. QED BY <2>1 DEF IsDefined, LabelOf
<1>5. CASE l.seg = "text"
  <2>1. ExportOffset(u, l) = SubOffset(u, l.sub) + l.off
    BY <1>5 DEF ExportOffset
  <2>2. /\ SubOffset(u, l.sub) \in Nat /\ Len(u.text[l.sub].body) \in Nat
        /\ SubOffset(u, l.sub) + Len(u.text[l.sub].body) <= Len(TextOf(u))
    BY <1>3, <1>5, SubSegmentInText
  <2>3. Len(TextOf(u)) \in Nat
    BY SubOffsets
  <2>4. ExportOffset(u, l) \in Nat /\ ExportOffset(u, l) < Len(TextOf(u))
    <3>1. l.off \in Nat /\ l.off < Len(u.text[l.sub].body)
      BY <1>2, <1>3, <1>5
    <3>. QED BY <2>1, <2>2, <2>3, <3>1
  <2>. QED BY <1>2, <1>3, <1>4, <1>5, <2>1, <2>4
<1>6. CASE l.seg # "text"
  <2>1. ExportOffset(u, l) = l.off
    BY <1>6 DEF ExportOffset
  <2>. QED BY <1>2, <1>3, <1>4, <1>6, <2>1
<1>. QED BY <1>5, <1>6

(* The label of a name has that name.                                       *)
LEMMA LabelOfName ==
    ASSUME NEW u, IsUnit(u), NEW name, IsDefined(u, name)
    PROVE  LabelOf(u, name) \in u.labels /\ LabelOf(u, name).name = name
BY DEF IsDefined, LabelOf

(* An export is a global label of the unit.                                 *)
LEMMA ExportFacts ==
    ASSUME NEW u, IsUnit(u), NEW n, NEW e \in EmitO45(u, n).exports
    PROVE  LET l == LabelOf(u, e.name) IN
           /\ IsDefined(u, e.name) /\ l \in u.labels /\ l.name = e.name /\ l.global
           /\ e = [name |-> l.name, seg |-> l.seg, weak |-> l.weak, conv |-> l.conv,
                   offset |-> ExportOffset(u, l)]
           /\ e.seg = l.seg /\ e.weak = l.weak /\ e.conv = l.conv
           /\ e.offset = ExportOffset(u, l)
<1>1. PICK l \in u.labels : l.global /\
          e = [name |-> l.name, seg |-> l.seg, weak |-> l.weak, conv |-> l.conv,
               offset |-> ExportOffset(u, l)]
  BY DEF EmitO45
<1>2. e.name = l.name
  BY <1>1
<1>3. LabelOf(u, e.name) = l /\ IsDefined(u, e.name)
  BY <1>2, LabelFacts
<1>. QED BY <1>1, <1>2, <1>3

(* An object exports a name once.                                           *)
LEMMA ExportUnique ==
    ASSUME NEW u, IsUnit(u), NEW n, NEW e \in EmitO45(u, n).exports,
           NEW f \in EmitO45(u, n).exports, e.name = f.name
    PROVE  e = f
<1>. DEFINE l == LabelOf(u, e.name)
<1>1. e = [name |-> l.name, seg |-> l.seg, weak |-> l.weak, conv |-> l.conv,
           offset |-> ExportOffset(u, l)]
  BY ExportFacts
<1>2. f = [name |-> l.name, seg |-> l.seg, weak |-> l.weak, conv |-> l.conv,
           offset |-> ExportOffset(u, l)]
  BY ExportFacts
<1>. QED BY <1>1, <1>2

(* Every global label is exported.                                          *)
LEMMA ExportExists ==
    ASSUME NEW u, IsUnit(u), NEW n, NEW l \in u.labels, l.global
    PROVE  \E e \in EmitO45(u, n).exports : e.name = l.name
<1>. DEFINE e == [name |-> l.name, seg |-> l.seg, weak |-> l.weak, conv |-> l.conv,
                  offset |-> ExportOffset(u, l)]
<1>1. e \in EmitO45(u, n).exports
  BY DEF EmitO45
<1>2. e.name = l.name
  OBVIOUS
<1>. QED BY <1>1, <1>2

-----------------------------------------------------------------------------
\* The inductive invariant: bases and symbols.

BasesRight ==
    /\ phase = "layout" => dataBase = link.dataBase /\ bssBase = link.bssBase
    /\ phase # "layout" =>
          /\ dataBase \in Nat /\ bssBase \in Nat
          /\ link.bssBase = Unset => bssBase = dataBase + Len(mergedData)
          /\ link.dataBase = Unset /\ (phase \in {"resolve", "analyse"} \/ link.thunkMode = "error")
                => dataBase = TextBase + Len(mergedText)

\* Those of the first k objects that export s.
Exporters(s, k) == {n \in 1..k : \E e \in inputs[n].exports : e.name = s}
ExportedBy(k) == UNION {{e.name : e \in inputs[n].exports} : n \in 1..k}
ExportOf(n, s) == CHOOSE e \in inputs[n].exports : e.name = s

\* How many objects have been resolved.
ResolvedObjects == IF phase = "layout" THEN 0 ELSE next - 1

BoundariesKnown ==
    phase \in {"analyse", "relocate", "done"} \/ (phase = "error" /\ next > Len(inputs))

\* s has its strong definition, or the first if there are only weak ones, and its address.
SymbolRight(s) ==
    LET g == globalSymbols[s] IN
    /\ g.source \in Exporters(s, ResolvedObjects)
    /\ g = [addr |-> ExportAddress(g.source, ExportOf(g.source, s)),
            weak |-> ExportOf(g.source, s).weak, source |-> g.source]
    /\ \A m \in Exporters(s, ResolvedObjects) :
          IF g.weak THEN g.source <= m /\ ExportOf(m, s).weak
          ELSE m # g.source => ExportOf(m, s).weak

SymbolsRight ==
    /\ BoundariesKnown => ResolvedObjects = Len(inputs)
    /\ DOMAIN globalSymbols = ExportedBy(ResolvedObjects)
                              \cup (IF BoundariesKnown THEN DOMAIN Boundaries ELSE {})
    /\ \A s \in ExportedBy(ResolvedObjects) : SymbolRight(s)
    /\ BoundariesKnown =>
          \A s \in DOMAIN Boundaries \ ExportedBy(ResolvedObjects) :
              globalSymbols[s] = [addr |-> Boundaries[s], weak |-> FALSE, source |-> 0]

\* After the check every import has a definition.
ImportsResolved ==
    phase \in {"analyse", "relocate", "done"} =>
        \A n \in ObjectIndex : inputs[n].imports \subseteq DOMAIN globalSymbols

(* What an export of an object in the link says.                            *)
LEMMA ExportOfName ==
    ASSUME InputsAreUnits, NEW n \in ObjectIndex, NEW e \in inputs[n].exports
    PROVE  /\ ExportOf(n, e.name) = e
           /\ e.offset \in Nat /\ e.seg \in {"text", "data", "bss"} /\ e.weak \in BOOLEAN
           /\ e.conv \in Conventions /\ e.name # NoLabel /\ e.name \in STRING
           /\ e.seg = "text" => e.offset < Len(inputs[n].textBody)
           /\ e.seg = "data" => e.offset < Len(inputs[n].dataBody)
           /\ e.seg = "bss" => e.offset < inputs[n].blen
<1>. DEFINE u == link.units[n]
<1>1. IsUnit(u) /\ inputs[n] = EmitO45(u, n) /\ n \in Nat \ {0}
  BY ObjectsOfUnits
<1>. HIDE DEF u
<1>2. \A f \in inputs[n].exports : f.name = e.name => f = e
  BY <1>1, ExportUnique
<1>3. ExportOf(n, e.name) = e
  BY <1>2 DEF ExportOf
<1>. DEFINE l == LabelOf(u, e.name)
<1>4. l \in u.labels /\ l.name = e.name /\ e.seg = l.seg /\ e.weak = l.weak /\ e.conv = l.conv
      /\ e.offset = ExportOffset(u, l)
  BY <1>1, ExportFacts
<1>. HIDE DEF l
<1>5. Len(inputs[n].textBody) = Len(TextOf(u)) /\ Len(inputs[n].dataBody) = Len(u.data)
      /\ inputs[n].blen = u.bss
  BY <1>1, ObjectBodies
<1>6. /\ l.name # NoLabel /\ l.name \in STRING /\ l.seg \in {"text", "data", "bss"}
      /\ l.weak \in BOOLEAN /\ l.conv \in Conventions
      /\ l.seg = "data" => l.off < Len(u.data)
      /\ l.seg = "bss"  => l.off < u.bss
      /\ ExportOffset(u, l) \in Nat
      /\ l.seg = "text" => ExportOffset(u, l) < Len(TextOf(u))
      /\ l.seg # "text" => ExportOffset(u, l) = l.off
  BY <1>1, <1>4, LabelFacts
<1>. QED BY <1>3, <1>4, <1>5, <1>6

(* What Min chooses from a set of naturals.                                 *)
LEMMA MinOfNaturals ==
    ASSUME NEW S \in SUBSET Nat, S # {}
    PROVE  Min(S) \in S /\ \A x \in S : Min(S) <= x
<1>1. \E m \in S : \A i \in S : m <= i
  BY LeastNumber
<1>. QED BY <1>1 DEF Min

(* Once everything is placed, every object has its places.                  *)
LEMMA AllPlaced ==
    ASSUME LayoutInv, phase # "layout"
    PROVE  /\ unplaced = {} /\ PlacedChunks = AllChunks /\ PlacedObjects = Len(inputs)
           /\ InputsAreUnits /\ LayoutTypes
           /\ \A n \in ObjectIndex :
                 /\ textRemaps[n] \in Seq([src : Nat, len : Nat, dest : Nat])
                 /\ dataOffset[n] \in Nat /\ bssOffset[n] \in Nat
                 /\ bssOffset[n] = BssBefore(link.units, n)
<1>1. InputsAreUnits /\ LayoutTypes /\ unplaced = {} /\ PlacedObjects = Len(inputs)
  BY DEF LayoutInv, LayoutTypes, PlacedObjects
<1>2. Len(dataOffset) = Len(inputs) /\ Len(bssOffset) = Len(inputs)
      /\ \A n \in 1..Len(inputs) : bssOffset[n] = BssBefore(link.units, n)
  BY <1>1 DEF LayoutInv, DataLaidOut, BssLaidOut
<1>3. dataOffset \in Seq(Nat) /\ bssOffset \in Seq(Nat)
      /\ textRemaps \in [ObjectIndex -> Seq([src : Nat, len : Nat, dest : Nat])]
  BY <1>1 DEF LayoutTypes
<1>. QED BY <1>1, <1>2, <1>3 DEF ObjectIndex, PlacedChunks

(* remapTextOffset finds where the byte at an offset of an object went.     *)
LEMMA RemapRight ==
    ASSUME LayoutInv, phase # "layout", NEW D, LaidOut(D),
           NEW n \in ObjectIndex, NEW off \in Nat, off < Len(inputs[n].textBody)
    PROVE  \E c \in AllChunks : /\ c.object = n /\ c.src <= off /\ off < c.src + c.len
                                /\ RemapTextOffset(n, off) = D[c] + (off - c.src)
<1>1. InputsAreUnits /\ PlacedChunks = AllChunks
      /\ textRemaps[n] \in Seq([src : Nat, len : Nat, dest : Nat])
  BY AllPlaced
<1>2. PICK c \in AllChunks : c.object = n /\ c.src <= off /\ off < c.src + c.len
  BY <1>1, ChunksDivideObject
<1>. DEFINE R == textRemaps[n]
            Covers(r) == off >= r.src /\ off < r.src + r.len
            hits == {k \in DOMAIN R : Covers(R[k])}
<1>3. PICK k \in DOMAIN R : R[k] = Placement(c, D)
  BY <1>1, <1>2 DEF LaidOut
<1>4. k \in hits
  BY <1>2, <1>3 DEF Placement
<1>5. hits \in SUBSET Nat
  <2>1. hits \in SUBSET DOMAIN R /\ R \in Seq([src : Nat, len : Nat, dest : Nat])
    BY <1>1
  <2>. HIDE DEF hits, R
  <2>2. Len(R) \in Nat /\ DOMAIN R = 1..Len(R)
    BY <2>1
  <2>. QED BY <2>1, <2>2
<1>6. Min(hits) \in hits
  <2>. HIDE DEF hits
  <2>. QED BY <1>4, <1>5, MinOfNaturals
<1>7. PICK d \in AllChunks : d.object = n /\ R[Min(hits)] = Placement(d, D)
  <2>1. Min(hits) \in DOMAIN R
    BY <1>6
  <2>. HIDE DEF hits
  <2>. QED BY <1>1, <2>1 DEF LaidOut
<1>8. d.src <= off /\ off < d.src + d.len
  <2>1. Covers(R[Min(hits)])
    BY <1>6
  <2>2. d.src \in Nat
    BY <1>1, ChunksOfLink
  <2>. HIDE DEF hits
  <2>. QED BY <1>7, <2>1, <2>2 DEF Placement
<1>9. d = c
  BY <1>1, <1>2, <1>7, <1>8, ChunksDivideObject
<1>10. RemapTextOffset(n, off) = R[Min(hits)].dest + (off - R[Min(hits)].src)
  <2>1. RemapTextOffset(n, off) = IF hits = {} THEN TextOffset(n) + off
                                  ELSE R[Min(hits)].dest + (off - R[Min(hits)].src)
    BY DEF RemapTextOffset
  <2>. HIDE DEF hits
  <2>. QED BY <1>4, <2>1
<1>. HIDE DEF hits, R
<1>. QED BY <1>2, <1>7, <1>9, <1>10 DEF Placement

(* Chunks and offsets are remapped to positions.                            *)
LEMMA RemapType ==
    ASSUME LayoutInv, phase # "layout", NEW n \in ObjectIndex, NEW off \in Nat
    PROVE  TextOffset(n) \in Nat /\ RemapTextOffset(n, off) \in Nat
<1>. DEFINE R == textRemaps[n]
            Covers(r) == off >= r.src /\ off < r.src + r.len
            hits == {k \in DOMAIN R : Covers(R[k])}
<1>1. R \in Seq([src : Nat, len : Nat, dest : Nat])
  BY AllPlaced
<1>2. TextOffset(n) = IF R = <<>> THEN 0 ELSE R[1].dest
  BY DEF TextOffset
<1>3. \A k \in DOMAIN R : R[k].src \in Nat /\ R[k].len \in Nat /\ R[k].dest \in Nat
  <2>. DEFINE T == [src : Nat, len : Nat, dest : Nat]
  <2>1. \A k \in DOMAIN R : R[k] \in T
    <3>1. R \in Seq(T)
      BY <1>1
    <3>. HIDE DEF R, T
    <3>. QED BY <3>1
  <2>. QED BY <2>1
<1>4. TextOffset(n) \in Nat
  <2>1. R # <<>> => 1 \in DOMAIN R
    BY <1>1
  <2>. QED BY <1>2, <1>3, <2>1
<1>5. RemapTextOffset(n, off) = IF hits = {} THEN TextOffset(n) + off
                                ELSE R[Min(hits)].dest + (off - R[Min(hits)].src)
  BY DEF RemapTextOffset
<1>6. ASSUME hits # {} PROVE Min(hits) \in DOMAIN R /\ off >= R[Min(hits)].src
  <2>1. hits \in SUBSET Nat
    BY <1>1
  <2>2. Min(hits) \in hits
    <3>. HIDE DEF hits
    <3>. QED BY <1>6, <2>1, MinOfNaturals
  <2>. QED BY <2>2
<1>. HIDE DEF hits, R
<1>. QED BY <1>3, <1>4, <1>5, <1>6

(* Symbols have addresses.                                                  *)
LEMMA ExportAddressType ==
    ASSUME LayoutInv, BasesRight, phase # "layout", NEW n \in ObjectIndex,
           NEW e \in inputs[n].exports
    PROVE  ExportAddress(n, e) \in Nat
<1>1. InputsAreUnits /\ dataOffset[n] \in Nat /\ bssOffset[n] \in Nat
  BY AllPlaced
<1>2. e.offset \in Nat /\ e.seg \in {"text", "data", "bss"}
  BY <1>1, ExportOfName
<1>3. RemapTextOffset(n, e.offset) \in Nat /\ TextBase \in Nat /\ dataBase \in Nat /\ bssBase \in Nat
  BY <1>2, RemapType, BaseAssumption DEF BasesRight
<1>4. CASE e.seg = "text"
  BY <1>3, <1>4 DEF ExportAddress
<1>5. CASE e.seg = "data"
  BY <1>1, <1>2, <1>3, <1>5 DEF ExportAddress, SegmentStart
<1>6. CASE e.seg = "bss"
  BY <1>1, <1>2, <1>3, <1>6 DEF ExportAddress, SegmentStart
<1>. QED BY <1>2, <1>4, <1>5, <1>6

(* Layout is complete and stays.                                            *)
LEMMA LayoutStays ==
    ASSUME LayoutInv, unplaced = {},
           UNCHANGED <<link, inputs, textRemaps, dataOffset, bssOffset, unplaced,
                       mergedText, mergedData, mergedBssLen>>,
           PlacedObjects' = PlacedObjects, next' \in 1..(Len(inputs) + 1),
           phase' \in {"layout", "resolve", "analyse", "relocate", "done", "error"}
    PROVE  LayoutInv'
<1>1. InputsAreUnits /\ LayoutTypes /\ DataLaidOut /\ BssLaidOut
  BY DEF LayoutInv
<1>2. PICK D : LaidOut(D)
  BY DEF LayoutInv
<1>3. mergedText \in Seq(ImageCells)
  BY <1>1 DEF LayoutTypes
<1>4. LaidOut(D)'
  BY <1>1, <1>2, <1>3, TextKept DEF SameCell
<1>5. ObjectIndex' = ObjectIndex /\ AllChunks' = AllChunks
  BY ObjectsKept
<1>6. InputsAreUnits' /\ LayoutTypes'
  BY <1>1, <1>5 DEF InputsAreUnits, LayoutTypes
<1>7. DataLaidOut' /\ BssLaidOut'
  BY <1>1 DEF DataLaidOut, BssLaidOut
<1>. QED BY <1>4, <1>6, <1>7 DEF LayoutInv

(* What the objects export depends on the objects alone.                    *)
LEMMA ExportersKept ==
    ASSUME inputs' = inputs
    PROVE  /\ \A k : ExportedBy(k)' = ExportedBy(k)
           /\ \A s, k : Exporters(s, k)' = Exporters(s, k)
           /\ \A n, s : ExportOf(n, s)' = ExportOf(n, s)
BY DEF ExportedBy, Exporters, ExportOf

(* Addresses of definitions depend on the layout alone.                     *)
LEMMA AddressesKept ==
    ASSUME UNCHANGED <<textRemaps, dataOffset, bssOffset, dataBase, bssBase>>
    PROVE  /\ \A n, off : RemapTextOffset(n, off)' = RemapTextOffset(n, off)
           /\ \A n, seg : SegmentStart(n, seg)' = SegmentStart(n, seg)
           /\ \A n, e : ExportAddress(n, e)' = ExportAddress(n, e)
<1>1. \A n : TextOffset(n)' = TextOffset(n)
  BY DEF TextOffset
<1>2. \A n, off : RemapTextOffset(n, off)' = RemapTextOffset(n, off)
  BY <1>1 DEF RemapTextOffset
<1>3. \A n, seg : SegmentStart(n, seg)' = SegmentStart(n, seg)
  BY <1>1 DEF SegmentStart
<1>. QED BY <1>2, <1>3 DEF ExportAddress

(* Symbols stay right while nothing moves.                                  *)
LEMMA SymbolsStay ==
    ASSUME SymbolsRight,
           UNCHANGED <<inputs, textRemaps, dataOffset, bssOffset, dataBase, bssBase,
                       mergedBssLen, globalSymbols>>,
           ResolvedObjects' = ResolvedObjects, BoundariesKnown' <=> BoundariesKnown
    PROVE  SymbolsRight'
<1>1. /\ \A k : ExportedBy(k)' = ExportedBy(k)
      /\ \A s, k : Exporters(s, k)' = Exporters(s, k)
      /\ \A n, s : ExportOf(n, s)' = ExportOf(n, s)
  BY ExportersKept
<1>2. \A n, e : ExportAddress(n, e)' = ExportAddress(n, e)
  BY AddressesKept
<1>3. Boundaries' = Boundaries
  BY DEF Boundaries
<1>4. ASSUME NEW s \in ExportedBy(ResolvedObjects) PROVE SymbolRight(s)'
  <2>1. SymbolRight(s)
    BY DEF SymbolsRight
  <2>. QED BY <1>1, <1>2, <2>1 DEF SymbolRight
<1>5. (\A s \in ExportedBy(ResolvedObjects) : SymbolRight(s))'
  BY <1>1, <1>4
<1>. QED BY <1>1, <1>3, <1>5 DEF SymbolsRight

(* Before the first object nothing is exported.                             *)
LEMMA NothingExported ==
    /\ ExportedBy(0) = {}
    /\ \A s : Exporters(s, 0) = {}
BY DEF ExportedBy, Exporters

(* No symbols at first.                                                     *)
LEMMA SymbolsInit ==
    ASSUME LinkInit
    PROVE  BasesRight /\ SymbolsRight /\ ImportsResolved
<1>1. phase = "layout" /\ globalSymbols = Empty /\ dataBase = link.dataBase
      /\ bssBase = link.bssBase
  BY DEF LinkInit
<1>2. ResolvedObjects = 0 /\ ~BoundariesKnown
  BY <1>1 DEF ResolvedObjects, BoundariesKnown
<1>3. DOMAIN Empty = {}
  BY DEF Empty
<1>4. SymbolsRight
  BY <1>1, <1>2, <1>3, NothingExported DEF SymbolsRight
<1>. QED BY <1>1, <1>4 DEF BasesRight, ImportsResolved

(* Laying out resolves nothing.                                             *)
LEMMA LayoutSymbols ==
    ASSUME BasesRight, SymbolsRight, PlaceChunk \/ PlaceData
    PROVE  BasesRight' /\ SymbolsRight' /\ ImportsResolved'
<1>1. /\ phase = "layout" /\ phase' = "layout" /\ link' = link /\ dataBase' = dataBase
      /\ bssBase' = bssBase /\ globalSymbols' = globalSymbols /\ inputs' = inputs
  BY DEF PlaceChunk, PlaceData
<1>2. ResolvedObjects = 0 /\ ResolvedObjects' = 0 /\ ~BoundariesKnown /\ ~BoundariesKnown'
  BY <1>1 DEF ResolvedObjects, BoundariesKnown
<1>3. ExportedBy(0)' = {}
  BY NothingExported, ExportersKept, <1>1
<1>4. DOMAIN globalSymbols = {}
  BY <1>2, NothingExported DEF SymbolsRight
<1>5. SymbolsRight'
  BY <1>1, <1>2, <1>3, <1>4 DEF SymbolsRight
<1>. QED BY <1>1, <1>5 DEF BasesRight, ImportsResolved

(* SetBases ends the layout.                                                *)
LEMMA SetBasesStep ==
    ASSUME LayoutInv, BasesRight, SymbolsRight, SetBases
    PROVE  LayoutInv' /\ BasesRight' /\ SymbolsRight' /\ ImportsResolved'
<1>1. /\ phase = "layout" /\ unplaced = {} /\ next > Len(inputs)
      /\ dataBase' = IF dataBase = Unset THEN TextBase + Len(mergedText) ELSE dataBase
      /\ bssBase' = BssBaseOf(bssBase, dataBase', mergedData)
      /\ next' = 1 /\ phase' = "resolve"
      /\ UNCHANGED <<link, inputs, textRemaps, dataOffset, bssOffset, unplaced, mergedText,
                     mergedData, mergedBssLen, globalSymbols>>
  BY DEF SetBases
<1>2. LayoutTypes /\ InputsAreUnits
  BY DEF LayoutInv
<1>3. Len(inputs) \in Nat /\ next = Len(inputs) + 1
  <2>1. Len(inputs) \in Nat
    BY <1>2, ObjectsOfUnits
  <2>2. next \in 1..(Len(inputs) + 1)
    BY <1>2 DEF LayoutTypes
  <2>. QED BY <1>1, <2>1, <2>2
<1>4. PlacedObjects' = PlacedObjects
  BY <1>1, <1>3 DEF PlacedObjects
<1>5. LayoutInv'
  BY <1>1, <1>3, <1>4, LayoutStays
<1>6. BasesRight'
  <2>1. /\ link.dataBase \in Nat \cup {Unset} /\ link.bssBase \in Nat \cup {Unset}
        /\ Unset \notin Nat /\ TextBase \in Nat
    BY <1>2, LinksAssumption, BaseAssumption DEF InputsAreUnits
  <2>2. dataBase = link.dataBase /\ bssBase = link.bssBase
    BY <1>1 DEF BasesRight
  <2>3. Len(mergedText) \in Nat /\ Len(mergedData) \in Nat
    BY <1>2 DEF LayoutTypes
  <2>4. dataBase' \in Nat /\ (link.dataBase = Unset => dataBase' = TextBase + Len(mergedText))
    BY <1>1, <2>1, <2>2, <2>3
  <2>5. bssBase' \in Nat /\ (link.bssBase = Unset => bssBase' = dataBase' + Len(mergedData))
    BY <1>1, <2>1, <2>2, <2>3, <2>4 DEF BssBaseOf
  <2>. QED BY <1>1, <2>4, <2>5 DEF BasesRight
<1>7. ResolvedObjects = 0 /\ ResolvedObjects' = 0 /\ ~BoundariesKnown /\ ~BoundariesKnown'
  BY <1>1 DEF ResolvedObjects, BoundariesKnown
<1>8. ExportedBy(0)' = {} /\ DOMAIN globalSymbols = {}
  BY <1>1, <1>7, NothingExported, ExportersKept DEF SymbolsRight
<1>9. SymbolsRight'
  BY <1>1, <1>7, <1>8 DEF SymbolsRight
<1>. QED BY <1>1, <1>5, <1>6, <1>9 DEF ImportsResolved

(* The objects that export s, and the names exported, with one object more.   *)
LEMMA OneMoreExporter ==
    ASSUME NEW k \in Nat
    PROVE  /\ ExportedBy(k + 1) = ExportedBy(k) \cup {e.name : e \in inputs[k + 1].exports}
           /\ \A s : Exporters(s, k + 1) = Exporters(s, k) \cup
                        {n \in {k + 1} : \E e \in inputs[n].exports : e.name = s}
           /\ \A s : s \in ExportedBy(k) <=> Exporters(s, k) # {}
<1>1. \A n : n \in 1..(k + 1) <=> n \in 1..k \/ n = k + 1
  OBVIOUS
<1>. QED BY <1>1 DEF ExportedBy, Exporters

(* ResolveObject takes over what the next object defines.                   *)
LEMMA ResolveObjectStep ==
    ASSUME LayoutInv, BasesRight, SymbolsRight, ResolveObject
    PROVE  LayoutInv' /\ BasesRight' /\ SymbolsRight' /\ ImportsResolved'
<1>. DEFINE table == inputs[next].exports
            taken == {e \in table : TakesPlace(e)}
            Of(name) == CHOOSE e \in taken : e.name = name
            names == {e.name : e \in taken}
            k == next - 1
<1>1. /\ phase = "resolve" /\ next <= Len(inputs)
      /\ UNCHANGED <<link, inputs, textRemaps, dataOffset, bssOffset, unplaced, mergedText,
                     mergedData, mergedBssLen, dataBase, bssBase>>
      /\ \/ /\ \E e \in table : Clashes(e)
            /\ phase' = "error" /\ UNCHANGED <<globalSymbols, next>>
         \/ /\ ~ \E e \in table : Clashes(e)
            /\ globalSymbols' = [s \in DOMAIN globalSymbols \cup names |->
                      IF s \in names
                      THEN [addr |-> ExportAddress(next, Of(s)), weak |-> Of(s).weak,
                            source |-> next]
                      ELSE globalSymbols[s]]
            /\ next' = next + 1
            /\ phase' = "resolve"
  BY DEF ResolveObject
<1>2. InputsAreUnits /\ LayoutTypes /\ unplaced = {} /\ Len(inputs) \in Nat /\ next \in Nat
      /\ next \in ObjectIndex /\ k \in Nat /\ k + 1 = next /\ next \in 1..(Len(inputs) + 1)
  <2>1. InputsAreUnits /\ LayoutTypes /\ unplaced = {}
    BY <1>1, AllPlaced
  <2>2. Len(inputs) \in Nat /\ next \in 1..(Len(inputs) + 1)
    BY <2>1, ObjectsOfUnits DEF LayoutTypes
  <2>. QED BY <1>1, <2>1, <2>2 DEF ObjectIndex
<1>3. LayoutInv' /\ BasesRight'
  <2>1. PlacedObjects' = PlacedObjects /\ next' \in 1..(Len(inputs) + 1)
        /\ phase' \in {"layout", "resolve", "analyse", "relocate", "done", "error"}
    BY <1>1, <1>2 DEF PlacedObjects
  <2>2. LayoutInv'
    BY <1>1, <1>2, <2>1, LayoutStays
  <2>. QED BY <1>1, <2>2 DEF BasesRight
<1>4. ImportsResolved'
  BY <1>1 DEF ImportsResolved
<1>5. ResolvedObjects = k /\ ~BoundariesKnown
  BY <1>1 DEF ResolvedObjects, BoundariesKnown
<1>6. CASE phase' = "error" /\ UNCHANGED <<globalSymbols, next>>
  <2>1. ResolvedObjects' = ResolvedObjects /\ ~BoundariesKnown'
    BY <1>1, <1>2, <1>6 DEF ResolvedObjects, BoundariesKnown
  <2>2. SymbolsRight'
    BY <1>1, <1>5, <1>6, <2>1, SymbolsStay
  <2>. QED BY <1>3, <1>4, <2>2
<1>7. CASE /\ ~ \E e \in table : Clashes(e)
           /\ globalSymbols' = [s \in DOMAIN globalSymbols \cup names |->
                      IF s \in names
                      THEN [addr |-> ExportAddress(next, Of(s)), weak |-> Of(s).weak,
                            source |-> next]
                      ELSE globalSymbols[s]]
           /\ next' = next + 1
           /\ phase' = "resolve"
  <2>1. ResolvedObjects' = k + 1 /\ ~BoundariesKnown'
    BY <1>2, <1>7 DEF ResolvedObjects, BoundariesKnown
  <2>2. DOMAIN globalSymbols = ExportedBy(k) /\ \A s \in ExportedBy(k) : SymbolRight(s)
    BY <1>5 DEF SymbolsRight
  <2>3. /\ ExportedBy(k + 1) = ExportedBy(k) \cup {e.name : e \in table}
        /\ \A s : Exporters(s, k + 1) = Exporters(s, k) \cup
                     {n \in {k + 1} : \E e \in inputs[n].exports : e.name = s}
        /\ \A s : s \in ExportedBy(k) <=> Exporters(s, k) # {}
    BY <1>2, OneMoreExporter
  <2>4. ASSUME NEW e \in table
        PROVE  /\ ExportOf(next, e.name) = e /\ e.weak \in BOOLEAN
               /\ e \in taken \/ (e.name \in ExportedBy(k) /\ e.weak)
    <3>1. ExportOf(next, e.name) = e /\ e.weak \in BOOLEAN
      BY <1>2, ExportOfName
    <3>2. ~Clashes(e)
      BY <1>7
    <3>3. CASE e \notin taken
      <4>1. ~TakesPlace(e)
        BY <3>3
      <4>. QED BY <2>2, <3>1, <3>2, <4>1 DEF TakesPlace, Clashes, Known
    <3>. QED BY <3>1, <3>3
  <2>5. DOMAIN globalSymbols' = ExportedBy(k + 1)
    <3>1. DOMAIN globalSymbols' = ExportedBy(k) \cup names
      BY <1>7, <2>2
    <3>2. names \subseteq {e.name : e \in table}
      OBVIOUS
    <3>3. \A e \in table : e.name \in ExportedBy(k) \cup names
      BY <2>4
    <3>. HIDE DEF names
    <3>. QED BY <2>3, <3>1, <3>2, <3>3
  <2>6. \A e \in taken : /\ e \in table /\ TakesPlace(e)
    OBVIOUS
  <2>7. \A s \in names : Of(s) \in taken /\ Of(s).name = s
    OBVIOUS
  <2>8. /\ \A n, e : ExportAddress(n, e)' = ExportAddress(n, e)
        /\ \A j : ExportedBy(j)' = ExportedBy(j)
        /\ \A s, j : Exporters(s, j)' = Exporters(s, j)
        /\ \A n, s : ExportOf(n, s)' = ExportOf(n, s)
    BY <1>1, AddressesKept, ExportersKept
  <2>9. ASSUME NEW s \in ExportedBy(k + 1)
        PROVE  LET g == globalSymbols'[s] IN
               /\ g.source \in Exporters(s, k + 1)
               /\ g = [addr |-> ExportAddress(g.source, ExportOf(g.source, s)),
                       weak |-> ExportOf(g.source, s).weak, source |-> g.source]
               /\ \A m \in Exporters(s, k + 1) :
                     IF g.weak THEN g.source <= m /\ ExportOf(m, s).weak
                     ELSE m # g.source => ExportOf(m, s).weak
    <3>1. \A m \in Exporters(s, k + 1) : m \in Exporters(s, k) \/ m = next
      BY <1>2, <2>3
    <3>2. s \in DOMAIN globalSymbols'
      BY <2>5
    <3>3. CASE s \in names
      <4>. DEFINE e == Of(s)
      <4>1. e \in table /\ e.name = s /\ TakesPlace(e)
        BY <2>6, <2>7, <3>3
      <4>2. ExportOf(next, s) = e /\ e.weak \in BOOLEAN
        BY <2>4, <4>1
      <4>3. globalSymbols'[s] = [addr |-> ExportAddress(next, e), weak |-> e.weak,
                                 source |-> next]
        <5>. HIDE DEF e, Of, names
        <5>. QED BY <1>7, <2>2, <3>3 DEF e
      <4>4. next \in Exporters(s, k + 1)
        BY <1>2, <2>3, <4>1
      <4>5. \A m \in Exporters(s, k) : ~e.weak /\ ExportOf(m, s).weak
        <5>. SUFFICES ASSUME NEW m \in Exporters(s, k)
                      PROVE  ~e.weak /\ ExportOf(m, s).weak
          OBVIOUS
        <5>1. s \in ExportedBy(k)
          BY <2>3
        <5>2. globalSymbols[s].weak /\ ~e.weak
          <6>. HIDE DEF e
          <6>. QED BY <2>2, <4>1, <5>1 DEF TakesPlace, Known
        <5>3. SymbolRight(s)
          BY <2>2, <5>1
        <5>4. m \in Exporters(s, ResolvedObjects)
          BY <1>5
        <5>. QED BY <5>2, <5>3, <5>4 DEF SymbolRight
      <4>. HIDE DEF e, k
      <4>6. next <= next
        BY <1>2
      <4>. QED BY <3>1, <4>2, <4>3, <4>4, <4>5, <4>6
    <3>4. CASE s \notin names
      <4>1. s \in ExportedBy(k)
        <5>1. CASE s \in {e.name : e \in table}
          <6>1. PICK e \in table : s = e.name
            BY <5>1
          <6>2. e \notin taken
            BY <3>4, <6>1
          <6>. QED BY <2>4, <6>1, <6>2
        <5>. QED BY <2>3, <5>1
      <4>2. globalSymbols'[s] = globalSymbols[s]
        <5>. HIDE DEF Of, names
        <5>. QED BY <1>7, <2>2, <3>4, <4>1
      <4>. DEFINE g == globalSymbols[s]
      <4>3. /\ g.source \in Exporters(s, k)
            /\ g = [addr |-> ExportAddress(g.source, ExportOf(g.source, s)),
                    weak |-> ExportOf(g.source, s).weak, source |-> g.source]
            /\ \A m \in Exporters(s, k) :
                  IF g.weak THEN g.source <= m /\ ExportOf(m, s).weak
                  ELSE m # g.source => ExportOf(m, s).weak
        BY <1>5, <2>2, <4>1 DEF SymbolRight
      <4>4. next \in Exporters(s, k + 1) => ExportOf(next, s).weak
        <5>. SUFFICES ASSUME next \in Exporters(s, k + 1) PROVE ExportOf(next, s).weak
          OBVIOUS
        <5>1. PICK e \in table : e.name = s
          BY DEF Exporters
        <5>2. e \notin taken
          BY <3>4, <5>1
        <5>. QED BY <2>4, <5>1, <5>2
      <4>5. g.source \in 1..k /\ g.source <= next /\ g.source \in Exporters(s, k + 1)
        BY <1>2, <2>3, <4>3 DEF Exporters
      <4>. HIDE DEF g, k
      <4>. QED BY <3>1, <4>2, <4>3, <4>4, <4>5 DEF g
    <3>. QED BY <3>3, <3>4
  <2>10. ASSUME NEW s \in ExportedBy(k + 1) PROVE SymbolRight(s)'
    <3>. HIDE DEF k
    <3>. QED BY <2>1, <2>8, <2>9 DEF SymbolRight
  <2>11. SymbolsRight'
    <3>1. (\A s \in ExportedBy(ResolvedObjects) : SymbolRight(s))'
      <4>. HIDE DEF k
      <4>. QED BY <2>1, <2>8, <2>10
    <3>. HIDE DEF k
    <3>. QED BY <2>1, <2>5, <2>8, <3>1 DEF SymbolsRight
  <2>. QED BY <1>3, <1>4, <2>11
<1>. QED
  <2>. HIDE DEF table, names, Of
  <2>. QED BY <1>1, <1>6, <1>7

(* The linker's own symbols.                                                *)
LEMMA BoundaryNames ==
    /\ DOMAIN Boundaries = {"__bss_start", "__bss_end"}
    /\ Boundaries["__bss_start"] = bssBase
    /\ Boundaries["__bss_end"] = bssBase + mergedBssLen
BY DEF Boundaries

(* CheckImports adds the linker's symbols where no unit has one.            *)
LEMMA CheckImportsStep ==
    ASSUME LayoutInv, BasesRight, SymbolsRight, CheckImports
    PROVE  LayoutInv' /\ BasesRight' /\ SymbolsRight' /\ ImportsResolved'
<1>1. /\ phase = "resolve" /\ next > Len(inputs)
      /\ UNCHANGED <<link, inputs, textRemaps, dataOffset, bssOffset, unplaced, mergedText,
                     mergedData, mergedBssLen, dataBase, bssBase, next>>
      /\ globalSymbols' = [s \in DOMAIN globalSymbols \cup DOMAIN Boundaries |->
          IF Known(s) THEN globalSymbols[s]
          ELSE [addr |-> Boundaries[s], weak |-> FALSE, source |-> 0]]
      /\ phase' = IF \A n \in ObjectIndex : inputs[n].imports \subseteq DOMAIN globalSymbols'
                  THEN "analyse" ELSE "error"
  BY DEF CheckImports
<1>2. InputsAreUnits /\ LayoutTypes /\ unplaced = {} /\ Len(inputs) \in Nat
      /\ next = Len(inputs) + 1
  <2>1. InputsAreUnits /\ LayoutTypes /\ unplaced = {}
    BY <1>1, AllPlaced
  <2>2. Len(inputs) \in Nat
    BY <2>1, ObjectsOfUnits
  <2>. QED BY <1>1, <2>1, <2>2 DEF LayoutTypes
<1>3. LayoutInv' /\ BasesRight'
  <2>1. PlacedObjects' = PlacedObjects /\ next' \in 1..(Len(inputs) + 1)
        /\ phase' \in {"layout", "resolve", "analyse", "relocate", "done", "error"}
    BY <1>1, <1>2 DEF PlacedObjects
  <2>2. LayoutInv'
    BY <1>1, <1>2, <2>1, LayoutStays
  <2>. QED BY <1>1, <2>2 DEF BasesRight
<1>4. ImportsResolved'
  <2>1. ObjectIndex' = ObjectIndex
    BY <1>1, ObjectsKept
  <2>2. CASE \A n \in ObjectIndex : inputs[n].imports \subseteq DOMAIN globalSymbols'
    BY <1>1, <2>1, <2>2 DEF ImportsResolved
  <2>3. CASE ~(\A n \in ObjectIndex : inputs[n].imports \subseteq DOMAIN globalSymbols')
    <3>1. phase' = "error"
      BY <1>1, <2>3
    <3>. QED BY <3>1 DEF ImportsResolved
  <2>. QED BY <2>2, <2>3
<1>5. /\ ResolvedObjects = Len(inputs) /\ ResolvedObjects' = Len(inputs)
      /\ ~BoundariesKnown /\ BoundariesKnown'
  <2>1. phase' \in {"analyse", "error"}
    BY <1>1
  <2>. QED BY <1>1, <1>2, <2>1 DEF ResolvedObjects, BoundariesKnown
<1>6. /\ DOMAIN globalSymbols = ExportedBy(Len(inputs))
      /\ \A s \in ExportedBy(Len(inputs)) : SymbolRight(s)
  BY <1>5 DEF SymbolsRight
<1>7. /\ DOMAIN globalSymbols' = ExportedBy(Len(inputs)) \cup DOMAIN Boundaries
      /\ \A s \in ExportedBy(Len(inputs)) : globalSymbols'[s] = globalSymbols[s]
      /\ \A s \in DOMAIN Boundaries \ ExportedBy(Len(inputs)) :
             globalSymbols'[s] = [addr |-> Boundaries[s], weak |-> FALSE, source |-> 0]
  BY <1>1, <1>6 DEF Known
<1>8. /\ \A n, e : ExportAddress(n, e)' = ExportAddress(n, e)
      /\ \A j : ExportedBy(j)' = ExportedBy(j)
      /\ \A s, j : Exporters(s, j)' = Exporters(s, j)
      /\ \A n, s : ExportOf(n, s)' = ExportOf(n, s)
      /\ Boundaries' = Boundaries
  BY <1>1, AddressesKept, ExportersKept DEF Boundaries
<1>9. SymbolsRight'
  <2>1. ASSUME NEW s \in ExportedBy(Len(inputs)) PROVE SymbolRight(s)'
    <3>1. SymbolRight(s)
      BY <1>6
    <3>. QED BY <1>5, <1>7, <1>8, <3>1 DEF SymbolRight
  <2>2. (\A s \in ExportedBy(ResolvedObjects) : SymbolRight(s))'
    BY <1>5, <1>8, <2>1
  <2>. QED BY <1>1, <1>5, <1>7, <1>8, <2>2 DEF SymbolsRight
<1>. QED BY <1>3, <1>4, <1>9

(* Every symbol is a record, with its address and where it comes from.      *)
LEMMA SymbolTypes ==
    ASSUME LayoutInv, BasesRight, SymbolsRight, NEW s \in DOMAIN globalSymbols
    PROVE  globalSymbols[s] \in [addr : Nat, weak : BOOLEAN, source : 0..Len(inputs)]
<1>1. phase # "layout"
  <2>1. phase = "layout" => DOMAIN globalSymbols = {}
    BY NothingExported DEF SymbolsRight, ResolvedObjects, BoundariesKnown
  <2>. QED BY <2>1
<1>2. InputsAreUnits /\ LayoutTypes /\ Len(inputs) \in Nat
  BY <1>1, AllPlaced, ObjectsOfUnits
<1>3. ResolvedObjects \in 0..Len(inputs)
  BY <1>2 DEF ResolvedObjects, LayoutTypes
<1>4. CASE s \in ExportedBy(ResolvedObjects)
  <2>. DEFINE g == globalSymbols[s]
  <2>1. /\ g.source \in Exporters(s, ResolvedObjects)
        /\ g = [addr |-> ExportAddress(g.source, ExportOf(g.source, s)),
                weak |-> ExportOf(g.source, s).weak, source |-> g.source]
    BY <1>4 DEF SymbolsRight, SymbolRight
  <2>. HIDE DEF g
  <2>2. PICK e \in inputs[g.source].exports : e.name = s
    BY <2>1 DEF Exporters
  <2>3. g.source \in ObjectIndex /\ g.source \in 0..Len(inputs)
    BY <1>2, <1>3, <2>1 DEF Exporters, ObjectIndex
  <2>4. ExportOf(g.source, s) = e /\ e.weak \in BOOLEAN /\ ExportAddress(g.source, e) \in Nat
    BY <1>1, <1>2, <2>2, <2>3, ExportOfName, ExportAddressType
  <2>. QED BY <2>1, <2>3, <2>4 DEF g
<1>5. CASE s \notin ExportedBy(ResolvedObjects)
  <2>1. BoundariesKnown /\ s \in DOMAIN Boundaries
    BY <1>5 DEF SymbolsRight
  <2>2. globalSymbols[s] = [addr |-> Boundaries[s], weak |-> FALSE, source |-> 0]
    BY <1>5, <2>1 DEF SymbolsRight
  <2>3. bssBase \in Nat /\ mergedBssLen \in Nat
    BY <1>1, <1>2 DEF BasesRight, LayoutTypes
  <2>4. Boundaries[s] \in Nat
    BY <2>1, <2>3, BoundaryNames
  <2>. QED BY <1>2, <2>2, <2>4
<1>. QED BY <1>4, <1>5

-----------------------------------------------------------------------------
\* Relocation tables.

(* The entries of a relocation table.                                       *)
LEMMA RelocFacts ==
    ASSUME NEW u, IsUnit(u), NEW table, NEW cells \in Seq(Cells), NEW r \in Relocs(u, table, cells)
    PROVE  /\ r.table = table /\ r.at \in Nat /\ r.at < Len(cells)
           /\ r.sym = cells[r.at + 1].to /\ r.sym # NoLabel
           /\ r.seg \in {"text", "data", "bss", "external"}
           /\ r.seg = IF IsDefined(u, r.sym) THEN LabelOf(u, r.sym).seg ELSE "external"
           /\ r.seg = "external" <=> ~IsDefined(u, r.sym)
           /\ r = [table |-> table, at |-> r.at, sym |-> cells[r.at + 1].to,
                   seg |-> IF IsDefined(u, cells[r.at + 1].to)
                           THEN LabelOf(u, cells[r.at + 1].to).seg ELSE "external"]
<1>1. PICK i \in 1..Len(cells) :
          /\ cells[i].to # NoLabel
          /\ r = [table |-> table, at |-> i - 1, sym |-> cells[i].to,
                  seg |-> IF IsDefined(u, cells[i].to)
                          THEN LabelOf(u, cells[i].to).seg ELSE "external"]
  BY DEF Relocs
<1>2. i \in Nat /\ i >= 1 /\ i <= Len(cells) /\ Len(cells) \in Nat
  OBVIOUS
<1>3. r.at = i - 1 /\ r.at + 1 = i
  BY <1>1, <1>2
<1>4. IsDefined(u, cells[i].to) => LabelOf(u, cells[i].to).seg \in {"text", "data", "bss"}
  BY LabelOfName, LabelFacts
<1>. QED BY <1>1, <1>2, <1>3, <1>4

(* A relocation table is finite.                                            *)
LEMMA RelocsFinite ==
    ASSUME NEW u, NEW table, NEW cells \in Seq(Cells)
    PROVE  IsFiniteSet(Relocs(u, table, cells))
<1>. DEFINE Entry(i) ==
            [table |-> table, at |-> i - 1, sym |-> cells[i].to,
             seg |-> IF IsDefined(u, cells[i].to)
                     THEN LabelOf(u, cells[i].to).seg ELSE "external"]
            J == {j \in 1..Len(cells) : cells[j].to # NoLabel}
            f == [j \in J |-> Entry(j)]
            T == {Entry(i) : i \in J}
<1>1. IsFiniteSet(1..Len(cells))
  BY FS_Interval
<1>2. IsFiniteSet(J)
  <2>1. J \in SUBSET (1..Len(cells))
    OBVIOUS
  <2>. HIDE DEF J
  <2>. QED BY <1>1, <2>1, FS_Subset
<1>3. f \in Surjection(J, T)
  <2>1. f \in [J -> T]
    OBVIOUS
  <2>2. \A t \in T : \E s \in J : f[s] = t
    OBVIOUS
  <2>. HIDE DEF f, J, T
  <2>. QED BY <2>1, <2>2 DEF Surjection
<1>4. Relocs(u, table, cells) = T
  BY DEF Relocs
<1>. HIDE DEF f, J, T
<1>. QED BY <1>2, <1>3, <1>4, FS_Surjection

(* The relocations of an object in the link.                                *)
LEMMA RelocsOfObject ==
    ASSUME InputsAreUnits, NEW n \in ObjectIndex
    PROVE  /\ IsFiniteSet(inputs[n].textRelocs) /\ IsFiniteSet(inputs[n].dataRelocs)
           /\ \A r \in inputs[n].textRelocs \cup inputs[n].dataRelocs :
                 /\ r.at \in Nat /\ r.table \in {"text", "data"}
                 /\ r.sym # NoLabel
                 /\ r.seg \in {"text", "data", "bss", "external"}
                 /\ r.seg = "external" <=> ~IsDefined(link.units[n], r.sym)
                 /\ r.seg # "external" => r.seg = LabelOf(link.units[n], r.sym).seg
                 /\ r.seg = "external" => r.sym \in inputs[n].imports
           /\ \A r \in inputs[n].textRelocs :
                 /\ r.table = "text" /\ r.at < Len(inputs[n].textBody)
                 /\ r.sym = inputs[n].textBody[r.at + 1].to
           /\ \A r \in inputs[n].dataRelocs :
                 /\ r.table = "data" /\ r.at < Len(inputs[n].dataBody)
                 /\ r.sym = inputs[n].dataBody[r.at + 1].to
           /\ \A r, s \in inputs[n].textRelocs \cup inputs[n].dataRelocs :
                 r.table = s.table /\ r.at = s.at => r = s
<1>. DEFINE u == link.units[n]
<1>1. n \in Nat \ {0} /\ IsUnit(u) /\ inputs[n] = EmitO45(u, n)
  BY ObjectsOfUnits
<1>. HIDE DEF u
<1>2. u.data \in Seq(Cells) /\ TextOf(u) \in Seq(Cells)
  BY <1>1, SubOffsets DEF IsUnit
<1>3. /\ inputs[n].textRelocs = Relocs(u, "text", TextOf(u))
      /\ inputs[n].dataRelocs = Relocs(u, "data", u.data)
      /\ inputs[n].imports = {r.sym : r \in {x \in Relocs(u, "text", TextOf(u))
                                                \cup Relocs(u, "data", u.data) :
                                        x.seg = "external"}}
  BY <1>1 DEF EmitO45
<1>4. /\ Len(inputs[n].textBody) = Len(TextOf(u)) /\ Len(inputs[n].dataBody) = Len(u.data)
      /\ \A i \in 1..Len(TextOf(u)) : inputs[n].textBody[i].to = TextOf(u)[i].to
      /\ \A i \in 1..Len(u.data) : inputs[n].dataBody[i].to = u.data[i].to
  BY <1>1, ObjectBodies
<1>5. ASSUME NEW r \in Relocs(u, "text", TextOf(u))
      PROVE  /\ r.table = "text" /\ r.at \in Nat /\ r.at < Len(inputs[n].textBody)
             /\ r.sym = inputs[n].textBody[r.at + 1].to /\ r.sym # NoLabel
             /\ r.seg \in {"text", "data", "bss", "external"}
             /\ r.seg = IF IsDefined(u, r.sym) THEN LabelOf(u, r.sym).seg ELSE "external"
             /\ r.seg = "external" <=> ~IsDefined(u, r.sym)
  <2>1. /\ r.table = "text" /\ r.at \in Nat /\ r.at < Len(TextOf(u))
        /\ r.sym = TextOf(u)[r.at + 1].to /\ r.sym # NoLabel
        /\ r.seg \in {"text", "data", "bss", "external"}
        /\ r.seg = IF IsDefined(u, r.sym) THEN LabelOf(u, r.sym).seg ELSE "external"
        /\ r.seg = "external" <=> ~IsDefined(u, r.sym)
    BY <1>1, <1>2, RelocFacts
  <2>2. r.at + 1 \in 1..Len(TextOf(u))
    BY <1>2, <2>1
  <2>. QED BY <1>4, <2>1, <2>2
<1>6. ASSUME NEW r \in Relocs(u, "data", u.data)
      PROVE  /\ r.table = "data" /\ r.at \in Nat /\ r.at < Len(inputs[n].dataBody)
             /\ r.sym = inputs[n].dataBody[r.at + 1].to /\ r.sym # NoLabel
             /\ r.seg \in {"text", "data", "bss", "external"}
             /\ r.seg = IF IsDefined(u, r.sym) THEN LabelOf(u, r.sym).seg ELSE "external"
             /\ r.seg = "external" <=> ~IsDefined(u, r.sym)
  <2>1. /\ r.table = "data" /\ r.at \in Nat /\ r.at < Len(u.data)
        /\ r.sym = u.data[r.at + 1].to /\ r.sym # NoLabel
        /\ r.seg \in {"text", "data", "bss", "external"}
        /\ r.seg = IF IsDefined(u, r.sym) THEN LabelOf(u, r.sym).seg ELSE "external"
        /\ r.seg = "external" <=> ~IsDefined(u, r.sym)
    BY <1>1, <1>2, RelocFacts
  <2>2. r.at + 1 \in 1..Len(u.data)
    BY <1>2, <2>1
  <2>. QED BY <1>4, <2>1, <2>2
<1>7. ASSUME NEW r \in inputs[n].textRelocs \cup inputs[n].dataRelocs, r.seg = "external"
      PROVE  r.sym \in inputs[n].imports
  BY <1>3, <1>7
<1>8. ASSUME NEW r \in inputs[n].textRelocs \cup inputs[n].dataRelocs,
             NEW s \in inputs[n].textRelocs \cup inputs[n].dataRelocs,
             r.table = s.table, r.at = s.at
      PROVE  r = s
  <2>1. CASE r \in Relocs(u, "text", TextOf(u))
    <3>1. s \in Relocs(u, "text", TextOf(u))
      BY <1>3, <1>5, <1>6, <1>8, <2>1
    <3>. QED BY <1>1, <1>2, <1>8, <2>1, <3>1, RelocFacts
  <2>2. CASE r \in Relocs(u, "data", u.data)
    <3>1. s \in Relocs(u, "data", u.data)
      BY <1>3, <1>5, <1>6, <1>8, <2>2
    <3>. QED BY <1>1, <1>2, <1>8, <2>2, <3>1, RelocFacts
  <2>. QED BY <1>3, <2>1, <2>2
<1>9. IsFiniteSet(inputs[n].textRelocs) /\ IsFiniteSet(inputs[n].dataRelocs)
  BY <1>2, <1>3, RelocsFinite
<1>10. /\ \A r \in inputs[n].textRelocs :
                 /\ r.table = "text" /\ r.at < Len(inputs[n].textBody)
                 /\ r.sym = inputs[n].textBody[r.at + 1].to
       /\ \A r \in inputs[n].dataRelocs :
                 /\ r.table = "data" /\ r.at < Len(inputs[n].dataBody)
                 /\ r.sym = inputs[n].dataBody[r.at + 1].to
  BY <1>3, <1>5, <1>6
<1>11. \A r \in inputs[n].textRelocs \cup inputs[n].dataRelocs :
                 /\ r.at \in Nat /\ r.table \in {"text", "data"}
                 /\ r.sym # NoLabel
                 /\ r.seg \in {"text", "data", "bss", "external"}
                 /\ r.seg = "external" <=> ~IsDefined(u, r.sym)
                 /\ r.seg # "external" => r.seg = LabelOf(u, r.sym).seg
  BY <1>3, <1>5, <1>6
<1>12. \A r, s \in inputs[n].textRelocs \cup inputs[n].dataRelocs :
                 r.table = s.table /\ r.at = s.at => r = s
  BY <1>8
<1>. QED BY <1>7, <1>9, <1>10, <1>11, <1>12 DEF u

(* A set listed as a sequence.                                              *)
LEMMA Listed ==
    ASSUME NEW S, IsFiniteSet(S)
    PROVE  /\ SetToSeq(S) \in Seq(S)
           /\ Len(SetToSeq(S)) = Cardinality(S)
           /\ \A x \in S : \E i \in 1..Len(SetToSeq(S)) : SetToSeq(S)[i] = x
           /\ \A i, j \in 1..Len(SetToSeq(S)) : SetToSeq(S)[i] = SetToSeq(S)[j] => i = j
<1>. DEFINE K == Cardinality(S)
<1>1. K \in Nat /\ ExistsBijection(1..K, S)
  BY FS_CardinalityType
<1>2. PICK b \in Bijection(1..K, S) : TRUE
  BY <1>1 DEF ExistsBijection
<1>3. b \in [1..K -> S] /\ IsInjective(b)
  BY <1>2 DEF Bijection, Injection, IsInjective
<1>. DEFINE f == SetToSeq(S)
<1>4. f \in [1..K -> S] /\ IsInjective(f)
  <2>1. f = CHOOSE g \in [1..K -> S] : IsInjective(g)
    BY DEF SetToSeq
  <2>. HIDE DEF f, K
  <2>. QED BY <1>3, <2>1
<1>. HIDE DEF f
<1>5. f \in Seq(S) /\ Len(f) = K
  <2>. HIDE DEF K
  <2>1. f \in Seq(S)
    BY <1>1, <1>4
  <2>. QED BY <1>1, <1>4, <2>1, LenProperties
<1>6. \A i, j \in 1..K : f[i] = f[j] => i = j
  BY <1>4 DEF IsInjective
<1>7. f \in Surjection(1..K, S)
  <2>1. f \in Injection(1..K, S)
    BY <1>4, <1>6 DEF Injection
  <2>2. IsFiniteSet(1..K) /\ Cardinality(1..K) = Cardinality(S)
    BY <1>1, FS_Interval
  <2>. HIDE DEF K
  <2>. QED BY <2>1, <2>2, FS_Injection
<1>8. \A x \in S : \E i \in 1..K : f[i] = x
  BY <1>7 DEF Surjection
<1>. QED BY <1>5, <1>6, <1>8 DEF f

-----------------------------------------------------------------------------
\* The inductive invariant: merged cells until they are patched.

\* Before relocation a merged cell is the cell of the object it comes from.
AsAssembled(body, seg) ==
    \A i \in 1..Len(body) :
        LET h == body[i].home IN
        /\ h[1] \in ObjectIndex /\ h[2] = seg /\ h[3] \in Nat
        /\ LET b == IF seg = "text" THEN inputs[h[1]].textBody ELSE inputs[h[1]].dataBody
           IN  h[3] < Len(b) /\ body[i] = b[h[3] + 1]

Unpatched ==
    phase \in {"layout", "resolve", "analyse"} =>
        AsAssembled(mergedText, "text") /\ AsAssembled(mergedData, "data")

\* No chunk is recorded twice.
RemapsDistinct ==
    \A n \in ObjectIndex : \A j, k \in DOMAIN textRemaps[n] :
        textRemaps[n][j].src = textRemaps[n][k].src => j = k

(* A cell of an object says where it is.                                    *)
LEMMA HomesOfObjects ==
    ASSUME InputsAreUnits, NEW n \in ObjectIndex
    PROVE  /\ Len(inputs[n].textBody) \in Nat /\ Len(inputs[n].dataBody) \in Nat
           /\ \A i \in 1..Len(inputs[n].textBody) :
                 inputs[n].textBody[i].home = <<n, "text", i - 1>>
           /\ \A i \in 1..Len(inputs[n].dataBody) :
                 inputs[n].dataBody[i].home = <<n, "data", i - 1>>
<1>. DEFINE u == link.units[n]
<1>1. n \in Nat \ {0} /\ IsUnit(u) /\ inputs[n] = EmitO45(u, n)
  BY ObjectsOfUnits
<1>. HIDE DEF u
<1>2. inputs[n].textBody \in Seq(ObjectCells) /\ inputs[n].dataBody \in Seq(ObjectCells)
  BY ObjectsOfUnits
<1>3. /\ Len(inputs[n].textBody) = Len(TextOf(u)) /\ Len(inputs[n].dataBody) = Len(u.data)
      /\ \A i \in 1..Len(TextOf(u)) : inputs[n].textBody[i].home = <<n, "text", i - 1>>
      /\ \A i \in 1..Len(u.data) : inputs[n].dataBody[i].home = <<n, "data", i - 1>>
  BY <1>1, ObjectBodies
<1>4. Len(inputs[n].textBody) \in Nat /\ Len(inputs[n].dataBody) \in Nat
  BY <1>2
<1>. QED BY <1>3, <1>4

(* PlaceChunk copies cells as they are and records its chunk once.          *)
LEMMA PlaceChunkCopies ==
    ASSUME LayoutInv, Unpatched, RemapsDistinct, PlaceChunk
    PROVE  Unpatched' /\ RemapsDistinct'
<1>1. PICK c \in unplaced : CopiesChunk(c)
  BY DEF PlaceChunk, CopiesChunk
<1>2. InputsAreUnits /\ LayoutTypes /\ c \in AllChunks
  BY <1>1 DEF LayoutInv, LayoutTypes
<1>3. inputs' = inputs /\ phase' = phase /\ mergedData' = mergedData /\ phase = "layout"
  BY DEF PlaceChunk
<1>4. ObjectIndex' = ObjectIndex
  BY <1>3, ObjectsKept
<1>. DEFINE n == c.object  len == Len(mergedText)
<1>5. /\ n \in ObjectIndex /\ c.src \in Nat /\ c.len \in Nat /\ c.len > 0
      /\ c.src + c.len <= Len(inputs[n].textBody)
  BY <1>2, ChunksOfLink
<1>6. /\ len \in Nat /\ Len(mergedText') = len + c.len
      /\ \A i \in 1..len : mergedText'[i] = mergedText[i]
      /\ \A i \in 1..c.len : mergedText'[len + i] = inputs[n].textBody[c.src + i]
      /\ \A m \in ObjectIndex : m # n => textRemaps'[m] = textRemaps[m]
      /\ Len(textRemaps[n]) \in Nat
      /\ \A k \in 1..Len(textRemaps[n]) : textRemaps'[n][k] = textRemaps[n][k]
      /\ textRemaps'[n][Len(textRemaps[n]) + 1] =
            [src |-> c.src, len |-> c.len, dest |-> Len(mergedText)]
      /\ \A m \in ObjectIndex : DOMAIN textRemaps[m] = 1..Len(textRemaps[m])
      /\ DOMAIN textRemaps'[n] = 1..(Len(textRemaps[n]) + 1)
  BY <1>1, <1>2, ChunkCopied
<1>7. ASSUME NEW i \in 1..Len(mergedText')
      PROVE  LET h == mergedText'[i].home IN
             /\ h[1] \in ObjectIndex /\ h[2] = "text" /\ h[3] \in Nat
             /\ h[3] < Len(inputs[h[1]].textBody) /\ mergedText'[i] = inputs[h[1]].textBody[h[3] + 1]
  <2>1. CASE i \in 1..len
    <3>1. mergedText'[i] = mergedText[i]
      BY <1>6, <2>1
    <3>. QED BY <1>3, <2>1, <3>1 DEF Unpatched, AsAssembled
  <2>2. CASE i \notin 1..len
    <3>. DEFINE j == i - len  k == c.src + j
    <3>1. j \in 1..c.len /\ i = len + j
      <4>. HIDE DEF len
      <4>. QED BY <1>5, <1>6, <2>2
    <3>. HIDE DEF j
    <3>2. Len(inputs[n].textBody) \in Nat
      BY <1>2, <1>5, HomesOfObjects
    <3>3. k \in 1..Len(inputs[n].textBody) /\ k - 1 \in Nat /\ k - 1 < Len(inputs[n].textBody)
          /\ (k - 1) + 1 = k
      <4>. DEFINE L == Len(inputs[n].textBody)  s == c.src  e == c.len
      <4>1. s + e <= L /\ L \in Nat /\ s \in Nat /\ e \in Nat /\ j \in 1..e
        BY <1>5, <3>1, <3>2
      <4>. HIDE DEF L, s, e
      <4>2. s + j \in 1..L /\ (s + j) - 1 \in Nat /\ (s + j) - 1 < L /\ ((s + j) - 1) + 1 = s + j
        BY <4>1
      <4>. QED BY <4>2 DEF L, s, e
    <3>4. mergedText'[i] = inputs[n].textBody[k]
      BY <1>6, <3>1
    <3>. HIDE DEF k, n
    <3>5. mergedText'[i].home = <<n, "text", k - 1>>
      BY <1>2, <1>5, <3>3, <3>4, HomesOfObjects
    <3>. QED BY <1>5, <3>3, <3>4, <3>5
  <2>. QED BY <2>1, <2>2
<1>8. AsAssembled(mergedText, "text")' /\ AsAssembled(mergedData, "data")'
  <2>1. AsAssembled(mergedText, "text")'
    BY <1>3, <1>4, <1>7 DEF AsAssembled
  <2>2. AsAssembled(mergedData, "data")
    BY <1>3 DEF Unpatched
  <2>. QED BY <1>3, <1>4, <2>1, <2>2 DEF AsAssembled
<1>9. PICK D : LaidOut(D)
  BY DEF LayoutInv
<1>10. ASSUME NEW k \in DOMAIN textRemaps[n] PROVE textRemaps[n][k].src # c.src
  <2>1. PICK d \in PlacedChunks : d.object = n /\ textRemaps[n][k] = Placement(d, D)
    BY <1>5, <1>9 DEF LaidOut
  <2>2. d \in AllChunks /\ d # c
    BY <1>1, <2>1 DEF PlacedChunks
  <2>3. d.src \in Nat /\ d.len \in Nat /\ d.len > 0
    BY <1>2, <2>2, ChunksOfLink
  <2>4. d.src # c.src
    <3>1. SUFFICES ASSUME d.src = c.src PROVE FALSE
      OBVIOUS
    <3>2. c.src <= c.src /\ c.src < c.src + c.len /\ c.src < c.src + d.len
      BY <1>5, <2>3
    <3>3. d = c
      BY <1>2, <1>5, <2>1, <2>2, <3>1, <3>2, ChunksDivideObject
    <3>. QED BY <2>2, <3>3
  <2>. QED BY <2>1, <2>4 DEF Placement
<1>11. ASSUME NEW m \in ObjectIndex, NEW j \in DOMAIN textRemaps'[m], NEW k \in DOMAIN textRemaps'[m],
              textRemaps'[m][j].src = textRemaps'[m][k].src
       PROVE  j = k
  <2>1. CASE m # n
    BY <1>6, <1>11, <2>1 DEF RemapsDistinct
  <2>2. CASE m = n
    <3>. DEFINE K == Len(textRemaps[n])
    <3>1. /\ K \in Nat /\ \A x \in 1..K : textRemaps'[n][x] = textRemaps[n][x] /\ x \in DOMAIN textRemaps[n]
          /\ textRemaps'[n][K + 1].src = c.src
          /\ j \in 1..(K + 1) /\ k \in 1..(K + 1)
      <4>1. K \in Nat /\ DOMAIN textRemaps[n] = 1..K
        BY <1>5, <1>6
      <4>2. \A x \in 1..K : textRemaps'[n][x] = textRemaps[n][x]
        BY <1>6
      <4>3. textRemaps'[n][K + 1].src = c.src
        BY <1>6
      <4>4. j \in 1..(K + 1) /\ k \in 1..(K + 1)
        BY <1>6, <2>2
      <4>. HIDE DEF K
      <4>. QED BY <4>1, <4>2, <4>3, <4>4
    <3>2. \A x \in 1..K : textRemaps'[n][x].src # c.src
      BY <1>10, <3>1
    <3>3. \A x, y \in 1..K : textRemaps'[n][x].src = textRemaps'[n][y].src => x = y
      <4>1. \A x, y \in DOMAIN textRemaps[n] :
                textRemaps[n][x].src = textRemaps[n][y].src => x = y
        BY <1>5 DEF RemapsDistinct
      <4>. HIDE DEF K
      <4>. QED BY <3>1, <4>1
    <3>4. /\ j \in 1..K \/ j = K + 1
          /\ k \in 1..K \/ k = K + 1
      <4>. HIDE DEF K
      <4>. QED BY <3>1
    <3>. HIDE DEF K
    <3>. QED BY <1>11, <2>2, <3>1, <3>2, <3>3, <3>4
  <2>. QED BY <2>1, <2>2
<1>. QED BY <1>4, <1>8, <1>11 DEF Unpatched, RemapsDistinct

(* PlaceData copies data as it is.                                          *)
LEMMA PlaceDataCopies ==
    ASSUME LayoutInv, Unpatched, RemapsDistinct, PlaceData
    PROVE  Unpatched' /\ RemapsDistinct'
<1>1. /\ phase = "layout" /\ next <= Len(inputs)
      /\ mergedData' = mergedData \o inputs[next].dataBody
      /\ inputs' = inputs /\ phase' = phase /\ textRemaps' = textRemaps /\ mergedText' = mergedText
  BY DEF PlaceData
<1>2. InputsAreUnits /\ LayoutTypes /\ ObjectIndex' = ObjectIndex
  BY <1>1, ObjectsKept DEF LayoutInv
<1>3. next \in ObjectIndex
  BY <1>1, <1>2, ObjectsOfUnits DEF LayoutTypes, ObjectIndex
<1>. DEFINE B == inputs[next].dataBody  len == Len(mergedData)
<1>4. B \in Seq(ObjectCells) /\ mergedData \in Seq(ObjectCells)
  BY <1>2, <1>3, ObjectsOfUnits DEF LayoutTypes
<1>5. mergedData' = mergedData \o B
  BY <1>1
<1>6. /\ len \in Nat /\ Len(B) \in Nat /\ Len(mergedData') = len + Len(B)
      /\ \A i \in 1..len : mergedData'[i] = mergedData[i]
      /\ \A i \in 1..Len(B) : mergedData'[len + i] = B[i]
  <2>. HIDE DEF B
  <2>. QED BY <1>4, <1>5
<1>7. ASSUME NEW i \in 1..Len(mergedData')
      PROVE  LET h == mergedData'[i].home IN
             /\ h[1] \in ObjectIndex /\ h[2] = "data" /\ h[3] \in Nat
             /\ h[3] < Len(inputs[h[1]].dataBody) /\ mergedData'[i] = inputs[h[1]].dataBody[h[3] + 1]
  <2>1. CASE i \in 1..len
    <3>1. mergedData'[i] = mergedData[i]
      BY <1>6, <2>1
    <3>. QED BY <1>1, <2>1, <3>1 DEF Unpatched, AsAssembled
  <2>2. CASE i \notin 1..len
    <3>1. PICK j \in 1..Len(B) : i = len + j
      <4>. HIDE DEF len, B
      <4>1. i - len \in 1..Len(B) /\ i = len + (i - len)
        BY <1>6, <2>2
      <4>. QED BY <4>1
    <3>2. mergedData'[i] = B[j] /\ j - 1 \in Nat /\ j - 1 < Len(B) /\ (j - 1) + 1 = j
      BY <1>6, <3>1
    <3>3. mergedData'[i].home = <<next, "data", j - 1>>
      BY <1>2, <1>3, <3>1, <3>2, HomesOfObjects
    <3>. QED BY <1>3, <3>2, <3>3
  <2>. QED BY <2>1, <2>2
<1>8. AsAssembled(mergedText, "text")' /\ AsAssembled(mergedData, "data")'
  <2>1. AsAssembled(mergedData, "data")'
    BY <1>1, <1>2, <1>7 DEF AsAssembled
  <2>2. AsAssembled(mergedText, "text")
    BY <1>1 DEF Unpatched
  <2>. QED BY <1>1, <1>2, <2>1, <2>2 DEF AsAssembled
<1>. QED BY <1>1, <1>2, <1>8 DEF Unpatched, RemapsDistinct

(* Both hold at first.                                                      *)
LEMMA CopiesInit == LinkInit => Unpatched /\ RemapsDistinct
BY DEF LinkInit, Unpatched, AsAssembled, RemapsDistinct

(* Phases that leave what was laid out alone.                               *)
LEMMA CopiesStay ==
    ASSUME Unpatched, RemapsDistinct, UNCHANGED <<inputs, textRemaps, mergedText, mergedData>>,
           phase' \in {"layout", "resolve", "analyse"} => phase \in {"layout", "resolve", "analyse"}
    PROVE  Unpatched' /\ RemapsDistinct'
<1>1. ObjectIndex' = ObjectIndex
  BY ObjectsKept
<1>. QED BY <1>1 DEF Unpatched, AsAssembled, RemapsDistinct

-----------------------------------------------------------------------------
\* Where the cells of the objects are.

\* Where the cell at an offset of object n is, in the text and in the data.
TextPlace(n, off) == RemapTextOffset(n, off) + 1
DataPlace(n, off) == dataOffset[n] + off + 1

(* Every cell of an object's text is where remapTextOffset says.            *)
LEMMA TextPlaces ==
    ASSUME LayoutInv, phase # "layout",
           NEW n \in ObjectIndex, NEW off \in Nat, off < Len(inputs[n].textBody)
    PROVE  /\ TextPlace(n, off) \in 1..Len(mergedText) /\ RemapTextOffset(n, off) \in Nat
           /\ SameCell(mergedText[TextPlace(n, off)], inputs[n].textBody[off + 1])
           /\ mergedText[TextPlace(n, off)].home = <<n, "text", off>>
           /\ mergedText[TextPlace(n, off)] \in ImageCells
<1>1. InputsAreUnits /\ PlacedChunks = AllChunks /\ mergedText \in Seq(ImageCells)
  BY AllPlaced DEF LayoutTypes
<1>2. PICK D : LaidOut(D)
  BY DEF LayoutInv
<1>3. PICK c \in AllChunks : /\ c.object = n /\ c.src <= off /\ off < c.src + c.len
                             /\ RemapTextOffset(n, off) = D[c] + (off - c.src)
  BY <1>2, RemapRight
<1>4. /\ D[c] \in Nat /\ D[c] + c.len <= Len(mergedText)
      /\ \A i \in 1..c.len : SameCell(mergedText[D[c] + i], inputs[c.object].textBody[c.src + i])
  BY <1>1, <1>2 DEF LaidOut
<1>5. c.src \in Nat /\ c.len \in Nat
  BY <1>1, ChunksOfLink
<1>. DEFINE i == off - c.src + 1  s == c.src  e == c.len  d == D[c]  M == Len(mergedText)
<1>6. d \in Nat /\ s \in Nat /\ e \in Nat /\ M \in Nat /\ d + e <= M /\ s <= off /\ off < s + e
      /\ i = off - s + 1
  BY <1>1, <1>3, <1>4, <1>5
<1>. HIDE DEF i, s, e, d, M
<1>7. i \in 1..e /\ s + i = off + 1 /\ d + (off - s) + 1 = d + i /\ d + i \in 1..M
      /\ d + (off - s) \in Nat
  BY <1>6
<1>8. /\ TextPlace(n, off) = D[c] + i /\ TextPlace(n, off) \in 1..Len(mergedText)
      /\ c.src + i = off + 1 /\ i \in 1..c.len /\ RemapTextOffset(n, off) \in Nat
  BY <1>3, <1>7 DEF TextPlace, s, e, d, M
<1>9. SameCell(mergedText[TextPlace(n, off)], inputs[n].textBody[off + 1])
  BY <1>3, <1>4, <1>8
<1>10. inputs[n].textBody[off + 1].home = <<n, "text", off>>
  <2>1. off + 1 \in 1..Len(inputs[n].textBody) /\ (off + 1) - 1 = off
    BY <1>1, HomesOfObjects
  <2>. QED BY <1>1, <2>1, HomesOfObjects
<1>11. mergedText[TextPlace(n, off)] \in ImageCells
  BY <1>1, <1>8, ElementOfSeq
<1>. QED BY <1>8, <1>9, <1>10, <1>11 DEF SameCell

(* And the text holds nothing else but thunks.                              *)
LEMMA TextFromObjects ==
    ASSUME LayoutInv, phase # "layout", NEW i \in 1..Len(mergedText), ~IsThunk(mergedText[i])
    PROVE  \E n \in ObjectIndex : \E off \in Nat :
              off < Len(inputs[n].textBody) /\ i = TextPlace(n, off)
<1>1. InputsAreUnits /\ PlacedChunks = AllChunks /\ mergedText \in Seq(ImageCells)
  BY AllPlaced DEF LayoutTypes
<1>2. PICK D : LaidOut(D)
  BY DEF LayoutInv
<1>3. PICK c \in AllChunks : D[c] < i /\ i <= D[c] + c.len
  BY <1>1, <1>2 DEF LaidOut
<1>4. D[c] \in Nat
  BY <1>1, <1>2 DEF LaidOut
<1>5. /\ c.object \in ObjectIndex /\ c.src \in Nat /\ c.len \in Nat
      /\ c.src + c.len <= Len(inputs[c.object].textBody)
      /\ Len(inputs[c.object].textBody) \in Nat
  BY <1>1, ChunksOfLink, HomesOfObjects
<1>. DEFINE n == c.object  s == c.src  e == c.len  d == D[c]  L == Len(inputs[n].textBody)
            off == s + (i - d - 1)
<1>6. d \in Nat /\ s \in Nat /\ e \in Nat /\ s + e <= L /\ L \in Nat /\ d < i /\ i <= d + e /\ i \in Nat
  BY <1>3, <1>4, <1>5
<1>7. off \in Nat /\ off < L /\ s <= off /\ off < s + e /\ d + (off - s) + 1 = i
  <2>. HIDE DEF s, e, d, L
  <2>. QED BY <1>6
<1>. HIDE DEF off
<1>8. PICK b \in AllChunks : /\ b.object = n /\ b.src <= off /\ off < b.src + b.len
                             /\ RemapTextOffset(n, off) = D[b] + (off - b.src)
  BY <1>2, <1>5, <1>7, RemapRight
<1>9. b = c
  BY <1>1, <1>5, <1>7, <1>8, ChunksDivideObject
<1>10. i = TextPlace(n, off)
  BY <1>7, <1>8, <1>9 DEF TextPlace
<1>. QED BY <1>5, <1>7, <1>10

(* In an object with one chunk offsets count from its start.                *)
LEMMA UnsplitPlaces ==
    ASSUME LayoutInv, phase # "layout", NEW n \in ObjectIndex, ~SeveralChunks(n),
           NEW off \in Nat, off < Len(inputs[n].textBody)
    PROVE  RemapTextOffset(n, off) = TextOffset(n) + off
<1>1. InputsAreUnits /\ PlacedChunks = AllChunks
      /\ textRemaps[n] \in Seq([src : Nat, len : Nat, dest : Nat])
  BY AllPlaced
<1>2. PICK D : LaidOut(D)
  BY DEF LayoutInv
<1>3. PICK c \in AllChunks : /\ c.object = n /\ c.src <= off /\ off < c.src + c.len
                             /\ RemapTextOffset(n, off) = D[c] + (off - c.src)
  BY <1>2, RemapRight
<1>4. PICK b \in AllChunks : b.object = n /\ b.src <= 0 /\ 0 < b.src + b.len
  <2>1. 0 \in Nat /\ 0 < Len(inputs[n].textBody)
    BY <1>1, HomesOfObjects
  <2>. QED BY <2>1, <1>2, RemapRight
<1>5. \A a \in AllChunks : a.object = n => textRemaps[n] # <<>> /\ textRemaps[n][1] = Placement(a, D)
  <2>. SUFFICES ASSUME NEW a \in AllChunks, a.object = n
                PROVE  textRemaps[n] # <<>> /\ textRemaps[n][1] = Placement(a, D)
    OBVIOUS
  <2>1. PICK k \in DOMAIN textRemaps[n] : textRemaps[n][k] = Placement(a, D)
    BY <1>1, <1>2 DEF LaidOut
  <2>2. Len(textRemaps[n]) \in Nat /\ DOMAIN textRemaps[n] = 1..Len(textRemaps[n])
    BY <1>1
  <2>3. k = 1
    BY <2>2 DEF SeveralChunks
  <2>. QED BY <2>1, <2>2, <2>3
<1>6. textRemaps[n] # <<>> /\ textRemaps[n][1] = Placement(c, D) /\ textRemaps[n][1] = Placement(b, D)
  BY <1>3, <1>4, <1>5
<1>7. c.src = b.src /\ TextOffset(n) = D[c]
  BY <1>6 DEF Placement, TextOffset
<1>8. b.src \in Nat /\ D[c] \in Nat
  BY <1>1, <1>2, ChunksOfLink DEF LaidOut
<1>9. c.src = 0
  BY <1>4, <1>7, <1>8
<1>. QED BY <1>3, <1>7, <1>8, <1>9

(* Every cell of an object's data is at its offset from the object's data.  *)
LEMMA DataPlaces ==
    ASSUME LayoutInv, phase # "layout",
           NEW n \in ObjectIndex, NEW off \in Nat, off < Len(inputs[n].dataBody)
    PROVE  /\ DataPlace(n, off) \in 1..Len(mergedData)
           /\ SameCell(mergedData[DataPlace(n, off)], inputs[n].dataBody[off + 1])
           /\ mergedData[DataPlace(n, off)].home = <<n, "data", off>>
           /\ mergedData[DataPlace(n, off)] \in ObjectCells
<1>1. InputsAreUnits /\ PlacedObjects = Len(inputs) /\ mergedData \in Seq(ObjectCells)
      /\ dataOffset[n] \in Nat /\ n \in 1..PlacedObjects
  BY AllPlaced DEF LayoutTypes, ObjectIndex
<1>2. /\ dataOffset[n] + Len(inputs[n].dataBody) <= Len(mergedData)
      /\ \A i \in 1..Len(inputs[n].dataBody) :
            SameCell(mergedData[dataOffset[n] + i], inputs[n].dataBody[i])
  BY <1>1 DEF LayoutInv, DataLaidOut
<1>. DEFINE d == dataOffset[n]  L == Len(inputs[n].dataBody)  M == Len(mergedData)
<1>3. d \in Nat /\ L \in Nat /\ M \in Nat /\ d + L <= M /\ off < L
  BY <1>1, <1>2, HomesOfObjects
<1>4. d + off + 1 \in 1..M /\ d + off + 1 = d + (off + 1) /\ off + 1 \in 1..L /\ (off + 1) - 1 = off
  <2>. HIDE DEF d, L, M
  <2>. QED BY <1>3
<1>5. SameCell(mergedData[DataPlace(n, off)], inputs[n].dataBody[off + 1])
  BY <1>2, <1>4 DEF DataPlace
<1>6. inputs[n].dataBody[off + 1].home = <<n, "data", off>>
  BY <1>1, <1>4, HomesOfObjects
<1>7. DataPlace(n, off) \in 1..Len(mergedData)
  BY <1>4 DEF DataPlace
<1>8. mergedData[DataPlace(n, off)] \in ObjectCells
  BY <1>1, <1>7, ElementOfSeq
<1>. QED BY <1>5, <1>6, <1>7, <1>8 DEF SameCell

(* And the data holds nothing else.                                         *)
LEMMA DataFromObjects ==
    ASSUME LayoutInv, phase # "layout", NEW i \in 1..Len(mergedData)
    PROVE  \E n \in ObjectIndex : \E off \in Nat :
              off < Len(inputs[n].dataBody) /\ i = DataPlace(n, off)
<1>1. InputsAreUnits /\ PlacedObjects = Len(inputs)
  BY AllPlaced
<1>2. PICK n \in ObjectIndex : dataOffset[n] < i /\ i <= dataOffset[n] + Len(inputs[n].dataBody)
  BY <1>1 DEF LayoutInv, DataLaidOut, ObjectIndex
<1>. DEFINE d == dataOffset[n]  L == Len(inputs[n].dataBody)
<1>3. d \in Nat /\ L \in Nat /\ d < i /\ i <= d + L /\ i \in Nat
  BY <1>1, <1>2, AllPlaced, HomesOfObjects
<1>4. (i - d - 1) \in Nat /\ (i - d - 1) < L /\ i = d + (i - d - 1) + 1
  <2>. HIDE DEF d, L
  <2>. QED BY <1>3
<1>. QED BY <1>4 DEF DataPlace

(* An object in several chunks is a unit with several sub-segments.         *)
LEMMA SplitUnits ==
    ASSUME LayoutInv, RemapsDistinct, NEW n \in ObjectIndex, SeveralChunks(n)
    PROVE  \E j, k \in Filled(link.units[n]) : j # k
<1>1. InputsAreUnits /\ LayoutTypes
  BY DEF LayoutInv
<1>2. PICK D : LaidOut(D)
  BY DEF LayoutInv
<1>3. 1 \in DOMAIN textRemaps[n] /\ 2 \in DOMAIN textRemaps[n]
  <2>1. textRemaps[n] \in Seq([src : Nat, len : Nat, dest : Nat])
    BY <1>1 DEF LayoutTypes
  <2>. QED BY <2>1 DEF SeveralChunks
<1>4. PICK c \in AllChunks : c.object = n /\ textRemaps[n][1] = Placement(c, D)
  BY <1>2, <1>3 DEF LaidOut, PlacedChunks
<1>5. PICK d \in AllChunks : d.object = n /\ textRemaps[n][2] = Placement(d, D)
  BY <1>2, <1>3 DEF LaidOut, PlacedChunks
<1>6. c # d
  BY <1>3, <1>4, <1>5 DEF RemapsDistinct, Placement
<1>7. PICK j \in Filled(link.units[n]) : c = ChunkOf(link.units[n], n, j)
  BY <1>1, <1>4, ChunksOfLink
<1>8. PICK k \in Filled(link.units[n]) : d = ChunkOf(link.units[n], n, k)
  BY <1>1, <1>5, ChunksOfLink
<1>. QED BY <1>6, <1>7, <1>8

-----------------------------------------------------------------------------
\* Where relocations patch, and the conventions of functions.

(* A relocation in text patches the cell it was written for.                *)
LEMMA PatchInText ==
    ASSUME LayoutInv, phase # "layout", NEW n \in ObjectIndex, NEW r \in inputs[n].textRelocs
    PROVE  /\ PatchPos(n, r) + 1 = TextPlace(n, r.at)
           /\ TextPlace(n, r.at) \in 1..Len(mergedText)
<1>1. InputsAreUnits
  BY AllPlaced
<1>2. r.table = "text" /\ r.at \in Nat /\ r.at < Len(inputs[n].textBody)
  BY <1>1, RelocsOfObject
<1>3. TextPlace(n, r.at) \in 1..Len(mergedText)
  BY <1>2, TextPlaces
<1>4. ~SeveralChunks(n) => RemapTextOffset(n, r.at) = TextOffset(n) + r.at
  BY <1>2, UnsplitPlaces
<1>. QED BY <1>2, <1>3, <1>4 DEF PatchPos, TextPlace

(* And one in data too, unless the unit is split and has addresses in data. *)
LEMMA PatchInData ==
    ASSUME LayoutInv, RemapsDistinct, phase # "layout", SplitUnitsPlainData(link),
           NEW n \in ObjectIndex, NEW r \in inputs[n].dataRelocs
    PROVE  /\ PatchPos(n, r) + 1 = DataPlace(n, r.at)
           /\ DataPlace(n, r.at) \in 1..Len(mergedData)
<1>1. InputsAreUnits
  BY AllPlaced
<1>2. r.table = "data" /\ r.at \in Nat /\ r.at < Len(inputs[n].dataBody) /\ r.sym # NoLabel
      /\ r.sym = inputs[n].dataBody[r.at + 1].to
  BY <1>1, RelocsOfObject
<1>. DEFINE u == link.units[n]
<1>3. ~SeveralChunks(n)
  <2>1. SUFFICES ASSUME SeveralChunks(n) PROVE FALSE
    OBVIOUS
  <2>2. PICK j \in Filled(u), k \in Filled(u) : j # k
    BY <2>1, SplitUnits
  <2>3. u \in ToSet(link.units) /\ IsUnit(u) /\ inputs[n] = EmitO45(u, n) /\ n \in Nat \ {0}
    BY <1>1, ObjectsOfUnits DEF ToSet
  <2>. HIDE DEF u
  <2>4. /\ u.text \in Seq([name : STRING, body : Seq(Cells)])
        /\ j \in DOMAIN u.text /\ k \in DOMAIN u.text
        /\ u.text[j].body # <<>> /\ u.text[k].body # <<>>
    BY <2>2, <2>3 DEF Filled, IsUnit
  <2>5. \A c \in ToSet(u.data) : c.to = NoLabel
    BY <2>2, <2>3, <2>4 DEF SplitUnitsPlainData
  <2>6. /\ Len(inputs[n].dataBody) = Len(u.data) /\ u.data \in Seq(Cells)
        /\ \A i \in 1..Len(u.data) : inputs[n].dataBody[i].to = u.data[i].to
    <3>1. u.data \in Seq(Cells)
      BY <2>3 DEF IsUnit
    <3>2. Len(inputs[n].dataBody) = Len(u.data)
          /\ \A i \in 1..Len(u.data) : inputs[n].dataBody[i].to = u.data[i].to
      BY <2>3, ObjectBodies
    <3>. QED BY <3>1, <3>2
  <2>7. r.at + 1 \in 1..Len(u.data) /\ u.data[r.at + 1] \in ToSet(u.data)
    BY <1>2, <2>6 DEF ToSet
  <2>. QED BY <1>2, <2>5, <2>6, <2>7
<1>4. DataPlace(n, r.at) \in 1..Len(mergedData)
  BY <1>2, DataPlaces
<1>. QED BY <1>2, <1>3, <1>4 DEF PatchPos, DataPlace

(* A set of numbers up to a bound has a greatest.                           *)
LEMMA MaxOfNaturals ==
    ASSUME NEW N \in Nat, NEW S \in SUBSET (1..N), S # {}
    PROVE  Max(S) \in S /\ \A x \in S : Max(S) >= x
<1>. DEFINE T == {y \in 0..N : N - y \in S}
<1>1. T \in SUBSET Nat
  OBVIOUS
<1>2. PICK s \in S : TRUE
  OBVIOUS
<1>3. s \in 1..N /\ N - s \in 0..N /\ N - (N - s) = s
  OBVIOUS
<1>4. N - s \in T
  BY <1>3
<1>5. PICK m \in T : \A i \in T : m <= i
  <2>. HIDE DEF T
  <2>. QED BY <1>1, <1>4, LeastNumber
<1>6. N - m \in S /\ m \in 0..N
  BY <1>5
<1>7. ASSUME NEW x \in S PROVE N - m >= x
  <2>1. x \in 1..N /\ N - x \in 0..N /\ N - (N - x) = x
    OBVIOUS
  <2>2. N - x \in T
    BY <2>1
  <2>3. m <= N - x
    BY <1>5, <2>2
  <2>. QED BY <1>6, <2>1, <2>3
<1>8. \E y \in S : \A x \in S : y >= x
  BY <1>6, <1>7
<1>. QED BY <1>8 DEF Max

(* The convention of a function is one of those ca45 knows.                 *)
LEMMA FuncConvType ==
    ASSUME InputsAreUnits, NEW name
    PROVE  /\ FuncConv(name) \in Conventions
           /\ FuncConv(name) # "none" =>
                 \E n \in ObjectIndex : \E e \in inputs[n].exports :
                    e.name = name /\ e.conv = FuncConv(name)
           /\ FuncConv(name) = "none" => Attributed(name) = {}
<1>1. Len(inputs) \in Nat
  BY ObjectsOfUnits
<1>2. ASSUME NEW n \in Attributed(name)
      PROVE  \E e \in inputs[n].exports : /\ e.name = name /\ ConvIn(n, name) = e.conv
                                          /\ e.conv \in Conventions /\ e.conv # "none"
  <2>1. PICK e \in inputs[n].exports : e.name = name /\ e.conv # "none"
    BY <1>2 DEF Attributed
  <2>2. n \in ObjectIndex
    BY <1>2 DEF Attributed
  <2>3. ExportOf(n, name) = e /\ e.conv \in Conventions
    BY <2>1, <2>2, ExportOfName
  <2>4. ConvIn(n, name) = e.conv
    BY <2>3 DEF ConvIn, ExportOf
  <2>. QED BY <2>1, <2>3, <2>4
<1>3. Attributed(name) \subseteq 1..Len(inputs) /\ Attributed(name) \subseteq ObjectIndex
  BY DEF Attributed, ObjectIndex
<1>4. CASE Attributed(name) = {}
  BY <1>4 DEF FuncConv, Conventions
<1>5. CASE Attributed(name) # {}
  <2>1. Max(Attributed(name)) \in Attributed(name)
    BY <1>1, <1>3, <1>5, MaxOfNaturals
  <2>2. Min(Attributed(name)) \in Attributed(name)
    <3>1. Attributed(name) \in SUBSET Nat
      BY <1>1, <1>3
    <3>. QED BY <1>5, <3>1, MinOfNaturals
  <2>3. PICK n \in Attributed(name) : FuncConv(name) = ConvIn(n, name)
    <3>1. FuncConv(name) = ConvIn(Max(Attributed(name)), name)
          \/ FuncConv(name) = ConvIn(Min(Attributed(name)), name)
      BY <1>5 DEF FuncConv
    <3>. QED BY <2>1, <2>2, <3>1
  <2>4. PICK e \in inputs[n].exports : /\ e.name = name /\ ConvIn(n, name) = e.conv
                                       /\ e.conv \in Conventions /\ e.conv # "none"
    BY <1>2
  <2>5. n \in ObjectIndex /\ FuncConv(name) = e.conv
    BY <1>3, <2>3, <2>4
  <2>6. \E m \in ObjectIndex : \E x \in inputs[m].exports : x.name = name /\ x.conv = FuncConv(name)
    BY <2>4, <2>5
  <2>7. FuncConv(name) \in Conventions
    BY <2>4, <2>5
  <2>8. FuncConv(name) # "none"
    BY <2>4, <2>5
  <2>. QED BY <2>6, <2>7, <2>8
<1>. QED BY <1>4, <1>5

(* The functions of an object have names that have an address.              *)
LEMMA FunctionsKnown ==
    ASSUME LayoutInv, SymbolsRight, ImportsResolved, phase \in {"analyse", "relocate", "done"},
           NEW s \in Crossing
    PROVE  /\ s[1] \in ObjectIndex /\ s[2] \in inputs[s[1]].textRelocs /\ Mismatch(s[1], s[2])
           /\ Callee(s[1], s[2]) \in DOMAIN globalSymbols
           /\ Callee(s[1], s[2]) \in STRING
<1>1. InputsAreUnits
  BY AllPlaced
<1>2. s[1] \in ObjectIndex /\ s[2] \in inputs[s[1]].textRelocs /\ Mismatch(s[1], s[2])
  BY DEF Crossing
<1>. DEFINE n == s[1]  r == s[2]  o == inputs[n]
            here == {e \in TextExports(n) : e.offset = o.textBody[r.at + 1].val}
<1>3. CASE r.seg = "external"
  <2>1. Callee(n, r) = r.sym
    BY <1>3 DEF Callee
  <2>2. r.sym \in o.imports /\ r.at \in Nat /\ r.at < Len(o.textBody)
        /\ r.sym = o.textBody[r.at + 1].to
    <3>1. n \in ObjectIndex /\ r \in o.textRelocs
      BY <1>2
    <3>. HIDE DEF n, r, here
    <3>. QED BY <1>1, <1>3, <3>1, RelocsOfObject
  <2>3. r.sym \in DOMAIN globalSymbols
    BY <1>2, <2>2 DEF ImportsResolved
  <2>4. o.textBody[r.at + 1] \in ObjectCells
    <3>1. o.textBody \in Seq(ObjectCells)
      BY <1>1, <1>2, ObjectsOfUnits
    <3>2. r.at + 1 \in 1..Len(o.textBody)
      <4>1. Len(o.textBody) \in Nat
        BY <3>1
      <4>. HIDE DEF o, r
      <4>. QED BY <2>2, <4>1
    <3>. HIDE DEF o, r
    <3>. QED BY <3>1, <3>2, ElementOfSeq
  <2>. QED BY <1>2, <2>1, <2>2, <2>3, <2>4 DEF ObjectCells
<1>4. CASE r.seg # "external"
  <2>1. here # {} /\ Callee(n, r) = (CHOOSE e \in here : TRUE).name
    BY <1>2, <1>4 DEF Callee, Mismatch
  <2>. DEFINE e == CHOOSE x \in here : TRUE
  <2>2. e \in o.exports /\ Callee(n, r) = e.name
    <3>1. e \in here
      BY <2>1
    <3>. QED BY <2>1, <3>1 DEF TextExports
  <2>. HIDE DEF e
  <2>3. e.name \in STRING
    BY <1>1, <1>2, <2>2, ExportOfName
  <2>4. e.name \in ExportedBy(Len(inputs))
    BY <1>2, <2>2 DEF ExportedBy, ObjectIndex
  <2>5. e.name \in DOMAIN globalSymbols
    BY <2>4 DEF SymbolsRight, BoundariesKnown
  <2>. QED BY <1>2, <2>2, <2>3, <2>5
<1>. QED BY <1>3, <1>4

(* A thunk is a cell of the image.                                          *)
LEMMA ThunkCells ==
    ASSUME LayoutInv, BasesRight, SymbolsRight, ImportsResolved,
           phase \in {"analyse", "relocate", "done"}, NEW s \in Crossing
    PROVE  Thunk(BridgeAt(s)) \in ImageCells /\ IsThunk(Thunk(BridgeAt(s)))
<1>. DEFINE f == FuncConv(Caller(s[1], s[2].at))  c == Callee(s[1], s[2])
            v == globalSymbols[c].addr
            T == {"text", "data", "gap"} \cup Conventions
            U == Nat \cup STRING \cup {NoLabel}
<1>1. c \in DOMAIN globalSymbols /\ c \in STRING
  BY FunctionsKnown
<1>2. v \in Nat
  BY <1>1, SymbolTypes
<1>3. f \in Conventions
  BY AllPlaced, FuncConvType
<1>4. Thunk(BridgeAt(s)) = [op |-> "thunk", to |-> c, val |-> v, home |-> <<0, f, c>>]
  BY DEF Thunk, BridgeAt, Bridge
<1>5. <<0, f, c>> \in Nat \X T \X U
  <2>1. 0 \in Nat /\ f \in T /\ c \in U
    BY <1>1, <1>3
  <2>. HIDE DEF T, U, f, c
  <2>. QED BY <2>1
<1>. HIDE DEF f, c, v
<1>. QED BY <1>1, <1>2, <1>3, <1>4, <1>5 DEF ImageCells, IsThunk

(* The calls that need a thunk are finitely many.                           *)
LEMMA CrossingFinite ==
    ASSUME InputsAreUnits
    PROVE  IsFiniteSet({BridgeAt(s) : s \in Crossing})
<1>. DEFINE W(n) == {n} \X inputs[n].textRelocs
            F == {W(n) : n \in ObjectIndex}
            g == [n \in ObjectIndex |-> W(n)]
            A == UNION F
            B == {BridgeAt(s) : s \in Crossing}
            h == [s \in Crossing |-> BridgeAt(s)]
<1>1. Len(inputs) \in Nat
  BY ObjectsOfUnits
<1>2. IsFiniteSet(ObjectIndex)
  BY <1>1, FS_Interval DEF ObjectIndex
<1>3. IsFiniteSet(F)
  <2>1. g \in [ObjectIndex -> F] /\ \A t \in F : \E n \in ObjectIndex : g[n] = t
    OBVIOUS
  <2>. HIDE DEF F, g
  <2>2. g \in Surjection(ObjectIndex, F)
    BY <2>1 DEF Surjection
  <2>. QED BY <1>2, <2>2, FS_Surjection
<1>4. \A T \in F : IsFiniteSet(T)
  <2>. SUFFICES ASSUME NEW n \in ObjectIndex PROVE IsFiniteSet(W(n))
    OBVIOUS
  <2>1. IsFiniteSet(inputs[n].textRelocs)
    BY RelocsOfObject
  <2>2. IsFiniteSet({n})
    BY FS_Singleton
  <2>. QED BY <2>1, <2>2, FS_Product
<1>5. IsFiniteSet(A)
  <2>. HIDE DEF F
  <2>. QED BY <1>3, <1>4, FS_UNION
<1>6. Crossing \in SUBSET A
  BY DEF Crossing
<1>7. IsFiniteSet(Crossing)
  <2>. HIDE DEF A
  <2>. QED BY <1>5, <1>6, FS_Subset
<1>8. h \in Surjection(Crossing, B)
  <2>1. h \in [Crossing -> B] /\ \A t \in B : \E s \in Crossing : h[s] = t
    OBVIOUS
  <2>. HIDE DEF h, B
  <2>. QED BY <2>1 DEF Surjection
<1>. HIDE DEF h, B
<1>9. IsFiniteSet(B)
  BY <1>7, <1>8, FS_Surjection
<1>. QED BY <1>9 DEF B

-----------------------------------------------------------------------------
\* The inductive invariant: thunks, relocations, failure and image; all of it.

\* Every call across conventions to an import has its thunk.
ThunksMade ==
    /\ phase \in {"layout", "resolve", "analyse"} => callSiteOverrides = Empty
    /\ phase \in {"relocate", "done"} =>
          /\ DOMAIN callSiteOverrides =
                {<<s[1], s[2].at>> : s \in {x \in Crossing : x[2].seg = "external"}}
          /\ link.thunkMode = "error" => Crossing = {}
          /\ \A s \in Crossing : s[2].seg = "external" =>
                \E j \in 1..Len(mergedText) :
                    /\ callSiteOverrides[<<s[1], s[2].at>>] = AddressAt(j)
                    /\ mergedText[j] = Thunk(BridgeAt(s))

\* The value a relocation leaves in its cell, once it was applied.
Relocated(n, r, val) == IF <<n, r>> \in todo THEN val ELSE Target(n, r, val)

RelocsApplied ==
    /\ todo \subseteq AllRelocs
    /\ phase \in {"layout", "resolve", "analyse"} => todo = {}
    /\ phase \in {"relocate", "done"} => \A n \in ObjectIndex :
          /\ \A r \in inputs[n].textRelocs :
                mergedText[TextPlace(n, r.at)].val
                    = Relocated(n, r, inputs[n].textBody[r.at + 1].val)
          /\ SplitUnitsPlainData(link) => \A r \in inputs[n].dataRelocs :
                mergedData[DataPlace(n, r.at)].val
                    = Relocated(n, r, inputs[n].dataBody[r.at + 1].val)

\* The link fails for what resolveSymbols, emitDiagnostics and applyRelocs refuse.
ErrorHasCause ==
    phase = "error" =>
        \/ next <= Len(inputs) /\ \E e \in inputs[next].exports : Clashes(e)
        \/ next > Len(inputs)
           /\ \E n \in ObjectIndex : ~(inputs[n].imports \subseteq DOMAIN globalSymbols)
        \/ next > Len(inputs) /\ link.thunkMode = "error" /\ Crossing # {}
        \/ ~SplitUnitsPlainData(link)

\* The image is the text, the data, and what lies between.
ImageWritten ==
    /\ phase = "done" =>
          /\ todo = {}
          /\ binary = mergedText \o Gap(TextBase + Len(mergedText)) \o mergedData
    /\ phase # "done" => binary = <<>>

LinkInv ==
    /\ LayoutInv /\ Unpatched /\ RemapsDistinct
    /\ BasesRight /\ SymbolsRight /\ ImportsResolved
    /\ ThunksMade /\ RelocsApplied /\ ErrorHasCause /\ ImageWritten

(* Before the call graph is known there are neither thunks nor relocations. *)
LEMMA EarlyPhases ==
    ASSUME LinkInv, phase \in {"layout", "resolve", "analyse"},
           UNCHANGED <<inputs, link, callSiteOverrides, todo, binary>>,
           phase' \in {"layout", "resolve", "analyse"}
    PROVE  ThunksMade' /\ RelocsApplied' /\ ErrorHasCause' /\ ImageWritten'
<1>1. callSiteOverrides = Empty /\ todo = {} /\ binary = <<>> /\ AllRelocs' = AllRelocs
  BY ObjectsKept DEF LinkInv, ThunksMade, RelocsApplied, ImageWritten
<1>2. ThunksMade'
  BY <1>1 DEF ThunksMade, Empty
<1>3. RelocsApplied'
  BY <1>1 DEF RelocsApplied
<1>4. ErrorHasCause' /\ ImageWritten'
  BY <1>1 DEF ErrorHasCause, ImageWritten
<1>. QED BY <1>2, <1>3, <1>4

(* At first.                                                                *)
LEMMA LinkInvInit == LinkInit => LinkInv
<1>. SUFFICES ASSUME LinkInit PROVE LinkInv
  OBVIOUS
<1>1. LayoutInv /\ Unpatched /\ RemapsDistinct /\ BasesRight /\ SymbolsRight /\ ImportsResolved
  BY LayoutInit, CopiesInit, SymbolsInit
<1>2. callSiteOverrides = Empty /\ todo = {} /\ binary = <<>> /\ phase = "layout"
  BY DEF LinkInit
<1>3. ThunksMade /\ RelocsApplied /\ ErrorHasCause /\ ImageWritten
  BY <1>2 DEF ThunksMade, RelocsApplied, ErrorHasCause, ImageWritten
<1>. QED BY <1>1, <1>3 DEF LinkInv

(* Layout.                                                                  *)
LEMMA LinkInvLayout ==
    ASSUME LinkInv, PlaceChunk \/ PlaceData
    PROVE  LinkInv'
<1>1. LayoutInv' /\ Unpatched' /\ RemapsDistinct'
  <2>1. CASE PlaceChunk
    <3>1. LayoutTypes' /\ (\E D : LaidOut(D)')
      BY <2>1, PlaceChunkLaysOut DEF LinkInv
    <3>2. UNCHANGED <<link, inputs, phase, next, dataOffset, bssOffset, mergedData, mergedBssLen>>
      BY <2>1 DEF PlaceChunk
    <3>3. InputsAreUnits' /\ DataLaidOut' /\ BssLaidOut'
      <4>1. PlacedObjects' = PlacedObjects
        BY <3>2 DEF PlacedObjects
      <4>. QED BY <3>2, <4>1 DEF LinkInv, LayoutInv, InputsAreUnits, DataLaidOut, BssLaidOut
    <3>4. LayoutInv'
      BY <3>1, <3>3 DEF LayoutInv
    <3>. QED BY <2>1, <3>4, PlaceChunkCopies DEF LinkInv
  <2>2. CASE PlaceData
    BY <2>2, PlaceDataLaysOut, PlaceDataCopies DEF LinkInv
  <2>. QED BY <2>1, <2>2
<1>2. BasesRight' /\ SymbolsRight' /\ ImportsResolved'
  BY LayoutSymbols DEF LinkInv
<1>3. /\ phase = "layout" /\ phase' = "layout"
      /\ UNCHANGED <<inputs, link, callSiteOverrides, todo, binary>>
  BY DEF PlaceChunk, PlaceData
<1>4. ThunksMade' /\ RelocsApplied' /\ ErrorHasCause' /\ ImageWritten'
  BY <1>3, EarlyPhases
<1>. QED BY <1>1, <1>2, <1>4 DEF LinkInv

(* The bases are set.                                                       *)
LEMMA LinkInvSetBases ==
    ASSUME LinkInv, SetBases
    PROVE  LinkInv'
<1>1. LayoutInv' /\ BasesRight' /\ SymbolsRight' /\ ImportsResolved'
  BY SetBasesStep DEF LinkInv
<1>2. /\ phase = "layout" /\ phase' = "resolve"
      /\ UNCHANGED <<inputs, link, textRemaps, mergedText, mergedData, callSiteOverrides,
                     todo, binary>>
  BY DEF SetBases
<1>3. Unpatched' /\ RemapsDistinct'
  BY <1>2, CopiesStay DEF LinkInv
<1>4. ThunksMade' /\ RelocsApplied' /\ ErrorHasCause' /\ ImageWritten'
  BY <1>2, EarlyPhases
<1>. QED BY <1>1, <1>3, <1>4 DEF LinkInv

(* resolveSymbols fails for two strong definitions or a missing one.         *)
LEMMA LinkInvResolve ==
    ASSUME LinkInv, ResolveObject \/ CheckImports
    PROVE  LinkInv'
<1>1. LayoutInv' /\ BasesRight' /\ SymbolsRight' /\ ImportsResolved'
  BY ResolveObjectStep, CheckImportsStep DEF LinkInv
<1>2. /\ phase = "resolve" /\ phase' \in {"resolve", "analyse", "error"}
      /\ UNCHANGED <<inputs, link, textRemaps, mergedText, mergedData, callSiteOverrides,
                     todo, binary>>
  BY DEF ResolveObject, CheckImports
<1>3. Unpatched' /\ RemapsDistinct'
  BY <1>2, CopiesStay DEF LinkInv
<1>4. CASE phase' # "error"
  <2>1. ThunksMade' /\ RelocsApplied' /\ ErrorHasCause' /\ ImageWritten'
    BY <1>2, <1>4, EarlyPhases
  <2>. QED BY <1>1, <1>3, <2>1 DEF LinkInv
<1>5. CASE phase' = "error"
  <2>1. todo = {} /\ binary = <<>> /\ AllRelocs' = AllRelocs
    BY <1>2, ObjectsKept DEF LinkInv, RelocsApplied, ImageWritten
  <2>2. ThunksMade' /\ RelocsApplied' /\ ImageWritten'
    BY <1>2, <1>5, <2>1 DEF ThunksMade, RelocsApplied, ImageWritten
  <2>3. CASE ResolveObject
    <3>1. (\E e \in inputs[next].exports : Clashes(e)) /\ next <= Len(inputs)
          /\ globalSymbols' = globalSymbols /\ next' = next
      BY <1>2, <1>5, <2>3 DEF ResolveObject
    <3>2. (\E e \in inputs[next].exports : Clashes(e))'
      BY <1>2, <3>1 DEF Clashes, Known
    <3>3. ErrorHasCause'
      BY <1>2, <3>1, <3>2 DEF ErrorHasCause
    <3>. QED BY <1>1, <1>3, <2>2, <3>3 DEF LinkInv
  <2>4. CASE CheckImports
    <3>1. next > Len(inputs) /\ next' = next
          /\ \E n \in ObjectIndex : ~(inputs[n].imports \subseteq DOMAIN globalSymbols')
      BY <1>5, <2>4 DEF CheckImports
    <3>2. ObjectIndex' = ObjectIndex
      BY <1>2, ObjectsKept
    <3>3. ErrorHasCause'
      BY <1>2, <3>1, <3>2 DEF ErrorHasCause
    <3>. QED BY <1>1, <1>3, <2>2, <3>3 DEF LinkInv
  <2>. QED BY <2>3, <2>4
<1>. QED BY <1>4, <1>5

-----------------------------------------------------------------------------
\* GenerateThunks preserves it.

(* The call graph depends on the objects and the symbols.                   *)
LEMMA CallsKept ==
    ASSUME UNCHANGED <<inputs, globalSymbols>>
    PROVE  /\ Crossing' = Crossing
           /\ \A s : BridgeAt(s)' = BridgeAt(s)
           /\ \A b : Thunk(b)' = Thunk(b)
<1>1. \A name : FuncConv(name)' = FuncConv(name)
  BY DEF FuncConv, Attributed, ConvIn, ObjectIndex
<1>2. \A n, at : Caller(n, at)' = Caller(n, at)
  BY DEF Caller, TextExports
<1>3. \A n, r : Callee(n, r)' = Callee(n, r)
  BY DEF Callee, TextExports
<1>4. \A n, r : Mismatch(n, r)' <=> Mismatch(n, r)
  BY <1>1, <1>2, <1>3 DEF Mismatch, IsCall
<1>5. Crossing' = Crossing
  BY <1>4 DEF Crossing, ObjectIndex
<1>6. \A s : BridgeAt(s)' = BridgeAt(s)
  BY <1>1, <1>2, <1>3 DEF BridgeAt, Bridge
<1>. QED BY <1>5, <1>6 DEF Thunk

(* What does not move when the text only grows.                             *)
LEMMA PlacesKept ==
    ASSUME UNCHANGED <<textRemaps, dataOffset>>
    PROVE  /\ \A n, off : TextPlace(n, off)' = TextPlace(n, off)
           /\ \A n, off : DataPlace(n, off)' = DataPlace(n, off)
           /\ \A n, r : PatchPos(n, r)' = PatchPos(n, r)
<1>1. \A n, off : RemapTextOffset(n, off)' = RemapTextOffset(n, off)
  BY DEF RemapTextOffset, TextOffset
<1>. QED BY <1>1 DEF TextPlace, DataPlace, PatchPos, TextOffset, SeveralChunks

(* A relocation to apply belongs to an object.                              *)
LEMMA RelocsInTodo ==
    ASSUME NEW x \in AllRelocs
    PROVE  /\ x = <<x[1], x[2]>> /\ x[1] \in ObjectIndex
           /\ x[2] \in inputs[x[1]].textRelocs \cup inputs[x[1]].dataRelocs
BY DEF AllRelocs

\* The thunks generateThunks makes.
Bridges == {BridgeAt(s) : s \in Crossing}
ThunkCode == [i \in 1..Len(SetToSeq(Bridges)) |-> Thunk(SetToSeq(Bridges)[i])]
ThunkSites == {s \in Crossing : s[2].seg = "external"}
ThunkAddress(b) == TextBase + Len(mergedText)
                   + (CHOOSE i \in DOMAIN SetToSeq(Bridges) : SetToSeq(Bridges)[i] = b) - 1

(* What GenerateThunks does when it goes on.                                *)
LEMMA ThunksAppended ==
    ASSUME LinkInv, GenerateThunks, phase' = "relocate"
    PROVE  /\ mergedText' = mergedText \o ThunkCode
           /\ callSiteOverrides' =
                 [p \in {<<s[1], s[2].at>> : s \in ThunkSites} |->
                     ThunkAddress(BridgeAt(CHOOSE s \in ThunkSites : <<s[1], s[2].at>> = p))]
           /\ todo' = AllRelocs
           /\ ~(link.thunkMode = "error" /\ Crossing # {})
<1>1. Diagnose(Crossing) # "error"
  BY DEF GenerateThunks
<1>2. ~(link.thunkMode = "error" /\ Crossing # {})
  BY <1>1 DEF Diagnose
<1>. QED BY <1>1, <1>2 DEF GenerateThunks, Bridges, ThunkCode, ThunkSites, ThunkAddress

(* The thunks are cells, one for each pair of a convention and a function.  *)
LEMMA ThunkCodeFacts ==
    ASSUME LinkInv, phase = "analyse"
    PROVE  /\ ThunkCode \in Seq(ImageCells)
           /\ \A i \in 1..Len(ThunkCode) : IsThunk(ThunkCode[i])
           /\ \A s \in Crossing : \E i \in 1..Len(ThunkCode) :
                 /\ ThunkCode[i] = Thunk(BridgeAt(s))
                 /\ ThunkAddress(BridgeAt(s)) = TextBase + Len(mergedText) + i - 1
           /\ Crossing = {} => Len(ThunkCode) = 0
<1>. DEFINE T == SetToSeq(Bridges)
<1>1. LayoutInv /\ BasesRight /\ SymbolsRight /\ ImportsResolved /\ InputsAreUnits
  BY AllPlaced DEF LinkInv
<1>2. IsFiniteSet(Bridges)
  BY <1>1, CrossingFinite DEF Bridges
<1>3. /\ T \in Seq(Bridges) /\ Len(T) = Cardinality(Bridges) /\ Len(T) \in Nat
      /\ DOMAIN T = 1..Len(T)
      /\ \A x \in Bridges : \E i \in 1..Len(T) : T[i] = x
      /\ \A i \in 1..Len(T) : T[i] \in Bridges
  <2>1. /\ T \in Seq(Bridges) /\ Len(T) = Cardinality(Bridges)
        /\ \A x \in Bridges : \E i \in 1..Len(T) : T[i] = x
    BY <1>2, Listed
  <2>. HIDE DEF T
  <2>2. Len(T) \in Nat /\ DOMAIN T = 1..Len(T)
    BY <2>1
  <2>3. \A i \in 1..Len(T) : T[i] \in Bridges
    BY <2>1, ElementOfSeq
  <2>. QED BY <2>1, <2>2, <2>3
<1>4. ThunkCode = [i \in 1..Len(T) |-> Thunk(T[i])]
  BY DEF ThunkCode
<1>5. \A b \in Bridges : Thunk(b) \in ImageCells /\ IsThunk(Thunk(b))
  BY <1>1, ThunkCells DEF Bridges
<1>. HIDE DEF T
<1>6. \A i \in 1..Len(T) : Thunk(T[i]) \in ImageCells /\ IsThunk(Thunk(T[i]))
  BY <1>3, <1>5
<1>7. ThunkCode \in Seq(ImageCells) /\ Len(ThunkCode) = Len(T)
      /\ \A i \in 1..Len(T) : ThunkCode[i] = Thunk(T[i])
  BY <1>3, <1>4, <1>6
<1>8. ASSUME NEW s \in Crossing
      PROVE  \E i \in 1..Len(ThunkCode) :
                 /\ ThunkCode[i] = Thunk(BridgeAt(s))
                 /\ ThunkAddress(BridgeAt(s)) = TextBase + Len(mergedText) + i - 1
  <2>. DEFINE b == BridgeAt(s)  i == CHOOSE j \in DOMAIN T : T[j] = b
  <2>1. b \in Bridges
    BY DEF Bridges
  <2>. HIDE DEF b
  <2>2. i \in 1..Len(T) /\ T[i] = b
    BY <1>3, <2>1
  <2>3. ThunkAddress(b) = TextBase + Len(mergedText) + i - 1
    BY DEF ThunkAddress, T
  <2>. HIDE DEF i
  <2>. QED BY <1>7, <2>2, <2>3 DEF b
<1>9. Crossing = {} => Len(ThunkCode) = 0
  <2>1. Crossing = {} => Bridges = {}
    BY DEF Bridges
  <2>2. Bridges = {} => Cardinality(Bridges) = 0
    BY FS_EmptySet
  <2>. QED BY <1>3, <1>7, <2>1, <2>2
<1>. QED BY <1>6, <1>7, <1>8, <1>9

(* generateThunks keeps the invariant.                                      *)
LEMMA LinkInvThunks ==
    ASSUME LinkInv, GenerateThunks
    PROVE  LinkInv'
<1>1. /\ phase = "analyse"
      /\ UNCHANGED <<link, inputs, textRemaps, dataOffset, bssOffset, unplaced, mergedData,
                     mergedBssLen, dataBase, bssBase, globalSymbols, binary, next>>
  BY DEF GenerateThunks
<1>2. /\ LayoutInv /\ BasesRight /\ SymbolsRight /\ ImportsResolved /\ InputsAreUnits
      /\ LayoutTypes /\ unplaced = {} /\ PlacedObjects = Len(inputs) /\ DataLaidOut /\ BssLaidOut
  BY <1>1, AllPlaced DEF LinkInv, LayoutInv
<1>3. /\ ObjectIndex' = ObjectIndex /\ AllChunks' = AllChunks /\ AllRelocs' = AllRelocs
      /\ Crossing' = Crossing /\ \A s : BridgeAt(s)' = BridgeAt(s)
      /\ \A b : Thunk(b)' = Thunk(b)
      /\ \A n, off : TextPlace(n, off)' = TextPlace(n, off)
      /\ \A n, off : DataPlace(n, off)' = DataPlace(n, off)
  BY <1>1, ObjectsKept, CallsKept, PlacesKept
<1>4. binary = <<>> /\ todo = {} /\ next = Len(inputs) + 1 /\ Len(inputs) \in Nat
  <2>1. Len(inputs) \in Nat /\ next \in 1..(Len(inputs) + 1)
    BY <1>2, ObjectsOfUnits DEF LayoutTypes
  <2>2. ResolvedObjects = Len(inputs)
    BY <1>1, <1>2 DEF SymbolsRight, BoundariesKnown
  <2>3. next = Len(inputs) + 1
    BY <1>1, <2>1, <2>2 DEF ResolvedObjects
  <2>. QED BY <1>1, <2>1, <2>3 DEF LinkInv, ImageWritten, RelocsApplied
<1>5. phase' \in {"relocate", "error"}
  BY DEF GenerateThunks
<1>6. PlacedObjects' = PlacedObjects /\ ResolvedObjects' = ResolvedObjects
      /\ (BoundariesKnown' <=> BoundariesKnown)
  BY <1>1, <1>4, <1>5 DEF PlacedObjects, ResolvedObjects, BoundariesKnown
<1>7. SymbolsRight'
  BY <1>1, <1>2, <1>6, SymbolsStay
<1>8. ImportsResolved'
  BY <1>1, <1>2, <1>3 DEF ImportsResolved
<1>9. CASE phase' = "error"
  <2>1. Diagnose(Crossing) = "error"
    BY <1>9 DEF GenerateThunks
  <2>2. mergedText' = mergedText /\ callSiteOverrides' = callSiteOverrides /\ todo' = todo
    BY <1>9 DEF GenerateThunks
  <2>3. link.thunkMode = "error" /\ Crossing # {}
    BY <2>1 DEF Diagnose
  <2>4. LayoutInv'
    <3>1. next' \in 1..(Len(inputs) + 1)
          /\ phase' \in {"layout", "resolve", "analyse", "relocate", "done", "error"}
      BY <1>1, <1>4, <1>9
    <3>. QED BY <1>1, <1>2, <1>6, <2>2, <3>1, LayoutStays
  <2>5. Unpatched' /\ RemapsDistinct'
    BY <1>1, <1>9, <2>2, CopiesStay DEF LinkInv
  <2>6. BasesRight'
    BY <1>1, <1>2, <1>9, <2>2 DEF BasesRight
  <2>7. ThunksMade' /\ RelocsApplied' /\ ImageWritten'
    BY <1>1, <1>3, <1>4, <1>9, <2>2 DEF ThunksMade, RelocsApplied, ImageWritten
  <2>8. ErrorHasCause'
    BY <1>1, <1>3, <1>4, <2>3 DEF ErrorHasCause
  <2>. QED BY <1>7, <1>8, <2>4, <2>5, <2>6, <2>7, <2>8 DEF LinkInv
<1>10. CASE phase' = "relocate"
  <2>. DEFINE len == Len(mergedText)
  <2>1. /\ mergedText' = mergedText \o ThunkCode
        /\ callSiteOverrides' =
              [p \in {<<s[1], s[2].at>> : s \in ThunkSites} |->
                  ThunkAddress(BridgeAt(CHOOSE s \in ThunkSites : <<s[1], s[2].at>> = p))]
        /\ todo' = AllRelocs
        /\ ~(link.thunkMode = "error" /\ Crossing # {})
    BY <1>10, ThunksAppended
  <2>2. /\ ThunkCode \in Seq(ImageCells)
        /\ \A i \in 1..Len(ThunkCode) : IsThunk(ThunkCode[i])
        /\ \A s \in Crossing : \E i \in 1..Len(ThunkCode) :
              /\ ThunkCode[i] = Thunk(BridgeAt(s))
              /\ ThunkAddress(BridgeAt(s)) = TextBase + Len(mergedText) + i - 1
        /\ Crossing = {} => Len(ThunkCode) = 0
    BY <1>1, ThunkCodeFacts
  <2>3. mergedText \in Seq(ImageCells)
    BY <1>2 DEF LayoutTypes
  <2>4. /\ len \in Nat /\ Len(ThunkCode) \in Nat
        /\ mergedText' \in Seq(ImageCells) /\ Len(mergedText') = len + Len(ThunkCode)
        /\ \A i \in 1..len : mergedText'[i] = mergedText[i]
        /\ \A i \in 1..Len(ThunkCode) : mergedText'[len + i] = ThunkCode[i]
    BY <2>1, <2>2, <2>3
  <2>5. LayoutInv'
    <3>1. PICK D : LaidOut(D)
      BY <1>2 DEF LayoutInv
    <3>2. ASSUME NEW i \in 1..Len(mergedText'), i > len PROVE IsThunk(mergedText'[i])
      <4>1. i - len \in 1..Len(ThunkCode) /\ i = len + (i - len)
        <5>. HIDE DEF len
        <5>. QED BY <2>4, <3>2
      <4>. QED BY <2>2, <2>4, <4>1
    <3>3. LaidOut(D)'
      <4>1. \A i \in 1..Len(mergedText) : SameCell(mergedText'[i], mergedText[i])
        BY <2>4 DEF SameCell
      <4>2. Len(mergedText') >= Len(mergedText)
        BY <2>4
      <4>. QED BY <1>1, <1>2, <2>3, <2>4, <3>1, <3>2, <4>1, <4>2, TextKept
    <3>4. InputsAreUnits' /\ LayoutTypes'
      BY <1>1, <1>2, <1>3, <1>10, <2>4 DEF InputsAreUnits, LayoutTypes
    <3>5. DataLaidOut' /\ BssLaidOut'
      BY <1>1, <1>2, <1>6 DEF DataLaidOut, BssLaidOut
    <3>. QED BY <3>3, <3>4, <3>5 DEF LayoutInv
  <2>6. BasesRight'
    <3>1. link.thunkMode = "error" => Len(mergedText') = Len(mergedText)
      BY <2>1, <2>2, <2>4
    <3>. QED BY <1>1, <1>2, <1>10, <3>1 DEF BasesRight
  <2>7. Unpatched' /\ RemapsDistinct'
    <3>1. RemapsDistinct /\ RemapsDistinct'
      BY <1>1, <1>3 DEF LinkInv, RemapsDistinct
    <3>. QED BY <1>10, <3>1 DEF Unpatched
  <2>8. ThunksMade'
    <3>1. DOMAIN callSiteOverrides' = {<<s[1], s[2].at>> : s \in ThunkSites}
      BY <2>1
    <3>2. ASSUME NEW s \in Crossing, s[2].seg = "external"
          PROVE  \E j \in 1..Len(mergedText') :
                    /\ callSiteOverrides'[<<s[1], s[2].at>>] = AddressAt(j)
                    /\ mergedText'[j] = Thunk(BridgeAt(s))
      <4>. DEFINE p == <<s[1], s[2].at>>
                  t == CHOOSE x \in ThunkSites : <<x[1], x[2].at>> = p
      <4>1. s \in ThunkSites
        BY <3>2 DEF ThunkSites
      <4>2. t \in ThunkSites /\ <<t[1], t[2].at>> = p
        BY <4>1
      <4>3. callSiteOverrides'[p] = ThunkAddress(BridgeAt(t))
        BY <2>1, <4>1
      <4>4. t = s
        <5>. HIDE DEF t
        <5>1. t \in Crossing /\ t[1] = s[1] /\ t[2].at = s[2].at
          BY <4>2 DEF ThunkSites
        <5>2. t[2] \in inputs[s[1]].textRelocs /\ s[2] \in inputs[s[1]].textRelocs
              /\ s[1] \in ObjectIndex /\ s = <<s[1], s[2]>> /\ t = <<t[1], t[2]>>
          BY <5>1 DEF Crossing
        <5>3. t[2] = s[2]
          BY <1>2, <5>1, <5>2, RelocsOfObject
        <5>. QED BY <5>1, <5>2, <5>3
      <4>. HIDE DEF t, p
      <4>5. PICK i \in 1..Len(ThunkCode) :
              /\ ThunkCode[i] = Thunk(BridgeAt(s))
              /\ ThunkAddress(BridgeAt(s)) = TextBase + Len(mergedText) + i - 1
        BY <2>2
      <4>6. /\ len + i \in 1..Len(mergedText') /\ mergedText'[len + i] = Thunk(BridgeAt(s))
            /\ TextBase + len + i - 1 = TextBase + (len + i) - 1
        <5>1. mergedText'[len + i] = Thunk(BridgeAt(s))
          BY <2>4, <4>5
        <5>2. TextBase \in Nat
          BY BaseAssumption
        <5>. HIDE DEF len
        <5>. QED BY <2>4, <5>1, <5>2
      <4>7. callSiteOverrides'[p] = AddressAt(len + i)
        BY <4>3, <4>4, <4>5, <4>6 DEF AddressAt
      <4>. QED BY <4>6, <4>7 DEF p
    <3>3. DOMAIN callSiteOverrides' =
                {<<s[1], s[2].at>> : s \in {x \in Crossing : x[2].seg = "external"}}
      BY <3>1 DEF ThunkSites
    <3>4. \A j : AddressAt(j)' = AddressAt(j)
      BY DEF AddressAt
    <3>. QED BY <1>1, <1>3, <1>10, <2>1, <3>2, <3>3, <3>4 DEF ThunksMade
  <2>9. RelocsApplied'
    <3>1. Unpatched
      BY DEF LinkInv
    <3>2. ASSUME NEW n \in ObjectIndex, NEW r \in inputs[n].textRelocs
          PROVE  mergedText'[TextPlace(n, r.at)].val = inputs[n].textBody[r.at + 1].val
      <4>1. r.at \in Nat /\ r.at < Len(inputs[n].textBody)
        BY <1>2, RelocsOfObject
      <4>2. TextPlace(n, r.at) \in 1..Len(mergedText)
            /\ mergedText[TextPlace(n, r.at)].home = <<n, "text", r.at>>
        BY <1>1, <1>2, <4>1, TextPlaces
      <4>3. mergedText[TextPlace(n, r.at)] = inputs[n].textBody[r.at + 1]
        BY <1>1, <3>1, <4>2 DEF Unpatched, AsAssembled
      <4>. QED BY <2>4, <4>2, <4>3
    <3>3. ASSUME NEW n \in ObjectIndex, NEW r \in inputs[n].dataRelocs
          PROVE  mergedData[DataPlace(n, r.at)].val = inputs[n].dataBody[r.at + 1].val
      <4>1. r.at \in Nat /\ r.at < Len(inputs[n].dataBody)
        BY <1>2, RelocsOfObject
      <4>2. DataPlace(n, r.at) \in 1..Len(mergedData)
            /\ mergedData[DataPlace(n, r.at)].home = <<n, "data", r.at>>
        BY <1>1, <1>2, <4>1, DataPlaces
      <4>3. mergedData[DataPlace(n, r.at)] = inputs[n].dataBody[r.at + 1]
        BY <1>1, <3>1, <4>2 DEF Unpatched, AsAssembled
      <4>. QED BY <4>3
    <3>4. \A n \in ObjectIndex : \A r \in inputs[n].textRelocs \cup inputs[n].dataRelocs :
              <<n, r>> \in todo'
      BY <2>1 DEF AllRelocs
    <3>5. \A n \in ObjectIndex : \A r \in inputs[n].textRelocs \cup inputs[n].dataRelocs : \A v :
              Relocated(n, r, v)' = v
      BY <3>4 DEF Relocated
    <3>6. (\A n \in ObjectIndex :
          /\ \A r \in inputs[n].textRelocs :
                mergedText[TextPlace(n, r.at)].val
                    = Relocated(n, r, inputs[n].textBody[r.at + 1].val)
          /\ SplitUnitsPlainData(link) => \A r \in inputs[n].dataRelocs :
                mergedData[DataPlace(n, r.at)].val
                    = Relocated(n, r, inputs[n].dataBody[r.at + 1].val))'
      <4>1. ASSUME NEW n \in ObjectIndex, NEW r \in inputs[n].textRelocs
            PROVE  (mergedText[TextPlace(n, r.at)].val
                      = Relocated(n, r, inputs[n].textBody[r.at + 1].val))'
        BY <1>1, <1>3, <3>2, <3>5
      <4>2. ASSUME NEW n \in ObjectIndex, NEW r \in inputs[n].dataRelocs
            PROVE  (mergedData[DataPlace(n, r.at)].val
                      = Relocated(n, r, inputs[n].dataBody[r.at + 1].val))'
        BY <1>1, <1>3, <3>3, <3>5
      <4>. QED BY <1>1, <1>3, <4>1, <4>2
    <3>. QED BY <1>3, <1>10, <2>1, <3>6 DEF RelocsApplied
  <2>10. ErrorHasCause' /\ ImageWritten'
    BY <1>1, <1>4, <1>10 DEF ErrorHasCause, ImageWritten
  <2>. QED BY <1>7, <1>8, <2>5, <2>6, <2>7, <2>8, <2>9, <2>10 DEF LinkInv
<1>. QED BY <1>5, <1>9, <1>10

-----------------------------------------------------------------------------
\* ApplyReloc preserves it.

(* Patching one cell of a text.                                             *)
LEMMA PatchedText ==
    ASSUME NEW s \in Seq(ImageCells), NEW p \in 1..Len(s), NEW v \in Nat
    PROVE  LET t == [s EXCEPT ![p].val = v] IN
           /\ t \in Seq(ImageCells) /\ Len(t) = Len(s)
           /\ \A i \in 1..Len(s) : SameCell(t[i], s[i]) /\ (i # p => t[i] = s[i])
           /\ t[p].val = v
<1>. DEFINE e == [s[p] EXCEPT !.val = v]
<1>1. s[p] \in ImageCells
  BY ElementOfSeq
<1>. DEFINE T == Nat \X ({"text", "data", "gap"} \cup Conventions) \X (Nat \cup STRING \cup {NoLabel})
<1>2. e \in ImageCells /\ SameCell(e, s[p]) /\ e.val = v
  <2>1. ImageCells = [op : {"jsr", "ref", "rts", "thunk"}, to : STRING \cup {NoLabel}, val : Nat,
                      home : T]
    BY DEF ImageCells
  <2>. HIDE DEF T
  <2>2. e = [op |-> s[p].op, to |-> s[p].to, val |-> v, home |-> s[p].home]
    BY <1>1, <2>1
  <2>. QED BY <1>1, <2>1, <2>2 DEF SameCell
<1>. HIDE DEF e
<1>. DEFINE t == [s EXCEPT ![p] = e]
<1>3. [s EXCEPT ![p].val = v] = t
  BY DEF e
<1>4. /\ t \in Seq(ImageCells) /\ Len(t) = Len(s)
      /\ \A j \in 1..Len(s) : t[j] = IF j = p THEN e ELSE s[j]
  BY <1>2, ExceptSeq
<1>. HIDE DEF t
<1>. QED BY <1>2, <1>3, <1>4 DEF SameCell

(* And one of the data.                                                     *)
LEMMA PatchedData ==
    ASSUME NEW s \in Seq(ObjectCells), NEW p \in 1..Len(s), NEW v \in Nat
    PROVE  LET t == [s EXCEPT ![p].val = v] IN
           /\ t \in Seq(ObjectCells) /\ Len(t) = Len(s)
           /\ \A i \in 1..Len(s) : SameCell(t[i], s[i]) /\ (i # p => t[i] = s[i])
           /\ t[p].val = v
<1>. DEFINE e == [s[p] EXCEPT !.val = v]
<1>1. s[p] \in ObjectCells
  BY ElementOfSeq
<1>. DEFINE T == (Nat \ {0}) \X {"text", "data"} \X Nat
<1>2. e \in ObjectCells /\ SameCell(e, s[p]) /\ e.val = v
  <2>1. ObjectCells = [op : {"jsr", "ref", "rts"}, to : STRING, val : Nat, home : T]
    BY DEF ObjectCells
  <2>. HIDE DEF T
  <2>2. e = [op |-> s[p].op, to |-> s[p].to, val |-> v, home |-> s[p].home]
    BY <1>1, <2>1
  <2>. QED BY <1>1, <2>1, <2>2 DEF SameCell
<1>. HIDE DEF e
<1>. DEFINE t == [s EXCEPT ![p] = e]
<1>3. [s EXCEPT ![p].val = v] = t
  BY DEF e
<1>4. /\ t \in Seq(ObjectCells) /\ Len(t) = Len(s)
      /\ \A j \in 1..Len(s) : t[j] = IF j = p THEN e ELSE s[j]
  BY <1>2, ExceptSeq
<1>. HIDE DEF t
<1>. QED BY <1>2, <1>3, <1>4 DEF SameCell

(* Addresses are numbers.                                                   *)
LEMMA TargetType ==
    ASSUME LinkInv, phase \in {"relocate", "done"}, NEW n \in ObjectIndex,
           NEW r \in inputs[n].textRelocs \cup inputs[n].dataRelocs, NEW val \in Nat
    PROVE  Target(n, r, val) \in Nat
<1>1. LayoutInv /\ BasesRight /\ SymbolsRight /\ ImportsResolved /\ InputsAreUnits /\ LayoutTypes
      /\ dataOffset[n] \in Nat /\ bssOffset[n] \in Nat
  BY AllPlaced DEF LinkInv
<1>2. /\ r.at \in Nat /\ r.seg \in {"text", "data", "bss", "external"}
      /\ r.seg = "external" => r.sym \in inputs[n].imports
  BY <1>1, RelocsOfObject
<1>3. TextBase \in Nat /\ dataBase \in Nat /\ bssBase \in Nat
  BY <1>1, BaseAssumption DEF BasesRight
<1>4. CASE r.seg = "external"
  <2>1. r.sym \in DOMAIN globalSymbols
    BY <1>1, <1>2, <1>4 DEF ImportsResolved
  <2>2. globalSymbols[r.sym].addr + val \in Nat
    BY <1>1, <2>1, SymbolTypes
  <2>3. ASSUME <<n, r.at>> \in DOMAIN callSiteOverrides
        PROVE  callSiteOverrides[<<n, r.at>>] \in Nat
    <3>1. PICK s \in Crossing : s[2].seg = "external" /\ <<n, r.at>> = <<s[1], s[2].at>>
      BY <2>3 DEF LinkInv, ThunksMade
    <3>2. PICK j \in 1..Len(mergedText) : callSiteOverrides[<<s[1], s[2].at>>] = AddressAt(j)
      BY <3>1 DEF LinkInv, ThunksMade
    <3>3. AddressAt(j) \in Nat
      BY <1>3 DEF AddressAt
    <3>. QED BY <3>1, <3>2, <3>3
  <2>. QED BY <1>4, <2>2, <2>3 DEF Target, ExternalTarget
<1>5. CASE r.seg # "external"
  <2>1. TextOffset(n) \in Nat /\ RemapTextOffset(n, val) \in Nat
    BY <1>1, RemapType
  <2>2. SegmentStart(n, r.seg) \in Nat
    BY <1>1, <1>2, <1>3, <1>5, <2>1 DEF SegmentStart
  <2>. QED BY <1>3, <1>5, <2>1, <2>2 DEF Target, InternalTarget
<1>. QED BY <1>4, <1>5

(* Patches go to a place in the segment or behind it.                       *)
LEMMA PatchPosType ==
    ASSUME LayoutInv, phase # "layout", NEW n \in ObjectIndex,
           NEW r \in inputs[n].textRelocs \cup inputs[n].dataRelocs
    PROVE  PatchPos(n, r) \in Nat
<1>1. InputsAreUnits /\ dataOffset[n] \in Nat
  BY AllPlaced
<1>2. r.at \in Nat
  BY <1>1, RelocsOfObject
<1>3. TextOffset(n) \in Nat /\ RemapTextOffset(n, r.at) \in Nat
  BY <1>2, RemapType
<1>. QED BY <1>1, <1>2, <1>3 DEF PatchPos

(* Where a relocation leads does not change while relocations are applied.  *)
LEMMA TargetsKept ==
    ASSUME UNCHANGED <<textRemaps, dataOffset, bssOffset, dataBase, bssBase, globalSymbols,
                       callSiteOverrides>>
    PROVE  \A n, r, val : Target(n, r, val)' = Target(n, r, val)
<1>1. /\ \A n, off : RemapTextOffset(n, off)' = RemapTextOffset(n, off)
      /\ \A n, seg : SegmentStart(n, seg)' = SegmentStart(n, seg)
  BY AddressesKept
<1>. QED BY <1>1 DEF Target, ExternalTarget, InternalTarget, SeveralChunks

\* One relocation x is the next to be applied.
Applies(x) ==
    LET n == x[1]
        r == x[2]
        body == IF r.table = "text" THEN mergedText ELSE mergedData
        p == PatchPos(n, r) + 1
        patched == [body EXCEPT ![p].val = Target(n, r, @)]
    IN  IF p > Len(body)
        THEN phase' = "error" /\ UNCHANGED <<mergedText, mergedData, todo>>
        ELSE /\ mergedText' = IF r.table = "text" THEN patched ELSE mergedText
             /\ mergedData' = IF r.table = "data" THEN patched ELSE mergedData
             /\ todo' = todo \ {x}
             /\ UNCHANGED phase

\* What no relocation changes.
RelocFrame ==
    UNCHANGED <<link, inputs, textRemaps, dataOffset, bssOffset, unplaced, mergedBssLen,
                dataBase, bssBase, globalSymbols, callSiteOverrides, binary, next>>

(* The state in which relocations are applied.                              *)
LEMMA WhileRelocating ==
    ASSUME LinkInv, phase = "relocate", RelocFrame, phase' \in {"relocate", "error"}
    PROVE  /\ LayoutInv /\ InputsAreUnits /\ LayoutTypes /\ unplaced = {} /\ DataLaidOut /\ BssLaidOut
           /\ PlacedObjects = Len(inputs) /\ PlacedObjects' = PlacedObjects
           /\ Len(inputs) \in Nat /\ next = Len(inputs) + 1
           /\ SymbolsRight' /\ ImportsResolved' /\ RemapsDistinct /\ RemapsDistinct' /\ Unpatched'
           /\ binary = <<>> /\ ImageWritten' /\ InputsAreUnits'
           /\ ObjectIndex' = ObjectIndex /\ AllChunks' = AllChunks /\ AllRelocs' = AllRelocs
           /\ Crossing' = Crossing /\ (\A s : BridgeAt(s)' = BridgeAt(s))
           /\ \A b : Thunk(b)' = Thunk(b)
           /\ \A n, off : TextPlace(n, off)' = TextPlace(n, off)
           /\ \A n, off : DataPlace(n, off)' = DataPlace(n, off)
           /\ \A n, r, val : Target(n, r, val)' = Target(n, r, val)
<1>0. UNCHANGED <<link, inputs, textRemaps, dataOffset, bssOffset, unplaced, mergedBssLen,
                dataBase, bssBase, globalSymbols, callSiteOverrides, binary, next>>
  BY DEF RelocFrame
<1>1. /\ LayoutInv /\ InputsAreUnits /\ LayoutTypes /\ unplaced = {} /\ DataLaidOut /\ BssLaidOut
      /\ PlacedObjects = Len(inputs) /\ SymbolsRight /\ ImportsResolved
  BY AllPlaced DEF LinkInv, LayoutInv
<1>2. Len(inputs) \in Nat /\ next = Len(inputs) + 1
  <2>1. Len(inputs) \in Nat /\ next \in 1..(Len(inputs) + 1)
    BY <1>1, ObjectsOfUnits DEF LayoutTypes
  <2>2. ResolvedObjects = Len(inputs)
    BY <1>1 DEF SymbolsRight, BoundariesKnown
  <2>. QED BY <2>1, <2>2 DEF ResolvedObjects
<1>3. /\ PlacedObjects' = PlacedObjects /\ ResolvedObjects' = ResolvedObjects
      /\ (BoundariesKnown' <=> BoundariesKnown)
  BY <1>0, <1>2 DEF PlacedObjects, ResolvedObjects, BoundariesKnown
<1>4. SymbolsRight'
  BY <1>0, <1>1, <1>3, SymbolsStay
<1>5. /\ ObjectIndex' = ObjectIndex /\ AllChunks' = AllChunks /\ AllRelocs' = AllRelocs
      /\ Crossing' = Crossing /\ (\A s : BridgeAt(s)' = BridgeAt(s))
      /\ \A b : Thunk(b)' = Thunk(b)
      /\ \A n, off : TextPlace(n, off)' = TextPlace(n, off)
      /\ \A n, off : DataPlace(n, off)' = DataPlace(n, off)
      /\ \A n, r, val : Target(n, r, val)' = Target(n, r, val)
  BY <1>0, ObjectsKept, CallsKept, PlacesKept, TargetsKept
<1>6. ImportsResolved'
  BY <1>0, <1>1, <1>5 DEF ImportsResolved
<1>7. RemapsDistinct /\ RemapsDistinct'
  BY <1>0, <1>5 DEF LinkInv, RemapsDistinct
<1>8. Unpatched'
  BY DEF Unpatched
<1>9. binary = <<>> /\ ImageWritten'
  BY <1>0 DEF LinkInv, ImageWritten
<1>10. InputsAreUnits'
  BY <1>0, <1>1 DEF InputsAreUnits
<1>. QED BY <1>1, <1>2, <1>3, <1>4, <1>5, <1>6, <1>7, <1>8, <1>9, <1>10

(* A patch outside its segment fails the link.                              *)
LEMMA PatchOutside ==
    ASSUME LinkInv, phase = "relocate", RelocFrame, NEW x \in todo,
           phase' = "error", UNCHANGED <<mergedText, mergedData, todo>>, ~SplitUnitsPlainData(link)
    PROVE  LinkInv'
<1>0. UNCHANGED <<link, inputs, textRemaps, dataOffset, bssOffset, unplaced, mergedBssLen,
                dataBase, bssBase, globalSymbols, callSiteOverrides, binary, next>>
  BY DEF RelocFrame
<1>1. /\ LayoutInv /\ unplaced = {} /\ PlacedObjects' = PlacedObjects
      /\ Len(inputs) \in Nat /\ next = Len(inputs) + 1 /\ AllRelocs' = AllRelocs
      /\ SymbolsRight' /\ ImportsResolved' /\ RemapsDistinct' /\ Unpatched' /\ ImageWritten'
  BY WhileRelocating
<1>2. LayoutInv'
  <2>1. next' \in 1..(Len(inputs) + 1)
        /\ phase' \in {"layout", "resolve", "analyse", "relocate", "done", "error"}
    BY <1>0, <1>1
  <2>. QED BY <1>0, <1>1, <2>1, LayoutStays
<1>3. BasesRight'
  BY <1>0 DEF LinkInv, BasesRight
<1>4. ThunksMade' /\ RelocsApplied'
  BY <1>1 DEF LinkInv, ThunksMade, RelocsApplied
<1>5. ErrorHasCause'
  BY <1>0 DEF ErrorHasCause
<1>. QED BY <1>1, <1>2, <1>3, <1>4, <1>5 DEF LinkInv

(* A patch in the text.                                                     *)
LEMMA PatchesText ==
    ASSUME LinkInv, phase = "relocate", RelocFrame, NEW x \in todo,
           x[2].table = "text", phase' = "relocate", Applies(x)
    PROVE  LinkInv'
<1>0. UNCHANGED <<link, inputs, textRemaps, dataOffset, bssOffset, unplaced, mergedBssLen,
                dataBase, bssBase, globalSymbols, callSiteOverrides, binary, next>>
  BY DEF RelocFrame
<1>1. /\ LayoutInv /\ InputsAreUnits /\ LayoutTypes /\ unplaced = {} /\ DataLaidOut /\ BssLaidOut
      /\ PlacedObjects' = PlacedObjects
      /\ Len(inputs) \in Nat /\ next = Len(inputs) + 1
      /\ SymbolsRight' /\ ImportsResolved' /\ RemapsDistinct' /\ Unpatched'
      /\ ImageWritten' /\ InputsAreUnits'
      /\ ObjectIndex' = ObjectIndex /\ AllChunks' = AllChunks /\ AllRelocs' = AllRelocs
      /\ Crossing' = Crossing /\ (\A s : BridgeAt(s)' = BridgeAt(s))
      /\ \A b : Thunk(b)' = Thunk(b)
      /\ \A n, off : TextPlace(n, off)' = TextPlace(n, off)
      /\ \A n, off : DataPlace(n, off)' = DataPlace(n, off)
      /\ \A n, r, val : Target(n, r, val)' = Target(n, r, val)
  BY WhileRelocating
<1>. DEFINE n == x[1]  r == x[2]  p == TextPlace(n, r.at)
<1>2. x \in AllRelocs /\ x = <<n, r>> /\ n \in ObjectIndex
      /\ r \in inputs[n].textRelocs \cup inputs[n].dataRelocs
  BY RelocsInTodo DEF LinkInv, RelocsApplied
<1>3. r \in inputs[n].textRelocs /\ r.at \in Nat /\ r.at < Len(inputs[n].textBody)
  BY <1>1, <1>2, RelocsOfObject
<1>4. PatchPos(n, r) + 1 = p /\ p \in 1..Len(mergedText)
  BY <1>1, <1>2, <1>3, PatchInText
<1>5. mergedText \in Seq(ImageCells) /\ mergedText[p].val \in Nat
      /\ mergedText[p].home = <<n, "text", r.at>>
  BY <1>1, <1>2, <1>3, TextPlaces DEF LayoutTypes, ImageCells
<1>. DEFINE v == Target(n, r, mergedText[p].val)
<1>6. /\ mergedText' = [mergedText EXCEPT ![p].val = v]
      /\ mergedData' = mergedData /\ todo' = todo \ {x}
  <2>1. ~(p > Len(mergedText))
    BY <1>4, <1>5
  <2>. HIDE DEF p
  <2>. QED BY <1>4, <2>1 DEF Applies
<1>7. v \in Nat
  BY <1>2, <1>5, TargetType
<1>. HIDE DEF v
<1>8. /\ mergedText' \in Seq(ImageCells) /\ Len(mergedText') = Len(mergedText)
      /\ \A i \in 1..Len(mergedText) :
            SameCell(mergedText'[i], mergedText[i]) /\ (i # p => mergedText'[i] = mergedText[i])
      /\ mergedText'[p].val = v
  <2>. HIDE DEF p
  <2>. QED BY <1>4, <1>5, <1>6, <1>7, PatchedText
<1>9. Len(mergedText) \in Nat
  BY <1>5
<1>. HIDE DEF p
<1>10. LayoutInv'
  <2>1. PICK D : LaidOut(D)
    BY <1>1 DEF LayoutInv
  <2>2. LaidOut(D)'
    <3>1. \A i \in 1..Len(mergedText') : i > Len(mergedText) => IsThunk(mergedText'[i])
      BY <1>8, <1>9
    <3>2. Len(mergedText') >= Len(mergedText)
      BY <1>8, <1>9
    <3>. QED BY <1>0, <1>1, <1>5, <1>8, <2>1, <3>1, <3>2, TextKept
  <2>3. LayoutTypes'
    BY <1>0, <1>1, <1>6, <1>8 DEF LayoutTypes
  <2>4. DataLaidOut' /\ BssLaidOut'
    BY <1>0, <1>1, <1>6 DEF DataLaidOut, BssLaidOut
  <2>. QED BY <1>1, <2>2, <2>3, <2>4 DEF LayoutInv
<1>11. BasesRight'
  BY <1>0, <1>6, <1>8 DEF LinkInv, BasesRight
<1>12. ThunksMade'
  <2>1. \A j : AddressAt(j)' = AddressAt(j)
    BY DEF AddressAt
  <2>2. ASSUME NEW s \in Crossing, s[2].seg = "external"
        PROVE  \E j \in 1..Len(mergedText') :
                  /\ callSiteOverrides[<<s[1], s[2].at>>] = AddressAt(j)
                  /\ mergedText'[j] = Thunk(BridgeAt(s))
    <3>1. PICK j \in 1..Len(mergedText) :
              /\ callSiteOverrides[<<s[1], s[2].at>>] = AddressAt(j)
              /\ mergedText[j] = Thunk(BridgeAt(s))
      BY <2>2 DEF LinkInv, ThunksMade
    <3>2. j # p
      <4>1. mergedText[j].home[1] = 0
        BY <3>1 DEF Thunk
      <4>2. mergedText[p].home[1] # 0
        BY <1>1, <1>2, <1>5, ObjectsOfUnits
      <4>. QED BY <4>1, <4>2
    <3>. QED BY <1>8, <3>1, <3>2
  <2>. QED BY <1>0, <1>1, <2>1, <2>2 DEF LinkInv, ThunksMade
<1>13. RelocsApplied'
  <2>1. RelocsApplied
    BY DEF LinkInv
  <2>2. ASSUME NEW m \in ObjectIndex, NEW q \in inputs[m].textRelocs
        PROVE  (mergedText[TextPlace(m, q.at)].val
                   = Relocated(m, q, inputs[m].textBody[q.at + 1].val))'
    <3>. DEFINE w == inputs[m].textBody[q.at + 1].val
    <3>1. mergedText[TextPlace(m, q.at)].val = Relocated(m, q, w)
      BY <2>1 DEF RelocsApplied
    <3>2. q.at \in Nat /\ q.at < Len(inputs[m].textBody)
      BY <1>1, RelocsOfObject
    <3>3. TextPlace(m, q.at) \in 1..Len(mergedText)
          /\ mergedText[TextPlace(m, q.at)].home = <<m, "text", q.at>>
      BY <1>1, <3>2, TextPlaces
    <3>. HIDE DEF w
    <3>4. CASE <<m, q>> = <<n, r>>
      <4>1. mergedText[p].val = w
        BY <1>2, <3>1, <3>4 DEF Relocated, p
      <4>2. mergedText'[p].val = Target(m, q, w)
        BY <1>8, <3>4, <4>1 DEF v
      <4>3. <<m, q>> \notin todo'
        BY <1>2, <1>6, <3>4
      <4>4. Relocated(m, q, w)' = Target(m, q, w)
        BY <1>0, <1>1, <4>3 DEF Relocated, w
      <4>. QED BY <1>0, <1>1, <3>4, <4>2, <4>4 DEF p, w
    <3>5. CASE <<m, q>> # <<n, r>>
      <4>1. TextPlace(m, q.at) # p
        <5>1. SUFFICES ASSUME TextPlace(m, q.at) = p PROVE FALSE
          OBVIOUS
        <5>2. m = n /\ q.at = r.at
          BY <1>5, <3>3, <5>1
        <5>3. q = r
          BY <1>1, <1>2, <1>3, <5>2, RelocsOfObject
        <5>. QED BY <3>5, <5>2, <5>3
      <4>2. mergedText'[TextPlace(m, q.at)].val = Relocated(m, q, w)
        BY <1>8, <3>1, <3>3, <4>1
      <4>3. <<m, q>> \in todo' <=> <<m, q>> \in todo
        BY <1>2, <1>6, <3>5
      <4>4. Relocated(m, q, w)' = Relocated(m, q, w)
        BY <1>0, <1>1, <4>3 DEF Relocated, w
      <4>. QED BY <1>0, <1>1, <4>2, <4>4 DEF w
    <3>. QED BY <3>4, <3>5
  <2>3. ASSUME NEW m \in ObjectIndex, NEW q \in inputs[m].dataRelocs, SplitUnitsPlainData(link)
        PROVE  (mergedData[DataPlace(m, q.at)].val
                   = Relocated(m, q, inputs[m].dataBody[q.at + 1].val))'
    <3>1. mergedData[DataPlace(m, q.at)].val = Relocated(m, q, inputs[m].dataBody[q.at + 1].val)
      BY <2>1, <2>3 DEF RelocsApplied
    <3>2. q.table = "data"
      BY <1>1, RelocsOfObject
    <3>3. <<m, q>> \in todo' <=> <<m, q>> \in todo
      <4>1. <<m, q>> # x
        BY <3>2
      <4>. QED BY <1>6, <4>1
    <3>4. Relocated(m, q, inputs[m].dataBody[q.at + 1].val)'
             = Relocated(m, q, inputs[m].dataBody[q.at + 1].val)
      BY <1>0, <1>1, <3>3 DEF Relocated
    <3>. QED BY <1>1, <1>6, <3>1, <3>4
  <2>4. (todo \subseteq AllRelocs)'
    BY <1>1, <1>6, <2>1 DEF RelocsApplied
  <2>5. (\A m \in ObjectIndex :
          /\ \A q \in inputs[m].textRelocs :
                mergedText[TextPlace(m, q.at)].val
                    = Relocated(m, q, inputs[m].textBody[q.at + 1].val)
          /\ SplitUnitsPlainData(link) => \A q \in inputs[m].dataRelocs :
                mergedData[DataPlace(m, q.at)].val
                    = Relocated(m, q, inputs[m].dataBody[q.at + 1].val))'
    BY <1>0, <1>1, <2>2, <2>3
  <2>. QED BY <2>4, <2>5 DEF RelocsApplied
<1>14. ErrorHasCause'
  BY DEF ErrorHasCause
<1>. QED BY <1>1, <1>10, <1>11, <1>12, <1>13, <1>14 DEF LinkInv

(* A patch in the data.                                                     *)
LEMMA PatchesData ==
    ASSUME LinkInv, phase = "relocate", RelocFrame, NEW x \in todo,
           x[2].table = "data", phase' = "relocate", Applies(x)
    PROVE  LinkInv'
<1>0. UNCHANGED <<link, inputs, textRemaps, dataOffset, bssOffset, unplaced, mergedBssLen,
                dataBase, bssBase, globalSymbols, callSiteOverrides, binary, next>>
  BY DEF RelocFrame
<1>1. /\ LayoutInv /\ InputsAreUnits /\ LayoutTypes /\ unplaced = {} /\ DataLaidOut /\ BssLaidOut
      /\ PlacedObjects = Len(inputs) /\ PlacedObjects' = PlacedObjects
      /\ Len(inputs) \in Nat /\ next = Len(inputs) + 1
      /\ SymbolsRight' /\ ImportsResolved' /\ RemapsDistinct /\ RemapsDistinct' /\ Unpatched'
      /\ ImageWritten' /\ InputsAreUnits'
      /\ ObjectIndex' = ObjectIndex /\ AllChunks' = AllChunks /\ AllRelocs' = AllRelocs
      /\ Crossing' = Crossing /\ (\A s : BridgeAt(s)' = BridgeAt(s))
      /\ \A b : Thunk(b)' = Thunk(b)
      /\ \A n, off : TextPlace(n, off)' = TextPlace(n, off)
      /\ \A n, off : DataPlace(n, off)' = DataPlace(n, off)
      /\ \A n, r, val : Target(n, r, val)' = Target(n, r, val)
  BY WhileRelocating
<1>. DEFINE n == x[1]  r == x[2]  p == PatchPos(n, r) + 1
<1>2. x \in AllRelocs /\ x = <<n, r>> /\ n \in ObjectIndex
      /\ r \in inputs[n].textRelocs \cup inputs[n].dataRelocs
  BY RelocsInTodo DEF LinkInv, RelocsApplied
<1>3. r \in inputs[n].dataRelocs /\ r.at \in Nat /\ r.at < Len(inputs[n].dataBody)
  BY <1>1, <1>2, RelocsOfObject
<1>4. mergedData \in Seq(ObjectCells) /\ mergedText \in Seq(ImageCells) /\ PatchPos(n, r) \in Nat
  BY <1>1, <1>2, PatchPosType DEF LayoutTypes
<1>5. p \in 1..Len(mergedData)
  <2>1. p <= Len(mergedData)
    <3>1. ~(p > Len(mergedData))
      BY DEF Applies
    <3>. DEFINE q == PatchPos(n, r)  M == Len(mergedData)
    <3>2. q \in Nat /\ M \in Nat /\ ~(q + 1 > M)
      BY <1>4, <3>1
    <3>. HIDE DEF q, M
    <3>3. q + 1 <= M
      BY <3>2
    <3>. QED BY <3>3 DEF q, M
  <2>. DEFINE q == PatchPos(n, r)  M == Len(mergedData)
  <2>2. q \in Nat /\ M \in Nat /\ q + 1 <= M
    BY <1>4, <2>1
  <2>. HIDE DEF q, M
  <2>3. q + 1 \in 1..M
    BY <2>2
  <2>. QED BY <2>3 DEF q, M
<1>6. mergedData[p].val \in Nat
  <2>1. mergedData[p] \in ObjectCells
    <3>. HIDE DEF p
    <3>. QED BY <1>4, <1>5, ElementOfSeq
  <2>. QED BY <2>1 DEF ObjectCells
<1>. DEFINE v == Target(n, r, mergedData[p].val)
<1>7. /\ mergedData' = [mergedData EXCEPT ![p].val = v]
      /\ mergedText' = mergedText /\ todo' = todo \ {x}
  <2>1. ~(p > Len(mergedData))
    <3>1. Len(mergedData) \in Nat
      BY <1>4
    <3>. HIDE DEF p
    <3>. QED BY <1>5, <3>1
  <2>. QED BY <2>1 DEF Applies
<1>8. v \in Nat
  BY <1>2, <1>6, TargetType
<1>. HIDE DEF v, p
<1>9. /\ mergedData' \in Seq(ObjectCells) /\ Len(mergedData') = Len(mergedData)
      /\ \A i \in 1..Len(mergedData) :
            SameCell(mergedData'[i], mergedData[i]) /\ (i # p => mergedData'[i] = mergedData[i])
      /\ mergedData'[p].val = v
  BY <1>4, <1>5, <1>7, <1>8, PatchedData
<1>10. LayoutInv'
  <2>1. PICK D : LaidOut(D)
    BY <1>1 DEF LayoutInv
  <2>2. LaidOut(D)'
    <3>1. Len(mergedText) \in Nat
      BY <1>4
    <3>2. Len(mergedText') >= Len(mergedText)
          /\ \A i \in 1..Len(mergedText') : i > Len(mergedText) => IsThunk(mergedText'[i])
      BY <1>7, <3>1
    <3>. QED BY <1>0, <1>1, <1>4, <1>7, <2>1, <3>2, TextKept DEF SameCell
  <2>3. LayoutTypes'
    BY <1>0, <1>1, <1>7, <1>9 DEF LayoutTypes
  <2>4. DataLaidOut'
    <3>1. dataOffset \in Seq(Nat) /\ PlacedObjects \in 0..Len(inputs)
      BY <1>1 DEF LayoutTypes
    <3>. QED BY <1>0, <1>1, <1>9, <3>1, DataKept
  <2>5. BssLaidOut'
    BY <1>0, <1>1 DEF BssLaidOut
  <2>. QED BY <1>1, <2>2, <2>3, <2>4, <2>5 DEF LayoutInv
<1>11. BasesRight'
  BY <1>0, <1>7, <1>9 DEF LinkInv, BasesRight
<1>12. ThunksMade'
  <2>1. \A j : AddressAt(j)' = AddressAt(j)
    BY DEF AddressAt
  <2>. QED BY <1>0, <1>1, <1>7, <2>1 DEF LinkInv, ThunksMade
<1>13. RelocsApplied'
  <2>1. RelocsApplied
    BY DEF LinkInv
  <2>2. ASSUME NEW m \in ObjectIndex, NEW q \in inputs[m].textRelocs
        PROVE  (mergedText[TextPlace(m, q.at)].val
                   = Relocated(m, q, inputs[m].textBody[q.at + 1].val))'
    <3>1. mergedText[TextPlace(m, q.at)].val = Relocated(m, q, inputs[m].textBody[q.at + 1].val)
      BY <2>1, <2>2 DEF RelocsApplied
    <3>2. q.table = "text"
      BY <1>1, RelocsOfObject
    <3>3. <<m, q>> \in todo' <=> <<m, q>> \in todo
      <4>1. <<m, q>> # x
        BY <3>2
      <4>. QED BY <1>7, <4>1
    <3>4. Relocated(m, q, inputs[m].textBody[q.at + 1].val)'
             = Relocated(m, q, inputs[m].textBody[q.at + 1].val)
      BY <1>0, <1>1, <3>3 DEF Relocated
    <3>. QED BY <1>1, <1>7, <3>1, <3>4
  <2>3. ASSUME NEW m \in ObjectIndex, NEW q \in inputs[m].dataRelocs, SplitUnitsPlainData(link)
        PROVE  (mergedData[DataPlace(m, q.at)].val
                   = Relocated(m, q, inputs[m].dataBody[q.at + 1].val))'
    <3>. DEFINE w == inputs[m].dataBody[q.at + 1].val
    <3>0. p = DataPlace(n, r.at) /\ mergedData[p].home = <<n, "data", r.at>>
      BY <1>1, <1>2, <1>3, <2>3, PatchInData, DataPlaces DEF p
    <3>1. mergedData[DataPlace(m, q.at)].val = Relocated(m, q, w)
      BY <2>1, <2>3 DEF RelocsApplied
    <3>2. q.at \in Nat /\ q.at < Len(inputs[m].dataBody)
      BY <1>1, RelocsOfObject
    <3>3. DataPlace(m, q.at) \in 1..Len(mergedData)
          /\ mergedData[DataPlace(m, q.at)].home = <<m, "data", q.at>>
      BY <1>1, <3>2, DataPlaces
    <3>. HIDE DEF w
    <3>4. CASE <<m, q>> = <<n, r>>
      <4>1. mergedData[p].val = w
        BY <1>2, <3>0, <3>1, <3>4 DEF Relocated
      <4>2. mergedData'[p].val = Target(m, q, w)
        BY <1>9, <3>4, <4>1 DEF v
      <4>3. <<m, q>> \notin todo'
        BY <1>2, <1>7, <3>4
      <4>4. Relocated(m, q, w)' = Target(m, q, w)
        BY <1>0, <1>1, <4>3 DEF Relocated, w
      <4>. QED BY <1>0, <1>1, <3>0, <3>4, <4>2, <4>4 DEF w
    <3>5. CASE <<m, q>> # <<n, r>>
      <4>1. DataPlace(m, q.at) # p
        <5>1. SUFFICES ASSUME DataPlace(m, q.at) = p PROVE FALSE
          OBVIOUS
        <5>2. m = n /\ q.at = r.at
          BY <3>0, <3>3, <5>1
        <5>3. q = r
          BY <1>1, <1>2, <1>3, <5>2, RelocsOfObject
        <5>. QED BY <3>5, <5>2, <5>3
      <4>2. mergedData'[DataPlace(m, q.at)].val = Relocated(m, q, w)
        BY <1>9, <3>1, <3>3, <4>1
      <4>3. <<m, q>> \in todo' <=> <<m, q>> \in todo
        BY <1>2, <1>7, <3>5
      <4>4. Relocated(m, q, w)' = Relocated(m, q, w)
        BY <1>0, <1>1, <4>3 DEF Relocated, w
      <4>. QED BY <1>0, <1>1, <4>2, <4>4 DEF w
    <3>. QED BY <3>4, <3>5
  <2>4. (todo \subseteq AllRelocs)'
    BY <1>1, <1>7, <2>1 DEF RelocsApplied
  <2>5. (\A m \in ObjectIndex :
          /\ \A q \in inputs[m].textRelocs :
                mergedText[TextPlace(m, q.at)].val
                    = Relocated(m, q, inputs[m].textBody[q.at + 1].val)
          /\ SplitUnitsPlainData(link) => \A q \in inputs[m].dataRelocs :
                mergedData[DataPlace(m, q.at)].val
                    = Relocated(m, q, inputs[m].dataBody[q.at + 1].val))'
    BY <1>0, <1>1, <2>2, <2>3
  <2>. QED BY <2>4, <2>5 DEF RelocsApplied
<1>14. ErrorHasCause'
  BY DEF ErrorHasCause
<1>. QED BY <1>1, <1>10, <1>11, <1>12, <1>13, <1>14 DEF LinkInv

(* applyRelocs keeps the invariant.                                         *)
LEMMA LinkInvReloc ==
    ASSUME LinkInv, ApplyReloc
    PROVE  LinkInv'
<1>1. PICK x \in todo : Applies(x)
  BY DEF ApplyReloc, Applies
<1>2. phase = "relocate" /\ RelocFrame
  BY DEF ApplyReloc, RelocFrame
<1>3. x \in AllRelocs /\ x[1] \in ObjectIndex
      /\ x[2] \in inputs[x[1]].textRelocs \cup inputs[x[1]].dataRelocs
  BY RelocsInTodo DEF LinkInv, RelocsApplied
<1>4. LayoutInv /\ RemapsDistinct /\ InputsAreUnits /\ LayoutTypes
  BY <1>2, AllPlaced DEF LinkInv
<1>5. x[2].table \in {"text", "data"}
  BY <1>3, <1>4, RelocsOfObject
<1>. DEFINE body == IF x[2].table = "text" THEN mergedText ELSE mergedData
            p == PatchPos(x[1], x[2]) + 1
<1>6. CASE p > Len(body)
  <2>1. phase' = "error" /\ UNCHANGED <<mergedText, mergedData, todo>>
    BY <1>1, <1>6 DEF Applies
  <2>2. ~SplitUnitsPlainData(link)
    <3>1. SUFFICES ASSUME SplitUnitsPlainData(link) PROVE FALSE
      OBVIOUS
    <3>2. Len(mergedText) \in Nat /\ Len(mergedData) \in Nat
      BY <1>4 DEF LayoutTypes
    <3>3. CASE x[2] \in inputs[x[1]].textRelocs
      <4>1. x[2].table = "text"
        BY <1>3, <1>4, <3>3, RelocsOfObject
      <4>2. p \in 1..Len(mergedText)
        BY <1>2, <1>3, <1>4, <3>3, PatchInText
      <4>. HIDE DEF p
      <4>. QED BY <1>6, <3>2, <4>1, <4>2
    <3>4. CASE x[2] \in inputs[x[1]].dataRelocs
      <4>1. x[2].table = "data"
        BY <1>3, <1>4, <3>4, RelocsOfObject
      <4>2. p \in 1..Len(mergedData)
        BY <1>2, <1>3, <1>4, <3>1, <3>4, PatchInData
      <4>. HIDE DEF p
      <4>. QED BY <1>6, <3>2, <4>1, <4>2
    <3>. QED BY <1>3, <3>3, <3>4
  <2>. QED BY <1>2, <2>1, <2>2, PatchOutside
<1>7. CASE ~(p > Len(body))
  <2>1. phase' = phase
    BY <1>1, <1>7 DEF Applies
  <2>2. x[2].table = "text" => LinkInv'
    BY <1>1, <1>2, <2>1, PatchesText
  <2>3. x[2].table = "data" => LinkInv'
    BY <1>1, <1>2, <2>1, PatchesData
  <2>. QED BY <1>5, <2>2, <2>3
<1>. QED BY <1>6, <1>7

(* The image is written.                                                    *)
LEMMA LinkInvEmit ==
    ASSUME LinkInv, Emit
    PROVE  LinkInv'
<1>1. /\ phase = "relocate" /\ todo = {} /\ phase' = "done"
      /\ binary' = mergedText \o Gap(TextBase + Len(mergedText)) \o mergedData
      /\ UNCHANGED <<link, inputs, textRemaps, dataOffset, bssOffset, unplaced, mergedText,
                     mergedData, mergedBssLen, dataBase, bssBase, globalSymbols,
                     callSiteOverrides, todo, next>>
  BY DEF Emit
<1>2. /\ LayoutInv /\ LayoutTypes /\ unplaced = {} /\ InputsAreUnits
      /\ SymbolsRight /\ ImportsResolved /\ Unpatched /\ RemapsDistinct
  BY <1>1, AllPlaced DEF LinkInv
<1>3. /\ ObjectIndex' = ObjectIndex /\ AllRelocs' = AllRelocs
      /\ Crossing' = Crossing /\ (\A s : BridgeAt(s)' = BridgeAt(s))
      /\ \A b : Thunk(b)' = Thunk(b)
      /\ \A n, off : TextPlace(n, off)' = TextPlace(n, off)
      /\ \A n, off : DataPlace(n, off)' = DataPlace(n, off)
      /\ \A n, r, val : Target(n, r, val)' = Target(n, r, val)
  BY <1>1, ObjectsKept, CallsKept, PlacesKept, TargetsKept
<1>4. next' \in 1..(Len(inputs) + 1) /\ PlacedObjects' = PlacedObjects
      /\ ResolvedObjects' = ResolvedObjects /\ (BoundariesKnown' <=> BoundariesKnown)
  BY <1>1, <1>2 DEF LayoutTypes, PlacedObjects, ResolvedObjects, BoundariesKnown
<1>5. LayoutInv'
  BY <1>1, <1>2, <1>4, LayoutStays
<1>6. Unpatched' /\ RemapsDistinct'
  BY <1>1, <1>2, CopiesStay
<1>7. BasesRight'
  BY <1>1 DEF LinkInv, BasesRight
<1>8. SymbolsRight'
  BY <1>1, <1>2, <1>4, SymbolsStay
<1>9. ImportsResolved'
  BY <1>1, <1>2, <1>3 DEF ImportsResolved
<1>10. ThunksMade'
  <2>1. \A j : AddressAt(j)' = AddressAt(j)
    BY DEF AddressAt
  <2>. QED BY <1>1, <1>3, <2>1 DEF LinkInv, ThunksMade
<1>11. RelocsApplied'
  <2>1. \A n, r, val : Relocated(n, r, val)' = Relocated(n, r, val)
    BY <1>1, <1>3 DEF Relocated
  <2>. QED BY <1>1, <1>3, <2>1 DEF LinkInv, RelocsApplied
<1>12. ErrorHasCause'
  BY <1>1 DEF ErrorHasCause
<1>13. ImageWritten'
  BY <1>1 DEF ImageWritten, Gap
<1>. QED BY <1>5, <1>6, <1>7, <1>8, <1>9, <1>10, <1>11, <1>12, <1>13 DEF LinkInv

(* Nothing changes.                                                         *)
LEMMA LinkInvStutter ==
    ASSUME LinkInv, UNCHANGED linkVars
    PROVE  LinkInv'
<1>1. UNCHANGED <<link, inputs, textRemaps, dataOffset, bssOffset, unplaced, mergedText,
              mergedData, mergedBssLen, dataBase, bssBase, globalSymbols,
              callSiteOverrides, todo, binary, next, phase>>
  BY DEF linkVars
<1>2. /\ InputsAreUnits /\ LayoutTypes /\ DataLaidOut /\ BssLaidOut
      /\ SymbolsRight /\ ImportsResolved /\ Unpatched /\ RemapsDistinct
  BY DEF LinkInv, LayoutInv
<1>3. /\ ObjectIndex' = ObjectIndex /\ AllChunks' = AllChunks /\ AllRelocs' = AllRelocs
      /\ Crossing' = Crossing /\ (\A s : BridgeAt(s)' = BridgeAt(s))
      /\ \A b : Thunk(b)' = Thunk(b)
      /\ \A n, off : TextPlace(n, off)' = TextPlace(n, off)
      /\ \A n, off : DataPlace(n, off)' = DataPlace(n, off)
      /\ \A n, r, val : Target(n, r, val)' = Target(n, r, val)
  BY <1>1, ObjectsKept, CallsKept, PlacesKept, TargetsKept
<1>4. PlacedObjects' = PlacedObjects
      /\ ResolvedObjects' = ResolvedObjects /\ (BoundariesKnown' <=> BoundariesKnown)
  BY <1>1 DEF PlacedObjects, ResolvedObjects, BoundariesKnown
<1>5. LayoutInv'
  <2>1. PICK D : LaidOut(D)
    BY DEF LinkInv, LayoutInv
  <2>2. mergedText \in Seq(ImageCells)
    BY <1>2 DEF LayoutTypes
  <2>3. LaidOut(D)'
    <3>1. Len(mergedText) \in Nat
      BY <2>2
    <3>2. Len(mergedText') >= Len(mergedText)
          /\ \A i \in 1..Len(mergedText') : i > Len(mergedText) => IsThunk(mergedText'[i])
      BY <1>1, <3>1
    <3>. QED BY <1>1, <1>2, <2>1, <2>2, <3>2, TextKept DEF SameCell
  <2>4. InputsAreUnits' /\ LayoutTypes'
    BY <1>1, <1>2, <1>3 DEF InputsAreUnits, LayoutTypes
  <2>5. DataLaidOut' /\ BssLaidOut'
    BY <1>1, <1>2, <1>4 DEF DataLaidOut, BssLaidOut
  <2>. QED BY <2>3, <2>4, <2>5 DEF LayoutInv
<1>6. Unpatched' /\ RemapsDistinct'
  BY <1>1, <1>2, CopiesStay
<1>7. BasesRight'
  BY <1>1 DEF LinkInv, BasesRight
<1>8. SymbolsRight'
  BY <1>1, <1>2, <1>4, SymbolsStay
<1>9. ImportsResolved'
  BY <1>1, <1>2, <1>3 DEF ImportsResolved
<1>10. ThunksMade'
  <2>1. \A j : AddressAt(j)' = AddressAt(j)
    BY DEF AddressAt
  <2>. QED BY <1>1, <1>3, <2>1 DEF LinkInv, ThunksMade
<1>11. RelocsApplied'
  <2>1. \A n, r, val : Relocated(n, r, val)' = Relocated(n, r, val)
    BY <1>1, <1>3 DEF Relocated
  <2>. QED BY <1>1, <1>3, <2>1 DEF LinkInv, RelocsApplied
<1>12. ErrorHasCause'
  <2>1. \A e : Clashes(e)' <=> Clashes(e)
    BY <1>1 DEF Clashes, Known
  <2>. QED BY <1>1, <1>3, <2>1 DEF LinkInv, ErrorHasCause
<1>13. ImageWritten'
  BY <1>1 DEF LinkInv, ImageWritten, Gap
<1>. QED BY <1>5, <1>6, <1>7, <1>8, <1>9, <1>10, <1>11, <1>12, <1>13 DEF LinkInv

(* LinkInv is inductive: a phase finds what the phases before it promise.   *)
THEOREM LinkInvInvariant == LinkSpec => []LinkInv
<1>1. ASSUME LinkInv, [LinkNext]_linkVars PROVE LinkInv'
  <2>1. CASE PlaceChunk
    BY <1>1, <2>1, LinkInvLayout
  <2>2. CASE PlaceData
    BY <1>1, <2>2, LinkInvLayout
  <2>3. CASE SetBases
    BY <1>1, <2>3, LinkInvSetBases
  <2>4. CASE ResolveObject
    BY <1>1, <2>4, LinkInvResolve
  <2>5. CASE CheckImports
    BY <1>1, <2>5, LinkInvResolve
  <2>6. CASE GenerateThunks
    BY <1>1, <2>6, LinkInvThunks
  <2>7. CASE ApplyReloc
    BY <1>1, <2>7, LinkInvReloc
  <2>8. CASE Emit
    BY <1>1, <2>8, LinkInvEmit
  <2>9. CASE LinkEnds
    BY <1>1, <2>9, LinkInvStutter DEF LinkEnds
  <2>10. CASE UNCHANGED linkVars
    BY <1>1, <2>10, LinkInvStutter
  <2>. QED BY <1>1, <2>1, <2>2, <2>3, <2>4, <2>5, <2>6, <2>7, <2>8, <2>9, <2>10 DEF LinkNext
<1>. QED BY <1>1, LinkInvInit, PTL DEF LinkSpec

-----------------------------------------------------------------------------
\* The image, its type and its cells.

GapLen == Len(Gap(TextBase + Len(mergedText)))

(* The gap between text and data.                                           *)
LEMMA GapFacts ==
    ASSUME LinkInv, phase = "done"
    PROVE  /\ Gap(TextBase + Len(mergedText)) \in Seq(ImageCells) /\ GapLen \in Nat
           /\ \A i \in 1..GapLen : Gap(TextBase + Len(mergedText))[i] = Zero
           /\ DataAfterText /\ mergedData # <<>> => TextBase + Len(mergedText) + GapLen = dataBase
           /\ mergedData = <<>> => GapLen = 0
<1>. DEFINE e == TextBase + Len(mergedText)
<1>1. e \in Nat /\ dataBase \in Nat
  <2>1. LayoutTypes /\ BasesRight
    BY DEF LinkInv, LayoutInv
  <2>2. Len(mergedText) \in Nat /\ TextBase \in Nat
    BY <2>1, BaseAssumption DEF LayoutTypes
  <2>. QED BY <2>1, <2>2 DEF BasesRight
<1>2. Zero \in ImageCells
  <2>. DEFINE T == {"text", "data", "gap"} \cup Conventions
              U == Nat \cup STRING \cup {NoLabel}
  <2>1. <<0, "gap", NoLabel>> \in Nat \X T \X U
    <3>1. 0 \in Nat /\ "gap" \in T /\ NoLabel \in U
      OBVIOUS
    <3>. HIDE DEF T, U
    <3>. QED BY <3>1
  <2>2. NoLabel \in STRING \cup {NoLabel} /\ 0 \in Nat
    OBVIOUS
  <2>. HIDE DEF T, U
  <2>3. ImageCells = [op : {"jsr", "ref", "rts", "thunk"}, to : STRING \cup {NoLabel}, val : Nat,
                      home : Nat \X T \X U]
    BY DEF ImageCells, T, U
  <2>. QED BY <2>1, <2>2, <2>3 DEF Zero
<1>. HIDE DEF e
<1>3. Gap(e) = IF mergedData # <<>> /\ dataBase > e THEN [i \in 1..(dataBase - e) |-> Zero] ELSE <<>>
  BY DEF Gap
<1>4. CASE mergedData # <<>> /\ dataBase > e
  <2>1. dataBase - e \in Nat /\ Gap(e) = [i \in 1..(dataBase - e) |-> Zero]
    BY <1>1, <1>3, <1>4
  <2>2. Gap(e) \in Seq(ImageCells) /\ Len(Gap(e)) = dataBase - e
        /\ \A i \in 1..Len(Gap(e)) : Gap(e)[i] = Zero
    BY <1>2, <2>1
  <2>3. e + Len(Gap(e)) = dataBase
    BY <1>1, <2>2
  <2>. QED BY <1>4, <2>1, <2>2, <2>3 DEF GapLen, e
<1>5. CASE ~(mergedData # <<>> /\ dataBase > e)
  <2>1. Gap(e) = <<>>
    BY <1>3, <1>5
  <2>2. Gap(e) \in Seq(ImageCells) /\ Len(Gap(e)) = 0
    BY <2>1
  <2>3. dataBase >= e /\ mergedData # <<>> => e + Len(Gap(e)) = dataBase
    BY <1>1, <1>5, <2>2
  <2>. QED BY <2>2, <2>3 DEF GapLen, e, DataAfterText
<1>. QED BY <1>4, <1>5

(* The image: text, gap and data.                                           *)
LEMMA ImageIs ==
    ASSUME LinkInv, phase = "done"
    PROVE  /\ binary \in Seq(ImageCells)
           /\ Len(mergedText) \in Nat /\ GapLen \in Nat /\ Len(mergedData) \in Nat
           /\ Len(binary) = Len(mergedText) + GapLen + Len(mergedData)
           /\ \A i \in 1..Len(mergedText) : binary[i] = mergedText[i]
           /\ \A i \in 1..GapLen : binary[Len(mergedText) + i] = Zero
           /\ \A i \in 1..Len(mergedData) :
                 binary[Len(mergedText) + GapLen + i] = mergedData[i]
<1>. DEFINE G == Gap(TextBase + Len(mergedText))  A == mergedText \o G
<1>1. /\ mergedText \in Seq(ImageCells) /\ mergedData \in Seq(ImageCells)
      /\ G \in Seq(ImageCells) /\ \A i \in 1..Len(G) : G[i] = Zero
  <2>1. mergedText \in Seq(ImageCells) /\ mergedData \in Seq(ObjectCells)
    BY DEF LinkInv, LayoutInv, LayoutTypes
  <2>2. mergedData \in Seq(ImageCells)
    BY <2>1, ObjectCellsFit, SeqMonotonic
  <2>. QED BY <2>1, <2>2, GapFacts DEF GapLen
<1>2. binary = A \o mergedData
  BY DEF LinkInv, ImageWritten
<1>3. Len(mergedText) \in Nat /\ Len(G) \in Nat /\ Len(mergedData) \in Nat
  BY <1>1
<1>. HIDE DEF G
<1>4. /\ A \in Seq(ImageCells) /\ Len(A) = Len(mergedText) + Len(G)
      /\ \A i \in 1..Len(mergedText) : A[i] = mergedText[i]
      /\ \A i \in 1..Len(G) : A[Len(mergedText) + i] = G[i]
  BY <1>1
<1>. HIDE DEF A
<1>5. /\ binary \in Seq(ImageCells) /\ Len(binary) = Len(A) + Len(mergedData)
      /\ \A i \in 1..Len(A) : binary[i] = A[i]
      /\ \A i \in 1..Len(mergedData) : binary[Len(A) + i] = mergedData[i]
  <2>1. mergedData \in Seq(ImageCells) /\ A \in Seq(ImageCells)
    BY <1>1, <1>4
  <2>2. \A s, d \in Seq(ImageCells) :
           /\ s \o d \in Seq(ImageCells) /\ Len(s \o d) = Len(s) + Len(d)
           /\ \A i \in 1..Len(s) : (s \o d)[i] = s[i]
           /\ \A i \in 1..Len(d) : (s \o d)[Len(s) + i] = d[i]
    OBVIOUS
  <2>. QED BY <1>2, <2>1, <2>2
<1>6. \A i \in 1..Len(mergedText) : i \in 1..Len(A)
  BY <1>3, <1>4
<1>7. \A i \in 1..Len(G) : Len(mergedText) + i \in 1..Len(A)
  BY <1>3, <1>4
<1>. QED BY <1>1, <1>3, <1>4, <1>5, <1>6, <1>7 DEF GapLen, G

(* Variables and image hold what they should (LinkTypeOK): in particular every *)
(* address is a number and every chunk lies in the text.                      *)
THEOREM LinkTypeCorrect == LinkSpec => []LinkTypeOK
<1>1. ASSUME LinkInv PROVE LinkTypeOK
  <2>1. /\ LayoutInv /\ InputsAreUnits /\ LayoutTypes /\ BasesRight /\ SymbolsRight
    BY <1>1 DEF LinkInv, LayoutInv
  <2>2. PICK D : LaidOut(D)
    BY <2>1 DEF LayoutInv
  <2>3. ASSUME NEW n \in ObjectIndex, NEW k \in DOMAIN textRemaps[n]
        PROVE  textRemaps[n][k] \in [src : Nat, len : Nat, dest : 0..Len(mergedText)]
    <3>1. PICK c \in PlacedChunks : textRemaps[n][k] = Placement(c, D)
      BY <2>2 DEF LaidOut
    <3>2. D[c] \in Nat /\ D[c] + c.len <= Len(mergedText)
      BY <2>2 DEF LaidOut
    <3>3. c.src \in Nat /\ c.len \in Nat
      BY <2>1, ChunksOfLink DEF PlacedChunks
    <3>4. Len(mergedText) \in Nat
      BY <2>1 DEF LayoutTypes
    <3>. DEFINE d == D[c]  e == c.len  M == Len(mergedText)
    <3>5. d \in 0..M
      <4>1. d \in Nat /\ e \in Nat /\ M \in Nat /\ d + e <= M
        BY <3>2, <3>3, <3>4
      <4>. HIDE DEF d, e, M
      <4>. QED BY <4>1
    <3>. QED BY <3>1, <3>3, <3>5 DEF Placement
  <2>4. \A s \in DOMAIN globalSymbols :
          globalSymbols[s] \in [addr : Nat, weak : BOOLEAN, source : 0..Len(inputs)]
    BY <2>1, SymbolTypes
  <2>5. binary \in Seq(ImageCells)
    <3>1. phase # "done" => binary = <<>>
      BY <1>1 DEF LinkInv, ImageWritten
    <3>2. <<>> \in Seq(ImageCells)
      OBVIOUS
    <3>. QED BY <1>1, <3>1, <3>2, ImageIs
  <2>6. \A s \in Seq(ImageCells) : \A i \in DOMAIN s : s[i].val \in Nat
    <3>. SUFFICES ASSUME NEW s \in Seq(ImageCells), NEW i \in DOMAIN s PROVE s[i].val \in Nat
      OBVIOUS
    <3>1. s[i] \in ImageCells
      OBVIOUS
    <3>. QED BY <3>1 DEF ImageCells
  <2>7. mergedText \in Seq(ImageCells) /\ mergedData \in Seq(ImageCells)
    BY <2>1, ObjectCellsFit, SeqMonotonic DEF LayoutTypes
  <2>8. \A b \in {mergedText, mergedData, binary} : \A i \in DOMAIN b : b[i].val \in Nat
    BY <2>5, <2>6, <2>7
  <2>9. todo \subseteq AllRelocs
    BY <1>1 DEF LinkInv, RelocsApplied
  <2>10. phase # "layout" => dataBase \in Nat /\ bssBase \in Nat
    BY <2>1 DEF BasesRight
  <2>. QED BY <2>1, <2>3, <2>4, <2>8, <2>9, <2>10 DEF LinkTypeOK, LayoutTypes
<1>. QED BY <1>1, LinkInvInvariant, PTL

(* Every cell of the image is of an object's text or data, or the linker's. *)
LEMMA ImageFromObjects ==
    ASSUME LinkInv, phase = "done", NEW i \in ImageIndex
    PROVE  \/ binary[i].home[1] = 0 /\ binary[i].home[2] # "text"
              /\ binary[i].op \in {"thunk", "rts"}
           \/ \E n \in ObjectIndex : \E off \in Nat :
                 off < Len(inputs[n].textBody) /\ i = TextPlace(n, off)
           \/ \E n \in ObjectIndex : \E off \in Nat :
                 /\ off < Len(inputs[n].dataBody)
                 /\ i = Len(mergedText) + GapLen + DataPlace(n, off)
<1>. DEFINE T == Len(mergedText)  G == GapLen  M == Len(mergedData)
<1>1. /\ T \in Nat /\ G \in Nat /\ M \in Nat /\ Len(binary) = T + G + M
      /\ \A j \in 1..T : binary[j] = mergedText[j]
      /\ \A j \in 1..G : binary[T + j] = Zero
      /\ \A j \in 1..M : binary[T + G + j] = mergedData[j]
  BY ImageIs
<1>2. LayoutInv
  BY DEF LinkInv
<1>3. i \in 1..(T + G + M)
  BY <1>1 DEF ImageIndex
<1>4. CASE i \in 1..T
  <2>1. CASE IsThunk(mergedText[i])
    <3>1. Conventions = {"none", "stack", "zp"}
      BY DEF Conventions
    <3>. QED BY <1>1, <1>4, <2>1, <3>1 DEF IsThunk
  <2>2. CASE ~IsThunk(mergedText[i])
    BY <1>2, <1>4, <2>2, TextFromObjects
  <2>. QED BY <2>1, <2>2
<1>5. CASE i - T \in 1..G
  <2>1. i = T + (i - T)
    <3>. HIDE DEF T
    <3>. QED BY <1>1, <1>3
  <2>2. binary[i] = Zero
    BY <1>1, <1>5, <2>1
  <2>. QED BY <2>2 DEF Zero
<1>6. CASE i - T - G \in 1..M
  <2>1. i = T + G + (i - T - G)
    <3>. HIDE DEF T, G
    <3>. QED BY <1>1, <1>3
  <2>2. PICK n \in ObjectIndex, off \in Nat :
            off < Len(inputs[n].dataBody) /\ i - T - G = DataPlace(n, off)
    BY <1>2, <1>6, DataFromObjects
  <2>. QED BY <2>1, <2>2
<1>7. i \in 1..T \/ i - T \in 1..G \/ i - T - G \in 1..M
  <2>. HIDE DEF T, G, M
  <2>. QED BY <1>1, <1>3
<1>. QED BY <1>4, <1>5, <1>6, <1>7

(* And all of them are there.                                               *)
LEMMA ImageHasText ==
    ASSUME LinkInv, phase = "done",
           NEW n \in ObjectIndex, NEW off \in Nat, off < Len(inputs[n].textBody)
    PROVE  /\ TextPlace(n, off) \in ImageIndex
           /\ TextPlace(n, off) \in 1..Len(mergedText)
           /\ binary[TextPlace(n, off)] = mergedText[TextPlace(n, off)]
           /\ binary[TextPlace(n, off)].home = <<n, "text", off>>
           /\ binary[TextPlace(n, off)].op = inputs[n].textBody[off + 1].op
           /\ binary[TextPlace(n, off)].to = inputs[n].textBody[off + 1].to
<1>. DEFINE i == TextPlace(n, off)
<1>1. /\ i \in 1..Len(mergedText) /\ SameCell(mergedText[i], inputs[n].textBody[off + 1])
      /\ mergedText[i].home = <<n, "text", off>>
  BY TextPlaces DEF LinkInv
<1>2. /\ Len(mergedText) \in Nat /\ GapLen \in Nat /\ Len(mergedData) \in Nat
      /\ Len(binary) = Len(mergedText) + GapLen + Len(mergedData)
      /\ binary[i] = mergedText[i]
  BY <1>1, ImageIs
<1>3. i \in ImageIndex
  <2>. HIDE DEF i
  <2>. QED BY <1>1, <1>2 DEF ImageIndex
<1>. QED BY <1>1, <1>2, <1>3 DEF SameCell

(* So is the data.                                                          *)
LEMMA ImageHasData ==
    ASSUME LinkInv, phase = "done",
           NEW n \in ObjectIndex, NEW off \in Nat, off < Len(inputs[n].dataBody)
    PROVE  LET i == Len(mergedText) + GapLen + DataPlace(n, off) IN
           /\ i \in ImageIndex /\ DataPlace(n, off) \in 1..Len(mergedData)
           /\ binary[i] = mergedData[DataPlace(n, off)]
           /\ binary[i].home = <<n, "data", off>>
           /\ binary[i].op = inputs[n].dataBody[off + 1].op
           /\ binary[i].to = inputs[n].dataBody[off + 1].to
<1>. DEFINE p == DataPlace(n, off)  i == Len(mergedText) + GapLen + p
<1>1. /\ p \in 1..Len(mergedData) /\ SameCell(mergedData[p], inputs[n].dataBody[off + 1])
      /\ mergedData[p].home = <<n, "data", off>>
  BY DataPlaces DEF LinkInv
<1>2. /\ Len(mergedText) \in Nat /\ GapLen \in Nat /\ Len(mergedData) \in Nat
      /\ Len(binary) = Len(mergedText) + GapLen + Len(mergedData)
      /\ binary[i] = mergedData[p]
  BY <1>1, ImageIs
<1>3. i \in ImageIndex
  <2>. HIDE DEF p
  <2>. QED BY <1>1, <1>2 DEF ImageIndex
<1>. QED BY <1>1, <1>2, <1>3 DEF SameCell

(* A cell of the text is in one place of the image, and so is a datum.      *)
LEMMA TextOnce ==
    ASSUME LinkInv, phase = "done", NEW n \in ObjectIndex, NEW off,
           NEW i \in ImageIndex, binary[i].home = <<n, "text", off>>
    PROVE  off \in Nat /\ off < Len(inputs[n].textBody) /\ i = TextPlace(n, off)
<1>0. n # 0
  BY DEF ObjectIndex
<1>1. CASE binary[i].home[1] = 0
  BY <1>0, <1>1
<1>2. ASSUME NEW m \in ObjectIndex, NEW b \in Nat, b < Len(inputs[m].textBody),
             i = TextPlace(m, b)
      PROVE  off \in Nat /\ off < Len(inputs[n].textBody) /\ i = TextPlace(n, off)
  <2>1. binary[i].home = <<m, "text", b>>
    BY <1>2, ImageHasText
  <2>. QED BY <1>2, <2>1
<1>3. ASSUME NEW m \in ObjectIndex, NEW b \in Nat, b < Len(inputs[m].dataBody),
             i = Len(mergedText) + GapLen + DataPlace(m, b)
      PROVE  FALSE
  <2>1. binary[i].home = <<m, "data", b>>
    BY <1>3, ImageHasData
  <2>. QED BY <2>1
<1>. QED BY <1>1, <1>2, <1>3, ImageFromObjects

(* Nor is a datum in two.                                                   *)
LEMMA DataOnce ==
    ASSUME LinkInv, phase = "done", NEW n \in ObjectIndex, NEW off,
           NEW i \in ImageIndex, binary[i].home = <<n, "data", off>>
    PROVE  off \in Nat /\ off < Len(inputs[n].dataBody)
           /\ i = Len(mergedText) + GapLen + DataPlace(n, off)
<1>0. n # 0
  BY DEF ObjectIndex
<1>. DEFINE Place(m, b) == Len(mergedText) + GapLen + DataPlace(m, b)
<1>1. CASE binary[i].home[1] = 0
  BY <1>0, <1>1
<1>2. ASSUME NEW m \in ObjectIndex, NEW b \in Nat, b < Len(inputs[m].textBody),
             i = TextPlace(m, b)
      PROVE  FALSE
  <2>1. binary[i].home = <<m, "text", b>>
    BY <1>2, ImageHasText
  <2>. QED BY <2>1
<1>3. ASSUME NEW m \in ObjectIndex, NEW b \in Nat, b < Len(inputs[m].dataBody), i = Place(m, b)
      PROVE  off \in Nat /\ off < Len(inputs[n].dataBody) /\ i = Place(n, off)
  <2>1. binary[i].home = <<m, "data", b>>
    BY <1>3, ImageHasData
  <2>. QED BY <1>3, <2>1
<1>. QED BY <1>1, <1>2, <1>3, ImageFromObjects

(* Each instruction and datum of the units is in the image once, whatever    *)
(* order layoutSegments gave the sub-segments.                               *)
THEOREM EveryCellInImage == LinkSpec => []ImageHoldsEveryCell
<1>1. ASSUME LinkInv PROVE ImageHoldsEveryCell
  <2>. SUFFICES ASSUME Done, NEW n \in Units,
                       NEW h \in ({n} \X {"text"} \X (0..(Len(TextOf(link.units[n])) - 1)))
                              \cup ({n} \X {"data"} \X (0..(Len(link.units[n].data) - 1)))
                PROVE  Cardinality({i \in ImageIndex : binary[i].home = h}) = 1
    BY DEF ImageHoldsEveryCell
  <2>1. phase = "done" /\ InputsAreUnits
    BY <1>1 DEF Done, LinkInv, LayoutInv
  <2>2. n \in ObjectIndex /\ n \in Nat \ {0}
        /\ Len(inputs[n].textBody) = Len(TextOf(link.units[n]))
        /\ Len(inputs[n].dataBody) = Len(link.units[n].data)
        /\ Len(inputs[n].textBody) \in Nat /\ Len(inputs[n].dataBody) \in Nat
    <3>1. n \in ObjectIndex
      BY <2>1, ObjectsOfUnits DEF Units, ObjectIndex
    <3>. DEFINE u == link.units[n]
    <3>2. n \in Nat \ {0} /\ IsUnit(u) /\ inputs[n] = EmitO45(u, n)
      BY <2>1, <3>1, ObjectsOfUnits
    <3>. HIDE DEF u
    <3>3. Len(inputs[n].textBody) = Len(TextOf(u)) /\ Len(inputs[n].dataBody) = Len(u.data)
      BY <3>2, ObjectBodies
    <3>. QED BY <2>1, <3>1, <3>2, <3>3, HomesOfObjects DEF u
  <2>. DEFINE H == {i \in ImageIndex : binary[i].home = h}
  <2>3. \E i : H = {i}
    <3>1. CASE h \in {n} \X {"text"} \X (0..(Len(TextOf(link.units[n])) - 1))
      <4>. DEFINE off == h[3]
      <4>1. h = <<n, "text", off>> /\ off \in 0..(Len(inputs[n].textBody) - 1)
        BY <2>2, <3>1
      <4>. HIDE DEF off
      <4>2. off \in Nat /\ off < Len(inputs[n].textBody)
        BY <2>2, <4>1
      <4>3. TextPlace(n, off) \in H
        BY <1>1, <2>1, <2>2, <4>1, <4>2, ImageHasText
      <4>4. ASSUME NEW i \in H PROVE i = TextPlace(n, off)
        <5>1. i \in ImageIndex /\ binary[i].home = <<n, "text", off>>
          BY <4>1
        <5>. QED BY <1>1, <2>1, <2>2, <5>1, TextOnce
      <4>. HIDE DEF H
      <4>5. H = {TextPlace(n, off)}
        BY <4>3, <4>4
      <4>. QED BY <4>5
    <3>2. CASE h \in {n} \X {"data"} \X (0..(Len(link.units[n].data) - 1))
      <4>. DEFINE off == h[3]
      <4>1. h = <<n, "data", off>> /\ off \in 0..(Len(inputs[n].dataBody) - 1)
        BY <2>2, <3>2
      <4>. HIDE DEF off
      <4>2. off \in Nat /\ off < Len(inputs[n].dataBody)
        BY <2>2, <4>1
      <4>. DEFINE Place(m, b) == Len(mergedText) + GapLen + DataPlace(m, b)
      <4>3. Place(n, off) \in H
        BY <1>1, <2>1, <2>2, <4>1, <4>2, ImageHasData
      <4>4. ASSUME NEW i \in H PROVE i = Place(n, off)
        <5>1. i \in ImageIndex /\ binary[i].home = <<n, "data", off>>
          BY <4>1
        <5>. QED BY <1>1, <2>1, <2>2, <5>1, DataOnce
      <4>. HIDE DEF H, Place
      <4>5. H = {Place(n, off)}
        BY <4>3, <4>4
      <4>. QED BY <4>5
    <3>. QED BY <3>1, <3>2
  <2>. HIDE DEF H
  <2>4. Cardinality(H) = 1
    BY <2>3, FS_Singleton
  <2>. QED BY <2>4 DEF H
<1>. QED BY <1>1, LinkInvInvariant, PTL

-----------------------------------------------------------------------------
\* The order of the image.

(* The chunk a cell of the text belongs to, and the name of its sub-segment. *)
LEMMA ChunkOfCell ==
    ASSUME LinkInv, phase = "done", NEW D, LaidOut(D),
           NEW i \in ImageIndex, binary[i].home[2] = "text"
    PROVE  \E c \in AllChunks : /\ D[c] < i /\ i <= D[c] + c.len
                                /\ c.name = SubSegment(i) /\ c.object = binary[i].home[1]
<1>1. LayoutInv /\ InputsAreUnits
  BY DEF LinkInv, LayoutInv
<1>2. PICK n \in ObjectIndex, off \in Nat : off < Len(inputs[n].textBody) /\ i = TextPlace(n, off)
  <2>1. ASSUME NEW m \in ObjectIndex, NEW b \in Nat, b < Len(inputs[m].dataBody),
               i = Len(mergedText) + GapLen + DataPlace(m, b)
        PROVE  FALSE
    <3>1. binary[i].home = <<m, "data", b>>
      BY <2>1, ImageHasData
    <3>. QED BY <3>1
  <2>. QED BY <2>1, ImageFromObjects
<1>3. binary[i].home = <<n, "text", off>>
  BY <1>2, ImageHasText
<1>4. PICK c \in AllChunks : /\ c.object = n /\ c.src <= off /\ off < c.src + c.len
                             /\ RemapTextOffset(n, off) = D[c] + (off - c.src)
  BY <1>1, <1>2, RemapRight
<1>5. c.src \in Nat /\ c.len \in Nat /\ D[c] \in Nat
  <2>1. D[c] \in Nat
    BY AllPlaced, <1>1 DEF LaidOut
  <2>. QED BY <1>1, <2>1, ChunksOfLink
<1>6. D[c] < i /\ i <= D[c] + c.len
  <2>. DEFINE d == D[c]  s == c.src  e == c.len
  <2>1. i = d + (off - s) + 1 /\ d \in Nat /\ s \in Nat /\ e \in Nat /\ s <= off /\ off < s + e
    BY <1>2, <1>4, <1>5 DEF TextPlace
  <2>. HIDE DEF d, s, e
  <2>2. d < i /\ i <= d + e
    BY <2>1
  <2>. QED BY <2>2 DEF d, e
<1>. DEFINE u == link.units[n]
<1>7. PICK k \in Filled(u) : c = ChunkOf(u, n, k)
  BY <1>1, <1>4, ChunksOfLink
<1>8. IsUnit(u)
  BY <1>1, ObjectsOfUnits
<1>. DEFINE P(j) == SubOffset(u, j) <= off /\ off < SubOffset(u, j) + Len(u.text[j].body)
            K == CHOOSE j \in 1..Len(u.text) : P(j)
<1>9. SubSegment(i) = u.text[K].name
  BY <1>3 DEF SubSegment
<1>. HIDE DEF u
<1>10. k \in 1..Len(u.text) /\ P(k)
  BY <1>4, <1>7 DEF Filled, ChunkOf
<1>11. K \in 1..Len(u.text) /\ P(K)
  BY <1>10
<1>12. K = k
  <2>. HIDE DEF K
  <2>. QED BY <1>8, <1>10, <1>11, SubSegmentUnique DEF LiesIn
<1>13. c.name = SubSegment(i)
  BY <1>7, <1>9, <1>12 DEF ChunkOf
<1>. QED BY <1>3, <1>4, <1>6, <1>13

(* `init' comes first and nothing else has its rank.                         *)
LEMMA InitRank ==
    /\ Rank("init") = 1
    /\ \A s \in ToSet(SegmentNames) :
          /\ Rank(s) \in Nat /\ Rank(s) >= 1
          /\ Rank(s) = 1 => s = "init"
<1>1. /\ DOMAIN SegmentNames = 1..Len(SegmentNames) /\ Len(SegmentNames) \in Nat
      /\ Len(SegmentNames) >= 2 /\ SegmentNames[1] = "init"
      /\ \A j, k \in 1..Len(SegmentNames) : SegmentNames[j] = SegmentNames[k] => j = k
  BY NamesAssumption DEF IsInjective
<1>2. ASSUME NEW s \in ToSet(SegmentNames)
      PROVE  Rank(s) \in DOMAIN SegmentNames /\ SegmentNames[Rank(s)] = s
  <2>1. \E k \in DOMAIN SegmentNames : SegmentNames[k] = s
    BY DEF ToSet
  <2>. QED BY <2>1 DEF Rank
<1>3. 1 \in DOMAIN SegmentNames /\ SegmentNames[1] \in ToSet(SegmentNames)
  BY <1>1 DEF ToSet
<1>4. Rank("init") = 1
  <2>1. Rank("init") \in DOMAIN SegmentNames /\ SegmentNames[Rank("init")] = "init"
    BY <1>1, <1>2, <1>3
  <2>. QED BY <1>1, <1>3, <2>1
<1>5. ASSUME NEW s \in ToSet(SegmentNames)
      PROVE  /\ Rank(s) \in Nat /\ Rank(s) >= 1
             /\ Rank(s) = 1 => s = "init"
  BY <1>1, <1>2
<1>. QED BY <1>4, <1>5

(* Start-up code precedes all other code and runs in link order: crt0 may fall *)
(* through the `init' parts of all objects (layoutSegments).                   *)
THEOREM InitCodeRunsFirst == LinkSpec => []InitRunsFirst
<1>1. ASSUME LinkInv PROVE InitRunsFirst
  <2>. SUFFICES ASSUME Done, NEW i \in ImageIndex, NEW j \in ImageIndex, i < j,
                       binary[i].home[2] = "text", binary[j].home[2] = "text",
                       SubSegment(j) = "init"
                PROVE  SubSegment(i) = "init" /\ binary[i].home[1] <= binary[j].home[1]
    BY DEF InitRunsFirst
  <2>1. phase = "done" /\ LayoutInv /\ InputsAreUnits /\ PlacedChunks = AllChunks
    BY <1>1, AllPlaced DEF Done, LinkInv
  <2>2. PICK D : LaidOut(D)
    BY <2>1 DEF LayoutInv
  <2>3. PICK c \in AllChunks : /\ D[c] < i /\ i <= D[c] + c.len
                               /\ c.name = SubSegment(i) /\ c.object = binary[i].home[1]
    BY <1>1, <2>1, <2>2, ChunkOfCell
  <2>4. PICK d \in AllChunks : /\ D[d] < j /\ j <= D[d] + d.len
                               /\ d.name = SubSegment(j) /\ d.object = binary[j].home[1]
    BY <1>1, <2>1, <2>2, ChunkOfCell
  <2>5. /\ D[c] \in Nat /\ D[d] \in Nat /\ c.len \in Nat /\ d.len \in Nat
        /\ c.object \in ObjectIndex /\ d.object \in ObjectIndex
        /\ c.name \in ToSet(SegmentNames) /\ d.name \in ToSet(SegmentNames)
        /\ IsDefault(d) => d.name = "code"
    BY <2>1, <2>2, ChunksOfLink DEF LaidOut
  <2>6. c = d \/ ChunkBefore(c, d)
    <3>1. \/ c = d \/ ChunkBefore(c, d)
          \/ D[d] + d.len <= D[c]
      BY <2>1, <2>2 DEF LaidOut
    <3>2. ~(D[d] + d.len <= D[c])
      <4>. DEFINE x == D[c]  y == D[d]  e == d.len
      <4>1. x \in Nat /\ y \in Nat /\ e \in Nat /\ x < i /\ i < j /\ j <= y + e /\ i \in Nat /\ j \in Nat
        BY <2>3, <2>4, <2>5 DEF ImageIndex
      <4>. HIDE DEF x, y, e
      <4>2. ~(y + e <= x)
        BY <4>1
      <4>. QED BY <4>2 DEF x, y, e
    <3>. QED BY <3>1, <3>2
  <2>7. c.object \in Nat /\ d.object \in Nat
    BY <2>1, <2>5, ObjectsOfUnits
  <2>8. CASE c = d
    BY <2>3, <2>4, <2>7, <2>8
  <2>9. CASE ChunkBefore(c, d)
    <3>1. Rank(d.name) = 1 /\ Rank(c.name) \in Nat /\ Rank(c.name) >= 1
          /\ (Rank(c.name) = 1 => c.name = "init")
      BY <2>4, <2>5, InitRank
    <3>2. ~IsDefault(d)
      BY <2>4, <2>5
    <3>3. Rank(c.name) = 1 /\ InObjectOrder(c, d)
      BY <2>9, <3>1, <3>2 DEF ChunkBefore
    <3>4. c.object <= d.object
      BY <2>7, <3>3 DEF InObjectOrder
    <3>. QED BY <2>3, <2>4, <3>1, <3>3, <3>4
  <2>. QED BY <2>6, <2>8, <2>9
<1>. QED BY <1>1, LinkInvInvariant, PTL

-----------------------------------------------------------------------------
\* BSS.

(* BSS bases grow from one unit to the next.                                *)
LEMMA BssGrows ==
    ASSUME InputsAreUnits, NEW n \in 1..(Len(inputs) + 1), NEW k \in n..(Len(inputs) + 1)
    PROVE  BssBefore(link.units, n) <= BssBefore(link.units, k)
<1>0. Len(inputs) \in Nat
  BY ObjectsOfUnits
<1>1. \A j \in 1..(Len(inputs) + 1) : BssBefore(link.units, j) \in Nat
  BY BssOfUnits
<1>2. \A j \in ObjectIndex :
         BssBefore(link.units, j) <= BssBefore(link.units, j + 1)
  <2> TAKE j \in ObjectIndex
  <2>1. inputs[j].blen \in Nat
    BY ObjectsOfUnits
  <2>2. j \in 1..(Len(inputs) + 1)
    BY <1>0 DEF ObjectIndex
  <2> QED BY <2>1, <2>2, <1>1, BssOfUnits
<1> DEFINE B(j) == BssBefore(link.units, j)
           S == {j \in n..(Len(inputs) + 1) : B(j) < B(n)}
<1> HIDE DEF B
<1>3. S \in SUBSET Nat
  BY <1>0
<1>4. ASSUME S # {} PROVE FALSE
  <2>1. PICK m \in S : \A i \in S : m <= i
    BY <1>3, <1>4, LeastNumber
  <2>2. m # n /\ m \in n..(Len(inputs) + 1) /\ B(m) < B(n)
    BY <1>0, <1>1 DEF B
  <2>3. m - 1 \in n..(Len(inputs) + 1) /\ m - 1 \in ObjectIndex
    BY <2>2, <1>0 DEF ObjectIndex
  <2>4. ~(B(m - 1) < B(n))
    BY <2>1, <2>3, <1>0
  <2>5. B(m - 1) <= B(m)
    BY <2>3, <2>2, <1>2, <1>0 DEF B
  <2>6. B(m) \in Nat /\ B(m - 1) \in Nat /\ B(n) \in Nat
    BY <2>2, <2>3, <1>1, <1>0 DEF B
  <2> QED BY <2>2, <2>4, <2>5, <2>6
<1>5. k \notin S /\ B(k) \in Nat /\ B(n) \in Nat
  BY <1>4, <1>1, <1>0 DEF B
<1> QED BY <1>5 DEF B

(* The linker's own symbols, if no unit takes their names.                  *)
LEMMA BoundariesAre ==
    ASSUME LinkInv, phase = "done", BoundariesFree(link)
    PROVE  /\ globalSymbols["__bss_start"].addr = bssBase
           /\ globalSymbols["__bss_end"].addr = bssBase + mergedBssLen
<1>1. InputsAreUnits /\ SymbolsRight /\ BoundariesKnown
  BY DEF LinkInv, LayoutInv, BoundariesKnown
<1>2. ASSUME NEW s \in {"__bss_start", "__bss_end"}, s \in ExportedBy(ResolvedObjects)
      PROVE  FALSE
  <2>1. PICK n \in 1..ResolvedObjects : \E e \in inputs[n].exports : e.name = s
    BY <1>2 DEF ExportedBy
  <2>2. n \in ObjectIndex
    BY <2>1, <1>1 DEF SymbolsRight, ObjectIndex
  <2>3. IsUnit(link.units[n]) /\ inputs[n] = EmitO45(link.units[n], n)
        /\ link.units[n] \in ToSet(link.units)
    BY <2>2, <1>1, ObjectsOfUnits DEF ToSet
  <2>4. IsDefined(link.units[n], s)
    BY <2>1, <2>3, ExportFacts
  <2> QED BY <2>3, <2>4, <1>2 DEF BoundariesFree
<1>3. \A s \in {"__bss_start", "__bss_end"} :
         globalSymbols[s] = [addr |-> Boundaries[s], weak |-> FALSE, source |-> 0]
  BY <1>1, <1>2, BoundaryNames DEF SymbolsRight
<1> QED BY <1>3, BoundaryNames

(* crt0 clears all of BSS and nothing of the image (resolveSymbols after    *)
(* layoutSegments), wherever the segments are placed, as long as the data   *)
(* is not placed before the end of the text and the names of the boundaries *)
(* are the linker's.                                                        *)
THEOREM ClearingBssIsSafe ==
    LinkSpec => [](DataAfterText /\ BoundariesFree(link) => ZeroingBssIsSafe)
<1>1. ASSUME LinkInv, DataAfterText, BoundariesFree(link)
      PROVE  ZeroingBssIsSafe
  <2> SUFFICES ASSUME phase = "done" PROVE ZeroingBssIsSafe
    BY DEF ZeroingBssIsSafe, Done
  <2>1. InputsAreUnits /\ LayoutInv /\ BasesRight /\ LayoutTypes
    BY <1>1 DEF LinkInv, LayoutInv
  <2>2. /\ dataBase \in Nat /\ bssBase \in Nat /\ mergedBssLen \in Nat /\ TextBase \in Nat
        /\ link.bssBase = Unset => bssBase = dataBase + Len(mergedData)
    BY <2>1, BaseAssumption DEF BasesRight, LayoutTypes
  <2> DEFINE cleared == globalSymbols["__bss_start"].addr
                          .. (globalSymbols["__bss_end"].addr - 1)
             image == {AddressAt(i) : i \in ImageIndex}
  <2>3. cleared = bssBase .. (bssBase + mergedBssLen - 1)
    <3>1. /\ globalSymbols["__bss_start"].addr = bssBase
          /\ globalSymbols["__bss_end"].addr = bssBase + mergedBssLen
      BY <1>1, BoundariesAre
    <3> QED BY <3>1, <2>2
  <2> HIDE DEF cleared
  <2>4. ASSUME link.bssBase = Unset PROVE cleared \cap image = {}
    <3>1. /\ Len(mergedText) \in Nat /\ GapLen \in Nat /\ Len(mergedData) \in Nat
          /\ Len(binary) = Len(mergedText) + GapLen + Len(mergedData)
      BY <1>1, ImageIs
    <3>2. /\ mergedData # <<>> => TextBase + Len(mergedText) + GapLen = dataBase
          /\ mergedData = <<>> => GapLen = 0
      BY <1>1, GapFacts
    <3>3. mergedData = <<>> => Len(mergedData) = 0
      OBVIOUS
    <3>4. TextBase + Len(binary) <= bssBase
      BY <3>1, <3>2, <3>3, <2>2, <2>4, <1>1 DEF DataAfterText
    <3>5. \A i \in ImageIndex : AddressAt(i) < bssBase
      BY <3>4, <3>1, <2>2 DEF ImageIndex, AddressAt
    <3>6. ASSUME NEW a \in cleared, a \in image PROVE FALSE
      <4>1. a \in Int /\ a >= bssBase
        BY <3>6, <2>3, <2>2
      <4>2. PICK i \in ImageIndex : a = AddressAt(i)
        BY <3>6
      <4> QED BY <4>1, <4>2, <3>5, <2>2
    <3> QED BY <3>6
  <2>5. ASSUME NEW n \in Units, NEW l \in link.units[n].labels, l.seg = "bss"
        PROVE  Placed(n, l.name) \in cleared
    <3>1. n \in ObjectIndex /\ IsUnit(link.units[n]) /\ inputs[n].blen = link.units[n].bss
          /\ Len(inputs) \in Nat
      BY <2>1, ObjectsOfUnits DEF Units, ObjectIndex
    <3>2. LabelOf(link.units[n], l.name) = l /\ l.off \in Nat /\ l.off < link.units[n].bss
      BY <3>1, <2>5, LabelFacts
    <3>3. Placed(n, l.name) = bssBase + BssBefore(link.units, n) + l.off
      BY <3>2, <2>5 DEF Placed
    <3>4. /\ BssBefore(link.units, n + 1) = BssBefore(link.units, n) + link.units[n].bss
          /\ BssBefore(link.units, n) \in Nat /\ BssBefore(link.units, n + 1) \in Nat
          /\ BssBefore(link.units, Len(inputs) + 1) \in Nat
      <4>1. n \in 1..(Len(inputs) + 1) /\ n + 1 \in 1..(Len(inputs) + 1)
            /\ Len(inputs) + 1 \in 1..(Len(inputs) + 1)
        BY <3>1 DEF ObjectIndex
      <4> QED BY <4>1, <3>1, <2>1, BssOfUnits
    <3>5. BssBefore(link.units, n + 1) <= BssBefore(link.units, Len(inputs) + 1)
      <4>1. n + 1 \in 1..(Len(inputs) + 1) /\ Len(inputs) + 1 \in (n + 1)..(Len(inputs) + 1)
        BY <3>1 DEF ObjectIndex
      <4> QED BY <4>1, <2>1, BssGrows
    <3>6. mergedBssLen = BssBefore(link.units, Len(inputs) + 1)
      BY <2>1 DEF LayoutInv, BssLaidOut, PlacedObjects
    <3>7. link.units[n].bss \in Nat
      BY <3>1, <2>1, ObjectsOfUnits
    <3> DEFINE B == BssBefore(link.units, n)
               C == BssBefore(link.units, n + 1)
               b == link.units[n].bss
    <3>8. Placed(n, l.name) = bssBase + B + l.off /\ C = B + b /\ C <= mergedBssLen
          /\ B \in Nat /\ C \in Nat /\ b \in Nat /\ l.off < b
      BY <3>2, <3>3, <3>4, <3>5, <3>6, <3>7
    <3> HIDE DEF B, C, b
    <3> QED BY <3>8, <3>2, <2>3, <2>2
  <2> QED BY <2>4, <2>5 DEF ZeroingBssIsSafe, cleared
<1>2. LinkInv => (DataAfterText /\ BoundariesFree(link) => ZeroingBssIsSafe)
  BY <1>1
<1> QED BY <1>2, LinkInvInvariant, PTL

(* Data that is placed automatically follows the text, if no thunks are put *)
(* between them (layoutSegments before generateThunks).                     *)
THEOREM AutomaticDataFollowsText ==
    LinkSpec => [](Done /\ link.dataBase = Unset /\ link.thunkMode = "error" => DataAfterText)
<1>1. ASSUME LinkInv, Done, link.dataBase = Unset, link.thunkMode = "error"
      PROVE  DataAfterText
  <2>1. dataBase = TextBase + Len(mergedText)
    BY <1>1 DEF LinkInv, BasesRight, Done
  <2>2. TextBase \in Nat /\ Len(mergedText) \in Nat
    BY <1>1, BaseAssumption DEF LinkInv, LayoutInv, LayoutTypes
  <2> QED BY <2>1, <2>2 DEF DataAfterText
<1>2. LinkInv => (Done /\ link.dataBase = Unset /\ link.thunkMode = "error" => DataAfterText)
  BY <1>1
<1> QED BY <1>2, LinkInvInvariant, PTL

-----------------------------------------------------------------------------
\* Addresses.

(* A definition is in memory where resolveSymbols takes it to be.           *)
LEMMA DefinitionPlaced ==
    ASSUME LinkInv, phase = "done", DataAfterText,
           NEW n \in ObjectIndex, NEW l \in link.units[n].labels
    PROVE  Placed(n, l.name) =
              IF l.seg = "text"
              THEN TextBase + RemapTextOffset(n, ExportOffset(link.units[n], l))
              ELSE SegmentStart(n, l.seg) + l.off
<1> DEFINE u == link.units[n]
           T == Len(mergedText)
<1>1. /\ InputsAreUnits /\ LayoutInv /\ IsUnit(u) /\ inputs[n] = EmitO45(u, n) /\ n \in Nat \ {0}
      /\ LayoutTypes
  BY ObjectsOfUnits DEF LinkInv, LayoutInv
<1> HIDE DEF u
<1>2. Len(inputs[n].textBody) = Len(TextOf(u)) /\ Len(inputs[n].dataBody) = Len(u.data)
  BY <1>1, ObjectBodies
<1>3. /\ LabelOf(u, l.name) = l /\ l.seg \in {"text", "data", "bss"} /\ l.off \in Nat
      /\ ExportOffset(u, l) \in Nat
      /\ l.seg = "text" => ExportOffset(u, l) < Len(TextOf(u))
      /\ l.seg = "data" => ExportOffset(u, l) = l.off /\ l.off < Len(u.data)
  BY <1>1, LabelFacts DEF u
<1>4. TextBase \in Nat /\ T \in Nat /\ dataBase \in Nat
  BY <1>1, BaseAssumption DEF LinkInv, BasesRight, LayoutTypes
<1>5. CASE l.seg = "text"
  <2> DEFINE off == ExportOffset(u, l)
             At(i) == binary[i].home = <<n, "text", off>>
  <2>1. off \in Nat /\ off < Len(inputs[n].textBody)
    BY <1>2, <1>3, <1>5
  <2>2. Placed(n, l.name) = AddressAt(CHOOSE i \in ImageIndex : At(i))
    BY <1>3, <1>5 DEF Placed, u
  <2> HIDE DEF off
  <2>3. TextPlace(n, off) \in ImageIndex /\ At(TextPlace(n, off))
    BY <2>1, ImageHasText
  <2>4. ASSUME NEW i \in ImageIndex, At(i) PROVE i = TextPlace(n, off)
    BY <2>4, TextOnce
  <2> HIDE DEF At
  <2>5. (CHOOSE i \in ImageIndex : At(i)) = TextPlace(n, off)
    BY <2>3, <2>4
  <2>6. RemapTextOffset(n, off) \in Nat
    BY <1>1, <2>1, RemapType
  <2>7. AddressAt(TextPlace(n, off)) = TextBase + RemapTextOffset(n, off)
    BY <2>6, <1>4 DEF AddressAt, TextPlace
  <2>8. Placed(n, l.name) = TextBase + RemapTextOffset(n, off)
    BY <2>2, <2>5, <2>7
  <2> QED BY <2>8, <1>5 DEF off, u
<1>6. CASE l.seg = "data"
  <2> DEFINE off == l.off
             At(i) == binary[i].home = <<n, "data", off>>
             p == T + GapLen + DataPlace(n, off)
  <2>1. off \in Nat /\ off < Len(inputs[n].dataBody)
    BY <1>2, <1>3, <1>6
  <2>2. Placed(n, l.name) = AddressAt(CHOOSE i \in ImageIndex : At(i))
    BY <1>3, <1>6 DEF Placed, u
  <2> HIDE DEF off
  <2>3. p \in ImageIndex /\ At(p) /\ DataPlace(n, off) \in 1..Len(mergedData)
    BY <2>1, ImageHasData
  <2>4. ASSUME NEW i \in ImageIndex, At(i) PROVE i = p
    BY <2>4, DataOnce
  <2> HIDE DEF At, p
  <2>5. (CHOOSE i \in ImageIndex : At(i)) = p
    BY <2>3, <2>4
  <2>6. mergedData # <<>>
    BY <2>3
  <2>7. T + TextBase + GapLen = dataBase /\ GapLen \in Nat
    BY <2>6, <1>4, GapFacts
  <2>8. dataOffset[n] \in Nat
    BY <1>1, AllPlaced
  <2>9. AddressAt(p) = dataBase + dataOffset[n] + off
    BY <2>7, <2>8, <2>1, <1>4 DEF AddressAt, DataPlace, p
  <2>10. Placed(n, l.name) = dataBase + dataOffset[n] + off
    BY <2>2, <2>5, <2>9
  <2> QED BY <2>10, <1>6 DEF off, SegmentStart
<1>7. CASE l.seg = "bss"
  <2>1. Placed(n, l.name) = bssBase + BssBefore(link.units, n) + l.off
    BY <1>3, <1>7 DEF Placed, u
  <2>2. bssOffset[n] = BssBefore(link.units, n)
    BY <1>1, AllPlaced
  <2> QED BY <2>1, <2>2, <1>7 DEF SegmentStart
<1> QED BY <1>3, <1>5, <1>6, <1>7

(* The objects that export a name are the units that define it globally.    *)
LEMMA ExportersDefine ==
    ASSUME InputsAreUnits, NEW s
    PROVE  /\ Exporters(s, Len(inputs)) = Definers(link.units, s)
           /\ \A n \in Definers(link.units, s) :
                 /\ n \in ObjectIndex /\ LabelOf(link.units[n], s) \in link.units[n].labels
                 /\ LabelOf(link.units[n], s).name = s
                 /\ LabelOf(link.units[n], s).global
                 /\ ExportOf(n, s).weak = LabelOf(link.units[n], s).weak
                 /\ ExportOf(n, s).seg = LabelOf(link.units[n], s).seg
                 /\ ExportOf(n, s).conv = LabelOf(link.units[n], s).conv
                 /\ ExportOf(n, s).offset = ExportOffset(link.units[n], LabelOf(link.units[n], s))
<1>0. DOMAIN link.units = ObjectIndex /\ ObjectIndex = 1..Len(inputs)
  BY ObjectsOfUnits DEF ObjectIndex
<1>1. ASSUME NEW n \in ObjectIndex, NEW e \in inputs[n].exports, e.name = s
      PROVE  n \in Definers(link.units, s)
  <2>1. IsUnit(link.units[n]) /\ inputs[n] = EmitO45(link.units[n], n)
    BY ObjectsOfUnits
  <2>2. LET l == LabelOf(link.units[n], e.name) IN l \in link.units[n].labels /\ l.name = s /\ l.global
    BY <1>1, <2>1, ExportFacts
  <2> QED BY <2>2, <1>0 DEF Definers
<1>2. ASSUME NEW n \in Definers(link.units, s)
      PROVE  /\ n \in ObjectIndex /\ LabelOf(link.units[n], s) \in link.units[n].labels
             /\ LabelOf(link.units[n], s).name = s
             /\ LabelOf(link.units[n], s).global
             /\ \E e \in inputs[n].exports : e.name = s
             /\ ExportOf(n, s).weak = LabelOf(link.units[n], s).weak
             /\ ExportOf(n, s).seg = LabelOf(link.units[n], s).seg
             /\ ExportOf(n, s).conv = LabelOf(link.units[n], s).conv
             /\ ExportOf(n, s).offset = ExportOffset(link.units[n], LabelOf(link.units[n], s))
  <2>1. n \in ObjectIndex /\ \E l \in link.units[n].labels : l.name = s /\ l.global
    BY <1>0 DEF Definers
  <2>2. PICK l \in link.units[n].labels : l.name = s /\ l.global
    BY <2>1
  <2>3. IsUnit(link.units[n]) /\ inputs[n] = EmitO45(link.units[n], n)
    BY <2>1, ObjectsOfUnits
  <2>4. LabelOf(link.units[n], s) = l
    BY <2>2, <2>3, LabelFacts
  <2>5. PICK e \in inputs[n].exports : e.name = s
    BY <2>2, <2>3, ExportExists
  <2>6. /\ e.seg = l.seg /\ e.weak = l.weak /\ e.conv = l.conv
        /\ e.offset = ExportOffset(link.units[n], l)
    BY <2>3, <2>4, <2>5, ExportFacts
  <2>7. ExportOf(n, s) = e
    BY <2>1, <2>5, ExportOfName
  <2> QED BY <2>1, <2>2, <2>4, <2>5, <2>6, <2>7
<1>3. \A n : n \in Exporters(s, Len(inputs)) <=> n \in Definers(link.units, s)
  BY <1>0, <1>1, <1>2 DEF Exporters
<1>4. Exporters(s, Len(inputs)) = Definers(link.units, s)
  BY <1>3
<1> QED BY <1>2, <1>4

\* The definition that all units but those with a local one mean by s.
GlobalMeaning(s) ==
    IF Strong(link.units, s) # {} THEN Min(Strong(link.units, s)) ELSE Min(Definers(link.units, s))

(* resolveSymbols arrives at the strong definition, or else the first weak   *)
(* one, and there is at most one strong one.                                 *)
LEMMA StrongestTaken ==
    ASSUME LinkInv, phase \in {"analyse", "relocate", "done"}, NEW s \in ExportedBy(Len(inputs))
    PROVE  LET g == globalSymbols[s] IN
           /\ Definers(link.units, s) # {}
           /\ g.source = GlobalMeaning(s)
           /\ g.source \in Definers(link.units, s) /\ g.source \in ObjectIndex
           /\ g.addr = ExportAddress(g.source, ExportOf(g.source, s))
           /\ g.weak <=> Strong(link.units, s) = {}
           /\ ~g.weak => Strong(link.units, s) = {g.source}
<1> DEFINE g == globalSymbols[s]
           Defs == Definers(link.units, s)
           Strg == Strong(link.units, s)
<1>1. InputsAreUnits /\ SymbolsRight /\ BoundariesKnown /\ ResolvedObjects = Len(inputs)
  BY DEF LinkInv, LayoutInv, BoundariesKnown, SymbolsRight
<1>2. s \in ExportedBy(ResolvedObjects)
  BY <1>1
<1>3. SymbolRight(s)
  BY <1>1, <1>2 DEF SymbolsRight
<1>4. Exporters(s, ResolvedObjects) = Defs
  BY <1>1, ExportersDefine
<1>5. /\ g.source \in Defs
      /\ g = [addr |-> ExportAddress(g.source, ExportOf(g.source, s)),
              weak |-> ExportOf(g.source, s).weak, source |-> g.source]
      /\ \A m \in Defs : IF g.weak THEN g.source <= m /\ ExportOf(m, s).weak
                         ELSE m # g.source => ExportOf(m, s).weak
  BY <1>3, <1>4 DEF SymbolRight
<1>6. g.addr = ExportAddress(g.source, ExportOf(g.source, s)) /\ g.weak = ExportOf(g.source, s).weak
  BY <1>5
<1>7. \A m \in Defs : m \in ObjectIndex /\ ExportOf(m, s).weak = LabelOf(link.units[m], s).weak
  BY <1>1, ExportersDefine
<1>8. Strg = {m \in Defs : ~ExportOf(m, s).weak}
  BY <1>7 DEF Strong
<1> HIDE DEF g, Defs, Strg
<1>9. CASE g.weak
  <2>1. Strg = {}
    BY <1>5, <1>8, <1>9
  <2>2. Defs \in SUBSET Nat /\ Defs # {}
    BY <1>5, <1>7 DEF ObjectIndex
  <2>3. Min(Defs) = g.source
    <3>1. Min(Defs) \in Defs /\ \A x \in Defs : Min(Defs) <= x
      BY <2>2, MinOfNaturals
    <3>2. g.source <= Min(Defs) /\ Min(Defs) <= g.source
      BY <3>1, <1>5, <1>9
    <3>3. g.source \in Nat /\ Min(Defs) \in Nat
      BY <3>1, <2>2, <1>5
    <3> QED BY <3>2, <3>3
  <2> QED BY <2>1, <2>2, <2>3, <1>5, <1>6, <1>7, <1>9 DEF g, Defs, Strg, GlobalMeaning
<1>10. CASE ~g.weak
  <2>1. Strg = {g.source}
    BY <1>5, <1>6, <1>8, <1>10
  <2>2. Min(Strg) = g.source
    <3>1. Strg \in SUBSET Nat /\ Strg # {}
      BY <1>5, <1>7, <2>1 DEF ObjectIndex
    <3> QED BY <3>1, <2>1, MinOfNaturals
  <2> QED BY <2>1, <2>2, <1>5, <1>6, <1>7, <1>10 DEF g, Defs, Strg, GlobalMeaning
<1> QED BY <1>9, <1>10

(* So for every name in the symbol table but the linker's own.              *)
LEMMA SymbolMeans ==
    ASSUME LinkInv, phase \in {"analyse", "relocate", "done"},
           NEW s, s \in DOMAIN globalSymbols \ DOMAIN Boundaries
    PROVE  LET g == globalSymbols[s] IN
           /\ Definers(link.units, s) # {}
           /\ g.source = GlobalMeaning(s)
           /\ g.source \in Definers(link.units, s) /\ g.source \in ObjectIndex
           /\ g.addr = ExportAddress(g.source, ExportOf(g.source, s))
<1>1. SymbolsRight /\ BoundariesKnown
  BY DEF LinkInv, BoundariesKnown
<1>2. s \in ExportedBy(Len(inputs))
  BY <1>1 DEF SymbolsRight
<1> QED BY <1>2, StrongestTaken

(* A name a unit does not define has, in the symbol table, the address of   *)
(* the definition it means.                                                 *)
LEMMA SymbolPlaced ==
    ASSUME LinkInv, phase = "done", DataAfterText, NEW n \in ObjectIndex,
           NEW s, s \in DOMAIN globalSymbols \ DOMAIN Boundaries, ~IsDefined(link.units[n], s)
    PROVE  globalSymbols[s].addr = Placed(Meant(link.units, n, s), s)
<1> DEFINE g == globalSymbols[s]
           m == g.source
           l == LabelOf(link.units[m], s)
           e == ExportOf(m, s)
<1>1. m = GlobalMeaning(s) /\ m \in Definers(link.units, s) /\ m \in ObjectIndex
      /\ g.addr = ExportAddress(m, e)
  BY SymbolMeans
<1>2. InputsAreUnits /\ LayoutInv
  BY DEF LinkInv, LayoutInv
<1>3. /\ l \in link.units[m].labels /\ l.name = s /\ e.seg = l.seg
      /\ e.offset = ExportOffset(link.units[m], l)
  BY <1>1, <1>2, ExportersDefine
<1>4. IsUnit(link.units[m])
  BY <1>1, <1>2, ObjectsOfUnits
<1>5. l.seg # "text" => ExportOffset(link.units[m], l) = l.off
  BY <1>3, <1>4, LabelFacts
<1>6. Meant(link.units, n, s) = m
  BY <1>1 DEF Meant, GlobalMeaning
<1> HIDE DEF l, e, m
<1>7. Placed(m, l.name) =
         IF l.seg = "text" THEN TextBase + RemapTextOffset(m, ExportOffset(link.units[m], l))
         ELSE SegmentStart(m, l.seg) + l.off
  BY <1>1, <1>3, DefinitionPlaced
<1>8. ExportAddress(m, e) = Placed(m, s)
  BY <1>3, <1>5, <1>7 DEF ExportAddress
<1> QED BY <1>1, <1>6, <1>8

(* The relocations of a unit are those of the cells that name something.    *)
LEMMA RelocOfCell ==
    ASSUME InputsAreUnits, NEW n \in ObjectIndex, NEW off \in Nat
    PROVE  LET u == link.units[n] IN
           /\ off < Len(inputs[n].textBody) =>
                 LET c == TextOf(u)[off + 1] IN
                 /\ c \in UsedIn(u) /\ c.to \in STRING
                 /\ inputs[n].textBody[off + 1].op = c.op /\ inputs[n].textBody[off + 1].to = c.to
                 /\ inputs[n].textBody[off + 1].val = Assembled(u, c)
                 /\ c.to # NoLabel =>
                       \E r \in inputs[n].textRelocs : r.table = "text" /\ r.at = off /\ r.sym = c.to
           /\ off < Len(inputs[n].dataBody) =>
                 LET c == u.data[off + 1] IN
                 /\ c \in UsedIn(u) /\ c \in ToSet(u.data) /\ c.to \in STRING
                 /\ inputs[n].dataBody[off + 1].op = c.op /\ inputs[n].dataBody[off + 1].to = c.to
                 /\ inputs[n].dataBody[off + 1].val = Assembled(u, c)
                 /\ c.to # NoLabel =>
                       \E r \in inputs[n].dataRelocs : r.table = "data" /\ r.at = off /\ r.sym = c.to
<1> DEFINE u == link.units[n]
<1>1. IsUnit(u) /\ inputs[n] = EmitO45(u, n) /\ n \in Nat \ {0}
  BY ObjectsOfUnits
<1> HIDE DEF u
<1>2. TextOf(u) \in Seq(Cells) /\ u.data \in Seq(Cells)
  BY <1>1, SubOffsets DEF IsUnit
<1>3. /\ Len(inputs[n].textBody) = Len(TextOf(u)) /\ Len(inputs[n].dataBody) = Len(u.data)
      /\ \A i \in 1..Len(TextOf(u)) :
            /\ inputs[n].textBody[i].op = TextOf(u)[i].op
            /\ inputs[n].textBody[i].to = TextOf(u)[i].to
            /\ inputs[n].textBody[i].val = Assembled(u, TextOf(u)[i])
      /\ \A i \in 1..Len(u.data) :
            /\ inputs[n].dataBody[i].op = u.data[i].op
            /\ inputs[n].dataBody[i].to = u.data[i].to
            /\ inputs[n].dataBody[i].val = Assembled(u, u.data[i])
  BY <1>1, ObjectBodies
<1>4. ASSUME NEW cells \in Seq(Cells), NEW table, off < Len(cells), cells[off + 1].to # NoLabel
      PROVE  \E r \in Relocs(u, table, cells) :
                r.table = table /\ r.at = off /\ r.sym = cells[off + 1].to
  <2> DEFINE Entry(i) ==
                [table |-> table, at |-> i - 1, sym |-> cells[i].to,
                 seg |-> IF IsDefined(u, cells[i].to)
                         THEN LabelOf(u, cells[i].to).seg ELSE "external"]
  <2>1. off + 1 \in {j \in 1..Len(cells) : cells[j].to # NoLabel}
    BY <1>4
  <2>2. Entry(off + 1) \in Relocs(u, table, cells)
    BY <2>1 DEF Relocs
  <2>3. Entry(off + 1).table = table /\ Entry(off + 1).at = off
        /\ Entry(off + 1).sym = cells[off + 1].to
    OBVIOUS
  <2> QED BY <2>2, <2>3
<1>5. inputs[n].textRelocs = Relocs(u, "text", TextOf(u))
      /\ inputs[n].dataRelocs = Relocs(u, "data", u.data)
  BY <1>1 DEF EmitO45
<1>6. ASSUME off < Len(TextOf(u))
      PROVE  /\ off + 1 \in 1..Len(TextOf(u)) /\ TextOf(u)[off + 1] \in UsedIn(u)
             /\ TextOf(u)[off + 1].to \in STRING
  <2>1. off + 1 \in 1..Len(TextOf(u)) /\ DOMAIN TextOf(u) = 1..Len(TextOf(u))
    BY <1>2, <1>6
  <2>2. TextOf(u)[off + 1] \in Cells
    BY <2>1, <1>2, ElementOfSeq
  <2> QED BY <2>1, <2>2 DEF UsedIn, ToSet, Cells
<1>7. ASSUME off < Len(u.data)
      PROVE  /\ off + 1 \in 1..Len(u.data) /\ u.data[off + 1] \in UsedIn(u)
             /\ u.data[off + 1] \in ToSet(u.data) /\ u.data[off + 1].to \in STRING
  <2>1. off + 1 \in 1..Len(u.data) /\ DOMAIN u.data = 1..Len(u.data)
    BY <1>2, <1>7
  <2>2. u.data[off + 1] \in Cells
    BY <2>1, <1>2, ElementOfSeq
  <2> QED BY <2>1, <2>2 DEF UsedIn, ToSet, Cells
<1>8. ASSUME off < Len(inputs[n].textBody)
      PROVE  LET c == TextOf(u)[off + 1] IN
             /\ c \in UsedIn(u) /\ c.to \in STRING
             /\ inputs[n].textBody[off + 1].op = c.op /\ inputs[n].textBody[off + 1].to = c.to
             /\ inputs[n].textBody[off + 1].val = Assembled(u, c)
             /\ c.to # NoLabel =>
                   \E r \in inputs[n].textRelocs : r.table = "text" /\ r.at = off /\ r.sym = c.to
  BY <1>2, <1>3, <1>4, <1>5, <1>6, <1>8
<1>9. ASSUME off < Len(inputs[n].dataBody)
      PROVE  LET c == u.data[off + 1] IN
             /\ c \in UsedIn(u) /\ c \in ToSet(u.data) /\ c.to \in STRING
             /\ inputs[n].dataBody[off + 1].op = c.op /\ inputs[n].dataBody[off + 1].to = c.to
             /\ inputs[n].dataBody[off + 1].val = Assembled(u, c)
             /\ c.to # NoLabel =>
                   \E r \in inputs[n].dataRelocs : r.table = "data" /\ r.at = off /\ r.sym = c.to
  BY <1>2, <1>3, <1>4, <1>5, <1>7, <1>9
<1> QED BY <1>8, <1>9 DEF u

(* A relocation that goes to no thunk leaves the address of the definition  *)
(* its symbol means.                                                        *)
LEMMA DirectTarget ==
    ASSUME LinkInv, phase = "done", DataAfterText, PlainLink(link),
           NEW n \in ObjectIndex, NEW r \in inputs[n].textRelocs \cup inputs[n].dataRelocs,
           NEW c \in UsedIn(link.units[n]), c.to = r.sym, r.sym \notin DOMAIN Boundaries,
           r.table = "text" => <<n, r.at>> \notin DOMAIN callSiteOverrides
    PROVE  Target(n, r, Assembled(link.units[n], c)) = Placed(Meant(link.units, n, r.sym), r.sym)
<1> DEFINE u == link.units[n]
           val == Assembled(u, c)
<1>1. /\ InputsAreUnits /\ LayoutInv /\ IsUnit(u) /\ inputs[n] = EmitO45(u, n) /\ n \in Nat \ {0}
      /\ DOMAIN link.units = ObjectIndex /\ u \in ToSet(link.units)
  BY ObjectsOfUnits DEF LinkInv, LayoutInv, ToSet
<1>2. /\ r.seg = "external" <=> ~IsDefined(u, r.sym)
      /\ r.seg # "external" => r.seg = LabelOf(u, r.sym).seg
      /\ r.seg = "external" => r.sym \in inputs[n].imports
  BY <1>1, RelocsOfObject
<1>3. CASE ~IsDefined(u, r.sym)
  <2>1. val = 0 /\ r.seg = "external"
    BY <1>2, <1>3 DEF Assembled
  <2>2. r.sym \in DOMAIN globalSymbols
    BY <1>2, <2>1 DEF LinkInv, ImportsResolved
  <2>3. Target(n, r, val) = globalSymbols[r.sym].addr + val
    BY <2>1 DEF Target, ExternalTarget
  <2>4. globalSymbols[r.sym].addr \in Nat
    <3>1. LayoutInv /\ BasesRight /\ SymbolsRight
      BY DEF LinkInv
    <3>2. globalSymbols[r.sym] \in [addr : Nat, weak : BOOLEAN, source : 0..Len(inputs)]
      BY <3>1, <2>2, SymbolTypes
    <3> QED BY <3>2
  <2>5. globalSymbols[r.sym].addr = Placed(Meant(link.units, n, r.sym), r.sym)
    BY <1>3, <2>2, SymbolPlaced
  <2> HIDE DEF val, u
  <2>6. Target(n, r, val) = Placed(Meant(link.units, n, r.sym), r.sym)
    BY <2>1, <2>3, <2>4, <2>5
  <2> QED BY <2>6 DEF val, u
<1>4. CASE IsDefined(u, r.sym)
  <2> DEFINE l == LabelOf(u, r.sym)
  <2>1. val = l.off /\ r.seg # "external" /\ r.seg = l.seg
    BY <1>2, <1>4 DEF Assembled
  <2>2. l \in u.labels /\ l.name = r.sym
    BY <1>1, <1>4, LabelOfName
  <2>3. Meant(link.units, n, r.sym) = n
    BY <1>1, <1>4 DEF PlainLink, OwnUsesMeanOwn
  <2>4. Target(n, r, val) = InternalTarget(n, r, val)
    BY <2>1 DEF Target
  <2>5. /\ l.seg \in {"text", "data", "bss"} /\ l.off \in Nat
        /\ l.seg = "text" => /\ l.sub \in 1..Len(u.text) /\ ExportOffset(u, l) \in Nat
                             /\ ExportOffset(u, l) < Len(TextOf(u))
                             /\ ExportOffset(u, l) = SubOffset(u, l.sub) + l.off
    BY <1>1, <2>2, LabelFacts
  <2>6. l.seg = "text" => SubOffset(u, l.sub) = 0
    BY <1>1, <1>4 DEF PlainLink, OwnUsesUnsplit
  <2>7. l.seg = "text" => ExportOffset(u, l) = l.off
    BY <2>5, <2>6
  <2>8. Placed(n, l.name) =
           IF l.seg = "text" THEN TextBase + RemapTextOffset(n, ExportOffset(u, l))
           ELSE SegmentStart(n, l.seg) + l.off
    BY <2>2, DefinitionPlaced
  <2>9. CASE l.seg = "text"
    <3>1. l.off < Len(inputs[n].textBody)
      BY <1>1, <2>5, <2>7, <2>9, ObjectBodies
    <3>2. CASE SeveralChunks(n)
      BY <2>1, <2>2, <2>3, <2>4, <2>7, <2>8, <2>9, <3>2 DEF InternalTarget
    <3>3. CASE ~SeveralChunks(n)
      <4>1. RemapTextOffset(n, l.off) = TextOffset(n) + l.off
        BY <1>1, <2>5, <3>1, <3>3, UnsplitPlaces
      <4>2. TextOffset(n) \in Nat /\ TextBase \in Nat
        BY <1>1, <2>5, RemapType, BaseAssumption
      <4>3. InternalTarget(n, r, val) = (TextBase + TextOffset(n)) + l.off
        BY <2>1, <2>9, <3>3 DEF InternalTarget, SegmentStart
      <4> HIDE DEF l, val, u
      <4>4. InternalTarget(n, r, val) = TextBase + RemapTextOffset(n, l.off)
        BY <4>1, <4>2, <4>3, <2>5
      <4>5. Target(n, r, val) = Placed(n, l.name)
        BY <2>4, <2>7, <2>8, <2>9, <4>4
      <4> QED BY <4>5, <2>2, <2>3 DEF val, u
    <3> QED BY <3>2, <3>3
  <2>10. CASE l.seg # "text"
    BY <2>1, <2>2, <2>3, <2>4, <2>8, <2>10 DEF InternalTarget
  <2> QED BY <2>9, <2>10
<1> QED BY <1>3, <1>4

(* Every cell of the image that names something was patched.                *)
LEMMA UsePatched ==
    ASSUME LinkInv, phase = "done", SplitUnitsPlainData(link),
           NEW i \in ImageIndex, binary[i].op \in {"jsr", "ref"}
    PROVE  \E n \in ObjectIndex : \E r \in inputs[n].textRelocs \cup inputs[n].dataRelocs :
           \E c \in UsedIn(link.units[n]) :
              /\ binary[i].home = <<n, r.table, r.at>> /\ c.to = r.sym
              /\ binary[i].op = c.op /\ binary[i].to = c.to
              /\ binary[i].val = Target(n, r, Assembled(link.units[n], c))
              /\ r.table = "text" => r \in inputs[n].textRelocs
                                     /\ inputs[n].textBody[r.at + 1].op = c.op
                                     /\ c = TextOf(link.units[n])[r.at + 1]
              /\ r.table = "data" => c \in ToSet(link.units[n].data)
<1>1. InputsAreUnits /\ RelocsApplied /\ todo = {}
  BY DEF LinkInv, LayoutInv, ImageWritten
<1>2. ASSUME NEW n \in ObjectIndex, NEW c \in UsedIn(link.units[n]), c.op \in {"jsr", "ref"}
      PROVE  c.to # NoLabel
  <2>1. IsUnit(link.units[n])
    BY <1>1, ObjectsOfUnits
  <2> QED BY <2>1, <1>2 DEF IsUnit, UsedIn
<1>3. CASE binary[i].op \in {"thunk", "rts"}
  BY <1>3
<1>4. ASSUME NEW n \in ObjectIndex, NEW off \in Nat, off < Len(inputs[n].textBody),
             i = TextPlace(n, off)
      PROVE  \E r \in inputs[n].textRelocs : \E c \in UsedIn(link.units[n]) :
                /\ binary[i].home = <<n, r.table, r.at>> /\ c.to = r.sym /\ r.table = "text"
                /\ binary[i].op = c.op /\ binary[i].to = c.to
                /\ binary[i].val = Target(n, r, Assembled(link.units[n], c))
                /\ inputs[n].textBody[r.at + 1].op = c.op
                /\ c = TextOf(link.units[n])[r.at + 1]
  <2> DEFINE u == link.units[n]
             c == TextOf(u)[off + 1]
  <2>1. /\ c \in UsedIn(u)
        /\ inputs[n].textBody[off + 1].op = c.op /\ inputs[n].textBody[off + 1].to = c.to
        /\ inputs[n].textBody[off + 1].val = Assembled(u, c)
        /\ c.to # NoLabel =>
              \E r \in inputs[n].textRelocs : r.table = "text" /\ r.at = off /\ r.sym = c.to
    BY <1>1, <1>4, RelocOfCell
  <2>2. /\ binary[i] = mergedText[i] /\ binary[i].home = <<n, "text", off>>
        /\ binary[i].op = inputs[n].textBody[off + 1].op
        /\ binary[i].to = inputs[n].textBody[off + 1].to
    BY <1>4, ImageHasText
  <2> HIDE DEF c
  <2>3. c.to # NoLabel
    BY <1>2, <2>1, <2>2
  <2>4. PICK r \in inputs[n].textRelocs : r.table = "text" /\ r.at = off /\ r.sym = c.to
    BY <2>1, <2>3
  <2>5. mergedText[TextPlace(n, r.at)].val = Target(n, r, inputs[n].textBody[r.at + 1].val)
    BY <1>1 DEF RelocsApplied, Relocated
  <2>6. binary[i].val = Target(n, r, Assembled(u, c))
    BY <2>1, <2>2, <2>4, <2>5, <1>4
  <2>7. c = TextOf(u)[r.at + 1] /\ inputs[n].textBody[r.at + 1].op = c.op
    BY <2>4, <2>1 DEF c
  <2> QED BY <2>1, <2>2, <2>4, <2>6, <2>7
<1>5. ASSUME NEW n \in ObjectIndex, NEW off \in Nat, off < Len(inputs[n].dataBody),
             i = Len(mergedText) + GapLen + DataPlace(n, off)
      PROVE  \E r \in inputs[n].dataRelocs : \E c \in UsedIn(link.units[n]) :
                /\ binary[i].home = <<n, r.table, r.at>> /\ c.to = r.sym /\ r.table = "data"
                /\ c \in ToSet(link.units[n].data)
                /\ binary[i].op = c.op /\ binary[i].to = c.to
                /\ binary[i].val = Target(n, r, Assembled(link.units[n], c))
  <2>0. LET c == link.units[n].data[off + 1] IN
        /\ c \in UsedIn(link.units[n]) /\ c \in ToSet(link.units[n].data) /\ c.to \in STRING
        /\ inputs[n].dataBody[off + 1].op = c.op /\ inputs[n].dataBody[off + 1].to = c.to
        /\ inputs[n].dataBody[off + 1].val = Assembled(link.units[n], c)
        /\ c.to # NoLabel =>
              \E r \in inputs[n].dataRelocs : r.table = "data" /\ r.at = off /\ r.sym = c.to
    BY <1>1, <1>5, RelocOfCell
  <2> DEFINE u == link.units[n]
             c == u.data[off + 1]
  <2>1. /\ c \in UsedIn(u) /\ c \in ToSet(u.data)
        /\ inputs[n].dataBody[off + 1].op = c.op /\ inputs[n].dataBody[off + 1].to = c.to
        /\ inputs[n].dataBody[off + 1].val = Assembled(u, c)
        /\ c.to # NoLabel =>
              \E r \in inputs[n].dataRelocs : r.table = "data" /\ r.at = off /\ r.sym = c.to
    BY <2>0
  <2>2. /\ binary[i] = mergedData[DataPlace(n, off)] /\ binary[i].home = <<n, "data", off>>
        /\ binary[i].op = inputs[n].dataBody[off + 1].op
        /\ binary[i].to = inputs[n].dataBody[off + 1].to
    BY <1>5, ImageHasData
  <2> HIDE DEF c
  <2>3. c.to # NoLabel
    BY <1>2, <2>1, <2>2
  <2>4. PICK r \in inputs[n].dataRelocs : r.table = "data" /\ r.at = off /\ r.sym = c.to
    BY <2>1, <2>3
  <2>5. mergedData[DataPlace(n, r.at)].val = Target(n, r, inputs[n].dataBody[r.at + 1].val)
    BY <1>1 DEF RelocsApplied, Relocated
  <2>6. binary[i].val = Target(n, r, Assembled(u, c))
    BY <2>1, <2>2, <2>4, <2>5
  <2> QED BY <2>1, <2>2, <2>4, <2>6
<1>6. \/ binary[i].op \in {"thunk", "rts"}
      \/ \E n \in ObjectIndex : \E off \in Nat :
            off < Len(inputs[n].textBody) /\ i = TextPlace(n, off)
      \/ \E n \in ObjectIndex : \E off \in Nat :
            /\ off < Len(inputs[n].dataBody)
            /\ i = Len(mergedText) + GapLen + DataPlace(n, off)
  BY ImageFromObjects
<1>7. CASE \E n \in ObjectIndex : \E off \in Nat :
              off < Len(inputs[n].textBody) /\ i = TextPlace(n, off)
  <2>1. PICK n \in ObjectIndex, off \in Nat : off < Len(inputs[n].textBody) /\ i = TextPlace(n, off)
    BY <1>7
  <2> QED BY <2>1, <1>4
<1>8. CASE \E n \in ObjectIndex : \E off \in Nat :
              /\ off < Len(inputs[n].dataBody)
              /\ i = Len(mergedText) + GapLen + DataPlace(n, off)
  <2>1. PICK n \in ObjectIndex, off \in Nat :
            off < Len(inputs[n].dataBody) /\ i = Len(mergedText) + GapLen + DataPlace(n, off)
    BY <1>8
  <2>2. PICK r \in inputs[n].dataRelocs, c \in UsedIn(link.units[n]) :
            /\ binary[i].home = <<n, r.table, r.at>> /\ c.to = r.sym /\ r.table = "data"
            /\ c \in ToSet(link.units[n].data)
            /\ binary[i].op = c.op /\ binary[i].to = c.to
            /\ binary[i].val = Target(n, r, Assembled(link.units[n], c))
    BY <2>1, <1>5
  <2> QED BY <2>2
<1> QED BY <1>3, <1>6, <1>7, <1>8

(* Thunks are for calls only.                                               *)
LEMMA OverriddenIsCall ==
    ASSUME LinkInv, phase = "done", NEW n \in ObjectIndex, NEW r \in inputs[n].textRelocs,
           <<n, r.at>> \in DOMAIN callSiteOverrides
    PROVE  <<n, r>> \in Crossing /\ r.seg = "external"
<1>1. InputsAreUnits /\ SymbolsRight /\ ImportsResolved /\ LayoutInv /\ ThunksMade
  BY DEF LinkInv, LayoutInv
<1>2. PICK s \in Crossing : s[2].seg = "external" /\ <<n, r.at>> = <<s[1], s[2].at>>
  BY <1>1 DEF ThunksMade
<1>3. s[1] = n /\ s[2].at = r.at /\ s[2] \in inputs[n].textRelocs
  BY <1>1, <1>2, FunctionsKnown
<1>4. s[2].table = "text" /\ r.table = "text"
  BY <1>1, <1>3, RelocsOfObject
<1>5. s[2] = r
  BY <1>1, <1>3, <1>4, RelocsOfObject
<1>6. \E m \in ObjectIndex : s \in {m} \X inputs[m].textRelocs
  BY DEF Crossing
<1>7. s = <<s[1], s[2]>>
  BY <1>6
<1>8. s = <<n, r>>
  BY <1>3, <1>5, <1>7
<1> QED BY <1>2, <1>3, <1>5, <1>8

(* Every address in the image is that of the definition the source means, at *)
(* the place it was loaded (applyRelocs after layoutSegments and             *)
(* resolveSymbols), however the chunks were reordered, in links without the  *)
(* three known departures.                                                   *)
THEOREM AddressesReachDefinitions ==
    LinkSpec => [](DataAfterText /\ PlainLink(link) => ReferencesReachDefinitions)
<1>1. ASSUME LinkInv, DataAfterText, PlainLink(link)
      PROVE  ReferencesReachDefinitions
  <2> SUFFICES ASSUME Done, NEW i \in Uses("ref")
               PROVE  binary[i].val = Placed(MeantBy(i), binary[i].to)
    BY DEF ReferencesReachDefinitions
  <2>1. phase = "done" /\ i \in ImageIndex /\ binary[i].op = "ref"
        /\ binary[i].to \notin DOMAIN Boundaries /\ SplitUnitsPlainData(link)
    BY <1>1 DEF Done, Uses, PlainLink
  <2>a. PICK n \in ObjectIndex :
           \E r \in inputs[n].textRelocs \cup inputs[n].dataRelocs : \E c \in UsedIn(link.units[n]) :
              /\ binary[i].home = <<n, r.table, r.at>> /\ c.to = r.sym
              /\ binary[i].op = c.op /\ binary[i].to = c.to
              /\ binary[i].val = Target(n, r, Assembled(link.units[n], c))
              /\ r.table = "text" => r \in inputs[n].textRelocs
                                     /\ inputs[n].textBody[r.at + 1].op = c.op
                                     /\ c = TextOf(link.units[n])[r.at + 1]
              /\ r.table = "data" => c \in ToSet(link.units[n].data)
    BY <1>1, <2>1, UsePatched
  <2>2. PICK r \in inputs[n].textRelocs \cup inputs[n].dataRelocs, c \in UsedIn(link.units[n]) :
              /\ binary[i].home = <<n, r.table, r.at>> /\ c.to = r.sym
              /\ binary[i].op = c.op /\ binary[i].to = c.to
              /\ binary[i].val = Target(n, r, Assembled(link.units[n], c))
              /\ r.table = "text" => r \in inputs[n].textRelocs
                                     /\ inputs[n].textBody[r.at + 1].op = c.op
                                     /\ c = TextOf(link.units[n])[r.at + 1]
              /\ r.table = "data" => c \in ToSet(link.units[n].data)
    BY <2>a
  <2>3. ASSUME r.table = "text", <<n, r.at>> \in DOMAIN callSiteOverrides
        PROVE  FALSE
    <3>1. <<n, r>> \in Crossing
      BY <1>1, <2>1, <2>2, <2>3, OverriddenIsCall
    <3>2. Mismatch(n, r)
      BY <3>1 DEF Crossing
    <3>3. inputs[n].textBody[r.at + 1].op = "jsr"
      BY <3>2 DEF Mismatch, IsCall
    <3> QED BY <2>1, <2>2, <2>3, <3>3
  <2>4. Target(n, r, Assembled(link.units[n], c)) = Placed(Meant(link.units, n, r.sym), r.sym)
    BY <1>1, <2>1, <2>2, <2>3, DirectTarget
  <2>5. binary[i].home[1] = n
    BY <2>2
  <2> QED BY <2>2, <2>4, <2>5 DEF MeantBy
<1>2. LinkInv => (DataAfterText /\ PlainLink(link) => ReferencesReachDefinitions)
  BY <1>1
<1> QED BY <1>2, LinkInvInvariant, PTL

-----------------------------------------------------------------------------
\* Calls.

(* A bounded set of naturals has a largest element.                         *)
LEMMA LargestNumber ==
    ASSUME NEW N \in Nat, NEW S \in SUBSET (0..N), S # {}
    PROVE  \E m \in S : \A i \in S : i <= m
<1> DEFINE R == {N - x : x \in S}
<1>1. R \in SUBSET Nat /\ R # {}
  <2>1. \A x \in S : x \in 0..N /\ N - x \in Nat
    OBVIOUS
  <2>2. \A r \in R : r \in Nat
    BY <2>1
  <2>3. R # {}
    OBVIOUS
  <2> QED BY <2>2, <2>3
<1>2. PICK d \in R : \A i \in R : d <= i
  BY <1>1, LeastNumber
<1>3. PICK m \in S : d = N - m
  BY <1>2
<1>4. ASSUME NEW i \in S PROVE i <= m
  <2>1. N - i \in R
    OBVIOUS
  <2>2. N - m <= N - i
    BY <2>1, <1>2, <1>3
  <2> QED BY <2>2, <1>4
<1> QED BY <1>4

(* funcAttrs_ holds the convention of the definitions of a name, if they    *)
(* agree on it.                                                             *)
LEMMA ConventionOfName ==
    ASSUME InputsAreUnits, PlainFunctions(link), NEW s, NEW m \in Definers(link.units, s)
    PROVE  FuncConv(s) = LabelOf(link.units[m], s).conv
<1> DEFINE cv == LabelOf(link.units[m], s).conv
<1>1. \A n \in Definers(link.units, s) :
         /\ n \in ObjectIndex /\ LabelOf(link.units[n], s) \in link.units[n].labels
         /\ LabelOf(link.units[n], s).name = s /\ LabelOf(link.units[n], s).global
         /\ ExportOf(n, s).conv = LabelOf(link.units[n], s).conv
  BY ExportersDefine
<1>2. DOMAIN link.units = ObjectIndex /\ \A n \in ObjectIndex : link.units[n] \in ToSet(link.units)
  BY ObjectsOfUnits DEF ToSet
<1>3. \A n \in Definers(link.units, s) : LabelOf(link.units[n], s).conv = cv
  BY <1>1, <1>2 DEF PlainFunctions
<1>4. ASSUME NEW n \in ObjectIndex, NEW e \in inputs[n].exports, e.name = s
      PROVE  n \in Definers(link.units, s) /\ e = ExportOf(n, s) /\ e.conv = cv
  <2>1. e = ExportOf(n, s)
    BY <1>4, ExportOfName
  <2>2. n \in Exporters(s, Len(inputs))
    BY <1>4 DEF Exporters, ObjectIndex
  <2>3. n \in Definers(link.units, s)
    BY <2>2, ExportersDefine
  <2> QED BY <2>1, <2>3, <1>1, <1>3
<1>5. m \in ObjectIndex /\ \E e \in inputs[m].exports : e.name = s
  <2>1. m \in Exporters(s, Len(inputs))
    BY ExportersDefine
  <2> QED BY <2>1 DEF Exporters, ObjectIndex
<1> HIDE DEF cv
<1>6. CASE cv = "none"
  <2>1. Attributed(s) = {}
    BY <1>4, <1>6 DEF Attributed
  <2> QED BY <2>1, <1>6 DEF FuncConv, cv
<1>7. CASE cv # "none"
  <2>1. Attributed(s) # {}
    BY <1>4, <1>5, <1>7 DEF Attributed
  <2>2. \E n \in ObjectIndex : \E e \in inputs[n].exports : e.name = s /\ e.conv = FuncConv(s)
    BY <2>1, FuncConvType
  <2> QED BY <2>2, <1>4 DEF cv
<1> QED BY <1>6, <1>7

(* The call graph takes a call to be in the function it is in.              *)
LEMMA CallerIs ==
    ASSUME InputsAreUnits, PlainFunctions(link), NEW n \in ObjectIndex, NEW at \in Nat
    PROVE  IF Caller(n, at) = NoLabel THEN ConvAt(link.units[n], at) = "none"
           ELSE FuncConv(Caller(n, at)) = ConvAt(link.units[n], at)
<1> DEFINE u == link.units[n]
           B == {l \in u.labels : l.seg = "text" /\ ExportOffset(u, l) <= at}
           E == {e \in TextExports(n) : e.offset <= at}
           Latest(l) == \A k \in B : ExportOffset(u, k) <= ExportOffset(u, l)
           LatestExport(e) == \A f \in E : f.offset <= e.offset
<1>1. /\ IsUnit(u) /\ inputs[n] = EmitO45(u, n) /\ u \in ToSet(link.units)
      /\ DOMAIN link.units = ObjectIndex
  BY ObjectsOfUnits DEF ToSet
<1>2. ConvAt(u, at) = IF B = {} THEN "none" ELSE (CHOOSE l \in B : Latest(l)).conv
  BY DEF ConvAt
<1>3. Caller(n, at) = IF E = {} THEN NoLabel ELSE (CHOOSE e \in E : LatestExport(e)).name
  BY DEF Caller
<1> HIDE DEF u
<1>4. \A l \in u.labels : l.name # NoLabel /\ LabelOf(u, l.name) = l /\ ExportOffset(u, l) \in Nat
  BY <1>1, LabelFacts
<1>5. \A l \in u.labels : l.seg = "text" => l.global
  BY <1>1 DEF PlainFunctions
<1>6. ASSUME NEW l \in B
      PROVE  \E e \in E : e.name = l.name /\ e.offset = ExportOffset(u, l)
  <2>1. PICK e \in EmitO45(u, n).exports : e.name = l.name
    BY <1>1, <1>5, ExportExists
  <2>2. e.seg = l.seg /\ e.offset = ExportOffset(u, l)
    BY <1>1, <1>4, <2>1, ExportFacts
  <2> QED BY <1>1, <2>1, <2>2 DEF TextExports
<1>7. ASSUME NEW e \in E
      PROVE  \E l \in B : e.name = l.name /\ e.offset = ExportOffset(u, l)
  <2>1. e \in EmitO45(u, n).exports /\ e.seg = "text" /\ e.offset <= at
    BY <1>1 DEF TextExports
  <2>2. LET l == LabelOf(u, e.name) IN
        l \in u.labels /\ l.name = e.name /\ e.seg = l.seg /\ e.offset = ExportOffset(u, l)
    BY <1>1, <2>1, ExportFacts
  <2> QED BY <2>1, <2>2
<1>8. CASE B = {}
  BY <1>2, <1>3, <1>7, <1>8 DEF u
<1>9. CASE B # {}
  <2>1. \E l \in B : Latest(l)
    <3> DEFINE S == {ExportOffset(u, l) : l \in B}
    <3>1. S \in SUBSET (0..at) /\ S # {}
      BY <1>4, <1>9
    <3>2. PICK m \in S : \A i \in S : i <= m
      BY <3>1, LargestNumber
    <3> QED BY <3>2
  <2> DEFINE l == CHOOSE x \in B : Latest(x)
             e == CHOOSE x \in E : LatestExport(x)
  <2> HIDE DEF Latest, LatestExport, B, E
  <2>2. l \in B /\ Latest(l)
    BY <2>1
  <2>3. \E x \in E : LatestExport(x)
    <3>1. PICK x \in E : x.name = l.name /\ x.offset = ExportOffset(u, l)
      BY <2>2, <1>6
    <3>2. ASSUME NEW f \in E PROVE f.offset <= x.offset
      BY <1>7, <2>2, <3>1 DEF Latest
    <3> QED BY <3>1, <3>2 DEF LatestExport
  <2>4. e \in E /\ LatestExport(e)
    BY <2>3
  <2> HIDE DEF l, e
  <2>5. PICK k \in B : e.name = k.name /\ e.offset = ExportOffset(u, k)
    BY <2>4, <1>7
  <2>6. PICK f \in E : f.name = l.name /\ f.offset = ExportOffset(u, l)
    BY <2>2, <1>6
  <2>7. ExportOffset(u, k) = ExportOffset(u, l)
    <3>1. ExportOffset(u, k) <= ExportOffset(u, l)
      BY <2>2 DEF Latest
    <3>2. ExportOffset(u, l) <= ExportOffset(u, k)
      BY <2>4, <2>5, <2>6 DEF LatestExport
    <3>3. ExportOffset(u, k) \in Nat /\ ExportOffset(u, l) \in Nat
      BY <2>2, <1>4 DEF B
    <3> QED BY <3>1, <3>2, <3>3
  <2>8. k = l
    BY <2>2, <2>5, <2>7, <1>1 DEF B, PlainFunctions
  <2>9. l \in u.labels /\ l.global /\ LabelOf(u, l.name) = l /\ l.name # NoLabel
    BY <2>2, <1>4, <1>5 DEF B
  <2>10. n \in Definers(link.units, l.name)
    BY <2>9, <1>1 DEF Definers, u
  <2>11. FuncConv(l.name) = l.conv
    BY <2>9, <2>10, ConventionOfName DEF u
  <2>12. Caller(n, at) = l.name
    BY <1>3, <2>4, <2>5, <2>8 DEF e
  <2>13. ConvAt(u, at) = l.conv
    BY <1>2, <1>9 DEF l
  <2> QED BY <2>9, <2>11, <2>12, <2>13 DEF u
<1> QED BY <1>8, <1>9

(* A call inside a unit is attributed to the label it names, if that is a   *)
(* function.                                                                *)
LEMMA OwnCallee ==
    ASSUME InputsAreUnits, PlainLink(link), PlainFunctions(link),
           NEW n \in ObjectIndex, NEW r \in inputs[n].textRelocs, IsDefined(link.units[n], r.sym)
    PROVE  LET l == LabelOf(link.units[n], r.sym) IN
           /\ l \in link.units[n].labels /\ l.name = r.sym /\ r.seg = l.seg
           /\ Callee(n, r) = IF l.seg = "text" THEN r.sym ELSE NoLabel
<1> DEFINE u == link.units[n]
           l == LabelOf(u, r.sym)
           v == inputs[n].textBody[r.at + 1].val
           here == {e \in TextExports(n) : e.offset = v}
<1>0. IsDefined(u, r.sym)
  OBVIOUS
<1>1. IsUnit(u) /\ inputs[n] = EmitO45(u, n) /\ u \in ToSet(link.units)
      /\ DOMAIN link.units = ObjectIndex
  BY ObjectsOfUnits DEF ToSet
<1>2. /\ r.at \in Nat /\ r.at < Len(inputs[n].textBody) /\ r.sym # NoLabel
      /\ r.seg # "external" /\ r.seg = l.seg
      /\ r.sym = inputs[n].textBody[r.at + 1].to
  BY RelocsOfObject
<1>3. l \in u.labels /\ l.name = r.sym
  BY <1>1, LabelOfName
<1>4. PICK c \in UsedIn(u) : c.to = r.sym /\ v = Assembled(u, c)
  <2>1. LET c == TextOf(u)[r.at + 1] IN
        /\ c \in UsedIn(u)
        /\ inputs[n].textBody[r.at + 1].to = c.to
        /\ inputs[n].textBody[r.at + 1].val = Assembled(u, c)
    BY <1>2, RelocOfCell
  <2> QED BY <2>1, <1>2
<1>5. v = l.off
  BY <1>4 DEF Assembled
<1>6. Callee(n, r) = IF r.seg = "text" /\ here # {} THEN (CHOOSE e \in here : TRUE).name
                     ELSE NoLabel
  BY <1>2 DEF Callee
<1> HIDE DEF u, l, v, here
<1>7. CASE l.seg = "text"
  <2>1. SubOffset(u, l.sub) = 0
    BY <1>0, <1>1, <1>4, <1>7 DEF PlainLink, OwnUsesUnsplit, l
  <2>2. ExportOffset(u, l) = l.off
    <3>1. ExportOffset(u, l) = SubOffset(u, l.sub) + l.off /\ l.off \in Nat
      BY <1>1, <1>3, <1>7, LabelFacts
    <3> QED BY <2>1, <3>1
  <2>3. l.global
    BY <1>1, <1>3, <1>7 DEF PlainFunctions
  <2>4. here # {}
    <3>1. PICK e \in EmitO45(u, n).exports : e.name = l.name
      BY <1>1, <1>3, <2>3, ExportExists
    <3>2. e.seg = l.seg /\ e.offset = ExportOffset(u, l)
      <4>1. LabelOf(u, l.name) = l
        BY <1>1, <1>3, LabelFacts
      <4> QED BY <4>1, <1>1, <3>1, ExportFacts
    <3>3. e \in here
      BY <1>1, <1>5, <1>7, <2>2, <3>1, <3>2 DEF here, TextExports
    <3> QED BY <3>3
  <2>5. ASSUME NEW e \in here PROVE e.name = r.sym
    <3>1. e \in EmitO45(u, n).exports /\ e.seg = "text" /\ e.offset = l.off
      BY <1>1, <1>5, <2>5 DEF here, TextExports
    <3> DEFINE k == LabelOf(u, e.name)
    <3>2. k \in u.labels /\ k.name = e.name /\ e.seg = k.seg /\ e.offset = ExportOffset(u, k)
      BY <1>1, <3>1, ExportFacts
    <3> HIDE DEF k
    <3>3. k = l
      BY <1>1, <1>3, <1>7, <2>2, <3>1, <3>2 DEF PlainFunctions
    <3> QED BY <3>2, <3>3, <1>3
  <2>6. (CHOOSE e \in here : TRUE) \in here
    BY <2>4
  <2> QED BY <1>2, <1>3, <1>6, <1>7, <2>4, <2>5, <2>6 DEF u, l
<1>8. CASE l.seg # "text"
  BY <1>2, <1>3, <1>6, <1>8 DEF u, l
<1> QED BY <1>7, <1>8

(* A definition that a unit without one of its own means is one of those.   *)
LEMMA MeantIsDefiner ==
    ASSUME InputsAreUnits, NEW n, NEW s, ~IsDefined(link.units[n], s),
           Definers(link.units, s) # {}
    PROVE  Meant(link.units, n, s) \in Definers(link.units, s)
<1>1. Definers(link.units, s) \in SUBSET Nat
  <2>1. DOMAIN link.units = 1..Len(inputs)
    BY ObjectsOfUnits DEF ObjectIndex
  <2> QED BY <2>1 DEF Definers
<1>2. Strong(link.units, s) \subseteq Definers(link.units, s)
  BY DEF Strong
<1>3. CASE Strong(link.units, s) # {}
  <2>1. Min(Strong(link.units, s)) \in Strong(link.units, s)
    BY <1>1, <1>2, <1>3, MinOfNaturals
  <2> QED BY <2>1, <1>2, <1>3 DEF Meant
<1>4. CASE Strong(link.units, s) = {}
  <2>1. Min(Definers(link.units, s)) \in Definers(link.units, s)
    BY <1>1, MinOfNaturals
  <2> QED BY <2>1, <1>4 DEF Meant
<1> QED BY <1>3, <1>4

(* The call graph finds the calls that cross conventions, and no others.    *)
LEMMA CallCrosses ==
    ASSUME InputsAreUnits, PlainLink(link), PlainFunctions(link),
           NEW n \in ObjectIndex, NEW r \in inputs[n].textRelocs,
           inputs[n].textBody[r.at + 1].op = "jsr",
           IsDefined(link.units[n], r.sym) \/ Definers(link.units, r.sym) # {}
    PROVE  LET from == ConvAt(link.units[n], r.at)
               m == Meant(link.units, n, r.sym)
               into == LabelOf(link.units[m], r.sym).conv
           IN  /\ Mismatch(n, r) <=> from # "none" /\ into # "none" /\ from # into
               /\ Mismatch(n, r) => FuncConv(Caller(n, r.at)) = from /\ Callee(n, r) = r.sym
<1> DEFINE u == link.units[n]
           from == ConvAt(u, r.at)
           m == Meant(link.units, n, r.sym)
           into == LabelOf(link.units[m], r.sym).conv
<1>1. /\ r.at \in Nat /\ r.table = "text" /\ r.sym # NoLabel
      /\ r.seg = "external" <=> ~IsDefined(u, r.sym)
  BY RelocsOfObject
<1>2. IsCall(n, r)
  BY <1>1 DEF IsCall
<1>3. IF Caller(n, r.at) = NoLabel THEN from = "none" ELSE FuncConv(Caller(n, r.at)) = from
  BY <1>1, CallerIs
<1>4. IF Callee(n, r) = NoLabel THEN into = "none"
      ELSE FuncConv(Callee(n, r)) = into /\ Callee(n, r) = r.sym
  <2>1. CASE ~IsDefined(u, r.sym)
    <3>1. m \in Definers(link.units, r.sym)
      BY <2>1, MeantIsDefiner
    <3> HIDE DEF m
    <3>2. FuncConv(r.sym) = into
      BY <3>1, ConventionOfName
    <3>3. Callee(n, r) = r.sym
      BY <1>1, <2>1 DEF Callee
    <3> QED BY <1>1, <3>2, <3>3
  <2>2. CASE IsDefined(u, r.sym)
    <3> DEFINE l == LabelOf(u, r.sym)
    <3>1. l \in u.labels /\ l.name = r.sym
          /\ Callee(n, r) = IF l.seg = "text" THEN r.sym ELSE NoLabel
      BY <2>2, OwnCallee
    <3>2. u \in ToSet(link.units) /\ n \in DOMAIN link.units
      BY ObjectsOfUnits DEF ToSet
    <3>3. m = n
      <4>1. LET c == TextOf(u)[r.at + 1] IN
            c \in UsedIn(u) /\ inputs[n].textBody[r.at + 1].to = c.to
        <5>1. r.at < Len(inputs[n].textBody)
          BY RelocsOfObject
        <5> QED BY <1>1, <5>1, RelocOfCell
      <4>2. r.sym = inputs[n].textBody[r.at + 1].to
        BY RelocsOfObject
      <4> QED BY <2>2, <3>2, <4>1, <4>2 DEF PlainLink, OwnUsesMeanOwn
    <3>4. into = l.conv
      BY <3>3
    <3>5. CASE l.seg = "text"
      <4>1. l.global
        BY <3>1, <3>2, <3>5 DEF PlainFunctions
      <4>2. n \in Definers(link.units, r.sym)
        BY <3>1, <3>2, <4>1 DEF Definers
      <4>3. FuncConv(r.sym) = l.conv
        BY <4>2, ConventionOfName
      <4> QED BY <1>1, <3>1, <3>4, <3>5, <4>3
    <3>6. CASE l.seg # "text"
      <4>1. l.conv = "none"
        BY <3>1, <3>2, <3>6 DEF PlainFunctions
      <4> QED BY <3>1, <3>4, <3>6, <4>1
    <3> QED BY <3>5, <3>6
  <2> QED BY <2>1, <2>2
<1> HIDE DEF from, into, m, u
<1>5. /\ Mismatch(n, r) <=> from # "none" /\ into # "none" /\ from # into
      /\ Mismatch(n, r) => FuncConv(Caller(n, r.at)) = from /\ Callee(n, r) = r.sym
  BY <1>2, <1>3, <1>4 DEF Mismatch
<1> QED BY <1>5 DEF from, into, m, u

(* What a reference of a linked unit names is defined somewhere.            *)
LEMMA NamesDefined ==
    ASSUME LinkInv, phase \in {"analyse", "relocate", "done"}, NEW n \in ObjectIndex,
           NEW r \in inputs[n].textRelocs \cup inputs[n].dataRelocs, r.sym \notin DOMAIN Boundaries
    PROVE  /\ IsDefined(link.units[n], r.sym) \/ Definers(link.units, r.sym) # {}
           /\ ~IsDefined(link.units[n], r.sym) => r.sym \in DOMAIN globalSymbols
<1>1. InputsAreUnits /\ ImportsResolved
  BY DEF LinkInv, LayoutInv
<1>2. CASE ~IsDefined(link.units[n], r.sym)
  <2>1. r.sym \in inputs[n].imports
    BY <1>1, <1>2, RelocsOfObject
  <2>2. r.sym \in DOMAIN globalSymbols
    BY <1>1, <2>1 DEF ImportsResolved
  <2> QED BY <2>2, SymbolMeans
<1> QED BY <1>2

(* A call that crosses conventions, to another unit, goes to a thunk that   *)
(* converts from the caller's and goes on to the function.                  *)
LEMMA ThunkReached ==
    ASSUME LinkInv, phase = "done", DataAfterText, NEW n \in ObjectIndex,
           NEW r \in inputs[n].textRelocs, <<n, r.at>> \in DOMAIN callSiteOverrides,
           r.sym \notin DOMAIN Boundaries, NEW val
    PROVE  /\ Mismatch(n, r)
           /\ \E j \in ImageIndex :
                 /\ Target(n, r, val) = AddressAt(j) /\ binary[j].op = "thunk"
                 /\ binary[j].val = Placed(Meant(link.units, n, r.sym), r.sym)
                 /\ binary[j].home[2] = FuncConv(Caller(n, r.at))
<1>1. InputsAreUnits /\ ThunksMade
  BY DEF LinkInv, LayoutInv
<1>2. <<n, r>> \in Crossing /\ r.seg = "external"
  BY OverriddenIsCall
<1>3. r.table = "text" /\ ~IsDefined(link.units[n], r.sym)
  BY <1>1, <1>2, RelocsOfObject
<1>4. r.sym \in DOMAIN globalSymbols
  BY <1>3, NamesDefined
<1>5. globalSymbols[r.sym].addr = Placed(Meant(link.units, n, r.sym), r.sym)
  BY <1>3, <1>4, SymbolPlaced
<1>6. Callee(n, r) = r.sym
  BY <1>2 DEF Callee
<1>7. PICK j \in 1..Len(mergedText) :
          callSiteOverrides[<<n, r.at>>] = AddressAt(j) /\ mergedText[j] = Thunk(BridgeAt(<<n, r>>))
  <2>1. \A s \in Crossing : s[2].seg = "external" =>
           \E j \in 1..Len(mergedText) :
              /\ callSiteOverrides[<<s[1], s[2].at>>] = AddressAt(j)
              /\ mergedText[j] = Thunk(BridgeAt(s))
    BY <1>1 DEF ThunksMade
  <2> DEFINE s == <<n, r>>
  <2>2. s \in Crossing /\ s[1] = n /\ s[2] = r
    BY <1>2
  <2> HIDE DEF s
  <2>3. \E j \in 1..Len(mergedText) :
              /\ callSiteOverrides[<<n, r.at>>] = AddressAt(j)
              /\ mergedText[j] = Thunk(BridgeAt(s))
    BY <2>1, <2>2, <1>2
  <2> QED BY <2>3 DEF s
<1>8. BridgeAt(<<n, r>>) = Bridge(FuncConv(Caller(n, r.at)), r.sym)
  BY <1>6 DEF BridgeAt
<1>9. /\ mergedText[j].op = "thunk" /\ mergedText[j].val = globalSymbols[r.sym].addr
      /\ mergedText[j].home[2] = FuncConv(Caller(n, r.at))
  BY <1>7, <1>8 DEF Thunk, Bridge
<1>10. j \in ImageIndex /\ binary[j] = mergedText[j]
  <2>1. /\ Len(mergedText) \in Nat /\ GapLen \in Nat /\ Len(mergedData) \in Nat
        /\ Len(binary) = Len(mergedText) + GapLen + Len(mergedData)
        /\ binary[j] = mergedText[j]
    BY ImageIs
  <2> QED BY <2>1 DEF ImageIndex
<1>11. Target(n, r, val) = AddressAt(j)
  BY <1>2, <1>3, <1>7 DEF Target, ExternalTarget
<1>12. Mismatch(n, r)
  BY <1>2 DEF Crossing
<1> QED BY <1>5, <1>9, <1>10, <1>11, <1>12

(* A call reaches its function directly if the conventions agree, and       *)
(* otherwise through a thunk from the caller's convention to that function  *)
(* (generateThunks), for every layout, if functions are global and keep     *)
(* their convention and no call inside a unit crosses conventions.          *)
THEOREM CallsReachFunctions ==
    LinkSpec => [](/\ DataAfterText
                   /\ PlainLink(link) /\ PlainFunctions(link) /\ OwnCallsAgree(link)
                   => CallsBridged)
<1>1. ASSUME LinkInv, DataAfterText, PlainLink(link), PlainFunctions(link), OwnCallsAgree(link)
      PROVE  CallsBridged
  <2> DEFINE m(i) == MeantBy(i)
             addr(i) == Placed(m(i), binary[i].to)
             from(i) == ConvAt(link.units[binary[i].home[1]], binary[i].home[3])
             into(i) == LabelOf(link.units[m(i)], binary[i].to).conv
  <2>0. ASSUME Done, NEW i \in Uses("jsr")
        PROVE  IF "none" \in {from(i), into(i)} \/ from(i) = into(i)
               THEN binary[i].val = addr(i)
               ELSE \E j \in ImageIndex :
                       /\ binary[i].val = AddressAt(j)
                       /\ binary[j].op = "thunk" /\ binary[j].val = addr(i)
                       /\ binary[j].home[2] = from(i)
    <3>1. phase = "done" /\ i \in ImageIndex /\ binary[i].op = "jsr"
          /\ binary[i].to \notin DOMAIN Boundaries /\ SplitUnitsPlainData(link)
          /\ InputsAreUnits /\ ThunksMade
      BY <1>1, <2>0 DEF Done, Uses, PlainLink, LinkInv, LayoutInv
    <3>a. PICK n \in ObjectIndex :
           \E r \in inputs[n].textRelocs \cup inputs[n].dataRelocs : \E c \in UsedIn(link.units[n]) :
              /\ binary[i].home = <<n, r.table, r.at>> /\ c.to = r.sym
              /\ binary[i].op = c.op /\ binary[i].to = c.to
              /\ binary[i].val = Target(n, r, Assembled(link.units[n], c))
              /\ r.table = "text" => r \in inputs[n].textRelocs
                                     /\ inputs[n].textBody[r.at + 1].op = c.op
                                     /\ c = TextOf(link.units[n])[r.at + 1]
              /\ r.table = "data" => c \in ToSet(link.units[n].data)
      BY <1>1, <3>1, UsePatched
    <3>b. PICK r \in inputs[n].textRelocs \cup inputs[n].dataRelocs, c \in UsedIn(link.units[n]) :
              /\ binary[i].home = <<n, r.table, r.at>> /\ c.to = r.sym
              /\ binary[i].op = c.op /\ binary[i].to = c.to
              /\ binary[i].val = Target(n, r, Assembled(link.units[n], c))
              /\ r.table = "text" => r \in inputs[n].textRelocs
                                     /\ inputs[n].textBody[r.at + 1].op = c.op
                                     /\ c = TextOf(link.units[n])[r.at + 1]
              /\ r.table = "data" => c \in ToSet(link.units[n].data)
      BY <3>a
    <3> DEFINE u == link.units[n]
    <3>2. /\ IsUnit(u) /\ u \in ToSet(link.units) /\ n \in DOMAIN link.units
          /\ Len(inputs[n].textBody) = Len(TextOf(u))
      <4>1. IsUnit(u) /\ u \in ToSet(link.units) /\ n \in DOMAIN link.units
            /\ inputs[n] = EmitO45(u, n) /\ n \in Nat \ {0}
        BY <3>1, ObjectsOfUnits DEF ToSet
      <4> QED BY <4>1, ObjectBodies
    <3>3. r.table = "text" /\ r \in inputs[n].textRelocs
      <4>1. r.table \in {"text", "data"}
        BY <3>1, RelocsOfObject
      <4>2. r.table # "data"
        BY <1>1, <3>1, <3>b, <3>2 DEF PlainFunctions
      <4> QED BY <4>1, <4>2, <3>b
    <3>4. /\ m(i) = Meant(link.units, n, r.sym) /\ from(i) = ConvAt(u, r.at)
          /\ binary[i].to = r.sym /\ inputs[n].textBody[r.at + 1].op = "jsr"
      BY <3>1, <3>b, <3>3 DEF MeantBy
    <3>5. /\ IsDefined(u, r.sym) \/ Definers(link.units, r.sym) # {}
      BY <1>1, <3>1, <3>4, NamesDefined
    <3>6. /\ Mismatch(n, r) <=> from(i) # "none" /\ into(i) # "none" /\ from(i) # into(i)
          /\ Mismatch(n, r) => FuncConv(Caller(n, r.at)) = from(i)
      BY <1>1, <3>1, <3>3, <3>4, <3>5, CallCrosses
    <3>7. addr(i) = Placed(Meant(link.units, n, r.sym), r.sym)
      BY <3>4
    <3> HIDE DEF from, into, addr, m
    <3>8. CASE <<n, r.at>> \in DOMAIN callSiteOverrides
      <4>1. /\ Mismatch(n, r)
            /\ \E j \in ImageIndex :
                  /\ binary[i].val = AddressAt(j) /\ binary[j].op = "thunk"
                  /\ binary[j].val = addr(i)
                  /\ binary[j].home[2] = FuncConv(Caller(n, r.at))
        BY <1>1, <3>1, <3>b, <3>3, <3>4, <3>7, <3>8, ThunkReached
      <4> QED BY <4>1, <3>6
    <3>9. CASE <<n, r.at>> \notin DOMAIN callSiteOverrides
      <4>1. binary[i].val = addr(i)
        BY <1>1, <3>1, <3>b, <3>4, <3>7, <3>9, DirectTarget
      <4>2. ~Mismatch(n, r)
        <5> SUFFICES ASSUME Mismatch(n, r) PROVE FALSE
          OBVIOUS
        <5>1. CASE r.seg = "external"
          <6>1. <<n, r>> \in Crossing
            BY <3>3 DEF Crossing
          <6>2. DOMAIN callSiteOverrides =
                  {<<s[1], s[2].at>> : s \in {x \in Crossing : x[2].seg = "external"}}
            BY <3>1 DEF ThunksMade
          <6>3. <<n, r>>[1] = n /\ <<n, r>>[2] = r
            OBVIOUS
          <6> QED BY <3>9, <5>1, <6>1, <6>2, <6>3
        <5>2. CASE r.seg # "external"
          <6>1. IsDefined(u, r.sym)
            BY <3>1, <3>3, <5>2, RelocsOfObject
          <6>2. Meant(link.units, n, r.sym) = n
            BY <1>1, <3>2, <3>b, <6>1 DEF PlainLink, OwnUsesMeanOwn
          <6>3. r.at + 1 \in 1..Len(TextOf(u)) /\ (r.at + 1) - 1 = r.at
            <7>1. r.at \in Nat /\ r.at < Len(inputs[n].textBody) /\ Len(inputs[n].textBody) \in Nat
              BY <3>1, <3>3, RelocsOfObject, HomesOfObjects
            <7> QED BY <7>1, <3>2
          <6>4. c = TextOf(u)[r.at + 1] /\ c.op = "jsr" /\ c.to = r.sym
            BY <3>1, <3>b, <3>3
          <6> DEFINE f == ConvAt(u, r.at)  t == LabelOf(u, r.sym).conv
          <6>5. "none" \in {f, t} \/ f = t
            BY <1>1, <3>2, <6>1, <6>3, <6>4 DEF OwnCallsAgree
          <6>6. from(i) = f /\ into(i) = t
            BY <3>4, <6>2 DEF into
          <6> QED BY <3>6, <6>5, <6>6
        <5> QED BY <5>1, <5>2
      <4> QED BY <4>1, <4>2, <3>6
    <3> QED BY <3>8, <3>9
  <2> QED BY <2>0 DEF CallsBridged
<1>2. LinkInv => (/\ DataAfterText
                  /\ PlainLink(link) /\ PlainFunctions(link) /\ OwnCallsAgree(link)
                  => CallsBridged)
  BY <1>1
<1> QED BY <1>2, LinkInvInvariant, PTL

-----------------------------------------------------------------------------
\* Failure.

(* What resolveSymbols accepts has one strong definition for a name at most. *)
LEMMA OneStrong ==
    ASSUME LinkInv, phase \in {"analyse", "relocate", "done"}, NEW s
    PROVE  ~(Cardinality(Strong(link.units, s)) > 1)
<1>1. InputsAreUnits /\ Len(inputs) \in Nat
  BY ObjectsOfUnits DEF LinkInv, LayoutInv
<1>2. CASE Strong(link.units, s) = {}
  BY <1>2, FS_EmptySet
<1>3. CASE Strong(link.units, s) # {}
  <2>1. Exporters(s, Len(inputs)) # {}
    BY <1>1, <1>3, ExportersDefine DEF Strong
  <2>2. s \in ExportedBy(Len(inputs))
    BY <1>1, <2>1, OneMoreExporter
  <2>3. \E x : Strong(link.units, s) = {x}
    BY <1>3, <2>2, StrongestTaken
  <2>4. Cardinality(Strong(link.units, s)) = 1
    BY <2>3, FS_Singleton
  <2> QED BY <2>4
<1> QED BY <1>2, <1>3

(* The cells of a unit, as offsets.                                         *)
LEMMA CellsOfUnit ==
    ASSUME InputsAreUnits, NEW n \in ObjectIndex
    PROVE  LET u == link.units[n] IN
           /\ Len(inputs[n].textBody) = Len(TextOf(u)) /\ Len(inputs[n].dataBody) = Len(u.data)
           /\ Len(TextOf(u)) \in Nat
           /\ \A c \in ToSet(TextOf(u)) :
                 \E off \in Nat : off < Len(inputs[n].textBody) /\ c = TextOf(u)[off + 1]
           /\ \A c \in ToSet(u.data) :
                 \E off \in Nat : off < Len(inputs[n].dataBody) /\ c = u.data[off + 1]
<1> DEFINE u == link.units[n]
<1>1. IsUnit(u) /\ inputs[n] = EmitO45(u, n) /\ n \in Nat \ {0}
  BY ObjectsOfUnits
<1> HIDE DEF u
<1>2. Len(inputs[n].textBody) = Len(TextOf(u)) /\ Len(inputs[n].dataBody) = Len(u.data)
  BY <1>1, ObjectBodies
<1>3. TextOf(u) \in Seq(Cells) /\ u.data \in Seq(Cells)
  BY <1>1, SubOffsets DEF IsUnit
<1>4. ASSUME NEW cells \in Seq(Cells), NEW c \in ToSet(cells)
      PROVE  \E off \in Nat : off < Len(cells) /\ c = cells[off + 1]
  <2>1. PICK i \in 1..Len(cells) : c = cells[i]
    BY <1>4 DEF ToSet
  <2>2. i - 1 \in Nat /\ i - 1 < Len(cells) /\ (i - 1) + 1 = i
    OBVIOUS
  <2> QED BY <2>1, <2>2
<1>5. /\ \A c \in ToSet(TextOf(u)) :
            \E off \in Nat : off < Len(inputs[n].textBody) /\ c = TextOf(u)[off + 1]
      /\ \A c \in ToSet(u.data) :
            \E off \in Nat : off < Len(inputs[n].dataBody) /\ c = u.data[off + 1]
  BY <1>2, <1>3, <1>4
<1>6. Len(TextOf(u)) \in Nat
  BY <1>3
<1> QED BY <1>2, <1>5, <1>6 DEF u

(* A link that is done had no reason to fail.                               *)
LEMMA DoneHadNoCause ==
    ASSUME LinkInv, phase = "done", PlainLink(link), PlainFunctions(link)
    PROVE  ~MustFail
<1>1. InputsAreUnits /\ ThunksMade /\ Units = ObjectIndex
  BY ObjectsOfUnits DEF LinkInv, LayoutInv, Units, ObjectIndex
<1>2. ASSUME NEW n \in Units, NEW l \in link.units[n].labels,
             Cardinality(Strong(link.units, l.name)) > 1
      PROVE  FALSE
  BY <1>2, OneStrong
<1>3. ASSUME NEW n \in Units,
             NEW c \in ToSet(TextOf(link.units[n])) \cup ToSet(link.units[n].data),
             c.to # NoLabel, c.to \notin DOMAIN Boundaries
      PROVE  \E r \in inputs[n].textRelocs \cup inputs[n].dataRelocs : r.sym = c.to
  <2> DEFINE u == link.units[n]
  <2>1. CASE c \in ToSet(TextOf(u))
    <3>1. PICK off \in Nat : off < Len(inputs[n].textBody) /\ c = TextOf(u)[off + 1]
      BY <1>1, <2>1, CellsOfUnit
    <3>2. n \in ObjectIndex /\ c.to # NoLabel
      BY <1>1, <1>3
    <3> QED BY <1>1, <3>1, <3>2, RelocOfCell, SMTT(20)
  <2>2. CASE c \in ToSet(u.data)
    <3>1. PICK off \in Nat : off < Len(inputs[n].dataBody) /\ c = u.data[off + 1]
      BY <1>1, <2>2, CellsOfUnit
    <3>2. n \in ObjectIndex /\ c.to # NoLabel
      BY <1>1, <1>3
    <3> QED BY <1>1, <3>1, <3>2, RelocOfCell, SMTT(20)
  <2> QED BY <2>1, <2>2
<1>4. ASSUME NEW n \in Units,
             NEW c \in ToSet(TextOf(link.units[n])) \cup ToSet(link.units[n].data),
             c.to \notin {NoLabel, "__bss_start", "__bss_end"}
      PROVE  IsDefined(link.units[n], c.to) \/ Definers(link.units, c.to) # {}
  <2>1. PICK r \in inputs[n].textRelocs \cup inputs[n].dataRelocs : r.sym = c.to
    BY <1>3, <1>4, BoundaryNames
  <2> QED BY <1>1, <1>4, <2>1, NamesDefined, BoundaryNames
<1>5. ASSUME link.thunkMode = "error", NEW n \in Units, NEW k \in 1..Len(TextOf(link.units[n])),
             TextOf(link.units[n])[k].op = "jsr"
      PROVE  LET u == link.units[n]
                 c == TextOf(u)[k]
                 into == LabelOf(link.units[Meant(link.units, n, c.to)], c.to).conv
                 from == ConvAt(u, k - 1)
             IN  ~("none" \notin {from, into} /\ from # into)
  <2> DEFINE u == link.units[n]
             c == TextOf(u)[k]
             into == LabelOf(link.units[Meant(link.units, n, c.to)], c.to).conv
             from == ConvAt(u, k - 1)
  <2>1. IsUnit(u) /\ u \in ToSet(link.units) /\ n \in ObjectIndex
    BY <1>1, ObjectsOfUnits DEF ToSet
  <2>2. /\ k - 1 \in Nat /\ k - 1 < Len(inputs[n].textBody) /\ (k - 1) + 1 = k
        /\ DOMAIN TextOf(u) = 1..Len(TextOf(u))
    <3>1. Len(inputs[n].textBody) = Len(TextOf(u)) /\ Len(TextOf(u)) \in Nat
      BY <1>1, <2>1, CellsOfUnit
    <3>2. TextOf(u) \in Seq(Cells)
      BY <2>1, SubOffsets
    <3> QED BY <3>1, <3>2
  <2>3. c \in ToSet(TextOf(u)) /\ c.op = "jsr"
    BY <1>5, <2>2 DEF ToSet
  <2>4. c.to # NoLabel
    BY <2>1, <2>3 DEF IsUnit
  <2>5. c.to \notin {"__bss_start", "__bss_end"}
    BY <2>1, <2>3 DEF PlainFunctions
  <2>6. PICK r \in inputs[n].textRelocs :
           r.table = "text" /\ r.at = k - 1 /\ r.sym = c.to
           /\ inputs[n].textBody[r.at + 1].op = "jsr"
    <3> DEFINE off == k - 1
    <3>1. off \in Nat /\ off < Len(inputs[n].textBody) /\ off + 1 = k
      BY <2>2
    <3> HIDE DEF off
    <3>2. LET d == TextOf(u)[off + 1] IN
          /\ inputs[n].textBody[off + 1].op = d.op
          /\ d.to # NoLabel =>
                \E r \in inputs[n].textRelocs : r.table = "text" /\ r.at = off /\ r.sym = d.to
      BY <1>1, <2>1, <3>1, RelocOfCell
    <3> QED BY <3>1, <3>2, <2>3, <2>4 DEF off
  <2>7. IsDefined(u, r.sym) \/ Definers(link.units, r.sym) # {}
    BY <1>4, <1>5, <2>3, <2>4, <2>5, <2>6
  <2>8. Mismatch(n, r) <=> from # "none" /\ into # "none" /\ from # into
    BY <1>1, <2>1, <2>6, <2>7, CallCrosses
  <2>9. ~Mismatch(n, r)
    <3>1. Crossing = {}
      BY <1>1, <1>5 DEF ThunksMade
    <3>2. Mismatch(n, r) => <<n, r>> \in Crossing
      BY <2>1 DEF Crossing
    <3> QED BY <3>1, <3>2
  <2> HIDE DEF from, into
  <2>10. ~("none" \notin {from, into} /\ from # into)
    BY <2>8, <2>9
  <2> QED BY <2>10 DEF from, into
<1> QED BY <1>2, <1>4, <1>5 DEF MustFail

(* A set of numbers up to a bound with two elements.                        *)
LEMMA TwoElements ==
    ASSUME NEW N \in Nat, NEW S \in SUBSET (1..N), NEW x \in S, NEW y \in S, x # y
    PROVE  Cardinality(S) > 1
<1>1. IsFiniteSet(1..N)
  <2>1. 1 \in Int /\ N \in Int
    OBVIOUS
  <2> QED BY <2>1, FS_Interval
<1>2. IsFiniteSet(S)
  BY <1>1, FS_Subset
<1>3. IsFiniteSet({x}) /\ Cardinality({x}) = 1
  BY FS_Singleton
<1>4. Cardinality({x} \cup {y}) = 2
  <2>1. y \notin {x}
    OBVIOUS
  <2>2. Cardinality({x} \cup {y}) = Cardinality({x}) + 1
    BY <1>3, <2>1, FS_AddElement
  <2> QED BY <1>3, <2>2
<1>5. {x} \cup {y} \subseteq S
  OBVIOUS
<1>6. Cardinality({x} \cup {y}) <= Cardinality(S)
  BY <1>2, <1>5, FS_Subset
<1>7. Cardinality(S) \in Nat
  BY <1>2, FS_CardinalityType
<1> QED BY <1>4, <1>6, <1>7

(* A link that failed had a reason to.                                      *)
LEMMA FailureHasCause ==
    ASSUME LinkInv, phase = "error", PlainLink(link), PlainFunctions(link)
    PROVE  MustFail
<1>1. InputsAreUnits /\ SymbolsRight /\ Units = ObjectIndex /\ Len(inputs) \in Nat
      /\ next \in 1..(Len(inputs) + 1) /\ ObjectIndex = 1..Len(inputs)
  BY ObjectsOfUnits DEF LinkInv, LayoutInv, LayoutTypes, Units, ObjectIndex
<1>2. ASSUME next <= Len(inputs), NEW e \in inputs[next].exports, Clashes(e)
      PROVE  MustFail
  <2> DEFINE s == e.name
             g == globalSymbols[s]
             k == next - 1
  <2>1. ~BoundariesKnown /\ ResolvedObjects = k
    BY <1>1, <1>2 DEF BoundariesKnown, ResolvedObjects
  <2>2. s \in ExportedBy(k)
    BY <1>1, <1>2, <2>1 DEF SymbolsRight, Clashes, Known
  <2>3. SymbolRight(s)
    BY <1>1, <2>1, <2>2 DEF SymbolsRight
  <2>4. g.source \in Exporters(s, k) /\ g.weak = ExportOf(g.source, s).weak
    <3>1. /\ g.source \in Exporters(s, k)
          /\ g = [addr |-> ExportAddress(g.source, ExportOf(g.source, s)),
                  weak |-> ExportOf(g.source, s).weak, source |-> g.source]
      BY <2>1, <2>3 DEF SymbolRight
    <3> QED BY <3>1
  <2>5. next \in ObjectIndex /\ g.source \in 1..k /\ g.source \in ObjectIndex /\ g.source # next
    BY <1>1, <1>2, <2>4 DEF Exporters
  <2>6. ExportOf(next, s) = e
    BY <1>1, <2>5, ExportOfName
  <2>7. ~e.weak /\ ~ExportOf(g.source, s).weak
    BY <1>2, <2>4 DEF Clashes
  <2>8. next \in Exporters(s, Len(inputs)) /\ g.source \in Exporters(s, Len(inputs))
    BY <1>1, <1>2, <2>4, <2>5 DEF Exporters
  <2>9. next \in Strong(link.units, s) /\ g.source \in Strong(link.units, s)
    <3>1. /\ next \in Definers(link.units, s) /\ g.source \in Definers(link.units, s)
          /\ ExportOf(next, s).weak = LabelOf(link.units[next], s).weak
          /\ ExportOf(g.source, s).weak = LabelOf(link.units[g.source], s).weak
      BY <1>1, <2>8, ExportersDefine
    <3> QED BY <3>1, <2>6, <2>7 DEF Strong
  <2>10. Cardinality(Strong(link.units, s)) > 1
    <3> DEFINE S == Strong(link.units, s)
    <3>1. S \in SUBSET (1..Len(inputs))
      BY <1>1, ExportersDefine DEF Strong
    <3>2. next \in S /\ g.source \in S
      BY <2>9
    <3> HIDE DEF S
    <3>3. Cardinality(S) > 1
      BY <1>1, <2>5, <3>1, <3>2, TwoElements
    <3> QED BY <3>3 DEF S
  <2>11. LabelOf(link.units[next], s) \in link.units[next].labels
         /\ LabelOf(link.units[next], s).name = s
    <3>1. next \in Definers(link.units, s)
      BY <1>1, <2>8, ExportersDefine
    <3> QED BY <1>1, <3>1, ExportersDefine
  <2> QED BY <1>1, <2>5, <2>10, <2>11 DEF MustFail
<1>3. ASSUME next > Len(inputs), NEW n \in ObjectIndex,
             ~(inputs[n].imports \subseteq DOMAIN globalSymbols)
      PROVE  MustFail
  <2> DEFINE u == link.units[n]
  <2>1. IsUnit(u) /\ inputs[n] = EmitO45(u, n)
    BY <1>1, ObjectsOfUnits
  <2>2. BoundariesKnown /\ ResolvedObjects = Len(inputs)
    BY <1>1, <1>3 DEF BoundariesKnown, SymbolsRight
  <2>3. PICK s \in inputs[n].imports : s \notin DOMAIN globalSymbols
    BY <1>3
  <2>4. s \notin {"__bss_start", "__bss_end"} /\ s \notin ExportedBy(Len(inputs))
    BY <1>1, <2>2, <2>3, BoundaryNames DEF SymbolsRight
  <2>5. Definers(link.units, s) = {}
    <3>1. Exporters(s, Len(inputs)) = {}
      BY <1>1, <2>4, OneMoreExporter
    <3> QED BY <1>1, <3>1, ExportersDefine
  <2>6. PICK r \in inputs[n].textRelocs \cup inputs[n].dataRelocs : r.seg = "external" /\ r.sym = s
    BY <2>1, <2>3 DEF EmitO45
  <2>7. s # NoLabel /\ ~IsDefined(u, s)
    BY <1>1, <2>6, RelocsOfObject
  <2>8. \E c \in ToSet(TextOf(u)) \cup ToSet(u.data) : c.to = s
    <3>1. ASSUME NEW cells \in Seq(Cells), NEW table, r \in Relocs(u, table, cells)
          PROVE  \E c \in ToSet(cells) : c.to = s
      <4>1. r.at \in Nat /\ r.at < Len(cells) /\ r.sym = cells[r.at + 1].to
        BY <2>1, <3>1, RelocFacts
      <4>2. r.at + 1 \in DOMAIN cells
        BY <4>1
      <4> QED BY <4>1, <4>2, <2>6 DEF ToSet
    <3>2. TextOf(u) \in Seq(Cells) /\ u.data \in Seq(Cells)
      BY <2>1, SubOffsets DEF IsUnit
    <3>3. r \in Relocs(u, "text", TextOf(u)) \/ r \in Relocs(u, "data", u.data)
      BY <2>1 DEF EmitO45
    <3> QED BY <3>1, <3>2, <3>3
  <2> QED BY <1>1, <2>4, <2>5, <2>7, <2>8 DEF MustFail
<1>4. ASSUME link.thunkMode = "error", Crossing # {}
      PROVE  MustFail
  <2>1. PICK n \in ObjectIndex : \E r \in inputs[n].textRelocs : Mismatch(n, r)
    BY <1>4 DEF Crossing
  <2>2. PICK r \in inputs[n].textRelocs : Mismatch(n, r)
    BY <2>1
  <2> DEFINE u == link.units[n]
             k == r.at + 1
             c == TextOf(u)[k]
             into == LabelOf(link.units[Meant(link.units, n, r.sym)], r.sym).conv
             from == ConvAt(u, r.at)
  <2>3. /\ r.at \in Nat /\ r.at < Len(inputs[n].textBody)
        /\ r.seg = "external" <=> ~IsDefined(u, r.sym)
        /\ r.sym = inputs[n].textBody[r.at + 1].to
    BY <1>1, RelocsOfObject
  <2>4. inputs[n].textBody[r.at + 1].op = "jsr"
    BY <2>2 DEF Mismatch, IsCall
  <2>5. IsDefined(u, r.sym) \/ Definers(link.units, r.sym) # {}
    <3>1. CASE r.seg = "external"
      <4>1. Callee(n, r) = r.sym
        BY <3>1 DEF Callee
      <4>2. FuncConv(r.sym) # "none"
        BY <2>2, <4>1 DEF Mismatch
      <4>3. PICK m \in ObjectIndex : \E e \in inputs[m].exports : e.name = r.sym
        BY <1>1, <4>2, FuncConvType
      <4>4. m \in Exporters(r.sym, Len(inputs))
        BY <1>1, <4>3 DEF Exporters
      <4> QED BY <1>1, <4>4, ExportersDefine
    <3>2. CASE r.seg # "external"
      BY <2>3, <3>2
    <3> QED BY <3>1, <3>2
  <2>6. from # "none" /\ into # "none" /\ from # into
    BY <1>1, <2>2, <2>4, <2>5, CallCrosses
  <2>7. k \in 1..Len(TextOf(u)) /\ k - 1 = r.at
    <3>1. Len(inputs[n].textBody) = Len(TextOf(u)) /\ Len(TextOf(u)) \in Nat
      BY <1>1, CellsOfUnit
    <3> QED BY <2>3, <3>1
  <2>8. c.op = "jsr" /\ c.to = r.sym
    <3>1. LET d == TextOf(u)[r.at + 1] IN
          inputs[n].textBody[r.at + 1].op = d.op /\ inputs[n].textBody[r.at + 1].to = d.to
      BY <1>1, <2>3, RelocOfCell
    <3> QED BY <2>3, <2>4, <3>1
  <2> HIDE DEF k
  <2>9. LET d == TextOf(u)[k]
            i == LabelOf(link.units[Meant(link.units, n, d.to)], d.to).conv
            f == ConvAt(u, k - 1)
        IN  d.op = "jsr" /\ "none" \notin {f, i} /\ f # i
    BY <2>6, <2>7, <2>8
  <2> QED BY <1>1, <1>4, <2>7, <2>9 DEF MustFail
<1> QED BY <1>2, <1>3, <1>4 DEF LinkInv, ErrorHasCause, PlainLink

(* The link fails for two strong definitions of a name (resolveSymbols), for *)
(* a use of nothing, and for a call across conventions when thunks are       *)
(* refused (emitDiagnostics), and for nothing else: no layout of the chunks  *)
(* and no order of the objects makes applyRelocs patch outside a segment.    *)
THEOREM FailureMeansFault ==
    LinkSpec => [](PlainLink(link) /\ PlainFunctions(link) => FailsOnlyForCause)
<1>1. LinkInv => (PlainLink(link) /\ PlainFunctions(link) => FailsOnlyForCause)
  BY DoneHadNoCause, FailureHasCause DEF FailsOnlyForCause, Done
<1> QED BY <1>1, LinkInvInvariant, PTL

=============================================================================
