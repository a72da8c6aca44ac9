------------------------- MODULE LibraryResolution -------------------------
(***************************************************************************)
(* O45Linker::resolveLibraries: the worklist with which ln45 pulls archive  *)
(* members into the link.  The symbol index of an archive is scanned entry  *)
(* by entry, in the order ar45 wrote it, while the sets `defined' and       *)
(* `undefined' are updated in place; passes repeat until one pulls nothing. *)
(* One action is one iteration of the innermost loop.                       *)
(***************************************************************************)
EXTENDS Naturals, Sequences

CONSTANTS
    Symbol,        \* symbol names
    Input,         \* objects named on the command line
    Member,        \* archive members, identified by archive and position
    InputOrder,    \* the order of the objects on the command line
    Archive,       \* the members of all archives, in the order they are scanned
    Key(_),        \* Key(m): the string "archive:member name" of member m
    Damaged,       \* members whose bytes O45Reader rejects
    ExportLists(_),  \* the export tables the file of an object may have
    ImportSets(_)    \* the import tables the file of an object may have

Object == Input \cup Member

ASSUME ObjectsAssumption == Input \cap Member = {}

ASSUME OrderAssumption ==
    /\ InputOrder \in Seq(Input)
    /\ \A o \in Input : \E i \in 1..Len(InputOrder) : InputOrder[i] = o
    /\ Archive \in Seq(Member)
    /\ \A m \in Member : \E i \in 1..Len(Archive) : Archive[i] = m

ASSUME TablesAssumption ==
    \A o \in Object :
        /\ ExportLists(o) \subseteq Seq(Symbol)
        /\ ImportSets(o) \subseteq SUBSET Symbol

VARIABLES
    exports,        \* exports[o]: the export table of object o
    imports,        \* imports[o]: the names in the import table of object o
    objects,        \* objects_: the objects in the link, in order
    defined,
    undefined,
    pulledMembers,  \* keys of the members pulled so far
    changed,        \* this pass has pulled a member
    mem, sym,       \* the index entry under scan: symbol sym of Archive[mem]
    pc              \* "collect", "scan", "done" or "error"

vars == <<exports, imports, objects, defined, undefined, pulledMembers,
          changed, mem, sym, pc>>

-----------------------------------------------------------------------------
Entries(s) == {s[i] : i \in 1..Len(s)}

\* The names an object or a set of objects defines and imports.
Defines(o) == Entries(exports[o])
DefinedBy(os) == UNION {Defines(o) : o \in os}
ImportedBy(os) == UNION {imports[o] : o \in os}

InLink == Entries(objects)

\* Mutated: every member of an archive is pulled.
PullableWhole(i, j) == Key(Archive[i]) \notin pulledMembers

\* The entry (i, j) of the archives' symbol index still calls for its member.
Pullable(i, j) ==
    /\ exports[Archive[i]][j] \in undefined
    /\ Key(Archive[i]) \notin pulledMembers

Init ==
    /\ exports \in {f \in [Object -> UNION {ExportLists(o) : o \in Object}] :
                      \A o \in Object : f[o] \in ExportLists(o)}
    /\ imports \in {f \in [Object -> UNION {ImportSets(o) : o \in Object}] :
                      \A o \in Object : f[o] \in ImportSets(o)}
    /\ objects = InputOrder
    /\ defined = {}
    /\ undefined = {}
    /\ pulledMembers = {}
    /\ changed = TRUE
    /\ mem = 1
    /\ sym = 1
    /\ pc = "collect"

\* Mutated: one pass only; passes go on while any symbol is missing.
StartPassOnce(again, missing) ==
    IF again /\ missing # {} /\ pc = "collect"
    THEN pc' = "scan" /\ changed' = FALSE /\ mem' = 1 /\ sym' = 1
    ELSE pc' = "done" /\ UNCHANGED <<changed, mem, sym>>

StartPassWhileMissing(again, missing) ==
    IF missing # {}
    THEN pc' = "scan" /\ changed' = FALSE /\ mem' = 1 /\ sym' = 1
    ELSE pc' = "done" /\ UNCHANGED <<changed, mem, sym>>

\* The test of the outer while, then the start of a pass.
StartPass(again, missing) ==
    IF again /\ missing # {}
    THEN pc' = "scan" /\ changed' = FALSE /\ mem' = 1 /\ sym' = 1
    ELSE pc' = "done" /\ UNCHANGED <<changed, mem, sym>>

\* Mutated: imports of the command line's objects that they define themselves
\* count as missing.
CollectAllImports ==
    /\ pc = "collect"
    /\ defined' = DefinedBy(InLink)
    /\ undefined' = ImportedBy(InLink)
    /\ StartPass(changed, undefined')
    /\ UNCHANGED <<exports, imports, objects, pulledMembers>>

\* The two loops that seed the worklist from the command line's objects.
Collect ==
    /\ pc = "collect"
    /\ defined' = DefinedBy(InLink)
    /\ undefined' = ImportedBy(InLink) \ defined'
    /\ StartPass(changed, undefined')
    /\ UNCHANGED <<exports, imports, objects, pulledMembers>>

Scanning == pc = "scan" /\ mem <= Len(Archive)

AtEntry == Scanning /\ sym <= Len(exports[Archive[mem]])

\* The entry's symbol is not wanted, or its member is already in.
SkipEntry ==
    /\ AtEntry
    /\ ~Pullable(mem, sym)
    /\ sym' = sym + 1
    /\ UNCHANGED <<exports, imports, objects, defined, undefined,
                   pulledMembers, changed, mem, pc>>

\* Mutated: the pulled member's exports stay missing; its imports are missing
\* whether defined or not.
WorklistNoErase(m, known) == undefined \cup (imports[m] \ known)

WorklistNoFilter(m, known) == (undefined \ Defines(m)) \cup imports[m]

\* What is missing once m, and with it the symbols of known, are in the link.
Worklist(m, known) == (undefined \ Defines(m)) \cup (imports[m] \ known)

PullMember ==
    LET m == Archive[mem]
    IN  /\ AtEntry
        /\ Pullable(mem, sym)
        /\ m \notin Damaged
        /\ objects' = Append(objects, m)
        /\ pulledMembers' = pulledMembers \cup {Key(m)}
        /\ changed' = TRUE
        /\ defined' = defined \cup Defines(m)
        /\ undefined' = Worklist(m, defined')
        /\ sym' = sym + 1
        /\ UNCHANGED <<exports, imports, mem, pc>>

\* O45Reader::read fails: link() stops with an error.
ReadError ==
    /\ AtEntry
    /\ Pullable(mem, sym)
    /\ Archive[mem] \in Damaged
    /\ pc' = "error"
    /\ UNCHANGED <<exports, imports, objects, defined, undefined,
                   pulledMembers, changed, mem, sym>>

NextMember ==
    /\ Scanning
    /\ sym > Len(exports[Archive[mem]])
    /\ mem' = mem + 1
    /\ sym' = 1
    /\ UNCHANGED <<exports, imports, objects, defined, undefined,
                   pulledMembers, changed, pc>>

EndPass ==
    /\ pc = "scan"
    /\ mem > Len(Archive)
    /\ StartPass(changed, undefined)
    /\ UNCHANGED <<exports, imports, objects, defined, undefined, pulledMembers>>

Terminated == pc \in {"done", "error"} /\ UNCHANGED vars

Next ==
    \/ Collect \/ SkipEntry \/ PullMember \/ ReadError \/ NextMember \/ EndPass
    \/ Terminated

Spec == Init /\ [][Next]_vars

\* A single-threaded loop: it runs on while it has a step to take.
FairSpec == Spec /\ WF_vars(Next)

-----------------------------------------------------------------------------
TypeOK ==
    /\ exports \in [Object -> Seq(Symbol)]
    /\ imports \in [Object -> SUBSET Symbol]
    /\ objects \in Seq(Object)
    /\ defined \subseteq Symbol
    /\ undefined \subseteq Symbol
    /\ pulledMembers \subseteq {Key(m) : m \in Member}
    /\ changed \in BOOLEAN
    /\ mem \in 1..(Len(Archive) + 1)
    /\ sym \in Nat \ {0}
    /\ pc \in {"collect", "scan", "done", "error"}

(***************************************************************************)
(* The two sets that resolveLibraries updates in place are, between any two *)
(* pulls, what recomputing them from the objects in the link would give.    *)
(***************************************************************************)
WorklistExact ==
    pc # "collect" =>
        /\ defined = DefinedBy(InLink)
        /\ undefined = ImportedBy(InLink) \ DefinedBy(InLink)

(***************************************************************************)
(* Nothing is linked without need: every pulled member defines a symbol     *)
(* that an object before it imports and that no object before it defines.   *)
(* In particular no member is linked twice, also when an archive is named   *)
(* twice on the command line.                                               *)
(***************************************************************************)
Before(i) == {objects[j] : j \in 1..(i - 1)}

OnlyNeeded ==
    \A i \in 1..Len(objects) :
        objects[i] \in Member =>
            Defines(objects[i]) \cap (ImportedBy(Before(i)) \ DefinedBy(Before(i)))
                # {}

(***************************************************************************)
(* When the passes end, no symbol that is still missing has a definition in *)
(* an archive member left outside the link: "iterates until no new symbols  *)
(* are satisfied".                                                          *)
(***************************************************************************)
NothingLeftToPull ==
    pc = "done" =>
        \A m \in Member : m \notin InLink => Defines(m) \cap undefined = {}

(***************************************************************************)
(* If every symbol has one definition, the order in which archives are      *)
(* scanned decides nothing: the link is the least set of objects closed     *)
(* under "imports a symbol defined by".                                     *)
(***************************************************************************)
OneDefinition ==
    \A o, p \in Object : o # p => Defines(o) \cap Defines(p) = {}

ClosedLink(os) ==
    /\ Input \subseteq os
    /\ \A m \in Member : Defines(m) \cap ImportedBy(os) # {} => m \in os

LeastClosure ==
    pc = "done" /\ OneDefinition =>
        /\ ClosedLink(InLink)
        /\ \A os \in SUBSET Object : ClosedLink(os) => InLink \subseteq os

(***************************************************************************)
(* The passes come to an end: imports between members may be circular, but  *)
(* every pass that is followed by another has pulled a member for good.     *)
(***************************************************************************)
Terminates == <>(pc \in {"done", "error"})

(***************************************************************************)
(* No two members share the key under which they are remembered as pulled.  *)
(***************************************************************************)
KeysDistinct == \A m, n \in Member : Key(m) = Key(n) => m = n

(***************************************************************************)
(* resolveLibraries implements order-free closure on demand.                *)
(***************************************************************************)
Abstract == INSTANCE DemandClosure WITH
    Inputs <- Input, Members <- Member,
    exp <- [o \in Object |-> Defines(o)], imp <- imports,
    linked <- InLink, closed <- (pc = "done")

Implements == Abstract!Spec
=============================================================================
