------------------------------- MODULE VRegs -------------------------------
(***************************************************************************)
(* cc45's register allocator (src/main/VRegAllocator.cpp) on one function of  *)
(* the intermediate representation, and then a run of the code IRCodeGen      *)
(* makes of the result.  A virtual register is kept in A:X, in a pool of      *)
(* zero-page bytes that every call clobbers, or in the stack frame.           *)
(*                                                                         *)
(* Values are not modelled: a memory cell holds the name of the virtual       *)
(* register whose value was stored there last.                              *)
(***************************************************************************)
EXTENDS Integers, Sequences, FiniteSets, SequencesExt

CONSTANTS
    Vreg,        \* virtual registers, numbered
    Function,    \* the functions that may be compiled
    ZpBytes,     \* bytes of the zero-page pool
    FrameReach   \* offsets findNonConflictingFrameOffset tries

None == -1

\* src: registers an instruction reads; def: the one it sets, if any; to: the blocks a
\* branch may go to; block: the block it stands in.
Inst == [op : {"compute", "call", "branch", "return"}, src : SUBSET Vreg,
         def : {{}} \cup {{v} : v \in Vreg}, to : SUBSET Nat, block : Nat]

\* params and order: parameters and the locals of localNames, in the order phase 1 takes
\* them; register: those declared so; size: bytes of an array or a struct, or 0; width:
\* bytes of any other value, at least 2; memory: those that must not be in a register.
FunctionRecord ==
    [code : Seq(Inst), params : SUBSET Vreg, order : Seq(Vreg), register : SUBSET Vreg,
     size : [Vreg -> Nat], width : [Vreg -> {2, 4}], memory : SUBSET Vreg]

ASSUME VregAssumption == Vreg \subseteq Nat /\ IsFiniteSet(Vreg)
ASSUME BoundsAssumption == ZpBytes \in Nat /\ FrameReach \in Nat
\* The code is the blocks one after the other (flatten).
ASSUME FunctionAssumption ==
    \A f \in Function :
        /\ f \in FunctionRecord /\ f.code # <<>>
        /\ \A i, j \in DOMAIN f.code : i <= j => f.code[i].block <= f.code[j].block

VARIABLES
    fn,              \* the function
    phase,           \* what analyze does, and then whether the code runs
    k,               \* position of the loops over instructions and locals
    last,            \* LiveRange::lastUse
    todo,            \* ranges_ not yet visited by phase 2
    alloc,           \* allocs_
    zpUsed,          \* zpUsed_
    zpActive,        \* keys of zpAllocMap
    frameActive,     \* keys of frameAllocMap
    freeFrameSlots,  \* freeFrameSlots_
    frameSize,       \* frameSize_
    overfull,        \* a register found no conflict-free offset within FrameReach
    pc, mem, ax,     \* the running code
    assigned         \* registers that have been given a value they still must have

analysis == <<fn, k, last, todo, alloc, zpUsed, zpActive, frameActive, freeFrameSlots,
              frameSize, overfull>>
vars == <<analysis, phase, pc, mem, ax, assigned>>

-----------------------------------------------------------------------------
\* Live ranges.

Code == DOMAIN fn.code
Mentions(i) == fn.code[i].src \cup fn.code[i].def
Locals == fn.params \cup {fn.order[i] : i \in DOMAIN fn.order}
Ranged == Locals \cup UNION {Mentions(i) : i \in Code}

MentionsOf(v) == {i \in Code : v \in Mentions(i)}
LeastOf(S) == CHOOSE i \in S : \A j \in S : i <= j
GreatestOf(S) == CHOOSE i \in S : \A j \in S : i >= j

\* computeLiveRanges
FirstDef(v) == IF v \in Locals THEN 1 ELSE LeastOf(MentionsOf(v))
LastMention(v) == IF MentionsOf(v) = {} THEN 1 ELSE GreatestOf(MentionsOf(v))

BlockStart(b) == LeastOf({i \in Code : fn.code[i].block = b})
BlockEnd(b) == GreatestOf({i \in Code : fn.code[i].block = b})
Nonempty(b) == \E i \in Code : fn.code[i].block = b

\* The headers a branch jumps back to.
BackTo(i) == {b \in fn.code[i].to : Nonempty(b) /\ b <= fn.code[i].block}

\* Mutated: only ranges that begin before the loop are extended.
ExtendedFromOutside(i, v) ==
    LET end == BlockEnd(fn.code[i].block)
    IN IF /\ \E b \in BackTo(i) : FirstDef(v) < BlockStart(b) /\ last[v] >= end
          /\ last[v] < end
       THEN end ELSE last[v]

\* A range that meets a loop lasts until its end.
Extended(i, v) ==
    LET end == BlockEnd(fn.code[i].block)
    IN IF /\ \E b \in BackTo(i) : FirstDef(v) <= end /\ last[v] >= BlockStart(b)
          /\ last[v] < end
       THEN end ELSE last[v]

\* liveRangesOverlap
Overlap(v, w) == ~(last[v] < FirstDef(w) \/ last[w] < FirstDef(v))

CrossesCall(v) ==
    \E i \in Code : fn.code[i].op = "call" /\ i > FirstDef(v) /\ i <= last[v]

-----------------------------------------------------------------------------
\* Places.

IsArray(v) == fn.size[v] > 0
\* Bytes of frame a register takes, never less than a word.
Slot(v) == IF IsArray(v) THEN (IF fn.size[v] < 2 THEN 2 ELSE fn.size[v]) ELSE fn.width[v]
Bytes(off, n) == off..(off + n - 1)
Kept(v) == v \in DOMAIN alloc /\ alloc[v].loc \in {"zp", "frame"}
Cells(v) == IF Kept(v) THEN {alloc[v].loc} \X Bytes(alloc[v].off, Slot(v)) ELSE {}
Place(v, loc, off) == [w \in DOMAIN alloc \cup {v} |->
                         IF w = v THEN [loc |-> loc, off |-> off] ELSE alloc[w]]

\* Temporaries whose range is over when v begins.
Ended(v, S) == {w \in S \ Locals : last[w] < FirstDef(v)}

\* Mutated: a slot is given back with the size of a word.
ZpLeftWord(v) ==
    zpUsed \ UNION {Bytes(alloc[w].off, 2) : w \in Ended(v, zpActive)}
\* freeZpSlot
ZpLeft(v) ==
    zpUsed \ UNION {Bytes(alloc[w].off, fn.width[w]) : w \in Ended(v, zpActive)}

\* Mutated: a slot may begin in the last byte of the pool.
ZpFitBeyond(v) ==
    {i \in 0..(ZpBytes - 1) : i % 2 = 0 /\ Bytes(i, fn.width[v]) \cap ZpLeft(v) = {}}

\* allocZpSlot
ZpFit(v) ==
    {i \in 0..(ZpBytes - fn.width[v]) :
        i % 2 = 0 /\ Bytes(i, fn.width[v]) \cap ZpLeft(v) = {}}

\* findNonConflictingFrameOffset: an array counts with the size of a word.
Offsets(v) ==
    {c \in 0..(FrameReach - 1) :
        /\ c % 2 = 0
        /\ \A w \in DOMAIN alloc :
              (/\ alloc[w].loc = "frame"
               /\ Bytes(alloc[w].off, fn.width[w]) \cap Bytes(c, fn.width[v]) # {})
                  => ~Overlap(v, w)}

\* freeFrameSlot, of the temporaries that ended before v.
SlotsLeft(v) ==
    freeFrameSlots \o
        [i \in DOMAIN SetToSeq(Ended(v, frameActive)) |->
            LET w == SetToSeq(Ended(v, frameActive))[i]
            IN [off |-> alloc[w].off, size |-> Slot(w)]]

\* allocFrameSlot
Fitting(s, n) == {i \in DOMAIN s : s[i].size = n}
OffsetOf(s, n) == IF Fitting(s, n) = {} THEN frameSize ELSE s[LeastOf(Fitting(s, n))].off
SlotsAfter(s, n) == IF Fitting(s, n) = {} THEN s ELSE RemoveAt(s, LeastOf(Fitting(s, n)))
SizeAfter(s, n) == IF Fitting(s, n) = {} THEN frameSize + n ELSE frameSize

-----------------------------------------------------------------------------
\* analyze

Unset == [c \in {} |-> None]

Init ==
    /\ fn \in Function
    /\ phase = "loops" /\ k = 1
    /\ last = [v \in Ranged |-> LastMention(v)]
    /\ todo = Ranged
    /\ alloc = Unset
    /\ zpUsed = {} /\ zpActive = {} /\ frameActive = {}
    /\ freeFrameSlots = <<>> /\ frameSize = 0 /\ overfull = FALSE
    /\ pc = 0 /\ mem = Unset /\ ax = None /\ assigned = {}

\* extendLiveRangesAcrossLoops, one instruction.
ExtendOverLoop ==
    /\ phase = "loops" /\ k \in Code
    /\ last' = [v \in Ranged |-> Extended(k, v)]
    /\ k' = k + 1
    /\ UNCHANGED <<fn, phase, todo, alloc, zpUsed, zpActive, frameActive, freeFrameSlots,
                   frameSize, overfull, pc, mem, ax, assigned>>

EndLoops ==
    /\ phase = "loops" /\ k \notin Code
    /\ phase' = "locals" /\ k' = 1
    /\ UNCHANGED <<fn, last, todo, alloc, zpUsed, zpActive, frameActive, freeFrameSlots,
                   frameSize, overfull, pc, mem, ax, assigned>>

\* Phase 1 of assignLocations: a slot of its own for every local.
PlaceLocal ==
    /\ phase = "locals" /\ k \in DOMAIN fn.order
    /\ LET v == fn.order[k]
       IN IF v \in fn.register THEN UNCHANGED <<alloc, frameActive, freeFrameSlots, frameSize>>
          ELSE /\ alloc' = Place(v, "frame", OffsetOf(freeFrameSlots, Slot(v)))
               /\ freeFrameSlots' = SlotsAfter(freeFrameSlots, Slot(v))
               /\ frameSize' = SizeAfter(freeFrameSlots, Slot(v))
               /\ frameActive' = frameActive \cup {v}
    /\ k' = k + 1
    /\ UNCHANGED <<fn, phase, last, todo, zpUsed, zpActive, overfull, pc, mem, ax, assigned>>

EndLocals ==
    /\ phase = "locals" /\ k \notin DOMAIN fn.order
    /\ phase' = "temporaries"
    /\ UNCHANGED <<analysis, pc, mem, ax, assigned>>

\* The order of ranges_.
Before(v, w) == FirstDef(v) < FirstDef(w) \/ (FirstDef(v) = FirstDef(w) /\ v <= w)
Turn(v) == phase = "temporaries" /\ v \in todo /\ \A w \in todo : Before(v, w)

Placed(v) == v \in DOMAIN alloc \/ v \in Locals \ fn.register

Skip(v) ==
    /\ Turn(v) /\ Placed(v)
    /\ todo' = todo \ {v}
    /\ UNCHANGED <<fn, phase, k, last, alloc, zpUsed, zpActive, frameActive, freeFrameSlots,
                   frameSize, overfull, pc, mem, ax, assigned>>

InMemory(v) == IsArray(v) \/ v \in fn.memory
ShortLived(v) == last[v] - FirstDef(v) <= 2 /\ v \notin Locals /\ ~CrossesCall(v)
MayUseZp(v) == ~CrossesCall(v) /\ (v \notin Locals \/ v \in fn.register)

\* The ends of ranges are dealt with whatever becomes of v.
Visit(v) ==
    /\ Turn(v) /\ ~Placed(v)
    /\ todo' = todo \ {v}
    /\ UNCHANGED <<fn, phase, k, last, pc, mem, ax, assigned>>

\* An array, a struct or a volatile that is not a local: the first free slot of its size.
PlaceInMemory(v) ==
    /\ Visit(v) /\ InMemory(v)
    /\ alloc' = Place(v, "frame", OffsetOf(SlotsLeft(v), Slot(v)))
    /\ freeFrameSlots' = SlotsAfter(SlotsLeft(v), Slot(v))
    /\ frameSize' = SizeAfter(SlotsLeft(v), Slot(v))
    /\ frameActive' = (frameActive \ Ended(v, frameActive)) \cup {v}
    /\ zpUsed' = ZpLeft(v)
    /\ zpActive' = zpActive \ Ended(v, zpActive)
    /\ UNCHANGED overfull

PlaceInAX(v) ==
    /\ Visit(v) /\ ~InMemory(v) /\ ShortLived(v)
    /\ alloc' = Place(v, "ax", 0)
    /\ freeFrameSlots' = SlotsLeft(v)
    /\ frameActive' = frameActive \ Ended(v, frameActive)
    /\ zpUsed' = ZpLeft(v)
    /\ zpActive' = zpActive \ Ended(v, zpActive)
    /\ UNCHANGED <<frameSize, overfull>>

PlaceInZp(v) ==
    /\ Visit(v) /\ ~InMemory(v) /\ ~ShortLived(v) /\ MayUseZp(v) /\ ZpFit(v) # {}
    /\ LET i == LeastOf(ZpFit(v))
       IN /\ alloc' = Place(v, "zp", i)
          /\ zpUsed' = ZpLeft(v) \cup Bytes(i, fn.width[v])
    /\ zpActive' = (zpActive \ Ended(v, zpActive)) \cup {v}
    /\ freeFrameSlots' = SlotsLeft(v)
    /\ frameActive' = frameActive \ Ended(v, frameActive)
    /\ UNCHANGED <<frameSize, overfull>>

\* The offset may lie beyond frameSize, which does not grow.
PlaceInFrame(v) ==
    /\ Visit(v) /\ ~InMemory(v) /\ ~ShortLived(v) /\ (MayUseZp(v) => ZpFit(v) = {})
    /\ IF Offsets(v) # {}
       THEN /\ alloc' = Place(v, "frame", LeastOf(Offsets(v)))
            /\ freeFrameSlots' = SlotsLeft(v)
            /\ UNCHANGED <<frameSize, overfull>>
       ELSE /\ alloc' = Place(v, "frame", OffsetOf(SlotsLeft(v), Slot(v)))
            /\ freeFrameSlots' = SlotsAfter(SlotsLeft(v), Slot(v))
            /\ frameSize' = SizeAfter(SlotsLeft(v), Slot(v))
            /\ overfull' = TRUE
    /\ frameActive' = (frameActive \ Ended(v, frameActive)) \cup {v}
    /\ zpUsed' = ZpLeft(v)
    /\ zpActive' = zpActive \ Ended(v, zpActive)

-----------------------------------------------------------------------------
\* The code.

\* What storeVreg changes.
Stored(m, S) ==
    [c \in DOMAIN m |-> IF \E v \in S : c \in Cells(v) THEN CHOOSE v \in S : c \in Cells(v)
                        ELSE m[c]]

\* The prologue copies the parameters from the stack into their slots.
Enter ==
    /\ phase = "temporaries" /\ todo = {}
    /\ phase' = "run" /\ pc' = 1
    /\ mem' = Stored([c \in UNION {Cells(v) : v \in DOMAIN alloc} |-> None], fn.params)
    /\ assigned' = fn.params
    /\ UNCHANGED <<analysis, ax>>

Running(op) == phase = "run" /\ pc \in Code /\ fn.code[pc].op = op

\* The result passes through A:X.
Assign(def, m) ==
    /\ mem' = Stored(m, def)
    /\ assigned' = assigned \cup def
    /\ ax' = IF def # {} THEN CHOOSE v \in def : TRUE
             ELSE IF fn.code[pc].src \subseteq {ax} THEN ax ELSE None
    /\ pc' = pc + 1

Compute ==
    /\ Running("compute")
    /\ Assign(fn.code[pc].def, mem)
    /\ UNCHANGED <<analysis, phase>>

\* The callee uses the zero-page pool for itself.
Call ==
    /\ Running("call")
    /\ Assign(fn.code[pc].def, [c \in DOMAIN mem |-> IF c[1] = "zp" THEN None ELSE mem[c]])
    /\ UNCHANGED <<analysis, phase>>

\* A temporary belongs to one turn of a loop: its value is not carried back to before
\* its definition.
Branch ==
    /\ Running("branch")
    /\ \E b \in fn.code[pc].to : Nonempty(b) /\ pc' = BlockStart(b)
    /\ assigned' = {v \in assigned : v \in Locals \/ FirstDef(v) < pc'}
    /\ UNCHANGED <<analysis, phase, mem, ax>>

Return ==
    /\ Running("return")
    /\ phase' = "returned"
    /\ UNCHANGED <<analysis, pc, mem, ax, assigned>>

Terminated == phase = "returned" /\ UNCHANGED vars

Next ==
    \/ ExtendOverLoop \/ EndLoops
    \/ PlaceLocal \/ EndLocals
    \/ \E v \in todo :
          Skip(v) \/ PlaceInMemory(v) \/ PlaceInAX(v) \/ PlaceInZp(v) \/ PlaceInFrame(v)
    \/ Enter
    \/ Compute \/ Call \/ Branch \/ Return
    \/ Terminated

Spec == Init /\ [][Next]_vars

-----------------------------------------------------------------------------
TypeOK ==
    /\ fn \in Function
    /\ phase \in {"loops", "locals", "temporaries", "run", "returned"}
    /\ k \in Nat /\ pc \in Nat /\ frameSize \in Nat
    /\ last \in [Ranged -> Code] /\ todo \subseteq Ranged
    /\ DOMAIN alloc \subseteq Ranged
    /\ \A v \in DOMAIN alloc : alloc[v] \in [loc : {"ax", "zp", "frame"}, off : Nat]
    /\ zpUsed \subseteq 0..(ZpBytes - 1)
    /\ zpActive \subseteq DOMAIN alloc /\ frameActive \subseteq DOMAIN alloc
    /\ freeFrameSlots \in Seq([off : Nat, size : Nat]) /\ overfull \in BOOLEAN
    /\ \A c \in DOMAIN mem : mem[c] \in Vreg \cup {None}
    /\ ax \in Vreg \cup {None} /\ assigned \subseteq Vreg

\* Every value is a word or two, and the frame was not used up.
Scalars ==
    ~overfull /\ \A v \in Ranged : ~IsArray(v) /\ (v \in fn.memory => v \in Locals \ fn.register)

\* No loop begins with a call that is the function's first instruction, which crossesCall
\* does not count for a register variable.
NoCallAtStart == fn.register = {} \/ fn.code[1].op # "call"

\* An instruction that reads a register kept in memory finds what was last assigned to
\* it, in the last turn of a loop as in the first, across calls, and however slots are
\* shared between registers whose ranges do not meet.
ReadsSeeLastWrite ==
    (phase = "run" /\ pc \in Code /\ Scalars /\ NoCallAtStart) =>
        \A v \in fn.code[pc].src \cap assigned : \A c \in Cells(v) : mem[c] = v

\* A temporary that crosses no call is put in the frame only if registers still in use
\* leave it no room in the pool: what ended was given back in full.
SpillsOnlyWhenFull ==
    \A v \in DOMAIN alloc :
        (Scalars /\ alloc[v].loc = "frame" /\ v \notin Locals /\ ~CrossesCall(v)) =>
            \A i \in 0..(ZpBytes - fn.width[v]) :
                i % 2 = 0 =>
                    \E w \in DOMAIN alloc :
                        /\ alloc[w].loc = "zp" /\ (w \in Locals \/ last[w] >= FirstDef(v))
                        /\ FirstDef(w) <= FirstDef(v)
                        /\ Bytes(alloc[w].off, fn.width[w]) \cap Bytes(i, fn.width[v]) # {}

\* A register kept in A:X is still there when it is read.
AXStaysValid ==
    (phase = "run" /\ pc \in Code) =>
        \A v \in fn.code[pc].src \cap assigned : alloc[v].loc = "ax" => ax = v
=============================================================================
