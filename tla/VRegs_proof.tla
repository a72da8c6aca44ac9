----------------------------- MODULE VRegs_proof -----------------------------
(***************************************************************************)
(* The register allocator keeps apart the registers that are in use at the    *)
(* same time, so that the compiled code reads what it assigned, for any       *)
(* function, any pool and any frame.                                         *)
(***************************************************************************)
EXTENDS VRegs, FiniteSetTheorems, WellFoundedInduction, TLAPS

-----------------------------------------------------------------------------
\* What the invariant consists of.

Typed ==
    /\ phase \in {"loops", "locals", "temporaries", "run", "returned"}
    /\ k \in Nat \ {0} /\ pc \in Nat /\ frameSize \in Nat
    /\ last \in [Ranged -> Code] /\ todo \subseteq Ranged
    /\ DOMAIN alloc \subseteq Ranged
    /\ \A v \in DOMAIN alloc : alloc[v] \in [loc : {"ax", "zp", "frame"}, off : Nat]
    /\ zpActive \subseteq DOMAIN alloc

\* A range reaches to the last mention, and over the loops it meets, as far as they have
\* been looked at.
Seen(i) == phase = "loops" => i < k
RangesCover ==
    /\ \A v \in Ranged : LastMention(v) <= last[v]
    /\ \A i \in Code : Seen(i) =>
          \A b \in BackTo(i) : \A v \in Ranged :
             FirstDef(v) <= BlockEnd(fn.code[i].block) /\ BlockStart(b) <= last[v]
                => BlockEnd(fn.code[i].block) <= last[v]

\* Registers in use at the same time are in different cells.
PlacesApart ==
    \A v, w \in DOMAIN alloc : v # w /\ Overlap(v, w) => Cells(v) \cap Cells(w) = {}

\* What precedes phase 2 concerns locals only.
OnlyLocals ==
    phase \in {"loops", "locals"} =>
        /\ todo = Ranged /\ zpUsed = {} /\ zpActive = {} /\ freeFrameSlots = <<>>
        /\ (phase = "loops" => DOMAIN alloc = {})
        /\ \A v \in DOMAIN alloc :
              v \in Locals /\ alloc[v].loc = "frame" /\ alloc[v].off + Slot(v) <= frameSize

ZpBytesOf(w) == Bytes(alloc[w].off, fn.width[w])
Over(w) == w \notin Locals /\ \A v \in todo : last[w] < FirstDef(v)

\* The pool is what the active registers hold; the others in it are over.
PoolExact ==
    /\ zpUsed = UNION {ZpBytesOf(w) : w \in zpActive}
    /\ \A v, w \in zpActive : v # w => ZpBytesOf(v) \cap ZpBytesOf(w) = {}
    /\ \A w \in zpActive : alloc[w].loc = "zp"
    /\ \A w \in DOMAIN alloc : alloc[w].loc = "zp" =>
          /\ w \in zpActive \/ Over(w)
          /\ \A v \in todo : FirstDef(w) <= FirstDef(v)
          /\ ~CrossesCall(w)
          /\ w \in Locals => w \in fn.register

\* The running code.
Holds(v) == pc <= last[v] => \A c \in Cells(v) : mem[c] = v
RunSound ==
    phase = "run" =>
        /\ 1 <= pc /\ assigned \subseteq Ranged
        /\ \A v \in DOMAIN alloc : Cells(v) \subseteq DOMAIN mem
        /\ \A v \in assigned : v \in Locals \/ FirstDef(v) < pc
        /\ NoCallAtStart => \A v \in assigned : Holds(v)

Sound ==
    /\ Typed
    /\ RangesCover
    /\ OnlyLocals
    /\ PlacesApart
    /\ PoolExact
    /\ SpillsOnlyWhenFull
    /\ RunSound

IInv == fn \in Function /\ (Scalars => Sound)

-----------------------------------------------------------------------------
\* Least and greatest elements.

LEMMA Least ==
    ASSUME NEW S \in SUBSET Nat, S # {}
    PROVE  LeastOf(S) \in S /\ \A i \in S : LeastOf(S) <= i
<1>. DEFINE R == OpToRel(<, Nat)
<1>1. IsWellFoundedOn(R, Nat)
  BY NatLessThanWellFounded
<1>2. PICK m \in S : \A i \in S : <<i, m>> \notin R
  <2>. HIDE DEF R
  <2>. QED BY <1>1, WFMin, Zenon
<1>3. \A i \in S : ~(i < m)
  BY <1>2 DEF OpToRel
<1>4. \A i \in S : m <= i
  BY <1>3
<1>. QED BY <1>4 DEF LeastOf

LEMMA Greatest ==
    ASSUME NEW n \in Nat, NEW S \in SUBSET (1..n), S # {}
    PROVE  GreatestOf(S) \in S /\ \A i \in S : i <= GreatestOf(S)
<1>. DEFINE T == {n - i : i \in S}
<1>1. T \in SUBSET Nat /\ T # {}
  <2>1. \A i \in S : i \in 1..n /\ n - i \in Nat
    OBVIOUS
  <2>2. PICK i \in S : TRUE
    OBVIOUS
  <2>3. n - i \in T
    BY <2>2
  <2>. QED BY <2>1, <2>3
<1>2. PICK m \in T : \A j \in T : m <= j
  <2>. HIDE DEF T
  <2>. QED BY <1>1, Least
<1>3. PICK g \in S : m = n - g
  BY <1>2
<1>4. \A i \in S : i <= g
  BY <1>2, <1>3
<1>. QED BY <1>4 DEF GreatestOf

-----------------------------------------------------------------------------
\* The function.

LEMMA FunctionFacts ==
    ASSUME fn \in Function
    PROVE  /\ Len(fn.code) \in Nat /\ Len(fn.code) >= 1 /\ Code = 1..Len(fn.code)
           /\ \A i \in Code : fn.code[i] \in Inst
           /\ \A i, j \in Code : i <= j => fn.code[i].block <= fn.code[j].block
           /\ \A v \in Vreg : fn.width[v] \in {2, 4} /\ fn.size[v] \in Nat
           /\ Ranged \subseteq Vreg /\ Locals \subseteq Ranged
           /\ fn.params \subseteq Locals
           /\ \A i \in DOMAIN fn.order : fn.order[i] \in Locals
<1>1. fn \in FunctionRecord /\ fn.code # <<>>
      /\ \A i, j \in DOMAIN fn.code : i <= j => fn.code[i].block <= fn.code[j].block
  BY FunctionAssumption
<1>2. /\ fn.code \in Seq(Inst) /\ fn.order \in Seq(Vreg) /\ fn.params \subseteq Vreg
      /\ fn.width \in [Vreg -> {2, 4}] /\ fn.size \in [Vreg -> Nat]
  BY <1>1 DEF FunctionRecord
<1>3. Len(fn.code) \in Nat /\ Len(fn.code) >= 1 /\ Code = 1..Len(fn.code)
      /\ \A i \in Code : fn.code[i] \in Inst
  BY <1>1, <1>2 DEF Code
<1>4. Locals \subseteq Vreg
  BY <1>2 DEF Locals
<1>5. \A i \in Code : Mentions(i) \subseteq Vreg
  BY <1>3 DEF Mentions, Inst
<1>6. Ranged \subseteq Vreg /\ Locals \subseteq Ranged
  BY <1>4, <1>5 DEF Ranged
<1>7. fn.params \subseteq Locals /\ \A i \in DOMAIN fn.order : fn.order[i] \in Locals
  BY DEF Locals
<1>. QED BY <1>1, <1>2, <1>3, <1>6, <1>7 DEF Code

\* A range begins and ends at a mention, or for a local at the start.
LEMMA RangeFacts ==
    ASSUME fn \in Function, NEW v \in Ranged
    PROVE  /\ FirstDef(v) \in Code /\ LastMention(v) \in Code
           /\ \A i \in MentionsOf(v) : FirstDef(v) <= i /\ i <= LastMention(v)
           /\ v \in Locals => FirstDef(v) = 1
<1>. USE FunctionFacts
<1>1. MentionsOf(v) \in SUBSET (1..Len(fn.code)) /\ MentionsOf(v) \in SUBSET Nat
  BY DEF MentionsOf
<1>2. v \notin Locals => MentionsOf(v) # {}
  BY DEF Ranged, MentionsOf
<1>3. MentionsOf(v) # {} =>
        /\ LeastOf(MentionsOf(v)) \in Code /\ GreatestOf(MentionsOf(v)) \in Code
        /\ \A i \in MentionsOf(v) : LeastOf(MentionsOf(v)) <= i /\ i <= GreatestOf(MentionsOf(v))
  <2>1. SUFFICES ASSUME MentionsOf(v) # {}
                 PROVE /\ LeastOf(MentionsOf(v)) \in Code /\ GreatestOf(MentionsOf(v)) \in Code
                       /\ \A i \in MentionsOf(v) :
                            LeastOf(MentionsOf(v)) <= i /\ i <= GreatestOf(MentionsOf(v))
    OBVIOUS
  <2>2. LeastOf(MentionsOf(v)) \in MentionsOf(v)
        /\ \A i \in MentionsOf(v) : LeastOf(MentionsOf(v)) <= i
    BY <1>1, <2>1, Least
  <2>3. GreatestOf(MentionsOf(v)) \in MentionsOf(v)
        /\ \A i \in MentionsOf(v) : i <= GreatestOf(MentionsOf(v))
    BY <1>1, <2>1, Greatest
  <2>. QED BY <1>1, <2>2, <2>3
<1>4. 1 \in Code
  OBVIOUS
<1>5. FirstDef(v) \in Code /\ LastMention(v) \in Code
  BY <1>2, <1>3, <1>4 DEF FirstDef, LastMention
<1>6. \A i \in MentionsOf(v) : FirstDef(v) <= i /\ i <= LastMention(v)
  BY <1>1, <1>2, <1>3 DEF FirstDef, LastMention
<1>. QED BY <1>5, <1>6 DEF FirstDef

\* The blocks are laid out one after the other.
LEMMA BlockFacts ==
    ASSUME fn \in Function
    PROVE  /\ \A i \in Code : BlockEnd(fn.code[i].block) \in Code /\ i <= BlockEnd(fn.code[i].block)
           /\ \A i, j \in Code : i <= j => BlockEnd(fn.code[i].block) <= BlockEnd(fn.code[j].block)
           /\ \A i \in Code : \A b \in fn.code[i].to : Nonempty(b) =>
                 /\ BlockStart(b) \in Code
                 /\ BlockStart(b) <= i => b \in BackTo(i)
<1>. USE FunctionFacts
<1>. DEFINE Of(b) == {i \in Code : fn.code[i].block = b}
<1>1. \A i \in Code : fn.code[i].block \in Nat /\ fn.code[i].to \subseteq Nat
  BY DEF Inst
<1>2. \A b : Of(b) \in SUBSET (1..Len(fn.code)) /\ Of(b) \in SUBSET Nat
  OBVIOUS
<1>3. \A i \in Code : BlockEnd(fn.code[i].block) \in Of(fn.code[i].block)
                     /\ \A j \in Of(fn.code[i].block) : j <= BlockEnd(fn.code[i].block)
  <2>1. TAKE i \in Code
  <2>2. Of(fn.code[i].block) # {}
    BY <2>1
  <2>. QED BY <1>2, <2>2, Greatest DEF BlockEnd
<1>4. \A i \in Code : BlockEnd(fn.code[i].block) \in Code /\ i <= BlockEnd(fn.code[i].block)
  BY <1>3
<1>5. \A i, j \in Code : i <= j => BlockEnd(fn.code[i].block) <= BlockEnd(fn.code[j].block)
  <2>1. SUFFICES ASSUME NEW i \in Code, NEW j \in Code, i <= j
                 PROVE BlockEnd(fn.code[i].block) <= BlockEnd(fn.code[j].block)
    OBVIOUS
  <2>2. PICK e \in Code : e = BlockEnd(fn.code[i].block) /\ fn.code[e].block = fn.code[i].block
    BY <1>3
  <2>3. PICK d \in Code : d = BlockEnd(fn.code[j].block) /\ fn.code[d].block = fn.code[j].block
    BY <1>3
  <2>4. e \in Nat /\ d \in Nat
    BY <2>2, <2>3
  <2>5. CASE e <= d
    BY <2>2, <2>3, <2>5
  <2>6. CASE d <= e
    <3>1. fn.code[j].block <= fn.code[i].block /\ fn.code[i].block <= fn.code[j].block
      BY <2>1, <2>2, <2>3, <2>6
    <3>2. fn.code[i].block = fn.code[j].block
      BY <1>1, <3>1
    <3>. QED BY <2>2, <2>3, <2>4, <3>2
  <2>. QED BY <2>4, <2>5, <2>6
<1>6. ASSUME NEW i \in Code, NEW b \in fn.code[i].to, Nonempty(b)
      PROVE  BlockStart(b) \in Code /\ (BlockStart(b) <= i => b \in BackTo(i))
  <2>1. Of(b) # {}
    BY <1>6 DEF Nonempty
  <2>2. BlockStart(b) \in Of(b)
    BY <1>2, <2>1, Least DEF BlockStart
  <2>. QED BY <1>6, <2>2 DEF BackTo
<1>. QED BY <1>4, <1>5, <1>6

\* Nothing of this changes while fn stays.
LEMMA Static ==
    ASSUME fn' = fn
    PROVE  /\ Code' = Code /\ Ranged' = Ranged /\ Locals' = Locals
           /\ \A v : FirstDef(v)' = FirstDef(v) /\ LastMention(v)' = LastMention(v)
           /\ \A v : Slot(v)' = Slot(v) /\ IsArray(v)' = IsArray(v) /\ InMemory(v)' = InMemory(v)
           /\ \A b : BlockStart(b)' = BlockStart(b) /\ BlockEnd(b)' = BlockEnd(b)
           /\ \A i : BackTo(i)' = BackTo(i)
           /\ NoCallAtStart' = NoCallAtStart
<1>1. Code' = Code /\ Locals' = Locals
  BY DEF Code, Locals
<1>2. \A i : Mentions(i)' = Mentions(i)
  BY DEF Mentions
<1>3. Ranged' = Ranged /\ \A v : MentionsOf(v)' = MentionsOf(v)
  BY <1>1, <1>2 DEF Ranged, MentionsOf
<1>4. \A v : FirstDef(v)' = FirstDef(v) /\ LastMention(v)' = LastMention(v)
  BY <1>1, <1>3 DEF FirstDef, LastMention
<1>5. \A b : BlockStart(b)' = BlockStart(b) /\ BlockEnd(b)' = BlockEnd(b) /\ Nonempty(b)' = Nonempty(b)
  BY <1>1 DEF BlockStart, BlockEnd, Nonempty
<1>6. \A i : BackTo(i)' = BackTo(i)
  BY <1>5 DEF BackTo
<1>. QED BY <1>1, <1>3, <1>4, <1>5, <1>6 DEF Slot, IsArray, InMemory, NoCallAtStart

-----------------------------------------------------------------------------
\* Every step keeps the function, and a frame that was used up stays so.
LEMMA Steps ==
    ASSUME Next \/ UNCHANGED vars
    PROVE  fn' = fn /\ (Scalars' => Scalars)
<1>1. fn' = fn /\ (overfull => overfull')
  <2>1. CASE UNCHANGED vars
    BY <2>1 DEF vars, analysis
  <2>2. CASE ExtendOverLoop \/ EndLoops \/ PlaceLocal \/ EndLocals \/ Enter
    BY <2>2 DEF ExtendOverLoop, EndLoops, PlaceLocal, EndLocals, Enter, analysis
  <2>3. ASSUME NEW v \in todo, Skip(v) \/ PlaceInMemory(v) \/ PlaceInAX(v) \/ PlaceInZp(v) \/ PlaceInFrame(v)
        PROVE fn' = fn /\ (overfull => overfull')
    BY <2>3 DEF Skip, PlaceInMemory, PlaceInAX, PlaceInZp, PlaceInFrame, Visit
  <2>4. CASE Compute \/ Call \/ Branch \/ Return
    BY <2>4 DEF Compute, Call, Branch, Return, analysis
  <2>5. CASE Terminated
    BY <2>5 DEF Terminated, vars, analysis
  <2>. QED BY <2>1, <2>2, <2>3, <2>4, <2>5 DEF Next
<1>. QED BY <1>1, Static DEF Scalars

\* The sizes of scalars.
LEMMA ScalarFacts ==
    ASSUME fn \in Function, Scalars, NEW v \in Ranged
    PROVE  /\ Slot(v) = fn.width[v] /\ fn.width[v] \in {2, 4}
           /\ InMemory(v) => v \in Locals \ fn.register
  BY FunctionFacts DEF Scalars, Slot, InMemory

\* What depends on the ranges and on the places stays as long as they do.
LEMMA SamePlaces ==
    ASSUME fn' = fn, last' = last, NEW v, alloc'[v] = alloc[v],
           v \in DOMAIN alloc, v \in DOMAIN alloc'
    PROVE  Cells(v)' = Cells(v) /\ ZpBytesOf(v)' = ZpBytesOf(v)
  BY Static DEF Cells, Kept, ZpBytesOf, Bytes

LEMMA SameRanges ==
    ASSUME fn' = fn, last' = last
    PROVE  /\ \A v, w : Overlap(v, w)' = Overlap(v, w)
           /\ \A v : CrossesCall(v)' = CrossesCall(v)
  BY Static DEF Overlap, CrossesCall

\* One more register has a place.
LEMMA Placing ==
    ASSUME Typed, fn' = fn, last' = last, NEW v \in Ranged,
           NEW loc \in {"ax", "zp", "frame"}, NEW off \in Nat, alloc' = Place(v, loc, off)
    PROVE  /\ DOMAIN alloc' = DOMAIN alloc \cup {v}
           /\ alloc'[v] = [loc |-> loc, off |-> off]
           /\ \A w \in DOMAIN alloc \ {v} :
                 alloc'[w] = alloc[w] /\ Cells(w)' = Cells(w) /\ ZpBytesOf(w)' = ZpBytesOf(w)
           /\ Cells(v)' = IF loc = "ax" THEN {} ELSE {loc} \X Bytes(off, Slot(v))
           /\ DOMAIN alloc' \subseteq Ranged'
           /\ \A w \in DOMAIN alloc' : alloc'[w] \in [loc : {"ax", "zp", "frame"}, off : Nat]
<1>1. DOMAIN alloc' = DOMAIN alloc \cup {v} /\ alloc'[v] = [loc |-> loc, off |-> off]
      /\ \A w \in DOMAIN alloc \ {v} : alloc'[w] = alloc[w]
  BY DEF Place
<1>2. \A w \in DOMAIN alloc \ {v} : Cells(w)' = Cells(w) /\ ZpBytesOf(w)' = ZpBytesOf(w)
  BY <1>1, SamePlaces
<1>3. Cells(v)' = IF loc = "ax" THEN {} ELSE {loc} \X Bytes(off, Slot(v))
  <2>1. alloc'[v].loc = loc /\ alloc'[v].off = off /\ v \in DOMAIN alloc'
    BY <1>1
  <2>2. Kept(v)' <=> loc # "ax"
    BY <2>1 DEF Kept
  <2>3. Cells(v)' = IF loc = "ax" THEN {} ELSE {alloc'[v].loc} \X Bytes(alloc'[v].off, Slot(v))
    BY <2>2, Static DEF Cells, Bytes
  <2>. QED BY <2>1, <2>3
<1>. QED BY <1>1, <1>2, <1>3, Static DEF Typed

\* It is enough to compare it with the others.
LEMMA StillApart ==
    ASSUME Typed, PlacesApart, fn' = fn, last' = last, NEW v \in Ranged,
           NEW loc \in {"ax", "zp", "frame"}, NEW off \in Nat, alloc' = Place(v, loc, off),
           \A w \in DOMAIN alloc \ {v} : Overlap(v, w) => Cells(v)' \cap Cells(w) = {}
    PROVE  PlacesApart'
<1>1. /\ DOMAIN alloc' = DOMAIN alloc \cup {v}
      /\ \A w \in DOMAIN alloc \ {v} : Cells(w)' = Cells(w)
  BY Placing
<1>2. SUFFICES ASSUME NEW u \in DOMAIN alloc', NEW w \in DOMAIN alloc', u # w, Overlap(u, w)
               PROVE Cells(u)' \cap Cells(w)' = {}
  BY SameRanges DEF PlacesApart
<1>3. Overlap(w, u)
  BY <1>2 DEF Overlap
<1>4. CASE u = v
  BY <1>1, <1>2, <1>4
<1>5. CASE w = v
  BY <1>1, <1>2, <1>3, <1>5
<1>6. CASE u # v /\ w # v
  BY <1>1, <1>2, <1>6 DEF PlacesApart
<1>. QED BY <1>4, <1>5, <1>6

-----------------------------------------------------------------------------
\* Phase 2.

LEMMA TurnFacts ==
    ASSUME fn \in Function, Typed, NEW v \in todo, Turn(v)
    PROVE  /\ v \in Ranged /\ phase = "temporaries"
           /\ \A w \in Ranged : FirstDef(w) \in Nat /\ last[w] \in Nat
           /\ \A w \in todo : FirstDef(v) <= FirstDef(w)
<1>1. \A w \in Ranged : FirstDef(w) \in Nat /\ last[w] \in Nat
  BY FunctionFacts, RangeFacts DEF Typed
<1>2. \A w \in todo : FirstDef(v) <= FirstDef(w)
  BY <1>1 DEF Turn, Before, Typed
<1>. QED BY <1>1, <1>2 DEF Turn, Typed

\* What is given back is what the registers that ended held.
LEMMA PoolAfter ==
    ASSUME PoolExact, NEW v
    PROVE  ZpLeft(v) = UNION {ZpBytesOf(w) : w \in zpActive \ Ended(v, zpActive)}
<1>. DEFINE E == Ended(v, zpActive)
<1>1. ZpLeft(v) = zpUsed \ UNION {ZpBytesOf(w) : w \in E}
  BY DEF ZpLeft, ZpBytesOf
<1>2. E \subseteq zpActive
  BY DEF Ended
<1>3. \A u, w \in zpActive : u # w => ZpBytesOf(u) \cap ZpBytesOf(w) = {}
  BY DEF PoolExact
<1>4. zpUsed = UNION {ZpBytesOf(w) : w \in zpActive}
  BY DEF PoolExact
<1>5. ASSUME NEW x \in ZpLeft(v)
      PROVE  x \in UNION {ZpBytesOf(w) : w \in zpActive \ E}
  BY <1>1, <1>4, <1>5
<1>6. ASSUME NEW w \in zpActive \ E, NEW x \in ZpBytesOf(w)
      PROVE  x \in ZpLeft(v)
  <2>1. x \in zpUsed
    BY <1>4
  <2>2. \A u \in E : x \notin ZpBytesOf(u)
    BY <1>2, <1>3
  <2>. QED BY <1>1, <2>1, <2>2
<1>. QED BY <1>5, <1>6

\* A register that ended is over, for those to come as well.
LEMMA OverAfter ==
    ASSUME fn \in Function, Scalars, Sound, NEW v \in todo, Turn(v), v \notin DOMAIN alloc,
           fn' = fn, last' = last, todo' = todo \ {v},
           NEW loc \in {"ax", "zp", "frame"}, NEW off \in Nat, alloc' = Place(v, loc, off),
           zpActive \ Ended(v, zpActive) \subseteq zpActive',
           NEW w \in DOMAIN alloc, alloc[w].loc = "zp"
    PROVE  /\ w \in zpActive' \/ Over(w)'
           /\ \A u \in todo' : FirstDef(w)' <= FirstDef(u)'
           /\ ~CrossesCall(w)'
           /\ w \in Locals' => w \in fn'.register
           /\ alloc'[w].loc = "zp"
<1>1. v \in Ranged /\ w \in Ranged /\ todo \subseteq Ranged
      /\ (\A u \in Ranged : FirstDef(u) \in Nat /\ last[u] \in Nat)
      /\ \A u \in todo : FirstDef(v) <= FirstDef(u)
  BY TurnFacts DEF Sound, Typed
<1>2. /\ w \in zpActive \/ Over(w)
      /\ \A u \in todo : FirstDef(w) <= FirstDef(u)
      /\ ~CrossesCall(w) /\ (w \in Locals => w \in fn.register)
  BY DEF Sound, PoolExact
<1>3. ASSUME w \in zpActive \ Ended(v, zpActive)
      PROVE  w \in zpActive'
  BY <1>3
<1>4. ASSUME w \in Ended(v, zpActive) \/ Over(w)
      PROVE  Over(w)'
  <2>1. w \notin Locals /\ \A u \in todo \ {v} : last[w] < FirstDef(u)
    BY <1>1, <1>4 DEF Ended, Over
  <2>. QED BY <2>1, Static DEF Over
<1>5. alloc'[w] = alloc[w]
  BY DEF Place
<1>. QED BY <1>1, <1>2, <1>3, <1>4, <1>5, Static, SameRanges

LEMMA PoolKept ==
    ASSUME fn \in Function, Scalars, Sound, NEW v \in todo, Turn(v), v \notin DOMAIN alloc,
           fn' = fn, last' = last, todo' = todo \ {v},
           NEW loc \in {"ax", "frame"}, NEW off \in Nat, alloc' = Place(v, loc, off),
           zpUsed' = ZpLeft(v), zpActive' = zpActive \ Ended(v, zpActive)
    PROVE  PoolExact' /\ zpActive' \subseteq DOMAIN alloc'
<1>1. /\ DOMAIN alloc' = DOMAIN alloc \cup {v} /\ alloc'[v].loc = loc
      /\ \A w \in DOMAIN alloc : w # v /\ alloc'[w] = alloc[w]
  BY DEF Place
<1>2. \A w \in DOMAIN alloc : ZpBytesOf(w)' = ZpBytesOf(w)
  BY <1>1, SamePlaces
<1>3. zpActive' \subseteq zpActive /\ zpActive \subseteq DOMAIN alloc
  BY DEF Sound, Typed
<1>4. zpUsed' = UNION {ZpBytesOf(w)' : w \in zpActive'}
  BY <1>2, <1>3, PoolAfter DEF Sound
<1>5. \A u, w \in zpActive' : u # w => ZpBytesOf(u)' \cap ZpBytesOf(w)' = {}
  BY <1>1, <1>2, <1>3 DEF Sound, PoolExact
<1>6. \A w \in zpActive' : alloc'[w].loc = "zp"
  BY <1>1, <1>2, <1>3 DEF Sound, PoolExact
<1>7. ASSUME NEW w \in DOMAIN alloc', alloc'[w].loc = "zp"
      PROVE  /\ w \in zpActive' \/ Over(w)'
             /\ \A u \in todo' : FirstDef(w)' <= FirstDef(u)'
             /\ ~CrossesCall(w)'
             /\ w \in Locals' => w \in fn'.register
  <2>1. w \in DOMAIN alloc /\ alloc[w].loc = "zp"
    BY <1>1, <1>7
  <2>. QED BY <2>1, OverAfter
<1>. QED BY <1>1, <1>3, <1>4, <1>5, <1>6, <1>7 DEF PoolExact

LEMMA PoolGrows ==
    ASSUME fn \in Function, Scalars, Sound, NEW v \in todo, Turn(v), v \notin DOMAIN alloc,
           fn' = fn, last' = last, todo' = todo \ {v}, MayUseZp(v),
           NEW i \in ZpFit(v), alloc' = Place(v, "zp", i),
           zpUsed' = ZpLeft(v) \cup Bytes(i, fn.width[v]),
           zpActive' = (zpActive \ Ended(v, zpActive)) \cup {v}
    PROVE  PoolExact' /\ zpActive' \subseteq DOMAIN alloc'
<1>1. v \in Ranged /\ i \in Nat
      /\ Bytes(i, fn.width[v]) \cap ZpLeft(v) = {}
  BY TurnFacts DEF Sound, ZpFit
<1>2. /\ DOMAIN alloc' = DOMAIN alloc \cup {v} /\ alloc'[v] = [loc |-> "zp", off |-> i]
      /\ \A w \in DOMAIN alloc : w # v /\ alloc'[w] = alloc[w] /\ ZpBytesOf(w)' = ZpBytesOf(w)
  BY <1>1, Placing DEF Sound
<1>3. zpActive \subseteq DOMAIN alloc
  BY DEF Sound, Typed
<1>4. ZpBytesOf(v)' = Bytes(i, fn.width[v])
  BY <1>2 DEF ZpBytesOf, Bytes
<1>. DEFINE Rest == zpActive \ Ended(v, zpActive)
<1>5. ZpLeft(v) = UNION {ZpBytesOf(w)' : w \in Rest}
  BY <1>2, <1>3, PoolAfter DEF Sound
<1>6. zpUsed' = UNION {ZpBytesOf(w)' : w \in zpActive'}
  BY <1>4, <1>5
<1>7. \A w \in Rest : ZpBytesOf(w)' \cap ZpBytesOf(v)' = {}
  BY <1>1, <1>4, <1>5
<1>8. \A u, w \in zpActive' : u # w => ZpBytesOf(u)' \cap ZpBytesOf(w)' = {}
  BY <1>2, <1>3, <1>7 DEF Sound, PoolExact
<1>9. \A w \in zpActive' : alloc'[w].loc = "zp"
  BY <1>2, <1>3 DEF Sound, PoolExact
<1>10. /\ \A u \in todo' : FirstDef(v)' <= FirstDef(u)'
       /\ ~CrossesCall(v)'
       /\ v \in Locals' => v \in fn'.register
  BY TurnFacts, Static, SameRanges DEF MayUseZp, Sound
<1>11. ASSUME NEW w \in DOMAIN alloc', alloc'[w].loc = "zp"
       PROVE  /\ w \in zpActive' \/ Over(w)'
              /\ \A u \in todo' : FirstDef(w)' <= FirstDef(u)'
              /\ ~CrossesCall(w)'
              /\ w \in Locals' => w \in fn'.register
  <2>1. CASE w = v
    BY <1>10, <2>1
  <2>2. CASE w # v
    <3>1. w \in DOMAIN alloc /\ alloc[w].loc = "zp"
      BY <1>2, <1>11, <2>2
    <3>. QED BY <1>1, <3>1, OverAfter
  <2>. QED BY <2>1, <2>2
<1>. QED BY <1>2, <1>3, <1>6, <1>8, <1>9, <1>11 DEF PoolExact
\* A register that is given a place in the frame finds the pool full, and the others found
\* it so.
LEMMA SpillsKept ==
    ASSUME fn \in Function, Scalars, Sound, NEW v \in todo, Turn(v), v \notin DOMAIN alloc,
           fn' = fn, last' = last, Scalars',
           NEW loc \in {"ax", "zp", "frame"}, NEW off \in Nat, alloc' = Place(v, loc, off),
           loc = "frame" => (MayUseZp(v) => ZpFit(v) = {})
    PROVE  SpillsOnlyWhenFull'
<1>. DEFINE Full(u, a) ==
              \A i \in 0..(ZpBytes - fn.width[u]) :
                i % 2 = 0 =>
                  \E w \in DOMAIN a :
                    /\ a[w].loc = "zp" /\ (w \in Locals \/ last[w] >= FirstDef(u))
                    /\ FirstDef(w) <= FirstDef(u)
                    /\ Bytes(a[w].off, fn.width[w]) \cap Bytes(i, fn.width[u]) # {}
<1>1. v \in Ranged /\ (\A w \in Ranged : FirstDef(w) \in Nat /\ last[w] \in Nat)
  BY TurnFacts DEF Sound
<1>2. /\ DOMAIN alloc' = DOMAIN alloc \cup {v} /\ alloc'[v].loc = loc
      /\ \A w \in DOMAIN alloc : alloc'[w] = alloc[w]
  BY DEF Place
<1>3. ASSUME NEW u, Full(u, alloc)
      PROVE  Full(u, alloc')
  <2>1. SUFFICES ASSUME NEW i \in 0..(ZpBytes - fn.width[u]), i % 2 = 0
                 PROVE \E w \in DOMAIN alloc' :
                    /\ alloc'[w].loc = "zp" /\ (w \in Locals \/ last[w] >= FirstDef(u))
                    /\ FirstDef(w) <= FirstDef(u)
                    /\ Bytes(alloc'[w].off, fn.width[w]) \cap Bytes(i, fn.width[u]) # {}
    OBVIOUS
  <2>2. PICK w \in DOMAIN alloc :
                    /\ alloc[w].loc = "zp" /\ (w \in Locals \/ last[w] >= FirstDef(u))
                    /\ FirstDef(w) <= FirstDef(u)
                    /\ Bytes(alloc[w].off, fn.width[w]) \cap Bytes(i, fn.width[u]) # {}
    BY <1>3, <2>1
  <2>. QED BY <1>2, <2>2
<1>4. ASSUME NEW u \in DOMAIN alloc, alloc[u].loc = "frame", u \notin Locals, ~CrossesCall(u)
      PROVE  Full(u, alloc)
  BY <1>4 DEF Sound, SpillsOnlyWhenFull
<1>5. ASSUME loc = "frame", v \notin Locals, ~CrossesCall(v)
      PROVE  Full(v, alloc)
  <2>1. SUFFICES ASSUME NEW i \in 0..(ZpBytes - fn.width[v]), i % 2 = 0
                 PROVE \E w \in DOMAIN alloc :
                    /\ alloc[w].loc = "zp" /\ (w \in Locals \/ last[w] >= FirstDef(v))
                    /\ FirstDef(w) <= FirstDef(v)
                    /\ Bytes(alloc[w].off, fn.width[w]) \cap Bytes(i, fn.width[v]) # {}
    OBVIOUS
  <2>2. ZpFit(v) = {}
    BY <1>5 DEF MayUseZp
  <2>3. PICK x \in Bytes(i, fn.width[v]) : x \in ZpLeft(v)
    BY <2>1, <2>2 DEF ZpFit
  <2>4. PICK w \in zpActive \ Ended(v, zpActive) : x \in ZpBytesOf(w)
    BY <2>3, PoolAfter DEF Sound
  <2>5. w \in DOMAIN alloc /\ w \in Ranged /\ alloc[w].loc = "zp" /\ FirstDef(w) <= FirstDef(v)
    BY <2>4 DEF Sound, PoolExact, Typed
  <2>6. w \in Locals \/ last[w] >= FirstDef(v)
    BY <1>1, <2>4, <2>5 DEF Ended
  <2>. QED BY <2>3, <2>4, <2>5, <2>6 DEF ZpBytesOf
<1>6. ASSUME NEW u \in DOMAIN alloc', alloc'[u].loc = "frame", u \notin Locals, ~CrossesCall(u)
      PROVE  Full(u, alloc')
  <2>1. CASE u = v
    BY <1>2, <1>3, <1>5, <1>6, <2>1
  <2>2. CASE u # v
    BY <1>2, <1>3, <1>4, <1>6, <2>2
  <2>. QED BY <2>1, <2>2
<1>. QED BY <1>6, Static, SameRanges DEF SpillsOnlyWhenFull, Bytes
-----------------------------------------------------------------------------
\* The steps.  Each keeps what the invariant consists of.

LEMMA Initially == Init => IInv
<1>. SUFFICES ASSUME Init PROVE IInv
  OBVIOUS
<1>1. fn \in Function /\ last = [v \in Ranged |-> LastMention(v)] /\ k = 1 /\ phase = "loops"
  BY DEF Init
<1>2. DOMAIN alloc = {} /\ zpActive = {} /\ zpUsed = {} /\ todo = Ranged /\ freeFrameSlots = <<>>
      /\ pc = 0 /\ frameSize = 0
  BY DEF Init, Unset
<1>3. \A v \in Ranged : LastMention(v) \in Code
  BY <1>1, RangeFacts
<1>4. Typed
  BY <1>1, <1>2, <1>3 DEF Typed
<1>5. RangesCover
  <2>1. \A i \in Code : ~(i < 1)
    BY <1>1, FunctionFacts
  <2>2. \A v \in Ranged : LastMention(v) <= last[v]
    BY <1>1, <1>3, FunctionFacts
  <2>. QED BY <1>1, <2>1, <2>2 DEF RangesCover, Seen
<1>6. OnlyLocals /\ PlacesApart /\ PoolExact /\ SpillsOnlyWhenFull
  BY <1>1, <1>2 DEF OnlyLocals, PlacesApart, PoolExact, SpillsOnlyWhenFull
<1>7. RunSound
  BY <1>1 DEF RunSound
<1>. QED BY <1>1, <1>4, <1>5, <1>6, <1>7 DEF IInv, Sound

\* What the analysis decided holds while the code runs.
LEMMA Decided ==
    ASSUME Sound, UNCHANGED analysis, phase # "loops", phase' \notin {"loops", "locals"},
           phase' \in {"temporaries", "run", "returned"}, pc' \in Nat
    PROVE  Typed' /\ RangesCover' /\ OnlyLocals' /\ PlacesApart' /\ PoolExact'
           /\ SpillsOnlyWhenFull' /\ \A v : Cells(v)' = Cells(v)
<1>1. UNCHANGED <<fn, k, last, todo, alloc, zpUsed, zpActive, frameActive, freeFrameSlots,
                  frameSize, overfull>>
  BY DEF analysis
<1>2. \A v : Cells(v)' = Cells(v) /\ ZpBytesOf(v)' = ZpBytesOf(v) /\ Over(v)' = Over(v)
  BY <1>1, Static DEF Cells, Kept, ZpBytesOf, Bytes, Over
<1>3. Typed'
  BY <1>1, Static DEF Sound, Typed
<1>4. RangesCover'
  BY <1>1, Static DEF Sound, RangesCover, Seen
<1>5. OnlyLocals'
  BY DEF OnlyLocals
<1>6. PlacesApart'
  BY <1>1, <1>2, SameRanges DEF Sound, PlacesApart
<1>7. PoolExact'
  BY <1>1, <1>2, Static, SameRanges DEF Sound, PoolExact
<1>8. Scalars' = Scalars
  BY <1>1, Static DEF Scalars
<1>9. SpillsOnlyWhenFull'
  BY <1>1, <1>8, Static, SameRanges DEF Sound, SpillsOnlyWhenFull, Bytes
<1>. QED BY <1>2, <1>3, <1>4, <1>5, <1>6, <1>7, <1>9

LEMMA ByLoops ==
    ASSUME fn \in Function, Sound, ExtendOverLoop \/ EndLoops
    PROVE  Sound'
<1>. USE FunctionFacts
<1>1. fn' = fn /\ phase = "loops" /\ phase' \in {"loops", "locals"}
      /\ UNCHANGED <<todo, alloc, zpUsed, zpActive, freeFrameSlots, frameSize, pc>>
      /\ k' \in Nat \ {0}
  BY DEF ExtendOverLoop, EndLoops, Sound, Typed
<1>2. DOMAIN alloc = {} /\ zpActive = {} /\ zpUsed = {} /\ todo = Ranged /\ freeFrameSlots = <<>>
  BY <1>1 DEF Sound, OnlyLocals
<1>3. \A v \in Ranged : last[v] \in Code /\ FirstDef(v) \in Code /\ LastMention(v) <= last[v]
  BY RangeFacts DEF Sound, Typed, RangesCover
<1>4. last' \in [Ranged -> Code] /\ RangesCover'
  <2>1. CASE ExtendOverLoop
    <3>1. k \in Code /\ k' = k + 1 /\ phase' = "loops" /\ last' = [v \in Ranged |-> Extended(k, v)]
      BY <2>1 DEF ExtendOverLoop
    <3>. DEFINE end == BlockEnd(fn.code[k].block)
    <3>2. end \in Code
      BY <3>1, BlockFacts
    <3>3. \A v \in Ranged : /\ last'[v] \in {last[v], end} /\ last[v] <= last'[v]
                            /\ last'[v] # last[v] => last'[v] = end
      BY <1>3, <3>1, <3>2 DEF Extended
    <3>4. ASSUME NEW i \in Code, i < k + 1, NEW b \in BackTo(i), NEW v \in Ranged,
                 FirstDef(v) <= BlockEnd(fn.code[i].block), BlockStart(b) <= last'[v]
          PROVE  BlockEnd(fn.code[i].block) <= last'[v]
      <4>1. BlockEnd(fn.code[i].block) \in Code /\ BlockEnd(fn.code[i].block) <= end
        <5>1. i <= k
          BY <3>1, <3>4
        <5>. QED BY <3>1, <5>1, BlockFacts
      <4>2. CASE last'[v] # last[v]
        BY <3>3, <4>1, <4>2
      <4>3. CASE last'[v] = last[v] /\ i < k
        <5>1. Seen(i)
          BY <4>3 DEF Seen
        <5>. QED BY <3>4, <4>3, <5>1 DEF Sound, RangesCover
      <4>4. CASE last'[v] = last[v] /\ i = k
        <5>1. ~(last[v] < end)
          <6>1. SUFFICES ASSUME last[v] < end PROVE FALSE
            OBVIOUS
          <6>2. \E c \in BackTo(k) : FirstDef(v) <= end /\ last[v] >= BlockStart(c)
            <7>1. b \in BackTo(k) /\ FirstDef(v) <= end /\ BlockStart(b) <= last[v]
              BY <3>4, <4>4
            <7>2. BlockStart(b) \in Code
              BY <3>1, <7>1, BlockFacts DEF BackTo
            <7>. QED BY <1>3, <7>1, <7>2
          <6>3. last'[v] = end
            BY <3>1, <6>1, <6>2 DEF Extended
          <6>. QED BY <1>3, <3>2, <4>4, <6>1, <6>3
        <5>. QED BY <1>3, <3>2, <4>4, <5>1
      <4>. QED BY <3>1, <3>4, <4>2, <4>3, <4>4
    <3>5. \A i \in Code : Seen(i)' => i < k + 1
      BY <3>1 DEF Seen
    <3>6. last' \in [Ranged -> Code] /\ \A v \in Ranged : LastMention(v) <= last'[v]
      <4>1. ASSUME NEW v \in Ranged
            PROVE  last'[v] \in Code /\ LastMention(v) <= last'[v]
        <5>1. LastMention(v) \in Code
          BY RangeFacts
        <5>2. last[v] <= last'[v] /\ last'[v] \in Code /\ last[v] \in Code /\ LastMention(v) <= last[v]
          BY <1>3, <3>2, <3>3
        <5>. QED BY <5>1, <5>2
      <4>. QED BY <3>1, <4>1
    <3>. QED BY <1>1, <3>4, <3>5, <3>6, Static DEF RangesCover
  <2>2. CASE EndLoops
    <3>1. last' = last /\ phase' = "locals" /\ k \notin Code /\ k \in Nat \ {0}
      BY <2>2 DEF EndLoops, Sound, Typed
    <3>2. \A i \in Code : Seen(i)
      BY <3>1 DEF Seen
    <3>. QED BY <1>1, <3>1, <3>2, Static DEF Sound, Typed, RangesCover
  <2>. QED BY <2>1, <2>2
<1>5. Typed'
  BY <1>1, <1>2, <1>4, Static DEF Sound, Typed
<1>6. OnlyLocals'
  BY <1>1, <1>2, Static DEF OnlyLocals
<1>7. PlacesApart' /\ PoolExact' /\ SpillsOnlyWhenFull' /\ RunSound'
  BY <1>1, <1>2 DEF PlacesApart, PoolExact, SpillsOnlyWhenFull, RunSound
<1>. QED BY <1>4, <1>5, <1>6, <1>7 DEF Sound

LEMMA ByPlaceLocal ==
    ASSUME fn \in Function, Sound, PlaceLocal
    PROVE  Sound'
<1>0. PICK v \in Locals : v = fn.order[k]
  BY FunctionFacts DEF PlaceLocal
<1>1. /\ UNCHANGED <<fn, phase, last, todo, zpUsed, zpActive, pc>> /\ k' = k + 1
      /\ phase = "locals" /\ v \in Locals /\ v \in Ranged
  BY FunctionFacts DEF PlaceLocal
<1>2. /\ todo = Ranged /\ zpUsed = {} /\ zpActive = {} /\ freeFrameSlots = <<>>
      /\ \A w \in DOMAIN alloc :
            w \in Locals /\ alloc[w].loc = "frame" /\ alloc[w].off + Slot(w) <= frameSize
  BY <1>1 DEF Sound, OnlyLocals
<1>3. \A w \in Ranged : Slot(w) \in Nat
  BY FunctionFacts DEF Slot
<1>4. /\ freeFrameSlots' = <<>> /\ frameSize' \in Nat /\ DOMAIN alloc' \subseteq Ranged
      /\ \A w \in DOMAIN alloc' : alloc'[w] \in [loc : {"ax", "zp", "frame"}, off : Nat]
      /\ \A w \in DOMAIN alloc' :
            w \in Locals /\ alloc'[w].loc = "frame" /\ alloc'[w].off + Slot(w) <= frameSize'
      /\ PlacesApart'
  <2>1. CASE v \in fn.register
    <3>1. UNCHANGED <<alloc, freeFrameSlots, frameSize>>
      BY <1>0, <2>1 DEF PlaceLocal
    <3>2. \A w \in DOMAIN alloc : Cells(w)' = Cells(w)
      BY <1>1, <3>1, SamePlaces
    <3>. QED BY <1>1, <1>2, <3>1, <3>2, SameRanges DEF Sound, Typed, PlacesApart
  <2>2. CASE v \notin fn.register
    <3>1. Fitting(<<>>, Slot(v)) = {}
      BY DEF Fitting
    <3>2. alloc' = Place(v, "frame", frameSize) /\ freeFrameSlots' = <<>>
          /\ frameSize' = frameSize + Slot(v)
      BY <1>0, <1>2, <2>2, <3>1 DEF PlaceLocal, OffsetOf, SlotsAfter, SizeAfter
    <3>3. frameSize \in Nat /\ Typed /\ PlacesApart
      BY DEF Sound, Typed
    <3>4. /\ DOMAIN alloc' = DOMAIN alloc \cup {v}
          /\ alloc'[v] = [loc |-> "frame", off |-> frameSize]
          /\ \A w \in DOMAIN alloc \ {v} : alloc'[w] = alloc[w]
      BY <3>2 DEF Place
    <3>5. Cells(v)' = {"frame"} \X Bytes(frameSize, Slot(v))
      BY <1>1, <3>2, <3>3, Placing
    <3>6. ASSUME NEW w \in DOMAIN alloc \ {v}
          PROVE  Cells(v)' \cap Cells(w) = {}
      <4>1. Cells(w) = {"frame"} \X Bytes(alloc[w].off, Slot(w))
        BY <1>2 DEF Cells, Kept
      <4>2. alloc[w].off + Slot(w) <= frameSize /\ alloc[w].off \in Nat /\ Slot(w) \in Nat
        BY <1>2, <1>3, <3>3 DEF Typed
      <4>3. Bytes(frameSize, Slot(v)) \cap Bytes(alloc[w].off, Slot(w)) = {}
        BY <1>1, <1>3, <3>3, <4>2 DEF Bytes
      <4>. QED BY <3>5, <4>1, <4>3
    <3>7. PlacesApart'
      BY <1>1, <3>2, <3>3, <3>6, StillApart
    <3>8. \A w \in DOMAIN alloc :
             w \in Ranged /\ Slot(w) \in Nat /\ alloc[w].off \in Nat /\ alloc[w].off + Slot(w) <= frameSize
      BY <1>2, <1>3, <3>3 DEF Typed
    <3>9. \A w \in DOMAIN alloc' :
            w \in Locals /\ alloc'[w].loc = "frame" /\ alloc'[w].off + Slot(w) <= frameSize'
      BY <1>1, <1>2, <1>3, <3>2, <3>3, <3>4, <3>8
    <3>. QED BY <1>1, <1>3, <3>2, <3>3, <3>4, <3>7, <3>9 DEF Typed
  <2>. QED BY <2>1, <2>2
<1>5. Typed'
  BY <1>1, <1>2, <1>4, Static DEF Sound, Typed
<1>6. RangesCover'
  BY <1>1, Static DEF Sound, RangesCover, Seen
<1>7. OnlyLocals'
  BY <1>1, <1>2, <1>4, Static DEF OnlyLocals
<1>8. PoolExact'
  BY <1>1, <1>2, <1>4 DEF PoolExact
<1>9. SpillsOnlyWhenFull'
  BY <1>1, <1>4, Static DEF SpillsOnlyWhenFull
<1>10. RunSound'
  BY <1>1 DEF RunSound
<1>. QED BY <1>4, <1>5, <1>6, <1>7, <1>8, <1>9, <1>10 DEF Sound

LEMMA ByEndLocals ==
    ASSUME fn \in Function, Sound, EndLocals
    PROVE  Sound'
<1>1. UNCHANGED analysis /\ phase = "locals" /\ phase' = "temporaries" /\ pc' = pc
  BY DEF EndLocals
<1>2. pc' \in Nat
  BY <1>1 DEF Sound, Typed
<1>. QED BY <1>1, <1>2, Decided DEF Sound, RunSound
LEMMA BySkip ==
    ASSUME fn \in Function, Sound, NEW v \in todo, Skip(v)
    PROVE  Sound'
<1>1. /\ UNCHANGED <<fn, phase, k, last, alloc, zpUsed, zpActive, freeFrameSlots, frameSize,
                     overfull, pc>>
      /\ phase = "temporaries" /\ todo' \subseteq todo
  BY DEF Skip, Turn
<1>2. \A w : Cells(w)' = Cells(w) /\ ZpBytesOf(w)' = ZpBytesOf(w) /\ (Over(w) => Over(w)')
  BY <1>1, Static DEF Cells, Kept, ZpBytesOf, Bytes, Over
<1>3. Typed'
  BY <1>1, Static DEF Sound, Typed
<1>4. RangesCover'
  BY <1>1, Static DEF Sound, RangesCover, Seen
<1>5. OnlyLocals' /\ RunSound'
  BY <1>1 DEF OnlyLocals, RunSound
<1>6. PlacesApart'
  BY <1>1, <1>2, SameRanges DEF Sound, PlacesApart
<1>7. PoolExact'
  BY <1>1, <1>2, Static, SameRanges DEF Sound, PoolExact
<1>8. Scalars' = Scalars
  BY <1>1, Static DEF Scalars
<1>9. SpillsOnlyWhenFull'
  BY <1>1, <1>8, Static, SameRanges DEF Sound, SpillsOnlyWhenFull, Bytes
<1>. QED BY <1>3, <1>4, <1>5, <1>6, <1>7, <1>9 DEF Sound

\* What is common to the three places.
LEMMA Placement ==
    ASSUME fn \in Function, Scalars, Scalars', Sound, NEW v \in todo, Visit(v),
           frameSize' = frameSize,
           NEW loc \in {"ax", "zp", "frame"}, NEW off \in Nat, alloc' = Place(v, loc, off),
           loc = "frame" => (MayUseZp(v) => ZpFit(v) = {}),
           \A w \in DOMAIN alloc : Overlap(v, w) => Cells(v)' \cap Cells(w) = {},
           PoolExact', zpActive' \subseteq DOMAIN alloc'
    PROVE  Sound'
<1>1. /\ UNCHANGED <<fn, phase, k, last, pc>> /\ todo' = todo \ {v}
      /\ Turn(v) /\ v \notin DOMAIN alloc
  BY DEF Visit, Placed
<1>2. v \in Ranged /\ phase = "temporaries" /\ phase' = "temporaries"
  BY <1>1, TurnFacts DEF Sound
<1>3. DOMAIN alloc' \subseteq Ranged'
      /\ \A w \in DOMAIN alloc' : alloc'[w] \in [loc : {"ax", "zp", "frame"}, off : Nat]
  <2>1. Typed
    BY DEF Sound
  <2>. QED BY <1>1, <1>2, <2>1, Placing
<1>4. Typed'
  BY <1>1, <1>2, <1>3, Static DEF Sound, Typed
<1>5. RangesCover'
  BY <1>1, Static DEF Sound, RangesCover, Seen
<1>6. OnlyLocals' /\ RunSound'
  BY <1>2 DEF OnlyLocals, RunSound
<1>7. PlacesApart'
  <2>1. Typed /\ PlacesApart
    BY DEF Sound
  <2>. QED BY <1>1, <1>2, <2>1, StillApart
<1>8. SpillsOnlyWhenFull'
  BY <1>1, SpillsKept
<1>. QED BY <1>4, <1>5, <1>6, <1>7, <1>8 DEF Sound

LEMMA ByPlaceInAX ==
    ASSUME fn \in Function, Scalars, Scalars', Sound, NEW v \in todo, PlaceInAX(v)
    PROVE  Sound'
<1>1. /\ Visit(v) /\ alloc' = Place(v, "ax", 0) /\ zpUsed' = ZpLeft(v)
      /\ zpActive' = zpActive \ Ended(v, zpActive) /\ frameSize' = frameSize
      /\ Turn(v) /\ v \notin DOMAIN alloc /\ fn' = fn /\ last' = last /\ todo' = todo \ {v}
  BY DEF PlaceInAX, Visit, Placed
<1>2. PoolExact' /\ zpActive' \subseteq DOMAIN alloc'
  BY <1>1, PoolKept
<1>3. Cells(v)' = {}
  <2>1. alloc'[v].loc = "ax"
    BY <1>1 DEF Place
  <2>. QED BY <2>1 DEF Cells, Kept
<1>. QED BY <1>1, <1>2, <1>3, Placement

LEMMA ByPlaceInZp ==
    ASSUME fn \in Function, Scalars, Scalars', Sound, NEW v \in todo, PlaceInZp(v)
    PROVE  Sound'
<1>0. PICK i : i = LeastOf(ZpFit(v))
  OBVIOUS
<1>1. /\ Visit(v) /\ MayUseZp(v) /\ alloc' = Place(v, "zp", i) /\ ZpFit(v) # {}
      /\ zpUsed' = ZpLeft(v) \cup Bytes(i, fn.width[v])
      /\ zpActive' = (zpActive \ Ended(v, zpActive)) \cup {v} /\ frameSize' = frameSize
      /\ Turn(v) /\ v \notin DOMAIN alloc /\ fn' = fn /\ last' = last /\ todo' = todo \ {v}
  BY <1>0 DEF PlaceInZp, Visit, Placed
<1>2. i \in ZpFit(v) /\ i \in Nat /\ Bytes(i, fn.width[v]) \cap ZpLeft(v) = {}
  <2>1. ZpFit(v) \in SUBSET Nat
    BY DEF ZpFit
  <2>2. i \in ZpFit(v)
    BY <1>0, <1>1, <2>1, Least
  <2>. QED BY <2>1, <2>2 DEF ZpFit
<1>3. PoolExact' /\ zpActive' \subseteq DOMAIN alloc'
  BY <1>1, <1>2, PoolGrows
<1>4. v \in Ranged /\ Typed /\ \A w \in Ranged : FirstDef(w) \in Nat /\ last[w] \in Nat
  BY <1>1, TurnFacts DEF Sound
<1>5. Cells(v)' = {"zp"} \X Bytes(i, fn.width[v])
  <2>1. Cells(v)' = {"zp"} \X Bytes(i, Slot(v))
    BY <1>1, <1>2, <1>4, Placing
  <2>. QED BY <1>4, <2>1, ScalarFacts
<1>6. ASSUME NEW w \in DOMAIN alloc, Overlap(v, w)
      PROVE  Cells(v)' \cap Cells(w) = {}
  <2>1. w \in Ranged
    BY <1>4 DEF Typed
  <2>2. CASE alloc[w].loc # "zp"
    BY <1>5, <2>2 DEF Cells
  <2>3. CASE alloc[w].loc = "zp"
    <3>1. ~(last[w] < FirstDef(v))
      BY <1>6 DEF Overlap
    <3>2. w \in zpActive \ Ended(v, zpActive)
      BY <2>3, <3>1 DEF Sound, PoolExact, Over, Ended
    <3>3. ZpBytesOf(w) \subseteq ZpLeft(v)
      BY <3>2, PoolAfter DEF Sound
    <3>4. Cells(w) \subseteq {"zp"} \X ZpBytesOf(w)
      BY <2>1, <2>3, ScalarFacts DEF Cells, ZpBytesOf
    <3>. QED BY <1>2, <1>5, <3>3, <3>4
  <2>. QED BY <2>2, <2>3
<1>. QED BY <1>1, <1>2, <1>3, <1>6, Placement

LEMMA ByPlaceInFrame ==
    ASSUME fn \in Function, Scalars, Scalars', Sound, NEW v \in todo, PlaceInFrame(v)
    PROVE  Sound'
<1>0. PICK c : c = LeastOf(Offsets(v))
  OBVIOUS
<1>1. Offsets(v) # {} /\ alloc' = Place(v, "frame", c) /\ frameSize' = frameSize
  <2>1. ~overfull'
    BY DEF Scalars
  <2>. QED BY <1>0, <2>1 DEF PlaceInFrame
<1>2. /\ Visit(v) /\ (MayUseZp(v) => ZpFit(v) = {}) /\ zpUsed' = ZpLeft(v)
      /\ zpActive' = zpActive \ Ended(v, zpActive)
      /\ Turn(v) /\ v \notin DOMAIN alloc /\ fn' = fn /\ last' = last /\ todo' = todo \ {v}
  BY DEF PlaceInFrame, Visit, Placed
<1>3. c \in Offsets(v) /\ c \in Nat
  <2>1. Offsets(v) \in SUBSET Nat
    BY BoundsAssumption DEF Offsets
  <2>. QED BY <1>0, <1>1, <2>1, Least
<1>4. PoolExact' /\ zpActive' \subseteq DOMAIN alloc'
  BY <1>1, <1>2, <1>3, PoolKept
<1>5. v \in Ranged /\ Typed
  BY <1>2, TurnFacts DEF Sound
<1>6. Cells(v)' = {"frame"} \X Bytes(c, fn.width[v])
  <2>1. Cells(v)' = {"frame"} \X Bytes(c, Slot(v))
    BY <1>1, <1>2, <1>3, <1>5, Placing
  <2>. QED BY <1>5, <2>1, ScalarFacts
<1>7. ASSUME NEW w \in DOMAIN alloc, Overlap(v, w)
      PROVE  Cells(v)' \cap Cells(w) = {}
  <2>1. w \in Ranged
    BY <1>5 DEF Typed
  <2>2. CASE alloc[w].loc # "frame"
    BY <1>6, <2>2 DEF Cells
  <2>3. CASE alloc[w].loc = "frame"
    <3>1. Bytes(alloc[w].off, fn.width[w]) \cap Bytes(c, fn.width[v]) = {}
      BY <1>3, <1>7, <2>3 DEF Offsets
    <3>2. Cells(w) \subseteq {"frame"} \X Bytes(alloc[w].off, fn.width[w])
      BY <2>1, <2>3, ScalarFacts DEF Cells
    <3>. QED BY <1>6, <3>1, <3>2
  <2>. QED BY <2>2, <2>3
<1>. QED BY <1>1, <1>2, <1>3, <1>4, <1>7, Placement

-----------------------------------------------------------------------------
\* The running code.

\* A store changes the cells of what is stored, and no others.
LEMMA StoredHere ==
    ASSUME NEW m, NEW S, NEW v \in S, NEW c \in DOMAIN m, c \in Cells(v),
           \A u \in S : u # v => c \notin Cells(u)
    PROVE  Stored(m, S)[c] = v
<1>1. PICK w \in S : w = (CHOOSE u \in S : c \in Cells(u)) /\ c \in Cells(w)
  OBVIOUS
<1>. QED BY <1>1 DEF Stored

LEMMA StoredElsewhere ==
    ASSUME NEW m, NEW S, NEW c \in DOMAIN m, \A u \in S : c \notin Cells(u)
    PROVE  Stored(m, S)[c] = m[c]
  BY DEF Stored

LEMMA ByEnter ==
    ASSUME fn \in Function, Sound, Enter
    PROVE  Sound'
<1>. DEFINE all == UNION {Cells(v) : v \in DOMAIN alloc}
            blank == [c \in all |-> None]
<1>1. /\ UNCHANGED analysis /\ phase = "temporaries" /\ phase' = "run" /\ pc' = 1
      /\ mem' = Stored(blank, fn.params) /\ assigned' = fn.params
  BY DEF Enter
<1>2. /\ Typed' /\ RangesCover' /\ OnlyLocals' /\ PlacesApart' /\ PoolExact'
      /\ SpillsOnlyWhenFull' /\ \A v : Cells(v)' = Cells(v)
  BY <1>1, Decided
<1>3. fn' = fn /\ alloc' = alloc /\ last' = last
  BY <1>1 DEF analysis
<1>4. DOMAIN mem' = all /\ \A v \in DOMAIN alloc' : Cells(v)' \subseteq DOMAIN mem'
  BY <1>1, <1>2, <1>3 DEF Stored
<1>5. ASSUME NEW v \in fn.params, NEW c \in Cells(v)
      PROVE  mem'[c] = v
  <2>1. v \in DOMAIN alloc /\ c \in DOMAIN blank
    BY <1>5 DEF Cells, Kept
  <2>2. ASSUME NEW u \in fn.params, u # v, c \in Cells(u)
        PROVE  FALSE
    <3>1. u \in DOMAIN alloc
      BY <2>2 DEF Cells, Kept
    <3>2. FirstDef(u) = 1 /\ FirstDef(v) = 1 /\ last[u] >= 1 /\ last[v] >= 1
      BY FunctionFacts, RangeFacts DEF Sound, Typed
    <3>3. Overlap(u, v)
      BY <3>2, FunctionFacts DEF Overlap, Sound, Typed
    <3>. QED BY <1>5, <2>1, <2>2, <3>1, <3>3 DEF Sound, PlacesApart
  <2>. QED BY <1>1, <2>1, <2>2, StoredHere
<1>6. RunSound'
  <2>1. assigned' \subseteq Ranged' /\ \A v \in assigned' : v \in Locals'
    BY <1>1, <1>3, FunctionFacts, Static
  <2>2. \A v \in assigned' : Holds(v)'
    BY <1>1, <1>2, <1>5 DEF Holds
  <2>. QED BY <1>1, <1>4, <2>1, <2>2 DEF RunSound
<1>. QED BY <1>2, <1>6 DEF Sound

\* What compute and call have in common: what is not the result stays as m has it.
LEMMA ByAssign ==
    ASSUME fn \in Function, Sound, UNCHANGED analysis, phase = "run", phase' = phase,
           pc \in Code, NEW m, DOMAIN m = DOMAIN mem, Assign(fn.code[pc].def, m),
           NoCallAtStart =>
              \A v \in assigned : pc < last[v] => \A c \in Cells(v) : m[c] = mem[c]
    PROVE  Sound'
<1>. DEFINE D == fn.code[pc].def
<1>. USE FunctionFacts
<1>1. pc' = pc + 1 /\ pc' \in Nat /\ mem' = Stored(m, D) /\ assigned' = assigned \cup D
  BY DEF Assign, Sound, Typed
<1>2. /\ Typed' /\ RangesCover' /\ OnlyLocals' /\ PlacesApart' /\ PoolExact'
      /\ SpillsOnlyWhenFull' /\ \A v : Cells(v)' = Cells(v)
  BY <1>1, Decided
<1>3. fn' = fn /\ alloc' = alloc /\ last' = last
  BY DEF analysis
<1>4. \A d \in D : /\ d \in Ranged /\ D = {d} /\ pc \in MentionsOf(d)
                   /\ FirstDef(d) <= pc /\ pc <= last[d]
  <2>1. TAKE d \in D
  <2>2. pc \in MentionsOf(d) /\ d \in Ranged
    BY DEF MentionsOf, Mentions, Ranged
  <2>3. D = {d}
    BY DEF Inst
  <2>4. FirstDef(d) <= pc /\ pc <= LastMention(d) /\ LastMention(d) <= last[d]
        /\ LastMention(d) \in Code /\ last[d] \in Code
    BY <2>2, RangeFacts DEF Sound, RangesCover, Typed
  <2>. QED BY <2>2, <2>3, <2>4
<1>5. /\ assigned \subseteq Ranged /\ 1 <= pc
      /\ \A v \in DOMAIN alloc : Cells(v) \subseteq DOMAIN mem
      /\ \A v \in assigned : v \in Locals \/ FirstDef(v) < pc
      /\ NoCallAtStart => \A v \in assigned : Holds(v)
  BY DEF Sound, RunSound
<1>6. \A v : \A c \in Cells(v) : v \in DOMAIN alloc /\ c \in DOMAIN m
  BY <1>5 DEF Cells, Kept
<1>7. ASSUME NoCallAtStart, NEW v \in assigned \cup D, pc + 1 <= last[v], NEW c \in Cells(v)
      PROVE  mem'[c] = v
  <2>1. CASE v \in D
    <3>1. c \in DOMAIN m /\ \A u \in D : u = v
      BY <1>4, <1>6, <1>7, <2>1
    <3>. HIDE DEF D
    <3>2. Stored(m, D)[c] = v
      BY <1>7, <2>1, <3>1, StoredHere
    <3>. QED BY <1>1, <3>2
  <2>2. CASE v \notin D
    <3>1. v \in assigned /\ v \in Ranged /\ last[v] \in Code /\ FirstDef(v) \in Code
      BY <1>5, <1>7, <2>2, RangeFacts DEF Sound, Typed
    <3>2. FirstDef(v) <= pc
      BY <1>5, <3>1, RangeFacts
    <3>3. ASSUME NEW d \in D, c \in Cells(d)
          PROVE  FALSE
      <4>1. last[d] \in Code /\ FirstDef(d) \in Code
        BY <1>4, RangeFacts DEF Sound, Typed
      <4>2. Overlap(v, d)
        BY <1>4, <1>7, <3>1, <3>2, <4>1 DEF Overlap
      <4>3. d \in DOMAIN alloc /\ v \in DOMAIN alloc /\ v # d
        BY <1>6, <1>7, <2>2, <3>3
      <4>. QED BY <1>7, <3>3, <4>2, <4>3 DEF Sound, PlacesApart
    <3>4. Stored(m, D)[c] = m[c]
      <4>1. c \in DOMAIN m /\ \A u \in D : c \notin Cells(u)
        BY <1>6, <1>7, <3>3
      <4>. HIDE DEF D
      <4>. QED BY <4>1, StoredElsewhere
    <3>5. pc < last[v] /\ pc <= last[v]
      BY <1>7, <3>1
    <3>6. m[c] = mem[c] /\ mem[c] = v
      BY <1>5, <1>7, <3>1, <3>5 DEF Holds
    <3>. QED BY <1>1, <3>4, <3>6
  <2>. QED BY <2>1, <2>2
<1>8. RunSound'
  <2>1. 1 <= pc' /\ assigned' \subseteq Ranged'
    BY <1>1, <1>3, <1>4, <1>5, Static
  <2>2. \A v \in DOMAIN alloc' : Cells(v)' \subseteq DOMAIN mem'
    <3>1. DOMAIN mem' = DOMAIN mem
      BY <1>1 DEF Stored
    <3>. QED BY <1>2, <1>3, <1>5, <3>1
  <2>3. ASSUME NEW v \in assigned'
        PROVE  v \in Locals' \/ FirstDef(v)' < pc'
    <3>1. v \in Locals \/ FirstDef(v) <= pc
      BY <1>1, <1>4, <1>5, <2>1, RangeFacts, Static, <1>3
    <3>2. v \in Ranged
      BY <1>3, <2>1, Static
    <3>. QED BY <1>1, <1>3, <3>1, <3>2, RangeFacts, Static
  <2>4. NoCallAtStart' => \A v \in assigned' : Holds(v)'
    BY <1>1, <1>2, <1>3, <1>7, Static DEF Holds
  <2>. QED BY <2>1, <2>2, <2>3, <2>4 DEF RunSound
<1>. QED BY <1>2, <1>8 DEF Sound

LEMMA ByCompute ==
    ASSUME fn \in Function, Sound, Compute
    PROVE  Sound'
<1>1. UNCHANGED analysis /\ phase = "run" /\ phase' = phase /\ pc \in Code
      /\ Assign(fn.code[pc].def, mem)
  BY DEF Compute, Running
<1>. QED BY <1>1, ByAssign

\* No register that is needed later is in the pool.
LEMMA ByCall ==
    ASSUME fn \in Function, Scalars, Sound, Call
    PROVE  Sound'
<1>. DEFINE m == [c \in DOMAIN mem |-> IF c[1] = "zp" THEN None ELSE mem[c]]
<1>. USE FunctionFacts
<1>1. UNCHANGED analysis /\ phase = "run" /\ phase' = phase /\ pc \in Code
      /\ Assign(fn.code[pc].def, m) /\ fn.code[pc].op = "call"
  BY DEF Call, Running
<1>2. ASSUME NoCallAtStart, NEW v \in assigned, pc < last[v], NEW c \in Cells(v)
      PROVE  m[c] = mem[c]
  <2>1. v \in DOMAIN alloc /\ v \in Ranged /\ c \in DOMAIN mem /\ 1 <= pc
        /\ (v \in Locals \/ FirstDef(v) < pc)
    BY <1>1, <1>2 DEF Sound, RunSound, Cells, Kept
  <2>2. FirstDef(v) \in Code /\ last[v] \in Code /\ (v \in Locals => FirstDef(v) = 1)
    BY <2>1, RangeFacts DEF Sound, Typed
  <2>3. alloc[v].loc # "zp"
    <3>1. SUFFICES ASSUME alloc[v].loc = "zp" PROVE FALSE
      OBVIOUS
    <3>2. ~CrossesCall(v) /\ (v \in Locals => v \in fn.register)
      BY <2>1, <3>1 DEF Sound, PoolExact
    <3>3. ~(FirstDef(v) < pc)
      BY <1>1, <1>2, <2>2, <3>2 DEF CrossesCall
    <3>4. v \in fn.register /\ pc = 1
      BY <1>1, <2>1, <2>2, <3>2, <3>3
    <3>. QED BY <1>1, <1>2, <3>4 DEF NoCallAtStart
  <2>4. c[1] # "zp"
    BY <1>2, <2>3 DEF Cells, Kept
  <2>. QED BY <2>1, <2>4
<1>3. DOMAIN m = DOMAIN mem
  OBVIOUS
<1>. HIDE DEF m
<1>. QED BY <1>1, <1>2, <1>3, ByAssign

\* What is needed where a loop begins again was kept until its end.
LEMMA ByBranch ==
    ASSUME fn \in Function, Sound, Branch
    PROVE  Sound'
<1>. USE FunctionFacts
<1>1. UNCHANGED analysis /\ phase = "run" /\ phase' = phase /\ pc \in Code /\ mem' = mem
      /\ assigned' = {v \in assigned : v \in Locals \/ FirstDef(v) < pc'}
  BY DEF Branch, Running
<1>2. PICK b \in fn.code[pc].to : Nonempty(b) /\ pc' = BlockStart(b)
  BY DEF Branch
<1>3. pc' \in Code /\ (pc' <= pc => b \in BackTo(pc))
  BY <1>1, <1>2, BlockFacts
<1>4. /\ Typed' /\ RangesCover' /\ OnlyLocals' /\ PlacesApart' /\ PoolExact'
      /\ SpillsOnlyWhenFull' /\ \A v : Cells(v)' = Cells(v)
  BY <1>1, <1>3, Decided
<1>5. fn' = fn /\ alloc' = alloc /\ last' = last
  BY <1>1 DEF analysis
<1>6. /\ assigned \subseteq Ranged
      /\ \A v \in DOMAIN alloc : Cells(v) \subseteq DOMAIN mem
      /\ NoCallAtStart => \A v \in assigned : Holds(v)
  BY <1>1 DEF Sound, RunSound
<1>7. ASSUME NEW v \in assigned', pc' <= last[v]
      PROVE  pc <= last[v]
  <2>1. v \in Ranged /\ (v \in Locals \/ FirstDef(v) < pc')
    BY <1>1, <1>6
  <2>2. FirstDef(v) \in Code /\ last[v] \in Code /\ FirstDef(v) <= pc'
    BY <1>3, <2>1, RangeFacts DEF Sound, Typed
  <2>3. CASE pc' > pc
    BY <1>1, <1>3, <1>7, <2>2, <2>3
  <2>4. CASE pc' <= pc
    <3>. DEFINE end == BlockEnd(fn.code[pc].block)
    <3>1. end \in Code /\ pc <= end
      BY <1>1, BlockFacts
    <3>2. b \in BackTo(pc) /\ FirstDef(v) <= end /\ BlockStart(b) <= last[v]
      BY <1>1, <1>2, <1>3, <1>7, <2>2, <2>4, <3>1
    <3>3. end <= last[v]
      BY <1>1, <2>1, <3>2 DEF Sound, RangesCover, Seen
    <3>. QED BY <1>1, <2>2, <3>1, <3>3
  <2>. QED BY <1>1, <1>3, <2>3, <2>4
<1>8. RunSound'
  <2>1. NoCallAtStart' => \A v \in assigned' : Holds(v)'
    BY <1>1, <1>4, <1>5, <1>6, <1>7, Static DEF Holds
  <2>. QED BY <1>1, <1>3, <1>4, <1>5, <1>6, <2>1, Static DEF RunSound
<1>. QED BY <1>4, <1>8 DEF Sound

LEMMA ByStill ==
    ASSUME fn \in Function, Sound, Return \/ UNCHANGED vars
    PROVE  Sound'
<1>1. CASE Return
  <2>1. UNCHANGED analysis /\ phase = "run" /\ phase' = "returned" /\ pc' = pc
    BY <1>1 DEF Return, Running
  <2>2. pc' \in Nat
    BY <2>1 DEF Sound, Typed
  <2>. QED BY <2>1, <2>2, Decided DEF Sound, RunSound
<1>2. CASE UNCHANGED vars
  <2>1. UNCHANGED <<fn, k, last, todo, alloc, zpUsed, zpActive, freeFrameSlots, frameSize,
                    overfull, phase, pc, mem, assigned>>
    BY <1>2 DEF vars, analysis
  <2>2. \A v : Cells(v)' = Cells(v) /\ ZpBytesOf(v)' = ZpBytesOf(v) /\ Over(v)' = Over(v)
               /\ Holds(v)' = Holds(v)
    BY <2>1, Static DEF Cells, Kept, ZpBytesOf, Bytes, Over, Holds
  <2>3. Typed'
    BY <2>1, Static DEF Sound, Typed
  <2>4. RangesCover'
    BY <2>1, Static DEF Sound, RangesCover, Seen
  <2>5. OnlyLocals'
    BY <2>1, Static DEF Sound, OnlyLocals
  <2>6. PlacesApart'
    BY <2>1, <2>2, SameRanges DEF Sound, PlacesApart
  <2>7. PoolExact'
    BY <2>1, <2>2, Static, SameRanges DEF Sound, PoolExact
  <2>8. Scalars' = Scalars
    BY <2>1, Static DEF Scalars
  <2>9. SpillsOnlyWhenFull'
    BY <2>1, <2>8, Static, SameRanges DEF Sound, SpillsOnlyWhenFull, Bytes
  <2>10. RunSound'
    BY <2>1, <2>2, Static DEF Sound, RunSound
  <2>. QED BY <2>3, <2>4, <2>5, <2>6, <2>7, <2>9, <2>10 DEF Sound
<1>. QED BY <1>1, <1>2

-----------------------------------------------------------------------------

LEMMA Inductive == IInv /\ [Next]_vars => IInv'
<1>1. SUFFICES ASSUME IInv, Next \/ UNCHANGED vars, Scalars'
               PROVE  Sound'
  BY Steps DEF IInv
<1>2. fn \in Function /\ Scalars /\ Sound
  BY <1>1, Steps DEF IInv
<1>3. CASE ExtendOverLoop \/ EndLoops
  BY <1>2, <1>3, ByLoops
<1>4. CASE PlaceLocal
  BY <1>2, <1>4, ByPlaceLocal
<1>5. CASE EndLocals
  BY <1>2, <1>5, ByEndLocals
<1>6. ASSUME NEW v \in todo,
             Skip(v) \/ PlaceInMemory(v) \/ PlaceInAX(v) \/ PlaceInZp(v) \/ PlaceInFrame(v)
      PROVE  Sound'
  <2>1. CASE Skip(v)
    BY <1>2, <2>1, BySkip
  <2>2. ~PlaceInMemory(v)
    <3>1. v \in Ranged
      BY <1>2 DEF Sound, Typed
    <3>. QED BY <1>2, <3>1, ScalarFacts DEF PlaceInMemory, Visit, Placed
  <2>3. CASE PlaceInAX(v)
    BY <1>1, <1>2, <2>3, ByPlaceInAX
  <2>4. CASE PlaceInZp(v)
    BY <1>1, <1>2, <2>4, ByPlaceInZp
  <2>5. CASE PlaceInFrame(v)
    BY <1>1, <1>2, <2>5, ByPlaceInFrame
  <2>. QED BY <1>6, <2>1, <2>2, <2>3, <2>4, <2>5
<1>7. CASE Enter
  BY <1>2, <1>7, ByEnter
<1>8. CASE Compute
  BY <1>2, <1>8, ByCompute
<1>9. CASE Call
  BY <1>2, <1>9, ByCall
<1>10. CASE Branch
  BY <1>2, <1>10, ByBranch
<1>11. CASE Return \/ Terminated \/ UNCHANGED vars
  BY <1>2, <1>11, ByStill DEF Terminated
<1>. QED BY <1>1, <1>3, <1>4, <1>5, <1>6, <1>7, <1>8, <1>9, <1>10, <1>11 DEF Next

LEMMA Invariance == Spec => []IInv
<1>. QED BY Initially, Inductive, PTL DEF Spec

\* However the slots of a function are shared, and through whatever loops and calls the
\* code runs, an instruction that reads a register kept in memory finds what was last
\* assigned to it.
THEOREM ReadsAreRight == Spec => []ReadsSeeLastWrite
<1>1. IInv => ReadsSeeLastWrite
  <2>1. SUFFICES ASSUME IInv, phase = "run", pc \in Code, Scalars, NoCallAtStart,
                        NEW v \in fn.code[pc].src \cap assigned, NEW c \in Cells(v)
                 PROVE  mem[c] = v
    BY DEF ReadsSeeLastWrite
  <2>2. v \in Ranged /\ pc \in MentionsOf(v)
    BY <2>1 DEF Ranged, MentionsOf, Mentions
  <2>3. pc <= LastMention(v) /\ LastMention(v) <= last[v] /\ pc \in Nat
        /\ LastMention(v) \in Nat /\ last[v] \in Nat
    BY <2>1, <2>2, FunctionFacts, RangeFacts DEF IInv, Sound, RangesCover, Typed
  <2>. QED BY <2>1, <2>3 DEF IInv, Sound, RunSound, Holds
<1>. QED BY <1>1, Invariance, PTL

\* Whatever the pool's size, a temporary that no call may clobber is moved to the frame
\* only when registers still in use leave it no room.
THEOREM SpillsAreNeeded == Spec => []SpillsOnlyWhenFull
<1>1. IInv => SpillsOnlyWhenFull
  BY DEF IInv, Sound, SpillsOnlyWhenFull
<1>. QED BY <1>1, Invariance, PTL

-----------------------------------------------------------------------------
\* Types, for every function: scalars or not, the frame used up or not.

Holes == [off : Nat, size : Nat]

LEMMA HoleFacts ==
    ASSUME NEW s \in Seq(Holes), NEW n \in Nat, frameSize \in Nat
    PROVE  /\ OffsetOf(s, n) \in Nat /\ SizeAfter(s, n) \in Nat
           /\ SlotsAfter(s, n) \in Seq(Holes)
<1>1. PICK T : T = Holes
  OBVIOUS
<1>2. s \in Seq(T) /\ \A i \in DOMAIN s : s[i] \in Holes
  BY <1>1
<1>3. SizeAfter(s, n) \in Nat
  BY DEF SizeAfter
<1>4. CASE Fitting(s, n) = {}
  BY <1>3, <1>4 DEF OffsetOf, SlotsAfter
<1>5. CASE Fitting(s, n) # {}
  <2>. DEFINE i == LeastOf(Fitting(s, n))
  <2>1. Fitting(s, n) \subseteq 1..Len(s)
    BY <1>2 DEF Fitting
  <2>2. i \in 1..Len(s)
    <3>1. Fitting(s, n) \in SUBSET Nat
      BY <1>2, <2>1
    <3>. QED BY <1>5, <2>1, <3>1, Least
  <2>. HIDE DEF i
  <2>3. s[i] \in Holes
    BY <1>2, <2>2
  <2>4. RemoveAt(s, i) \in Seq(T)
    <3>1. SubSeq(s, 1, i - 1) \in Seq(T)
      BY <1>2, <2>2
    <3>2. SubSeq(s, i + 1, Len(s)) \in Seq(T)
      BY <1>2, <2>2
    <3>. QED BY <3>1, <3>2 DEF RemoveAt
  <2>5. OffsetOf(s, n) = s[i].off /\ SlotsAfter(s, n) = RemoveAt(s, i)
    BY <1>5 DEF OffsetOf, SlotsAfter, i
  <2>. QED BY <1>1, <1>3, <2>3, <2>4, <2>5 DEF Holes
<1>. QED BY <1>4, <1>5

LEMMA Listing ==
    ASSUME NEW S, IsFiniteSet(S)
    PROVE  \E n \in Nat : DOMAIN SetToSeq(S) = 1..n /\ \A i \in 1..n : SetToSeq(S)[i] \in S
<1>1. Cardinality(S) \in Nat /\ ExistsBijection(1..Cardinality(S), S)
  BY FS_CardinalityType
<1>2. PICK f : f \in Bijection(1..Cardinality(S), S)
  BY <1>1 DEF ExistsBijection
<1>3. f \in [1..Cardinality(S) -> S] /\ IsInjective(f)
  BY <1>2 DEF Bijection, Injection, Surjection, IsInjective
<1>4. SetToSeq(S) \in [1..Cardinality(S) -> S]
  BY <1>3 DEF SetToSeq
<1>. QED BY <1>1, <1>4

LEMMA LeftHoles ==
    ASSUME fn \in Function, TypeOK, NEW v
    PROVE  SlotsLeft(v) \in Seq(Holes)
<1>. DEFINE S == Ended(v, frameActive)
<1>1. S \subseteq DOMAIN alloc /\ S \subseteq Vreg /\ IsFiniteSet(S)
  <2>1. S \subseteq DOMAIN alloc /\ S \subseteq Vreg
    BY FunctionFacts DEF TypeOK, Ended
  <2>. QED BY <2>1, VregAssumption, FS_Subset
<1>. HIDE DEF S
<1>2. PICK n \in Nat : DOMAIN SetToSeq(S) = 1..n /\ \A i \in 1..n : SetToSeq(S)[i] \in S
  BY <1>1, Listing
<1>3. \A w \in S : alloc[w].off \in Nat /\ Slot(w) \in Nat
  <2>1. \A w \in S : alloc[w] \in [loc : {"ax", "zp", "frame"}, off : Nat]
    BY <1>1 DEF TypeOK
  <2>. QED BY <1>1, <2>1, FunctionFacts DEF Slot, IsArray
<1>. DEFINE ended == [i \in 1..n |-> [off |-> alloc[SetToSeq(S)[i]].off, size |-> Slot(SetToSeq(S)[i])]]
<1>4. \A i \in 1..n : [off |-> alloc[SetToSeq(S)[i]].off, size |-> Slot(SetToSeq(S)[i])] \in Holes
  BY <1>2, <1>3 DEF Holes
<1>5. ended \in Seq(Holes)
  BY <1>4
<1>6. SlotsLeft(v) = freeFrameSlots \o ended
  BY <1>2 DEF SlotsLeft, S
<1>7. freeFrameSlots \in Seq(Holes)
  BY DEF TypeOK, Holes
<1>. HIDE DEF ended
<1>. QED BY <1>5, <1>6, <1>7

\* The places the analysis deals in, apart from its loops.
Shaped ==
    /\ frameSize \in Nat
    /\ DOMAIN alloc \subseteq Ranged
    /\ \A v \in DOMAIN alloc : alloc[v] \in [loc : {"ax", "zp", "frame"}, off : Nat]
    /\ zpUsed \subseteq 0..(ZpBytes - 1)
    /\ zpActive \subseteq DOMAIN alloc /\ frameActive \subseteq DOMAIN alloc
    /\ freeFrameSlots \in Seq(Holes) /\ overfull \in BOOLEAN

LEMMA PlacingShaped ==
    ASSUME fn \in Function, TypeOK, fn' = fn, NEW v \in Ranged,
           NEW loc \in {"ax", "zp", "frame"}, NEW off \in Nat, alloc' = Place(v, loc, off),
           zpActive' \subseteq zpActive \cup {v}, frameActive' \subseteq frameActive \cup {v},
           zpUsed' \subseteq 0..(ZpBytes - 1), frameSize' \in Nat,
           freeFrameSlots' \in Seq(Holes), overfull' \in BOOLEAN
    PROVE  Shaped'
<1>1. DOMAIN alloc' = DOMAIN alloc \cup {v} /\ DOMAIN alloc \subseteq Ranged
  BY DEF Place, TypeOK
<1>2. \A w \in DOMAIN alloc' : alloc'[w] \in [loc : {"ax", "zp", "frame"}, off : Nat]
  BY <1>1 DEF Place, TypeOK
<1>. QED BY <1>1, <1>2, Static DEF Shaped, TypeOK

LEMMA VisitsShaped ==
    ASSUME fn \in Function, TypeOK, NEW v \in todo,
           PlaceInMemory(v) \/ PlaceInAX(v) \/ PlaceInZp(v) \/ PlaceInFrame(v)
    PROVE  Shaped'
<1>1. fn' = fn /\ v \in Ranged /\ v \in Vreg
  BY FunctionFacts DEF TypeOK, Visit, PlaceInMemory, PlaceInAX, PlaceInZp, PlaceInFrame
<1>2. Slot(v) \in Nat /\ fn.width[v] \in {2, 4}
  BY <1>1, FunctionFacts DEF Slot, IsArray
<1>3. SlotsLeft(v) \in Seq(Holes) /\ frameSize \in Nat /\ overfull \in BOOLEAN
  BY LeftHoles DEF TypeOK
<1>4. /\ OffsetOf(SlotsLeft(v), Slot(v)) \in Nat /\ SizeAfter(SlotsLeft(v), Slot(v)) \in Nat
      /\ SlotsAfter(SlotsLeft(v), Slot(v)) \in Seq(Holes)
  BY <1>2, <1>3, HoleFacts
<1>5. ZpLeft(v) \subseteq 0..(ZpBytes - 1) /\ Ended(v, zpActive) \subseteq zpActive
  BY DEF ZpLeft, TypeOK, Ended
<1>6. CASE PlaceInMemory(v)
  <2>1. /\ alloc' = Place(v, "frame", OffsetOf(SlotsLeft(v), Slot(v)))
        /\ zpActive' \subseteq zpActive \cup {v} /\ frameActive' \subseteq frameActive \cup {v}
        /\ zpUsed' = ZpLeft(v) /\ frameSize' = SizeAfter(SlotsLeft(v), Slot(v))
        /\ freeFrameSlots' = SlotsAfter(SlotsLeft(v), Slot(v)) /\ overfull' = overfull
    BY <1>6 DEF PlaceInMemory
  <2>. QED BY <1>1, <1>3, <1>4, <1>5, <2>1, PlacingShaped
<1>7. CASE PlaceInAX(v)
  <2>1. /\ alloc' = Place(v, "ax", 0)
        /\ zpActive' \subseteq zpActive \cup {v} /\ frameActive' \subseteq frameActive \cup {v}
        /\ zpUsed' = ZpLeft(v) /\ frameSize' = frameSize
        /\ freeFrameSlots' = SlotsLeft(v) /\ overfull' = overfull
    BY <1>7 DEF PlaceInAX
  <2>. QED BY <1>1, <1>3, <1>5, <2>1, PlacingShaped
<1>8. CASE PlaceInZp(v)
  <2>. DEFINE i == LeastOf(ZpFit(v))
  <2>1. i \in ZpFit(v)
    <3>1. ZpFit(v) \in SUBSET Nat /\ ZpFit(v) # {}
      BY <1>8 DEF ZpFit, PlaceInZp
    <3>. QED BY <3>1, Least
  <2>2. i \in Nat /\ Bytes(i, fn.width[v]) \subseteq 0..(ZpBytes - 1)
    <3>1. i \in 0..(ZpBytes - fn.width[v])
      BY <2>1 DEF ZpFit
    <3>. HIDE DEF i
    <3>2. PICK w \in {2, 4} : w = fn.width[v]
      BY <1>2
    <3>3. i \in 0..(ZpBytes - w)
      BY <3>1, <3>2
    <3>4. i \in Nat /\ i..(i + w - 1) \subseteq 0..(ZpBytes - 1)
      BY <3>3, BoundsAssumption
    <3>. QED BY <3>2, <3>4 DEF Bytes
  <2>3. /\ alloc' = Place(v, "zp", i)
        /\ zpActive' \subseteq zpActive \cup {v} /\ frameActive' \subseteq frameActive \cup {v}
        /\ zpUsed' = ZpLeft(v) \cup Bytes(i, fn.width[v]) /\ frameSize' = frameSize
        /\ freeFrameSlots' = SlotsLeft(v) /\ overfull' = overfull
    BY <1>8 DEF PlaceInZp
  <2>. HIDE DEF i
  <2>. QED BY <1>1, <1>3, <1>5, <2>2, <2>3, PlacingShaped
<1>9. CASE PlaceInFrame(v)
  <2>1. /\ zpActive' \subseteq zpActive \cup {v} /\ frameActive' \subseteq frameActive \cup {v}
        /\ zpUsed' = ZpLeft(v)
    BY <1>9 DEF PlaceInFrame
  <2>2. CASE Offsets(v) # {}
    <3>1. LeastOf(Offsets(v)) \in Nat
      <4>1. Offsets(v) \in SUBSET Nat
        BY BoundsAssumption DEF Offsets
      <4>. QED BY <2>2, <4>1, Least
    <3>2. /\ alloc' = Place(v, "frame", LeastOf(Offsets(v)))
          /\ frameSize' = frameSize /\ freeFrameSlots' = SlotsLeft(v) /\ overfull' = overfull
      BY <1>9, <2>2 DEF PlaceInFrame
    <3>. QED BY <1>1, <1>3, <1>5, <2>1, <3>1, <3>2, PlacingShaped
  <2>3. CASE Offsets(v) = {}
    <3>1. /\ alloc' = Place(v, "frame", OffsetOf(SlotsLeft(v), Slot(v)))
          /\ frameSize' = SizeAfter(SlotsLeft(v), Slot(v))
          /\ freeFrameSlots' = SlotsAfter(SlotsLeft(v), Slot(v)) /\ overfull' = TRUE
      BY <1>9, <2>3 DEF PlaceInFrame
    <3>. QED BY <1>1, <1>3, <1>4, <1>5, <2>1, <3>1, PlacingShaped
  <2>. QED BY <2>2, <2>3
<1>. QED BY <1>6, <1>7, <1>8, <1>9

LEMMA StoredTyped ==
    ASSUME NEW m, \A c \in DOMAIN m : m[c] \in Vreg \cup {None}, NEW S \in SUBSET Vreg
    PROVE  \A c \in DOMAIN Stored(m, S) : Stored(m, S)[c] \in Vreg \cup {None}
BY DEF Stored

LEMMA AssignTyped ==
    ASSUME fn \in Function, TypeOK, UNCHANGED <<analysis, phase>>, pc \in Code,
           NEW m, \A c \in DOMAIN m : m[c] \in Vreg \cup {None}, Assign(fn.code[pc].def, m)
    PROVE  TypeOK'
<1>1. fn.code[pc].def \in SUBSET Vreg
  BY FunctionFacts DEF Inst
<1>. DEFINE def == fn.code[pc].def
<1>2. mem' = Stored(m, def) /\ assigned' = assigned \cup def /\ pc' = pc + 1
      /\ ax' = IF def # {} THEN CHOOSE v \in def : TRUE
               ELSE IF fn.code[pc].src \subseteq {ax} THEN ax ELSE None
  BY DEF Assign
<1>. HIDE DEF def
<1>3. ax' \in Vreg \cup {None}
  BY <1>1, <1>2 DEF TypeOK, def
<1>4. \A c \in DOMAIN mem' : mem'[c] \in Vreg \cup {None}
  BY <1>1, <1>2, StoredTyped DEF def
<1>5. assigned' \subseteq Vreg /\ pc' \in Nat
  BY <1>1, <1>2 DEF TypeOK, def
<1>6. UNCHANGED <<fn, phase, k, last, todo, alloc, zpUsed, zpActive, frameActive, freeFrameSlots,
                  frameSize, overfull>>
  BY DEF analysis
<1>. QED BY <1>3, <1>4, <1>5, <1>6, Static DEF TypeOK

LEMMA InitTyped == Init => TypeOK
<1>. SUFFICES ASSUME Init PROVE TypeOK
  OBVIOUS
<1>1. /\ fn \in Function /\ last = [v \in Ranged |-> LastMention(v)] /\ k = 1 /\ phase = "loops"
      /\ todo = Ranged /\ DOMAIN alloc = {} /\ zpUsed = {} /\ zpActive = {} /\ frameActive = {}
      /\ freeFrameSlots = <<>> /\ frameSize = 0 /\ overfull = FALSE
      /\ pc = 0 /\ DOMAIN mem = {} /\ ax = None /\ assigned = {}
  BY DEF Init, Unset
<1>2. \A v \in Ranged : LastMention(v) \in Code
  BY <1>1, RangeFacts
<1>3. last \in [Ranged -> Code]
  BY <1>1, <1>2
<1>4. k \in Nat /\ pc \in Nat /\ frameSize \in Nat /\ overfull \in BOOLEAN
      /\ phase \in {"loops", "locals", "temporaries", "run", "returned"}
  BY <1>1
<1>5. freeFrameSlots \in Seq([off : Nat, size : Nat])
  BY <1>1
<1>6. /\ todo \subseteq Ranged /\ DOMAIN alloc \subseteq Ranged /\ zpUsed \subseteq 0..(ZpBytes - 1)
      /\ zpActive \subseteq DOMAIN alloc /\ frameActive \subseteq DOMAIN alloc
      /\ ax \in Vreg \cup {None} /\ assigned \subseteq Vreg
  BY <1>1
<1>7. /\ \A v \in DOMAIN alloc : alloc[v] \in [loc : {"ax", "zp", "frame"}, off : Nat]
      /\ \A c \in DOMAIN mem : mem[c] \in Vreg \cup {None}
  BY <1>1
<1>. QED BY <1>1, <1>3, <1>4, <1>5, <1>6, <1>7 DEF TypeOK

LEMMA NextTyped == TypeOK /\ [Next]_vars => TypeOK'
<1>. SUFFICES ASSUME TypeOK, [Next]_vars PROVE TypeOK'
  OBVIOUS
<1>1. fn \in Function
  BY DEF TypeOK
<1>2. Shaped
  BY DEF TypeOK, Shaped, Holes
<1>3. ASSUME fn' = fn, phase' \in {"loops", "locals", "temporaries", "run", "returned"},
             k' \in Nat, last' \in [Ranged -> Code], todo' \subseteq todo, Shaped',
             UNCHANGED <<pc, mem, ax, assigned>>
      PROVE  TypeOK'
  BY <1>3, Static DEF TypeOK, Shaped, Holes
<1>4. CASE ExtendOverLoop
  <2>1. /\ fn' = fn /\ phase' = phase /\ k \in Code /\ k' = k + 1 /\ todo' = todo
        /\ last' = [v \in Ranged |-> Extended(k, v)]
        /\ UNCHANGED <<alloc, zpUsed, zpActive, frameActive, freeFrameSlots, frameSize, overfull>>
        /\ UNCHANGED <<pc, mem, ax, assigned>>
    BY <1>4 DEF ExtendOverLoop
  <2>2. BlockEnd(fn.code[k].block) \in Code
    BY <1>1, <2>1, BlockFacts
  <2>3. \A v \in Ranged : Extended(k, v) \in Code
    BY <2>2 DEF Extended, TypeOK
  <2>4. last' \in [Ranged -> Code]
    BY <2>1, <2>3
  <2>5. Shaped'
    BY <1>2, <2>1, Static DEF Shaped
  <2>. QED BY <1>3, <2>1, <2>4, <2>5 DEF TypeOK
<1>5. CASE EndLoops
  <2>1. Shaped'
    BY <1>2, <1>5, Static DEF Shaped, EndLoops
  <2>. QED BY <1>3, <1>5, <2>1 DEF EndLoops, TypeOK
<1>6. CASE PlaceLocal
  <2>. DEFINE v == fn.order[k]
  <2>1. /\ fn' = fn /\ phase' = phase /\ last' = last /\ todo' = todo /\ k' = k + 1
        /\ UNCHANGED <<pc, mem, ax, assigned>> /\ UNCHANGED <<zpUsed, zpActive, overfull>>
        /\ k \in DOMAIN fn.order
    BY <1>6 DEF PlaceLocal
  <2>2. v \in Ranged /\ v \in Vreg
    BY <1>1, <2>1, FunctionFacts
  <2>3. Shaped'
    <3>1. CASE v \in fn.register
      <4>1. UNCHANGED <<alloc, frameActive, freeFrameSlots, frameSize>>
        BY <1>6, <3>1 DEF PlaceLocal
      <4>. QED BY <1>2, <2>1, <4>1, Static DEF Shaped
    <3>2. CASE v \notin fn.register
      <4>1. /\ alloc' = Place(v, "frame", OffsetOf(freeFrameSlots, Slot(v)))
            /\ freeFrameSlots' = SlotsAfter(freeFrameSlots, Slot(v))
            /\ frameSize' = SizeAfter(freeFrameSlots, Slot(v))
            /\ frameActive' = frameActive \cup {v}
        BY <1>6, <3>2 DEF PlaceLocal
      <4>. HIDE DEF v
      <4>2. Slot(v) \in Nat
        BY <1>1, <2>2, FunctionFacts DEF Slot, IsArray
      <4>3. /\ OffsetOf(freeFrameSlots, Slot(v)) \in Nat /\ SizeAfter(freeFrameSlots, Slot(v)) \in Nat
            /\ SlotsAfter(freeFrameSlots, Slot(v)) \in Seq(Holes)
        BY <1>2, <4>2, HoleFacts DEF Shaped
      <4>4. zpUsed \subseteq 0..(ZpBytes - 1) /\ overfull \in BOOLEAN
        BY <1>2 DEF Shaped
      <4>. QED BY <1>1, <2>1, <2>2, <4>1, <4>3, <4>4, PlacingShaped
    <3>. QED BY <3>1, <3>2
  <2>. QED BY <1>3, <2>1, <2>3 DEF TypeOK
<1>7. CASE EndLocals
  <2>1. UNCHANGED <<fn, k, last, todo, alloc, zpUsed, zpActive, frameActive, freeFrameSlots,
                    frameSize, overfull>>
    BY <1>7 DEF EndLocals, analysis
  <2>2. Shaped'
    BY <1>2, <2>1, Static DEF Shaped
  <2>. QED BY <1>3, <1>7, <2>1, <2>2 DEF EndLocals, TypeOK
<1>8. ASSUME NEW v \in todo, Skip(v) PROVE TypeOK'
  <2>1. Shaped'
    BY <1>2, <1>8, Static DEF Shaped, Skip
  <2>. QED BY <1>3, <1>8, <2>1 DEF Skip, TypeOK
<1>9. ASSUME NEW v \in todo,
             PlaceInMemory(v) \/ PlaceInAX(v) \/ PlaceInZp(v) \/ PlaceInFrame(v)
      PROVE  TypeOK'
  <2>1. Shaped'
    BY <1>1, <1>9, VisitsShaped
  <2>2. Visit(v)
    BY <1>9 DEF PlaceInMemory, PlaceInAX, PlaceInZp, PlaceInFrame
  <2>. QED BY <1>3, <2>1, <2>2 DEF Visit, TypeOK
<1>10. CASE Enter
  <2>1. /\ phase' = "run" /\ pc' = 1 /\ assigned' = fn.params /\ ax' = ax
        /\ mem' = Stored([c \in UNION {Cells(v) : v \in DOMAIN alloc} |-> None], fn.params)
        /\ UNCHANGED <<fn, k, last, todo, alloc, zpUsed, zpActive, frameActive, freeFrameSlots,
                       frameSize, overfull>>
    BY <1>10 DEF Enter, analysis
  <2>2. fn.params \in SUBSET Vreg
    BY <1>1, FunctionFacts
  <2>3. \A c \in DOMAIN mem' : mem'[c] \in Vreg \cup {None}
    BY <2>1, <2>2, StoredTyped
  <2>4. assigned' \subseteq Vreg /\ ax' \in Vreg \cup {None} /\ pc' \in Nat
    BY <2>1, <2>2 DEF TypeOK
  <2>. QED BY <2>1, <2>3, <2>4, Static DEF TypeOK
<1>11. CASE Compute
  <2>1. \A c \in DOMAIN mem : mem[c] \in Vreg \cup {None}
    BY DEF TypeOK
  <2>. QED BY <1>1, <1>11, <2>1, AssignTyped DEF Compute, Running
<1>12. CASE Call
  <2>. DEFINE m == [c \in DOMAIN mem |-> IF c[1] = "zp" THEN None ELSE mem[c]]
  <2>1. \A c \in DOMAIN m : m[c] \in Vreg \cup {None}
    BY DEF TypeOK
  <2>2. UNCHANGED <<analysis, phase>> /\ pc \in Code /\ Assign(fn.code[pc].def, m)
    BY <1>12 DEF Call, Running
  <2>. HIDE DEF m
  <2>. QED BY <1>1, <2>1, <2>2, AssignTyped
<1>13. CASE Branch
  <2>1. PICK b \in fn.code[pc].to : Nonempty(b) /\ pc' = BlockStart(b)
    BY <1>13 DEF Branch
  <2>2. pc \in Code /\ assigned' \subseteq assigned
        /\ UNCHANGED <<fn, k, last, todo, alloc, zpUsed, zpActive, frameActive, freeFrameSlots,
                       frameSize, overfull, phase, mem, ax>>
    BY <1>13 DEF Branch, Running, analysis
  <2>3. pc' \in Nat
    BY <1>1, <2>1, <2>2, BlockFacts, FunctionFacts
  <2>. QED BY <2>2, <2>3, Static DEF TypeOK
<1>14. CASE Return \/ Terminated \/ UNCHANGED vars
  <2>1. UNCHANGED <<fn, k, last, todo, alloc, zpUsed, zpActive, frameActive, freeFrameSlots,
                    frameSize, overfull, pc, mem, ax, assigned>>
        /\ phase' \in {phase, "returned"}
    BY <1>14 DEF Return, Terminated, vars, analysis
  <2>. QED BY <2>1, Static DEF TypeOK
<1>. QED BY <1>4, <1>5, <1>6, <1>7, <1>8, <1>9, <1>10, <1>11, <1>12, <1>13, <1>14 DEF Next

\* The allocator's tables keep their shape for arrays, memory temporaries and a frame that is
\* used up as well: a pool byte is never outside the pool, a free slot has an offset and a
\* size, an active register a place.
THEOREM TypeCorrect == Spec => []TypeOK
BY InitTyped, NextTyped, PTL DEF Spec
=============================================================================
