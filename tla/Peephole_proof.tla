--------------------------- MODULE Peephole_proof ---------------------------
(***************************************************************************)
(* The optimiser's knowledge is true, whatever the program, the cells and the *)
(* registers, as long as the program keeps to the statements the pass         *)
(* accounts for.                                                              *)
(***************************************************************************)
EXTENDS Peephole, TLAPS

\* Programs the pass accounts for: an operand that starts with a number is that number,
\* no cell of the base page is modified in absolute mode, every label is a barrier,
\* procedures with declared attributes and simulated operations leave the tracked memory
\* alone, only A is pulled, stores of unknown address miss the tracked cells, and an
\* instruction without a case changes nothing tracked.
AccountedFor ==
    /\ \A i \in Immediates : i.is = i.read
    /\ \A o \in Operands : o.is = o.read
    /\ \A o \in Modified : o.mode = "absolute" => o.read \in Absolute
    /\ LabelKinds \subseteq {"barrier"}
    /\ \A p \in Procs : p.writes = {}
    /\ \A effect \in Simulated : effect.mem = FALSE
    /\ Pulled \subseteq {"A"}
    /\ Aliased = {}
    /\ \A u \in Unlisted : u.clobbers = {} /\ u.nz = FALSE

\* A register is said to share its value with base-page cells only, and a cell with
\* registers only.
Shape(k) ==
    /\ k \in Knowledge
    /\ \A r \in Register, a \in Address : k.reg[r] = SameAsMem(a) => a \in ZeroPage
    /\ \A a, b \in Address : k.mem[a] # SameAsMem(b)

\* The inductive invariant.
IInv == TypeOK /\ Shape(known) /\ Sound(known, opt)

-----------------------------------------------------------------------------
\* The kinds of fact are distinct.
LEMMA FactKinds ==
    ASSUME NEW x, NEW y
    PROVE  /\ Unknown # Constant(x) /\ Unknown # SameAs(x) /\ Unknown # SameAsMem(x)
           /\ Constant(x) # SameAs(y) /\ Constant(x) # SameAsMem(y) /\ SameAs(x) # SameAsMem(y)
           /\ Constant(x) = Constant(y) => x = y
           /\ SameAs(x) = SameAs(y) => x = y
           /\ SameAsMem(x) = SameAsMem(y) => x = y
           /\ IsConst(Constant(x)) /\ ~IsConst(Unknown) /\ ~IsConst(SameAs(x)) /\ ~IsConst(SameAsMem(x))
  BY DEF Unknown, Constant, SameAs, SameAsMem, IsConst

LEMMA FactCases ==
    ASSUME NEW f \in Fact
    PROVE  \/ f = Unknown
           \/ \E v \in Byte : f = Constant(v)
           \/ \E r \in Register : f = SameAs(r)
           \/ \E a \in Address : f = SameAsMem(a)
  BY DEF Fact

LEMMA IsFact ==
    /\ Unknown \in Fact
    /\ \A v \in Byte : Constant(v) \in Fact
    /\ \A r \in Register : SameAs(r) \in Fact
    /\ \A a \in Address : SameAsMem(a) \in Fact
  BY DEF Fact

LEMMA UnknownHolds == ASSUME NEW x, NEW m PROVE Holds(Unknown, x, m)
  BY FactKinds DEF Holds

LEMMA ConstantFact ==
    ASSUME NEW f \in Fact, IsConst(f)
    PROVE  \E v \in Byte : f = Constant(v)
  BY FactCases, FactKinds, ZenonT(30)

-----------------------------------------------------------------------------
\* Forgetting the mirrors of registers that change leaves what is true of the others.
LEMMA MirrorsFields ==
    ASSUME NEW k, Shape(k), NEW R
    PROVE  /\ Shape(InvalidateMirrorsOf(k, R))
           /\ InvalidateMirrorsOf(k, R).nz = k.nz
           /\ \A s \in Register : \/ InvalidateMirrorsOf(k, R).reg[s] = Unknown
                                  \/ /\ InvalidateMirrorsOf(k, R).reg[s] = k.reg[s]
                                     /\ \A r \in R : k.reg[s] # SameAs(r)
           /\ \A a \in Address : \/ InvalidateMirrorsOf(k, R).mem[a] = Unknown
                                 \/ /\ InvalidateMirrorsOf(k, R).mem[a] = k.mem[a]
                                    /\ \A r \in R : k.mem[a] # SameAs(r)
<1> DEFINE j == InvalidateMirrorsOf(k, R)
           Kept(f) == IF \E r \in R : f = SameAs(r) THEN Unknown ELSE f
<1>0. k \in Knowledge
  BY DEF Shape
<1>1. j = [reg |-> [s \in Register |-> Kept(k.reg[s])],
           mem |-> [a \in Address |-> Kept(k.mem[a])], nz |-> k.nz]
  BY DEF InvalidateMirrorsOf
<1> HIDE DEF j
<1>2. \A s \in Register : \/ j.reg[s] = Unknown
                          \/ j.reg[s] = k.reg[s] /\ \A r \in R : k.reg[s] # SameAs(r)
  BY <1>1
<1>3. \A a \in Address : \/ j.mem[a] = Unknown
                         \/ j.mem[a] = k.mem[a] /\ \A r \in R : k.mem[a] # SameAs(r)
  BY <1>1
<1>4. j.reg \in [Register -> Fact] /\ j.mem \in [Address -> Fact]
  BY <1>0, <1>1, IsFact DEF Knowledge
<1>5. j \in Knowledge
  BY <1>0, <1>1, <1>4 DEF Knowledge
<1>6. Shape(j)
  BY <1>2, <1>3, <1>5, FactKinds DEF Shape
<1> QED
  BY <1>1, <1>2, <1>3, <1>6 DEF j

\* What is true of a value stays true when registers change that the fact does not name.
LEMMA HoldsElsewhere ==
    ASSUME NEW f, NEW x, NEW m, NEW n, NEW R, Holds(f, x, m),
           \A r \in Register \ R : n.reg[r] = m.reg[r],
           \A a \in Address : n.mem[a] = m.mem[a],
           \A r \in R : f # SameAs(r)
    PROVE  Holds(f, x, n)
  BY DEF Holds

LEMMA MirrorsSound ==
    ASSUME NEW k, Shape(k), NEW R, NEW m, NEW n, Sound(k, m),
           \A r \in Register \ R : n.reg[r] = m.reg[r],
           \A a \in Address : n.mem[a] = m.mem[a]
    PROVE  /\ \A s \in Register \ R : Holds(InvalidateMirrorsOf(k, R).reg[s], n.reg[s], n)
           /\ \A a \in Address : Holds(InvalidateMirrorsOf(k, R).mem[a], n.mem[a], n)
<1> DEFINE j == InvalidateMirrorsOf(k, R)
<1>1. ASSUME NEW s \in Register \ R PROVE Holds(j.reg[s], n.reg[s], n)
  <2>1. CASE j.reg[s] = Unknown
    BY <2>1, UnknownHolds
  <2>2. CASE j.reg[s] = k.reg[s] /\ \A r \in R : k.reg[s] # SameAs(r)
    <3>1. Holds(k.reg[s], n.reg[s], m)
      BY DEF Sound
    <3> QED
      BY <2>2, <3>1, HoldsElsewhere
  <2> QED
    BY <2>1, <2>2, MirrorsFields
<1>2. ASSUME NEW a \in Address PROVE Holds(j.mem[a], n.mem[a], n)
  <2>1. CASE j.mem[a] = Unknown
    BY <2>1, UnknownHolds
  <2>2. CASE j.mem[a] = k.mem[a] /\ \A r \in R : k.mem[a] # SameAs(r)
    <3>1. Holds(k.mem[a], n.mem[a], m)
      BY DEF Sound
    <3> QED
      BY <2>2, <3>1, HoldsElsewhere
  <2> QED
    BY <2>1, <2>2, MirrorsFields
<1> QED
  BY <1>1, <1>2

-----------------------------------------------------------------------------
\* Each method of MachineState keeps the knowledge sound when the machine changes the
\* way the method is told: m is the machine before, n the machine after.

LEMMA InitialKnowledge == ASSUME NEW m PROVE Shape(Nothing) /\ Sound(Nothing, m)
<1>1. Nothing \in Knowledge
  BY IsFact DEF Nothing, Knowledge
<1>2. Shape(Nothing)
  BY <1>1, FactKinds DEF Nothing, Shape
<1>3. Sound(Nothing, m)
  BY UnknownHolds DEF Nothing, Sound
<1> QED
  BY <1>2, <1>3

LEMMA SetRegSound ==
    ASSUME NEW k, Shape(k), NEW m, Sound(k, m), NEW n, NEW r \in Register, NEW f \in Fact,
           \A s \in Register \ {r} : n.reg[s] = m.reg[s],
           \A a \in Address : n.mem[a] = m.mem[a],
           n.nz = n.reg[r],
           Holds(f, n.reg[r], n),
           \A a \in Address : f = SameAsMem(a) => a \in ZeroPage
    PROVE  Shape(SetReg(k, r, f)) /\ Sound(SetReg(k, r, f), n)
<1> DEFINE j == InvalidateMirrorsOf(k, {r})
           h == SetReg(k, r, f)
<1>1. Shape(j)
  BY MirrorsFields
<1>2. h = [reg |-> [j.reg EXCEPT ![r] = f], mem |-> j.mem, nz |-> r]
  BY DEF SetReg
<1>3. j \in Knowledge
  BY <1>1 DEF Shape
<1>4. /\ \A s \in Register \ {r} : Holds(j.reg[s], n.reg[s], n)
      /\ \A a \in Address : Holds(j.mem[a], n.mem[a], n)
  BY MirrorsSound
<1> HIDE DEF j, h
<1>5. /\ h.reg = [j.reg EXCEPT ![r] = f] /\ h.mem = j.mem /\ h.nz = r
      /\ j.reg \in [Register -> Fact] /\ j.mem \in [Address -> Fact]
  BY <1>2, <1>3 DEF Knowledge
<1>6. h \in Knowledge
  BY <1>2, <1>5 DEF Knowledge
<1>7. /\ \A s \in Register \ {r} : h.reg[s] = j.reg[s]
      /\ h.reg[r] = f
  BY <1>5
<1>8. Shape(h)
  BY <1>1, <1>5, <1>6, <1>7 DEF Shape
<1>9. Sound(h, n)
  <2>1. \A s \in Register : Holds(h.reg[s], n.reg[s], n)
    BY <1>4, <1>7
  <2>2. \A a \in Address : Holds(h.mem[a], n.mem[a], n)
    BY <1>4, <1>5
  <2> QED
    BY <1>5, <2>1, <2>2 DEF Sound
<1> QED
  BY <1>8, <1>9 DEF h

LEMMA SetConstSound ==
    ASSUME NEW k, Shape(k), NEW m, Sound(k, m), NEW n, NEW r \in Register, NEW v \in Byte,
           \A s \in Register \ {r} : n.reg[s] = m.reg[s],
           \A a \in Address : n.mem[a] = m.mem[a],
           n.reg[r] = v, n.nz = v
    PROVE  Shape(SetConst(k, r, v)) /\ Sound(SetConst(k, r, v), n)
<1>1. Constant(v) \in Fact /\ \A a \in Address : Constant(v) # SameAsMem(a)
  BY IsFact, FactKinds
<1>2. Holds(Constant(v), v, n)
  BY FactKinds DEF Holds
<1> QED
  BY <1>1, <1>2, SetRegSound DEF SetConst

LEMMA SetLoadedSound ==
    ASSUME NEW k, Shape(k), NEW m, Sound(k, m), NEW n, NEW r \in Register,
           \A s \in Register \ {r} : n.reg[s] = m.reg[s],
           \A a \in Address : n.mem[a] = m.mem[a],
           n.nz = n.reg[r]
    PROVE  Shape(SetLoaded(k, r)) /\ Sound(SetLoaded(k, r), n)
<1>1. Unknown \in Fact /\ \A a \in Address : Unknown # SameAsMem(a)
  BY IsFact, FactKinds
<1>2. Holds(Unknown, n.reg[r], n)
  BY UnknownHolds
<1> QED
  BY <1>1, <1>2, SetRegSound DEF SetLoaded

\* A constant known of what is copied is true of the copy.
LEMMA ConstantCopied ==
    ASSUME NEW f \in Fact, IsConst(f), NEW x, NEW m, NEW n, Holds(f, x, m)
    PROVE  Holds(f, x, n)
<1>1. PICK v \in Byte : f = Constant(v)
  BY ConstantFact
<1> QED
  BY <1>1, FactKinds DEF Holds

LEMMA SetTransferSound ==
    ASSUME NEW k, Shape(k), NEW m, Sound(k, m), NEW n,
           NEW d \in Register, NEW s \in Register, s # d,
           \A r \in Register \ {d} : n.reg[r] = m.reg[r],
           \A a \in Address : n.mem[a] = m.mem[a],
           n.reg[d] = m.reg[s], n.nz = m.reg[s]
    PROVE  Shape(SetTransfer(k, d, s)) /\ Sound(SetTransfer(k, d, s), n)
<1> DEFINE source == InvalidateMirrorsOf(k, {d}).reg[s]
           f == IF IsConst(source) THEN source ELSE SameAs(s)
<1>1. source \in Fact
  BY MirrorsFields DEF Shape, Knowledge
<1>2. n.reg[d] = n.reg[s]
  OBVIOUS
<1>3. Holds(source, n.reg[s], n)
  BY MirrorsSound
<1>4. Holds(SameAs(s), n.reg[s], n)
  BY FactKinds DEF Holds
<1> HIDE DEF source
<1>5. f \in Fact /\ \A a \in Address : f # SameAsMem(a)
  BY <1>1, IsFact, FactKinds
<1>6. Holds(f, n.reg[d], n)
  BY <1>2, <1>3, <1>4
<1>7. SetTransfer(k, d, s) = SetReg(k, d, f)
  BY DEF SetTransfer, source
<1> HIDE DEF f
<1> QED
  BY <1>2, <1>5, <1>6, <1>7, SetRegSound

LEMMA SetRegFromZPSound ==
    ASSUME NEW k, Shape(k), NEW m, Sound(k, m), NEW n, NEW r \in Register, NEW z \in ZeroPage,
           \A s \in Register \ {r} : n.reg[s] = m.reg[s],
           \A a \in Address : n.mem[a] = m.mem[a],
           n.reg[r] = m.mem[z], n.nz = m.mem[z]
    PROVE  Shape(SetRegFromZP(k, r, z)) /\ Sound(SetRegFromZP(k, r, z), n)
<1> DEFINE source == InvalidateMirrorsOf(k, {r}).mem[z]
           f == IF IsConst(source) THEN source ELSE SameAsMem(z)
<1>0. z \in Address
  BY DEF Address
<1>1. source \in Fact
  BY <1>0, MirrorsFields DEF Shape, Knowledge
<1>2. n.reg[r] = n.mem[z]
  BY <1>0
<1>3. Holds(source, n.mem[z], n)
  BY <1>0, MirrorsSound
<1>4. Holds(SameAsMem(z), n.mem[z], n)
  BY FactKinds DEF Holds
<1> HIDE DEF source
<1>5. f \in Fact /\ \A a \in Address : f = SameAsMem(a) => a \in ZeroPage
  BY <1>0, <1>1, IsFact, FactKinds
<1>6. Holds(f, n.reg[r], n)
  BY <1>2, <1>3, <1>4
<1>7. SetRegFromZP(k, r, z) = SetReg(k, r, f)
  BY DEF SetRegFromZP, source
<1> HIDE DEF f
<1> QED
  BY <1>2, <1>5, <1>6, <1>7, SetRegSound

LEMMA InvalidateRegsSound ==
    ASSUME NEW k, Shape(k), NEW m, Sound(k, m), NEW n, NEW R,
           \A s \in Register \ R : n.reg[s] = m.reg[s],
           \A a \in Address : n.mem[a] = m.mem[a],
           n.nz = m.nz
    PROVE  Shape(InvalidateRegs(k, R)) /\ Sound(InvalidateRegs(k, R), n)
<1> DEFINE j == InvalidateMirrorsOf(k, R)
           h == InvalidateRegs(k, R)
<1>1. Shape(j)
  BY MirrorsFields
<1>2. /\ h = [reg |-> [r \in Register |-> IF r \in R THEN Unknown ELSE j.reg[r]], mem |-> j.mem,
              nz |-> IF k.nz \in R THEN "none" ELSE k.nz]
      /\ k \in Knowledge
  BY DEF InvalidateRegs, Shape
<1>3. j \in Knowledge
  BY <1>1 DEF Shape
<1>4. /\ \A s \in Register \ R : Holds(j.reg[s], n.reg[s], n)
      /\ \A a \in Address : Holds(j.mem[a], n.mem[a], n)
  BY MirrorsSound
<1> HIDE DEF j, h
<1>5. /\ h.mem = j.mem /\ h.nz = (IF k.nz \in R THEN "none" ELSE k.nz)
      /\ \A s \in Register \ R : h.reg[s] = j.reg[s]
      /\ \A s \in Register \cap R : h.reg[s] = Unknown
      /\ h.reg \in [Register -> Fact] /\ h.mem \in [Address -> Fact]
  BY <1>2, <1>3, IsFact DEF Knowledge
<1>6. h.nz \in Register \cup {"none"}
  BY <1>2, <1>5 DEF Knowledge
<1>7. h \in Knowledge
  BY <1>2, <1>5, <1>6 DEF Knowledge
<1>8. Shape(h)
  BY <1>1, <1>5, <1>7, FactKinds DEF Shape
<1>9. Sound(h, n)
  <2>1. \A s \in Register : Holds(h.reg[s], n.reg[s], n)
    BY <1>4, <1>5, UnknownHolds
  <2>2. \A a \in Address : Holds(h.mem[a], n.mem[a], n)
    BY <1>4, <1>5
  <2>3. h.nz = "A" => n.nz = n.reg["A"]
    BY <1>5, RegisterAssumption DEF Sound
  <2> QED
    BY <2>1, <2>2, <2>3 DEF Sound
<1> QED
  BY <1>8, <1>9 DEF h

LEMMA InvalidateFlagsSound ==
    ASSUME NEW k, Shape(k), NEW m, Sound(k, m), NEW n,
           \A s \in Register : n.reg[s] = m.reg[s],
           \A a \in Address : n.mem[a] = m.mem[a]
    PROVE  Shape(InvalidateFlags(k)) /\ Sound(InvalidateFlags(k), n)
<1> DEFINE h == InvalidateFlags(k)
<1>1. h.reg = k.reg /\ h.mem = k.mem /\ h.nz = "none"
  BY DEF InvalidateFlags
<1>2. h \in Knowledge
  BY DEF InvalidateFlags, Shape, Knowledge
<1> HIDE DEF h
<1>3. Shape(h)
  BY <1>1, <1>2 DEF Shape
<1>4. Sound(h, n)
  BY <1>1 DEF Sound, Holds
<1> QED
  BY <1>3, <1>4 DEF h

LEMMA SpModifiedSound ==
    ASSUME NEW k, Shape(k), NEW m, Sound(k, m), NEW n,
           \A s \in Register \ {"SP"} : n.reg[s] = m.reg[s],
           \A a \in Address : n.mem[a] = m.mem[a],
           n.nz = m.nz
    PROVE  Shape(SpModified(k)) /\ Sound(SpModified(k), n)
<1> DEFINE j == InvalidateMirrorsOf(k, {"SP"})
           h == SpModified(k)
<1>1. Shape(j)
  BY MirrorsFields
<1>2. h = [reg |-> [j.reg EXCEPT !["SP"] = Unknown], mem |-> j.mem, nz |-> k.nz] /\ k \in Knowledge
  BY DEF SpModified, Shape
<1>3. j \in Knowledge
  BY <1>1 DEF Shape
<1>4. /\ \A s \in Register \ {"SP"} : Holds(j.reg[s], n.reg[s], n)
      /\ \A a \in Address : Holds(j.mem[a], n.mem[a], n)
  BY MirrorsSound
<1> HIDE DEF j, h
<1>5. /\ h.mem = j.mem /\ h.nz = k.nz
      /\ \A s \in Register \ {"SP"} : h.reg[s] = j.reg[s]
      /\ h.reg["SP"] = Unknown
      /\ h.reg \in [Register -> Fact] /\ h.mem \in [Address -> Fact] /\ k.nz \in Register \cup {"none"}
  BY <1>2, <1>3, IsFact, RegisterAssumption DEF Knowledge
<1>6. h \in Knowledge
  BY <1>2, <1>5 DEF Knowledge
<1>7. Shape(h)
  BY <1>1, <1>5, <1>6, FactKinds DEF Shape
<1>8. Sound(h, n)
  <2>1. \A s \in Register : Holds(h.reg[s], n.reg[s], n)
    BY <1>4, <1>5, UnknownHolds
  <2>2. \A a \in Address : Holds(h.mem[a], n.mem[a], n)
    BY <1>4, <1>5
  <2>3. "A" \in Register \ {"SP"}
    BY RegisterAssumption
  <2>4. h.nz = "A" => n.nz = n.reg["A"]
    BY <1>5, <2>3 DEF Sound
  <2> QED
    BY <2>1, <2>2, <2>4 DEF Sound
<1> QED
  BY <1>7, <1>8 DEF h

\* A cell gets a new value of which `f' is known; of the registers, those that shared the
\* old value are forgotten if the cell is in the base page, and there are none otherwise.
LEMMA SetCellSound ==
    ASSUME NEW k, Shape(k), NEW m, Sound(k, m), NEW n, NEW c \in Address, NEW f \in Fact,
           \A s \in Register : n.reg[s] = m.reg[s],
           \A a \in Address \ {c} : n.mem[a] = m.mem[a],
           n.nz = m.nz,
           Holds(f, n.mem[c], n),
           \A a \in Address : f # SameAsMem(a),
           NEW j, j = IF c \in ZeroPage THEN InvalidateMemMirrorsOf(k, c) ELSE k
    PROVE  Shape(SetCell(j, c, f)) /\ Sound(SetCell(j, c, f), n)
<1> DEFINE h == SetCell(j, c, f)
<1>0. k \in Knowledge /\ k.reg \in [Register -> Fact] /\ k.mem \in [Address -> Fact]
  BY DEF Shape, Knowledge
<1>1. /\ j.mem = k.mem /\ j.nz = k.nz /\ j.reg \in [Register -> Fact]
      /\ \A r \in Register : j.reg[r] = Unknown \/ (j.reg[r] = k.reg[r] /\ k.reg[r] # SameAsMem(c))
  <2>1. CASE c \in ZeroPage
    BY <1>0, <2>1, IsFact DEF InvalidateMemMirrorsOf
  <2>2. CASE c \notin ZeroPage
    BY <1>0, <2>2 DEF Shape
  <2> QED
    BY <2>1, <2>2
<1>2. h = [reg |-> j.reg, mem |-> [k.mem EXCEPT ![c] = f], nz |-> k.nz]
  BY <1>1 DEF SetCell
<1>3. h \in Knowledge
  BY <1>0, <1>1, <1>2 DEF Knowledge
<1> HIDE DEF h
<1>4. /\ h.reg = j.reg /\ h.nz = k.nz /\ h.mem[c] = f
      /\ \A a \in Address \ {c} : h.mem[a] = k.mem[a]
  BY <1>0, <1>2
<1>5. Shape(h)
  BY <1>1, <1>3, <1>4, FactKinds DEF Shape
<1>6. \A r \in Register : Holds(h.reg[r], n.reg[r], n)
  <2> SUFFICES ASSUME NEW r \in Register PROVE Holds(j.reg[r], n.reg[r], n)
    BY <1>4
  <2>1. CASE j.reg[r] = Unknown
    BY <2>1, UnknownHolds
  <2>2. CASE j.reg[r] = k.reg[r] /\ k.reg[r] # SameAsMem(c)
    <3>1. Holds(k.reg[r], m.reg[r], m)
      BY DEF Sound
    <3> QED
      BY <2>2, <3>1 DEF Holds
  <2> QED
    BY <1>1, <2>1, <2>2
<1>7. \A a \in Address \ {c} : Holds(h.mem[a], n.mem[a], n)
  <2> SUFFICES ASSUME NEW a \in Address \ {c} PROVE Holds(k.mem[a], n.mem[a], n)
    BY <1>4
  <2>1. Holds(k.mem[a], m.mem[a], m) /\ \A b \in Address : k.mem[a] # SameAsMem(b)
    BY DEF Sound, Shape
  <2> QED
    BY <2>1 DEF Holds
<1>8. Sound(h, n)
  <2>1. h.nz = "A" => n.nz = n.reg["A"]
    BY <1>4, RegisterAssumption DEF Sound
  <2>2. \A a \in Address : Holds(h.mem[a], n.mem[a], n)
    BY <1>4, <1>7
  <2> QED
    BY <1>6, <2>1, <2>2 DEF Sound
<1> QED
  BY <1>5, <1>8 DEF h

LEMMA StoreSound ==
    ASSUME NEW k, Shape(k), NEW m, Sound(k, m), NEW n, NEW c \in Address, NEW r \in Register,
           \A s \in Register : n.reg[s] = m.reg[s],
           \A a \in Address \ {c} : n.mem[a] = m.mem[a],
           n.nz = m.nz, n.mem[c] = m.reg[r]
    PROVE  Shape(Store(k, c, r)) /\ Sound(Store(k, c, r), n)
<1> DEFINE f == Stored(k, r)
           j == IF c \in ZeroPage THEN InvalidateMemMirrorsOf(k, c) ELSE k
<1>1. k.reg[r] \in Fact /\ Holds(k.reg[r], m.reg[r], m)
  BY DEF Shape, Knowledge, Sound
<1>2. f \in Fact /\ \A a \in Address : f # SameAsMem(a)
  BY <1>1, IsFact, FactKinds DEF Stored
<1>3. Holds(f, n.mem[c], n)
  <2>1. CASE IsConst(k.reg[r])
    BY <1>1, <2>1, ConstantCopied DEF Stored
  <2>2. CASE ~IsConst(k.reg[r])
    BY <2>2, FactKinds DEF Stored, Holds
  <2> QED
    BY <2>1, <2>2
<1>4. Store(k, c, r) = SetCell(j, c, f)
  BY DEF Store, StoreZP, StoreAbs
<1> HIDE DEF f, j
<1>5. Shape(SetCell(j, c, f)) /\ Sound(SetCell(j, c, f), n)
  BY <1>2, <1>3, SetCellSound DEF j
<1> QED
  BY <1>4, <1>5

\* The pass forgets the modified cell where it knew it.
LEMMA CellModifiedSound ==
    ASSUME AccountedFor, NEW k, Shape(k), NEW m, Sound(k, m), NEW n, NEW o \in Modified,
           \A s \in Register : n.reg[s] = m.reg[s],
           \A a \in Address \ {o.is} : n.mem[a] = m.mem[a],
           n.nz = m.nz
    PROVE  Shape(CellModified(k, o)) /\ Sound(CellModified(k, o), n)
<1> DEFINE c == o.is
           j == IF c \in ZeroPage THEN InvalidateMemMirrorsOf(k, c) ELSE k
<1>1. Unknown \in Fact /\ \A a \in Address : Unknown # SameAsMem(a)
  BY IsFact, FactKinds
<1>2. Holds(Unknown, n.mem[c], n)
  BY UnknownHolds
<1>3. c \in Address /\ o.read = c /\ o.mode \in {"base page", "absolute"}
  BY OperandAssumption DEF AccountedFor
<1>4. CellModified(k, o) = SetCell(j, c, Unknown)
  <2>1. CASE o.mode = "base page"
    <3>1. c \in ZeroPage
      BY <1>3, <2>1, OperandAssumption
    <3> QED
      BY <1>3, <2>1, <3>1 DEF CellModified, InvalidateZP
  <2>2. CASE o.mode = "absolute"
    <3>1. c \in Absolute
      BY <1>3, <2>2 DEF AccountedFor
    <3>2. c \notin ZeroPage
      BY <3>1, AddressAssumption
    <3> QED
      BY <1>3, <2>2, <3>1, <3>2 DEF CellModified, InvalidateAbs
  <2> QED
    BY <1>3, <2>1, <2>2
<1> HIDE DEF j, c
<1>5. \A a \in Address \ {c} : n.mem[a] = m.mem[a]
  BY DEF c
<1>6. Shape(SetCell(j, c, Unknown)) /\ Sound(SetCell(j, c, Unknown), n)
  BY <1>1, <1>2, <1>3, <1>5, SetCellSound DEF j
<1> QED
  BY <1>4, <1>6

LEMMA InvalidateAllMemSound ==
    ASSUME NEW k, Shape(k), NEW m, Sound(k, m)
    PROVE  Shape(InvalidateAllMem(k)) /\ Sound(InvalidateAllMem(k), m)
<1> DEFINE h == InvalidateAllMem(k)
<1>1. h = [reg |-> k.reg, mem |-> [a \in Address |-> Unknown], nz |-> k.nz] /\ k \in Knowledge
  BY DEF InvalidateAllMem, Nothing, Shape
<1>2. h \in Knowledge
  BY <1>1, IsFact DEF Knowledge
<1> HIDE DEF h
<1>3. Shape(h)
  BY <1>1, <1>2, FactKinds DEF Shape
<1>4. \A a \in Address : Holds(h.mem[a], m.mem[a], m)
  BY <1>1, UnknownHolds
<1>5. Sound(h, m)
  BY <1>1, <1>4 DEF Sound
<1> QED
  BY <1>3, <1>5 DEF h

\* What a call of a procedure with declared attributes does when it writes no tracked cell.
LEMMA InvalidateSelectiveSound ==
    ASSUME NEW k, Shape(k), NEW m, Sound(k, m), NEW n, NEW R, NEW nz \in BOOLEAN,
           \A s \in Register \ R : n.reg[s] = m.reg[s],
           \A a \in Address : n.mem[a] = m.mem[a],
           nz \/ n.nz = m.nz
    PROVE  Shape(InvalidateSelective(k, R, nz)) /\ Sound(InvalidateSelective(k, R, nz), n)
<1> DEFINE between == [reg |-> n.reg, mem |-> n.mem, nz |-> m.nz]
           regs == InvalidateRegs(k, R)
           flags == IF nz THEN InvalidateFlags(regs) ELSE regs
<1>1. Shape(regs) /\ Sound(regs, between)
  BY InvalidateRegsSound
<1> HIDE DEF regs
<1>2. Shape(flags) /\ Sound(flags, n)
  <2>1. CASE nz
    BY <1>1, <2>1, InvalidateFlagsSound
  <2>2. CASE ~nz
    BY <1>1, <2>2 DEF Sound, Holds
  <2> QED
    BY <2>1, <2>2
<1> HIDE DEF flags
<1>3. Shape(InvalidateAllMem(flags)) /\ Sound(InvalidateAllMem(flags), n)
  BY <1>2, InvalidateAllMemSound
<1>4. InvalidateSelective(k, R, nz) = InvalidateAllMem(flags)
  BY DEF InvalidateSelective, flags, regs
<1> QED
  BY <1>3, <1>4

LEMMA ApplyEffectSound ==
    ASSUME NEW k, Shape(k), NEW m, Sound(k, m), NEW n,
           NEW e \in [clobbers : SUBSET Register, flags : BOOLEAN, mem : BOOLEAN, stack : BOOLEAN],
           e.mem = FALSE,
           \A s \in Register \ e.clobbers : (s # "SP" \/ ~e.stack) => n.reg[s] = m.reg[s],
           \A a \in Address : n.mem[a] = m.mem[a],
           e.flags \/ n.nz = m.nz
    PROVE  Shape(ApplyEffect(k, e)) /\ Sound(ApplyEffect(k, e), n)
<1> DEFINE first == [reg |-> [s \in Register |-> IF s \in e.clobbers THEN n.reg[s] ELSE m.reg[s]],
                     mem |-> n.mem, nz |-> m.nz]
           second == [reg |-> first.reg, mem |-> n.mem, nz |-> n.nz]
           regs == InvalidateRegs(k, e.clobbers)
           flags == IF e.flags THEN InvalidateFlags(regs) ELSE regs
<1>1. Shape(regs) /\ Sound(regs, first)
  <2>1. \A s \in Register \ e.clobbers : first.reg[s] = m.reg[s]
    OBVIOUS
  <2>2. \A a \in Address : first.mem[a] = m.mem[a]
    OBVIOUS
  <2>3. first.nz = m.nz
    OBVIOUS
  <2> HIDE DEF first
  <2> QED
    BY <2>1, <2>2, <2>3, InvalidateRegsSound
<1>2. Shape(flags) /\ Sound(flags, second)
  <2>1. second.reg = first.reg /\ second.mem = first.mem /\ (e.flags \/ second.nz = first.nz)
    OBVIOUS
  <2> HIDE DEF first, second, regs
  <2>2. CASE e.flags
    BY <1>1, <2>1, <2>2, InvalidateFlagsSound
  <2>3. CASE ~e.flags
    BY <1>1, <2>1, <2>3 DEF Sound, Holds
  <2> QED
    BY <2>2, <2>3
<1>3. ApplyEffect(k, e) = IF e.stack THEN SpModified(flags) ELSE flags
  BY DEF ApplyEffect
<1>4. /\ second.mem = n.mem /\ second.nz = n.nz
      /\ \A s \in Register : s # "SP" \/ ~e.stack => second.reg[s] = n.reg[s]
  OBVIOUS
<1> HIDE DEF flags, second
<1>5. CASE e.stack
  <2>1. Shape(SpModified(flags)) /\ Sound(SpModified(flags), n)
    BY <1>2, <1>4, <1>5, SpModifiedSound
  <2> QED
    BY <1>3, <1>5, <2>1
<1>6. CASE ~e.stack
  <2>1. Sound(flags, n)
    BY <1>2, <1>4, <1>6, RegisterAssumption DEF Sound, Holds
  <2> QED
    BY <1>2, <1>3, <1>6, <2>1
<1> QED
  BY <1>5, <1>6

-----------------------------------------------------------------------------
\* The machines.

LEMMA LoadFields ==
    ASSUME NEW m \in Machine, NEW r \in Register, NEW v \in Byte
    PROVE  /\ Load(m, r, v) \in Machine
           /\ \A s \in Register \ {r} : Load(m, r, v).reg[s] = m.reg[s]
           /\ Load(m, r, v).reg[r] = v
           /\ Load(m, r, v).mem = m.mem
           /\ Load(m, r, v).nz = v
  BY DEF Load, Machine

LEMMA MachineFields ==
    ASSUME NEW m \in Machine
    PROVE  /\ \A r \in Register : m.reg[r] \in Byte
           /\ \A a \in Address : m.mem[a] \in Byte
           /\ m.nz \in Byte /\ m.carry \in BOOLEAN
  BY DEF Machine

LEMMA ChangedFields ==
    ASSUME NEW m \in Machine, NEW R, NEW C, NEW nz \in BOOLEAN, NEW c \in BOOLEAN,
           NEW o \in Outcome(R, C, nz, c)
    PROVE  /\ Changed(m, R, C, nz, c, o) \in Machine
           /\ \A r \in Register \ R : Changed(m, R, C, nz, c, o).reg[r] = m.reg[r]
           /\ \A a \in Address \ C : Changed(m, R, C, nz, c, o).mem[a] = m.mem[a]
           /\ nz \/ Changed(m, R, C, nz, c, o).nz = m.nz
<1> DEFINE n == Changed(m, R, C, nz, c, o)
<1>1. /\ o.reg \in [R -> Byte] /\ o.mem \in [C -> Byte]
      /\ nz => o.nz \in Byte
      /\ c => o.carry \in BOOLEAN
  BY DEF Outcome
<1>2. n = [reg |-> [r \in Register |-> IF r \in R THEN o.reg[r] ELSE m.reg[r]],
           mem |-> [a \in Address |-> IF a \in C THEN o.mem[a] ELSE m.mem[a]],
           nz |-> IF nz THEN o.nz ELSE m.nz,
           carry |-> IF c THEN o.carry ELSE m.carry]
  BY DEF Changed
<1> HIDE DEF n
<1>3. /\ n.reg = [r \in Register |-> IF r \in R THEN o.reg[r] ELSE m.reg[r]]
      /\ n.mem = [a \in Address |-> IF a \in C THEN o.mem[a] ELSE m.mem[a]]
      /\ n.nz = (IF nz THEN o.nz ELSE m.nz)
  BY <1>2
<1>4. n.reg \in [Register -> Byte]
  BY <1>1, <1>3, MachineFields
<1>5. n.mem \in [Address -> Byte]
  BY <1>1, <1>3, MachineFields
<1>6. n.nz \in Byte
  BY <1>1, <1>3, MachineFields
<1>7. n.carry \in BOOLEAN
  <2>1. CASE c
    BY <1>1, <1>2, <2>1
  <2>2. CASE ~c
    BY <1>2, <2>2, MachineFields
  <2> QED
    BY <2>1, <2>2
<1>8. n \in Machine
  BY <1>2, <1>4, <1>5, <1>6, <1>7 DEF Machine
<1> QED
  BY <1>3, <1>8 DEF n

LEMMA BothChangeFields ==
    ASSUME orig \in Machine, opt \in Machine, NEW R, NEW C, NEW nz \in BOOLEAN, NEW c \in BOOLEAN,
           NEW agreed \in BOOLEAN, BothChange(R, C, nz, c, agreed)
    PROVE  /\ orig' \in Machine /\ opt' \in Machine
           /\ \A r \in Register \ R : opt'.reg[r] = opt.reg[r]
           /\ \A a \in Address \ C : opt'.mem[a] = opt.mem[a]
           /\ nz \/ opt'.nz = opt.nz
<1>1. PICK o \in Outcome(R, C, nz, c) :
          /\ orig' = Changed(orig, R, C, nz, c, o)
          /\ \E p \in IF agreed THEN {o} ELSE Outcome(R, C, nz, c) : opt' = Changed(opt, R, C, nz, c, p)
  BY DEF BothChange
<1>2. PICK p \in Outcome(R, C, nz, c) : opt' = Changed(opt, R, C, nz, c, p)
  BY <1>1
<1>3. Changed(orig, R, C, nz, c, o) \in Machine
  BY ChangedFields
<1>4. LET n == Changed(opt, R, C, nz, c, p)
      IN  /\ n \in Machine
          /\ \A r \in Register \ R : n.reg[r] = opt.reg[r]
          /\ \A a \in Address \ C : n.mem[a] = opt.mem[a]
          /\ nz \/ n.nz = opt.nz
  BY ChangedFields
<1>5. orig' \in Machine
  BY <1>1, <1>3
<1>6. /\ opt' \in Machine
      /\ \A r \in Register \ R : opt'.reg[r] = opt.reg[r]
      /\ \A a \in Address \ C : opt'.mem[a] = opt.mem[a]
      /\ nz \/ opt'.nz = opt.nz
  BY <1>2, <1>4, Zenon
<1> QED
  BY <1>5, <1>6

\* The bookkeeping of what lies ahead.
Rest == agree \in BOOLEAN /\ noCarryBranch \in BOOLEAN /\ noLabel \in 0..Lookahead

LEMMA PassedRest == Rest /\ Passed => noLabel' \in 0..Lookahead /\ noCarryBranch' \in BOOLEAN
<1> SUFFICES ASSUME Rest, Passed PROVE noLabel' \in 0..Lookahead /\ noCarryBranch' \in BOOLEAN
  OBVIOUS
<1>1. noLabel' \in 0..Lookahead
  BY LookaheadAssumption DEF Rest, Passed
<1>2. noCarryBranch' \in BOOLEAN
  BY DEF Passed
<1> QED
  BY <1>1, <1>2

-----------------------------------------------------------------------------
\* What a step has to show.
After == orig' \in Machine /\ opt' \in Machine /\ Shape(known') /\ Sound(known', opt')

Now == orig \in Machine /\ opt \in Machine /\ Shape(known) /\ Sound(known, opt)

\* Nothing was emitted and nothing learnt.
LEMMA AfterDeletion ==
    ASSUME Now, orig' \in Machine, UNCHANGED <<opt, known>>
    PROVE  After
  BY DEF Now, After

LEMMA LoadImmediateStep ==
    ASSUME Now, AccountedFor, NEW r \in General, NEW i \in Immediates, NEW b \in BOOLEAN,
           LoadImmediate(r, i, b)
    PROVE  After
<1> DEFINE v == i.is
<1>0. r \in Register /\ v \in Byte /\ i.read = v
  BY OperandAssumption DEF General, AccountedFor
<1>1. orig' \in Machine
  BY <1>0, LoadFields DEF LoadImmediate, Now
<1>2. CASE RedundantConst(r, v) /\ ~b /\ Deleted
  BY <1>1, <1>2, AfterDeletion DEF Deleted
<1>3. CASE opt' = Load(opt, r, v) /\ known' = SetConst(known, r, v)
  <2> HIDE DEF v
  <2>1. /\ opt' \in Machine
        /\ \A s \in Register \ {r} : opt'.reg[s] = opt.reg[s]
        /\ \A a \in Address : opt'.mem[a] = opt.mem[a]
        /\ opt'.reg[r] = v /\ opt'.nz = v
    BY <1>0, <1>3, LoadFields DEF Now
  <2>2. Shape(SetConst(known, r, v)) /\ Sound(SetConst(known, r, v), opt')
    BY <1>0, <2>1, SetConstSound DEF Now
  <2> QED
    BY <1>1, <1>3, <2>1, <2>2 DEF After
<1> QED
  BY <1>0, <1>2, <1>3 DEF LoadImmediate

LEMMA LoadCellStep ==
    ASSUME Now, AccountedFor, NEW r \in General, NEW o \in Operands, NEW b \in BOOLEAN,
           LoadCell(r, o, b)
    PROVE  After
<1> DEFINE a == o.is
           zp == o.mode = "base page"
<1>0. /\ r \in Register /\ a \in Address /\ o.read = a
      /\ zp => a \in ZeroPage
      /\ orig.mem[a] \in Byte /\ opt.mem[a] \in Byte
  BY OperandAssumption, MachineFields DEF General, Now, AccountedFor
<1>1. orig' \in Machine
  BY <1>0, LoadFields DEF LoadCell, Now
<1>2. CASE RedundantLoad(r, a) /\ ~b /\ Deleted
  BY <1>1, <1>2, AfterDeletion DEF Deleted
<1>3. CASE /\ opt' = Load(opt, r, opt.mem[a])
           /\ known' = IF zp THEN SetRegFromZP(known, r, a) ELSE SetLoaded(known, r)
  <2> HIDE DEF a, zp
  <2>1. /\ opt' \in Machine
        /\ \A s \in Register \ {r} : opt'.reg[s] = opt.reg[s]
        /\ \A c \in Address : opt'.mem[c] = opt.mem[c]
        /\ opt'.reg[r] = opt.mem[a] /\ opt'.nz = opt.mem[a]
    BY <1>0, <1>3, LoadFields DEF Now
  <2>2. CASE zp
    <3>1. Shape(SetRegFromZP(known, r, a)) /\ Sound(SetRegFromZP(known, r, a), opt')
      BY <1>0, <2>1, <2>2, SetRegFromZPSound DEF Now
    <3> QED
      BY <1>1, <1>3, <2>1, <2>2, <3>1 DEF After
  <2>3. CASE ~zp
    <3>1. Shape(SetLoaded(known, r)) /\ Sound(SetLoaded(known, r), opt')
      BY <1>0, <2>1, SetLoadedSound DEF Now
    <3> QED
      BY <1>1, <1>3, <2>1, <2>3, <3>1 DEF After
  <2> QED
    BY <2>2, <2>3
<1> QED
  BY <1>0, <1>2, <1>3 DEF LoadCell

LEMMA LoadElsewhereStep ==
    ASSUME Now, NEW r \in General, NEW v \in Byte, LoadElsewhere(r, v)
    PROVE  After
<1>0. r \in Register
  BY DEF General
<1>1. orig' \in Machine
  BY <1>0, LoadFields DEF LoadElsewhere, Now
<1>2. PICK w \in Byte : opt' = Load(opt, r, w)
  BY DEF LoadElsewhere
<1>3. /\ opt' \in Machine
      /\ \A s \in Register \ {r} : opt'.reg[s] = opt.reg[s]
      /\ \A a \in Address : opt'.mem[a] = opt.mem[a]
      /\ opt'.nz = opt'.reg[r]
  BY <1>0, <1>2, LoadFields DEF Now
<1>4. Shape(SetLoaded(known, r)) /\ Sound(SetLoaded(known, r), opt')
  BY <1>0, <1>3, SetLoadedSound DEF Now
<1> QED
  BY <1>1, <1>3, <1>4 DEF LoadElsewhere, After

LEMMA StoreCellStep ==
    ASSUME Now, AccountedFor, NEW o \in Operands, NEW r \in General, StoreCell(o, r)
    PROVE  After
<1> DEFINE c == o.is
<1>0. /\ r \in Register /\ orig.reg[r] \in Byte /\ opt.reg[r] \in Byte
      /\ c \in Address /\ o.read = c
  BY OperandAssumption, MachineFields DEF General, Now, AccountedFor
<1>1. orig' \in Machine
  BY <1>0 DEF StoreCell, Now, Machine
<1>2. /\ opt' \in Machine
      /\ \A s \in Register : opt'.reg[s] = opt.reg[s]
      /\ \A a \in Address \ {c} : opt'.mem[a] = opt.mem[a]
      /\ opt'.nz = opt.nz /\ opt'.mem[c] = opt.reg[r]
  BY <1>0 DEF StoreCell, Now, Machine
<1>3. known' = Store(known, c, r)
  BY <1>0 DEF StoreCell
<1> HIDE DEF c
<1>4. Shape(Store(known, c, r)) /\ Sound(Store(known, c, r), opt')
  BY <1>0, <1>2, StoreSound DEF Now
<1> QED
  BY <1>1, <1>2, <1>3, <1>4 DEF After

\* A machine none of whose tracked parts changed is known as well as before.
LEMMA SoundUnchanged ==
    ASSUME NEW k, NEW m, Sound(k, m), NEW n, RegisterAssumption,
           \A r \in Register : n.reg[r] = m.reg[r],
           \A a \in Address : n.mem[a] = m.mem[a],
           n.nz = m.nz
    PROVE  Sound(k, n)
  BY DEF Sound, Holds, RegisterAssumption

LEMMA StoreElsewhereStep ==
    ASSUME Now, AccountedFor, StoreElsewhere
    PROVE  After
<1>1. /\ orig' \in Machine /\ opt' \in Machine
      /\ \A r \in Register : opt'.reg[r] = opt.reg[r]
      /\ \A a \in Address : opt'.mem[a] = opt.mem[a]
      /\ opt'.nz = opt.nz
  <2>1. SameData \in BOOLEAN /\ BothChange({}, {}, FALSE, FALSE, SameData)
    BY DEF StoreElsewhere, AccountedFor, SameData
  <2>2. orig \in Machine /\ opt \in Machine /\ FALSE \in BOOLEAN
    BY DEF Now
  <2>3. /\ orig' \in Machine /\ opt' \in Machine
        /\ \A r \in Register \ {} : opt'.reg[r] = opt.reg[r]
        /\ \A a \in Address \ {} : opt'.mem[a] = opt.mem[a]
        /\ FALSE \/ opt'.nz = opt.nz
    BY <2>1, <2>2, BothChangeFields, Zenon
  <2> QED
    BY <2>3
<1>2. known' = known
  BY DEF StoreElsewhere
<1> QED
  BY <1>1, <1>2, SoundUnchanged, RegisterAssumption DEF Now, After

LEMMA TransferStep ==
    ASSUME Now, NEW d \in Register, NEW s \in Register, d # s, Transfer(d, s)
    PROVE  After
<1>0. orig.reg[s] \in Byte /\ opt.reg[s] \in Byte
  BY MachineFields DEF Now
<1>1. orig' \in Machine
  BY <1>0, LoadFields DEF Transfer, Now
<1>2. /\ opt' \in Machine
      /\ \A r \in Register \ {d} : opt'.reg[r] = opt.reg[r]
      /\ \A a \in Address : opt'.mem[a] = opt.mem[a]
      /\ opt'.reg[d] = opt.reg[s] /\ opt'.nz = opt.reg[s]
  BY <1>0, LoadFields, SMTT(30) DEF Transfer, Now
<1>3. Shape(SetTransfer(known, d, s)) /\ Sound(SetTransfer(known, d, s), opt')
  BY <1>2, SetTransferSound DEF Now
<1> QED
  BY <1>1, <1>2, <1>3 DEF Transfer, After

LEMMA TsxStep ==
    ASSUME Now, Tsx
    PROVE  After
<1>0. /\ "X" \in Register /\ "SP" \in Register
      /\ orig.reg["SP"] \in Byte
  BY RegisterAssumption, MachineFields DEF Now
<1>1. orig' \in Machine
  BY <1>0, LoadFields DEF Tsx, Now
<1>2. CASE UNCHANGED <<opt, known>>
  BY <1>1, <1>2, AfterDeletion
<1>3. CASE opt' = Load(opt, "X", opt.reg["SP"]) /\ known' = SetTransfer(known, "X", "SP")
  <2>1. opt.reg["SP"] \in Byte
    BY <1>0, MachineFields DEF Now
  <2>2. /\ opt' \in Machine
        /\ \A r \in Register \ {"X"} : opt'.reg[r] = opt.reg[r]
        /\ \A a \in Address : opt'.mem[a] = opt.mem[a]
        /\ opt'.reg["X"] = opt.reg["SP"] /\ opt'.nz = opt.reg["SP"]
    BY <1>0, <1>3, <2>1, LoadFields, SMTT(30) DEF Now
  <2>3. Shape(SetTransfer(known, "X", "SP")) /\ Sound(SetTransfer(known, "X", "SP"), opt')
    BY <1>0, <2>2, SetTransferSound DEF Now
  <2> QED
    BY <1>1, <1>3, <2>2, <2>3 DEF After
<1> QED
  BY <1>2, <1>3 DEF Tsx

-----------------------------------------------------------------------------
LEMMA ComputeStep ==
    ASSUME Now, NEW r \in General, NEW reads \in BOOLEAN, NEW sets \in BOOLEAN, Compute(r, reads, sets)
    PROVE  After
<1> DEFINE agreed == SameData /\ (reads => orig.carry = opt.carry)
           between == [reg |-> opt'.reg, mem |-> opt'.mem, nz |-> opt.nz]
           regs == InvalidateRegs(known, {r})
<1>1. BothChange({r}, {}, TRUE, sets, agreed) /\ agreed \in BOOLEAN /\ TRUE \in BOOLEAN
  BY DEF Compute, SameData
<1> HIDE DEF agreed
<1>2. orig \in Machine /\ opt \in Machine
  BY DEF Now
<1>3. /\ orig' \in Machine /\ opt' \in Machine
      /\ \A s \in Register \ {r} : opt'.reg[s] = opt.reg[s]
      /\ \A a \in Address \ {} : opt'.mem[a] = opt.mem[a]
  BY <1>1, <1>2, BothChangeFields, Zenon
<1>4. /\ \A s \in Register \ {r} : between.reg[s] = opt.reg[s]
      /\ \A a \in Address : between.mem[a] = opt.mem[a]
      /\ between.nz = opt.nz
      /\ \A s \in Register : opt'.reg[s] = between.reg[s]
      /\ \A a \in Address : opt'.mem[a] = between.mem[a]
  BY <1>3
<1> HIDE DEF between
<1>5. Shape(regs) /\ Sound(regs, between)
  BY <1>4, InvalidateRegsSound DEF Now
<1> HIDE DEF regs
<1>6. Shape(InvalidateFlags(regs)) /\ Sound(InvalidateFlags(regs), opt')
  BY <1>4, <1>5, InvalidateFlagsSound
<1>7. known' = InvalidateFlags(regs)
  BY DEF Compute, regs
<1> QED
  BY <1>3, <1>6, <1>7 DEF After

LEMMA ComputeCellStep ==
    ASSUME Now, AccountedFor, NEW o \in Modified, NEW reads \in BOOLEAN, NEW sets \in BOOLEAN,
           ComputeCell(o, reads, sets)
    PROVE  After
<1> DEFINE c == o.is
           agreed == SameData /\ (reads => orig.carry = opt.carry)
           between == [reg |-> opt'.reg, mem |-> opt'.mem, nz |-> opt.nz]
           cell == CellModified(known, o)
<1>1. BothChange({}, {c}, TRUE, sets, agreed) /\ agreed \in BOOLEAN /\ TRUE \in BOOLEAN
  BY DEF ComputeCell, SameData
<1> HIDE DEF agreed, c
<1>2. orig \in Machine /\ opt \in Machine
  BY DEF Now
<1>3. /\ orig' \in Machine /\ opt' \in Machine
      /\ \A s \in Register \ {} : opt'.reg[s] = opt.reg[s]
      /\ \A a \in Address \ {c} : opt'.mem[a] = opt.mem[a]
  BY <1>1, <1>2, BothChangeFields, Zenon
<1>4. /\ \A s \in Register : between.reg[s] = opt.reg[s]
      /\ \A a \in Address \ {c} : between.mem[a] = opt.mem[a]
      /\ between.nz = opt.nz
      /\ \A s \in Register : opt'.reg[s] = between.reg[s]
      /\ \A a \in Address : opt'.mem[a] = between.mem[a]
  BY <1>3
<1> HIDE DEF between
<1>5. Shape(cell) /\ Sound(cell, between)
  BY <1>4, CellModifiedSound DEF Now, c
<1> HIDE DEF cell
<1>6. Shape(InvalidateFlags(cell)) /\ Sound(InvalidateFlags(cell), opt')
  BY <1>4, <1>5, InvalidateFlagsSound
<1>7. known' = InvalidateFlags(cell)
  BY DEF ComputeCell, cell
<1> QED
  BY <1>3, <1>6, <1>7 DEF After

\* A compare that stays changes N, Z and carry only.
LEMMA FlagsStep ==
    ASSUME Now, orig' \in Machine, opt' \in Machine, known' = InvalidateFlags(known),
           \A s \in Register : opt'.reg[s] = opt.reg[s],
           \A a \in Address : opt'.mem[a] = opt.mem[a]
    PROVE  After
<1>1. Shape(InvalidateFlags(known)) /\ Sound(InvalidateFlags(known), opt')
  BY InvalidateFlagsSound DEF Now
<1> QED
  BY <1>1 DEF After

LEMMA ComputeElsewhereStep ==
    ASSUME Now, AccountedFor, NEW reads \in BOOLEAN, NEW sets \in BOOLEAN,
           ComputeElsewhere(reads, sets)
    PROVE  After
<1> DEFINE agreed == SameData /\ (reads => orig.carry = opt.carry)
<1>1. /\ BothChange({}, {}, TRUE, sets, agreed) /\ agreed \in BOOLEAN /\ TRUE \in BOOLEAN
      /\ orig \in Machine /\ opt \in Machine /\ known' = InvalidateFlags(known)
  BY DEF ComputeElsewhere, SameData, Now, AccountedFor
<1> HIDE DEF agreed
<1>2. /\ orig' \in Machine /\ opt' \in Machine
      /\ \A s \in Register \ {} : opt'.reg[s] = opt.reg[s]
      /\ \A a \in Address \ {} : opt'.mem[a] = opt.mem[a]
  BY <1>1, BothChangeFields, Zenon
<1> QED
  BY <1>1, <1>2, FlagsStep

LEMMA WithFlagsFields ==
    ASSUME NEW m \in Machine, NEW x \in Byte, NEW c \in BOOLEAN
    PROVE  /\ WithFlags(m, x, c) \in Machine
           /\ WithFlags(m, x, c).reg = m.reg /\ WithFlags(m, x, c).mem = m.mem
  BY DEF WithFlags, Machine

\* A compare leaves registers and memory alone.
LEMMA ComparedFields ==
    ASSUME NEW m \in Machine, NEW i, NEW w \in Compared(m, i)
    PROVE  w \in Machine /\ w.reg = m.reg /\ w.mem = m.mem
<1>1. m.reg["A"] \in Byte
  BY RegisterAssumption, MachineFields
<1>2. ASSUME NEW x \in Byte, NEW c \in BOOLEAN, w = WithFlags(m, x, c)
      PROVE  w \in Machine /\ w.reg = m.reg /\ w.mem = m.mem
  BY <1>2, WithFlagsFields
<1>3. CASE i.is = Zero
  <2>1. w = WithFlags(m, m.reg["A"], TRUE)
    BY <1>3 DEF Compared
  <2> QED
    BY <1>1, <1>2, <2>1
<1>4. CASE i.is # Zero
  <2>1. Compared(m, i) = {WithFlags(m, x, c) : x \in Byte, c \in BOOLEAN}
    BY <1>4 DEF Compared
  <2>2. PICK x \in Byte, c \in BOOLEAN : w = WithFlags(m, x, c)
    BY <2>1
  <2> QED
    BY <1>2, <2>2
<1> QED
  BY <1>3, <1>4

LEMMA CompareZeroStep ==
    ASSUME Now, NEW i \in Immediates, NEW b \in BOOLEAN, CompareZero(i, b)
    PROVE  After
<1>1. orig' \in Machine
  BY ComparedFields DEF CompareZero, Now
<1>2. CASE UNCHANGED <<opt, known>>
  BY <1>1, <1>2, AfterDeletion
<1>3. CASE opt' \in Compared(opt, i) /\ known' = InvalidateFlags(known)
  <2>1. opt' \in Machine /\ opt'.reg = opt.reg /\ opt'.mem = opt.mem
    BY <1>3, ComparedFields DEF Now
  <2> QED
    BY <1>1, <1>3, <2>1, FlagsStep
<1> QED
  BY <1>2, <1>3 DEF CompareZero

LEMMA CompareStep ==
    ASSUME Now, Compare
    PROVE  After
<1>1. /\ BothChange({}, {}, TRUE, TRUE, SameData) /\ SameData \in BOOLEAN /\ TRUE \in BOOLEAN
      /\ orig \in Machine /\ opt \in Machine /\ known' = InvalidateFlags(known)
  BY DEF Compare, SameData, Now
<1>2. /\ orig' \in Machine /\ opt' \in Machine
      /\ \A s \in Register \ {} : opt'.reg[s] = opt.reg[s]
      /\ \A a \in Address \ {} : opt'.mem[a] = opt.mem[a]
  BY <1>1, BothChangeFields, Zenon
<1> QED
  BY <1>1, <1>2, FlagsStep

LEMMA SetCarryStep ==
    ASSUME Now, NEW c \in BOOLEAN, SetCarry(c)
    PROVE  After
<1>1. orig' \in Machine
  BY DEF SetCarry, Now, Machine
<1>2. opt' \in Machine /\ opt'.reg = opt.reg /\ opt'.mem = opt.mem /\ opt'.nz = opt.nz
  BY DEF SetCarry, Now, Machine
<1>3. Sound(known, opt')
  BY <1>2, SoundUnchanged, RegisterAssumption DEF Now
<1> QED
  BY <1>1, <1>2, <1>3 DEF SetCarry, Now, After

LEMMA PushStep ==
    ASSUME Now, Push
    PROVE  After
<1>1. /\ BothChange({"SP"}, {}, FALSE, FALSE, SameData) /\ SameData \in BOOLEAN /\ FALSE \in BOOLEAN
      /\ orig \in Machine /\ opt \in Machine /\ known' = SpModified(known)
  BY DEF Push, SameData, Now
<1>2. /\ orig' \in Machine /\ opt' \in Machine
      /\ \A s \in Register \ {"SP"} : opt'.reg[s] = opt.reg[s]
      /\ \A a \in Address \ {} : opt'.mem[a] = opt.mem[a]
      /\ FALSE \/ opt'.nz = opt.nz
  BY <1>1, BothChangeFields, Zenon
<1>3. Shape(SpModified(known)) /\ Sound(SpModified(known), opt')
  BY <1>2, SpModifiedSound DEF Now
<1> QED
  BY <1>1, <1>2, <1>3 DEF After

\* Pulling A forgets that N and Z came from A, and they come from A again.
LEMMA PullStep ==
    ASSUME Now, AccountedFor, NEW r \in Pulled, Pull(r)
    PROVE  After
<1> DEFINE first == [reg |-> [s \in Register |-> IF s = "SP" THEN opt'.reg[s] ELSE opt.reg[s]],
                     mem |-> opt.mem, nz |-> opt.nz]
           second == [reg |-> opt'.reg, mem |-> opt'.mem, nz |-> opt.nz]
           sp == SpModified(known)
<1>1. /\ BothChange({r, "SP"}, {}, TRUE, FALSE, SameData) /\ SameData \in BOOLEAN
      /\ TRUE \in BOOLEAN /\ FALSE \in BOOLEAN
      /\ orig \in Machine /\ opt \in Machine
      /\ r = "A" /\ known' = InvalidateRegs(sp, {r}) /\ opt'.nz = opt'.reg[r]
  BY DEF Pull, SameData, Now, AccountedFor
<1>2. /\ orig' \in Machine /\ opt' \in Machine
      /\ \A s \in Register \ {r, "SP"} : opt'.reg[s] = opt.reg[s]
      /\ \A a \in Address \ {} : opt'.mem[a] = opt.mem[a]
  BY <1>1, BothChangeFields, Zenon
<1>3. /\ \A s \in Register \ {"SP"} : first.reg[s] = opt.reg[s]
      /\ \A a \in Address : first.mem[a] = opt.mem[a]
      /\ first.nz = opt.nz
      /\ \A s \in Register \ {r} : second.reg[s] = first.reg[s]
      /\ \A a \in Address : second.mem[a] = first.mem[a]
      /\ second.nz = first.nz
      /\ second.reg = opt'.reg /\ second.mem = opt'.mem
  BY <1>2
<1> HIDE DEF first, second
<1>4. Shape(sp) /\ Sound(sp, first)
  BY <1>3, SpModifiedSound DEF Now
<1> HIDE DEF sp
<1>5. Shape(InvalidateRegs(sp, {r})) /\ Sound(InvalidateRegs(sp, {r}), second)
  BY <1>3, <1>4, InvalidateRegsSound
<1>6. Sound(known', opt')
  BY <1>1, <1>3, <1>5 DEF Sound, Holds
<1> QED
  BY <1>1, <1>2, <1>5, <1>6 DEF After

LEMMA CallKnownStep ==
    ASSUME Now, AccountedFor, NEW p \in Procs, CallKnown(p)
    PROVE  After
<1> DEFINE R == p.clobbers
           nz == p.nz
           k == InvalidateSelective(known, R, nz)
<1>1. /\ BothChange(R, {}, nz, TRUE, SameData) /\ SameData \in BOOLEAN
      /\ TRUE \in BOOLEAN /\ nz \in BOOLEAN
      /\ orig \in Machine /\ opt \in Machine /\ known' = k
  BY ProgramAssumption DEF CallKnown, SameData, Now, AccountedFor
<1> HIDE DEF R, nz
<1>2. /\ orig' \in Machine /\ opt' \in Machine
      /\ \A s \in Register \ R : opt'.reg[s] = opt.reg[s]
      /\ \A a \in Address \ {} : opt'.mem[a] = opt.mem[a]
      /\ nz \/ opt'.nz = opt.nz
  BY <1>1, BothChangeFields, Zenon
<1>3. Shape(k) /\ Sound(k, opt')
  BY <1>1, <1>2, InvalidateSelectiveSound DEF Now
<1> QED
  BY <1>1, <1>2, <1>3 DEF After

LEMMA CallUnknownStep ==
    ASSUME Now, CallUnknown
    PROVE  After
<1>1. /\ BothChange(Register \ {"SP"}, Address, TRUE, TRUE, SameData) /\ SameData \in BOOLEAN
      /\ TRUE \in BOOLEAN /\ orig \in Machine /\ opt \in Machine /\ known' = Nothing
  BY DEF CallUnknown, SameData, Now
<1>2. orig' \in Machine /\ opt' \in Machine
  BY <1>1, BothChangeFields, Zenon
<1> QED
  BY <1>1, <1>2, InitialKnowledge DEF After

\* Machines that differ in their flags only.
LEMMA LabelFields ==
    ASSUME NEW kind, Label(kind)
    PROVE  orig' \in Machine /\ opt' \in Machine /\ opt'.reg = orig'.reg /\ opt'.mem = orig'.mem
<1>1. orig' \in Machine
  BY ArrivalAssumption DEF Label
<1>2. PICK n \in Byte, c \in BOOLEAN : opt' = WithFlags(orig', n, c)
  BY DEF Label
<1> QED
  BY <1>1, <1>2, WithFlagsFields

LEMMA LabelStep ==
    ASSUME AccountedFor, NEW kind \in LabelKinds, Label(kind)
    PROVE  After
<1>1. orig' \in Machine /\ opt' \in Machine
  BY LabelFields
<1>2. known' = Nothing
  BY DEF Label, AccountedFor
<1> QED
  BY <1>1, <1>2, InitialKnowledge DEF After

LEMMA SimulatedStep ==
    ASSUME Now, AccountedFor, NEW e \in Simulated, SimulatedOp(e)
    PROVE  After
<1> DEFINE R == e.clobbers \cup (IF e.stack THEN {"SP"} ELSE {})
           C == IF e.mem THEN Address ELSE {}
<1>0. /\ e \in [clobbers : SUBSET Register, flags : BOOLEAN, mem : BOOLEAN, stack : BOOLEAN]
      /\ e.mem = FALSE
  BY ProgramAssumption DEF AccountedFor
<1>1. /\ BothChange(R, C, e.flags, e.flags, SameData) /\ SameData \in BOOLEAN
      /\ e.flags \in BOOLEAN /\ orig \in Machine /\ opt \in Machine
      /\ known' = ApplyEffect(known, e)
  BY <1>0 DEF SimulatedOp, SameData, Now
<1>2. C = {} /\ \A s \in Register \ e.clobbers : s # "SP" \/ ~e.stack => s \in Register \ R
  BY <1>0
<1> HIDE DEF R, C
<1>3. /\ orig' \in Machine /\ opt' \in Machine
      /\ \A s \in Register \ R : opt'.reg[s] = opt.reg[s]
      /\ \A a \in Address \ C : opt'.mem[a] = opt.mem[a]
      /\ e.flags \/ opt'.nz = opt.nz
  BY <1>1, BothChangeFields, Zenon
<1>4. \A s \in Register \ e.clobbers : s # "SP" \/ ~e.stack => opt'.reg[s] = opt.reg[s]
  BY <1>2, <1>3
<1>5. \A a \in Address : opt'.mem[a] = opt.mem[a]
  BY <1>2, <1>3
<1>6. Shape(ApplyEffect(known, e)) /\ Sound(ApplyEffect(known, e), opt')
  BY <1>0, <1>3, <1>4, <1>5, ApplyEffectSound DEF Now
<1> QED
  BY <1>1, <1>3, <1>6 DEF After

LEMMA UnlistedStep ==
    ASSUME Now, AccountedFor, NEW u \in Unlisted, UnlistedInstruction(u)
    PROVE  After
<1>1. /\ BothChange(u.clobbers, {}, u.nz, FALSE, SameData) /\ SameData \in BOOLEAN
      /\ FALSE \in BOOLEAN /\ u.nz \in BOOLEAN
      /\ orig \in Machine /\ opt \in Machine /\ known' = known
      /\ u.clobbers = {} /\ u.nz = FALSE
  BY DEF UnlistedInstruction, SameData, Now, AccountedFor
<1>2. /\ orig' \in Machine /\ opt' \in Machine
      /\ \A s \in Register \ u.clobbers : opt'.reg[s] = opt.reg[s]
      /\ \A a \in Address \ {} : opt'.mem[a] = opt.mem[a]
      /\ u.nz \/ opt'.nz = opt.nz
  BY <1>1, BothChangeFields, Zenon
<1>3. Sound(known, opt')
  BY <1>1, <1>2, SoundUnchanged, RegisterAssumption DEF Now
<1> QED
  BY <1>1, <1>2, <1>3 DEF Now, After

-----------------------------------------------------------------------------
\* The bookkeeping of a step.
LEMMA RestStep ==
    ASSUME Rest, Next
    PROVE  Rest'
<1>1. ASSUME Passed, agree' \in BOOLEAN PROVE Rest'
  BY <1>1, PassedRest DEF Rest
<1>2. ASSUME agree' \in BOOLEAN, Deleted PROVE Rest'
  <2>1. noLabel' \in 0..Lookahead
    BY <1>2, LookaheadAssumption DEF Deleted
  <2>2. noCarryBranch' \in BOOLEAN
    BY <1>2 DEF Deleted
  <2> QED
    BY <1>2, <2>1, <2>2 DEF Rest
<1>3. ASSUME NEW r \in General, NEW i \in Immediates, NEW b \in BOOLEAN, LoadImmediate(r, i, b)
      PROVE Rest'
  BY <1>1, <1>2, <1>3 DEF LoadImmediate, Rest
<1>4. ASSUME NEW r \in General, NEW o \in Operands, NEW b \in BOOLEAN, LoadCell(r, o, b) PROVE Rest'
  BY <1>1, <1>2, <1>4 DEF LoadCell, Rest
<1>5. ASSUME NEW r \in General, NEW v \in Byte, LoadElsewhere(r, v) PROVE Rest'
  BY <1>1, <1>5 DEF LoadElsewhere, Rest
<1>6. ASSUME NEW o \in Operands, NEW r \in General, StoreCell(o, r) PROVE Rest'
  BY <1>1, <1>6 DEF StoreCell, Rest
<1>7. ASSUME StoreElsewhere PROVE Rest'
  BY <1>1, <1>7 DEF StoreElsewhere, Rest
<1>8. ASSUME NEW d \in Register, NEW r \in Register, Transfer(d, r) PROVE Rest'
  BY <1>1, <1>8 DEF Transfer, Rest
<1>9. ASSUME Tsx PROVE Rest'
  BY <1>1, <1>9 DEF Tsx, Rest
<1>10. ASSUME NEW r \in General, NEW reads \in BOOLEAN, NEW sets \in BOOLEAN, Compute(r, reads, sets)
       PROVE Rest'
  BY <1>1, <1>10 DEF Compute, Rest
<1>11. ASSUME NEW o \in Modified, NEW reads \in BOOLEAN, NEW sets \in BOOLEAN, ComputeCell(o, reads, sets)
       PROVE Rest'
  BY <1>1, <1>11 DEF ComputeCell, Rest
<1>23. ASSUME NEW reads \in BOOLEAN, NEW sets \in BOOLEAN, ComputeElsewhere(reads, sets) PROVE Rest'
  BY <1>1, <1>23 DEF ComputeElsewhere, Rest
<1>12. ASSUME NEW i \in Immediates, NEW b \in BOOLEAN, CompareZero(i, b) PROVE Rest'
  <2>1. noLabel' \in 0..Lookahead
    BY <1>12, LookaheadAssumption DEF CompareZero, Rest
  <2>2. agree' \in BOOLEAN /\ noCarryBranch' \in BOOLEAN
    BY <1>12 DEF CompareZero, Rest
  <2> QED
    BY <2>1, <2>2 DEF Rest
<1>13. ASSUME Compare PROVE Rest'
  BY <1>1, <1>13 DEF Compare, Rest
<1>14. ASSUME NEW c \in BOOLEAN, SetCarry(c) PROVE Rest'
  BY <1>1, <1>14 DEF SetCarry, Rest
<1>15. ASSUME Push PROVE Rest'
  BY <1>1, <1>15 DEF Push, Rest
<1>16. ASSUME NEW r \in Pulled, Pull(r) PROVE Rest'
  BY <1>1, <1>16 DEF Pull, Rest
<1>17. ASSUME NEW p \in Procs, CallKnown(p) PROVE Rest'
  BY <1>1, <1>17 DEF CallKnown, Rest
<1>18. ASSUME CallUnknown PROVE Rest'
  BY <1>1, <1>18 DEF CallUnknown, Rest
<1>24. ASSUME NEW kind \in LabelKinds, Label(kind) PROVE Rest'
  BY <1>1, <1>24 DEF Label, Rest
<1>19. ASSUME BranchNZ \/ BranchCarry PROVE Rest'
  BY <1>1, <1>19 DEF BranchNZ, BranchCarry, Rest
<1>20. ASSUME NEW e \in Simulated, SimulatedOp(e) PROVE Rest'
  BY <1>1, <1>20 DEF SimulatedOp, Rest
<1>21. ASSUME NEW u \in Unlisted, UnlistedInstruction(u) PROVE Rest'
  BY <1>1, <1>21 DEF UnlistedInstruction, Rest
<1>22. ASSUME NEW r \in General \ {"A"} PROVE r \in Register /\ "A" \in Register
  BY RegisterAssumption DEF General
<1> QED
  BY <1>3, <1>4, <1>5, <1>6, <1>7, <1>8, <1>9, <1>10, <1>11, <1>12, <1>13, <1>14, <1>15, <1>16,
     <1>17, <1>18, <1>19, <1>20, <1>21, <1>22, <1>23, <1>24 DEF Next

LEMMA Step ==
    ASSUME Now, AccountedFor, Next
    PROVE  After
<1>1. ASSUME NEW r \in General, NEW i \in Immediates, NEW b \in BOOLEAN, LoadImmediate(r, i, b) PROVE After
  BY <1>1, LoadImmediateStep
<1>2. ASSUME NEW r \in General, NEW o \in Operands, NEW b \in BOOLEAN, LoadCell(r, o, b) PROVE After
  BY <1>2, LoadCellStep
<1>3. ASSUME NEW r \in General, NEW v \in Byte, LoadElsewhere(r, v) PROVE After
  BY <1>3, LoadElsewhereStep
<1>4. ASSUME NEW o \in Operands, NEW r \in General, StoreCell(o, r) PROVE After
  BY <1>4, StoreCellStep
<1>5. ASSUME NEW r \in General \ {"A"}, Transfer(r, "A") \/ Transfer("A", r) PROVE After
  BY <1>5, TransferStep, RegisterAssumption DEF General
<1>6. ASSUME StoreElsewhere \/ Tsx \/ Compare \/ Push \/ CallUnknown PROVE After
  BY <1>6, StoreElsewhereStep, TsxStep, CompareStep, PushStep, CallUnknownStep
<1>7. ASSUME NEW r \in General, NEW reads \in BOOLEAN, NEW sets \in BOOLEAN, Compute(r, reads, sets)
      PROVE After
  BY <1>7, ComputeStep
<1>8. ASSUME NEW o \in Modified, NEW reads \in BOOLEAN, NEW sets \in BOOLEAN, ComputeCell(o, reads, sets)
      PROVE After
  BY <1>8, ComputeCellStep
<1>16. ASSUME NEW reads \in BOOLEAN, NEW sets \in BOOLEAN, ComputeElsewhere(reads, sets) PROVE After
  BY <1>16, ComputeElsewhereStep
<1>17. ASSUME NEW kind \in LabelKinds, Label(kind) PROVE After
  BY <1>17, LabelStep
<1>9. ASSUME NEW i \in Immediates, NEW b \in BOOLEAN, CompareZero(i, b) PROVE After
  BY <1>9, CompareZeroStep
<1>10. ASSUME NEW c \in BOOLEAN, SetCarry(c) PROVE After
  BY <1>10, SetCarryStep
<1>11. ASSUME NEW r \in Pulled, Pull(r) PROVE After
  BY <1>11, PullStep
<1>12. ASSUME NEW p \in Procs, CallKnown(p) PROVE After
  BY <1>12, CallKnownStep
<1>13. ASSUME NEW e \in Simulated, SimulatedOp(e) PROVE After
  BY <1>13, SimulatedStep
<1>14. ASSUME NEW u \in Unlisted, UnlistedInstruction(u) PROVE After
  BY <1>14, UnlistedStep
<1>15. ASSUME BranchNZ \/ BranchCarry PROVE After
  BY <1>15 DEF BranchNZ, BranchCarry, Now, After
<1> QED
  BY <1>1, <1>2, <1>3, <1>4, <1>5, <1>6, <1>7, <1>8, <1>9, <1>10, <1>11, <1>12, <1>13, <1>14, <1>15,
     <1>16, <1>17, Zenon DEF Next

LEMMA InitIInv == Init => IInv
<1> SUFFICES ASSUME Init PROVE IInv
  OBVIOUS
<1>1. Shape(known) /\ Sound(known, opt)
  BY InitialKnowledge DEF Init
<1>2. orig \in Machine /\ opt \in Machine
  BY DEF Init
<1>3. known \in Knowledge
  BY <1>1 DEF Shape
<1>4. agree \in BOOLEAN /\ noCarryBranch \in BOOLEAN
  BY DEF Init
<1>5. noLabel \in 0..Lookahead
  BY LookaheadAssumption DEF Init
<1> QED
  BY <1>1, <1>2, <1>3, <1>4, <1>5 DEF IInv, TypeOK

LEMMA IInvStep == ASSUME AccountedFor, IInv, [Next]_vars PROVE IInv'
<1>1. CASE Next
  <2>1. Now /\ Rest
    BY DEF IInv, TypeOK, Now, Rest
  <2>2. After /\ Rest'
    BY <1>1, <2>1, Step, RestStep
  <2>3. known' \in Knowledge
    BY <2>2 DEF After, Shape
  <2> QED
    BY <2>2, <2>3 DEF IInv, TypeOK, After, Rest
<1>2. CASE UNCHANGED vars
  BY <1>2 DEF IInv, TypeOK, Shape, Sound, Holds, vars
<1> QED
  BY <1>1, <1>2

\* In a program made of statements the pass accounts for, every fact it relies on is
\* true of the machine that runs the optimised program.
THEOREM KnowledgeIsTrue == ASSUME AccountedFor PROVE Spec => [](TypeOK /\ FactsTrue)
<1>1. Init => IInv
  BY InitIInv
<1>2. IInv /\ [Next]_vars => IInv'
  BY IInvStep
<1>3. IInv => TypeOK /\ FactsTrue
  BY DEF IInv, FactsTrue
<1> QED
  BY <1>1, <1>2, <1>3, PTL DEF Spec

-----------------------------------------------------------------------------
\* The two programs.
LEMMA SameDataFields == SameData <=> orig.reg = opt.reg /\ orig.mem = opt.mem
  BY DEF SameData, Data

LEMMA LoadsAgree ==
    ASSUME NEW m \in Machine, NEW n \in Machine, m.reg = n.reg, m.mem = n.mem,
           NEW r \in Register, NEW v \in Byte
    PROVE  Load(m, r, v).reg = Load(n, r, v).reg /\ Load(m, r, v).mem = Load(n, r, v).mem
  BY DEF Load, Machine

\* Loading what a register already holds leaves the data alone.
LEMMA LoadOfSame ==
    ASSUME NEW m \in Machine, NEW r \in Register, NEW v \in Byte, m.reg[r] = v
    PROVE  Load(m, r, v).reg = m.reg /\ Load(m, r, v).mem = m.mem
  BY DEF Load, Machine

LEMMA BothChangeAgree ==
    ASSUME SameData, NEW R, NEW C, NEW nz, NEW c, NEW agreed, agreed, BothChange(R, C, nz, c, agreed)
    PROVE  SameData'
<1>1. PICK o \in Outcome(R, C, nz, c) :
          /\ orig' = Changed(orig, R, C, nz, c, o)
          /\ \E p \in IF agreed THEN {o} ELSE Outcome(R, C, nz, c) : opt' = Changed(opt, R, C, nz, c, p)
  BY DEF BothChange
<1>2. opt' = Changed(opt, R, C, nz, c, o)
  BY <1>1
<1>3. orig.reg = opt.reg /\ orig.mem = opt.mem
  BY SameDataFields
<1>4. orig'.reg = opt'.reg /\ orig'.mem = opt'.mem
  BY <1>1, <1>2, <1>3 DEF Changed
<1> QED
  BY <1>4 DEF SameData, Data

\* What every step has to show: as long as every flag read so far agreed, so does the data.
Going == Now /\ SameData

LEMMA GoingFields ==
    ASSUME Going
    PROVE  /\ orig \in Machine /\ opt \in Machine /\ orig.reg = opt.reg /\ orig.mem = opt.mem
           /\ SameData /\ SameData \in BOOLEAN
  BY SameDataFields DEF Going, Now, SameData

LEMMA ConstDeleted ==
    ASSUME Going, NEW r \in Register, NEW v \in Byte, known.reg[r] = Constant(v)
    PROVE  opt.reg[r] = v
<1>1. Holds(known.reg[r], opt.reg[r], opt)
  BY DEF Going, Now, Sound
<1> QED
  BY <1>1 DEF Holds

\* A load the pass calls redundant loads what the register holds.
LEMMA LoadDeleted ==
    ASSUME Going, NEW r \in Register, NEW a \in Address, RedundantLoad(r, a)
    PROVE  opt.reg[r] = opt.mem[a]
<1>1. Holds(known.reg[r], opt.reg[r], opt) /\ Holds(known.mem[a], opt.mem[a], opt)
  BY DEF Going, Now, Sound
<1>2. CASE known.reg[r] = SameAsMem(a)
  BY <1>1, <1>2 DEF Holds
<1>3. CASE known.mem[a] = SameAs(r)
  BY <1>1, <1>3 DEF Holds
<1>4. CASE IsConst(known.reg[r]) /\ known.mem[a] = known.reg[r]
  <2>1. known.reg[r] \in Fact
    BY DEF Going, Now, Shape, Knowledge
  <2>2. PICK v \in Byte : known.reg[r] = Constant(v)
    BY <1>4, <2>1, ConstantFact
  <2> QED
    BY <1>1, <1>4, <2>2 DEF Holds
<1> QED
  BY <1>2, <1>3, <1>4 DEF RedundantLoad

LEMMA SameAfterLoad ==
    ASSUME Going, NEW r \in Register, NEW v \in Byte, orig' = Load(orig, r, v),
           \/ opt' = Load(opt, r, v)
           \/ opt' = opt /\ opt.reg[r] = v
    PROVE  SameData'
<1>1. orig \in Machine /\ opt \in Machine /\ orig.reg = opt.reg /\ orig.mem = opt.mem
  BY GoingFields
<1>2. orig'.reg = opt'.reg /\ orig'.mem = opt'.mem
  <2>1. CASE opt' = Load(opt, r, v)
    BY <1>1, <2>1, LoadsAgree
  <2>2. CASE opt' = opt /\ opt.reg[r] = v
    BY <1>1, <2>2, LoadOfSame
  <2> QED
    BY <2>1, <2>2
<1> QED
  BY <1>2 DEF SameData, Data

LEMMA SameAfterChange ==
    ASSUME Going, orig'.reg = opt'.reg, orig'.mem = opt'.mem
    PROVE  SameData'
  BY DEF SameData, Data

LEMMA DataStep ==
    ASSUME AccountedFor, Going, Next, agree'
    PROVE  SameData'
<1>0. /\ orig \in Machine /\ opt \in Machine /\ orig.reg = opt.reg /\ orig.mem = opt.mem
      /\ SameData /\ SameData \in BOOLEAN
  BY GoingFields
<1>1. ASSUME NEW r \in General, NEW i \in Immediates, NEW b \in BOOLEAN, LoadImmediate(r, i, b)
      PROVE SameData'
  <2> DEFINE v == i.is
  <2>1. r \in Register /\ v \in Byte /\ i.read = v
    BY OperandAssumption DEF General, AccountedFor
  <2>2. CASE RedundantConst(r, v) /\ ~b /\ Deleted
    BY <1>1, <2>1, <2>2, ConstDeleted, SameAfterLoad DEF RedundantConst, Deleted, LoadImmediate
  <2>3. CASE opt' = Load(opt, r, v)
    BY <1>1, <2>1, <2>3, SameAfterLoad DEF LoadImmediate
  <2> QED
    BY <1>1, <2>1, <2>2, <2>3 DEF LoadImmediate
<1>2. ASSUME NEW r \in General, NEW o \in Operands, NEW b \in BOOLEAN, LoadCell(r, o, b) PROVE SameData'
  <2> DEFINE a == o.is
  <2>1. /\ r \in Register /\ a \in Address /\ o.read = a
        /\ opt.mem[a] \in Byte /\ orig.mem[a] = opt.mem[a]
    BY <1>0, OperandAssumption, MachineFields DEF General, AccountedFor
  <2>2. CASE RedundantLoad(r, a) /\ ~b /\ Deleted
    BY <1>2, <2>1, <2>2, LoadDeleted, SameAfterLoad DEF Deleted, LoadCell
  <2>3. CASE opt' = Load(opt, r, opt.mem[a])
    BY <1>2, <2>1, <2>3, SameAfterLoad DEF LoadCell
  <2> QED
    BY <1>2, <2>1, <2>2, <2>3 DEF LoadCell
<1>3. ASSUME NEW r \in General, NEW v \in Byte, LoadElsewhere(r, v) PROVE SameData'
  <2>1. r \in Register
    BY DEF General
  <2> QED
    BY <1>0, <1>3, <2>1, SameAfterLoad DEF LoadElsewhere
<1>4. ASSUME NEW o \in Operands, NEW r \in General, StoreCell(o, r) PROVE SameData'
  <2> DEFINE a == o.is
  <2>1. orig'.reg = orig.reg /\ orig'.mem = [orig.mem EXCEPT ![a] = orig.reg[r]]
    BY <1>0, <1>4 DEF StoreCell, Machine
  <2>2. opt'.reg = opt.reg /\ opt'.mem = [opt.mem EXCEPT ![a] = opt.reg[r]]
    BY <1>0, <1>4 DEF StoreCell, Machine
  <2> QED
    BY <1>0, <2>1, <2>2, SameAfterChange
<1>5. ASSUME NEW r \in General \ {"A"}, Transfer(r, "A") \/ Transfer("A", r) PROVE SameData'
  <2>1. r \in Register /\ "A" \in Register
    BY RegisterAssumption DEF General
  <2>2. opt.reg[r] \in Byte /\ opt.reg["A"] \in Byte
    BY <1>0, <2>1, MachineFields
  <2> QED
    BY <1>0, <1>5, <2>1, <2>2, SameAfterLoad DEF Transfer
<1>6. ASSUME Tsx PROVE SameData'
  <2>1. "X" \in Register /\ "SP" \in Register
    BY RegisterAssumption
  <2>2. opt.reg["SP"] \in Byte /\ orig' = Load(orig, "X", opt.reg["SP"])
    BY <1>0, <1>6, <2>1, MachineFields DEF Tsx
  <2>3. CASE opt' = Load(opt, "X", opt.reg["SP"])
    BY <2>1, <2>2, <2>3, SameAfterLoad
  <2>4. CASE XHoldsSP(known) /\ opt' = opt
    <3>1. Holds(known.reg["X"], opt.reg["X"], opt)
      BY <2>1 DEF Going, Now, Sound
    <3>2. opt.reg["X"] = opt.reg["SP"]
      BY <2>1, <2>4, <3>1 DEF XHoldsSP, Holds
    <3> QED
      BY <2>1, <2>2, <2>4, <3>2, SameAfterLoad
  <2> QED
    BY <1>6, <2>3, <2>4 DEF Tsx
<1>7. ASSUME NEW r \in General, NEW reads \in BOOLEAN, NEW sets \in BOOLEAN, Compute(r, reads, sets)
      PROVE SameData'
  <2>1. BothChange({r}, {}, TRUE, sets, SameData /\ (reads => orig.carry = opt.carry))
    BY <1>7 DEF Compute
  <2>2. SameData /\ (reads => orig.carry = opt.carry)
    BY <1>0, <1>7 DEF Compute
  <2> QED
    BY <2>1, <2>2, BothChangeAgree, Zenon
<1>8. ASSUME NEW o \in Modified, NEW reads \in BOOLEAN, NEW sets \in BOOLEAN, ComputeCell(o, reads, sets)
      PROVE SameData'
  <2>1. BothChange({}, {o.is}, TRUE, sets, SameData /\ (reads => orig.carry = opt.carry))
    BY <1>8 DEF ComputeCell
  <2>2. SameData /\ (reads => orig.carry = opt.carry)
    BY <1>0, <1>8 DEF ComputeCell
  <2> QED
    BY <2>1, <2>2, BothChangeAgree, Zenon
<1>18. ASSUME NEW reads \in BOOLEAN, NEW sets \in BOOLEAN, ComputeElsewhere(reads, sets) PROVE SameData'
  <2>1. BothChange({}, Aliased, TRUE, sets, SameData /\ (reads => orig.carry = opt.carry))
    BY <1>18 DEF ComputeElsewhere
  <2>2. SameData /\ (reads => orig.carry = opt.carry)
    BY <1>0, <1>18 DEF ComputeElsewhere
  <2> QED
    BY <2>1, <2>2, BothChangeAgree, Zenon
<1>9. ASSUME NEW i \in Immediates, NEW b \in BOOLEAN, CompareZero(i, b) PROVE SameData'
  <2>1. orig'.reg = orig.reg /\ orig'.mem = orig.mem
    BY <1>0, <1>9, ComparedFields DEF CompareZero
  <2>2. opt'.reg = opt.reg /\ opt'.mem = opt.mem
    <3>1. CASE opt' = opt
      BY <3>1
    <3>2. CASE opt' \in Compared(opt, i)
      BY <1>0, <3>2, ComparedFields
    <3> QED
      BY <1>9, <3>1, <3>2 DEF CompareZero
  <2> QED
    BY <1>0, <2>1, <2>2, SameAfterChange
<1>10. ASSUME NEW c \in BOOLEAN, SetCarry(c) PROVE SameData'
  <2>1. orig'.reg = orig.reg /\ orig'.mem = orig.mem /\ opt'.reg = opt.reg /\ opt'.mem = opt.mem
    BY <1>0, <1>10 DEF SetCarry, Machine
  <2> QED
    BY <1>0, <2>1, SameAfterChange
<1>11. ASSUME NEW R, NEW C, NEW nz, NEW c, BothChange(R, C, nz, c, SameData) PROVE SameData'
  BY <1>0, <1>11, BothChangeAgree, Zenon
<1>12. ASSUME StoreElsewhere \/ Compare \/ Push \/ CallUnknown PROVE SameData'
  BY <1>11, <1>12, Zenon DEF StoreElsewhere, Compare, Push, CallUnknown
<1>13. ASSUME NEW r \in Pulled, Pull(r) PROVE SameData'
  BY <1>11, <1>13, Zenon DEF Pull
<1>14. ASSUME NEW p \in Procs, CallKnown(p) PROVE SameData'
  BY <1>11, <1>14, Zenon DEF CallKnown
<1>15. ASSUME NEW e \in Simulated, SimulatedOp(e) PROVE SameData'
  BY <1>11, <1>15, Zenon DEF SimulatedOp
<1>16. ASSUME NEW u \in Unlisted, UnlistedInstruction(u) PROVE SameData'
  BY <1>11, <1>16, Zenon DEF UnlistedInstruction
<1>17. ASSUME BranchNZ \/ BranchCarry PROVE SameData'
  BY <1>0, <1>17, SameAfterChange DEF BranchNZ, BranchCarry
<1>19. ASSUME NEW kind \in LabelKinds, Label(kind) PROVE SameData'
  BY <1>19, LabelFields, SameAfterChange
<1> QED
  BY <1>1, <1>2, <1>3, <1>4, <1>5, <1>6, <1>7, <1>8, <1>9, <1>10, <1>12, <1>13, <1>14, <1>15,
     <1>16, <1>17, <1>18, <1>19, Zenon DEF Next

\* Flags that were read differently stay read.
LEMMA AgreedBefore == ASSUME Next, agree' PROVE agree
  BY DEF Next, LoadImmediate, LoadCell, LoadElsewhere, StoreCell, StoreElsewhere, Transfer, Tsx,
         Compute, ComputeCell, ComputeElsewhere, CompareZero, Compare, SetCarry, Push, Pull, CallKnown, CallUnknown,
         Label, BranchNZ, BranchCarry, SimulatedOp, UnlistedInstruction

\* In such a program the deletions change no register and no memory cell, up to the
\* first instruction that reads a flag the deleted one would have set otherwise.
THEOREM DeletionsKeepData == ASSUME AccountedFor PROVE Spec => []DataPreserved
<1>1. Init => IInv /\ DataPreserved
  BY InitIInv DEF Init, DataPreserved, SameData
<1>2. IInv /\ DataPreserved /\ [Next]_vars => (IInv /\ DataPreserved)'
  <2> SUFFICES ASSUME IInv, DataPreserved, [Next]_vars PROVE (IInv /\ DataPreserved)'
    OBVIOUS
  <2>1. IInv'
    BY IInvStep
  <2>2. ASSUME agree', Next PROVE SameData'
    <3>1. Now
      BY DEF IInv, TypeOK, Now
    <3>2. Going
      BY <2>2, <3>1, AgreedBefore DEF Going, DataPreserved
    <3> QED
      BY <2>2, <3>2, DataStep
  <2>3. ASSUME agree', UNCHANGED vars PROVE SameData'
    BY <2>3 DEF DataPreserved, SameData, Data, vars
  <2>4. DataPreserved'
    BY <2>2, <2>3 DEF DataPreserved
  <2> QED
    BY <2>1, <2>4
<1> QED
  BY <1>1, <1>2, PTL DEF Spec
=============================================================================
