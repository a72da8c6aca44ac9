---------------------------- MODULE MachineState ----------------------------
(***************************************************************************)
(* What ca45's optimiser knows about the machine at a statement: MachineState *)
(* of MachineState.hpp.  For each register and each tracked memory cell it   *)
(* keeps at most one fact: a constant, "the same as that register" or "the   *)
(* same as that cell"; and it keeps the register N and Z were last set from. *)
(* The operators below are the class's methods, from the knowledge before to *)
(* the knowledge after.                                                      *)
(*                                                                           *)
(* The facts about single flags, ranges and relocatable bytes are left out:  *)
(* only the compiler's emitter reads them.  The cache of absolute addresses  *)
(* (512 entries, the oldest evicted) is unbounded: eviction only forgets.    *)
(***************************************************************************)
CONSTANTS
    Byte,          \* what a register or a memory cell can hold
    Register,      \* the registers in use, of A, X, Y, Z and SP
    ZeroPage,      \* the base-page cells in use
    Absolute       \* the other cells in use, named by an absolute address

ASSUME RegisterAssumption == {"A", "X", "SP"} \subseteq Register
ASSUME AddressAssumption == ZeroPage \cap Absolute = {}

Address == ZeroPage \cup Absolute

\* ValueInfo: the kinds of fact the assembler uses.
Unknown == [kind |-> "unknown", of |-> "nothing"]
Constant(v) == [kind |-> "constant", of |-> v]
SameAs(r) == [kind |-> "register", of |-> r]
SameAsMem(a) == [kind |-> "memory", of |-> a]
IsConst(fact) == fact.kind = "constant"
Fact == {Unknown} \cup {Constant(v) : v \in Byte} \cup {SameAs(r) : r \in Register}
            \cup {SameAsMem(a) : a \in Address}

\* nz is nzSourceReg; "none" is -1.
Knowledge == [reg : [Register -> Fact], mem : [Address -> Fact], nz : Register \cup {"none"}]

Nothing == [reg |-> [r \in Register |-> Unknown], mem |-> [a \in Address |-> Unknown], nz |-> "none"]

XHoldsSP(k) == k.reg["X"] = SameAs("SP")

-----------------------------------------------------------------------------
\* Mutated: the memory entries are not searched.
InvalidateMirrorsOfRegsOnly(k, R) ==
    [reg |-> [s \in Register |-> IF \E r \in R : k.reg[s] = SameAs(r) THEN Unknown ELSE k.reg[s]],
     mem |-> k.mem, nz |-> k.nz]

\* The registers in R are about to change: whatever was said to be the same as
\* one of them is not known any more.
InvalidateMirrorsOf(k, R) ==
    LET Kept(fact) == IF \E r \in R : fact = SameAs(r) THEN Unknown ELSE fact
    IN [reg |-> [s \in Register |-> Kept(k.reg[s])],
        mem |-> [a \in Address |-> Kept(k.mem[a])],
        nz |-> k.nz]

\* Likewise for a memory cell; only registers are ever the same as a cell.
InvalidateMemMirrorsOf(k, a) ==
    [reg |-> [r \in Register |-> IF k.reg[r] = SameAsMem(a) THEN Unknown ELSE k.reg[r]],
     mem |-> k.mem, nz |-> k.nz]

\* Register r gets a new value, of which `fact' is known, and sets N and Z.
SetReg(k, r, fact) ==
    LET forgotten == InvalidateMirrorsOf(k, {r})
    IN [reg |-> [forgotten.reg EXCEPT ![r] = fact], mem |-> forgotten.mem, nz |-> r]

SetConst(k, r, v) == SetReg(k, r, Constant(v))

\* r was loaded from a place about which nothing is recorded.
SetLoaded(k, r) == SetReg(k, r, Unknown)

SetTransfer(k, d, s) ==
    LET source == InvalidateMirrorsOf(k, {d}).reg[s]
    IN SetReg(k, d, IF IsConst(source) THEN source ELSE SameAs(s))

SetRegFromZP(k, r, a) ==
    LET source == InvalidateMirrorsOf(k, {r}).mem[a]
    IN SetReg(k, r, IF IsConst(source) THEN source ELSE SameAsMem(a))

InvalidateRegs(k, R) ==
    LET forgotten == InvalidateMirrorsOf(k, R)
    IN [reg |-> [r \in Register |-> IF r \in R THEN Unknown ELSE forgotten.reg[r]],
        mem |-> forgotten.mem,
        nz |-> IF k.nz \in R THEN "none" ELSE k.nz]

InvalidateFlags(k) == [reg |-> k.reg, mem |-> k.mem, nz |-> "none"]

SetCell(k, a, fact) == [reg |-> k.reg, mem |-> [k.mem EXCEPT ![a] = fact], nz |-> k.nz]

\* What is known of a cell a register was stored to.
Stored(k, r) == IF IsConst(k.reg[r]) THEN k.reg[r] ELSE SameAs(r)

\* Mutated: registers keep what they were said to share with the cell.
StoreZPKeepsMirrors(k, a, r) == SetCell(k, a, Stored(k, r))

\* A store to the base page: registers said to hold the cell's old value are forgotten.
StoreZP(k, a, r) == SetCell(InvalidateMemMirrorsOf(k, a), a, Stored(k, r))

\* No register is ever the same as an absolute cell, so there is nothing to forget.
StoreAbs(k, a, r) == SetCell(k, a, Stored(k, r))

Store(k, a, r) == IF a \in ZeroPage THEN StoreZP(k, a, r) ELSE StoreAbs(k, a, r)

\* A cell is modified in place.
InvalidateZP(k, a) == SetCell(InvalidateMemMirrorsOf(k, a), a, Unknown)

\* The cache of absolute addresses never holds one of the base page.
InvalidateAbs(k, a) == IF a \in Absolute THEN SetCell(k, a, Unknown) ELSE k

\* The facts about memory go; what registers are said to share with memory stays.
InvalidateAllMem(k) == [reg |-> k.reg, mem |-> Nothing.mem, nz |-> k.nz]

SpModified(k) ==
    LET forgotten == InvalidateMirrorsOf(k, {"SP"})
    IN [reg |-> [forgotten.reg EXCEPT !["SP"] = Unknown], mem |-> forgotten.mem, nz |-> k.nz]

-----------------------------------------------------------------------------
\* A call of a procedure with declared attributes: the registers it declares, N and Z
\* if it declares either, then every fact about memory.
InvalidateSelective(k, regs, nz) ==
    LET selected == InvalidateRegs(k, regs)
    IN InvalidateAllMem(IF nz THEN InvalidateFlags(selected) ELSE selected)

\* OpEffect::apply for a simulated operation.
ApplyEffect(k, effect) ==
    LET regs == InvalidateRegs(k, effect.clobbers)
        flags == IF effect.flags THEN InvalidateFlags(regs) ELSE regs
        mem == IF effect.mem THEN InvalidateAllMem(flags) ELSE flags
    IN IF effect.stack THEN SpModified(mem) ELSE mem

-----------------------------------------------------------------------------
\* A fact is true of a value on machine m.
Holds(fact, value, m) ==
    /\ \A v \in Byte : fact = Constant(v) => value = v
    /\ \A r \in Register : fact = SameAs(r) => value = m.reg[r]
    /\ \A a \in Address : fact = SameAsMem(a) => value = m.mem[a]

\* Everything known is true on machine m.  Of the register N and Z come from, the
\* optimiser only ever asks whether it is A.
Sound(k, m) ==
    /\ \A r \in Register : Holds(k.reg[r], m.reg[r], m)
    /\ \A a \in Address : Holds(k.mem[a], m.mem[a], m)
    /\ k.nz = "A" => m.nz = m.reg["A"]
=============================================================================
