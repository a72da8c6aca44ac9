------------------------------ MODULE Peephole ------------------------------
(***************************************************************************)
(* The pass of ca45's optimiser that deletes instructions on the strength of *)
(* MachineState (AssemblerOptimizer::optimize, pass 2): redundant loads,      *)
(* CMP #0, redundant TSX.  The statements of a program come one at a time,    *)
(* any statement after any other; the program as it was written (orig) and    *)
(* the program as it is assembled (opt) are run next to each other, and       *)
(* `known' is what the optimiser knows when it reaches the statement.         *)
(*                                                                           *)
(* N and Z are represented by the byte they were set from.  The results of    *)
(* arithmetic are left open, but two machines compute the same result from    *)
(* the same inputs.                                                           *)
(*                                                                           *)
(* An operand is given by what it means (is) and by what the pass takes it    *)
(* for (read): parseNum reads the number the text starts with and does not    *)
(* look at what follows, so $20+1 means $21 and is read as $20.               *)
(***************************************************************************)
EXTENDS Integers, MachineState

CONSTANTS
    Zero,          \* the byte 0
    Negative,      \* the bytes with bit 7 set
    Immediates,    \* the immediate operands of the program that start with a number
    Operands,      \* its addresses that start with a number, and their addressing modes
    Modified,      \* of them, those its INC, DEC and shifts modify
    LabelKinds,    \* the kinds of its labels: some are overlooked as barriers
    Arrivals,      \* the machines its labels may be reached with
    Passes,        \* the peepholes that are on, of redundantLoad, cmpElimination, tsxRedundant
    Procs,         \* the procedures with declared attributes that the program calls
    Simulated,     \* the OpEffects of the simulated operations it uses
    Pulled,        \* the registers it pulls from the stack
    Aliased,       \* the tracked cells its indexed and indirect stores may reach
    Unlisted,      \* what its instructions without a case in the pass, or excluded from it, change
    Lookahead      \* how many statements after a load are searched for a label (3)

ASSUME ByteAssumption == Zero \in Byte \ Negative /\ Negative \subseteq Byte
ASSUME ProgramAssumption ==
    /\ Procs \subseteq [clobbers : SUBSET (Register \ {"SP"}), nz : BOOLEAN, writes : SUBSET Address]
    /\ Simulated \subseteq [clobbers : SUBSET Register, flags : BOOLEAN, mem : BOOLEAN, stack : BOOLEAN]
    /\ Unlisted \subseteq [clobbers : SUBSET Register, nz : BOOLEAN]
    /\ Pulled \subseteq Register \ {"SP"}
    /\ Aliased \subseteq Address

\* An address above 255 is never assembled in base-page mode; one below may be forced
\* into absolute mode (lda.abs $20).
ASSUME OperandAssumption ==
    /\ Immediates \subseteq [is : Byte, read : Byte]
    /\ Operands \subseteq [is : Address, read : Address, mode : {"base page", "absolute"}]
    /\ \A o \in Operands : o.mode = "base page" => o.read \in ZeroPage
    /\ Modified \subseteq Operands
    /\ LabelKinds \subseteq {"barrier", "overlooked"}
ASSUME LookaheadAssumption == Lookahead \in Nat

Machine == [reg : [Register -> Byte], mem : [Address -> Byte], nz : Byte, carry : BOOLEAN]
ASSUME ArrivalAssumption == Arrivals \subseteq Machine

VARIABLES
    orig,          \* the machine running the program as written
    opt,           \* the machine running what is assembled
    known,         \* the optimiser's MachineState
    agree,         \* whatever read a flag so far read the same one on both machines
    noLabel,       \* how many statements to come are known to carry no label
    noCarryBranch  \* the next statement is known not to be BCC or BCS

vars == <<orig, opt, known, agree, noLabel, noCarryBranch>>

TypeOK ==
    /\ orig \in Machine /\ opt \in Machine
    /\ known \in Knowledge
    /\ agree \in BOOLEAN /\ noCarryBranch \in BOOLEAN
    /\ noLabel \in 0..Lookahead

Init ==
    /\ orig \in Machine /\ opt = orig
    /\ known = Nothing
    /\ agree = TRUE /\ noLabel = 0 /\ noCarryBranch = FALSE

-----------------------------------------------------------------------------
Data(m) == [reg |-> m.reg, mem |-> m.mem]
Load(m, r, v) == [m EXCEPT !.reg[r] = v, !.nz = v]
WithFlags(m, n, c) == [m EXCEPT !.nz = n, !.carry = c]

\* New values for the registers R and the cells C, for N and Z (if nz) and carry (if c).
Outcome(R, C, nz, c) == [reg : [R -> Byte], mem : [C -> Byte],
                         nz : IF nz THEN Byte ELSE {Zero}, carry : IF c THEN BOOLEAN ELSE {FALSE}]

Changed(m, R, C, nz, c, o) ==
    [reg |-> [r \in Register |-> IF r \in R THEN o.reg[r] ELSE m.reg[r]],
     mem |-> [a \in Address |-> IF a \in C THEN o.mem[a] ELSE m.mem[a]],
     nz |-> IF nz THEN o.nz ELSE m.nz,
     carry |-> IF c THEN o.carry ELSE m.carry]

\* Both machines execute an instruction that may change these parts; what comes out is
\* the same for both if the inputs of the instruction agree.
BothChange(R, C, nz, c, inputsAgree) ==
    \E o \in Outcome(R, C, nz, c) :
        /\ orig' = Changed(orig, R, C, nz, c, o)
        /\ \E p \in IF inputsAgree THEN {o} ELSE Outcome(R, C, nz, c) :
               opt' = Changed(opt, R, C, nz, c, p)

SameData == Data(orig) = Data(opt)

\* One more statement was passed.
Passed == noLabel' = (IF noLabel = 0 THEN 0 ELSE noLabel - 1) /\ noCarryBranch' = FALSE

-----------------------------------------------------------------------------
\* Redundant loads.  LDY #0 is never one.
RedundantConst(r, v) == known.reg[r] = Constant(v) /\ ~(r = "Y" /\ v = Zero)

\* Mutated: the two constants are not compared.
RedundantAnyConstant(r, a) ==
    \/ a \in ZeroPage /\ known.reg[r] = SameAsMem(a)
    \/ known.mem[a] = SameAs(r)
    \/ IsConst(known.reg[r]) /\ IsConst(known.mem[a])

RedundantLoad(r, a) ==
    \/ a \in ZeroPage /\ known.reg[r] = SameAsMem(a)
    \/ known.mem[a] = SameAs(r)
    \/ IsConst(known.reg[r]) /\ known.mem[a] = known.reg[r]

\* The load is deleted: there is no label on the statements that follow.
Deleted ==
    /\ "redundantLoad" \in Passes
    /\ UNCHANGED <<opt, known>>
    /\ noLabel' = Lookahead /\ noCarryBranch' = FALSE

LoadImmediate(r, i, labelAhead) ==
    /\ orig' = Load(orig, r, i.is)
    /\ \/ RedundantConst(r, i.read) /\ ~labelAhead /\ Deleted
       \/ /\ "redundantLoad" \in Passes => labelAhead \/ ~RedundantConst(r, i.read)
          /\ opt' = Load(opt, r, i.is)
          /\ known' = SetConst(known, r, i.read)
          /\ Passed
    /\ UNCHANGED agree

\* A load in absolute mode is looked up in the base page if its address is below 256,
\* but records nothing.
LoadCell(r, o, labelAhead) ==
    /\ orig' = Load(orig, r, orig.mem[o.is])
    /\ \/ RedundantLoad(r, o.read) /\ ~labelAhead /\ Deleted
       \/ /\ "redundantLoad" \in Passes => labelAhead \/ ~RedundantLoad(r, o.read)
          /\ opt' = Load(opt, r, opt.mem[o.is])
          /\ known' = IF o.mode = "base page" THEN SetRegFromZP(known, r, o.read)
                      ELSE SetLoaded(known, r)
          /\ Passed
    /\ UNCHANGED agree

\* An indexed, indirect or symbolic operand: any value.
LoadElsewhere(r, v) ==
    /\ orig' = Load(orig, r, v)
    /\ \E w \in Byte : (SameData => w = v) /\ opt' = Load(opt, r, w)
    /\ known' = SetLoaded(known, r)
    /\ Passed /\ UNCHANGED agree

StoreCell(o, r) ==
    /\ orig' = [orig EXCEPT !.mem[o.is] = orig.reg[r]]
    /\ opt' = [opt EXCEPT !.mem[o.is] = opt.reg[r]]
    /\ known' = Store(known, o.read, r)
    /\ Passed /\ UNCHANGED agree

\* A store whose address the pass does not know leaves its knowledge alone.
StoreElsewhere ==
    /\ Passed /\ UNCHANGED <<known, agree>>
    /\ BothChange({}, Aliased, FALSE, FALSE, SameData)

\* TAX, TXA, TAY, TYA, TAZ, TZA.
Transfer(d, s) ==
    /\ orig' = Load(orig, d, orig.reg[s])
    /\ opt' = Load(opt, d, opt.reg[s])
    /\ known' = SetTransfer(known, d, s)
    /\ Passed /\ UNCHANGED agree

\* A TSX while X is known to hold SP is deleted.
Tsx ==
    /\ orig' = Load(orig, "X", orig.reg["SP"])
    /\ IF "tsxRedundant" \in Passes /\ XHoldsSP(known)
       THEN UNCHANGED <<opt, known>>
       ELSE opt' = Load(opt, "X", opt.reg["SP"]) /\ known' = SetTransfer(known, "X", "SP")
    /\ Passed /\ UNCHANGED agree

-----------------------------------------------------------------------------
\* Arithmetic, logic, shifts, increments and decrements of a register; ADC, SBC, ROL
\* and ROR read carry and set it, ASL and LSR set it, the others do neither.
Compute(r, reads, sets) ==
    /\ known' = InvalidateFlags(InvalidateRegs(known, {r}))
    /\ agree' = (agree /\ (reads => orig.carry = opt.carry))
    /\ Passed
    /\ BothChange({r}, {}, TRUE, sets, SameData /\ (reads => orig.carry = opt.carry))
    /\ orig'.nz = orig'.reg[r] /\ opt'.nz = opt'.reg[r]

\* What is known after the cell of an operand was modified: in absolute mode only the
\* cache of absolute addresses is told, also of an address of the base page.
CellModified(k, o) ==
    IF o.mode = "base page" THEN InvalidateZP(k, o.read) ELSE InvalidateAbs(k, o.read)

\* INC, DEC and the shifts of a memory cell.
ComputeCell(o, reads, sets) ==
    /\ known' = InvalidateFlags(CellModified(known, o))
    /\ agree' = (agree /\ (reads => orig.carry = opt.carry))
    /\ Passed
    /\ BothChange({}, {o.is}, TRUE, sets, SameData /\ (reads => orig.carry = opt.carry))
    /\ orig'.nz = orig'.mem[o.is] /\ opt'.nz = opt'.mem[o.is]

\* The same with an operand that is indexed or no number: the pass forgets the flags only.
ComputeElsewhere(reads, sets) ==
    /\ known' = InvalidateFlags(known)
    /\ agree' = (agree /\ (reads => orig.carry = opt.carry))
    /\ Passed
    /\ BothChange({}, Aliased, TRUE, sets, SameData /\ (reads => orig.carry = opt.carry))

\* A compare of A with zero sets N and Z from A and sets carry; with another value
\* they are left open.
Compared(m, i) == IF i.is = Zero THEN {WithFlags(m, m.reg["A"], TRUE)}
                  ELSE {WithFlags(m, n, c) : n \in Byte, c \in BOOLEAN}

\* CMP with an operand read as 0.  It is deleted when N and Z already reflect A, unless
\* the next statement is BCC or BCS.
CompareZero(i, carryBranchNext) ==
    /\ i.read = Zero
    /\ orig' \in Compared(orig, i)
    /\ IF "cmpElimination" \in Passes /\ known.nz = "A" /\ ~carryBranchNext
       THEN UNCHANGED <<opt, known>>
       ELSE /\ opt' \in Compared(opt, i)
            /\ SameData => opt'.nz = orig'.nz /\ opt'.carry = orig'.carry
            /\ known' = InvalidateFlags(known)
    /\ noLabel' = (IF noLabel = 0 THEN 0 ELSE noLabel - 1)
    /\ noCarryBranch' = ~carryBranchNext
    /\ UNCHANGED agree

\* The other compares.
Compare ==
    /\ known' = InvalidateFlags(known)
    /\ Passed /\ UNCHANGED agree
    /\ BothChange({}, {}, TRUE, TRUE, SameData)

SetCarry(c) ==
    /\ orig' = [orig EXCEPT !.carry = c]
    /\ opt' = [opt EXCEPT !.carry = c]
    /\ Passed /\ UNCHANGED <<known, agree>>

\* PHA, PHX, PHY, PHZ, PHW: of what is tracked only SP changes.
Push ==
    /\ known' = SpModified(known)
    /\ Passed /\ UNCHANGED agree
    /\ BothChange({"SP"}, {}, FALSE, FALSE, SameData)

Pull(r) ==
    /\ known' = InvalidateRegs(SpModified(known), {r})
    /\ Passed /\ UNCHANGED agree
    /\ BothChange({r, "SP"}, {}, TRUE, FALSE, SameData)
    /\ orig'.nz = orig'.reg[r] /\ opt'.nz = opt'.reg[r]

-----------------------------------------------------------------------------
\* JSR to a procedure whose attributes are declared.  SP is back when it returns.
CallKnown(p) ==
    /\ known' = InvalidateSelective(known, p.clobbers, p.nz)
    /\ Passed /\ UNCHANGED agree
    /\ BothChange(p.clobbers, p.writes, p.nz, TRUE, SameData)

\* Any other JSR, CALL, BSR.
CallUnknown ==
    /\ known' = Nothing
    /\ Passed /\ UNCHANGED agree
    /\ BothChange(Register \ {"SP"}, Address, TRUE, TRUE, SameData)

\* A label: control may come from anywhere, with other registers and memory, and with any
\* flags on the side of the assembled program.  A label is a barrier unless it stands on a
\* directive or on a statement already deleted, or starts with @ outside every scope.
Label(kind) ==
    /\ noLabel = 0
    /\ orig' \in Arrivals
    /\ \E n \in Byte, c \in BOOLEAN : opt' = WithFlags(orig', n, c)
    /\ known' = IF kind = "barrier" THEN Nothing ELSE known
    /\ Passed /\ UNCHANGED agree

\* A conditional branch reads N and Z, or carry; what follows is the fall-through.
BranchNZ ==
    /\ agree' = (agree /\ (orig.nz = Zero <=> opt.nz = Zero)
                       /\ (orig.nz \in Negative <=> opt.nz \in Negative))
    /\ Passed /\ UNCHANGED <<orig, opt, known>>

BranchCarry ==
    /\ ~noCarryBranch
    /\ agree' = (agree /\ orig.carry = opt.carry)
    /\ Passed /\ UNCHANGED <<orig, opt, known>>

\* A simulated operation does what its OpEffect says.
SimulatedOp(effect) ==
    /\ known' = ApplyEffect(known, effect)
    /\ Passed /\ UNCHANGED agree
    /\ BothChange(effect.clobbers \cup (IF effect.stack THEN {"SP"} ELSE {}),
                  IF effect.mem THEN Address ELSE {}, effect.flags, effect.flags, SameData)

\* An instruction the pass has no case for.
UnlistedInstruction(u) ==
    /\ Passed /\ UNCHANGED <<known, agree>>
    /\ BothChange(u.clobbers, {}, u.nz, FALSE, SameData)

-----------------------------------------------------------------------------
General == Register \ {"SP"}

Next ==
    \/ \E r \in General, i \in Immediates, b \in BOOLEAN : LoadImmediate(r, i, b)
    \/ \E r \in General, o \in Operands, b \in BOOLEAN : LoadCell(r, o, b)
    \/ \E r \in General, v \in Byte : LoadElsewhere(r, v)
    \/ \E o \in Operands, r \in General : StoreCell(o, r)
    \/ StoreElsewhere
    \/ \E r \in General \ {"A"} : Transfer(r, "A") \/ Transfer("A", r)
    \/ Tsx
    \/ \E r \in General, reads, sets \in BOOLEAN :
           /\ reads => sets
           /\ sets => r = "A"
           /\ Compute(r, reads, sets)
    \/ \E o \in Modified, reads, sets \in BOOLEAN : (reads => sets) /\ ComputeCell(o, reads, sets)
    \/ \E reads, sets \in BOOLEAN : (reads => sets) /\ ComputeElsewhere(reads, sets)
    \/ \E i \in Immediates, b \in BOOLEAN : CompareZero(i, b)
    \/ Compare
    \/ \E c \in BOOLEAN : SetCarry(c)
    \/ Push
    \/ \E r \in Pulled : Pull(r)
    \/ \E p \in Procs : CallKnown(p)
    \/ CallUnknown
    \/ \E kind \in LabelKinds : Label(kind)
    \/ BranchNZ
    \/ BranchCarry
    \/ \E effect \in Simulated : SimulatedOp(effect)
    \/ \E u \in Unlisted : UnlistedInstruction(u)

Spec == Init /\ [][Next]_vars

-----------------------------------------------------------------------------
\* Whatever the optimiser believes about a register, a cell or the flags is true of
\* the program it is assembling, at every statement: this is what makes a deletion
\* right at all.
FactsTrue == Sound(known, opt)

\* As long as no instruction has read a flag that differs, the two programs compute
\* the same registers and the same memory: a deleted load, compare or TSX changes
\* nothing but flags.
DataPreserved == agree => SameData
=============================================================================
