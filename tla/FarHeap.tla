------------------------------- MODULE FarHeap -------------------------------
(***************************************************************************)
(* The far heap of the runtime library (lib/src/far_malloc.c): for each bank  *)
(* an array of records, first fit, the remainder of a split appended at the   *)
(* end of the array, and neighbours in the array merged when a block is       *)
(* freed.  Its caller keeps the pointers it was given (held) and what it put  *)
(* behind them, and frees and resizes only those.                            *)
(***************************************************************************)
EXTENDS Integers, Sequences, FiniteSets

CONSTANTS
    Bank,
    Base,          \* HEAP_START: the first cell the heap uses
    Limit,         \* the size of a bank, 2^16: where size_t wraps as well
    MaxRecords,    \* MAX_ALLOCS_PER_BANK
    MaxHeld,       \* bound: how many pointers the caller keeps
    Zero, Data,    \* what the caller's memory can hold
    Unset          \* contents the caller expects nothing of

ASSUME BoundsAssumption ==
    /\ Base \in Nat \ {0} /\ Limit \in Nat /\ Base < Limit
    /\ MaxRecords \in Nat \ {0} /\ MaxHeld \in Nat \ {0}
ASSUME ValueAssumption == Unset \notin {Zero, Data}

Value == {Zero, Data}
Cell == Base..(Limit - 1)
Size == 1..(Limit - Base)
Record == [at : Cell, size : Size, free : BOOLEAN]
Pointer == [bank : Bank, at : Cell]

VARIABLES
    allocs,        \* per bank, allocs[0..num_allocs-1]; empty before its first use
    memory,        \* the cells of the banks
    held,          \* the caller's pointers, and what it expects of each cell behind them
    turn           \* per bank, the record coalesce_free_blocks has come to, 0 outside it

vars == <<allocs, memory, held, turn>>

TypeOK ==
    /\ \A b \in Bank : /\ Len(allocs[b]) <= MaxRecords
                       /\ \A i \in DOMAIN allocs[b] : allocs[b][i] \in Record
    /\ memory \in [Bank -> [Cell -> Value]]
    /\ DOMAIN held \subseteq Pointer
    /\ \A p \in DOMAIN held : held[p] \in Seq(Value \cup {Unset})
    /\ turn \in [Bank -> 0..MaxRecords]

Init ==
    /\ allocs = [b \in Bank |-> <<>>]
    /\ memory \in [Bank -> {[c \in Cell |-> Zero]}]
    /\ held = [p \in {} |-> <<>>]
    /\ turn = [b \in Bank |-> 0]

\* No call is in progress.
Idle == \A b \in Bank : turn[b] = 0

\* The caller has room for another pointer.
Room == Cardinality(DOMAIN held) < MaxHeld

-----------------------------------------------------------------------------
Null == 0

\* initialize_bank
Initialized(b) ==
    IF allocs[b] = <<>> THEN <<[at |-> Base, size |-> Limit - Base, free |-> TRUE]>> ELSE allocs[b]

\* find_free_block
Large(s, size) == {i \in DOMAIN s : s[i].free /\ s[i].size >= size}
Found(s, size) == CHOOSE i \in Large(s, size) : \A j \in Large(s, size) : i <= j

Exact(s, i) == [s EXCEPT ![i] = [at |-> s[i].at, size |-> s[i].size, free |-> FALSE]]

\* Mutated: the remainder begins one cell early.
SplitEarly(s, i, size) ==
    Append([s EXCEPT ![i] = [at |-> s[i].at, size |-> size, free |-> FALSE]],
           [at |-> s[i].at + size - 1, size |-> s[i].size - size, free |-> TRUE])

Split(s, i, size) ==
    Append([s EXCEPT ![i] = [at |-> s[i].at, size |-> size, free |-> FALSE]],
           [at |-> s[i].at + size, size |-> s[i].size - size, free |-> TRUE])

\* The block has to be split, and there is no record for the remainder.
NoRecordLeft(s, i, size) == s[i].size > size /\ Len(s) >= MaxRecords

\* far_malloc: the records of the bank afterwards, and the offset it returns.
Allocated(b, size) ==
    LET s == Initialized(b)
        i == Found(s, size)
    IN IF Large(s, size) = {} \/ NoRecordLeft(s, i, size) THEN [records |-> s, at |-> Null]
       ELSE IF s[i].size = size THEN [records |-> Exact(s, i), at |-> s[i].at]
       ELSE [records |-> Split(s, i, size), at |-> s[i].at]

\* The caller gets pointer p and expects `contents' behind it.
Given(h, p, contents) == [q \in DOMAIN h \cup {p} |-> IF q = p THEN contents ELSE h[q]]
Taken(h, P) == [q \in DOMAIN h \ P |-> h[q]]
Nothing(size) == [k \in 1..size |-> Unset]

\* Filled cells.
Fill(m, p, contents) ==
    [m EXCEPT ![p.bank] = [c \in Cell |-> IF c - p.at + 1 \in DOMAIN contents
                                          THEN contents[c - p.at + 1] ELSE m[p.bank][c]]]

-----------------------------------------------------------------------------
Malloc(b, size) ==
    /\ Idle /\ Room
    /\ LET out == Allocated(b, size)
       IN /\ allocs' = [allocs EXCEPT ![b] = out.records]
          /\ held' = IF out.at = Null THEN held
                     ELSE Given(held, [bank |-> b, at |-> out.at], Nothing(size))
    /\ UNCHANGED <<memory, turn>>

\* count * size wraps; far_malloc asserts that something is left.
Calloc(b, count, size) ==
    LET total == (count * size) % Limit
        zeros == [k \in 1..total |-> Zero]
        out == Allocated(b, total)
        p == [bank |-> b, at |-> out.at]
    IN /\ Idle /\ Room
       /\ total > 0
       /\ allocs' = [allocs EXCEPT ![b] = out.records]
       /\ IF out.at = Null THEN UNCHANGED <<memory, held>>
          ELSE memory' = Fill(memory, p, zeros) /\ held' = Given(held, p, zeros)
       /\ UNCHANGED turn

\* The caller fills a block.
Write(p) ==
    LET contents == [k \in DOMAIN held[p] |-> Data]
    IN /\ Idle
       /\ memory' = Fill(memory, p, contents)
       /\ held' = [held EXCEPT ![p] = contents]
       /\ UNCHANGED <<allocs, turn>>

-----------------------------------------------------------------------------
\* The record of a block in use.
RecordOf(s, offset) == CHOOSE i \in DOMAIN s : s[i].at = offset /\ ~s[i].free

Marked(s, i) == [s EXCEPT ![i] = [at |-> s[i].at, size |-> s[i].size, free |-> TRUE]]

\* far_free: mark the record, then coalesce.
Freed(s, offset) == Marked(s, RecordOf(s, offset))

FarFree(p) ==
    /\ Idle
    /\ allocs' = [allocs EXCEPT ![p.bank] = Freed(@, p.at)]
    /\ held' = Taken(held, {p})
    /\ turn' = [turn EXCEPT ![p.bank] = 1]
    /\ UNCHANGED memory

\* Mutated: neighbours in the array are merged wherever they lie.
MergeableAnywhere(s, i) == s[i].free /\ s[i + 1].free

Mergeable(s, i) == s[i].free /\ s[i + 1].free /\ s[i].at + s[i].size = s[i + 1].at

\* Mutated: the merged record is not removed.
MergedTwice(s, i) ==
    [s EXCEPT ![i] = [at |-> s[i].at, size |-> s[i].size + s[i + 1].size, free |-> TRUE]]

Merged(s, i) ==
    [j \in 1..(Len(s) - 1) |->
        IF j < i THEN s[j]
        ELSE IF j = i THEN [at |-> s[i].at, size |-> s[i].size + s[i + 1].size, free |-> TRUE]
        ELSE s[j + 1]]

\* One turn of the loop of coalesce_free_blocks.
Coalesce(b) ==
    LET s == allocs[b]
        i == turn[b]
    IN /\ i # 0
       /\ \/ /\ i < Len(s) /\ Mergeable(s, i)
             /\ allocs' = [allocs EXCEPT ![b] = Merged(s, i)]
             /\ UNCHANGED turn
          \/ /\ i < Len(s) /\ ~Mergeable(s, i)
             /\ turn' = [turn EXCEPT ![b] = i + 1]
             /\ UNCHANGED allocs
          \/ /\ i >= Len(s)
             /\ turn' = [turn EXCEPT ![b] = 0]
             /\ UNCHANGED allocs
       /\ UNCHANGED <<memory, held>>

-----------------------------------------------------------------------------
\* Mutated: nothing is copied into a larger block.
CopiedDown(p, oldSize, size) ==
    [k \in 1..(IF oldSize < size THEN 0 ELSE size) |-> memory[p.bank][p.at + k - 1]]

\* memcpy of the smaller size, between blocks of one bank.
Copied(p, oldSize, size) ==
    [k \in 1..(IF oldSize < size THEN oldSize ELSE size) |-> memory[p.bank][p.at + k - 1]]

\* What the caller expects of the new block: in another bank nothing was copied.
Carried(p, b, size) ==
    [k \in 1..size |-> IF b = p.bank /\ k \in DOMAIN held[p] THEN held[p][k] ELSE Unset]

\* far_realloc: a new block, a copy, and far_free of the old one.
Realloc(p, size, b) ==
    LET old == allocs[p.bank]
        oldSize == old[RecordOf(old, p.at)].size
        out == Allocated(b, size)
        q == [bank |-> b, at |-> out.at]
        after == [allocs EXCEPT ![b] = out.records]
    IN /\ Idle
       /\ oldSize # size \/ b # p.bank
       /\ IF out.at = Null
          THEN allocs' = after /\ UNCHANGED <<memory, held, turn>>
          ELSE /\ allocs' = [after EXCEPT ![p.bank] = Freed(@, p.at)]
               /\ memory' = IF b = p.bank THEN Fill(memory, q, Copied(p, oldSize, size)) ELSE memory
               /\ held' = Given(Taken(held, {p}), q, Carried(p, b, size))
               /\ turn' = [turn EXCEPT ![p.bank] = 1]

\* bank_reset and bank_reset_all: what the caller held there is gone.
BankReset(B) ==
    /\ Idle
    /\ allocs' = [b \in Bank |-> IF b \in B THEN <<>> ELSE allocs[b]]
    /\ held' = Taken(held, {p \in DOMAIN held : p.bank \in B})
    /\ UNCHANGED <<memory, turn>>

Next ==
    \/ \E b \in Bank, size \in Size : Malloc(b, size)
    \/ \E b \in Bank, count, size \in Size : Calloc(b, count, size)
    \/ \E p \in DOMAIN held : Write(p)
    \/ \E p \in DOMAIN held : FarFree(p)
    \/ \E b \in Bank : Coalesce(b)
    \/ \E p \in DOMAIN held, size \in Size, b \in Bank : Realloc(p, size, b)
    \/ \E b \in Bank : BankReset({b})
    \/ BankReset(Bank)

Spec == Init /\ [][Next]_vars

-----------------------------------------------------------------------------
\* The blocks in use, according to the records.
BlockOf(b, r) == [bank |-> b, at |-> r.at, size |-> r.size]
LiveOf(b, s) == {BlockOf(b, s[i]) : i \in {j \in DOMAIN s : ~s[j].free}}
Live == UNION {LiveOf(b, allocs[b]) : b \in Bank}

A == INSTANCE Allocator WITH live <- Live

\* The far heap is an allocator: a block it hands out touches no block in use, and only
\* its owner ends its use, however often records are split, moved down and merged.
Implements == A!Spec

\* The records of a bank are a partition of its heap: no cell is in two records, and
\* none is lost, at every turn of the merging loop.
Disjoint(s) == \A i, j \in DOMAIN s : i # j => s[i].at + s[i].size <= s[j].at \/ s[j].at + s[j].size <= s[i].at
Covering(s) == \A c \in Cell : \E i \in DOMAIN s : s[i].at <= c /\ c < s[i].at + s[i].size

RecordsPartitionBank == \A b \in Bank : Disjoint(allocs[b]) /\ (allocs[b] # <<>> => Covering(allocs[b]))

HeldBlock(h, p) == [bank |-> p.bank, at |-> p.at, size |-> Len(h[p])]

\* The pointers the caller holds are the blocks in use, each of the size it asked for.
HeldIsLive == Live = {HeldBlock(held, p) : p \in DOMAIN held}

\* A block holds what its owner last put there, through resizing within the bank and
\* whatever is done with other blocks.
ContentsKept ==
    \A p \in DOMAIN held : \A k \in DOMAIN held[p] :
        held[p][k] \in {Unset, memory[p.bank][p.at + k - 1]}
=============================================================================
