# Formal models of the m65compiler tool suite

The repository builds a cross-development suite for the MEGA65: a C compiler (`cc45`), an assembler
(`ca45`), a linker (`ln45`), an archiver (`ar45`), object tools, a disk-image tool with a FUSE mount
(`disk45`), a BASIC compiler (`basic45`), a converter between assembler dialects (`cvt_asm`) and a
runtime library for the target (`lib/`). This directory holds TLA+ models of the parts whose state,
order of steps or concurrency can go wrong in ways a unit test would hardly reach, the TLC
configurations that check them on small instances, and TLAPS proofs that hold for every instance.

Paths below are relative to the repository root.

Contents: [running](#running) · [inventory](#inventory) · [modules](#modules) ·
[correspondence with the code](#correspondence-with-the-code) · [what each run shows](#what-each-run-shows) ·
[bounds](#bounds) · [fairness](#fairness) · [proofs](#proofs) · [where code and promise differ](#where-code-and-promise-differ) ·
[not modelled](#not-modelled) · [plan](#plan)

## Running

    tlc -config Disk45.cfg MCDisk45.tla       # one run; PROJECT.json "runs" lists module and cfg of each
    tlapm ThreadPool_proof.tla                # the proofs of one component

`PROJECT.json` lists the components, the runs, the source lines every definition stands for (`map`),
the hazards each property is aimed at, and for every property of a passing run a *mutant*: an operator
of the module, marked `Mutated:` in its comment, that changes one definition the way a plausible bug
would and makes the run fail.

## Inventory

| part | state | operations | interacts with | hard behaviours | what makes it correct |
|---|---|---|---|---|---|
| `ln45` member resolution (`O45Linker::resolveLibraries`) | objects in the link, sets `defined` and `undefined`, `pulledMembers`, `changed` | seed worklist; per index entry skip or pull; next pass | symbol index written by `ar45`; its result is what the layout lays out | cyclic and cross-archive demand, in-place update of sets being scanned, unreadable member half way | worklist exact; only needed members; none missed; ends |
| `ca45` object output (`O45Emitter`) | one object file | concatenate text sub-segments, export offsets, relocation records, attributes | read by `ln45` | operands assembled relative to a sub-segment | the linker can find what each reference meant |
| `ln45` layout, symbols, thunks, relocation, image | merged segments, `textRemaps`, `globalSymbols`, `callSiteOverrides`, bases, `binary` | `layoutSegments`, `resolveSymbols`, `generateThunks`, `applyRelocs`, emit | object files; `crt0.s45`, whose start-up code relies on the order of init code and the BSS boundaries | phases that append after earlier ones fixed addresses; weak and strong definitions in any order; offsets adjusted twice | every reference reaches the definition meant; nothing lost or overlaid; start-up first; fails only for cause |
| `ln45` static allocation | call graph, search sets, conflicts, colours; at run time the call stack | build graph, check recursion, check handlers, conflicts, colour | compiler flags `static_alloc`, `isr`; run time of the program | long call chains, interrupts at any point, shared slots of unequal sizes | no re-entry of a function with fixed locals; no two live records overlap |
| `cvt_asm` batch conversion (`ThreadPool`) | task queue, `stop`, `activeThreads`, condition variable; counters | enqueue, worker loop, `waitAll`, destructor | main thread, `hardware_concurrency` workers | lost wake-ups, spurious wake-ups, shutdown races, exceptions | each file converted once; exit code right; always ends |
| `disk45` images (`DiskImage`, `D81Image`, ...), CLI and FUSE | BAM, sector links, directory, payload; the saved file and the mounted copy | add, remove, rename, splat, copy, dir-ensure, dir-shrink; create, write, truncate, unlink, rename; mount, unmount | CLI and mount read and write the same image file; the mount serves one callback at a time | disk and directory full, failure half way, re-use of freed directory slots, remove-then-add writes | chains never cross; used sectors stay allocated; a call touches only its files; no leak; reads return what was written |
| `ca45` peephole optimiser (`AssemblerOptimizer`, `MachineState`) | what every register, tracked memory cell and flag is known to hold; statements marked deleted | one update per instruction kind; delete loads, `CMP #0`, `TSX` | statements of the parser; procedures' declared clobbers | facts that go stale through mirrors, calls, labels, unlisted instructions | the program assembled computes what the program written does |
| `cc45` register allocation (`VRegAllocator`, loads and stores of `IRCodeGen`) | live ranges, allocations, zero-page pool, frame slots, freed slots | flatten, ranges, extend over loops, place locals, place temporaries; then the code runs | IR of one function; `M65Emitter` | slots shared by ranges, loops that go back before a reuse, calls that clobber the pool | a read finds what was assigned last; the frame is used only when it must be |
| far heap (`far_malloc.c`) | per bank an array of block records | allocate, allocate zeroed, resize, free with coalescing, reset | graphics and audio libraries | split and merge, full record table, moves within and across banks | blocks disjoint and in bounds, contents survive, every block has its owner |
| runtime events (`event_system.c`) | subscribers per event, queue | subscribe, unsubscribe, publish, publish deferred, process, clear | callbacks that call back | re-entrancy while iterating | each subscriber once; deferred events once and in order; loops end |
| runtime heap (`malloc.s45`), pools (`mem_pool.c`), resources (`resource_manager.c`) | free list, arenas, reference counts | alloc, free; acquire, release | every library client | byte-wise address arithmetic, freed handles | blocks disjoint; counts balance |
| `cc45` front end, IR passes, instruction selection | trees, IR | stage by stage | files and one context | passes that must preserve meaning | output means what input means |
| `ca45` parser, expressions, simulated operations | tokens, statements | multi-pass | `O45Emitter` | addresses that move between passes | meaning kept |
| include cache (`MacroUtils.hpp`) | cache under a mutex | find, check stale, read, store | `cvt_asm` threads | check and store are separate critical sections | content returned is the file's |
| `ar45`, `nm45`, `objdump45`, `basic45`, dialect readers and writers, archive and tape formats, audio library, learning and benchmark reports, IDE server | none between calls | one pass | files | none of the above | output matches input |

The components with the sources each covers are in `PROJECT.json`; the first ten rows are modelled.

## Modules

    DemandClosure  <== LibraryResolution <- MCLibraryResolution, Linker_proof
    ObjectFile <- LinkImage <- MCLinkImage, Linker_proof
    StaticAlloc <- MCStaticAlloc, StaticAlloc_proof
    BatchConversion <== ThreadPool <- ThreadPool_proof
    DiskImage <- Disk45 <- MCDisk45, Disk45_proof
    MachineState <- Peephole <- MCPeephole, Peephole_proof
    VRegs <- MCVRegs, VRegs_proof
    Allocator <== FarHeap <- MCFarHeap, FarHeap_proof
    DeferredQueue <== EventSystem <- MCEventSystem, EventSystem_proof

(`A <- B`: B extends A; `A <== B`: B is shown to implement the abstract specification A by a refinement
mapping.) Every state machine is parameterised by CONSTANTS with named assumptions. No module has a
RECURSIVE operator.

* **DemandClosure** - abstract linking on demand: add any member that supplies a missing symbol, stop
  when none does. No order, no passes, no index.
* **LibraryResolution** - `resolveLibraries`, one action per iteration of the innermost loop.
* **ObjectFile** - what `O45Emitter` makes of a unit: concatenated sub-segments, export table,
  relocation records. Instructions are records (`op`, label, assembled value), one cell each.
* **LinkImage** - `O45Linker::link` after resolution, one action per round of a phase's loop.
* **StaticAlloc** - the analysis, search step by search step, and then the accepted program itself:
  calls, tail calls, returns and interrupts.
* **BatchConversion** - what a batch promises: files are converted in some order, each once, then the
  exit code follows from the outcomes.
* **ThreadPool** - the pool and main thread; what a thread does under `queueMutex` is one step, a
  notification after the unlock another.
* **DiskImage** - operations of the image classes as operators from image to image, with the failure
  points and what each leaves behind.
* **Disk45** - the state machine of commands on the saved image and callbacks on the mounted one.
* **MachineState** - the facts the optimiser keeps and its update functions, as operators.
* **Peephole** - the program as written and the program as assembled, run side by side.
* **VRegs** - the allocator on one function, step by step, and then the code it leads to.
* **Allocator** - what a heap promises: blocks in use never overlap and stay until given back.
* **FarHeap** - the record arrays, the merging loop and a caller that fills what it is given.
* **DeferredQueue** - deferred events are delivered once, in order, unless cleared.
* **EventSystem** - the loops of publish and process as a stack of frames; a callback may use the system again.

## Correspondence with the code

The exact lines are in `PROJECT.json` under `map`.

**LibraryResolution** (`src/main/O45Linker.cpp` 80-146). `objects`, `defined`, `undefined`,
`pulledMembers`, `changed` are the function's variables; `mem` and `sym` are the positions of the
loops over archives, members and index entries (flattened: `Archive` is the sequence of all members in
scan order, an archive named twice appears twice). `Collect` is the two seeding loops, `SkipEntry` the
two `continue`s, `PullMember` reads the member, appends it and edits both sets, `ReadError` the early
return, `NextMember`/`EndPass` the loop ends. `Key` is the string the code remembers a member by.
`exports` and `imports` are chosen in `Init` and never change: they are the files.

**ObjectFile/LinkImage** (`src/main/O45Emitter.cpp` 627-760, `O45Linker.cpp` 147-823, 2420-2450, 2894-3056). `EmitO45(u, n)`
is the object `ca45` writes for unit `n`, `IsUnit` what a unit can be; `inputs` are the objects of a link. `PlaceChunk` and
`PlaceData` are the rounds of `layoutSegments`: one sub-segment, in the order `ChunkBefore` of the
linker's groups, then one object's data and BSS; `textRemaps`, `dataOffset` and `bssOffset` are what an `InputObject` keeps of it.
`SetBases` chooses the addresses no option set (`Unset`). `ResolveObject` is one object's turn in `resolveSymbols` (weak and
strong rules, duplicate error); `CheckImports` adds the `__bss_*` boundaries and fails on missing symbols;
`GenerateThunks` covers `buildFuncAttrs`, the call graph's edges, `emitDiagnostics`' mismatch search with the `error` mode and
`generateThunks`; `ApplyReloc` is one relocation with `remapTextOffset` and `callSiteOverrides`; `Emit` joins text,
gap and data. Each cell carries a `home` (object, segment, offset) that no action reads: it lets the
properties say where a cell came from.

**StaticAlloc** (`O45Linker.cpp` 870-927, 2455-2560, 2700-2870). `BuildCallGraph` attributes each JSR to
the exported function before it; `SearchRecursion`, `SearchIsr`, `Visit`, `FindRecursion`, `EndSearch`
are the two breadth-first searches; `BuildConflicts` and `ColorFunction` the allocation; `SlotBase`
the layout. `Call`, `TailCall`, `Return`, `Interrupt` execute the program on a stack; a handler may come
between any two steps, those of a handler included.

**ThreadPool** (`include/ThreadPool.hpp`, `src/main/cvt_asm_main.cpp` 1009-1070). `tasks`, `stop` and
`activeThreads` are the members; `waitSet` is the set of threads asleep on the condition variable;
`at[w]` and `main` are program counters. `Begin` and `Finish`, the two updates of the atomic counter outside the
lock, are steps of their own; so is `NotifyOne`, which may wake any sleeper, including `main`.

**DiskImage/Disk45** (`src/main/DiskImage.cpp`, `D81Image.cpp`, `BAMOperations.cpp`, `disk45_main.cpp`,
`disk45_fuse.cpp`). An image is `free` (the BAM), `link` (a sector's first two bytes), `data` and `dir`.
Sectors are numbered in the order `allocateNextFree` tries them. `saved` is the image file, `g_img` the
mounted copy (equal to `saved` when nothing is mounted), `reply` the last call's outcome: its status `ok`, and whether
it brought in every file it was to add (`complete`), which no guard reads. A command
loads, changes and, if it succeeded, saves; `copy` saves and reports success when only some of its files fitted. A
callback changes `g_img` and saves it if it succeeded; one that failed leaves what it changed in memory,
where the next success saves it too. `Unmount`, or the death of the process, drops what was not saved.

**MachineState/Peephole** (`include/MachineState.hpp`, `include/OpEffect.hpp`, `src/main/AssemblerOptimizer.cpp` 315-800).
`known` is the `MachineState` of the pass. A program is a sequence of statements chosen one at a time,
each an action: `LoadImmediate`, `LoadCell`, `StoreCell`, `Tsx`, `CompareZero`, `CallKnown`, `Label` and so
on. An operand has what it means (`is`) and what `parseNum` reads (`read`): the number its text starts with, so
`$20+1` means $21 and is read as $20. A label is a barrier or is overlooked; control may come to it with any of `Arrivals`.
An instruction in a `.noopt` region is one without a case, `UnlistedInstruction`, or `StoreElsewhere` if it stores.
`orig` executes every statement, `opt` only those the pass keeps. What arithmetic computes is left open,
but two machines with the same inputs get the same result; N and Z are the byte they were set from.
`noLabel` and `noCarryBranch` carry what the pass learned by looking ahead.

**VRegs** (`src/main/VRegAllocator.cpp`, `IRCodeGen.cpp` `storeVreg`, `loadOperand`). `FirstDef`, `LastMention` are
`computeLiveRanges`; `ExtendOverLoop` is one back edge of `extendLiveRangesAcrossLoops`; `PlaceLocal` one turn of
phase 1 of `assignLocations`; phase 2 visits the ranges in order, each ending in `Skip`,
`PlaceInMemory`, `PlaceInAX`, `PlaceInZp` or `PlaceInFrame`. Then `Enter`, `Compute`, `Call`, `Branch` and `Return` run
the function; a memory cell holds the name of the register stored there last, so a read of a cell with
another name is a read of a wrong value. A call takes every pool byte.

**FarHeap** (`lib/src/far_malloc.c`). `allocs[b]` is the bank's array of records; `turn[b]` the position of
the merging loop in `coalesce_free_blocks`, one action per turn; `held` the pointers the caller keeps and what it
expects behind each; `memory` the cells. `Malloc`, `Calloc`, `Realloc`, `FarFree` and `BankReset` are
the calls with their refusals.

**EventSystem** (`lib/src/event_system.c`). `stack` holds the loops under way, `inCode` says whether
the program or a callback runs instead of the top one. `subscribers` and `queue` are the arrays; every loop reads
them anew in each turn, as the code does. A frame also carries history, `due` and `called`, which no guard reads.

## What each run shows

Passing:

* `library_resolution` - over every choice of tables for a main object and four members (one damaged,
  one archive named twice): the incrementally edited worklist equals what recomputation would give; a
  member is pulled only for a symbol missing from the objects before it; on success nothing outside the
  link supplies a missing symbol; if each symbol has one definition the link is the least closed set,
  so archive order cannot matter; resolution ends; it implements `DemandClosure`.
* `link_image` - 868 links of `crt0`, a main unit and two more, over object order, sub-segment, weak or
  strong and convention, with automatic bases and thunks refused, or with an explicit data base and thunks: the image holds every cell of every
  object once, init code first; every reference reaches the definition C semantics and weak rules mean;
  calls across conventions go through a matching thunk; `[__bss_start, __bss_end)` covers BSS and no
  data; the link fails only for a missing symbol, a double definition or a refused mismatch.
* `static_alloc` - every program of one to five calls among a main line, three functions and a handler: an
  accepted program never re-enters a function with fixed locals, two active records never overlap,
  records share slots wherever no conflict forbids, and refusal has a cause.
* `thread_pool` - two workers, three files, every interleaving and outcome, spurious wake-ups included:
  the pool implements `BatchConversion`, every file is converted, the destructor returns.
* `disk_image` - every sequence of commands and mounted sessions on a disk of four data sectors that
  fills up: no sector is in two chains; no chained sector is free in the BAM; a call leaves the files it
  does not name as they were; a success that brought in every file leaks no sector; a written file reads back; a write inside
  a file succeeds even when the disk is full.
* `peephole` - programs of any length over a small machine, with operands that are plain numbers: what the pass knows is true of the
  machine running its output (`FactsTrue`), and register and memory contents are those of the
  program as written, until the two have read different flags (`DataPreserved`).
* `vregs` - 567 functions with a loop, a loop in it, conditions, calls, wide values, register variables, an
  array and memory temporaries. In those of scalar values every read of a register kept in memory finds the value
  assigned last, and a temporary no call can clobber goes to the frame only when the pool is full. Of those with an
  array or memory temporaries only the type invariant is checked.
* `far_heap` - every order of calls on two banks: the records partition a bank at every turn of the
  merging loop; the caller's pointers are exactly the blocks in use, with their sizes; contents survive other
  calls and resizing within a bank; the heap implements `Allocator`.
* `event_system` - callbacks that subscribe, unsubscribe, publish and defer from within a publish or
  a process: whoever is due is still ahead of the loop and whoever was called is not; the queue implements
  `DeferredQueue`; every loop ends.

`library_resolution`, `static_alloc`, `thread_pool` and `far_heap` leave their type invariant to a theorem, which shows it for all constants.

Finding departures (each checks one property and TLC finds it violated):

* `thread_pool_wait_all` - once `waitAll` has blocked, nobody wakes it.
* `disk_directory_link` - a new entry in slot 0 of a directory sector cuts the chain behind it. Also
  reproduced with the compiled class on a D81: add ten files, remove the first, add it again, and
  eight are listed.
* `vregs_ax` - a short-lived temporary is put in A:X although another one is still there, so
  `return (p ^ x) + (p & x);` adds `p & x` to itself.

## Bounds

| run | bound | why it is enough |
|---|---|---|
| library | 1 input, 4 members, 3 symbols, tables of at most 2 exports | chains of three demands, cycles, a demand that goes backward across archives, double definitions and a damaged member all occur |
| link | at most 4 units, 1-4 cells per function, 3 sub-segments | each pair of (order, weakness, convention, segment) meets; addresses are cells, so 16-bit width plays no part |
| static allocation | 5 functions, at most 5 calls, stack depth `MaxDepth` = 5 | a cycle of length three with an entry and a handler fits; the depth cap only stops unbounded recursion in functions that are not statically allocated |
| thread pool | 2 workers, 3 files (2 for `waitAll`) | a task can be queued, taken and running at once, with one worker asleep; the proofs cover all sizes |
| disk | 4 data sectors, 2 slots per directory sector, 3 names, files of 1-2 sectors (`MaxLength` = 2), `DirFree` = 1 | the disk and the directory fill; the third entry extends the directory into a data sector; freed slots and sectors are re-used in every order |
| peephole | 2 bytes, registers A, X, SP, one base-page and one absolute cell, also loaded and stored in forced absolute mode, `Lookahead` = 1; a label is reached with one SP and one carry of the program as written, any flags of the other, any other registers and memory; any program length | zero and negative bytes decide every flag; one cell of each kind shows each mirror rule; the states repeat, so length needs no bound |
| registers | 7 virtual registers, 12 instructions, `ZpBytes` = 4 (64 in the code), `FrameReach` = 32 | four temporaries live side by side, so a pool of two words overflows and slots are shared around both loops |
| far heap | 2 banks of 4 cells, `MaxRecords` = 3 (32), `MaxHeld` = 2 | a block in the middle is split so that its remainder is the last record; the table fills while cells are free |
| events | 2 events, 3 callbacks, `MaxSubscribers` = 3, `MaxQueued` = 3, `MaxDepth` = 2 | a removal moves the last subscriber before or behind the loop; the queue fills during a process |

`Peephole.cfg` has the state constraint `Together`: a comparison of the two programs stops once they have read
different flags, since after that they run different statements. `FarHeap.cfg` uses symmetry over banks and a
VIEW that hides the cells no caller expects anything of. `Disk45.cfg` uses symmetry over the three names, which appear in no definition but as themselves, and a
VIEW that drops `reply`: no guard or assignment reads it, and the action properties are evaluated on the
transitions, not on stored states.

Deadlock is checked in every run; stopping is modelled by explicit `Terminated` steps.

## Fairness

* `LibraryResolution!FairSpec`: weak fairness of `Next`. One thread runs a loop; it stops only if the process does.
* `ThreadPool!FairSpec`: weak fairness of each worker's steps and of main's. The host scheduler runs every
  runnable thread; a thread waiting for the mutex is a step that stays enabled. Conversions end, since each is a
  pass over a file. There is no fairness on `SpuriousWakeup`: C++ allows them and promises none.
* `EventSystem!Fairness`: weak fairness of the two loops, which are plain code; strong fairness of a callback's return
  at each depth of nesting, since a callback may do several things but comes back in the end.
* All other specifications state no fairness and check safety only.

## Proofs

All are checked by `tlapm` to the last leaf and hold for any value of the constants that meets the named
assumptions. The assumptions on constants are evaluated by TLC in the runs.

**Linker_proof**, first part: `LibraryResolution` for any objects, archives and tables. `WorklistExact` is nearly inductive;
the others need the strengthening `IInv`: the inputs stay linked (`InputsLinked`), `pulledMembers` is the
key image of the linked members (`KeysExact`), the first pass does start (`FreshStart`), and, the heart
of it, `QuietPass`: while a pass has pulled nothing, no entry behind the scan position is still
pullable, because `undefined` has not changed since the scan went by. At the end of such a pass this
becomes `Settled`, from which `NothingLeftToPull` follows when keys identify members. Theorems:
`TypeCorrect`, `WorklistIsExact`, `OnlyNeededHolds`; and under `KeysDistinct` (which the code does not
guarantee, see below): `NothingLeftToPullHolds`, `LeastClosureHolds`, `Refinement`.

**Linker_proof**, second part: `LinkImage` for any number of units that `ca45` can write (`IsUnit`), any names of sub-segments and
any options. `LinkInv` is what the phases have established so far, each part resting on those before it:
* `LaidOut`, `DataLaidOut`, `BssLaidOut`: some function gives each placed chunk its position in the text; its cells
  are there, its object has it in `textRemaps`, chunks do not overlap and are ordered by `ChunkBefore`, and every cell
  of the text is a chunk's or a thunk. A function from chunks to positions, rather than a claim about the sequence, is
  what makes `EveryCellInImage` and `InitCodeRunsFirst` follow for any link at all. `RemapsDistinct` lets
  `remapTextOffset` find the one chunk that covers an offset.
* `BasesRight`, `SymbolsRight`, `ImportsResolved`: a global symbol is the only strong definition in the
  objects seen, or the first one if all are weak, at the address its chunk went to; all imports are known after the check.
* `Unpatched`, `ThunksMade`, `RelocsApplied`: cells hold what was assembled until relocations start; then each holds
  its target or is still in `todo`, and no two relocations patch one cell; each crossing call to an import has its
  thunk, behind the text.
* `ErrorHasCause`, `ImageWritten`: why a phase failed, and what the image is made of.

Unconditional: `LinkTypeCorrect`, `EveryCellInImage`, `InitCodeRunsFirst`. The others name what they ask of a link,
and (`BoundariesFree` apart) each condition is there for a departure listed below: `DataAfterText` (thunks did not
grow into the data; `AutomaticDataFollowsText` shows that it holds whenever data is placed automatically and thunks
are refused), `BoundariesFree` (no unit defines `__bss_start` or `__bss_end`, which would replace the linker's),
`PlainLink`, `PlainFunctions` and `OwnCallsAgree`. `AddressesReachDefinitions` needs the first and `PlainLink`;
`CallsReachFunctions` all but `BoundariesFree`; `ClearingBssIsSafe` the first two; `FailureMeansFault`, which also
says that no relocation is applied outside a segment, `PlainLink` and `PlainFunctions`. `MCLinkImage` assumes the four
predicates of a link of every instance, so TLC shows that links with weak symbols, split objects and crossing calls
satisfy them.

**StaticAlloc_proof** - for any functions and any programs without tail calls and static functions
(`AllCallsVisible`; both hide calls from the linker). The invariant says the graph has every
call (`GraphComplete`), a search's visited set is closed up to its pending set (`SearchSound`), a checked
function's reach is closed and does not contain it (`RecursionSound`), the handlers' reach is closed and
has no statically allocated function (`IsrSound`), and, at run time, whatever stands above a statically
allocated function on the stack was reached from it or from a handler (`StackSound`). Together:
`ReentryExcluded`, that no accepted program re-enters such a function.

The second half of the module builds on this. What a search visited is reachable along the graph from where it
began (`CauseSound`), so `RefusedForCause` holds for any program, tail calls included. The coloured functions are
partitioned into slots, no two in a slot conflict, and a later slot is taken only on a conflict with each earlier one
(`ColorSound`), so `SharedWherePossible` holds for any program. For `AllCallsVisible` programs, what stands above a SAC
function is reachable from it and on its side of the handlers, hence in conflict, hence in another slot; slots follow
one another, each as large as its largest record (`SlotsFollow`), so `RecordsApart`.

**ThreadPool_proof** - for any non-empty set of workers and any number of files. A file not yet converted
is still to be enqueued, in the queue, or held by one worker (`Conserved`, `Once`); workers leave only
when stopped with an empty queue (`Shutdown`); the failure counter says whether a conversion failed
(`Counted`). `PoolRefinesBatch` maps each step to a step of `BatchConversion` or a stutter: even if
`waitAll` returns early, the destructor drains the queue and joins before the exit code is computed.

**Disk45_proof** - for any disk, any size of a directory sector, any names and values. A *layout* of an image is the chain of
the directory together with a chain for every occupied directory slot. An image is sound (`Sound`) if it has a layout
(`Laid`) whose chains end, visit no sector twice, have no sector in common, start where the directory says and
hold no sector that is free, with data in all but the last. `IInv` is that `saved` and `g_img` are both sound,
and equal outside a session; both are needed, since a failed callback leaves its changes in `g_img` only and an
unmount drops them. Allocation takes a free sector, so a chain under construction is apart from all others; a
file's chain is freed whole, with its slot; a new directory sector is linked behind the last. The one operation that does not extend
the layout is a new entry in slot 0 of a directory sector that has a successor: it cuts the
directory's chain (`Exposed`, `Severed`), and what remains is still sound, with fewer files. `Outcome` collects what every
operation guarantees: a sound image, the files not named as they were or a link overwritten, and on a success that
brought in every file it was to add no allocated sector that nothing leads to. Theorems: `TypeCorrect`, `SectorsStayOwnedOnce`, `OwnedStayAllocated`,
`OthersStayKept`, `SuccessNeverLeaks`, `WrittenIsRead`, and `RewriteFits`, which counts the
sectors a removed file gives back against those its new content takes. Where an induction along a chain
would be natural the proofs take the least position at which the claim fails (`LeastNatural`).

**Peephole_proof** - for any bytes, registers, cells and lookahead, and programs made of the statements the pass
accounts for (`AccountedFor`: operands that are plain numbers, labels that are barriers, no read-modify-write of the base
page in forced absolute mode, no procedure that writes memory while it declares its clobbers, no indexed
store that reaches a tracked cell, no instruction without a case that changes a register or flag). `IInv` adds to
`FactsTrue` that a register mirrors base-page cells only and that no cell mirrors a cell (`Shape`), without which an update
could miss a mirror. `KnowledgeIsTrue` and `DeletionsKeepData` are the two properties of the run.

**FarHeap_proof** - for any banks, sizes and table lengths. `IInv` says that the records of a bank cover its cells
without overlap (`Tables`), that pointers and records in use correspond (`HeldIsLive`) and that contents are as
expected; merging is sound because it asks for adjacency of addresses, not only of array places. Theorems: `Typed`,
`RecordsPartition`, `OwnersKnown`, `ContentsAreKept` and `HeapImplementsAllocator`.

**VRegs_proof** - for any set of functions and any pool, where all values are scalars that found room in the
frame (`Scalars`); reads also ask that a function with register variables does not begin with a call
(`NoCallAtStart`). The invariant: while code runs, ranges cover every point from which a register may be read again, back edges
included (`RangesCover`); registers whose ranges meet have disjoint cells (`PlacesApart`); pool and slots are accounted for
exactly (`PoolExact`); so an assigned register's cells hold its value until it is dead (`RunSound`), across calls since what
is in the pool crosses none. `ReadsAreRight` and `SpillsAreNeeded` are the two properties of the run. `TypeCorrect` needs neither condition: it
holds for arrays, memory temporaries and a frame that is used up as well.

**EventSystem_proof** - for any events, callbacks, limits and depth of nesting. `IInv` adds to `CalledOnce` that a
callback is in an array once and that whom a loop called is still subscribed, so that the last entry, when it moves to a
free slot, is not met again; and that at most one process is under way, not past the end of the queue, and waits while
code runs. Theorems: `TypeCorrect`, `CallsOnce`, and `DeliversInOrder`, which maps each step to a step of `DeferredQueue`
or a stutter: the end of a publish is the end of a delivery exactly when the frame below it is the process.

Only model-checked:
* Liveness (`Terminates`, `EveryFileConverted`, `DestructorReturns`, `LoopsEnd`), which is outside this prover's reach.

Neither proved nor in an instance, and wrong in places: the link's addresses and calls for links outside the predicates
above, the peephole pass outside `AccountedFor`, and reads and spills of `VRegs` in functions with arrays or memory
temporaries, for which `Scalars` is false and both properties are silent.

## Where code and promise differ

The three violation runs are departures that a run demonstrates. The following were met as well; the
passing instances do not contain them, or the property named exempts them.

Linker:
* Two members of one archive with one base name, which `ar45` allows (`ar45_main.cpp:87`): only the first demanded is
  ever pulled (`O45Linker.cpp:102`, against `O45Linker.hpp:45-47`). `Key <- DistinctKey` excludes it.
* Thunks are appended to the text after data and BSS addresses were fixed (`O45Linker.cpp:799`, 2939, against
  `doc/bin/ln45.md:19-20`), so the data that follows is read at wrong addresses (`DataAfterText`). The passing
  instances use thunks only with an explicit data base.
* A mismatched call within one object is announced as bridged (`O45Linker.cpp:2447`) but goes direct (545)
  (`OwnCallsAgree`).
* `crt0`'s call of its own weak hook never reaches a strong override (`O45Emitter.cpp:283`, against
  `lib/crt0.s45:12-13`): a label of the same file is not an external reference (`OwnUsesMeanOwn`).
* Only `JSR` counts as a call (`O45Linker.cpp:893`), while the assembler turns a last `JSR; RTS` into `JMP`
  (`doc/bin/cc45.md:782`): a cycle closed by a tail call is accepted (against `O45Linker.cpp:2455`).
* A data relocation is moved by `remapTextOffset` when its offset equals the text offset of the object
  (`O45Linker.cpp:450`, against the comment at 443-444): both are 0 for the first object, say. The cell
  patched is then another one, or outside the data (`SplitUnitsPlainData`).
* A strong init hook linked before `crt0` becomes the program's entry (`O45Linker.cpp:224`, against
  `lib/crt0.s45:12-13`); `InitRunsFirst` asks only that
  start-up code comes first and in link order, not that `crt0`'s does.
* A weak export's attributes can replace the strong one's (`O45Linker.cpp:842`, against 838 and 843);
  `PlainFunctions` asks for one convention per name.
* References between text sub-segments of one object are not adjusted for the sub-segment's new place
  (`O45Linker.cpp:600-603`, `doc/architecture/lib45.md:117`) (`OwnUsesUnsplit`).
* A static function's calls are attributed to the exported function before it (`O45Linker.cpp:880`,
  903-925): they are lost or misplaced in the call graph. `AllCallsVisible` and `PlainFunctions` exclude them.
* Tail calls also break `FramesApart`: the programs with tail calls in `static_alloc` are those
  where the lost edge does no harm.

Peephole optimiser:
* A load before a branch should stay (`AssemblerOptimizer.cpp:526`), but the mnemonics compared (538-541) are upper case
  and the parser stores lower case (`AssemblerParser.cpp:1050`), so `stx $20; ldx $20; bpl` loses the load and branches on other
  flags. The model has the comparison never match; `DataPreserved` therefore holds only until the programs read different flags.
* `parseNum` reads the number an operand starts with and ignores the rest (`AssemblerOptimizer.cpp:40-58`), so `lda #1+1`
  is remembered as 1 and `stx $20+1` updates what is known of $20: `lda #5; sta $20; ldx #0; stx $20+1; lda $20; lda #0`
  loses the last load and `stx $20; ldx $20+1` the second instruction, as the built `ca45 -O2` shows. The parser joins such
  operands to one text (`AssemblerParser.cpp:1456`, 1514), and `cc45` emits them (`IRCodeGen.cpp:607`, 642). The run and the
  theorems have plain numbers (`AccountedFor`); with others a single store makes a fact false.
* `INC`, `DEC` and shifts of an address below 256 in forced absolute mode invalidate the cache of absolute addresses only
  (742, 752), and what is known of the base-page cell stays.
* A label is no barrier on a directive (322-332), on a statement already deleted (319) or if it starts with `@` (335), which
  outside every scope is an ordinary label: what was known before it is believed of every way to reach it.
* Outside `AccountedFor`, and then not preserving either: procedures with declared clobbers that write registers' mirrored memory, stores
  through an index or pointer that reach a tracked cell (`StoreElsewhere` updates nothing), `PLX`/`PLY`/`PLZ` (727: flags are
  not forgotten), instructions
  without a case (`BIT`, `NEG`, `STW`), and those of a `.noopt` region (341-345), which are not looked at but executed.
* `CMP #0` is deleted if the next statement is not `BCC`/`BCS` (427); a later statement may still read the carry.

Register allocation:
* A constant or operand loaded into A:X on the way overwrites a value kept there: `(b + 1) * 2` computes `2 * 2`.
* `findNonConflictingFrameOffset` returns offsets at or above `frameSize_` and does not grow it (`VRegAllocator.cpp:234-281`,
  against `VRegAllocator.hpp:50`): in a function with a stack frame, `return g(a) + h(a + 1) * g(k + 2)` overwrites the return
  address. With static allocation, the default, each register has a symbol of its own and nothing is lost.
* Arrays count as two bytes when a temporary looks for a free offset (258-263), memory temporaries may take a freed slot that is taken
  again, and names declared twice make the earlier one a temporary. The proof's `Scalars` excludes arrays and memory temporaries.
* A call at instruction 0 does not count as crossed (295-302); a computed goto is no back edge; address-taken locals are
  given up after their last direct use (against 316-317).

Far heap:
* A resize into another bank frees the old block without copying it (`far_malloc.c:236`); `ContentsKept` expects nothing of such a block.
* Only neighbours in the array are merged (123), while remainders are appended at its end: adjacent free blocks can
  stay apart (against `doc/architecture/phase26-far-pointers.md:241`, "merge adjacent free blocks"), so freed memory need not
  be allocatable and `bank_available` promises more than one allocation can get. `Allocator` asks no completeness.
* A split is refused when 32 records exist though the block is free (172); `count * size` wraps in `far_calloc`.

Events:
* A callback that unsubscribes moves the last subscriber into the slot just visited, and that one misses the event
  (`event_system.c:76`). `CalledOnce` exempts it by name (`Unseen`).
* A `process` or `clear_queue` from within a `process` delivers events again or loses new ones (139); the model's
  callbacks do not call them there. Delivered events keep their places in the queue until the process ends.
* `max_subscribers` is ignored, `destroy` does nothing, and the first system's handle equals `INVALID_EVENT_SYSTEM`.

Heap, pools and resources (read, not modelled):
* `malloc.s45` returns X = low, A = high (218-224) where `doc/bin/cc45.md:1425` has A = low; an odd request's block is one
  byte short (73); merging compares with a stale carry (390-400, 441-450); an empty free list is taken for a first use (86-89).
* `mem_pool_destroy` leaves the handle valid (`mem_pool.c:90`); a resource loaded again after its last unload is returned
  with no data (`resource_manager.c:65-68`, 94-96).

Batch conversion:
* An exception in `convertFile` counts neither as success nor as failure, so the exit code can be 0
  (`ThreadPool.hpp:45`). `BatchConversion` states what the code does.
* `waitAll` may return while a task is between the queue and the counter (`ThreadPool.hpp:42`); the
  refinement shows that this is harmless for `cvt_asm`.

Disk images:
* `OthersKept` and `SuccessLeaksNothing` exempt steps in which a new entry overwrites a directory link
  (`LinkOverwritten`); `disk_directory_link` checks without the exemption.
* `freeSectors` counts the directory track (`D81Image.cpp:238`), so an add on an almost full disk starts and
  fails half way, and the sectors it took stay allocated. A failed directory entry leaks its chain likewise
  (`D81Image.cpp:278`). `SuccessLeaksNothing` is about successes only.
* A growing write on a full mounted disk loses the file: it is removed before the new content is
  known to fit (`disk45_fuse.cpp:174`). `InPlaceWriteSucceeds` is about writes that do not grow.
* `rename` onto an existing name: the fallback meant for subdirectories renames anyway and leaves two entries
  of one name (`disk45_main.cpp:748`, while `DiskImage.cpp` reports that the target name exists).
* `copy` goes on after a failed add, saves the image with the failed file's sectors allocated, and returns 0
  (`disk45_main.cpp:1082-1094`). `SuccessLeaksNothing` therefore asks that every file to add was added (`reply'.complete`).
* The mount's callbacks ignore the result of `saveToFile` (`disk45_fuse.cpp:178`, 191, 200, 211, 225) and report success
  when the host file was not written; in the model it always is.

## Not modelled

* Of the linker: the zero-page segment (placed like BSS), partial-width and far relocations, the errors about
  conventions and static allocation parameters that end a link (`convErrors_`, `O45Linker.cpp:784-790`, 2574-2658), so
  `FailsOnlyForCause` is about links without them; the records of static allocation placed from `bssBase_` on (2859-2861),
  which the BSS of `LinkImage` leaves out and `StaticAlloc` places; debug lines, the optimisation, profiling and benchmark reports, `relinkWithDispatcher` (called by no tool).
* Of `disk45`: subdirectories, REL files, labels, the lock flag, file types, raw block commands, conversion
  and the archive and tape formats; commands run on an image while it is mounted (the mount's next save
  overwrites theirs: nothing locks the file); the save as a step that can be cut short; erased bytes of freed sectors.
* Of the peephole pass: carry knowledge, the store-pair and `FCMP` rewritings, `preserveXSP`, tail calls.
* Of code generation: instruction selection, inline assembly, address-taken locals, widths other than two and four bytes,
  the older generator `CodeGenerator.cpp`. `RegisterResidentLoops` is never run.
* Of the event system: what events carry, and more than one system. Of the far heap: DMA, which moves the bytes.
* Whole components with the reason for each: `PROJECT.json`, status `not_modelled`. In short, passes from
  text to text without lasting state (parsers, writers, `basic45`, object dumps), code that drives
  hardware outside the repository (graphics, sound, DMA), and statistics.

## Plan

Modelled and proved: the linker, the thread pool, the disk, the far heap, events, the peephole pass and register allocation. Left, in order:

1. **Disk45**: subdirectories (mkdir, rmdir, remove of a directory entry), the save as a step
   that a crash may interrupt, commands during a mount; an abstract **FileStore** (a map from names to contents) that a
   session on a sound image implements.
2. **Malloc** (`lib/stdlib/malloc.s45`): free list with 16-bit byte-wise arithmetic as the code does it, against **Allocator**.
3. **MemPool** and **ResourceManager** (`lib/src`): handles after destroy; counts balance.
4. **IncludeCache** (`include/MacroUtils.hpp`): threads, file changes between check, read and store.
5. **IRPasses**: rewriting that preserves the evaluation of a small IR, once the driver runs the passes.

The set of runs is kept small: where a new component needs one, the least telling violation run gives
way, and its departure moves to the list in "Where code and promise differ".
