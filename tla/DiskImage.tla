----------------------------- MODULE DiskImage -----------------------------
(***************************************************************************)
(* The sector-based Commodore disk images of disk45 (D64, D71, D81, D65):  *)
(* the block availability map, the chained sectors of the directory and of *)
(* the files, and the operations of class DiskImage and its subclasses as  *)
(* operators from an image to an image.                                    *)
(*                                                                         *)
(* Sectors 1..N are the sectors off the directory track, numbered in the   *)
(* order allocateNextFree tries them; sector N + 1 is the first directory  *)
(* sector.  A link of 0 is a track of 0: the end of a chain.  Payloads are *)
(* one value per sector; the byte count of the last sector, names longer   *)
(* than sixteen characters, file types and the lock bit are left out.      *)
(***************************************************************************)
EXTENDS Naturals, FiniteSets, SequencesExt

CONSTANTS N,        \* data sectors of the disk
          SlotCount,\* directory entries in a sector (8 in the code)
          DirFree,  \* free sectors of the directory track, in the BAM's count
          Names,    \* file names, already upper case
          Values,   \* what a sector of a file may hold
          Zero,     \* the value of the bytes std::vector::resize appends
          Nothing,  \* the payload of a sector without data bytes
          NoEntry   \* a directory slot whose file type is DEL

ASSUME DiskAssumption ==
    /\ N \in Nat \ {0}
    /\ SlotCount \in Nat \ {0}
    /\ DirFree \in Nat
    /\ Zero \in Values
    /\ Nothing \notin Values

Sectors == 1..N
DirStart == N + 1
AllSectors == 1..DirStart
End == 0
Slots == 1..SlotCount

Entry == [name : Names, first : Sectors, closed : BOOLEAN]

ASSUME NoEntryAssumption == NoEntry \notin Entry

Image == [free : SUBSET Sectors,
          link : [AllSectors -> {End} \cup AllSectors],
          data : [AllSectors -> Values \cup {Nothing}],
          dir  : [AllSectors -> [Slots -> Entry \cup {NoEntry}]]]

EmptySector == [i \in Slots |-> NoEntry]

Formatted ==
    [free |-> Sectors,
     link |-> [s \in AllSectors |-> End],
     data |-> [s \in AllSectors |-> Nothing],
     dir  |-> [s \in AllSectors |-> EmptySector]]

(***************************************************************************)
(* Reading an image.                                                       *)
(***************************************************************************)
\* The sectors from s on, in order; the length cap stands for the code's
\* limit against a chain that loops.
Chain(img, s) ==
    LET walk[k \in 1..DirStart] ==
            IF k = 1 THEN <<s>>
            ELSE LET c == walk[k - 1]
                     next == img.link[Last(c)]
                 IN  IF next = End THEN c ELSE Append(c, next)
    IN  walk[DirStart]

Directory(img) == Chain(img, DirStart)

\* A directory slot is a pair <<sector, index>>.
DirectorySlots(img) == ToSet(Directory(img)) \X Slots

At(img, p) == img.dir[p[1]][p[2]]

\* The slots of the valid entries.
Listed(img) == {p \in DirectorySlots(img) : At(img, p) # NoEntry}

Vacant(img) == {p \in DirectorySlots(img) : At(img, p) = NoEntry}

\* The slots of the valid entries of a name, open or closed.
Named(img, f) == {p \in Listed(img) : At(img, p).name = f}

\* Every scan follows the directory's chain, and the slots of a sector in order; it
\* stops at its first hit.  <<>> when there is none.
FirstOf(img, slots) ==
    LET d == Directory(img)
        Rank(p) == SlotCount * (CHOOSE k \in DOMAIN d : d[k] = p[1]) + p[2]
    IN  IF slots = {} THEN <<>>
        ELSE CHOOSE p \in slots : \A q \in slots : Rank(p) <= Rank(q)

FindFileEntry(img, f) == FirstOf(img, {p \in Named(img, f) : At(img, p).closed})

FindAnyEntry(img, f) == FirstOf(img, Named(img, f))

FileExists(img, f) == FindFileEntry(img, f) # <<>>

FileChain(img, p) == Chain(img, At(img, p).first)

\* Mutated: the last sector of the chain is not read.
ContentsBeforeLast(img, p) ==
    LET secs == FileChain(img, p)
    IN  [k \in 1..(Len(secs) - 1) |-> img.data[secs[k]]]

\* Only the last sector may be without data bytes.
Contents(img, p) ==
    LET secs == FileChain(img, p)
        used == IF img.data[Last(secs)] = Nothing THEN Len(secs) - 1 ELSE Len(secs)
    IN  [k \in 1..used |-> img.data[secs[k]]]

ReadFile(img, f) ==
    IF FileExists(img, f) THEN Contents(img, FindFileEntry(img, f)) ELSE <<>>

(***************************************************************************)
(* Changing an image.  An operation that can fail returns the outcome and  *)
(* the image it leaves behind, changed or not.                             *)
(***************************************************************************)
Done(img) == [ok |-> TRUE, img |-> img]
Failed(img) == [ok |-> FALSE, img |-> img]

FreeSectors(img) == Cardinality(img.free) + DirFree

\* Mutated: a sector is not marked before the next one is looked for.
NextFreeRepeated(img, k) ==
    [j \in 1..k |-> CHOOSE s \in img.free : \A t \in img.free : s <= t]

\* The k sectors that k calls of allocateNextFree hand out.
NextFree(img, k) ==
    [j \in 1..k |-> CHOOSE s \in img.free :
                        Cardinality({t \in img.free : t < s}) = j - 1]

Allocate(img, secs) == [img EXCEPT !.free = @ \ ToSet(secs)]

\* Freeing only sets bits of the map.  The bytes of a free sector are not told
\* apart here: whoever allocates one clears it before linking to it.
FreeChain(img, secs) ==
    [img EXCEPT !.free = @ \cup ToSet(secs),
                !.link = [s \in AllSectors |-> IF s \in ToSet(secs) THEN End ELSE @[s]],
                !.data = [s \in AllSectors |-> IF s \in ToSet(secs) THEN Nothing ELSE @[s]]]

\* Each sector links to the one after it and holds its share of the content.
WriteChain(img, secs, content) ==
    LET Pos(s) == CHOOSE k \in DOMAIN secs : secs[k] = s
    IN  [img EXCEPT
            !.link = [s \in AllSectors |->
                        IF s \notin ToSet(secs) THEN @[s]
                        ELSE IF Pos(s) = Len(secs) THEN End ELSE secs[Pos(s) + 1]],
            !.data = [s \in AllSectors |->
                        IF s \notin ToSet(secs) THEN @[s]
                        ELSE IF Pos(s) > Len(content) THEN Nothing
                        ELSE content[Pos(s)]]]

\* DirEntry::toSector stores the whole entry, its next field included: the
\* first entry of a directory sector carries the sector's link.
StoreEntry(img, p, e, next) ==
    [img EXCEPT !.dir[p[1]][p[2]] = e,
                !.link[p[1]] = IF p[2] = 1 THEN next ELSE @]

\* Appends the empty sector s to the directory.
Extend(img, s) ==
    [img EXCEPT !.free = @ \ {s},
                !.link = [@ EXCEPT ![Last(Directory(img))] = s, ![s] = End],
                !.data[s] = Nothing,
                !.dir[s] = EmptySector]

\* A new entry's next field is never set: it is stored as the end of a chain.
AllocDirectoryEntry(img, e) ==
    LET p == FirstOf(img, Vacant(img))
        s == NextFree(img, 1)[1]
    IN  IF p # <<>> THEN Done(StoreEntry(img, p, e, End))
        ELSE IF img.free = {} THEN Failed(img)
        ELSE Done(StoreEntry(Extend(img, s), <<s, 1>>, e, End))

\* Mutated: a file that would take the last free sectors is turned away.
AddFileWithReserve(img, f, content) ==
    LET need == IF content = <<>> THEN 1 ELSE Len(content)
        secs == NextFree(img, need)
        written == WriteChain(Allocate(img, secs), secs, content)
    IN  IF FileExists(img, f) \/ need >= Cardinality(img.free) THEN Failed(img)
        ELSE AllocDirectoryEntry(written,
                                 [name |-> f, first |-> secs[1], closed |-> TRUE])

\* When the sectors run out midway the ones already taken stay allocated, and
\* when there is no room for the entry so does the chain just written.
AddFile(img, f, content) ==
    LET need == IF content = <<>> THEN 1 ELSE Len(content)
        secs == NextFree(img, need)
        written == WriteChain(Allocate(img, secs), secs, content)
    IN  IF FileExists(img, f) \/ need > FreeSectors(img) THEN Failed(img)
        ELSE IF need > Cardinality(img.free) THEN Failed([img EXCEPT !.free = {}])
        ELSE AllocDirectoryEntry(written,
                                 [name |-> f, first |-> secs[1], closed |-> TRUE])

\* Mutated: the chain is freed but the entry keeps its type.
RemoveFileKeepingEntry(img, f) ==
    LET p == FindFileEntry(img, f)
    IN  IF p = <<>> THEN Failed(img)
        ELSE Done(FreeChain(img, FileChain(img, p)))

\* Mutated: only the first sector of the file is freed.
RemoveFileFirstSector(img, f) ==
    LET p == FindFileEntry(img, f)
    IN  IF p = <<>> THEN Failed(img)
        ELSE Done(StoreEntry(FreeChain(img, <<At(img, p).first>>),
                             p, NoEntry, img.link[p[1]]))

RemoveFile(img, f) ==
    LET p == FindFileEntry(img, f)
    IN  IF p = <<>> THEN Failed(img)
        ELSE Done(StoreEntry(FreeChain(img, FileChain(img, p)),
                             p, NoEntry, img.link[p[1]]))

RenameEntry(img, p, g) ==
    StoreEntry(img, p, [At(img, p) EXCEPT !.name = g], img.link[p[1]])

RenameFile(img, f, g) ==
    IF ~FileExists(img, f) \/ FileExists(img, g) THEN Failed(img)
    ELSE Done(RenameEntry(img, FindFileEntry(img, f), g))

\* Splatting clears the closed bit of the first valid entry of that name.
SetClosed(img, f, closed) ==
    LET p == FindAnyEntry(img, f)
    IN  IF p = <<>> THEN Failed(img)
        ELSE Done([img EXCEPT !.dir[p[1]][p[2]].closed = closed])

\* Mutated: an empty directory gives up its first sector as well.
ShrinkDirChainWhole(img) ==
    LET d == Directory(img)
        IsVacant(s) == img.dir[s] = EmptySector
        keep == Max({0} \cup {k \in DOMAIN d : ~IsVacant(d[k])})
        freed == SubSeq(d, keep + 1, Len(d))
    IN  IF freed = <<>> THEN img
        ELSE IF keep = 0 THEN FreeChain(img, freed)
        ELSE [FreeChain(img, freed) EXCEPT !.link[d[keep]] = End]

\* Mutated: a sector counts as empty when it has no closed file.
ShrinkDirChainClosed(img) ==
    LET d == Directory(img)
        IsVacant(s) == \A i \in Slots : img.dir[s][i] # NoEntry => ~img.dir[s][i].closed
        keep == Max({1} \cup {k \in DOMAIN d : ~IsVacant(d[k])})
        freed == SubSeq(d, keep + 1, Len(d))
    IN  IF freed = <<>> THEN img
        ELSE [FreeChain(img, freed) EXCEPT !.link[d[keep]] = End]

\* shrinkDirChain frees the empty sectors at the directory's end, never the
\* first one.
ShrinkDirChain(img) ==
    LET d == Directory(img)
        IsVacant(s) == img.dir[s] = EmptySector
        keep == Max({1} \cup {k \in DOMAIN d : ~IsVacant(d[k])})
        freed == SubSeq(d, keep + 1, Len(d))
    IN  IF freed = <<>> THEN img
        ELSE [FreeChain(img, freed) EXCEPT !.link[d[keep]] = End]

\* ensureDirCapacity appends empty sectors until k slots are free; its caller
\* drops the image when the sectors run out.
EnsureDirCapacity(img, k) ==
    LET have == Cardinality(Vacant(img))
        more == IF have >= k THEN 0 ELSE ((k - have) + SlotCount - 1) \div SlotCount
        secs == NextFree(img, more)
        grown[j \in 0..more] == IF j = 0 THEN img ELSE Extend(grown[j - 1], secs[j])
    IN  IF more > Cardinality(img.free) THEN Failed(img) ELSE Done(grown[more])
=============================================================================
