------------------------------- MODULE Disk45 -------------------------------
(***************************************************************************)
(* disk45 at work on one disk image file: the command line, which loads    *)
(* the file, changes the image and saves it, and the FUSE mount, which     *)
(* keeps one image in memory (g_img) for the whole session and saves it    *)
(* after each call that succeeded.  FUSE runs single threaded and every    *)
(* callback holds g_mutex, so a call is one step.  Commands are not run on *)
(* a file that is mounted.  A session may end without warning at any       *)
(* moment between two calls.                                               *)
(***************************************************************************)
EXTENDS DiskImage

CONSTANTS WriteData,   \* the values a write or an added file may carry
          CopyLists,   \* sequences of [name, content] that a copy may bring
          EnsureCounts,\* arguments of dir-ensure
          MaxLength    \* bound on the file offsets and lengths, in sectors

ASSUME Disk45Assumption ==
    /\ WriteData \subseteq Values
    /\ CopyLists \subseteq Seq([name : Names, content : Seq(WriteData)])
    /\ EnsureCounts \subseteq Nat
    /\ MaxLength \in Nat

VARIABLES mounted,  \* a FUSE session is running
          g_img,    \* its image; the image of the last command otherwise
          saved,    \* the image file on the host
          reply     \* the last call: the names it was about and its outcome

vars == <<mounted, g_img, saved, reply>>

\* What a call reports to its caller (ok), and whether it brought in every file it was to
\* add (complete): a copy reports success also when some did not fit.
Replies == [on : SUBSET Names, ok : BOOLEAN, complete : BOOLEAN]

Reply(on, ok) == [on |-> on, ok |-> ok, complete |-> ok]

TypeOK == /\ mounted \in BOOLEAN
          /\ g_img \in Image
          /\ saved \in Image
          /\ reply \in Replies

Init == /\ mounted = FALSE
        /\ g_img = Formatted
        /\ saved = Formatted
        /\ reply = Reply({}, TRUE)

(***************************************************************************)
(* The command line.                                                       *)
(***************************************************************************)
\* A command leaves the file with the image img and replies r.
Command(r, img) ==
    /\ ~mounted
    /\ saved' = img
    /\ g_img' = img
    /\ reply' = r
    /\ UNCHANGED mounted

\* A command that failed saves nothing and its image is gone.
AllOrNothing(on, result) ==
    Command(Reply(on, result.ok), IF result.ok THEN result.img ELSE saved)

cmdAdd(f, content) == AllOrNothing({f}, AddFile(saved, f, content))

cmdRemove(f) == AllOrNothing({f}, RemoveFile(saved, f))

\* When renameFile refuses, a raw scan of the directory renames the first
\* valid entry of the old name, closed or not.
cmdRename(f, g) ==
    LET tried == RenameFile(saved, f, g)
        p == FindAnyEntry(saved, f)
    IN  AllOrNothing({f, g},
                     IF tried.ok \/ p = <<>> THEN tried
                     ELSE Done(RenameEntry(saved, p, g)))

cmdSplat(f, close) == AllOrNothing({f}, SetClosed(saved, f, close))

cmdDirShrink == AllOrNothing({}, Done(ShrinkDirChain(saved)))

cmdDirEnsure(k) == AllOrNothing({}, EnsureDirCapacity(saved, k))

\* Copies what it can: a file that exists is skipped, one that does not fit is reported on
\* the terminal, the image is saved when any file was copied, and the exit status is 0.
cmdCopy(list) ==
    LET after[k \in 0..Len(list)] ==
            IF k = 0 THEN [img |-> saved, copied |-> FALSE, complete |-> TRUE]
            ELSE LET acc == after[k - 1]
                     r == AddFile(acc.img, list[k].name, list[k].content)
                 IN  IF FileExists(acc.img, list[k].name) THEN acc
                     ELSE [img |-> r.img,
                           copied |-> acc.copied \/ r.ok,
                           complete |-> acc.complete /\ r.ok]
        end == after[Len(list)]
        on == {list[k].name : k \in DOMAIN list}
    IN  Command([on |-> on, ok |-> TRUE, complete |-> end.complete],
                IF end.copied THEN end.img ELSE saved)

(***************************************************************************)
(* The FUSE session.                                                       *)
(***************************************************************************)
Mount == /\ ~mounted
         /\ mounted' = TRUE
         /\ g_img' = saved
         /\ UNCHANGED <<saved, reply>>

\* fusermount -u, or the death of the process: nothing is flushed.
Unmount == /\ mounted
           /\ mounted' = FALSE
           /\ g_img' = saved
           /\ UNCHANGED <<saved, reply>>

\* A callback that failed returns before saveToFile, but its changes to the
\* image in memory stay.  The outcome of saveToFile is not looked at; here the
\* host always writes the file.
Callback(on, result) ==
    /\ mounted
    /\ g_img' = result.img
    /\ saved' = IF result.ok THEN result.img ELSE saved
    /\ reply' = Reply(on, result.ok)
    /\ UNCHANGED mounted

cbm_create(f) == Callback({f}, AddFile(g_img, f, <<>>))

cbm_unlink(f) == Callback({f}, RemoveFile(g_img, f))

cbm_rename(f, g) == Callback({f, g}, RenameFile(g_img, f, g))

\* vector::resize
Resize(content, k) ==
    [i \in 1..k |-> IF i \in DOMAIN content THEN content[i] ELSE Zero]

\* The file is removed and added anew; removeFile's outcome is not looked at.
Replace(f, content) == AddFile(RemoveFile(g_img, f).img, f, content)

\* The content after value v was written to sector i of the file.
Overwritten(content, i, v) ==
    [Resize(content, IF i > Len(content) THEN i ELSE Len(content))
        EXCEPT ![i] = v]

cbm_write(f, i, v) ==
    Callback({f}, Replace(f, Overwritten(ReadFile(g_img, f), i, v)))

cbm_truncate(f, k) ==
    /\ FileExists(g_img, f)
    /\ Callback({f}, Replace(f, Resize(ReadFile(g_img, f), k)))

-----------------------------------------------------------------------------
Commands == \/ \E f \in Names, v \in WriteData : cmdAdd(f, <<v>>)
            \/ \E f \in Names : cmdRemove(f)
            \/ \E f, g \in Names : cmdRename(f, g)
            \/ \E f \in Names, close \in BOOLEAN : cmdSplat(f, close)
            \/ cmdDirShrink
            \/ \E k \in EnsureCounts : cmdDirEnsure(k)
            \/ \E list \in CopyLists : cmdCopy(list)

Callbacks == \/ \E f \in Names : cbm_create(f)
             \/ \E f \in Names : cbm_unlink(f)
             \/ \E f, g \in Names : cbm_rename(f, g)
             \/ \E f \in Names, i \in 1..MaxLength, v \in WriteData : cbm_write(f, i, v)
             \/ \E f \in Names, k \in 0..MaxLength : cbm_truncate(f, k)

Next == Mount \/ Unmount \/ Commands \/ Callbacks

Spec == Init /\ [][Next]_vars

-----------------------------------------------------------------------------
(***************************************************************************)
(* Properties.  g_img is the image at work in either mode, and Call tells  *)
(* the steps of a command or a callback from those of the session.         *)
(***************************************************************************)
Call == mounted' = mounted

\* Every sector the directory leads to.
Owned(img) ==
    ToSet(Directory(img)) \cup UNION {ToSet(FileChain(img, p)) : p \in Listed(img)}

Orphans(img) == (Sectors \ img.free) \ Owned(img)

\* What the disk holds under a name: usually one file, more when a splat file
\* or the raw rename made the name ambiguous.
Held(img, f) ==
    [p \in Named(img, f) |-> [content |-> Contents(img, p), closed |-> At(img, p).closed]]

\* The step stored an entry in the first slot of a directory sector that had a
\* successor, and with it overwrote the link.
LinkOverwritten ==
    \E s \in ToSet(Directory(g_img)) :
        /\ g_img.link[s] # End
        /\ g_img'.link[s] # g_img.link[s]
        /\ \/ g_img'.dir[s][1] # g_img.dir[s][1]
           \/ \E f \in reply'.on : /\ g_img.dir[s][1] # NoEntry
                                    /\ g_img.dir[s][1].name = f

\* No sector is in two files, in a file and the directory, or twice in one
\* chain, whatever was added, removed, renamed, splat, copied or rewritten:
\* what validate() reports as cross-linked.
SectorsOwnedOnce ==
    /\ IsInjective(Directory(g_img))
    /\ \A p \in Listed(g_img) :
          /\ IsInjective(FileChain(g_img, p))
          /\ ToSet(FileChain(g_img, p)) \cap ToSet(Directory(g_img)) = {}
          /\ \A q \in Listed(g_img) \ {p} :
                ToSet(FileChain(g_img, p)) \cap ToSet(FileChain(g_img, q)) = {}

\* Every sector in use is allocated in the block availability map, so the
\* next file cannot be written over it.
OwnedIsAllocated == Owned(g_img) \cap g_img.free = {}

\* A call changes only the files it names, unless it overwrites the
\* directory's own link.
OthersKept ==
    [][Call /\ g_img' # g_img =>
        \/ \A f \in Names \ reply'.on : Held(g_img', f) = Held(g_img, f)
        \/ LinkOverwritten]_vars

\* A call changes only the files it names: a mounted image has "full
\* read/write support", and the next field of a directory sector's first
\* entry is the "link to next dir sector".
OthersAlwaysKept ==
    [][Call /\ g_img' # g_img =>
        \A f \in Names \ reply'.on : Held(g_img', f) = Held(g_img, f)]_vars

\* A call that succeeds, and brings in every file it was to add, loses no sector:
\* all it allocated is reachable, all it dropped is free again.  (An add that
\* fails does leak: see AddFile.  A copy goes on after it, saves the image and
\* still reports success.)
SuccessLeaksNothing ==
    [][Call /\ reply'.ok /\ reply'.complete /\ g_img' # g_img =>
        \/ Orphans(g_img') \subseteq Orphans(g_img)
        \/ LinkOverwritten]_vars

\* A write that succeeded is what the next read returns, and the rest of the
\* file with it.
ReadBack ==
    [][\A f \in Names, i \in 1..MaxLength, v \in WriteData :
        mounted /\ reply' = Reply({f}, TRUE) =>
            \/ ReadFile(g_img', f) = Overwritten(ReadFile(g_img, f), i, v)
            \/ ~cbm_write(f, i, v)]_vars

\* Removing and adding anew never fails for a write inside a file, on however
\* full a disk, as long as its name is not ambiguous.
InPlaceWriteSucceeds ==
    [][\A f \in Names :
        mounted /\ reply' = Reply({f}, FALSE) /\ Cardinality(Named(g_img, f)) = 1 =>
            \A i \in DOMAIN ReadFile(g_img, f), v \in WriteData : ~cbm_write(f, i, v)]_vars
=============================================================================
