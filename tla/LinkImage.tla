----------------------------- MODULE LinkImage -----------------------------
(***************************************************************************)
(* O45Linker::link after archive members have been pulled: segments are     *)
(* laid out, symbols resolved, calls across calling conventions routed      *)
(* through thunks, addresses patched and the image written.  One action is  *)
(* one phase, or one round of a phase's loop over chunks, objects or        *)
(* relocations.  The zero-page segment is left out (it is placed like BSS), *)
(* as are partial-width relocations and the optimisation reports.           *)
(***************************************************************************)
EXTENDS Integers, ObjectFile, FiniteSetsExt

CONSTANTS
    Links,         \* the links considered: [units, dataBase, bssBase, thunkMode]
    TextBase,      \* the load address of the image
    Unset,          \* the value of dataBase and bssBase that no option set
    SegmentNames   \* names of text sub-segments in layout order: "init" first,
                   \* then "code", then the others in alphabetical order

ASSUME BaseAssumption == TextBase \in Nat /\ Unset \notin Nat

ASSUME NamesAssumption ==
    /\ SegmentNames \in Seq(STRING) /\ IsInjective(SegmentNames)
    /\ Len(SegmentNames) >= 2 /\ SegmentNames[1] = "init" /\ SegmentNames[2] = "code"

ASSUME LinksAssumption ==
    \A lk \in Links :
        /\ lk.units \in Seq(ToSet(lk.units))
        /\ \A u \in ToSet(lk.units) :
              /\ IsUnit(u)
              /\ \A k \in DOMAIN u.text : u.text[k].name \in ToSet(SegmentNames)
        /\ lk.dataBase \in Nat \cup {Unset} /\ lk.bssBase \in Nat \cup {Unset}

VARIABLES
    link,            \* the units to be linked and the options
    inputs,          \* objects_: what ca45 wrote for them
    textRemaps,      \* per object, where its text chunks went
    dataOffset, bssOffset,
    unplaced,        \* text chunks layoutSegments has yet to copy
    mergedText, mergedData, mergedBssLen,
    dataBase, bssBase,
    globalSymbols,   \* name -> [addr, weak, source]
    callSiteOverrides,  \* <<object, offset>> of a call -> address of its thunk
    todo,            \* relocations still to be applied, as <<object, relocation>>
    binary,          \* the image
    next,            \* the object a loop over the objects looks at
    phase

linkVars == <<link, inputs, textRemaps, dataOffset, bssOffset, unplaced, mergedText,
              mergedData, mergedBssLen, dataBase, bssBase, globalSymbols,
              callSiteOverrides, todo, binary, next, phase>>

Empty == [x \in {} |-> 0]
ObjectIndex == 1..Len(inputs)

-----------------------------------------------------------------------------
\* layoutSegments

\* The chunks of object n: its recorded sub-segments, or its whole text as one
\* chunk of "code".
Chunks(n) ==
    LET o == inputs[n]
        Of(a) == [object |-> n, src |-> a.offset, len |-> a.length, name |-> a.name]
    IN  IF o.textBody = <<>> THEN {}
        ELSE IF o.segAttrs = {}
        THEN {[object |-> n, src |-> 0, len |-> Len(o.textBody), name |-> "code"]}
        ELSE {Of(a) : a \in o.segAttrs}

IsDefault(c) == inputs[c.object].segAttrs = {}

Rank(name) == CHOOSE k \in DOMAIN SegmentNames : SegmentNames[k] = name

InObjectOrder(c, d) == c.object < d.object \/ (c.object = d.object /\ c.src < d.src)

\* Mutated: chunks in the order of the objects, whatever their names.
ChunkBeforeByObject(c, d) == InObjectOrder(c, d)

\* Chunks of one name after another; under one name in object order, those of
\* objects without recorded sub-segments last.
ChunkBefore(c, d) ==
    \/ Rank(c.name) < Rank(d.name)
    \/ Rank(c.name) = Rank(d.name) /\ ~IsDefault(c) /\ IsDefault(d)
    \/ Rank(c.name) = Rank(d.name) /\ IsDefault(c) = IsDefault(d) /\ InObjectOrder(c, d)

\* Mutated: chunks are looked for in the two groups with a fixed place only.
AllChunksKnownNames ==
    {c \in UNION {Chunks(n) : n \in ObjectIndex} : c.name \in {"init", "code"}}

AllChunks == UNION {Chunks(n) : n \in ObjectIndex}

LinkInit ==
    /\ link \in Links
    /\ inputs = [n \in 1..Len(link.units) |-> EmitO45(link.units[n], n)]
    /\ unplaced = AllChunks
    /\ textRemaps = [n \in ObjectIndex |-> <<>>] /\ dataOffset = <<>> /\ bssOffset = <<>>
    /\ mergedText = <<>> /\ mergedData = <<>> /\ mergedBssLen = 0
    /\ dataBase = link.dataBase
    /\ bssBase = link.bssBase
    /\ globalSymbols = Empty
    /\ callSiteOverrides = Empty
    /\ todo = {}
    /\ binary = <<>>
    /\ next = 1
    /\ phase = "layout"

\* The next chunk is copied to the end of the text, and its object told where it went.
PlaceChunk ==
    /\ phase = "layout"
    /\ \E c \in unplaced :
          /\ \A d \in unplaced \ {c} : ChunkBefore(c, d)
          /\ mergedText' = mergedText
                \o SubSeq(inputs[c.object].textBody, c.src + 1, c.src + c.len)
          /\ textRemaps' = [textRemaps EXCEPT ![c.object] =
                Append(@, [src |-> c.src, len |-> c.len, dest |-> Len(mergedText)])]
          /\ unplaced' = unplaced \ {c}
    /\ UNCHANGED <<link, inputs, dataOffset, bssOffset, mergedData, mergedBssLen, dataBase, bssBase,
                   globalSymbols, callSiteOverrides, todo, binary, next, phase>>

\* Then data and BSS, object by object.
PlaceData ==
    /\ phase = "layout" /\ unplaced = {} /\ next <= Len(inputs)
    /\ dataOffset' = Append(dataOffset, Len(mergedData))
    /\ mergedData' = mergedData \o inputs[next].dataBody
    /\ bssOffset' = Append(bssOffset, mergedBssLen)
    /\ mergedBssLen' = mergedBssLen + inputs[next].blen
    /\ next' = next + 1
    /\ UNCHANGED <<link, inputs, textRemaps, unplaced, mergedText, dataBase, bssBase,
                   globalSymbols, callSiteOverrides, todo, binary, phase>>

\* Mutated: the BSS base is only what an option made it.
BssBaseUnset(opt, db, data) == opt

\* BSS goes right after the data unless an option places it.
BssBaseOf(opt, db, data) == IF opt = Unset THEN db + Len(data) ELSE opt

SetBases ==
    /\ phase = "layout" /\ unplaced = {} /\ next > Len(inputs)
    /\ dataBase' = IF dataBase = Unset THEN TextBase + Len(mergedText) ELSE dataBase
    /\ bssBase' = BssBaseOf(bssBase, dataBase', mergedData)
    /\ next' = 1
    /\ phase' = "resolve"
    /\ UNCHANGED <<link, inputs, textRemaps, dataOffset, bssOffset, unplaced, mergedText, mergedData,
                   mergedBssLen, globalSymbols, callSiteOverrides, todo, binary>>

\* textOffset: where the first chunk of object n went.
TextOffset(n) == IF textRemaps[n] = <<>> THEN 0 ELSE textRemaps[n][1].dest

RemapTextOffset(n, off) ==
    LET Covers(r) == off >= r.src /\ off < r.src + r.len
        hits == {k \in DOMAIN textRemaps[n] : Covers(textRemaps[n][k])}
        hit == textRemaps[n][Min(hits)]
    IN  IF hits = {} THEN TextOffset(n) + off ELSE hit.dest + (off - hit.src)

-----------------------------------------------------------------------------
\* resolveSymbols

SegmentStart(n, seg) ==
    CASE seg = "text" -> TextBase + TextOffset(n)
      [] seg = "data" -> dataBase + dataOffset[n]
      [] seg = "bss"  -> bssBase + bssOffset[n]

\* Mutated: an exported text symbol is placed by the object's first chunk.
ExportAddressUnmapped(n, e) == SegmentStart(n, e.seg) + e.offset

ExportAddress(n, e) ==
    IF e.seg = "text" THEN TextBase + RemapTextOffset(n, e.offset)
    ELSE SegmentStart(n, e.seg) + e.offset

Known(name) == name \in DOMAIN globalSymbols

\* The export e becomes the definition of its name.
TakesPlace(e) ==
    \/ ~Known(e.name)
    \/ globalSymbols[e.name].weak /\ ~e.weak

\* Mutated: any second definition clashes.
ClashesAlways(e) == Known(e.name)

Clashes(e) == Known(e.name) /\ ~globalSymbols[e.name].weak /\ ~e.weak

\* One round of the loop over the objects.
ResolveObject ==
    /\ phase = "resolve" /\ next <= Len(inputs)
    /\ LET exports == inputs[next].exports
           taken == {e \in exports : TakesPlace(e)}
           Of(name) == CHOOSE e \in taken : e.name = name
           names == {e.name : e \in taken}
       IN  IF \E e \in exports : Clashes(e)
           THEN phase' = "error" /\ UNCHANGED <<globalSymbols, next>>
           ELSE /\ globalSymbols' = [s \in DOMAIN globalSymbols \cup names |->
                      IF s \in names
                      THEN [addr |-> ExportAddress(next, Of(s)), weak |-> Of(s).weak,
                            source |-> next]
                      ELSE globalSymbols[s]]
                /\ next' = next + 1
                /\ UNCHANGED phase
    /\ UNCHANGED <<link, inputs, textRemaps, dataOffset, bssOffset, unplaced, mergedText,
                   mergedData, mergedBssLen, dataBase, bssBase, callSiteOverrides,
                   todo, binary>>

\* Mutated: __bss_end is the address of the last BSS byte.
BoundariesShort ==
    [s \in {"__bss_start", "__bss_end"} |->
        IF s = "__bss_start" THEN bssBase ELSE bssBase + mergedBssLen - 1]

Boundaries ==
    [s \in {"__bss_start", "__bss_end"} |->
        IF s = "__bss_start" THEN bssBase ELSE bssBase + mergedBssLen]

\* The linker's own symbols, then the check that every import is defined.
CheckImports ==
    /\ phase = "resolve" /\ next > Len(inputs)
    /\ globalSymbols' = [s \in DOMAIN globalSymbols \cup DOMAIN Boundaries |->
          IF Known(s) THEN globalSymbols[s]
          ELSE [addr |-> Boundaries[s], weak |-> FALSE, source |-> 0]]
    /\ phase' = IF \A n \in ObjectIndex : inputs[n].imports \subseteq DOMAIN globalSymbols'
             THEN "analyse" ELSE "error"
    /\ UNCHANGED <<link, inputs, textRemaps, dataOffset, bssOffset, unplaced, mergedText,
                   mergedData, mergedBssLen, dataBase, bssBase, callSiteOverrides,
                   todo, binary, next>>

-----------------------------------------------------------------------------
\* buildFuncAttrs, buildCallGraph, emitDiagnostics, generateThunks

\* The objects whose export table gives `name' a calling convention.
Attributed(name) ==
    {n \in ObjectIndex : \E e \in inputs[n].exports : e.name = name /\ e.conv # "none"}

ConvIn(n, name) == (CHOOSE e \in inputs[n].exports : e.name = name).conv

\* funcAttrs_: the first object's attributes, but the last one's when the symbol
\* has a strong definition.
FuncConv(name) ==
    IF Attributed(name) = {} THEN "none"
    ELSE ConvIn(IF globalSymbols[name].weak THEN Min(Attributed(name))
                ELSE Max(Attributed(name)), name)

TextExports(n) == {e \in inputs[n].exports : e.seg = "text"}

\* The function a call at offset `at' of object n belongs to ("none" if it comes
\* before the first): the exported text symbol that starts last before it.
Caller(n, at) ==
    LET before == {e \in TextExports(n) : e.offset <= at}
    IN  IF before = {} THEN NoLabel
        ELSE (CHOOSE e \in before : \A f \in before : f.offset <= e.offset).name

IsCall(n, r) == r.table = "text" /\ inputs[n].textBody[r.at + 1].op = "jsr"

\* The function a call names ("none" if the call graph has no edge for it): an
\* import, or the exported symbol at the assembled operand.
Callee(n, r) ==
    LET here == {e \in TextExports(n) : e.offset = inputs[n].textBody[r.at + 1].val}
    IN  IF r.seg = "external" THEN r.sym
        ELSE IF r.seg = "text" /\ here # {} THEN (CHOOSE e \in here : TRUE).name
        ELSE NoLabel

Bridge(conv, callee) == [from |-> conv, callee |-> callee]

\* Call r of object n crosses conventions.
Mismatch(n, r) ==
    /\ IsCall(n, r) /\ Caller(n, r.at) # NoLabel /\ Callee(n, r) # NoLabel
    /\ FuncConv(Caller(n, r.at)) # "none"
    /\ FuncConv(Callee(n, r)) # "none"
    /\ FuncConv(Caller(n, r.at)) # FuncConv(Callee(n, r))

Crossing == {s \in UNION {{n} \X inputs[n].textRelocs : n \in ObjectIndex} :
                Mismatch(s[1], s[2])}
BridgeAt(s) == Bridge(FuncConv(Caller(s[1], s[2].at)), Callee(s[1], s[2]))

\* With --no-thunks a crossing call fails the link.
Diagnose(crossing) ==
    IF link.thunkMode = "error" /\ crossing # {} THEN "error" ELSE "ok"

\* A thunk converts the arguments and goes on to the callee.
Thunk(b) == [op |-> "thunk", to |-> b.callee, val |-> globalSymbols[b.callee].addr,
             home |-> <<0, b.from, b.callee>>]

AllRelocs ==
    UNION {{n} \X (inputs[n].textRelocs \cup inputs[n].dataRelocs) : n \in ObjectIndex}

\* One thunk for each pair of a caller's convention and a callee, appended to the
\* text; calls to imports are to be sent there.
GenerateThunks ==
    /\ phase = "analyse"
    /\ LET thunks == SetToSeq({BridgeAt(s) : s \in Crossing})
           Address(b) == TextBase + Len(mergedText)
                         + (CHOOSE i \in DOMAIN thunks : thunks[i] = b) - 1
           sites == {s \in Crossing : s[2].seg = "external"}
       IN  IF Diagnose(Crossing) = "error"
           THEN phase' = "error" /\ UNCHANGED <<mergedText, callSiteOverrides, todo>>
           ELSE /\ mergedText' = mergedText \o [i \in 1..Len(thunks) |-> Thunk(thunks[i])]
                /\ callSiteOverrides' =
                      [p \in {<<s[1], s[2].at>> : s \in sites} |->
                          Address(BridgeAt(CHOOSE s \in sites : <<s[1], s[2].at>> = p))]
                /\ todo' = AllRelocs
                /\ phase' = "relocate"
    /\ UNCHANGED <<link, inputs, textRemaps, dataOffset, bssOffset, unplaced, mergedData,
                   mergedBssLen, dataBase, bssBase, globalSymbols, binary, next>>

-----------------------------------------------------------------------------
\* applyRelocs

SeveralChunks(n) == Len(textRemaps[n]) > 1

\* Where relocation r of object n is applied.  Chunks are considered whenever
\* the object's offset in the segment being patched equals its text offset.
PatchPos(n, r) ==
    LET objOffset == IF r.table = "text" THEN TextOffset(n) ELSE dataOffset[n]
    IN  IF SeveralChunks(n) /\ objOffset = TextOffset(n)
        THEN RemapTextOffset(n, r.at)
        ELSE objOffset + r.at

\* Mutated: the thunk is forgotten.
ExternalTargetDirect(n, r, val) == globalSymbols[r.sym].addr + val

ExternalTarget(n, r, val) ==
    IF r.table = "text" /\ <<n, r.at>> \in DOMAIN callSiteOverrides
    THEN callSiteOverrides[<<n, r.at>>]
    ELSE globalSymbols[r.sym].addr + val

InternalTarget(n, r, val) ==
    IF r.seg = "text" /\ SeveralChunks(n) THEN TextBase + RemapTextOffset(n, val)
    ELSE SegmentStart(n, r.seg) + val

Target(n, r, val) ==
    IF r.seg = "external" THEN ExternalTarget(n, r, val) ELSE InternalTarget(n, r, val)

\* Object by object, first what patches text, then what patches data, each by offset.
RelocBefore(x, y) ==
    \/ x[1] < y[1]
    \/ x[1] = y[1] /\ x[2].table = "text" /\ y[2].table = "data"
    \/ x[1] = y[1] /\ x[2].table = y[2].table /\ x[2].at < y[2].at

\* Patch one address, or fail because the place is outside the segment.
ApplyReloc ==
    /\ phase = "relocate"
    /\ \E x \in todo :
          /\ \A y \in todo \ {x} : RelocBefore(x, y)
          /\ LET n == x[1]
                 r == x[2]
                 body == IF r.table = "text" THEN mergedText ELSE mergedData
                 p == PatchPos(n, r) + 1
                 patched == [body EXCEPT ![p].val = Target(n, r, @)]
             IN  IF p > Len(body)
                 THEN phase' = "error" /\ UNCHANGED <<mergedText, mergedData, todo>>
                 ELSE /\ mergedText' = IF r.table = "text" THEN patched ELSE mergedText
                      /\ mergedData' = IF r.table = "data" THEN patched ELSE mergedData
                      /\ todo' = todo \ {x}
                      /\ UNCHANGED phase
    /\ UNCHANGED <<link, inputs, textRemaps, dataOffset, bssOffset, unplaced, mergedBssLen,
                   dataBase, bssBase, globalSymbols, callSiteOverrides, binary, next>>

Zero == [op |-> "rts", to |-> NoLabel, val |-> 0, home |-> <<0, "gap", NoLabel>>]

\* Zeros up to the data, if it does not follow the text at once.
Gap(textEnd) ==
    IF mergedData # <<>> /\ dataBase > textEnd
    THEN [i \in 1..(dataBase - textEnd) |-> Zero] ELSE <<>>

Emit ==
    /\ phase = "relocate" /\ todo = {}
    /\ binary' = mergedText \o Gap(TextBase + Len(mergedText)) \o mergedData
    /\ phase' = "done"
    /\ UNCHANGED <<link, inputs, textRemaps, dataOffset, bssOffset, unplaced, mergedText,
                   mergedData, mergedBssLen, dataBase, bssBase, globalSymbols,
                   callSiteOverrides, todo, next>>

LinkEnds == phase \in {"done", "error"} /\ UNCHANGED linkVars

LinkNext ==
    \/ PlaceChunk \/ PlaceData \/ SetBases
    \/ ResolveObject \/ CheckImports \/ GenerateThunks \/ ApplyReloc \/ Emit
    \/ LinkEnds

LinkSpec == LinkInit /\ [][LinkNext]_linkVars

-----------------------------------------------------------------------------
\* What the image must be, stated on the units and the image alone.

Done == phase = "done"
Units == 1..Len(link.units)
ImageIndex == 1..Len(binary)
AddressAt(i) == TextBase + i - 1

Definers(us, name) == {n \in DOMAIN us : \E l \in us[n].labels : l.name = name /\ l.global}
Strong(us, name) == {n \in Definers(us, name) : ~LabelOf(us[n], name).weak}

\* The unit whose definition of `name' a use in unit n means: its own if the
\* label is local, the strong definition if there is one, the first otherwise.
Meant(us, n, name) ==
    IF IsDefined(us[n], name) /\ ~LabelOf(us[n], name).global THEN n
    ELSE IF Strong(us, name) # {} THEN Min(Strong(us, name))
    ELSE Min(Definers(us, name))

\* The BSS bytes of the units before unit n.
BssBefore(us, n) ==
    LET upTo[k \in 0..Len(us)] == IF k = 0 THEN 0 ELSE upTo[k - 1] + us[k].bss
    IN  upTo[n - 1]

\* Where the definition of `name' in unit n ended up in memory.
Placed(n, name) ==
    LET u == link.units[n]
        l == LabelOf(u, name)
        home == <<n, l.seg, ExportOffset(u, l)>>
    IN  IF l.seg = "bss" THEN bssBase + BssBefore(link.units, n) + l.off
        ELSE AddressAt(CHOOSE i \in ImageIndex : binary[i].home = home)

\* The convention of the function that offset `at' of unit u's text belongs to.
ConvAt(u, at) ==
    LET before == {l \in u.labels : l.seg = "text" /\ ExportOffset(u, l) <= at}
    IN  IF before = {} THEN "none"
        ELSE (CHOOSE l \in before :
                \A k \in before : ExportOffset(u, k) <= ExportOffset(u, l)).conv

\* The image cells of kind op that name a label of the units.
Uses(op) == {i \in ImageIndex : binary[i].op = op
                                 /\ binary[i].to \notin DOMAIN Boundaries}
MeantBy(i) == Meant(link.units, binary[i].home[1], binary[i].to)

-----------------------------------------------------------------------------
\* What the properties ask of a link beyond what ca45 guarantees.

UsedIn(u) == ToSet(TextOf(u)) \cup ToSet(u.data)

\* Units do not use labels of their own that mean another unit's, as a weak hook does.
OwnUsesMeanOwn(lk) ==
    \A n \in DOMAIN lk.units : LET u == lk.units[n] IN
        \A c \in UsedIn(u) : IsDefined(u, c.to) => Meant(lk.units, n, c.to) = n

\* Code labels that a unit uses itself lie in the sub-segment it starts with.
OwnUsesUnsplit(lk) ==
    \A u \in ToSet(lk.units) : \A c \in UsedIn(u) : IsDefined(u, c.to) =>
        LET l == LabelOf(u, c.to) IN l.seg = "text" => SubOffset(u, l.sub) = 0

\* Units with several sub-segments have no addresses in their data.
SplitUnitsPlainData(lk) ==
    \A u \in ToSet(lk.units) :
        \/ \A j, k \in DOMAIN u.text : u.text[j].body # <<>> /\ u.text[k].body # <<>> => j = k
        \/ \A c \in ToSet(u.data) : c.to = NoLabel

\* No unit defines the names of the linker's own symbols.
BoundariesFree(lk) ==
    \A u \in ToSet(lk.units) : ~IsDefined(u, "__bss_start") /\ ~IsDefined(u, "__bss_end")

PlainLink(lk) == OwnUsesMeanOwn(lk) /\ OwnUsesUnsplit(lk) /\ SplitUnitsPlainData(lk)

\* Functions are global, in the text and at a place each, and what defines a name anew,
\* like a strong definition that takes a weak one's place, keeps its convention.  Calls
\* are code, and are not to the linker's own symbols.
PlainFunctions(lk) ==
    /\ \A u \in ToSet(lk.units) :
          /\ \A l \in u.labels : IF l.seg = "text" THEN l.global ELSE l.conv = "none"
          /\ \A l, m \in u.labels :
                l.seg = "text" /\ m.seg = "text" /\ ExportOffset(u, l) = ExportOffset(u, m) => l = m
          /\ \A c \in ToSet(u.data) : c.op # "jsr"
          /\ \A c \in ToSet(TextOf(u)) : c.op = "jsr" => c.to \notin {"__bss_start", "__bss_end"}
    /\ \A u, v \in ToSet(lk.units) : \A l \in u.labels, m \in v.labels :
          l.name = m.name /\ l.global /\ m.global => l.conv = m.conv

\* Calls inside a unit keep the convention.
OwnCallsAgree(lk) ==
    \A u \in ToSet(lk.units) : \A k \in 1..Len(TextOf(u)) :
        LET c == TextOf(u)[k] IN
        c.op = "jsr" /\ IsDefined(u, c.to) =>
            LET from == ConvAt(u, k - 1)
                into == LabelOf(u, c.to).conv
            IN  "none" \in {from, into} \/ from = into

\* The data is placed behind the text: always, if it is placed automatically and there are
\* no thunks.
DataAfterText == dataBase >= TextBase + Len(mergedText)

LinkTypeOK ==
    /\ phase \in {"layout", "resolve", "analyse", "relocate", "done", "error"}
    /\ next \in 1..(Len(inputs) + 1)
    /\ unplaced \subseteq AllChunks /\ todo \subseteq AllRelocs
    /\ \A n \in ObjectIndex : \A k \in DOMAIN textRemaps[n] :
          textRemaps[n][k] \in [src : Nat, len : Nat, dest : 0..Len(mergedText)]
    /\ \A s \in DOMAIN globalSymbols :
          globalSymbols[s] \in [addr : Nat, weak : BOOLEAN, source : 0..Len(inputs)]
    /\ \A b \in {mergedText, mergedData, binary} : \A i \in DOMAIN b : b[i].val \in Nat
    /\ phase # "layout" => dataBase \in Nat /\ bssBase \in Nat

\* Every address in the image is that of the definition the source means, at the
\* place it was loaded (applyRelocs after layoutSegments and resolveSymbols).
ReferencesReachDefinitions ==
    Done => \A i \in Uses("ref") : binary[i].val = Placed(MeantBy(i), binary[i].to)

\* A call reaches its function directly if the conventions agree, and otherwise a
\* thunk from the caller's convention to that function (generateThunks).
CallsBridged ==
    Done => \A i \in Uses("jsr") :
        LET addr == Placed(MeantBy(i), binary[i].to)
            from == ConvAt(link.units[binary[i].home[1]], binary[i].home[3])
            into == LabelOf(link.units[MeantBy(i)], binary[i].to).conv
        IN  IF "none" \in {from, into} \/ from = into
            THEN binary[i].val = addr
            ELSE \E j \in ImageIndex :
                    /\ binary[i].val = AddressAt(j)
                    /\ binary[j].op = "thunk" /\ binary[j].val = addr
                    /\ binary[j].home[2] = from

\* Reordering sub-segments loses and repeats nothing: each instruction and datum
\* is in the image once.
ImageHoldsEveryCell ==
    Done => \A n \in Units : LET u == link.units[n] IN
        \A h \in ({n} \X {"text"} \X (0..(Len(TextOf(u)) - 1)))
                 \cup ({n} \X {"data"} \X (0..(Len(u.data) - 1))) :
            Cardinality({i \in ImageIndex : binary[i].home = h}) = 1

\* The name of the text sub-segment image cell i comes from.
SubSegment(i) ==
    LET u == link.units[binary[i].home[1]]
    IN  u.text[CHOOSE k \in 1..Len(u.text) :
                  /\ SubOffset(u, k) <= binary[i].home[3]
                  /\ binary[i].home[3] < SubOffset(u, k) + Len(u.text[k].body)].name

\* Start-up code precedes all other code and runs in link order: crt0 falls
\* through the `init' parts of all objects.
InitRunsFirst ==
    Done => \A i, j \in ImageIndex :
        /\ i < j
        /\ binary[i].home[2] = "text" /\ binary[j].home[2] = "text"
        /\ SubSegment(j) = "init"
        => SubSegment(i) = "init" /\ binary[i].home[1] <= binary[j].home[1]

\* The link fails for two strong definitions, for a use of nothing, and for a
\* crossing call when thunks are refused, and for nothing else.
\* (The errors of convErrors_, about parameters of statically allocated functions
\* and their conventions, are no part of this model: its links have none.)
MustFail ==
    \/ \E n \in Units : \E l \in link.units[n].labels : Cardinality(Strong(link.units, l.name)) > 1
    \/ \E n \in Units : \E c \in ToSet(TextOf(link.units[n])) \cup ToSet(link.units[n].data) :
          /\ c.to \notin {NoLabel, "__bss_start", "__bss_end"}
          /\ ~IsDefined(link.units[n], c.to) /\ Definers(link.units, c.to) = {}
    \/ /\ link.thunkMode = "error"
       /\ \E n \in Units : LET u == link.units[n] IN
             \E k \in 1..Len(TextOf(u)) :
                LET c == TextOf(u)[k]
                    into == LabelOf(link.units[Meant(link.units, n, c.to)], c.to).conv
                    from == ConvAt(u, k - 1)
                IN  c.op = "jsr" /\ "none" \notin {from, into} /\ from # into

FailsOnlyForCause ==
    /\ Done => ~MustFail
    /\ phase = "error" => MustFail

\* What crt0 clears, from __bss_start up to __bss_end, is all of BSS and nothing
\* of the image (unless an option puts BSS there).
ZeroingBssIsSafe ==
    Done =>
        LET cleared == globalSymbols["__bss_start"].addr
                         .. (globalSymbols["__bss_end"].addr - 1)
            image == {AddressAt(i) : i \in ImageIndex}
        IN  /\ link.bssBase = Unset => cleared \cap image = {}
            /\ \A n \in Units : \A l \in link.units[n].labels :
                  l.seg = "bss" => Placed(n, l.name) \in cleared
=============================================================================
