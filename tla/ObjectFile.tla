----------------------------- MODULE ObjectFile -----------------------------
(***************************************************************************)
(* What ca45 writes into a relocatable object, as far as ln45 reads it      *)
(* (step 4 of emitO45).  A translation unit has text sub-segments, a data   *)
(* and a BSS segment and labels.  A cell stands for one instruction or one  *)
(* datum that holds at most one address, and has size one:                  *)
(*     [op |-> "jsr" | "ref" | "rts", to |-> the label it names]            *)
(* A label is a record [name, seg, sub, off, global, weak, conv]: its       *)
(* segment, the text sub-segment it lies in, its offset there, whether it   *)
(* is `.global', `.weak', and the calling convention of `.func_flags'.      *)
(***************************************************************************)
EXTENDS Naturals, Sequences, SequencesExt

NoLabel == "none"

Instr(op, to) == [op |-> op, to |-> to]
Label(name, seg, sub, off) ==
    [name |-> name, seg |-> seg, sub |-> sub, off |-> off,
     global |-> TRUE, weak |-> FALSE, conv |-> "none"]

\* Where text sub-segment k starts in the object's one text body.
SubOffset(u, k) ==
    Len(FlattenSeq([i \in 1..(k - 1) |-> u.text[i].body]))

TextOf(u) == FlattenSeq([i \in 1..Len(u.text) |-> u.text[i].body])

\* Calling conventions: `none' is a label without `.func_flags'.
Conventions == {"none", "stack", "zp"}

\* What can be a unit: names mean one thing each, and a label marks a cell.
Cells == [op : {"jsr", "ref", "rts"}, to : STRING]
Labels == [name : STRING, seg : {"text", "data", "bss"}, sub : Nat, off : Nat,
           global : BOOLEAN, weak : BOOLEAN, conv : Conventions]
IsUnit(u) ==
    /\ u.text \in Seq([name : STRING, body : Seq(Cells)])
    /\ u.data \in Seq(Cells)
    /\ \A c \in ToSet(TextOf(u)) \cup ToSet(u.data) : c.op # "rts" => c.to # NoLabel
    /\ u.bss \in Nat
    /\ u.labels \subseteq Labels
    /\ \A l \in u.labels :
          /\ l.name # NoLabel
          /\ l.seg = "text" => l.sub \in 1..Len(u.text) /\ l.off < Len(u.text[l.sub].body)
          /\ l.seg = "data" => l.off < Len(u.data)
          /\ l.seg = "bss"  => l.off < u.bss
    /\ \A l, m \in u.labels : l.name = m.name => l = m

IsDefined(u, name) == \E l \in u.labels : l.name = name
LabelOf(u, name) == CHOOSE l \in u.labels : l.name = name

\* The value the assembler leaves in a cell: every named segment is assembled
\* from address 0, so a label's value is its offset in its own sub-segment; the
\* operand of an external is 0.
Assembled(u, cell) ==
    IF IsDefined(u, cell.to) THEN LabelOf(u, cell.to).off ELSE 0

\* The cells of unit number n, with the place each came from.
Body(u, n, seg, cells) ==
    [i \in 1..Len(cells) |->
        [op |-> cells[i].op, to |-> cells[i].to,
         val |-> Assembled(u, cells[i]), home |-> <<n, seg, i - 1>>]]

\* An entry of a relocation table: the cell it patches (by offset) and either
\* the segment of its target or the name of an import.
Relocs(u, table, cells) ==
    LET Entry(i) ==
            [table |-> table, at |-> i - 1, sym |-> cells[i].to,
             seg |-> IF IsDefined(u, cells[i].to)
                     THEN LabelOf(u, cells[i].to).seg ELSE "external"]
    IN  {Entry(i) : i \in {j \in 1..Len(cells) : cells[j].to # NoLabel}}

\* Export offsets are moved with their sub-segment.
ExportOffset(u, l) ==
    IF l.seg = "text" THEN SubOffset(u, l.sub) + l.off ELSE l.off

\* Sub-segments are recorded when there are several, or one with a name of its
\* own; empty ones are not.
SegAttrs(u) ==
    LET Attr(k) == [name |-> u.text[k].name, offset |-> SubOffset(u, k),
                    length |-> Len(u.text[k].body)]
    IN  IF Len(u.text) = 1 /\ u.text[1].name = "code" THEN {}
        ELSE {Attr(k) : k \in {j \in 1..Len(u.text) : u.text[j].body # <<>>}}

\* The object written for unit number n.
EmitO45(u, n) ==
    [textBody   |-> Body(u, n, "text", TextOf(u)),
     dataBody   |-> Body(u, n, "data", u.data),
     blen       |-> u.bss,
     segAttrs   |-> SegAttrs(u),
     exports    |-> {[name |-> l.name, seg |-> l.seg, weak |-> l.weak,
                      conv |-> l.conv, offset |-> ExportOffset(u, l)] :
                        l \in {x \in u.labels : x.global}},
     imports    |-> {r.sym : r \in {x \in Relocs(u, "text", TextOf(u))
                                                \cup Relocs(u, "data", u.data) :
                                        x.seg = "external"}},
     textRelocs |-> Relocs(u, "text", TextOf(u)),
     dataRelocs |-> Relocs(u, "data", u.data)]
=============================================================================
