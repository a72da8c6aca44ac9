---------------------------- MODULE FarHeap_proof ----------------------------
(***************************************************************************)
(* The records of the far heap partition every bank, and the heap implements  *)
(* the abstract allocator, whatever the number and size of the banks and of   *)
(* the record tables.                                                        *)
(***************************************************************************)
EXTENDS FarHeap, SequenceTheorems, WellFoundedInduction, TLAPS

\* A table of records as far_malloc and far_free leave it.
Good(s) ==
    /\ s \in Seq(Record)
    /\ Len(s) <= MaxRecords
    /\ \A i \in 1..Len(s) : s[i].at + s[i].size <= Limit
    /\ Disjoint(s)

Tables(f) ==
    /\ f \in [Bank -> Seq(Record)]
    /\ \A b \in Bank : Good(f[b]) /\ (f[b] # <<>> => Covering(f[b]))

HeldTyped(h) ==
    /\ DOMAIN h \subseteq Pointer
    /\ \A p \in DOMAIN h : h[p] \in Seq(Value \cup {Unset})

\* The inductive invariant.
IInv ==
    /\ Tables(allocs)
    /\ turn \in [Bank -> 0..MaxRecords]
    /\ memory \in [Bank -> [Cell -> Value]]
    /\ HeldTyped(held)
    /\ HeldIsLive
    /\ ContentsKept

-----------------------------------------------------------------------------
LEMMA Least ==
    ASSUME NEW T \in SUBSET Nat, T # {}
    PROVE  \E m \in T : \A k \in T : m <= k
<1>. DEFINE R == OpToRel(<, Nat)
<1>1. IsWellFoundedOn(R, Nat)
  BY NatLessThanWellFounded
<1>2. PICK m \in T : \A k \in T : <<k, m>> \notin R
  <2>. HIDE DEF R
  <2>. QED BY <1>1, WFMin, Zenon
<1>3. \A k \in T : ~(k < m)
  BY <1>2 DEF OpToRel
<1>. QED BY <1>3

LEMMA RecordFields ==
    ASSUME NEW r \in Record
    PROVE  /\ r.at \in Nat /\ r.size \in Nat /\ r.free \in BOOLEAN
           /\ Base <= r.at /\ r.at < Limit /\ 1 <= r.size /\ r.size <= Limit - Base
  BY BoundsAssumption DEF Record, Cell, Size

LEMMA RecordBuilt ==
    ASSUME NEW at \in Nat, NEW size \in Nat, NEW free \in BOOLEAN,
           Base <= at, 1 <= size, at + size <= Limit
    PROVE  [at |-> at, size |-> size, free |-> free] \in Record
  BY BoundsAssumption DEF Record, Cell, Size

LEMMA GoodRecords ==
    ASSUME NEW s, Good(s)
    PROVE  /\ Len(s) \in Nat /\ DOMAIN s = 1..Len(s)
           /\ \A i \in 1..Len(s) : s[i] \in Record
           /\ \A i \in 1..Len(s) : s[i].at \in Nat /\ s[i].size \in Nat /\ s[i].free \in BOOLEAN
           /\ \A i \in 1..Len(s) : Base <= s[i].at /\ 1 <= s[i].size /\ s[i].at + s[i].size <= Limit
<1>1. s \in Seq(Record)
  BY DEF Good
<1>2. Len(s) \in Nat /\ DOMAIN s = 1..Len(s) /\ \A i \in 1..Len(s) : s[i] \in Record
  BY <1>1, LenProperties, ElementOfSeq
<1>3. \A i \in 1..Len(s) : s[i].at + s[i].size <= Limit
  BY DEF Good
<1>. QED BY <1>2, <1>3, RecordFields

LEMMA FoundIsLarge ==
    ASSUME NEW s, Good(s), NEW size, Large(s, size) # {}
    PROVE  Found(s, size) \in Large(s, size)
<1>1. Large(s, size) \in SUBSET Nat
  BY GoodRecords DEF Large
<1>2. \E i \in Large(s, size) : \A j \in Large(s, size) : i <= j
  BY <1>1, Least
<1>. QED BY <1>2 DEF Found

LEMMA Blocks ==
    ASSUME NEW b, NEW r, NEW q
    PROVE  /\ BlockOf(b, r) = BlockOf(b, q) <=> r.at = q.at /\ r.size = q.size
           /\ BlockOf(b, r).bank = b /\ BlockOf(b, r).at = r.at /\ BlockOf(b, r).size = r.size
  BY DEF BlockOf

LEMMA LiveMember ==
    ASSUME NEW b, NEW s, NEW n, DOMAIN s = 1..n, NEW x
    PROVE  x \in LiveOf(b, s) <=> \E i \in 1..n : ~s[i].free /\ x = BlockOf(b, s[i])
  BY DEF LiveOf

\* A fresh bank.
LEMMA InitializedGood ==
    ASSUME NEW b \in Bank, Good(allocs[b])
    PROVE  /\ Good(Initialized(b))
           /\ (allocs[b] # <<>> => Covering(allocs[b])) => Covering(Initialized(b))
           /\ LiveOf(b, Initialized(b)) = LiveOf(b, allocs[b])
<1>1. CASE allocs[b] # <<>>
  BY <1>1 DEF Initialized
<1>2. CASE allocs[b] = <<>>
  <2>. DEFINE r == [at |-> Base, size |-> Limit - Base, free |-> TRUE]
  <2>1. Initialized(b) = <<r>>
    BY <1>2 DEF Initialized
  <2>2. r.at = Base /\ r.size = Limit - Base /\ r.free = TRUE
    OBVIOUS
  <2>3. r \in Record
    <3>1. Base \in Cell /\ Limit - Base \in Size
      BY BoundsAssumption DEF Cell, Size
    <3>. QED BY <3>1 DEF Record
  <2>. HIDE DEF r
  <2>4. <<r>> \in Seq(Record) /\ Len(<<r>>) = 1 /\ <<r>>[1] = r /\ DOMAIN <<r>> = {1}
    BY <2>3
  <2>5. Good(<<r>>)
    BY <2>2, <2>4, BoundsAssumption DEF Good, Disjoint
  <2>6. Covering(<<r>>)
    BY <2>2, <2>4, BoundsAssumption DEF Covering, Cell
  <2>7. LiveOf(b, <<r>>) = {}
    BY <2>2, <2>4 DEF LiveOf
  <2>8. LiveOf(b, <<>>) = {}
    BY DEF LiveOf
  <2>. QED BY <1>2, <2>1, <2>5, <2>6, <2>7, <2>8
<1>. QED BY <1>1, <1>2

FlippedTo(s, i, flag) == [s EXCEPT ![i] = [at |-> s[i].at, size |-> s[i].size, free |-> flag]]

\* t has the records of s, all but record i with the same mark.
SamePlaces(s, t) ==
    /\ Len(t) = Len(s) /\ DOMAIN t = 1..Len(s)
    /\ \A j \in 1..Len(s) : t[j].at = s[j].at /\ t[j].size = s[j].size
SameMarks(s, t, i) == \A j \in 1..Len(s) : j # i => t[j].free = s[j].free

\* Marking a record free or in use moves nothing.
LEMMA Flipped ==
    ASSUME NEW s, Good(s), NEW i \in 1..Len(s), NEW flag \in BOOLEAN
    PROVE  LET t == FlippedTo(s, i, flag) IN
           /\ Good(t) /\ SamePlaces(s, t) /\ SameMarks(s, t, i)
           /\ flag => t[i].free
           /\ ~flag => ~t[i].free
           /\ Covering(s) => Covering(t)
<1>. DEFINE t == FlippedTo(s, i, flag)
<1>. DEFINE r == [at |-> s[i].at, size |-> s[i].size, free |-> flag]
<1>0. t = [s EXCEPT ![i] = r]
  BY DEF FlippedTo
<1>. HIDE DEF t
<1>1. r.at = s[i].at /\ r.size = s[i].size /\ r.free = flag
  OBVIOUS
<1>2. r \in Record
  BY GoodRecords, RecordBuilt
<1>. HIDE DEF r
<1>3. s \in Seq(Record)
  BY DEF Good
<1>4. /\ t \in Seq(Record) /\ Len(t) = Len(s)
      /\ \A j \in 1..Len(s) : t[j] = IF j = i THEN r ELSE s[j]
  BY <1>0, <1>2, <1>3, ExceptSeq
<1>5. \A j \in 1..Len(s) : t[j].at = s[j].at /\ t[j].size = s[j].size
  BY <1>1, <1>4
<1>6. (flag => t[i].free) /\ (~flag => ~t[i].free) /\ \A j \in 1..Len(s) : j # i => t[j].free = s[j].free
  BY <1>1, <1>4, Zenon
<1>7. DOMAIN t = 1..Len(s) /\ DOMAIN s = 1..Len(s)
  BY <1>3, <1>4, LenProperties
<1>8. Good(t)
  <2>1. Disjoint(t)
    BY <1>5, <1>7 DEF Good, Disjoint
  <2>2. Len(t) <= MaxRecords /\ \A j \in 1..Len(t) : t[j].at + t[j].size <= Limit
    BY <1>4, <1>5 DEF Good
  <2>. QED BY <1>4, <2>1, <2>2 DEF Good
<1>9. Covering(s) => Covering(t)
  BY <1>5, <1>7 DEF Covering
<1>. QED BY <1>4, <1>5, <1>6, <1>7, <1>8, <1>9 DEF t, SamePlaces, SameMarks

\* A free record becomes a block in use.
LEMMA ExactGood ==
    ASSUME NEW s, Good(s), NEW i \in 1..Len(s), s[i].free, NEW b
    PROVE  /\ Good(Exact(s, i)) /\ (Covering(s) => Covering(Exact(s, i)))
           /\ LiveOf(b, Exact(s, i)) = LiveOf(b, s) \cup {BlockOf(b, s[i])}
<1>. DEFINE t == Exact(s, i)
<1>1. t = FlippedTo(s, i, FALSE)
  BY DEF Exact, FlippedTo
<1>. HIDE DEF t
<1>2. /\ Good(t)
      /\ SamePlaces(s, t) /\ SameMarks(s, t, i)
      /\ ~t[i].free
      /\ Covering(s) => Covering(t)
  <2>1. FALSE \in BOOLEAN /\ TRUE \in BOOLEAN
    OBVIOUS
  <2>. QED BY <1>1, <2>1, Flipped, Zenon
<1>3. \A j \in 1..Len(s) : BlockOf(b, t[j]) = BlockOf(b, s[j])
  BY <1>2 DEF BlockOf, SamePlaces
<1>4. DOMAIN s = 1..Len(s)
  BY GoodRecords
<1>5. ASSUME NEW x
      PROVE  x \in LiveOf(b, t) <=> x \in LiveOf(b, s) \cup {BlockOf(b, s[i])}
  <2>1. x \in LiveOf(b, t) <=> \E j \in 1..Len(s) : ~t[j].free /\ x = BlockOf(b, s[j])
    BY <1>2, <1>3, LiveMember DEF SamePlaces
  <2>2. x \in LiveOf(b, s) <=> \E j \in 1..Len(s) : ~s[j].free /\ x = BlockOf(b, s[j])
    BY <1>4, LiveMember
  <2>. QED BY <1>2, <2>1, <2>2, Zenon DEF SameMarks
<1>6. LiveOf(b, t) = LiveOf(b, s) \cup {BlockOf(b, s[i])}
  BY <1>5, Zenon
<1>. QED BY <1>2, <1>6 DEF t

\* A block in use becomes free.
LEMMA MarkedGood ==
    ASSUME NEW s, Good(s), NEW i \in 1..Len(s), ~s[i].free, NEW b
    PROVE  /\ Good(Marked(s, i)) /\ (Covering(s) => Covering(Marked(s, i)))
           /\ LiveOf(b, Marked(s, i)) = LiveOf(b, s) \ {BlockOf(b, s[i])}
           /\ SamePlaces(s, Marked(s, i)) /\ SameMarks(s, Marked(s, i), i)
<1>. DEFINE t == Marked(s, i)
<1>1. t = FlippedTo(s, i, TRUE)
  BY DEF Marked, FlippedTo
<1>. HIDE DEF t
<1>2. /\ Good(t)
      /\ SamePlaces(s, t) /\ SameMarks(s, t, i)
      /\ t[i].free
      /\ Covering(s) => Covering(t)
  <2>1. FALSE \in BOOLEAN /\ TRUE \in BOOLEAN
    OBVIOUS
  <2>. QED BY <1>1, <2>1, Flipped, Zenon
<1>3. \A j \in 1..Len(s) : BlockOf(b, t[j]) = BlockOf(b, s[j])
  BY <1>2 DEF BlockOf, SamePlaces
<1>4. DOMAIN s = 1..Len(s)
  BY GoodRecords
<1>5. \A j \in 1..Len(s) : j # i => BlockOf(b, s[j]) # BlockOf(b, s[i])
  <2>1. \A j \in 1..Len(s) : j # i => s[j].at # s[i].at
    <3>1. \A j \in 1..Len(s) : s[j].at \in Nat /\ s[j].size \in Nat /\ 1 <= s[j].size
      BY GoodRecords
    <3>2. \A j \in 1..Len(s) : j # i => \/ s[i].at + s[i].size <= s[j].at
                                        \/ s[j].at + s[j].size <= s[i].at
      BY <1>4 DEF Good, Disjoint
    <3>. QED BY <3>1, <3>2
  <2>. QED BY <2>1 DEF BlockOf
<1>6. ASSUME NEW x
      PROVE  x \in LiveOf(b, t) <=> x \in LiveOf(b, s) \ {BlockOf(b, s[i])}
  <2>1. x \in LiveOf(b, t) <=> \E j \in 1..Len(s) : ~t[j].free /\ x = BlockOf(b, s[j])
    BY <1>2, <1>3, LiveMember DEF SamePlaces
  <2>2. x \in LiveOf(b, s) <=> \E j \in 1..Len(s) : ~s[j].free /\ x = BlockOf(b, s[j])
    BY <1>4, LiveMember
  <2>. QED BY <1>2, <1>5, <2>1, <2>2, Zenon DEF SameMarks
<1>7. LiveOf(b, t) = LiveOf(b, s) \ {BlockOf(b, s[i])}
  BY <1>6, Zenon
<1>. QED BY <1>2, <1>4, <1>7, Zenon DEF t

\* A free record is split into a block in use and a free remainder.
LEMMA NoRoom ==
    ASSUME NEW at \in Nat, NEW size \in Nat, 1 <= size, NEW end \in Nat, at + size <= end, end <= at
    PROVE  FALSE
  OBVIOUS

LEMMA Later ==
    ASSUME NEW end \in Nat, NEW at \in Nat, NEW n \in Nat, end <= at
    PROVE  end <= at + n
  OBVIOUS

\* A shorter record ends no later.
LEMMA Shorter ==
    ASSUME NEW at \in Nat, NEW m \in Nat, NEW n \in Nat, m <= n, NEW end \in Nat, at + n <= end
    PROVE  at + m <= end
  OBVIOUS

LEMMA SplitGood ==
    ASSUME NEW s, Good(s), NEW i \in 1..Len(s), s[i].free, Len(s) < MaxRecords,
           NEW want \in Nat, 1 <= want, s[i].size > want, NEW b
    PROVE  LET t == Split(s, i, want) IN
           /\ Good(t) /\ (Covering(s) => Covering(t))
           /\ LiveOf(b, t) = LiveOf(b, s) \cup {[bank |-> b, at |-> s[i].at, size |-> want]}
           /\ Len(t) = Len(s) + 1 /\ DOMAIN t = 1..(Len(s) + 1)
           /\ \A j \in 1..Len(s) : t[j].at = s[j].at
           /\ \A j \in 1..Len(s) : j # i => t[j].free = s[j].free
<1>. DEFINE r == [at |-> s[i].at, size |-> want, free |-> FALSE]
            q == [at |-> s[i].at + want, size |-> s[i].size - want, free |-> TRUE]
            u == [s EXCEPT ![i] = r]
            t == Split(s, i, want)
<1>s. s \in Seq(Record)
  BY DEF Good
<1>d. DOMAIN s = 1..Len(s)
  BY GoodRecords
<1>n. Len(s) \in Nat
  BY GoodRecords
<1>1. \A j \in 1..Len(s) : /\ s[j].at \in Nat /\ s[j].size \in Nat
                          /\ Base <= s[j].at /\ 1 <= s[j].size /\ s[j].at + s[j].size <= Limit
  BY GoodRecords, Zenon
<1>f. /\ s[i].at \in Nat /\ s[i].size \in Nat
      /\ Base <= s[i].at /\ 1 <= s[i].size /\ s[i].at + s[i].size <= Limit
  BY <1>1, Zenon
<1>2. r \in Record /\ q \in Record
  <2>1. s[i].at + want \in Nat /\ Base <= s[i].at + want /\ s[i].at + want <= Limit
    BY <1>f, BoundsAssumption
  <2>2. s[i].size - want \in Nat /\ 1 <= s[i].size - want
    BY <1>f
  <2>3. (s[i].at + want) + (s[i].size - want) <= Limit
    BY <1>f
  <2>4. r \in Record
    BY <1>f, <2>1, RecordBuilt
  <2>5. q \in Record
    BY <2>1, <2>2, <2>3, RecordBuilt
  <2>. QED BY <2>4, <2>5
<1>3. t = Append(u, q)
  BY DEF Split
<1>4. /\ r.at = s[i].at /\ r.size = want /\ r.free = FALSE
      /\ q.at = s[i].at + want /\ q.size = s[i].size - want /\ q.free = TRUE
  OBVIOUS
<1>5. r = [at |-> s[i].at, size |-> want, free |-> FALSE]
  OBVIOUS
<1>. HIDE DEF t, r, q
<1>6. /\ u \in Seq(Record) /\ Len(u) = Len(s)
      /\ \A j \in 1..Len(s) : u[j] = IF j = i THEN r ELSE s[j]
  BY <1>s, <1>2, ExceptSeq
<1>. HIDE DEF u
<1>7. /\ t \in Seq(Record) /\ Len(t) = Len(s) + 1
      /\ \A j \in 1..Len(s) : t[j] = u[j]
      /\ t[Len(s) + 1] = q
  BY <1>2, <1>3, <1>6, AppendProperties
<1>8. DOMAIN t = 1..(Len(s) + 1)
  BY <1>7, LenProperties
<1>i. i \in 1..Len(s) /\ Len(s) < MaxRecords
  OBVIOUS
<1>9. /\ \A j \in 1..Len(s) : t[j].at = s[j].at
      /\ \A j \in 1..Len(s) : j # i => t[j].size = s[j].size
  BY <1>4, <1>6, <1>7
<1>g. /\ t[i].at = s[i].at /\ t[i].size = want
      /\ t[Len(s) + 1].at = s[i].at + want /\ t[Len(s) + 1].size = s[i].size - want
  BY <1>4, <1>6, <1>7
<1>e. t[Len(s) + 1].at + t[Len(s) + 1].size = s[i].at + s[i].size
  <2>1. (s[i].at + want) + (s[i].size - want) = s[i].at + s[i].size
    BY <1>f
  <2>. QED BY <2>1, <1>g, Zenon
<1>10. /\ ~t[i].free /\ t[Len(s) + 1].free
       /\ \A j \in 1..Len(s) : j # i => t[j].free = s[j].free
  BY <1>4, <1>6, <1>7, <1>i, Zenon
<1>11. Good(t)
  <2>1. \A j, k \in 1..Len(s) : j # k => \/ s[j].at + s[j].size <= s[k].at
                                    \/ s[k].at + s[k].size <= s[j].at
    BY <1>d DEF Good, Disjoint
  <2>2. \A j, k \in 1..Len(s) : j # k => \/ t[j].at + t[j].size <= t[k].at
                                         \/ t[k].at + t[k].size <= t[j].at
    <3>. SUFFICES ASSUME NEW j \in 1..Len(s), NEW k \in 1..Len(s), j # k
                  PROVE  t[j].at + t[j].size <= t[k].at \/ t[k].at + t[k].size <= t[j].at
      OBVIOUS
    <3>1. s[j].at + s[j].size <= s[k].at \/ s[k].at + s[k].size <= s[j].at
      BY <2>1
    <3>2. /\ s[j].at \in Nat /\ s[j].size \in Nat /\ s[k].at \in Nat /\ s[k].size \in Nat
          /\ t[j].at = s[j].at /\ t[k].at = s[k].at
          /\ j # i => t[j].size = s[j].size
          /\ k # i => t[k].size = s[k].size
      BY <1>1, <1>9
    <3>3. t[i].size = want /\ want <= s[i].size /\ s[i].size \in Nat
      BY <1>f, <1>g
    <3>4. t[j].size \in Nat /\ t[j].size <= s[j].size
      BY <3>2, <3>3
    <3>5. t[k].size \in Nat /\ t[k].size <= s[k].size
      BY <3>2, <3>3
    <3>6. t[j].at = s[j].at /\ t[k].at = s[k].at /\ s[j].at \in Nat /\ s[k].at \in Nat
      BY <3>2
    <3>7. CASE s[j].at + s[j].size <= s[k].at
      <4>1. s[j].at + t[j].size <= s[k].at
        BY <3>2, <3>4, <3>7, Shorter, Zenon
      <4>. QED BY <3>6, <4>1, Zenon
    <3>8. CASE s[k].at + s[k].size <= s[j].at
      <4>1. s[k].at + t[k].size <= s[j].at
        BY <3>2, <3>5, <3>8, Shorter, Zenon
      <4>. QED BY <3>6, <4>1, Zenon
    <3>. QED BY <3>1, <3>7, <3>8, Zenon
  <2>3. \A k \in 1..Len(s) : \/ t[k].at + t[k].size <= t[Len(s) + 1].at
                            \/ t[Len(s) + 1].at + t[Len(s) + 1].size <= t[k].at
    <3>. SUFFICES ASSUME NEW k \in 1..Len(s)
                  PROVE  \/ t[k].at + t[k].size <= t[Len(s) + 1].at
                         \/ t[Len(s) + 1].at + t[Len(s) + 1].size <= t[k].at
      OBVIOUS
    <3>1. k # i => s[i].at + s[i].size <= s[k].at \/ s[k].at + s[k].size <= s[i].at
      BY <2>1
    <3>2. /\ s[k].at \in Nat /\ s[k].size \in Nat
          /\ t[k].at = s[k].at
          /\ k # i => t[k].size = s[k].size
      BY <1>1, <1>9
    <3>3. CASE k = i
      BY <3>3, <1>f, <1>g
    <3>4. CASE k # i
      <4>1. t[k].size = s[k].size /\ t[k].at = s[k].at /\ s[k].at \in Nat /\ s[k].size \in Nat
        BY <3>2, <3>4
      <4>2. CASE s[i].at + s[i].size <= s[k].at
        BY <4>1, <4>2, <1>e, Zenon
      <4>3. CASE s[k].at + s[k].size <= s[i].at
        <5>1. s[k].at + s[k].size \in Nat /\ s[i].at \in Nat
          BY <4>1, <1>f, SMTT(30)
        <5>2. s[k].at + s[k].size <= s[i].at + want
          BY <4>3, <5>1, Later, Zenon
        <5>. QED BY <4>1, <5>2, <1>g, Zenon
      <4>. QED BY <3>1, <3>4, <4>2, <4>3, Zenon
    <3>. QED BY <3>3, <3>4
  <2>5. \A j, k \in 1..(Len(s) + 1) : j # k => \/ t[j].at + t[j].size <= t[k].at
                                              \/ t[k].at + t[k].size <= t[j].at
    <3>1. \A j \in 1..(Len(s) + 1) : j \in 1..Len(s) \/ j = Len(s) + 1
      BY <1>n
    <3>. QED BY <3>1, <2>2, <2>3, Zenon
  <2>6. \A j \in 1..(Len(s) + 1) : t[j].at + t[j].size <= Limit
    <3>1. ASSUME NEW j \in 1..Len(s)
          PROVE  t[j].at + t[j].size <= Limit
      <4>1. /\ s[j].at \in Nat /\ s[j].size \in Nat /\ s[j].at + s[j].size <= Limit
            /\ t[j].at = s[j].at
            /\ j # i => t[j].size = s[j].size
        BY <1>1, <1>9
      <4>2. CASE j = i
        BY <4>2, <1>f, <1>g, BoundsAssumption
      <4>3. CASE j # i
        BY <4>1, <4>3
      <4>. QED BY <4>2, <4>3
    <3>2. t[Len(s) + 1].at + t[Len(s) + 1].size <= Limit
      <4>1. t[Len(s) + 1].at = s[i].at + want /\ t[Len(s) + 1].size = s[i].size - want
        BY <1>g, Zenon
      <4>2. (s[i].at + want) + (s[i].size - want) <= Limit
        BY <1>f
      <4>. QED BY <4>1, <4>2, Zenon
    <3>. QED BY <3>1, <3>2, <1>n
  <2>4. Len(s) + 1 <= MaxRecords
    BY <1>n, BoundsAssumption
  <2>. QED BY <1>7, <1>8, <2>4, <2>5, <2>6 DEF Good, Disjoint
<1>12. Covering(s) => Covering(t)
  <2>. SUFFICES ASSUME Covering(s), NEW c \in Cell
                PROVE  \E j \in 1..(Len(s) + 1) : t[j].at <= c /\ c < t[j].at + t[j].size
    BY <1>8 DEF Covering
  <2>1. PICK j \in 1..Len(s) : s[j].at <= c /\ c < s[j].at + s[j].size
    BY <1>d DEF Covering
  <2>2. c \in Int
    BY BoundsAssumption DEF Cell
  <2>3. /\ s[j].at \in Nat /\ s[j].size \in Nat /\ t[j].at = s[j].at
        /\ j # i => t[j].size = s[j].size
    BY <1>1, <1>9
  <2>4. \/ t[j].at <= c /\ c < t[j].at + t[j].size
        \/ t[Len(s) + 1].at <= c /\ c < t[Len(s) + 1].at + t[Len(s) + 1].size
    <3>1. CASE j # i
      BY <2>1, <2>3, <3>1, Zenon
    <3>2. CASE j = i /\ c < s[i].at + want
      BY <2>1, <3>2, <1>g, Zenon
    <3>3. CASE j = i /\ s[i].at + want <= c
      BY <2>1, <3>3, <1>g, <1>e, Zenon
    <3>4. c < s[i].at + want \/ s[i].at + want <= c
      BY <2>2, <1>f
    <3>. QED BY <3>1, <3>2, <3>3, <3>4, Zenon
  <2>5. j \in 1..(Len(s) + 1) /\ Len(s) + 1 \in 1..(Len(s) + 1)
    BY <1>n
  <2>. QED BY <2>4, <2>5, Zenon
<1>13. LiveOf(b, t) = LiveOf(b, s) \cup {[bank |-> b, at |-> s[i].at, size |-> want]}
  <2>. DEFINE y == [bank |-> b, at |-> s[i].at, size |-> want]
  <2>1. y = BlockOf(b, t[i]) /\ \A j \in 1..Len(s) : j # i => BlockOf(b, t[j]) = BlockOf(b, s[j])
    BY <1>9, <1>g DEF BlockOf
  <2>. HIDE DEF y
  <2>2. ASSUME NEW x
        PROVE  x \in LiveOf(b, t) <=> x \in LiveOf(b, s) \/ x = y
    <3>1. x \in LiveOf(b, t) <=> \E j \in 1..(Len(s) + 1) : ~t[j].free /\ x = BlockOf(b, t[j])
      BY <1>8, LiveMember
    <3>2. (\E j \in 1..(Len(s) + 1) : ~t[j].free /\ x = BlockOf(b, t[j]))
          <=> (\E j \in 1..Len(s) : ~t[j].free /\ x = BlockOf(b, t[j]))
      <4>1. \A j \in 1..(Len(s) + 1) : j \in 1..Len(s) \/ j = Len(s) + 1
        BY <1>n
      <4>2. \A j \in 1..Len(s) : j \in 1..(Len(s) + 1)
        BY <1>n
      <4>. QED BY <4>1, <4>2, <1>10, Zenon
    <3>3. x \in LiveOf(b, s) <=> \E j \in 1..Len(s) : ~s[j].free /\ x = BlockOf(b, s[j])
      BY <1>d, LiveMember
    <3>. QED BY <1>10, <1>i, <2>1, <3>1, <3>2, <3>3, Zenon
  <2>3. LiveOf(b, t) = LiveOf(b, s) \cup {y}
    BY <2>2, Zenon
  <2>. QED BY <2>3 DEF y
<1>. QED BY <1>7, <1>8, <1>9, <1>10, <1>11, <1>12, <1>13, Zenon DEF t


\* Two neighbours in the array, free and adjacent, become one record.
LEMMA MergedGood ==
    ASSUME NEW s, Good(s), NEW i \in Nat, 1 <= i, i < Len(s), Mergeable(s, i), NEW b
    PROVE  LET t == Merged(s, i) IN
           /\ Good(t) /\ (Covering(s) => Covering(t))
           /\ LiveOf(b, t) = LiveOf(b, s)
           /\ Len(t) = Len(s) - 1
<1>. DEFINE r == [at |-> s[i].at, size |-> s[i].size + s[i + 1].size, free |-> TRUE]
            t == Merged(s, i)
            From(j) == IF j < i THEN j ELSE j + 1
            Rest == 1..(Len(s) - 1)
<1>s. s \in Seq(Record)
  BY DEF Good
<1>d. DOMAIN s = 1..Len(s)
  BY GoodRecords
<1>n. /\ Len(s) \in Nat /\ Len(s) - 1 \in Nat
      /\ i \in 1..Len(s) /\ i + 1 \in 1..Len(s) /\ i \in 1..(Len(s) - 1)
  BY GoodRecords
<1>1. \A j \in 1..Len(s) : /\ s[j].at \in Nat /\ s[j].size \in Nat
                          /\ Base <= s[j].at /\ 1 <= s[j].size /\ s[j].at + s[j].size <= Limit
  BY GoodRecords, Zenon
<1>2. \A j, k \in 1..Len(s) : j # k => s[j].at + s[j].size <= s[k].at \/ s[k].at + s[k].size <= s[j].at
  BY <1>d DEF Good, Disjoint
<1>f. /\ s[i].at \in Nat /\ s[i].size \in Nat /\ s[i + 1].at \in Nat /\ s[i + 1].size \in Nat
      /\ Base <= s[i].at /\ 1 <= s[i].size /\ 1 <= s[i + 1].size
      /\ s[i + 1].at + s[i + 1].size <= Limit
  BY <1>1, <1>n, Zenon
<1>m. s[i].at + s[i].size = s[i + 1].at
  BY DEF Mergeable
<1>r. r \in Record
  <2>1. s[i].size + s[i + 1].size \in Nat /\ 1 <= s[i].size + s[i + 1].size
    BY <1>f
  <2>2. s[i].at + (s[i].size + s[i + 1].size) = (s[i].at + s[i].size) + s[i + 1].size
    BY <1>f
  <2>3. s[i].at + (s[i].size + s[i + 1].size) <= Limit
    BY <1>f, <1>m, <2>2, Zenon
  <2>. QED BY <1>f, <2>1, <2>3, RecordBuilt
<1>3. r.at = s[i].at /\ r.size = s[i].size + s[i + 1].size /\ r.free
  OBVIOUS
<1>4. t = [j \in Rest |-> IF j < i THEN s[j] ELSE IF j = i THEN r ELSE s[j + 1]]
  BY DEF Merged
<1>. HIDE DEF r, t
<1>5. t[i] = r
  BY <1>4, <1>n
<1>6. \A j \in Rest : j # i => /\ From(j) \in 1..Len(s) /\ From(j) # i /\ From(j) # i + 1
                               /\ t[j] = s[From(j)]
  BY <1>4, <1>n
<1>7. \A j, k \in Rest : j # i /\ k # i /\ j # k => From(j) # From(k)
  BY <1>n
<1>8. \A m \in 1..Len(s) : m # i /\ m # i + 1 => \E j \in Rest : j # i /\ From(j) = m
  <2>. SUFFICES ASSUME NEW m \in 1..Len(s), m # i, m # i + 1
                PROVE  \E j \in Rest : j # i /\ From(j) = m
    OBVIOUS
  <2>1. CASE m < i
    BY <2>1, <1>n
  <2>2. CASE ~(m < i)
    <3>1. m - 1 \in Rest /\ m - 1 # i /\ From(m - 1) = m
      BY <2>2, <1>n
    <3>. QED BY <3>1
  <2>. QED BY <2>1, <2>2
<1>. HIDE DEF From
<1>9. t \in Seq(Record) /\ Len(t) = Len(s) - 1 /\ DOMAIN t = Rest
  <2>1. \A j \in 1..Len(s) : s[j] \in Record
    BY <1>s, ElementOfSeq
  <2>2. \A j \in Rest : t[j] \in Record
    BY <2>1, <1>5, <1>6, <1>r, Zenon
  <2>3. DOMAIN t = Rest /\ t = [j \in Rest |-> t[j]]
    BY <1>4
  <2>4. t \in [Rest -> Record]
    BY <2>2, <2>3
  <2>5. t \in Seq(Record)
    BY <2>4, <1>n, SeqDef
  <2>. QED BY <2>3, <2>5, <1>n, LenProperties
<1>10. /\ t[i].at = s[i].at /\ t[i].size = s[i].size + s[i + 1].size /\ t[i].free
  BY <1>3, <1>5, Zenon
<1>. HIDE DEF Rest
<1>11. \A j \in Rest : j # i => /\ t[j].at \in Nat /\ t[j].size \in Nat /\ 1 <= t[j].size
                                /\ t[j].at + t[j].size <= Limit
                                /\ t[j].at + t[j].size <= s[i].at \/ s[i].at + s[i].size <= t[j].at
                                /\ \/ t[j].at + t[j].size <= s[i + 1].at
                                   \/ s[i + 1].at + s[i + 1].size <= t[j].at
  BY <1>1, <1>2, <1>6, <1>n, Zenon
<1>12. \A j \in Rest : j # i => \/ t[j].at + t[j].size <= t[i].at
                               \/ t[i].at + t[i].size <= t[j].at
  <2>. SUFFICES ASSUME NEW j \in Rest, j # i
                PROVE  t[j].at + t[j].size <= t[i].at \/ t[i].at + t[i].size <= t[j].at
    OBVIOUS
  <2>1. /\ t[j].at \in Nat /\ t[j].size \in Nat /\ 1 <= t[j].size
        /\ t[j].at + t[j].size <= s[i].at \/ s[i].at + s[i].size <= t[j].at
        /\ t[j].at + t[j].size <= s[i + 1].at \/ s[i + 1].at + s[i + 1].size <= t[j].at
    BY <1>11, Zenon
  <2>2. t[i].at + t[i].size = s[i + 1].at + s[i + 1].size
    BY <1>f, <1>m, <1>10
  <2>3. CASE s[i + 1].at + s[i + 1].size <= t[j].at
    BY <2>2, <2>3
  <2>4. CASE t[j].at + t[j].size <= s[i].at
    BY <2>4, <1>10
  <2>5. CASE t[j].at + t[j].size <= s[i + 1].at /\ s[i].at + s[i].size <= t[j].at
    <3>1. s[i + 1].at <= t[j].at
      BY <2>5, <1>m
    <3>. QED BY <2>1, <2>5, <3>1, <1>f, NoRoom, Zenon
  <2>. QED BY <2>1, <2>3, <2>4, <2>5, Zenon
<1>13. \A j, k \in Rest : j # i /\ k # i /\ j # k => \/ t[j].at + t[j].size <= t[k].at
                                                    \/ t[k].at + t[k].size <= t[j].at
  BY <1>2, <1>6, <1>7, Zenon
<1>14. Good(t)
  <2>1. \A j, k \in Rest : j # k => t[j].at + t[j].size <= t[k].at \/ t[k].at + t[k].size <= t[j].at
    BY <1>12, <1>13, Zenon
  <2>2. t[i].at + t[i].size <= Limit
    BY <1>f, <1>m, <1>10
  <2>3. \A j \in Rest : t[j].at + t[j].size <= Limit
    BY <2>2, <1>11, Zenon
  <2>4. Len(t) <= MaxRecords
    BY <1>9, <1>n, BoundsAssumption DEF Good
  <2>. QED BY <2>1, <2>3, <2>4, <1>9 DEF Good, Disjoint, Rest
<1>15. Covering(s) => Covering(t)
  <2>. SUFFICES ASSUME Covering(s), NEW c \in Cell
                PROVE  \E j \in Rest : t[j].at <= c /\ c < t[j].at + t[j].size
    BY <1>9 DEF Covering
  <2>1. PICK m \in 1..Len(s) : s[m].at <= c /\ c < s[m].at + s[m].size
    BY <1>d DEF Covering
  <2>2. c \in Int
    BY BoundsAssumption DEF Cell
  <2>3. CASE m # i /\ m # i + 1
    BY <2>1, <2>3, <1>6, <1>8, Zenon
  <2>4. CASE m = i
    <3>1. s[i].at <= c /\ c < s[i].at + s[i].size
      BY <2>1, <2>4
    <3>2. t[i].at <= c /\ c < t[i].at + t[i].size
      BY <2>2, <3>1, <1>f, <1>10
    <3>. QED BY <3>2, <1>n DEF Rest
  <2>5. CASE m = i + 1
    <3>1. s[i].at <= c /\ c < s[i + 1].at + s[i + 1].size
      BY <2>1, <2>2, <2>5, <1>f, <1>m
    <3>2. t[i].at <= c /\ c < t[i].at + t[i].size
      BY <2>2, <3>1, <1>f, <1>m, <1>10
    <3>. QED BY <3>2, <1>n DEF Rest
  <2>. QED BY <2>3, <2>4, <2>5
<1>16. LiveOf(b, t) = LiveOf(b, s)
  <2>1. s[i].free /\ s[i + 1].free
    BY DEF Mergeable
  <2>2. ASSUME NEW x
        PROVE  x \in LiveOf(b, t) <=> x \in LiveOf(b, s)
    <3>1. x \in LiveOf(b, t) <=> \E j \in Rest : ~t[j].free /\ x = BlockOf(b, t[j])
      BY <1>9, LiveMember DEF Rest
    <3>2. x \in LiveOf(b, s) <=> \E m \in 1..Len(s) : ~s[m].free /\ x = BlockOf(b, s[m])
      BY <1>d, LiveMember
    <3>3. ASSUME NEW j \in Rest, ~t[j].free, x = BlockOf(b, t[j])
          PROVE  \E m \in 1..Len(s) : ~s[m].free /\ x = BlockOf(b, s[m])
      BY <3>3, <1>6, <1>10, Zenon
    <3>4. ASSUME NEW m \in 1..Len(s), ~s[m].free, x = BlockOf(b, s[m])
          PROVE  \E j \in Rest : ~t[j].free /\ x = BlockOf(b, t[j])
      BY <3>4, <2>1, <1>6, <1>8, Zenon
    <3>. QED BY <3>1, <3>2, <3>3, <3>4, Zenon
  <2>. QED BY <2>2, Zenon
<1>. QED BY <1>9, <1>14, <1>15, <1>16, Zenon DEF t


-----------------------------------------------------------------------------
LEMMA LiveBank ==
    ASSUME NEW s, NEW b, NEW x \in LiveOf(b, s)
    PROVE  x.bank = b
  BY DEF LiveOf, BlockOf

\* A block in use is known by its offset.
LEMMA LiveRecord ==
    ASSUME NEW s, Good(s), NEW b, NEW x \in LiveOf(b, s)
    PROVE  LET i == RecordOf(s, x.at) IN
           i \in 1..Len(s) /\ ~s[i].free /\ x = BlockOf(b, s[i])
<1>. DEFINE i == RecordOf(s, x.at)
<1>d. DOMAIN s = 1..Len(s)
  BY GoodRecords
<1>1. PICK k \in 1..Len(s) : ~s[k].free /\ x = BlockOf(b, s[k])
  BY <1>d, LiveMember
<1>2. s[k].at = x.at
  BY <1>1 DEF BlockOf
<1>3. i \in 1..Len(s) /\ s[i].at = x.at /\ ~s[i].free
  BY <1>1, <1>2, <1>d, Zenon DEF RecordOf
<1>. HIDE DEF i
<1>4. s[k].at \in Nat /\ s[k].size \in Nat /\ 1 <= s[k].size /\ s[i].size \in Nat /\ 1 <= s[i].size
  BY <1>3, GoodRecords, Zenon
<1>5. i # k => s[i].at + s[i].size <= s[k].at \/ s[k].at + s[k].size <= s[i].at
  BY <1>3, <1>d DEF Good, Disjoint
<1>6. i = k
  BY <1>2, <1>3, <1>4, <1>5
<1>. QED BY <1>1, <1>3, <1>6, Zenon DEF i

LEMMA LiveUnique ==
    ASSUME NEW s, Good(s), NEW b, NEW x \in LiveOf(b, s), NEW y \in LiveOf(b, s), x.at = y.at
    PROVE  x = y
<1>1. x = BlockOf(b, s[RecordOf(s, x.at)])
  BY LiveRecord, Zenon
<1>2. y = BlockOf(b, s[RecordOf(s, y.at)])
  BY LiveRecord, Zenon
<1>. QED BY <1>1, <1>2

\* Freeing a block in use.
LEMMA FreedGood ==
    ASSUME NEW s, Good(s), NEW b, NEW x \in LiveOf(b, s)
    PROVE  LET t == Freed(s, x.at) IN
           /\ Good(t) /\ (Covering(s) => Covering(t))
           /\ LiveOf(b, t) = LiveOf(b, s) \ {x}
<1>. DEFINE i == RecordOf(s, x.at)
<1>1. i \in 1..Len(s) /\ ~s[i].free /\ x = BlockOf(b, s[i])
  BY LiveRecord
<1>2. Freed(s, x.at) = Marked(s, i)
  BY DEF Freed
<1>. HIDE DEF i
<1>. QED BY <1>1, <1>2, MarkedGood, Zenon

\* far_malloc: the table it leaves, and the block it hands out.
LEMMA AllocatedGood ==
    ASSUME NEW b \in Bank, Good(allocs[b]), allocs[b] # <<>> => Covering(allocs[b]),
           NEW want \in Nat, 1 <= want
    PROVE  LET out == Allocated(b, want)
               x == [bank |-> b, at |-> out.at, size |-> want]
           IN /\ Good(out.records) /\ Covering(out.records)
              /\ out.at = Null => LiveOf(b, out.records) = LiveOf(b, allocs[b])
              /\ out.at # Null => /\ LiveOf(b, out.records) = LiveOf(b, allocs[b]) \cup {x}
                                  /\ x \in A!Block
                                  /\ \A y \in LiveOf(b, allocs[b]) : A!Apart(x, y)
<1>. DEFINE s == Initialized(b)
            i == Found(s, want)
            out == Allocated(b, want)
<1>1. Good(s) /\ Covering(s) /\ LiveOf(b, s) = LiveOf(b, allocs[b])
  BY InitializedGood
<1>. HIDE DEF s
<1>2. CASE Large(s, want) = {} \/ NoRecordLeft(s, i, want)
  <2>1. out = [records |-> s, at |-> Null]
    BY <1>2 DEF Allocated, s
  <2>2. out.records = s /\ out.at = Null
    BY <2>1
  <2>. QED BY <1>1, <2>2, Zenon
<1>3. CASE ~(Large(s, want) = {} \/ NoRecordLeft(s, i, want))
  <2>1. i \in Large(s, want)
    BY <1>1, <1>3, FoundIsLarge
  <2>. HIDE DEF i
  <2>2. i \in 1..Len(s) /\ s[i].free /\ s[i].size >= want
    BY <1>1, <2>1, GoodRecords DEF Large
  <2>3. /\ s[i].at \in Nat /\ s[i].size \in Nat
        /\ Base <= s[i].at /\ s[i].at + s[i].size <= Limit
        /\ DOMAIN s = 1..Len(s) /\ Len(s) \in Nat
    BY <1>1, <2>2, GoodRecords, Zenon
  <2>4. s[i].at # Null
    BY <2>3, BoundsAssumption DEF Null
  <2>. DEFINE x == [bank |-> b, at |-> s[i].at, size |-> want]
  <2>5. x \in A!Block
    <3>1. s[i].at \in Base..(Limit - 1)
      BY <2>2, <2>3, BoundsAssumption
    <3>2. want \in 1..(Limit - Base)
      BY <2>2, <2>3, BoundsAssumption
    <3>3. s[i].at + want <= Limit
      BY <2>2, <2>3, BoundsAssumption
    <3>. QED BY <3>1, <3>2, <3>3 DEF A!Block
  <2>6. ASSUME NEW y \in LiveOf(b, s)
        PROVE  A!Apart(x, y)
    <3>1. PICK k \in 1..Len(s) : ~s[k].free /\ y = BlockOf(b, s[k])
      BY <2>3, LiveMember
    <3>2. k # i
      BY <2>2, <3>1, Zenon
    <3>3. s[i].at + s[i].size <= s[k].at \/ s[k].at + s[k].size <= s[i].at
      BY <1>1, <2>2, <2>3, <3>2 DEF Good, Disjoint
    <3>4. s[k].at \in Nat /\ s[k].size \in Nat
      BY <1>1, <3>1, GoodRecords, Zenon
    <3>5. y.at = s[k].at /\ y.size = s[k].size
      BY <3>1 DEF BlockOf
    <3>6. s[i].at + want <= s[k].at \/ s[k].at + s[k].size <= s[i].at
      BY <2>2, <2>3, <3>3, <3>4
    <3>. QED BY <3>5, <3>6 DEF A!Apart
  <2>7. CASE s[i].size = want
    <3>1. out = [records |-> Exact(s, i), at |-> s[i].at]
      BY <1>3, <2>7 DEF Allocated, s, i
    <3>2. out.records = Exact(s, i) /\ out.at = s[i].at
      BY <3>1
    <3>3. x = BlockOf(b, s[i])
      BY <2>7 DEF BlockOf
    <3>. HIDE DEF x
    <3>4. /\ Good(Exact(s, i)) /\ (Covering(s) => Covering(Exact(s, i)))
          /\ LiveOf(b, Exact(s, i)) = LiveOf(b, s) \cup {BlockOf(b, s[i])}
      BY <1>1, <2>2, ExactGood
    <3>5. /\ Good(out.records) /\ Covering(out.records)
          /\ LiveOf(b, out.records) = LiveOf(b, allocs[b]) \cup {x}
      BY <1>1, <3>2, <3>3, <3>4
    <3>. QED BY <1>1, <2>4, <2>5, <2>6, <3>2, <3>5, Zenon DEF x
  <2>8. CASE s[i].size # want
    <3>1. out = [records |-> Split(s, i, want), at |-> s[i].at]
      BY <1>3, <2>8 DEF Allocated, s, i
    <3>2. out.records = Split(s, i, want) /\ out.at = s[i].at
      BY <3>1
    <3>3. s[i].size > want
      BY <2>2, <2>3, <2>8
    <3>4. Len(s) < MaxRecords
      BY <1>3, <2>3, <3>3, BoundsAssumption DEF NoRecordLeft
    <3>5. /\ Good(Split(s, i, want)) /\ (Covering(s) => Covering(Split(s, i, want)))
          /\ LiveOf(b, Split(s, i, want)) = LiveOf(b, s) \cup {x}
      BY <1>1, <2>2, <3>3, <3>4, SplitGood
    <3>6. /\ Good(out.records) /\ Covering(out.records)
          /\ LiveOf(b, out.records) = LiveOf(b, allocs[b]) \cup {x}
      BY <1>1, <3>2, <3>5
    <3>. QED BY <1>1, <2>4, <2>5, <2>6, <3>2, <3>6, Zenon
  <2>. QED BY <2>7, <2>8
<1>. QED BY <1>2, <1>3


-----------------------------------------------------------------------------
\* The blocks in use of all banks, for any tables f.
LiveAt(f) == UNION {LiveOf(b, f[b]) : b \in Bank}

LEMMA LiveAtMember ==
    ASSUME NEW f, NEW x
    PROVE  x \in LiveAt(f) <=> \E b \in Bank : x \in LiveOf(b, f[b])
  BY DEF LiveAt

LEMMA TablesUpdate ==
    ASSUME NEW f, Tables(f), NEW b \in Bank, NEW t, Good(t), t # <<>> => Covering(t)
    PROVE  /\ Tables([f EXCEPT ![b] = t])
           /\ \A c \in Bank : [f EXCEPT ![b] = t][c] = IF c = b THEN t ELSE f[c]
<1>1. t \in Seq(Record)
  BY DEF Good
<1>2. f \in [Bank -> Seq(Record)]
  BY DEF Tables
<1>. DEFINE g == [f EXCEPT ![b] = t]
<1>3. g \in [Bank -> Seq(Record)] /\ \A c \in Bank : g[c] = IF c = b THEN t ELSE f[c]
  BY <1>1, <1>2
<1>. HIDE DEF g
<1>4. \A c \in Bank : Good(g[c]) /\ (g[c] # <<>> => Covering(g[c]))
  <2>. SUFFICES ASSUME NEW c \in Bank
                PROVE  Good(g[c]) /\ (g[c] # <<>> => Covering(g[c]))
    OBVIOUS
  <2>1. CASE c = b
    BY <1>3, <2>1
  <2>2. CASE c # b
    BY <1>3, <2>2 DEF Tables
  <2>. QED BY <2>1, <2>2
<1>5. Tables(g)
  BY <1>3, <1>4 DEF Tables
<1>. QED BY <1>3, <1>5 DEF g

With(S, T, x) == S = T \cup {x}
Without(S, T, x) == S = T \ {x}

LEMMA LiveAdd ==
    ASSUME NEW f, Tables(f), NEW b \in Bank, NEW t, NEW x,
           With(LiveOf(b, t), LiveOf(b, f[b]), x),
           NEW g, \A c \in Bank : g[c] = IF c = b THEN t ELSE f[c]
    PROVE  With(LiveAt(g), LiveAt(f), x)
<1>1. ASSUME NEW y
      PROVE  y \in LiveAt(g) <=> y \in LiveAt(f) \/ y = x
  <2>1. g[b] = t /\ \A c \in Bank : c # b => g[c] = f[c]
    OBVIOUS
  <2>2. \A c \in Bank : c # b => LiveOf(c, g[c]) = LiveOf(c, f[c])
    BY <2>1
  <2>3. LiveOf(b, g[b]) = LiveOf(b, f[b]) \cup {x}
    BY <2>1 DEF With
  <2>. QED BY <2>2, <2>3, LiveAtMember, Zenon
<1>2. LiveAt(g) = LiveAt(f) \cup {x}
  BY <1>1, Zenon
<1>. QED BY <1>2 DEF With

LEMMA LiveDrop ==
    ASSUME NEW f, Tables(f), NEW b \in Bank, NEW t, NEW x, x.bank = b,
           Without(LiveOf(b, t), LiveOf(b, f[b]), x),
           NEW g, \A c \in Bank : g[c] = IF c = b THEN t ELSE f[c]
    PROVE  Without(LiveAt(g), LiveAt(f), x)
<1>1. ASSUME NEW y
      PROVE  y \in LiveAt(g) <=> y \in LiveAt(f) /\ y # x
  <2>1. g[b] = t /\ \A c \in Bank : c # b => g[c] = f[c]
    OBVIOUS
  <2>2. \A c \in Bank : c # b => LiveOf(c, g[c]) = LiveOf(c, f[c]) /\ x \notin LiveOf(c, f[c])
    BY <2>1, LiveBank
  <2>3. LiveOf(b, g[b]) = LiveOf(b, f[b]) \ {x}
    BY <2>1 DEF Without
  <2>4. ASSUME y \in LiveAt(g) PROVE y \in LiveAt(f) /\ y # x
    <3>1. PICK c \in Bank : y \in LiveOf(c, g[c])
      BY <2>4, LiveAtMember
    <3>2. y \in LiveOf(c, f[c]) /\ y # x
      BY <2>2, <2>3, <3>1
    <3>. QED BY <3>2, LiveAtMember
  <2>5. ASSUME y \in LiveAt(f), y # x PROVE y \in LiveAt(g)
    <3>1. PICK c \in Bank : y \in LiveOf(c, f[c])
      BY <2>5, LiveAtMember
    <3>2. y \in LiveOf(c, g[c])
      BY <2>2, <2>3, <2>5, <3>1
    <3>. QED BY <3>2, LiveAtMember
  <2>. QED BY <2>4, <2>5
<1>2. LiveAt(g) = LiveAt(f) \ {x}
  BY <1>1, Zenon
<1>. QED BY <1>2 DEF Without

LEMMA LiveSame ==
    ASSUME NEW f, Tables(f), NEW b \in Bank, NEW t, LiveOf(b, t) = LiveOf(b, f[b]),
           NEW g, \A c \in Bank : g[c] = IF c = b THEN t ELSE f[c]
    PROVE  LiveAt(g) = LiveAt(f)
<1>1. ASSUME NEW y
      PROVE  y \in LiveAt(g) <=> y \in LiveAt(f)
  <2>1. \A c \in Bank : LiveOf(c, g[c]) = LiveOf(c, f[c])
    OBVIOUS
  <2>. QED BY <2>1, LiveAtMember, Zenon
<1>. QED BY <1>1, Zenon

\* Two blocks in use share no cell.
LEMMA LiveApart ==
    ASSUME NEW f, Tables(f), NEW x \in LiveAt(f), NEW y \in LiveAt(f), x # y
    PROVE  A!Apart(x, y)
<1>1. PICK b \in Bank : x \in LiveOf(b, f[b])
  BY LiveAtMember
<1>2. PICK c \in Bank : y \in LiveOf(c, f[c])
  BY LiveAtMember
<1>3. CASE b # c
  BY <1>1, <1>2, <1>3, LiveBank DEF A!Apart
<1>4. CASE b = c
  <2>. DEFINE s == f[b]
  <2>1. Good(s) /\ x \in LiveOf(b, s) /\ y \in LiveOf(b, s)
    BY <1>1, <1>2, <1>4 DEF Tables
  <2>. HIDE DEF s
  <2>2. DOMAIN s = 1..Len(s)
    BY <2>1, GoodRecords
  <2>3. PICK i \in 1..Len(s) : x = BlockOf(b, s[i])
    BY <2>1, <2>2, LiveMember
  <2>4. PICK j \in 1..Len(s) : y = BlockOf(b, s[j])
    BY <2>1, <2>2, LiveMember
  <2>5. i # j
    BY <2>3, <2>4
  <2>6. s[i].at + s[i].size <= s[j].at \/ s[j].at + s[j].size <= s[i].at
    BY <2>1, <2>2, <2>5 DEF Good, Disjoint
  <2>7. x.at = s[i].at /\ x.size = s[i].size /\ y.at = s[j].at /\ y.size = s[j].size
    BY <2>3, <2>4 DEF BlockOf
  <2>. QED BY <2>6, <2>7 DEF A!Apart
<1>. QED BY <1>3, <1>4

LEMMA LiveBlock ==
    ASSUME NEW f, Tables(f), NEW x \in LiveAt(f)
    PROVE  /\ x.bank \in Bank /\ x \in LiveOf(x.bank, f[x.bank])
           /\ x.at \in Nat /\ x.size \in Nat /\ Base <= x.at /\ 1 <= x.size /\ x.at + x.size <= Limit
<1>1. PICK b \in Bank : x \in LiveOf(b, f[b])
  BY LiveAtMember
<1>2. x.bank = b
  BY <1>1, LiveBank
<1>3. Good(f[b])
  BY DEF Tables
<1>. DEFINE s == f[b]
<1>4. PICK i \in 1..Len(s) : x = BlockOf(b, s[i])
  BY <1>1, <1>3, GoodRecords, LiveMember
<1>5. x.at = s[i].at /\ x.size = s[i].size
  BY <1>4 DEF BlockOf
<1>6. /\ s[i].at \in Nat /\ s[i].size \in Nat /\ Base <= s[i].at /\ 1 <= s[i].size
      /\ s[i].at + s[i].size <= Limit
  BY <1>3, GoodRecords
<1>. QED BY <1>1, <1>2, <1>5, <1>6

-----------------------------------------------------------------------------
\* The blocks behind the pointers of the caller, for any pointers h.
HeldOf(h) == {HeldBlock(h, p) : p \in DOMAIN h}

\* What is expected behind the pointers h is in the memory m.
Kept(m, h) ==
    \A p \in DOMAIN h : \A k \in DOMAIN h[p] : h[p][k] \in {Unset, m[p.bank][p.at + k - 1]}

LEMMA PointerFields ==
    ASSUME NEW p \in Pointer
    PROVE  /\ p.bank \in Bank /\ p.at \in Cell /\ p.at \in Nat
           /\ p = [bank |-> p.bank, at |-> p.at]
  BY BoundsAssumption DEF Pointer, Cell

\* The block behind a pointer is in use, in its bank, as long as its contents.
LEMMA HeldPointer ==
    ASSUME NEW f, Tables(f), NEW h, HeldTyped(h), LiveAt(f) = HeldOf(h), NEW p \in DOMAIN h
    PROVE  /\ p \in Pointer /\ HeldBlock(h, p) \in LiveAt(f)
           /\ HeldBlock(h, p).bank = p.bank /\ HeldBlock(h, p).at = p.at
           /\ HeldBlock(h, p).size = Len(h[p])
           /\ Len(h[p]) \in Nat /\ 1 <= Len(h[p]) /\ p.at + Len(h[p]) <= Limit
           /\ DOMAIN h[p] = 1..Len(h[p])
<1>1. p \in Pointer /\ h[p] \in Seq(Value \cup {Unset})
  BY DEF HeldTyped
<1>2. DOMAIN h[p] = 1..Len(h[p]) /\ Len(h[p]) \in Nat
  BY <1>1
<1>3. HeldBlock(h, p) \in LiveAt(f)
  BY DEF HeldOf
<1>4. /\ HeldBlock(h, p).bank = p.bank /\ HeldBlock(h, p).at = p.at
      /\ HeldBlock(h, p).size = Len(h[p])
  BY DEF HeldBlock
<1>5. 1 <= HeldBlock(h, p).size /\ HeldBlock(h, p).at + HeldBlock(h, p).size <= Limit
  BY <1>3, LiveBlock
<1>. QED BY <1>1, <1>2, <1>3, <1>4, <1>5

\* Different pointers have different blocks, which share no cell.
LEMMA HeldApart ==
    ASSUME NEW f, Tables(f), NEW h, HeldTyped(h), LiveAt(f) = HeldOf(h),
           NEW p \in DOMAIN h, NEW q \in DOMAIN h, p # q
    PROVE  HeldBlock(h, p) # HeldBlock(h, q) /\ A!Apart(HeldBlock(h, p), HeldBlock(h, q))
<1>1. p = [bank |-> p.bank, at |-> p.at] /\ q = [bank |-> q.bank, at |-> q.at]
  BY HeldPointer, PointerFields
<1>2. p.bank # q.bank \/ p.at # q.at
  BY <1>1
<1>3. HeldBlock(h, p) # HeldBlock(h, q)
  BY <1>2 DEF HeldBlock
<1>4. HeldBlock(h, p) \in LiveAt(f) /\ HeldBlock(h, q) \in LiveAt(f)
  BY HeldPointer
<1>. QED BY <1>3, <1>4, LiveApart

LEMMA GivenHeld ==
    ASSUME NEW h, HeldTyped(h), NEW q \in Pointer, q \notin DOMAIN h,
           NEW e \in Seq(Value \cup {Unset}),
           NEW x, x = [bank |-> q.bank, at |-> q.at, size |-> Len(e)]
    PROVE  /\ HeldTyped(Given(h, q, e))
           /\ With(HeldOf(Given(h, q, e)), HeldOf(h), x)
<1>. DEFINE g == Given(h, q, e)
<1>1. /\ DOMAIN g = DOMAIN h \cup {q} /\ g[q] = e
      /\ \A p \in DOMAIN h : g[p] = h[p]
  BY DEF Given
<1>. HIDE DEF g
<1>2. HeldTyped(g)
  BY <1>1 DEF HeldTyped
<1>3. HeldBlock(g, q) = x
  BY <1>1 DEF HeldBlock
<1>4. \A p \in DOMAIN h : HeldBlock(g, p) = HeldBlock(h, p)
  BY <1>1 DEF HeldBlock
<1>5. HeldOf(g) = HeldOf(h) \cup {HeldBlock(g, q)}
  BY <1>1, <1>4 DEF HeldOf
<1>. QED BY <1>2, <1>3, <1>5 DEF g, With

LEMMA TakenHeld ==
    ASSUME NEW f, Tables(f), NEW h, HeldTyped(h), LiveAt(f) = HeldOf(h), NEW p \in DOMAIN h
    PROVE  /\ HeldTyped(Taken(h, {p}))
           /\ Without(HeldOf(Taken(h, {p})), HeldOf(h), HeldBlock(h, p))
<1>. DEFINE g == Taken(h, {p})
<1>1. DOMAIN g = DOMAIN h \ {p} /\ \A q \in DOMAIN g : g[q] = h[q]
  BY DEF Taken
<1>. HIDE DEF g
<1>2. HeldTyped(g)
  BY <1>1 DEF HeldTyped
<1>3. \A q \in DOMAIN g : HeldBlock(g, q) = HeldBlock(h, q) /\ HeldBlock(h, q) # HeldBlock(h, p)
  BY <1>1, HeldApart DEF HeldBlock
<1>4. HeldOf(g) = HeldOf(h) \ {HeldBlock(h, p)}
  BY <1>1, <1>3 DEF HeldOf
<1>. QED BY <1>2, <1>4 DEF g, Without

LEMMA KeptGiven ==
    ASSUME NEW m, NEW h, Kept(m, h), NEW q, NEW e,
           \A k \in DOMAIN e : e[k] \in {Unset, m[q.bank][q.at + k - 1]}
    PROVE  Kept(m, Given(h, q, e))
  BY DEF Kept, Given

LEMMA KeptTaken ==
    ASSUME NEW m, NEW h, Kept(m, h), NEW P
    PROVE  Kept(m, Taken(h, P))
  BY DEF Kept, Taken

\* Filling a block changes that block only.
LEMMA Filled ==
    ASSUME NEW m \in [Bank -> [Cell -> Value]], NEW q \in Pointer, NEW e \in Seq(Value)
    PROVE  /\ Fill(m, q, e) \in [Bank -> [Cell -> Value]]
           /\ \A k \in 1..Len(e) : q.at + k <= Limit => Fill(m, q, e)[q.bank][q.at + k - 1] = e[k]
           /\ \A b \in Bank, c \in Cell :
                 b # q.bank \/ c < q.at \/ q.at + Len(e) <= c => Fill(m, q, e)[b][c] = m[b][c]
<1>1. q.bank \in Bank /\ q.at \in Cell /\ q.at \in Nat
  BY PointerFields
<1>2. DOMAIN e = 1..Len(e) /\ Len(e) \in Nat /\ \A k \in 1..Len(e) : e[k] \in Value
  BY ElementOfSeq
<1>. DEFINE row == [c \in Cell |-> IF c - q.at + 1 \in DOMAIN e THEN e[c - q.at + 1] ELSE m[q.bank][c]]
            g == Fill(m, q, e)
<1>3. row \in [Cell -> Value]
  BY <1>1, <1>2
<1>4. g = [m EXCEPT ![q.bank] = row]
  BY DEF Fill
<1>5. \A k \in 1..Len(e) : q.at + k <= Limit => row[q.at + k - 1] = e[k]
  BY <1>1, <1>2, BoundsAssumption DEF Cell
<1>6. \A c \in Cell : c < q.at \/ q.at + Len(e) <= c => row[c] = m[q.bank][c]
  BY <1>1, <1>2, BoundsAssumption DEF Cell
<1>. HIDE DEF row, g
<1>7. g \in [Bank -> [Cell -> Value]] /\ g[q.bank] = row /\ \A b \in Bank : b # q.bank => g[b] = m[b]
  BY <1>1, <1>3, <1>4
<1>. QED BY <1>5, <1>6, <1>7 DEF g

LEMMA FilledAt ==
    ASSUME NEW m \in [Bank -> [Cell -> Value]], NEW q \in Pointer, NEW e \in Seq(Value),
           NEW k \in 1..Len(e), q.at + k <= Limit
    PROVE  Fill(m, q, e)[q.bank][q.at + k - 1] = e[k]
  BY Filled

LEMMA KeptFill ==
    ASSUME NEW f, Tables(f), NEW h, HeldTyped(h), LiveAt(f) = HeldOf(h),
           NEW m \in [Bank -> [Cell -> Value]], Kept(m, h),
           NEW q \in Pointer, NEW e \in Seq(Value), NEW n \in Nat, Len(e) <= n,
           NEW P, \A p \in DOMAIN h \ P : A!Apart([bank |-> q.bank, at |-> q.at, size |-> n], HeldBlock(h, p))
    PROVE  Kept(Fill(m, q, e), Taken(h, P))
<1>. DEFINE g == Taken(h, P)
<1>1. DOMAIN g = DOMAIN h \ P /\ \A p \in DOMAIN g : g[p] = h[p]
  BY DEF Taken
<1>. HIDE DEF g
<1>. SUFFICES ASSUME NEW p \in DOMAIN g, NEW k \in DOMAIN g[p]
              PROVE  g[p][k] \in {Unset, Fill(m, q, e)[p.bank][p.at + k - 1]}
  BY DEF Kept, g
<1>2. p \in DOMAIN h /\ g[p] = h[p]
  BY <1>1
<1>3. /\ p \in Pointer /\ DOMAIN h[p] = 1..Len(h[p]) /\ Len(h[p]) \in Nat /\ p.at + Len(h[p]) <= Limit
      /\ HeldBlock(h, p).bank = p.bank /\ HeldBlock(h, p).at = p.at
      /\ HeldBlock(h, p).size = Len(h[p])
  BY <1>2, HeldPointer
<1>4. p.bank \in Bank /\ p.at \in Cell /\ p.at \in Nat /\ q.at \in Nat
  BY <1>3, PointerFields
<1>5. k \in 1..Len(h[p])
  BY <1>2, <1>3
<1>6. p.at + k - 1 \in Cell
  <2>1. p.at \in Nat /\ Base <= p.at /\ Base \in Nat /\ Limit \in Nat
    BY <1>4, BoundsAssumption DEF Cell
  <2>2. k \in Nat /\ 1 <= k /\ p.at + k <= Limit
    BY <1>3, <1>5, <2>1
  <2>. QED BY <2>1, <2>2 DEF Cell
<1>7. A!Apart([bank |-> q.bank, at |-> q.at, size |-> n], HeldBlock(h, p))
  BY <1>1
<1>8. q.bank # p.bank \/ q.at + n <= p.at \/ p.at + Len(h[p]) <= q.at
  BY <1>3, <1>7 DEF A!Apart
<1>9. Len(e) \in Nat
  OBVIOUS
<1>10. p.bank # q.bank \/ p.at + k - 1 < q.at \/ q.at + Len(e) <= p.at + k - 1
  BY <1>3, <1>4, <1>5, <1>8, <1>9
<1>11. Fill(m, q, e)[p.bank][p.at + k - 1] = m[p.bank][p.at + k - 1]
  BY <1>4, <1>6, <1>10, Filled
<1>12. h[p][k] \in {Unset, m[p.bank][p.at + k - 1]}
  BY <1>2, <1>3, <1>5 DEF Kept
<1>. QED BY <1>2, <1>11, <1>12

-----------------------------------------------------------------------------
LEMMA Terms ==
    /\ Live = LiveAt(allocs)
    /\ HeldIsLive <=> LiveAt(allocs) = HeldOf(held)
    /\ ContentsKept <=> Kept(memory, held)
  BY DEF Live, LiveAt, HeldIsLive, HeldOf, ContentsKept, Kept

LEMMA TermsPrimed ==
    /\ Live' = LiveAt(allocs')
    /\ HeldIsLive' <=> LiveAt(allocs') = HeldOf(held')
    /\ ContentsKept' <=> Kept(memory', held')
  BY DEF Live, LiveAt, HeldIsLive, HeldOf, ContentsKept, Kept, HeldBlock

\* The parts of the invariant that a step has to establish.
LEMMA Established ==
    ASSUME Tables(allocs'), turn' \in [Bank -> 0..MaxRecords],
           memory' \in [Bank -> [Cell -> Value]], HeldTyped(held'),
           LiveAt(allocs') = HeldOf(held'), Kept(memory', held')
    PROVE  IInv'
<1>1. HeldIsLive' /\ ContentsKept'
  BY TermsPrimed
<1>2. Tables(allocs)' /\ HeldTyped(held)'
  BY DEF Tables, HeldTyped, Good
<1>. QED BY <1>1, <1>2 DEF IInv

\* far_malloc in a state of the heap.
LEMMA Allocating ==
    ASSUME IInv, NEW b \in Bank, NEW want \in Nat, 1 <= want
    PROVE  LET out == Allocated(b, want)
               after == [allocs EXCEPT ![b] = out.records]
               q == [bank |-> b, at |-> out.at]
               x == [bank |-> b, at |-> out.at, size |-> want]
           IN /\ Tables(after)
              /\ \A c \in Bank : after[c] = IF c = b THEN out.records ELSE allocs[c]
              /\ out.at = Null => LiveAt(after) = LiveAt(allocs)
              /\ out.at # Null => /\ LiveAt(after) = LiveAt(allocs) \cup {x}
                                  /\ x \in A!Block
                                  /\ \A y \in LiveAt(allocs) : A!Apart(x, y)
                                  /\ q \in Pointer /\ q \notin DOMAIN held
                                  /\ out.at + want <= Limit
<1>. DEFINE out == Allocated(b, want)
            after == [allocs EXCEPT ![b] = out.records]
            q == [bank |-> b, at |-> out.at]
            x == [bank |-> b, at |-> out.at, size |-> want]
<1>1. /\ Tables(allocs) /\ HeldTyped(held) /\ LiveAt(allocs) = HeldOf(held)
  BY Terms DEF IInv
<1>2. Good(allocs[b]) /\ (allocs[b] # <<>> => Covering(allocs[b]))
  BY <1>1 DEF Tables
<1>3. /\ Good(out.records) /\ Covering(out.records)
      /\ out.at = Null => LiveOf(b, out.records) = LiveOf(b, allocs[b])
      /\ out.at # Null => /\ LiveOf(b, out.records) = LiveOf(b, allocs[b]) \cup {x}
                          /\ x \in A!Block
                          /\ \A y \in LiveOf(b, allocs[b]) : A!Apart(x, y)
  BY <1>2, AllocatedGood
<1>. HIDE DEF out
<1>4. Tables(after) /\ \A c \in Bank : after[c] = IF c = b THEN out.records ELSE allocs[c]
  BY <1>1, <1>3, TablesUpdate
<1>. HIDE DEF after
<1>5. out.at = Null => LiveAt(after) = LiveAt(allocs)
  BY <1>1, <1>3, <1>4, LiveSame
<1>6. ASSUME out.at # Null
      PROVE  /\ LiveAt(after) = LiveAt(allocs) \cup {x}
             /\ x \in A!Block
             /\ \A y \in LiveAt(allocs) : A!Apart(x, y)
             /\ q \in Pointer /\ q \notin DOMAIN held
             /\ out.at + want <= Limit
  <2>1. LiveAt(after) = LiveAt(allocs) \cup {x}
    <3>1. LiveOf(b, out.records) = LiveOf(b, allocs[b]) \cup {x}
      BY <1>3, <1>6
    <3>. HIDE DEF x
    <3>. DEFINE t == out.records
    <3>2. /\ Tables(allocs) /\ With(LiveOf(b, t), LiveOf(b, allocs[b]), x)
          /\ \A c \in Bank : after[c] = IF c = b THEN t ELSE allocs[c]
      BY <1>1, <1>4, <3>1 DEF With
    <3>. HIDE DEF t
    <3>3. With(LiveAt(after), LiveAt(allocs), x)
      BY <3>2, LiveAdd, Zenon
    <3>. QED BY <3>3 DEF With
  <2>2. x \in A!Block
    BY <1>3, <1>6
  <2>3. ASSUME NEW y \in LiveAt(allocs)
        PROVE  A!Apart(x, y)
    <3>1. y.bank \in Bank /\ y \in LiveOf(y.bank, allocs[y.bank])
      BY <1>1, LiveBlock
    <3>2. CASE y.bank = b
      BY <1>3, <1>6, <3>1, <3>2
    <3>3. CASE y.bank # b
      BY <3>3 DEF A!Apart
    <3>. QED BY <3>2, <3>3
  <2>4. q \in Pointer /\ out.at + want <= Limit
    BY <2>2 DEF A!Block, Pointer, Cell
  <2>5. q \notin DOMAIN held
    <3>. SUFFICES ASSUME q \in DOMAIN held PROVE FALSE
      OBVIOUS
    <3>. DEFINE y == HeldBlock(held, q)
    <3>1. /\ y \in LiveAt(allocs) /\ y.bank = q.bank /\ y.at = q.at
          /\ y.size = Len(held[q]) /\ Len(held[q]) \in Nat /\ 1 <= Len(held[q])
      BY <1>1, HeldPointer
    <3>2. q.bank = b /\ q.at = out.at /\ out.at \in Nat
      BY <2>4, PointerFields
    <3>. HIDE DEF y, q
    <3>3. A!Apart(x, y)
      BY <2>3, <3>1
    <3>4. out.at + want <= y.at \/ y.at + y.size <= out.at
      BY <3>1, <3>2, <3>3 DEF A!Apart
    <3>. QED BY <3>1, <3>2, <3>4
  <2>. QED BY <2>1, <2>2, <2>3, <2>4, <2>5
<1>. QED BY <1>3, <1>4, <1>5, <1>6 DEF out, after

\* far_free in tables f, of a block in use.
LEMMA Freeing ==
    ASSUME NEW f, Tables(f), NEW x \in LiveAt(f)
    PROVE  LET g == [f EXCEPT ![x.bank] = Freed(@, x.at)]
           IN Tables(g) /\ LiveAt(g) = LiveAt(f) \ {x}
<1>. DEFINE b == x.bank
            t == Freed(f[b], x.at)
            g == [f EXCEPT ![b] = t]
<1>1. b \in Bank /\ x \in LiveOf(b, f[b])
  BY LiveBlock
<1>2. Good(f[b]) /\ (f[b] # <<>> => Covering(f[b]))
  BY <1>1 DEF Tables
<1>3. f[b] # <<>>
  BY <1>1 DEF LiveOf
<1>4. Good(t) /\ Covering(t) /\ LiveOf(b, t) = LiveOf(b, f[b]) \ {x}
  <2>. HIDE DEF b
  <2>. QED BY <1>1, <1>2, <1>3, FreedGood
<1>5. Without(LiveOf(b, t), LiveOf(b, f[b]), x) /\ x.bank = b
  BY <1>4 DEF Without
<1>. HIDE DEF b, t
<1>6. Tables(g) /\ \A c \in Bank : g[c] = IF c = b THEN t ELSE f[c]
  <2>1. Good(t) /\ (t # <<>> => Covering(t))
    BY <1>4
  <2>. QED BY <1>1, <2>1, TablesUpdate
<1>. HIDE DEF g
<1>7. Without(LiveAt(g), LiveAt(f), x)
  <2>1. b \in Bank
    BY <1>1
  <2>2. \A c \in Bank : g[c] = IF c = b THEN t ELSE f[c]
    BY <1>6
  <2>. QED BY <1>5, <2>1, <2>2, LiveDrop
<1>. QED BY <1>6, <1>7 DEF Without, g, t, b

-----------------------------------------------------------------------------
\* The steps of the heap: each keeps the invariant, and is a step of the allocator or
\* none.
Step == IInv' /\ (A!Next \/ Live' = Live)

LEMMA MallocStep ==
    ASSUME IInv, NEW b \in Bank, NEW size \in Size, Malloc(b, size)
    PROVE  Step
<1>. DEFINE out == Allocated(b, size)
            after == [allocs EXCEPT ![b] = out.records]
            q == [bank |-> b, at |-> out.at]
            x == [bank |-> b, at |-> out.at, size |-> size]
            e == Nothing(size)
<1>1. /\ allocs' = after /\ memory' = memory /\ turn' = turn
      /\ held' = IF out.at = Null THEN held ELSE Given(held, q, e)
  BY DEF Malloc
<1>2. /\ Tables(allocs) /\ HeldTyped(held) /\ LiveAt(allocs) = HeldOf(held) /\ Kept(memory, held)
      /\ turn \in [Bank -> 0..MaxRecords] /\ memory \in [Bank -> [Cell -> Value]]
  BY Terms DEF IInv
<1>3. size \in Nat /\ 1 <= size
  BY BoundsAssumption DEF Size
<1>4. /\ Tables(after)
      /\ out.at = Null => LiveAt(after) = LiveAt(allocs)
      /\ out.at # Null => /\ LiveAt(after) = LiveAt(allocs) \cup {x}
                          /\ x \in A!Block
                          /\ \A y \in LiveAt(allocs) : A!Apart(x, y)
                          /\ q \in Pointer /\ q \notin DOMAIN held
  BY <1>3, Allocating
<1>5. e \in Seq(Value \cup {Unset}) /\ Len(e) = size /\ DOMAIN e = 1..size /\ \A k \in 1..size : e[k] = Unset
  BY <1>3 DEF Nothing
<1>6. x = [bank |-> q.bank, at |-> q.at, size |-> Len(e)]
  BY <1>5
<1>. HIDE DEF out, after, e, q, x
<1>7. CASE out.at = Null
  <2>1. LiveAt(allocs') = HeldOf(held') /\ held' = held
    BY <1>1, <1>2, <1>4, <1>7
  <2>2. IInv'
    BY <1>1, <1>2, <1>4, <2>1, Established
  <2>. QED BY <1>1, <1>4, <1>7, <2>2, Terms, TermsPrimed DEF Step
<1>8. CASE out.at # Null
  <2>1. /\ HeldTyped(held') /\ With(HeldOf(held'), HeldOf(held), x)
    <3>1. q \in Pointer /\ q \notin DOMAIN held
      BY <1>4, <1>8
    <3>2. held' = Given(held, q, e)
      BY <1>1, <1>8
    <3>. QED BY <1>2, <1>5, <1>6, <3>1, <3>2, GivenHeld
  <2>2. Kept(memory', held')
    BY <1>1, <1>2, <1>5, <1>8, KeptGiven
  <2>3. LiveAt(allocs') = LiveAt(allocs) \cup {x}
    BY <1>1, <1>4, <1>8
  <2>4. IInv'
    BY <1>1, <1>2, <1>4, <2>1, <2>2, <2>3, Established DEF With
  <2>5. A!Alloc(x)
    BY <1>4, <1>8, <2>3, Terms, TermsPrimed DEF A!Alloc
  <2>. QED BY <1>4, <1>8, <2>4, <2>5 DEF Step, A!Next
<1>. QED BY <1>7, <1>8

LEMMA CallocStep ==
    ASSUME IInv, NEW b \in Bank, NEW count \in Size, NEW size \in Size, Calloc(b, count, size)
    PROVE  Step
<1>. DEFINE total == (count * size) % Limit
            e == [k \in 1..total |-> Zero]
            out == Allocated(b, total)
            after == [allocs EXCEPT ![b] = out.records]
            q == [bank |-> b, at |-> out.at]
            x == [bank |-> b, at |-> out.at, size |-> total]
<1>1. /\ allocs' = after /\ turn' = turn /\ total > 0
      /\ IF out.at = Null THEN memory' = memory /\ held' = held
         ELSE memory' = Fill(memory, q, e) /\ held' = Given(held, q, e)
  BY DEF Calloc
<1>2. /\ Tables(allocs) /\ HeldTyped(held) /\ LiveAt(allocs) = HeldOf(held) /\ Kept(memory, held)
      /\ turn \in [Bank -> 0..MaxRecords] /\ memory \in [Bank -> [Cell -> Value]]
  BY Terms DEF IInv
<1>3. total \in Nat /\ 1 <= total
  <2>1. count * size \in Int /\ Limit \in Nat \ {0}
    BY BoundsAssumption DEF Size
  <2>2. total \in 0..(Limit - 1)
    BY <2>1
  <2>. HIDE DEF total
  <2>. QED BY <1>1, <2>1, <2>2
<1>. HIDE DEF total
<1>4. /\ Tables(after)
      /\ out.at = Null => LiveAt(after) = LiveAt(allocs)
      /\ out.at # Null => /\ LiveAt(after) = LiveAt(allocs) \cup {x}
                          /\ x \in A!Block
                          /\ \A y \in LiveAt(allocs) : A!Apart(x, y)
                          /\ q \in Pointer /\ q \notin DOMAIN held
                          /\ out.at + total <= Limit
  BY <1>3, Allocating
<1>5. /\ e \in Seq(Value) /\ e \in Seq(Value \cup {Unset}) /\ Len(e) = total
      /\ DOMAIN e = 1..total /\ \A k \in 1..total : e[k] = Zero
  BY <1>3 DEF Value
<1>6. x = [bank |-> q.bank, at |-> q.at, size |-> Len(e)] /\ q.at = out.at /\ q.bank = b
  BY <1>5
<1>. HIDE DEF out, after, e, q, x
<1>7. CASE out.at = Null
  <2>1. LiveAt(allocs') = HeldOf(held') /\ held' = held /\ memory' = memory
    BY <1>1, <1>2, <1>4, <1>7
  <2>2. IInv'
    BY <1>1, <1>2, <1>4, <2>1, Established
  <2>. QED BY <1>1, <1>4, <1>7, <2>2, Terms, TermsPrimed DEF Step
<1>8. CASE out.at # Null
  <2>1. q \in Pointer /\ q \notin DOMAIN held /\ out.at + total <= Limit /\ q.at \in Nat
    BY <1>4, <1>8, PointerFields
  <2>2. memory' = Fill(memory, q, e) /\ held' = Given(held, q, e)
    BY <1>1, <1>8
  <2>3. /\ HeldTyped(held') /\ With(HeldOf(held'), HeldOf(held), x)
    BY <1>2, <1>5, <1>6, <2>1, <2>2, GivenHeld
  <2>4. memory' \in [Bank -> [Cell -> Value]]
    BY <1>2, <1>5, <2>1, <2>2, Filled
  <2>5. Kept(memory', held)
    <3>1. ASSUME NEW p \in DOMAIN held \ {}
          PROVE  A!Apart([bank |-> q.bank, at |-> q.at, size |-> total], HeldBlock(held, p))
      <4>1. HeldBlock(held, p) \in LiveAt(allocs)
        BY <1>2, HeldPointer
      <4>. QED BY <1>4, <1>5, <1>6, <1>8, <4>1
    <3>2. q \in Pointer /\ e \in Seq(Value) /\ Len(e) <= total
      BY <1>3, <1>5, <2>1
    <3>3. Kept(Fill(memory, q, e), Taken(held, {}))
      BY <1>2, <1>3, <3>1, <3>2, KeptFill
    <3>. QED BY <2>2, <3>3 DEF Kept, Taken
  <2>6. \A k \in DOMAIN e : e[k] \in {Unset, memory'[q.bank][q.at + k - 1]}
    <3>. SUFFICES ASSUME NEW k \in 1..total
                  PROVE  e[k] = memory'[q.bank][q.at + k - 1]
      BY <1>5
    <3>1. q.at + k <= Limit
      BY <1>3, <1>6, <2>1, BoundsAssumption
    <3>2. k \in 1..Len(e) /\ e \in Seq(Value) /\ memory \in [Bank -> [Cell -> Value]] /\ q \in Pointer
      BY <1>2, <1>5, <2>1
    <3>3. Fill(memory, q, e)[q.bank][q.at + k - 1] = e[k]
      BY <3>1, <3>2, FilledAt
    <3>. QED BY <2>2, <3>3, Zenon
  <2>7. Kept(memory', held')
    BY <2>2, <2>5, <2>6, KeptGiven
  <2>8. LiveAt(allocs') = LiveAt(allocs) \cup {x}
    BY <1>1, <1>4, <1>8
  <2>9. IInv'
    BY <1>1, <1>2, <1>4, <2>3, <2>4, <2>7, <2>8, Established DEF With
  <2>10. A!Alloc(x)
    BY <1>4, <1>8, <2>8, Terms, TermsPrimed DEF A!Alloc
  <2>. QED BY <1>4, <1>8, <2>9, <2>10 DEF Step, A!Next
<1>. QED BY <1>7, <1>8

LEMMA WriteStep ==
    ASSUME IInv, NEW p \in DOMAIN held, Write(p)
    PROVE  Step
<1>. DEFINE e == [k \in DOMAIN held[p] |-> Data]
<1>1. /\ allocs' = allocs /\ turn' = turn
      /\ memory' = Fill(memory, p, e) /\ held' = [held EXCEPT ![p] = e]
  BY DEF Write
<1>2. /\ Tables(allocs) /\ HeldTyped(held) /\ LiveAt(allocs) = HeldOf(held) /\ Kept(memory, held)
      /\ turn \in [Bank -> 0..MaxRecords] /\ memory \in [Bank -> [Cell -> Value]]
  BY Terms DEF IInv
<1>3. /\ p \in Pointer /\ Len(held[p]) \in Nat /\ p.at + Len(held[p]) <= Limit
      /\ DOMAIN held[p] = 1..Len(held[p]) /\ p.at \in Nat
  BY <1>2, HeldPointer, PointerFields
<1>4. /\ e \in Seq(Value) /\ e \in Seq(Value \cup {Unset}) /\ Len(e) = Len(held[p])
      /\ DOMAIN e = 1..Len(held[p]) /\ \A k \in DOMAIN e : e[k] = Data
  BY <1>3 DEF Value
<1>. HIDE DEF e
<1>5. /\ DOMAIN held' = DOMAIN held /\ held'[p] = e
      /\ \A q \in DOMAIN held : q # p => held'[q] = held[q]
  BY <1>1
<1>6. HeldTyped(held')
  BY <1>2, <1>4, <1>5 DEF HeldTyped
<1>7. HeldOf(held') = HeldOf(held)
  <2>1. \A q \in DOMAIN held : HeldBlock(held', q) = HeldBlock(held, q)
    BY <1>4, <1>5 DEF HeldBlock
  <2>. QED BY <1>5, <2>1 DEF HeldOf
<1>8. memory' \in [Bank -> [Cell -> Value]]
  BY <1>1, <1>2, <1>3, <1>4, Filled
<1>9. Kept(memory', held')
  <2>1. ASSUME NEW q \in DOMAIN held \ {p}
        PROVE  A!Apart([bank |-> p.bank, at |-> p.at, size |-> Len(held[p])], HeldBlock(held, q))
    <3>1. A!Apart(HeldBlock(held, p), HeldBlock(held, q))
      BY <1>2, HeldApart
    <3>. QED BY <3>1 DEF HeldBlock
  <2>2. Kept(memory', Taken(held, {p}))
    BY <1>1, <1>2, <1>3, <1>4, <2>1, KeptFill
  <2>3. \A k \in DOMAIN e : e[k] = memory'[p.bank][p.at + k - 1]
    <3>. SUFFICES ASSUME NEW k \in 1..Len(e)
                  PROVE  e[k] = memory'[p.bank][p.at + k - 1]
      BY <1>4
    <3>1. p.at + k <= Limit
      BY <1>3, <1>4, BoundsAssumption
    <3>. QED BY <1>1, <1>2, <1>3, <1>4, <3>1, Filled
  <2>. QED BY <1>5, <2>2, <2>3 DEF Kept, Taken
<1>10. IInv'
  BY <1>1, <1>2, <1>6, <1>7, <1>8, <1>9, Established
<1>. QED BY <1>1, <1>10, Terms, TermsPrimed DEF Step

LEMMA FarFreeStep ==
    ASSUME IInv, NEW p \in DOMAIN held, FarFree(p)
    PROVE  Step
<1>. DEFINE y == HeldBlock(held, p)
<1>1. /\ allocs' = [allocs EXCEPT ![p.bank] = Freed(@, p.at)]
      /\ held' = Taken(held, {p}) /\ turn' = [turn EXCEPT ![p.bank] = 1] /\ memory' = memory
  BY DEF FarFree
<1>2. /\ Tables(allocs) /\ HeldTyped(held) /\ LiveAt(allocs) = HeldOf(held) /\ Kept(memory, held)
      /\ turn \in [Bank -> 0..MaxRecords] /\ memory \in [Bank -> [Cell -> Value]]
  BY Terms DEF IInv
<1>3. y \in LiveAt(allocs) /\ y.bank = p.bank /\ y.at = p.at
  BY <1>2, HeldPointer
<1>4. HeldTyped(held') /\ Without(HeldOf(held'), HeldOf(held), y)
  BY <1>1, <1>2, TakenHeld
<1>. HIDE DEF y
<1>5. Tables(allocs') /\ LiveAt(allocs') = LiveAt(allocs) \ {y}
  BY <1>1, <1>2, <1>3, Freeing
<1>6. Kept(memory', held')
  BY <1>1, <1>2, KeptTaken
<1>7. turn' \in [Bank -> 0..MaxRecords]
  <2>1. 1 \in 0..MaxRecords
    BY BoundsAssumption
  <2>. QED BY <1>1, <1>2, <2>1
<1>8. IInv'
  BY <1>1, <1>2, <1>4, <1>5, <1>6, <1>7, Established DEF Without
<1>9. A!Free(y)
  BY <1>5, Terms, TermsPrimed DEF A!Free
<1>. QED BY <1>3, <1>8, <1>9, Terms DEF Step, A!Next

LEMMA CoalesceStep ==
    ASSUME IInv, NEW b \in Bank, Coalesce(b)
    PROVE  Step
<1>. DEFINE s == allocs[b]
            i == turn[b]
<1>1. /\ Tables(allocs) /\ HeldTyped(held) /\ LiveAt(allocs) = HeldOf(held) /\ Kept(memory, held)
      /\ turn \in [Bank -> 0..MaxRecords] /\ memory \in [Bank -> [Cell -> Value]]
  BY Terms DEF IInv
<1>2. i \in 0..MaxRecords /\ i # 0 /\ memory' = memory /\ held' = held
  BY <1>1 DEF Coalesce
<1>3. Good(s) /\ (s # <<>> => Covering(s)) /\ Len(s) \in Nat /\ Len(s) <= MaxRecords
  BY <1>1 DEF Tables, Good
<1>4. CASE i < Len(s) /\ Mergeable(s, i) /\ allocs' = [allocs EXCEPT ![b] = Merged(s, i)] /\ turn' = turn
  <2>. DEFINE t == Merged(s, i)
  <2>. HIDE DEF s, i
  <2>1. i \in Nat /\ 1 <= i /\ i < Len(s) /\ Mergeable(s, i)
    BY <1>2, <1>4, BoundsAssumption
  <2>2. s # <<>>
    BY <1>3, <2>1
  <2>3. Good(t) /\ Covering(t) /\ LiveOf(b, t) = LiveOf(b, s)
    BY <1>3, <2>1, <2>2, MergedGood
  <2>. HIDE DEF t
  <2>4. /\ Tables(allocs')
        /\ \A c \in Bank : allocs'[c] = IF c = b THEN t ELSE allocs[c]
    <3>1. allocs' = [allocs EXCEPT ![b] = t]
      BY <1>4 DEF t
    <3>2. Tables(allocs)
      BY <1>1
    <3>3. Good(t) /\ (t # <<>> => Covering(t))
      BY <2>3
    <3>4. /\ Tables([allocs EXCEPT ![b] = t])
          /\ \A c \in Bank : [allocs EXCEPT ![b] = t][c] = IF c = b THEN t ELSE allocs[c]
      BY <3>2, <3>3, TablesUpdate
    <3>. QED BY <3>1, <3>4
  <2>5. LiveAt(allocs') = LiveAt(allocs)
    BY <1>1, <2>3, <2>4, LiveSame DEF s
  <2>6. IInv'
    BY <1>1, <1>2, <1>4, <2>4, <2>5, Established
  <2>. QED BY <2>5, <2>6, Terms, TermsPrimed DEF Step
<1>5. CASE i < Len(s) /\ turn' = [turn EXCEPT ![b] = i + 1] /\ allocs' = allocs
  <2>1. turn' \in [Bank -> 0..MaxRecords]
    BY <1>1, <1>2, <1>3, <1>5, BoundsAssumption
  <2>2. IInv'
    BY <1>1, <1>2, <1>5, <2>1, Established
  <2>. QED BY <1>5, <2>2, Terms, TermsPrimed DEF Step
<1>6. CASE i >= Len(s) /\ turn' = [turn EXCEPT ![b] = 0] /\ allocs' = allocs
  <2>1. turn' \in [Bank -> 0..MaxRecords]
    BY <1>1, <1>6, BoundsAssumption
  <2>2. IInv'
    BY <1>1, <1>2, <1>6, <2>1, Established
  <2>. QED BY <1>6, <2>2, Terms, TermsPrimed DEF Step
<1>. QED BY <1>4, <1>5, <1>6 DEF Coalesce

LEMMA ReallocStep ==
    ASSUME IInv, NEW p \in DOMAIN held, NEW size \in Size, NEW b \in Bank, Realloc(p, size, b)
    PROVE  Step
<1>. DEFINE old == allocs[p.bank]
            oldSize == old[RecordOf(old, p.at)].size
            out == Allocated(b, size)
            q == [bank |-> b, at |-> out.at]
            after == [allocs EXCEPT ![b] = out.records]
            final == [after EXCEPT ![p.bank] = Freed(@, p.at)]
            y == HeldBlock(held, p)
            x == [bank |-> b, at |-> out.at, size |-> size]
            e == Carried(p, b, size)
            c == Copied(p, oldSize, size)
<1>1. \/ out.at = Null /\ allocs' = after /\ memory' = memory /\ held' = held /\ turn' = turn
      \/ /\ out.at # Null /\ allocs' = final
         /\ memory' = IF b = p.bank THEN Fill(memory, q, c) ELSE memory
         /\ held' = Given(Taken(held, {p}), q, e)
         /\ turn' = [turn EXCEPT ![p.bank] = 1]
  BY DEF Realloc
<1>2. /\ Tables(allocs) /\ HeldTyped(held) /\ LiveAt(allocs) = HeldOf(held) /\ Kept(memory, held)
      /\ turn \in [Bank -> 0..MaxRecords] /\ memory \in [Bank -> [Cell -> Value]]
  BY Terms DEF IInv
<1>3. size \in Nat /\ 1 <= size
  BY BoundsAssumption DEF Size
<1>4. /\ Tables(after)
      /\ out.at = Null => LiveAt(after) = LiveAt(allocs)
      /\ out.at # Null => /\ LiveAt(after) = LiveAt(allocs) \cup {x}
                          /\ x \in A!Block
                          /\ \A d \in LiveAt(allocs) : A!Apart(x, d)
                          /\ q \in Pointer /\ q \notin DOMAIN held
                          /\ out.at + size <= Limit
  BY <1>3, Allocating
<1>5. /\ p \in Pointer /\ p.bank \in Bank /\ p.at \in Nat /\ p.at \in Cell
      /\ Len(held[p]) \in Nat /\ p.at + Len(held[p]) <= Limit /\ DOMAIN held[p] = 1..Len(held[p])
  BY <1>2, HeldPointer, PointerFields
<1>6. y \in LiveAt(allocs) /\ y.bank = p.bank /\ y.at = p.at /\ y.size = Len(held[p])
  BY <1>2, HeldPointer
<1>7. oldSize = Len(held[p])
  <2>1. y \in LiveOf(p.bank, old) /\ Good(old)
    BY <1>2, <1>5, <1>6, LiveBlock DEF Tables
  <2>. HIDE DEF y, old
  <2>2. y = BlockOf(p.bank, old[RecordOf(old, p.at)])
    BY <1>6, <2>1, LiveRecord
  <2>. QED BY <1>6, <2>2 DEF BlockOf
<1>8. /\ e \in Seq(Value \cup {Unset}) /\ Len(e) = size /\ DOMAIN e = 1..size
      /\ \A k \in 1..size : e[k] = IF b = p.bank /\ k \in DOMAIN held[p] THEN held[p][k] ELSE Unset
  <2>1. \A k \in DOMAIN held[p] : held[p][k] \in Value \cup {Unset}
    BY <1>2, <1>5, ElementOfSeq DEF HeldTyped
  <2>. QED BY <1>3, <2>1 DEF Carried
<1>9. /\ c \in Seq(Value) /\ Len(c) \in Nat /\ Len(c) <= size /\ Len(c) <= oldSize
      /\ \A k \in 1..size : k <= oldSize => k <= Len(c)
      /\ \A k \in 1..Len(c) : c[k] = memory[p.bank][p.at + k - 1]
  <2>. DEFINE n == IF oldSize < size THEN oldSize ELSE size
  <2>1. n \in Nat /\ n <= size /\ n <= oldSize /\ \A k \in 1..size : k <= oldSize => k <= n
    BY <1>3, <1>5, <1>7
  <2>2. c = [k \in 1..n |-> memory[p.bank][p.at + k - 1]]
    BY DEF Copied
  <2>. HIDE DEF n, c, oldSize
  <2>3. \A k \in 1..n : p.at + k - 1 \in Cell
    BY <1>5, <1>7, <2>1, BoundsAssumption DEF Cell
  <2>4. \A k \in 1..n : memory[p.bank][p.at + k - 1] \in Value
    BY <1>2, <1>5, <2>3
  <2>5. c \in [1..n -> Value]
    BY <2>2, <2>4
  <2>6. c \in Seq(Value) /\ Len(c) = n
    BY <2>1, <2>5
  <2>. QED BY <2>1, <2>2, <2>6
<1>10. q.bank = b /\ q.at = out.at /\ x = [bank |-> q.bank, at |-> q.at, size |-> Len(e)] /\ x.size = size
  BY <1>8
<1>. HIDE DEF out, after, final, e, c, oldSize, q, x, y
<1>11. CASE out.at = Null
  <2>1. /\ allocs' = after /\ memory' = memory /\ held' = held /\ turn' = turn
    BY <1>1, <1>11
  <2>2. LiveAt(allocs') = LiveAt(allocs) /\ Tables(allocs')
    BY <1>4, <1>11, <2>1
  <2>3. IInv'
    BY <1>2, <2>1, <2>2, Established
  <2>. QED BY <2>2, <2>3, Terms, TermsPrimed DEF Step
<1>12. CASE out.at # Null
  <2>1. /\ allocs' = final /\ held' = Given(Taken(held, {p}), q, e) /\ turn' = [turn EXCEPT ![p.bank] = 1]
        /\ memory' = IF b = p.bank THEN Fill(memory, q, c) ELSE memory
    BY <1>1, <1>12
  <2>2. q \in Pointer /\ q \notin DOMAIN held /\ out.at + size <= Limit /\ q.at \in Nat /\ q.bank \in Bank
    BY <1>4, <1>12, PointerFields
  <2>3. \A d \in LiveAt(allocs) : A!Apart(x, d)
    BY <1>4, <1>12
  <2>4. x \in A!Block /\ LiveAt(after) = LiveAt(allocs) \cup {x}
    BY <1>4, <1>12
  <2>5. x # y
    <3>1. A!Apart(x, y) /\ x.bank \in Bank /\ x.at \in Nat /\ x.size \in Nat /\ 1 <= x.size
      BY <1>3, <1>6, <1>10, <2>2, <2>3, <2>4 DEF x
    <3>. QED BY <3>1 DEF A!Apart
  <2>6. Tables(final) /\ LiveAt(final) = LiveAt(after) \ {y}
    <3>1. y \in LiveAt(after)
      BY <1>6, <2>4
    <3>. QED BY <1>4, <1>6, <3>1, Freeing DEF final
  <2>7. LiveAt(allocs') = (LiveAt(allocs) \ {y}) \cup {x}
    BY <2>1, <2>4, <2>5, <2>6
  <2>. DEFINE h == Taken(held, {p})
  <2>8. HeldTyped(h) /\ Without(HeldOf(h), HeldOf(held), y) /\ q \notin DOMAIN h
    BY <1>2, <2>2, TakenHeld DEF y, Taken
  <2>9. HeldTyped(held') /\ With(HeldOf(held'), HeldOf(h), x)
    <3>. HIDE DEF h
    <3>. QED BY <1>8, <1>10, <2>1, <2>2, <2>8, GivenHeld DEF h
  <2>10. HeldOf(held') = LiveAt(allocs')
    BY <1>2, <2>7, <2>8, <2>9 DEF With, Without
  <2>11. turn' \in [Bank -> 0..MaxRecords]
    <3>1. 1 \in 0..MaxRecords
      BY BoundsAssumption
    <3>. QED BY <1>2, <2>1, <3>1
  <2>12. memory' \in [Bank -> [Cell -> Value]] /\ Kept(memory', held')
    <3>1. CASE b = p.bank
      <4>1. memory' = Fill(memory, q, c)
        BY <2>1, <3>1
      <4>2. memory' \in [Bank -> [Cell -> Value]]
        BY <1>2, <1>9, <2>2, <4>1, Filled
      <4>3. ASSUME NEW d \in DOMAIN held \ {p}
            PROVE  A!Apart([bank |-> q.bank, at |-> q.at, size |-> size], HeldBlock(held, d))
        <5>1. HeldBlock(held, d) \in LiveAt(allocs)
          BY <1>2, HeldPointer
        <5>. QED BY <1>8, <1>10, <2>3, <5>1
      <4>4. Kept(memory', h)
        BY <1>2, <1>3, <1>9, <2>2, <4>1, <4>3, KeptFill
      <4>5. \A k \in DOMAIN e : e[k] \in {Unset, memory'[q.bank][q.at + k - 1]}
        <5>. SUFFICES ASSUME NEW k \in 1..size, k \in DOMAIN held[p]
                      PROVE  held[p][k] \in {Unset, memory'[q.bank][q.at + k - 1]}
          BY <1>8
        <5>1. k \in 1..Len(c) /\ c[k] = memory[p.bank][p.at + k - 1]
          BY <1>3, <1>5, <1>7, <1>9
        <5>2. q.at + k <= Limit
          BY <1>3, <1>10, <2>2, BoundsAssumption
        <5>3. memory'[q.bank][q.at + k - 1] = c[k]
          <6>1. Fill(memory, q, c)[q.bank][q.at + k - 1] = c[k]
            BY <1>2, <1>9, <2>2, <5>1, <5>2, FilledAt
          <6>. QED BY <4>1, <6>1, Zenon
        <5>. QED BY <1>2, <5>1, <5>3 DEF Kept
      <4>. QED BY <2>1, <4>2, <4>4, <4>5, KeptGiven
    <3>2. CASE b # p.bank
      <4>1. memory' = memory /\ \A k \in DOMAIN e : e[k] = Unset
        BY <1>8, <2>1, <3>2
      <4>2. Kept(memory', h)
        BY <1>2, <4>1, KeptTaken
      <4>. QED BY <1>2, <2>1, <4>1, <4>2, KeptGiven
    <3>. QED BY <3>1, <3>2
  <2>13. IInv'
    BY <2>1, <2>6, <2>9, <2>10, <2>11, <2>12, Established
  <2>14. A!Move(y, x)
    BY <2>3, <2>7, Terms, TermsPrimed DEF A!Move
  <2>. QED BY <1>6, <2>4, <2>13, <2>14, Terms DEF Step, A!Next
<1>. QED BY <1>11, <1>12

LEMMA ResetStep ==
    ASSUME IInv, NEW B \in SUBSET Bank, BankReset(B)
    PROVE  Step
<1>1. /\ allocs' = [b \in Bank |-> IF b \in B THEN <<>> ELSE allocs[b]]
      /\ held' = Taken(held, {p \in DOMAIN held : p.bank \in B})
      /\ memory' = memory /\ turn' = turn
  BY DEF BankReset
<1>2. /\ Tables(allocs) /\ HeldTyped(held) /\ LiveAt(allocs) = HeldOf(held) /\ Kept(memory, held)
      /\ turn \in [Bank -> 0..MaxRecords] /\ memory \in [Bank -> [Cell -> Value]]
  BY Terms DEF IInv
<1>3. \A b \in Bank : allocs'[b] = IF b \in B THEN <<>> ELSE allocs[b]
  BY <1>1
<1>4. Tables(allocs')
  <2>1. Good(<<>>)
    BY BoundsAssumption DEF Good, Disjoint
  <2>2. \A b \in Bank : Good(allocs'[b]) /\ (allocs'[b] # <<>> => Covering(allocs'[b]))
    BY <1>2, <1>3, <2>1 DEF Tables
  <2>3. allocs' \in [Bank -> Seq(Record)]
    BY <1>1, <1>2 DEF Tables
  <2>. QED BY <2>2, <2>3 DEF Tables
<1>5. LiveAt(allocs') = {x \in LiveAt(allocs) : x.bank \notin B}
  <2>1. \A b \in Bank : LiveOf(b, allocs'[b]) = IF b \in B THEN {} ELSE LiveOf(b, allocs[b])
    <3>1. \A b : LiveOf(b, <<>>) = {}
      BY DEF LiveOf
    <3>. QED BY <1>3, <3>1
  <2>2. ASSUME NEW x \in LiveAt(allocs')
        PROVE  x \in LiveAt(allocs) /\ x.bank \notin B
    <3>1. PICK b \in Bank : x \in LiveOf(b, allocs'[b])
      BY LiveAtMember
    <3>2. b \notin B /\ x \in LiveOf(b, allocs[b])
      BY <2>1, <3>1
    <3>. QED BY <3>2, LiveAtMember, LiveBank
  <2>3. ASSUME NEW x \in LiveAt(allocs), x.bank \notin B
        PROVE  x \in LiveAt(allocs')
    <3>1. x.bank \in Bank /\ x \in LiveOf(x.bank, allocs[x.bank])
      BY <1>2, LiveBlock
    <3>2. x \in LiveOf(x.bank, allocs'[x.bank])
      BY <2>1, <2>3, <3>1
    <3>. QED BY <3>1, <3>2, LiveAtMember
  <2>. QED BY <2>2, <2>3
<1>6. HeldTyped(held') /\ Kept(memory', held')
  BY <1>1, <1>2, KeptTaken DEF HeldTyped, Taken
<1>7. HeldOf(held') = {x \in HeldOf(held) : x.bank \notin B}
  <2>1. DOMAIN held' = {p \in DOMAIN held : p.bank \notin B} /\ \A p \in DOMAIN held' : held'[p] = held[p]
    BY <1>1 DEF Taken
  <2>2. \A p \in DOMAIN held' : HeldBlock(held', p) = HeldBlock(held, p)
    BY <2>1 DEF HeldBlock
  <2>3. \A p \in DOMAIN held : HeldBlock(held, p).bank = p.bank
    BY DEF HeldBlock
  <2>. QED BY <2>1, <2>2, <2>3 DEF HeldOf
<1>8. IInv'
  BY <1>1, <1>2, <1>4, <1>5, <1>6, <1>7, Established
<1>9. A!Reset(B)
  BY <1>5, Terms, TermsPrimed DEF A!Reset
<1>. QED BY <1>8, <1>9 DEF Step, A!Next

-----------------------------------------------------------------------------
LEMMA InitInvariant == Init => IInv /\ A!Init
<1>. SUFFICES ASSUME Init PROVE IInv /\ A!Init
  OBVIOUS
<1>1. Good(<<>>)
  BY BoundsAssumption DEF Good, Disjoint
<1>2. Tables(allocs)
  BY <1>1 DEF Init, Tables
<1>3. \A b \in Bank : LiveOf(b, allocs[b]) = {}
  BY DEF Init, LiveOf
<1>4. LiveAt(allocs) = {}
  BY <1>3, LiveAtMember
<1>5. HeldTyped(held) /\ HeldOf(held) = {} /\ Kept(memory, held)
  BY DEF Init, HeldTyped, HeldOf, Kept
<1>6. turn \in [Bank -> 0..MaxRecords] /\ memory \in [Bank -> [Cell -> Value]]
  BY BoundsAssumption DEF Init, Value
<1>. QED BY <1>2, <1>4, <1>5, <1>6, Terms DEF IInv, A!Init

LEMMA Steps == IInv /\ [Next]_vars => Step
<1>. SUFFICES ASSUME IInv, [Next]_vars PROVE Step
  OBVIOUS
<1>1. ASSUME NEW b \in Bank, NEW size \in Size, Malloc(b, size) PROVE Step
  BY <1>1, MallocStep
<1>2. ASSUME NEW b \in Bank, NEW count \in Size, NEW size \in Size, Calloc(b, count, size) PROVE Step
  BY <1>2, CallocStep
<1>3. ASSUME NEW p \in DOMAIN held, Write(p) PROVE Step
  BY <1>3, WriteStep
<1>4. ASSUME NEW p \in DOMAIN held, FarFree(p) PROVE Step
  BY <1>4, FarFreeStep
<1>5. ASSUME NEW b \in Bank, Coalesce(b) PROVE Step
  BY <1>5, CoalesceStep
<1>6. ASSUME NEW p \in DOMAIN held, NEW size \in Size, NEW b \in Bank, Realloc(p, size, b) PROVE Step
  BY <1>6, ReallocStep
<1>7. ASSUME NEW b \in Bank, BankReset({b}) PROVE Step
  BY <1>7, ResetStep
<1>8. ASSUME BankReset(Bank) PROVE Step
  BY <1>8, ResetStep
<1>9. ASSUME UNCHANGED vars PROVE Step
  <2>1. IInv'
    BY <1>9, Terms, Established DEF IInv, vars
  <2>. QED BY <1>9, <2>1, Terms, TermsPrimed DEF vars, Step
<1>. QED BY <1>1, <1>2, <1>3, <1>4, <1>5, <1>6, <1>7, <1>8, <1>9 DEF Next

LEMMA Invariant == Spec => []IInv
<1>1. IInv /\ [Next]_vars => IInv'
  BY Steps DEF Step
<1>. QED BY <1>1, InitInvariant, PTL DEF Spec

\* The tables of records, the caller's pointers and the memory keep their types.
THEOREM Typed == Spec => []TypeOK
<1>1. IInv => TypeOK
  BY GoodRecords, BoundsAssumption DEF IInv, TypeOK, Tables, Good, HeldTyped
<1>. QED BY <1>1, Invariant, PTL

\* However blocks are split, freed and merged, no two records of a bank share a cell,
\* and every cell of an initialized bank is in one.
THEOREM RecordsPartition == Spec => []RecordsPartitionBank
<1>1. IInv => RecordsPartitionBank
  BY DEF IInv, RecordsPartitionBank, Tables, Good
<1>. QED BY <1>1, Invariant, PTL

\* Every pointer the caller holds has its record, of the size asked for, and no record in
\* use is without a pointer.
THEOREM OwnersKnown == Spec => []HeldIsLive
<1>1. IInv => HeldIsLive
  BY DEF IInv
<1>. QED BY <1>1, Invariant, PTL

\* No call on one block changes what the owner of another has put there, and resizing
\* within a bank carries the contents along.
THEOREM ContentsAreKept == Spec => []ContentsKept
<1>1. IInv => ContentsKept
  BY DEF IInv
<1>. QED BY <1>1, Invariant, PTL

\* The far heap implements the allocator.
THEOREM HeapImplementsAllocator == Spec => Implements
<1>1. IInv /\ [Next]_vars => [A!Next]_Live
  BY Steps DEF Step
<1>2. Init => A!Init
  BY InitInvariant
<1>. QED BY <1>1, <1>2, Invariant, PTL DEF Spec, Implements, A!Spec

=============================================================================
