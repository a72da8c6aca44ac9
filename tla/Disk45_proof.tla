---------------------------- MODULE Disk45_proof ----------------------------
(***************************************************************************)
(* The chains of the directory and of the files stay apart and allocated,  *)
(* calls keep the files they do not name, and writes can be read back, for *)
(* any disk, any directory geometry and any names.                         *)
(***************************************************************************)
EXTENDS Disk45, SequenceTheorems, FiniteSetTheorems, WellFoundedInduction, TLAPS

LEMMA LeastNatural ==
    ASSUME NEW S \in SUBSET Nat, S # {}
    PROVE  \E m \in S : \A i \in S : m <= i
<1>. DEFINE R == OpToRel(<, Nat)
<1>1. IsWellFoundedOn(R, Nat)
  BY NatLessThanWellFounded
<1>2. PICK m \in S : \A i \in S : <<i, m>> \notin R
  <2>. HIDE DEF R
  <2>. QED BY <1>1, WFMin, Zenon
<1>3. \A i \in S : ~(i < m)
  BY <1>2 DEF OpToRel
<1>. QED BY <1>3

-----------------------------------------------------------------------------
\* Chains of sectors.

\* c is a chain of the image: it visits no sector twice and its last sector links to none.
Path(img, c) ==
    /\ c \in Seq(AllSectors) /\ c # <<>>
    /\ IsInjective(c)
    /\ \A k \in 1..(Len(c) - 1) : img.link[c[k]] = c[k + 1]
    /\ img.link[c[Len(c)]] = End

LEMMA PathLength ==
    ASSUME NEW c \in Seq(AllSectors), IsInjective(c)
    PROVE  Len(c) \in 0..DirStart
<1>1. Len(c) \in Nat /\ DirStart \in Nat /\ N \in Nat
  BY DiskAssumption DEF DirStart
<1>2. IsFiniteSet(AllSectors) /\ Cardinality(AllSectors) = DirStart
  BY <1>1, FS_Interval DEF AllSectors, DirStart
<1>3. IsFiniteSet(1..Len(c)) /\ Cardinality(1..Len(c)) = Len(c)
  BY <1>1, FS_Interval
<1>4. c \in Injection(1..Len(c), AllSectors)
  BY DEF IsInjective, Injection, IsInjective
<1>5. Cardinality(1..Len(c)) <= Cardinality(AllSectors)
  BY <1>2, <1>4, FS_Injection
<1>. QED BY <1>1, <1>2, <1>3, <1>5

\* The walk of Chain, as far as k.
Walk(img, s, w, n) ==
    w = [k \in 1..n |->
            IF k = 1 THEN <<s>>
            ELSE LET c == w[k - 1]
                     next == img.link[Last(c)]
                 IN  IF next = End THEN c ELSE Append(c, next)]

LEMMA WalkExists ==
    ASSUME NEW img, NEW s
    PROVE  \A n \in Nat : \E w : Walk(img, s, w, n)
<1>. DEFINE S == {n \in Nat : ~\E w : Walk(img, s, w, n)}
            Step(c) == LET next == img.link[Last(c)]
                       IN  IF next = End THEN c ELSE Append(c, next)
<1>. SUFFICES ASSUME S # {} PROVE FALSE
  OBVIOUS
<1>1. PICK n \in S : \A i \in S : n <= i
  BY LeastNatural
<1>2. CASE n = 0
  <2>. DEFINE w == [k \in 1..0 |-> <<s>>]
  <2>1. Walk(img, s, w, 0)
    BY DEF Walk
  <2>. QED BY <1>2, <2>1
<1>3. CASE n # 0
  <2>1. n - 1 \in Nat /\ n - 1 \notin S
    BY <1>1, <1>3
  <2>2. PICK v : Walk(img, s, v, n - 1)
    BY <2>1
  <2>. DEFINE w == [k \in 1..n |-> IF k = n THEN (IF n = 1 THEN <<s>> ELSE Step(v[n - 1])) ELSE v[k]]
  <2>3. \A k \in 1..(n - 1) : v[k] = IF k = 1 THEN <<s>> ELSE Step(v[k - 1])
    BY <2>2 DEF Walk
  <2>. HIDE DEF Step
  <2>4. ASSUME NEW k \in 1..n PROVE w[k] = IF k = 1 THEN <<s>> ELSE Step(w[k - 1])
    <3>1. CASE k = n
      <4>1. k # 1 => k - 1 \in 1..n /\ k - 1 # n
        BY <1>3, <3>1
      <4>. QED BY <3>1, <4>1
    <3>2. CASE k # n
      <4>1. k \in 1..(n - 1) /\ (k # 1 => k - 1 \in 1..n /\ k - 1 # n)
        BY <3>2
      <4>. QED BY <2>3, <3>2, <4>1
    <3>. QED BY <3>1, <3>2
  <2>5. w = [k \in 1..n |-> w[k]]
    OBVIOUS
  <2>. HIDE DEF w
  <2>6. w = [k \in 1..n |-> IF k = 1 THEN <<s>> ELSE Step(w[k - 1])]
    BY <2>4, <2>5
  <2>7. Walk(img, s, w, n)
    BY <2>6 DEF Walk, Step
  <2>. QED BY <2>7
<1>. QED BY <1>2, <1>3

LEMMA ChainIsWalk ==
    ASSUME NEW img, NEW s
    PROVE  \E w : Walk(img, s, w, DirStart) /\ Chain(img, s) = w[DirStart]
<1>. DEFINE w == CHOOSE v : Walk(img, s, v, DirStart)
<1>1. DirStart \in Nat
  BY DiskAssumption DEF DirStart
<1>2. Walk(img, s, w, DirStart)
  BY <1>1, WalkExists
<1>3. Chain(img, s) = w[DirStart]
  BY DEF Chain, Walk
<1>. QED BY <1>2, <1>3

LEMMA PrefixIs ==
    ASSUME NEW T, NEW c \in Seq(T), NEW n \in 1..Len(c)
    PROVE  /\ SubSeq(c, 1, n) \in Seq(T) /\ Len(SubSeq(c, 1, n)) = n
           /\ \A k \in 1..n : SubSeq(c, 1, n)[k] = c[k]
           /\ Last(SubSeq(c, 1, n)) = c[n]
           /\ n = 1 => SubSeq(c, 1, n) = <<c[1]>>
           /\ n = Len(c) => SubSeq(c, 1, n) = c
           /\ n < Len(c) => SubSeq(c, 1, n + 1) = Append(SubSeq(c, 1, n), c[n + 1])
<1>. DEFINE p == SubSeq(c, 1, n)
<1>1. /\ Len(c) \in Nat /\ n \in Nat /\ n >= 1 /\ n <= Len(c)
      /\ DOMAIN c = 1..Len(c) /\ \A k \in 1..Len(c) : c[k] \in T
  OBVIOUS
<1>2. /\ p \in Seq(T) /\ Len(p) = n /\ \A k \in 1..n : p[k] = c[k]
  BY <1>1
<1>3. Last(p) = c[n]
  BY <1>1, <1>2 DEF Last
<1>4. ASSUME n = 1 PROVE p = <<c[1]>>
  <2>1. <<c[1]>> \in Seq(T) /\ Len(<<c[1]>>) = 1 /\ p[1] = <<c[1]>>[1]
    BY <1>1, <1>2, <1>4
  <2>2. Len(p) = 1 /\ \A k \in 1..1 : p[k] = <<c[1]>>[k]
    BY <1>2, <1>4, <2>1
  <2>. QED BY <1>2, <2>1, <2>2, SeqEqual
<1>5. ASSUME n = Len(c) PROVE p = c
  BY <1>1, <1>2, <1>5
<1>6. ASSUME n < Len(c) PROVE SubSeq(c, 1, n + 1) = Append(p, c[n + 1])
  BY <1>1, <1>2, <1>6
<1>. QED BY <1>2, <1>3, <1>4, <1>5, <1>6

LEMMA ChainIs ==
    ASSUME NEW img, NEW c, Path(img, c)
    PROVE  Chain(img, c[1]) = c
<1>. DEFINE m == Len(c)
            Upto(k) == IF k <= m THEN k ELSE m
<1>1. /\ c \in Seq(AllSectors) /\ m \in Nat /\ m > 0 /\ DOMAIN c = 1..m
      /\ m <= DirStart /\ DirStart \in Nat /\ DirStart > 0
  <2>1. c \in Seq(AllSectors) /\ c # <<>> /\ IsInjective(c)
    BY DEF Path
  <2>2. Len(c) \in 0..DirStart
    BY <2>1, PathLength
  <2>. QED BY <2>1, <2>2, DiskAssumption DEF DirStart
<1>2. PICK w : Walk(img, c[1], w, DirStart) /\ Chain(img, c[1]) = w[DirStart]
  BY ChainIsWalk
<1>3. ASSUME NEW n \in 1..DirStart,
             \A i \in 1..DirStart : i < n => w[i] = SubSeq(c, 1, Upto(i))
      PROVE  w[n] = SubSeq(c, 1, Upto(n))
  <2>. HIDE DEF m
  <2>1. CASE n = 1
    <3>1. w[1] = <<c[1]>>
      BY <1>1, <1>2 DEF Walk
    <3>2. 1 \in 1..m /\ Upto(1) = 1
      BY <1>1
    <3>3. SubSeq(c, 1, 1) = <<c[1]>>
      BY <1>1, <3>2, PrefixIs DEF m
    <3>. QED BY <2>1, <3>1, <3>2, <3>3
  <2>2. CASE n # 1
    <3>. DEFINE u == Upto(n - 1)
    <3>1. n - 1 \in 1..DirStart /\ n - 1 < n /\ n \in Nat
      BY <1>1, <2>2
    <3>2. w[n - 1] = SubSeq(c, 1, u)
      BY <1>3, <3>1
    <3>3. u \in 1..m
      BY <1>1, <3>1
    <3>. HIDE DEF Upto
    <3>4. Last(w[n - 1]) = c[u]
      BY <1>1, <3>2, <3>3, PrefixIs DEF m
    <3>5. w[n] = LET d == w[n - 1]
                     next == img.link[Last(d)]
                 IN  IF next = End THEN d ELSE Append(d, next)
      BY <1>2, <2>2, Zenon DEF Walk
    <3>6. CASE n <= m
      <4>1. u = n - 1 /\ Upto(n) = n
        BY <1>1, <3>1, <3>6 DEF Upto
      <4>2. n - 1 \in 1..(m - 1) /\ n \in 1..m /\ n - 1 < m /\ n - 1 + 1 = n
        BY <1>1, <3>1, <3>6
      <4>3. img.link[c[u]] = c[n] /\ c[n] \in AllSectors
        BY <1>1, <4>1, <4>2 DEF Path, m
      <4>4. c[n] # End
        BY <4>3 DEF AllSectors, End
      <4>5. SubSeq(c, 1, n) = Append(SubSeq(c, 1, n - 1), c[n])
        BY <1>1, <3>3, <4>1, <4>2, PrefixIs DEF m
      <4>. QED BY <3>2, <3>4, <3>5, <4>1, <4>3, <4>4, <4>5
    <3>7. CASE ~(n <= m)
      <4>1. u = m /\ Upto(n) = m
        BY <1>1, <3>1, <3>7 DEF Upto
      <4>2. img.link[c[u]] = End
        BY <4>1 DEF Path, m
      <4>. QED BY <3>2, <3>4, <3>5, <4>1, <4>2
    <3>. QED BY <3>6, <3>7
  <2>. QED BY <2>1, <2>2
<1>4. \A n \in 1..DirStart : w[n] = SubSeq(c, 1, Upto(n))
  <2>. DEFINE S == {n \in 1..DirStart : w[n] # SubSeq(c, 1, Upto(n))}
  <2>. SUFFICES ASSUME S # {} PROVE FALSE
    OBVIOUS
  <2>1. S \in SUBSET Nat
    BY <1>1
  <2>2. PICK n \in S : \A i \in S : n <= i
    <3>. HIDE DEF S
    <3>. QED BY <2>1, LeastNatural
  <2>3. \A i \in 1..DirStart : i < n => w[i] = SubSeq(c, 1, Upto(i))
    <3>. HIDE DEF Upto
    <3>. QED BY <1>1, <2>1, <2>2
  <2>. QED BY <1>3, <2>2, <2>3
<1>5. DirStart \in 1..DirStart /\ Upto(DirStart) = m /\ m \in 1..m
  <2>. HIDE DEF m
  <2>1. DirStart <= m => DirStart = m
    BY <1>1
  <2>. QED BY <1>1, <2>1
<1>6. SubSeq(c, 1, m) = c
  BY <1>1, <1>5, PrefixIs
<1>. QED BY <1>2, <1>4, <1>5, <1>6

-----------------------------------------------------------------------------
\* What the basic operations change.

Everywhere == AllSectors \X Slots
Fillings == Entry \cup {NoEntry}

LEMMA Geometry ==
    /\ N \in Nat /\ N >= 1 /\ DirStart \in Nat /\ DirStart = N + 1 /\ SlotCount \in Nat /\ SlotCount >= 1
    /\ Sectors \subseteq AllSectors /\ DirStart \in AllSectors /\ DirStart \notin Sectors
    /\ AllSectors = Sectors \cup {DirStart}
    /\ End \notin AllSectors /\ 1 \in Slots /\ AllSectors \subseteq Nat /\ Sectors \subseteq Nat
BY DiskAssumption DEF DirStart, Sectors, AllSectors, End, Slots

LEMMA ImageFields ==
    ASSUME NEW img \in Image
    PROVE  /\ img.free \in SUBSET Sectors /\ img.link \in [AllSectors -> {End} \cup AllSectors]
           /\ img.data \in [AllSectors -> Values \cup {Nothing}]
           /\ img.dir \in [AllSectors -> [Slots -> Fillings]]
           /\ \A p \in Everywhere : At(img, p) \in Fillings /\ p[1] \in AllSectors /\ p[2] \in Slots
           /\ \A p \in Everywhere : At(img, p) # NoEntry => At(img, p) \in Entry
           /\ \A p \in Everywhere : At(img, p) # NoEntry => At(img, p).first \in Sectors
                                                           /\ At(img, p).name \in Names
BY DEF Image, Everywhere, Fillings, At, Entry

LEMMA StoreEntryIs ==
    ASSUME NEW img \in Image, NEW p \in Everywhere, NEW e \in Fillings,
           NEW next \in {End} \cup AllSectors
    PROVE  LET r == StoreEntry(img, p, e, next)
           IN  /\ r \in Image /\ r.free = img.free /\ r.data = img.data
               /\ \A s \in AllSectors : r.link[s] = IF s = p[1] /\ p[2] = 1 THEN next ELSE img.link[s]
               /\ \A q \in Everywhere : At(r, q) = IF q = p THEN e ELSE At(img, q)
<1>. DEFINE r == StoreEntry(img, p, e, next)
            newdir == [img.dir EXCEPT ![p[1]] = [@ EXCEPT ![p[2]] = e]]
            newlink == [img.link EXCEPT ![p[1]] = IF p[2] = 1 THEN next ELSE @]
<1>1. /\ img.link \in [AllSectors -> {End} \cup AllSectors]
      /\ img.dir \in [AllSectors -> [Slots -> Fillings]]
      /\ p[1] \in AllSectors /\ p[2] \in Slots /\ p = <<p[1], p[2]>>
  BY ImageFields DEF Everywhere
<1>2. newdir \in [AllSectors -> [Slots -> Fillings]] /\ newlink \in [AllSectors -> {End} \cup AllSectors]
  BY <1>1
<1>3. r = [img EXCEPT !.dir = newdir, !.link = newlink]
  BY DEF StoreEntry, Image
<1>. HIDE DEF r
<1>4. r \in Image /\ r.free = img.free /\ r.data = img.data /\ r.dir = newdir /\ r.link = newlink
  <2>. HIDE DEF newdir, newlink
  <2>. QED BY <1>2, <1>3 DEF Image, Fillings
<1>5. \A s \in AllSectors : r.link[s] = IF s = p[1] /\ p[2] = 1 THEN next ELSE img.link[s]
  BY <1>1, <1>4
<1>6. ASSUME NEW q \in Everywhere PROVE At(r, q) = IF q = p THEN e ELSE At(img, q)
  <2>1. q[1] \in AllSectors /\ q[2] \in Slots /\ q = <<q[1], q[2]>>
    BY DEF Everywhere
  <2>2. r.dir[q[1]][q[2]] = IF q[1] = p[1] /\ q[2] = p[2] THEN e ELSE img.dir[q[1]][q[2]]
    BY <1>1, <1>4, <2>1
  <2>3. q = p <=> q[1] = p[1] /\ q[2] = p[2]
    BY <1>1, <2>1
  <2>. QED BY <2>2, <2>3 DEF At
<1>. QED BY <1>4, <1>5, <1>6 DEF r

LEMMA FreeChainIs ==
    ASSUME NEW img \in Image, NEW secs \in Seq(AllSectors), ToSet(secs) \subseteq Sectors
    PROVE  LET r == FreeChain(img, secs)
           IN  /\ r \in Image /\ r.free = img.free \cup ToSet(secs) /\ r.dir = img.dir
               /\ \A s \in AllSectors \ ToSet(secs) : r.link[s] = img.link[s] /\ r.data[s] = img.data[s]
<1>. DEFINE newlink == [s \in AllSectors |-> IF s \in ToSet(secs) THEN End ELSE img.link[s]]
            newdata == [s \in AllSectors |-> IF s \in ToSet(secs) THEN Nothing ELSE img.data[s]]
            newfree == img.free \cup ToSet(secs)
            r == FreeChain(img, secs)
<1>1. /\ newlink \in [AllSectors -> {End} \cup AllSectors]
      /\ newdata \in [AllSectors -> Values \cup {Nothing}] /\ newfree \in SUBSET Sectors
  BY ImageFields
<1>2. r = [img EXCEPT !.free = newfree, !.link = newlink, !.data = newdata]
  BY DEF FreeChain, Image
<1>. HIDE DEF r
<1>3. r \in Image /\ r.free = newfree /\ r.link = newlink /\ r.data = newdata /\ r.dir = img.dir
  <2>. HIDE DEF newlink, newdata, newfree
  <2>. QED BY <1>1, <1>2 DEF Image
<1>4. \A s \in AllSectors \ ToSet(secs) : r.link[s] = img.link[s] /\ r.data[s] = img.data[s]
  BY <1>3
<1>. QED BY <1>3, <1>4 DEF r

\* Allocating sectors that are free and writing a file into them.
LEMMA WriteChainIs ==
    ASSUME NEW img \in Image, NEW secs \in Seq(AllSectors), secs # <<>>, IsInjective(secs),
           ToSet(secs) \subseteq Sectors, NEW content \in Seq(Values), Len(content) <= Len(secs)
    PROVE  LET r == WriteChain(Allocate(img, secs), secs, content)
           IN  /\ r \in Image /\ r.free = img.free \ ToSet(secs) /\ r.dir = img.dir
               /\ \A s \in AllSectors \ ToSet(secs) : r.link[s] = img.link[s] /\ r.data[s] = img.data[s]
               /\ Path(r, secs)
               /\ \A k \in 1..Len(secs) :
                     r.data[secs[k]] = IF k > Len(content) THEN Nothing ELSE content[k]
<1>. DEFINE Pos(s) == CHOOSE k \in DOMAIN secs : secs[k] = s
            a == Allocate(img, secs)
            newlink == [s \in AllSectors |-> IF s \notin ToSet(secs) THEN img.link[s]
                            ELSE IF Pos(s) = Len(secs) THEN End ELSE secs[Pos(s) + 1]]
            newdata == [s \in AllSectors |-> IF s \notin ToSet(secs) THEN img.data[s]
                            ELSE IF Pos(s) > Len(content) THEN Nothing ELSE content[Pos(s)]]
            newfree == img.free \ ToSet(secs)
            r == WriteChain(a, secs, content)
<1>0. /\ Len(secs) \in Nat /\ Len(secs) > 0 /\ DOMAIN secs = 1..Len(secs)
      /\ \A k \in 1..Len(secs) : secs[k] \in AllSectors /\ secs[k] \in ToSet(secs)
      /\ Len(content) \in Nat /\ \A k \in 1..Len(content) : content[k] \in Values
  BY DEF ToSet
<1>1. \A k \in 1..Len(secs) : Pos(secs[k]) = k
  BY <1>0 DEF IsInjective
<1>2. \A s \in ToSet(secs) : Pos(s) \in 1..Len(secs) /\ secs[Pos(s)] = s
  BY <1>0 DEF ToSet
<1>. HIDE DEF Pos
<1>3. ASSUME NEW s \in AllSectors PROVE newlink[s] \in {End} \cup AllSectors
  <2>1. CASE s \notin ToSet(secs)
    BY <2>1, ImageFields
  <2>2. CASE s \in ToSet(secs)
    <3>1. Pos(s) # Len(secs) => Pos(s) + 1 \in 1..Len(secs)
      BY <1>0, <1>2, <2>2
    <3>. QED BY <1>0, <2>2, <3>1
  <2>. QED BY <2>1, <2>2
<1>4. ASSUME NEW s \in AllSectors PROVE newdata[s] \in Values \cup {Nothing}
  <2>1. CASE s \notin ToSet(secs)
    BY <2>1, ImageFields
  <2>2. CASE s \in ToSet(secs)
    <3>1. ~(Pos(s) > Len(content)) => Pos(s) \in 1..Len(content)
      BY <1>0, <1>2, <2>2
    <3>. QED BY <1>0, <2>2, <3>1
  <2>. QED BY <2>1, <2>2
<1>5. /\ newlink \in [AllSectors -> {End} \cup AllSectors]
      /\ newdata \in [AllSectors -> Values \cup {Nothing}] /\ newfree \in SUBSET Sectors
  BY <1>3, <1>4, ImageFields
<1>6. /\ a.free = newfree /\ a.link = img.link /\ a.data = img.data /\ a.dir = img.dir
      /\ a = [free |-> newfree, link |-> img.link, data |-> img.data, dir |-> img.dir]
  <2>. HIDE DEF newlink, newdata
  <2>1. img = [free |-> img.free, link |-> img.link, data |-> img.data, dir |-> img.dir]
    BY DEF Image
  <2>2. a = [img EXCEPT !.free = newfree]
    BY <2>1 DEF Allocate
  <2>. QED BY <2>1, <2>2
<1>. HIDE DEF a
<1>7. r = [a EXCEPT !.link = [s \in AllSectors |-> IF s \notin ToSet(secs) THEN a.link[s]
                                 ELSE IF Pos(s) = Len(secs) THEN End ELSE secs[Pos(s) + 1]],
                    !.data = [s \in AllSectors |-> IF s \notin ToSet(secs) THEN a.data[s]
                                 ELSE IF Pos(s) > Len(content) THEN Nothing ELSE content[Pos(s)]]]
  BY <1>6 DEF WriteChain, Pos
<1>8. r = [a EXCEPT !.link = newlink, !.data = newdata]
  BY <1>6, <1>7
<1>. HIDE DEF r
<1>9. r \in Image /\ r.free = newfree /\ r.link = newlink /\ r.data = newdata /\ r.dir = img.dir
  <2>1. img.dir \in [AllSectors -> [Slots -> Entry \cup {NoEntry}]]
    BY ImageFields DEF Fillings
  <2>. HIDE DEF newlink, newdata, newfree
  <2>. QED BY <1>5, <1>6, <1>8, <2>1 DEF Image
<1>10. \A s \in AllSectors \ ToSet(secs) : r.link[s] = img.link[s] /\ r.data[s] = img.data[s]
  BY <1>9
<1>11. ASSUME NEW k \in 1..Len(secs)
       PROVE  /\ r.link[secs[k]] = IF k = Len(secs) THEN End ELSE secs[k + 1]
              /\ r.data[secs[k]] = IF k > Len(content) THEN Nothing ELSE content[k]
  <2>1. secs[k] \in AllSectors /\ secs[k] \in ToSet(secs) /\ Pos(secs[k]) = k
    BY <1>0, <1>1
  <2>2. newlink[secs[k]] = IF k = Len(secs) THEN End ELSE secs[k + 1]
    BY <2>1
  <2>3. newdata[secs[k]] = IF k > Len(content) THEN Nothing ELSE content[k]
    BY <2>1
  <2>. QED BY <1>9, <2>2, <2>3
<1>12. Path(r, secs)
  <2>. HIDE DEF newlink, newdata, newfree
  <2>0. Len(secs) \in Nat /\ Len(secs) > 0
    BY <1>0
  <2>1. \A k \in 1..(Len(secs) - 1) : k \in 1..Len(secs) /\ k # Len(secs)
    BY <2>0
  <2>2. Len(secs) \in 1..Len(secs)
    BY <2>0
  <2>. QED BY <1>11, <2>1, <2>2 DEF Path
<1>. QED BY <1>9, <1>10, <1>11, <1>12 DEF r, a

-----------------------------------------------------------------------------
\* How an image is laid out: its directory's chain d and, per occupied slot, the chain of
\* the file there.

Occupied(img, d) == {p \in ToSet(d) \X Slots : At(img, p) # NoEntry}

\* Only the last sector of a file may be without data.
Filled(img, c) == \A k \in 1..(Len(c) - 1) : img.data[c[k]] \in Values

Laid(img, d, F) ==
    /\ Path(img, d) /\ d[1] = DirStart
    /\ DOMAIN F = Occupied(img, d)
    /\ \A p \in DOMAIN F : Path(img, F[p]) /\ Filled(img, F[p]) /\ F[p][1] = At(img, p).first
    /\ \A p \in DOMAIN F : ToSet(F[p]) \cap ToSet(d) = {} /\ ToSet(F[p]) \cap img.free = {}
    /\ \A p, q \in DOMAIN F : p # q => ToSet(F[p]) \cap ToSet(F[q]) = {}
    /\ ToSet(d) \cap img.free = {}

Sound(img) == img \in Image /\ \E d, F : Laid(img, d, F)

LEMMA PathFacts ==
    ASSUME NEW img, NEW c, Path(img, c)
    PROVE  /\ c \in Seq(AllSectors) /\ Len(c) \in Nat /\ Len(c) > 0 /\ DOMAIN c = 1..Len(c)
           /\ \A k \in 1..Len(c) : c[k] \in AllSectors /\ c[k] \in ToSet(c)
           /\ ToSet(c) \subseteq AllSectors
           /\ 1 \in 1..Len(c) /\ Len(c) \in 1..Len(c)
           /\ \A i, j \in 1..Len(c) : c[i] = c[j] => i = j
<1>1. c \in Seq(AllSectors) /\ c # <<>> /\ IsInjective(c)
  BY DEF Path
<1>2. Len(c) \in Nat /\ Len(c) > 0 /\ DOMAIN c = 1..Len(c) /\ \A k \in 1..Len(c) : c[k] \in AllSectors
  BY <1>1
<1>. QED BY <1>1, <1>2 DEF ToSet, IsInjective

LEMMA PathKept ==
    ASSUME NEW img, NEW c, Path(img, c), NEW r, \A s \in ToSet(c) : r.link[s] = img.link[s]
    PROVE  Path(r, c)
<1>1. /\ Len(c) \in Nat /\ Len(c) > 0
      /\ \A k \in 1..Len(c) : c[k] \in ToSet(c)
  BY PathFacts
<1>2. Len(c) \in 1..Len(c) /\ \A k \in 1..(Len(c) - 1) : k \in 1..Len(c)
  BY <1>1
<1>. QED BY <1>1, <1>2 DEF Path

LEMMA FilledKept ==
    ASSUME NEW img, NEW c, Path(img, c), Filled(img, c),
           NEW r, \A s \in ToSet(c) : r.data[s] = img.data[s]
    PROVE  Filled(r, c)
<1>1. /\ Len(c) \in Nat /\ Len(c) > 0
      /\ \A k \in 1..Len(c) : c[k] \in ToSet(c)
  BY PathFacts
<1>2. \A k \in 1..(Len(c) - 1) : k \in 1..Len(c)
  BY <1>1
<1>. QED BY <1>1, <1>2 DEF Filled

\* What is read from an image laid out so.
LEMMA LaidReads ==
    ASSUME NEW img \in Image, NEW d, NEW F, Laid(img, d, F)
    PROVE  /\ Directory(img) = d /\ ToSet(d) \subseteq AllSectors
           /\ DirectorySlots(img) = ToSet(d) \X Slots /\ DirectorySlots(img) \subseteq Everywhere
           /\ Listed(img) = DOMAIN F /\ DOMAIN F \subseteq Everywhere
           /\ \A p \in DOMAIN F : /\ FileChain(img, p) = F[p] /\ At(img, p) \in Entry
                                  /\ ToSet(F[p]) \subseteq Sectors
<1>1. Path(img, d) /\ d[1] = DirStart /\ DOMAIN F = Occupied(img, d)
  BY DEF Laid
<1>2. Directory(img) = d
  BY <1>1, ChainIs DEF Directory
<1>3. ToSet(d) \subseteq AllSectors /\ DirStart \in ToSet(d)
  BY <1>1, PathFacts
<1>4. DirectorySlots(img) = ToSet(d) \X Slots /\ DirectorySlots(img) \subseteq Everywhere
  BY <1>2, <1>3 DEF DirectorySlots, Everywhere
<1>5. Listed(img) = DOMAIN F /\ DOMAIN F \subseteq Everywhere
  BY <1>1, <1>4 DEF Listed, Occupied
<1>6. ASSUME NEW p \in DOMAIN F
      PROVE  FileChain(img, p) = F[p] /\ At(img, p) \in Entry /\ ToSet(F[p]) \subseteq Sectors
  <2>1. Path(img, F[p]) /\ F[p][1] = At(img, p).first /\ ToSet(F[p]) \cap ToSet(d) = {}
    BY DEF Laid
  <2>2. At(img, p) # NoEntry
    BY <1>1 DEF Occupied
  <2>3. FileChain(img, p) = F[p]
    BY <2>1, ChainIs DEF FileChain
  <2>4. At(img, p) \in Entry
    BY <1>5, <2>2, ImageFields
  <2>5. ToSet(F[p]) \subseteq Sectors
    BY <1>3, <2>1, PathFacts, Geometry
  <2>. QED BY <2>3, <2>4, <2>5
<1>. QED BY <1>2, <1>3, <1>4, <1>5, <1>6

\* The first of some slots is one of them.
LEMMA FirstOfIs ==
    ASSUME NEW img \in Image, NEW d, NEW F, Laid(img, d, F),
           NEW slots, slots \subseteq DirectorySlots(img)
    PROVE  /\ slots = {} => FirstOf(img, slots) = <<>>
           /\ slots # {} => FirstOf(img, slots) \in slots /\ FirstOf(img, slots) # <<>>
<1>. DEFINE dir == Directory(img)
            Rank(p) == SlotCount * (CHOOSE k \in DOMAIN dir : dir[k] = p[1]) + p[2]
<1>1. slots = {} => FirstOf(img, slots) = <<>>
  BY DEF FirstOf
<1>2. ASSUME slots # {} PROVE FirstOf(img, slots) \in slots /\ FirstOf(img, slots) # <<>>
  <2>1. dir = d /\ slots \subseteq ToSet(d) \X Slots /\ d \in Seq(AllSectors) /\ DOMAIN d = 1..Len(d)
    BY LaidReads, PathFacts DEF Laid
  <2>2. ASSUME NEW p \in slots PROVE Rank(p) \in Nat
    <3>1. p[1] \in ToSet(d) /\ p[2] \in Slots
      BY <2>1
    <3>2. (CHOOSE k \in DOMAIN d : d[k] = p[1]) \in DOMAIN d
      BY <3>1 DEF ToSet
    <3>3. (CHOOSE k \in DOMAIN d : d[k] = p[1]) \in Nat /\ p[2] \in Nat /\ SlotCount \in Nat
      BY <2>1, <3>1, <3>2, Geometry DEF Slots
    <3>. QED BY <2>1, <3>3
  <2>. DEFINE R == {Rank(p) : p \in slots}
  <2>. HIDE DEF Rank, dir
  <2>3. PICK m \in R : \A i \in R : m <= i
    <3>1. R \in SUBSET Nat /\ R # {}
      BY <1>2, <2>2
    <3>. HIDE DEF R
    <3>. QED BY <3>1, LeastNatural
  <2>4. PICK p \in slots : Rank(p) = m
    BY <2>3
  <2>5. \A q \in slots : Rank(p) <= Rank(q)
    BY <2>3, <2>4
  <2>6. FirstOf(img, slots) = CHOOSE o \in slots : \A q \in slots : Rank(o) <= Rank(q)
    BY <1>2 DEF FirstOf, Rank, dir
  <2>7. FirstOf(img, slots) \in slots
    BY <2>5, <2>6
  <2>8. ASSUME NEW q \in slots PROVE q # <<>>
    <3>1. q = <<q[1], q[2]>>
      BY <2>1
    <3>2. \A x, y : <<x, y>> # <<>>
      OBVIOUS
    <3>. QED BY <3>1, <3>2, Zenon
  <2>. QED BY <2>7, <2>8
<1>. QED BY <1>1, <1>2

-----------------------------------------------------------------------------
\* The free sectors in order.

LEMMA Ranked ==
    ASSUME NEW S \in SUBSET Nat, IsFiniteSet(S), NEW j \in Nat, j < Cardinality(S)
    PROVE  \E s \in S : Cardinality({t \in S : t < s}) = j
<1>. DEFINE Below(s) == {t \in S : t < s}
            Bad == {i \in Nat : i < Cardinality(S) /\ ~\E s \in S : Cardinality(Below(s)) = i}
<1>. SUFFICES ASSUME ~\E s \in S : Cardinality(Below(s)) = j PROVE FALSE
  OBVIOUS
<1>6. Bad # {}
  OBVIOUS
<1>0. Cardinality(S) \in Nat
  BY FS_CardinalityType
<1>1. PICK i \in Bad : \A h \in Bad : i <= h
  <2>. HIDE DEF Bad
  <2>1. Bad \in SUBSET Nat
    BY DEF Bad
  <2>. QED BY <1>6, <2>1, LeastNatural
<1>2. i \in Nat /\ i < Cardinality(S) /\ \A s \in S : Cardinality(Below(s)) # i
  OBVIOUS
<1>3. \A s \in S : IsFiniteSet(Below(s)) /\ Below(s) \subseteq S
  BY FS_Subset
<1>4. CASE i = 0
  <2>1. S # {}
    BY <1>2, <1>4, FS_EmptySet
  <2>2. PICK m \in S : \A t \in S : m <= t
    BY <2>1, LeastNatural
  <2>3. \A t \in S : t \in Nat /\ m \in Nat /\ ~(t < m)
    BY <2>2
  <2>4. Below(m) = {}
    BY <2>3
  <2>. QED BY <1>2, <1>4, <2>4, FS_EmptySet
<1>5. CASE i # 0
  <2>1. i - 1 \in Nat /\ i - 1 < Cardinality(S) /\ i - 1 \notin Bad
    BY <1>0, <1>1, <1>2, <1>5
  <2>2. PICK s \in S : Cardinality(Below(s)) = i - 1
    BY <2>1
  <2>. DEFINE upto == Below(s) \cup {s}
              above == S \ upto
  <2>3. IsFiniteSet(upto) /\ Cardinality(upto) = i
    <3>1. s \notin Below(s)
      BY DEF Below
    <3>. HIDE DEF Below
    <3>2. IsFiniteSet(upto) /\ Cardinality(upto) = Cardinality(Below(s)) + 1
      BY <1>3, <3>1, FS_AddElement
    <3>. QED BY <1>2, <2>2, <3>2
  <2>4. above # {}
    <3>. SUFFICES ASSUME S \subseteq upto PROVE FALSE
      OBVIOUS
    <3>1. upto = S
      OBVIOUS
    <3>. QED BY <1>2, <2>3, <3>1
  <2>5. above \in SUBSET Nat
    OBVIOUS
  <2>6. PICK m \in above : \A t \in above : m <= t
    <3>. HIDE DEF above
    <3>. QED BY <2>4, <2>5, LeastNatural
  <2>7. m \in S /\ m \in Nat /\ s \in Nat /\ s < m
    BY <2>6
  <2>8. ASSUME NEW t \in S PROVE t < m <=> t \in upto
    <3>1. t \in Nat /\ (t \in upto <=> t < s \/ t = s)
      OBVIOUS
    <3>2. t \notin upto => m <= t
      BY <2>6
    <3>. QED BY <2>7, <3>1, <3>2
  <2>9. upto \subseteq S /\ Below(m) \subseteq S
    OBVIOUS
  <2>10. Below(m) = upto
    <3>. HIDE DEF upto
    <3>. QED BY <2>8, <2>9
  <2>. QED BY <1>2, <2>3, <2>7, <2>10
<1>. QED BY <1>4, <1>5

LEMMA FreeFinite ==
    ASSUME NEW img \in Image
    PROVE  img.free \subseteq Sectors /\ IsFiniteSet(img.free) /\ Cardinality(img.free) \in Nat
<1>1. img.free \subseteq Sectors
  BY ImageFields
<1>2. IsFiniteSet(Sectors)
  BY Geometry, FS_Interval DEF Sectors
<1>. QED BY <1>1, <1>2, FS_Subset, FS_CardinalityType

\* NextFree hands out that many different free sectors.
LEMMA NextFreeIs ==
    ASSUME NEW img \in Image, NEW k \in 0..Cardinality(img.free)
    PROVE  /\ NextFree(img, k) \in Seq(AllSectors) /\ Len(NextFree(img, k)) = k
           /\ IsInjective(NextFree(img, k))
           /\ ToSet(NextFree(img, k)) \subseteq img.free
<1>. DEFINE Rank(s) == Cardinality({t \in img.free : t < s})
            nth == [j \in 1..k |-> CHOOSE s \in img.free : Rank(s) = j - 1]
<1>1. img.free \in SUBSET Nat /\ img.free \subseteq AllSectors /\ IsFiniteSet(img.free)
  BY FreeFinite, Geometry
<1>2. Cardinality(img.free) \in Nat /\ k \in Nat
  BY <1>1, FS_CardinalityType
<1>3. ASSUME NEW j \in 1..k PROVE nth[j] \in img.free /\ Rank(nth[j]) = j - 1
  <2>1. j - 1 \in Nat /\ j - 1 < Cardinality(img.free)
    BY <1>2
  <2>2. \E s \in img.free : Rank(s) = j - 1
    BY <1>1, <2>1, Ranked
  <2>. QED BY <2>2
<1>4. NextFree(img, k) = nth
  BY DEF NextFree
<1>. HIDE DEF Rank
<1>5. nth \in Seq(AllSectors) /\ Len(nth) = k /\ DOMAIN nth = 1..k
  BY <1>1, <1>2, <1>3
<1>6. IsInjective(nth)
  <2>. SUFFICES ASSUME NEW i \in 1..k, NEW j \in 1..k, nth[i] = nth[j] PROVE i = j
    BY <1>5 DEF IsInjective
  <2>1. i - 1 = j - 1
    BY <1>3
  <2>. QED BY <1>2, <2>1
<1>7. ToSet(nth) \subseteq img.free
  BY <1>3, <1>5 DEF ToSet
<1>. QED BY <1>4, <1>5, <1>6, <1>7

-----------------------------------------------------------------------------
\* How the layout changes.

\* From img to r the directory is cut after its n-th sector, or kept whole, and the files of
\* the slots that stay occupied are left alone.
CutAfter(img, d, F, r, n, e) ==
    /\ Laid(img, d, F)
    /\ n \in 1..Len(d) /\ e = SubSeq(d, 1, n)
    /\ \A k \in 1..(n - 1) : r.link[d[k]] = img.link[d[k]]
    /\ r.link[d[n]] = End
    /\ \A k \in 1..n : d[k] \notin r.free
    /\ Occupied(r, e) \subseteq DOMAIN F
    /\ \A p \in Occupied(r, e) :
          /\ At(r, p).first = At(img, p).first
          /\ \A s \in ToSet(F[p]) :
                r.link[s] = img.link[s] /\ r.data[s] = img.data[s] /\ s \notin r.free

LEMMA Relaid ==
    ASSUME NEW img, NEW d, NEW F, NEW r, NEW n, NEW e, CutAfter(img, d, F, r, n, e)
    PROVE  /\ Laid(r, e, Restrict(F, Occupied(r, e)))
           /\ Len(e) = n /\ \A k \in 1..n : e[k] = d[k]
           /\ ToSet(e) = {d[k] : k \in 1..n} /\ ToSet(e) \subseteq ToSet(d)
<1>. DEFINE G == [p \in Occupied(r, e) |-> F[p]]
<1>. USE DEF CutAfter
<1>1. /\ Path(img, d) /\ d[1] = DirStart
      /\ d \in Seq(AllSectors) /\ Len(d) \in Nat /\ Len(d) > 0 /\ DOMAIN d = 1..Len(d)
      /\ \A k \in 1..Len(d) : d[k] \in AllSectors /\ d[k] \in ToSet(d)
      /\ \A i, j \in 1..Len(d) : d[i] = d[j] => i = j
  BY PathFacts DEF Laid
<1>2. e \in Seq(AllSectors) /\ Len(e) = n /\ (\A k \in 1..n : e[k] = d[k]) /\ DOMAIN e = 1..n
  <2>1. e \in Seq(AllSectors) /\ Len(e) = n /\ \A k \in 1..n : e[k] = d[k]
    BY <1>1, PrefixIs
  <2>. QED BY <2>1
<1>3. n \in Nat /\ n >= 1 /\ \A k \in 1..n : k \in 1..Len(d)
  BY <1>1
<1>4. ToSet(e) = {d[k] : k \in 1..n} /\ ToSet(e) \subseteq ToSet(d)
  <2>1. ToSet(e) = {e[k] : k \in 1..n}
    BY <1>2 DEF ToSet
  <2>. QED BY <1>1, <1>2, <1>3, <2>1
<1>5. Path(r, e)
  <2>1. IsInjective(e)
    BY <1>1, <1>2, <1>3 DEF IsInjective
  <2>2. ASSUME NEW k \in 1..(n - 1) PROVE r.link[e[k]] = e[k + 1]
    <3>1. k \in 1..n /\ k + 1 \in 1..n /\ k \in 1..(Len(d) - 1)
      BY <1>1, <1>3
    <3>2. img.link[d[k]] = d[k + 1]
      BY <1>1, <3>1 DEF Path
    <3>. QED BY <1>2, <3>1, <3>2
  <2>3. r.link[e[Len(e)]] = End /\ e # <<>>
    <3>1. n \in 1..n
      BY <1>3
    <3>. QED BY <1>2, <1>3, <3>1
  <2>. QED BY <1>2, <2>1, <2>2, <2>3 DEF Path
<1>6. e[1] = DirStart
  BY <1>1, <1>2, <1>3
<1>7. \A p \in DOMAIN G :
         /\ p \in DOMAIN F /\ G[p] = F[p]
         /\ Path(r, G[p]) /\ Filled(r, G[p]) /\ G[p][1] = At(r, p).first
         /\ ToSet(G[p]) \cap ToSet(e) = {} /\ ToSet(G[p]) \cap r.free = {}
  <2>. SUFFICES ASSUME NEW p \in Occupied(r, e)
                PROVE  /\ p \in DOMAIN F
                       /\ Path(r, F[p]) /\ Filled(r, F[p]) /\ F[p][1] = At(r, p).first
                       /\ ToSet(F[p]) \cap ToSet(e) = {} /\ ToSet(F[p]) \cap r.free = {}
    OBVIOUS
  <2>1. p \in DOMAIN F
    OBVIOUS
  <2>2. /\ Path(img, F[p]) /\ Filled(img, F[p]) /\ F[p][1] = At(img, p).first
        /\ ToSet(F[p]) \cap ToSet(d) = {}
    BY <2>1 DEF Laid
  <2>3. Path(r, F[p])
    BY <2>2, PathKept
  <2>4. Filled(r, F[p])
    BY <2>2, FilledKept
  <2>. QED BY <1>4, <2>1, <2>2, <2>3, <2>4
<1>8. ToSet(e) \cap r.free = {}
  BY <1>4
<1>9. \A p, q \in DOMAIN G : p # q => ToSet(G[p]) \cap ToSet(G[q]) = {}
  BY <1>7 DEF Laid
<1>10. DOMAIN G = Occupied(r, e)
  OBVIOUS
<1>11. Laid(r, e, G)
  <2>. HIDE DEF G
  <2>. QED BY <1>5, <1>6, <1>7, <1>8, <1>9, <1>10 DEF Laid
<1>. QED BY <1>2, <1>4, <1>11 DEF Restrict

\* The same with the whole directory.
Leaves(img, d, F, r) ==
    /\ Laid(img, d, F)
    /\ \A s \in ToSet(d) : r.link[s] = img.link[s] /\ s \notin r.free
    /\ Occupied(r, d) \subseteq DOMAIN F
    /\ \A p \in Occupied(r, d) :
          /\ At(r, p).first = At(img, p).first
          /\ \A s \in ToSet(F[p]) :
                r.link[s] = img.link[s] /\ r.data[s] = img.data[s] /\ s \notin r.free

LEMMA RelaidWhole ==
    ASSUME NEW img, NEW d, NEW F, NEW r, Leaves(img, d, F, r)
    PROVE  Laid(r, d, Restrict(F, Occupied(r, d)))
<1>. USE DEF Leaves
<1>1. /\ Path(img, d) /\ d \in Seq(AllSectors) /\ Len(d) \in Nat /\ Len(d) > 0
      /\ Len(d) \in 1..Len(d) /\ \A k \in 1..Len(d) : d[k] \in ToSet(d)
  BY PathFacts DEF Laid
<1>2. d = SubSeq(d, 1, Len(d))
  BY <1>1, PrefixIs
<1>3. ASSUME NEW n \in 1..Len(d), n = Len(d), NEW e, e = SubSeq(d, 1, n), e = d
      PROVE  Laid(r, e, Restrict(F, Occupied(r, e)))
  <2>1. \A k \in 1..(n - 1) : r.link[d[k]] = img.link[d[k]]
    <3>1. \A k \in 1..(n - 1) : k \in 1..Len(d)
      BY <1>1, <1>3
    <3>. QED BY <1>1, <3>1
  <2>2. r.link[d[n]] = End
    BY <1>1, <1>3 DEF Path
  <2>3. \A k \in 1..n : d[k] \notin r.free
    BY <1>1, <1>3
  <2>4. /\ Occupied(r, e) \subseteq DOMAIN F
        /\ \A p \in Occupied(r, e) :
              /\ At(r, p).first = At(img, p).first
              /\ \A s \in ToSet(F[p]) :
                    r.link[s] = img.link[s] /\ r.data[s] = img.data[s] /\ s \notin r.free
    BY <1>3
  <2>5. CutAfter(img, d, F, r, n, e)
    BY <1>3, <2>1, <2>2, <2>3, <2>4 DEF CutAfter
  <2>. QED BY <2>5, Relaid
<1>. QED BY <1>1, <1>2, <1>3, Zenon

LEMMA LaidKept ==
    ASSUME NEW img, NEW d, NEW F, Laid(img, d, F), NEW r,
           \A s \in ToSet(d) : r.link[s] = img.link[s] /\ s \notin r.free,
           \A p \in ToSet(d) \X Slots :
              /\ At(r, p) # NoEntry <=> At(img, p) # NoEntry
              /\ At(img, p) # NoEntry => At(r, p).first = At(img, p).first,
           \A p \in DOMAIN F : \A s \in ToSet(F[p]) :
                r.link[s] = img.link[s] /\ r.data[s] = img.data[s] /\ s \notin r.free
    PROVE  Laid(r, d, F)
<1>. DEFINE G == Restrict(F, Occupied(r, d))
<1>1. DOMAIN F = Occupied(img, d)
  BY DEF Laid
<1>2. Occupied(r, d) = DOMAIN F
  BY <1>1 DEF Occupied
<1>3. Leaves(img, d, F, r)
  BY <1>1, <1>2 DEF Leaves, Occupied
<1>4. Laid(r, d, G)
  BY <1>3, RelaidWhole
<1>5. DOMAIN G = DOMAIN F /\ \A p \in DOMAIN F : G[p] = F[p]
  BY <1>2 DEF Restrict
<1>. HIDE DEF G
<1>. QED BY <1>4, <1>5 DEF Laid

With(F, p, secs) == [q \in DOMAIN F \cup {p} |-> IF q = p THEN secs ELSE F[q]]

\* secs is the chain of a file of its own.
Apart(img, d, F, secs) ==
    /\ Path(img, secs) /\ Filled(img, secs)
    /\ ToSet(secs) \cap ToSet(d) = {} /\ ToSet(secs) \cap img.free = {}
    /\ \A q \in DOMAIN F : ToSet(secs) \cap ToSet(F[q]) = {}

\* From img to r the slot p of the directory d receives the entry e.
Receives(img, d, r, p, e) ==
    /\ p \in ToSet(d) \X Slots /\ e # NoEntry
    /\ r.free = img.free /\ r.data = img.data
    /\ \A s \in AllSectors : r.link[s] = img.link[s]
    /\ \A q \in ToSet(d) \X Slots : At(r, q) = IF q = p THEN e ELSE At(img, q)

LEMMA Entered ==
    ASSUME NEW img, NEW d, NEW F, Laid(img, d, F),
           NEW r, NEW p, NEW e, Receives(img, d, r, p, e), p \notin DOMAIN F,
           NEW secs, Apart(img, d, F, secs), secs[1] = e.first
    PROVE  Laid(r, d, With(F, p, secs))
<1>. DEFINE G == [q \in DOMAIN F \cup {p} |-> IF q = p THEN secs ELSE F[q]]
<1>. USE DEF Apart, Receives
<1>1. Path(img, d) /\ d[1] = DirStart /\ ToSet(d) \subseteq AllSectors
  BY PathFacts DEF Laid
<1>2. Path(r, d)
  BY <1>1, PathKept
<1>3. DOMAIN G = Occupied(r, d)
  <2>1. DOMAIN F = Occupied(img, d)
    BY DEF Laid
  <2>. QED BY <2>1 DEF Occupied
<1>4. ASSUME NEW q \in DOMAIN G
      PROVE  /\ Path(r, G[q]) /\ Filled(r, G[q]) /\ G[q][1] = At(r, q).first
             /\ ToSet(G[q]) \cap ToSet(d) = {} /\ ToSet(G[q]) \cap r.free = {}
  <2>0. q \in ToSet(d) \X Slots
    BY DEF Laid, Occupied
  <2>1. CASE q = p
    <3>1. ToSet(secs) \subseteq AllSectors
      BY PathFacts
    <3>2. Path(r, secs) /\ Filled(r, secs)
      BY <3>1, PathKept, FilledKept
    <3>. QED BY <2>0, <2>1, <3>2
  <2>2. CASE q # p
    <3>1. q \in DOMAIN F /\ G[q] = F[q] /\ At(r, q) = At(img, q)
      BY <2>0, <2>2
    <3>2. /\ Path(img, F[q]) /\ Filled(img, F[q]) /\ F[q][1] = At(img, q).first
          /\ ToSet(F[q]) \cap ToSet(d) = {} /\ ToSet(F[q]) \cap img.free = {}
      BY <3>1 DEF Laid
    <3>3. ToSet(F[q]) \subseteq AllSectors
      BY <3>2, PathFacts
    <3>4. Path(r, F[q]) /\ Filled(r, F[q])
      BY <3>2, <3>3, PathKept, FilledKept
    <3>. QED BY <3>1, <3>2, <3>4
  <2>. QED BY <2>1, <2>2
<1>5. \A q, t \in DOMAIN G : q # t => ToSet(G[q]) \cap ToSet(G[t]) = {}
  BY DEF Laid
<1>6. ToSet(d) \cap r.free = {}
  BY DEF Laid
<1>. HIDE DEF G
<1>7. Laid(r, d, G)
  BY <1>1, <1>2, <1>3, <1>4, <1>5, <1>6 DEF Laid
<1>. QED BY <1>7 DEF G, With

\* The directory grows by a free sector.
LEMMA ExtendIs ==
    ASSUME NEW img \in Image, NEW d, NEW F, Laid(img, d, F), NEW s \in img.free
    PROVE  LET r == Extend(img, s)
               e == Append(d, s)
           IN  /\ r \in Image /\ r.free = img.free \ {s} /\ Laid(r, e, F)
               /\ s \in Sectors /\ s \notin ToSet(d) /\ ToSet(e) = ToSet(d) \cup {s}
               /\ \A t \in AllSectors \ {s} : r.data[t] = img.data[t]
               /\ \A t \in AllSectors \ {s} :
                     r.link[t] = IF t = d[Len(d)] THEN s ELSE img.link[t]
               /\ r.link[s] = End
               /\ \A p \in Everywhere : At(r, p) = IF p[1] = s THEN NoEntry ELSE At(img, p)
<1>. DEFINE r == Extend(img, s)
            e == Append(d, s)
            z == d[Len(d)]
            newfree == img.free \ {s}
            newlink == [img.link EXCEPT ![z] = s, ![s] = End]
            newdata == [img.data EXCEPT ![s] = Nothing]
            newdir == [img.dir EXCEPT ![s] = EmptySector]
<1>1. /\ Path(img, d) /\ d[1] = DirStart /\ DOMAIN F = Occupied(img, d)
      /\ d \in Seq(AllSectors) /\ Len(d) \in Nat /\ Len(d) > 0 /\ DOMAIN d = 1..Len(d)
      /\ \A k \in 1..Len(d) : d[k] \in AllSectors /\ d[k] \in ToSet(d)
      /\ \A i, j \in 1..Len(d) : d[i] = d[j] => i = j
      /\ ToSet(d) \subseteq AllSectors /\ ToSet(d) \cap img.free = {}
  BY PathFacts DEF Laid
<1>2. s \in Sectors /\ s \in AllSectors /\ s \notin ToSet(d) /\ z \in ToSet(d) /\ z # s /\ z \in AllSectors
  BY <1>1, ImageFields, Geometry
<1>3. Last(Directory(img)) = z
  BY LaidReads DEF Last
<1>4. /\ newfree \in SUBSET Sectors /\ newlink \in [AllSectors -> {End} \cup AllSectors]
      /\ newdata \in [AllSectors -> Values \cup {Nothing}]
      /\ newdir \in [AllSectors -> [Slots -> Entry \cup {NoEntry}]]
  BY <1>2, ImageFields DEF EmptySector, Fillings
<1>5. r = [img EXCEPT !.free = newfree, !.link = newlink, !.data = newdata, !.dir = newdir]
  <2>. HIDE DEF z
  <2>. QED BY <1>3 DEF Extend, Image
<1>. HIDE DEF r
<1>6. r \in Image /\ r.free = newfree /\ r.link = newlink /\ r.data = newdata /\ r.dir = newdir
  <2>. HIDE DEF newlink, newdata, newfree, newdir
  <2>. QED BY <1>4, <1>5 DEF Image
<1>7. /\ \A t \in AllSectors \ {s} : r.data[t] = img.data[t]
      /\ \A t \in AllSectors \ {s} : r.link[t] = IF t = z THEN s ELSE img.link[t]
      /\ r.link[s] = End
  <2>. HIDE DEF z, newfree, newdir
  <2>. QED BY <1>2, <1>6, ImageFields
<1>8. ASSUME NEW p \in Everywhere PROVE At(r, p) = IF p[1] = s THEN NoEntry ELSE At(img, p)
  <2>1. p[1] \in AllSectors /\ p[2] \in Slots
    BY DEF Everywhere
  <2>. HIDE DEF z, newlink, newdata
  <2>. QED BY <1>2, <1>6, <2>1, ImageFields DEF At, EmptySector
<1>9. e \in Seq(AllSectors) /\ Len(e) = Len(d) + 1 /\ (\A k \in 1..Len(d) : e[k] = d[k]) /\ e[Len(d) + 1] = s
  BY <1>1, <1>2
<1>. HIDE DEF e, newfree, newlink, newdata, newdir
<1>10. ToSet(e) = ToSet(d) \cup {s}
  <2>0. DOMAIN e = 1..(Len(d) + 1)
    BY <1>9
  <2>1. \A k \in 1..(Len(d) + 1) : k \in 1..Len(d) \/ k = Len(d) + 1
    BY <1>1
  <2>2. \A k \in 1..Len(d) : k \in 1..(Len(d) + 1)
    BY <1>1
  <2>3. Len(d) + 1 \in 1..(Len(d) + 1)
    BY <1>1
  <2>4. ToSet(e) \subseteq ToSet(d) \cup {s}
    BY <1>1, <1>9, <2>0, <2>1 DEF ToSet
  <2>5. ToSet(d) \subseteq ToSet(e)
    BY <1>1, <1>9, <2>0, <2>2 DEF ToSet
  <2>6. s \in ToSet(e)
    BY <1>9, <2>0, <2>3 DEF ToSet
  <2>. QED BY <2>4, <2>5, <2>6
<1>11. Path(r, e)
  <2>1. IsInjective(e)
    <3>1. \A k \in 1..(Len(d) + 1) : k \in 1..Len(d) \/ k = Len(d) + 1
      BY <1>1
    <3>. QED BY <1>1, <1>2, <1>9, <3>1 DEF IsInjective
  <2>2. ASSUME NEW k \in 1..(Len(e) - 1) PROVE r.link[e[k]] = e[k + 1]
    <3>1. k \in 1..Len(d)
      BY <1>1, <1>9
    <3>2. CASE k = Len(d)
      BY <1>1, <1>2, <1>7, <1>9, <3>1, <3>2
    <3>3. CASE k # Len(d)
      <4>1. k \in 1..(Len(d) - 1) /\ k + 1 \in 1..Len(d)
        BY <1>1, <3>1, <3>3
      <4>2. d[k] # z /\ d[k] # s
        <5>1. Len(d) \in 1..Len(d)
          BY <1>1
        <5>2. d[k] # z
          BY <1>1, <3>1, <3>3, <5>1
        <5>3. d[k] # s
          BY <1>1, <1>2, <3>1
        <5>. QED BY <5>2, <5>3
      <4>3. img.link[d[k]] = d[k + 1]
        BY <1>1, <4>1 DEF Path
      <4>. QED BY <1>1, <1>7, <1>9, <3>1, <4>1, <4>2, <4>3
    <3>. QED BY <3>2, <3>3
  <2>3. r.link[e[Len(e)]] = End
    BY <1>7, <1>9
  <2>4. e # <<>>
    BY <1>1, <1>9
  <2>. QED BY <1>9, <2>1, <2>2, <2>3, <2>4 DEF Path
<1>12. e[1] = DirStart
  BY <1>1, <1>9
<1>13. DOMAIN F = Occupied(r, e)
  <2>1. ASSUME NEW p \in ToSet(e) \X Slots
        PROVE  p \in Everywhere /\ (p[1] \in ToSet(d) => p \in ToSet(d) \X Slots)
               /\ (p[1] = s => p \notin ToSet(d) \X Slots) /\ (p[1] = s \/ p[1] \in ToSet(d))
    BY <1>1, <1>2, <1>10 DEF Everywhere
  <2>2. \A p \in ToSet(e) \X Slots : At(r, p) # NoEntry <=> p \in Occupied(img, d)
    BY <1>2, <1>8, <2>1 DEF Occupied
  <2>3. Occupied(img, d) \subseteq ToSet(e) \X Slots
    BY <1>10 DEF Occupied
  <2>. QED BY <1>1, <2>2, <2>3 DEF Occupied
<1>14. ASSUME NEW p \in DOMAIN F
       PROVE  /\ Path(r, F[p]) /\ Filled(r, F[p]) /\ F[p][1] = At(r, p).first
              /\ ToSet(F[p]) \cap ToSet(e) = {} /\ ToSet(F[p]) \cap r.free = {}
  <2>1. /\ Path(img, F[p]) /\ Filled(img, F[p]) /\ F[p][1] = At(img, p).first
        /\ ToSet(F[p]) \cap ToSet(d) = {} /\ ToSet(F[p]) \cap img.free = {}
    BY DEF Laid
  <2>2. ToSet(F[p]) \subseteq AllSectors \ {s} /\ z \notin ToSet(F[p])
    BY <1>2, <2>1, PathFacts
  <2>3. \A t \in ToSet(F[p]) : r.link[t] = img.link[t] /\ r.data[t] = img.data[t]
    <3>. HIDE DEF z
    <3>. QED BY <1>7, <2>2
  <2>4. Path(r, F[p]) /\ Filled(r, F[p])
    BY <2>1, <2>3, PathKept, FilledKept
  <2>5. At(r, p) = At(img, p)
    <3>1. p \in ToSet(d) \X Slots
      BY <1>1 DEF Occupied
    <3>. QED BY <1>1, <1>2, <1>8, <3>1 DEF Everywhere
  <2>. QED BY <1>2, <1>6, <1>10, <2>1, <2>2, <2>4, <2>5 DEF newfree
<1>15. ToSet(e) \cap r.free = {}
  BY <1>1, <1>6, <1>10 DEF newfree
<1>16. \A p, q \in DOMAIN F : p # q => ToSet(F[p]) \cap ToSet(F[q]) = {}
  BY DEF Laid
<1>17. Laid(r, e, F)
  BY <1>11, <1>12, <1>13, <1>14, <1>15, <1>16 DEF Laid
<1>. QED BY <1>2, <1>6, <1>7, <1>8, <1>10, <1>17 DEF r, e, newfree

-----------------------------------------------------------------------------
\* Adding files.

\* The sectors of the directory whose link the next entry in their first slot overwrites.
Exposed(img) ==
    {s \in ToSet(Directory(img)) : img.link[s] # End /\ At(img, <<s, 1>>) = NoEntry}

\* The link of such a sector is gone.
Severed(img, r) ==
    \E s \in Exposed(img) : r.link[s] # img.link[s] /\ At(r, <<s, 1>>) # NoEntry

\* Whatever is added, what is allocated stays as it is but for links of the directory.
Grows(img, r) ==
    /\ r.free \subseteq img.free
    /\ \A s \in AllSectors \ img.free :
          /\ r.data[s] = img.data[s]
          /\ r.link[s] \in {img.link[s], End} \cup img.free
          /\ \A i \in Slots : At(img, <<s, i>>) # NoEntry => At(r, <<s, i>>) = At(img, <<s, i>>)

\* The file of slot p with the chain secs is new in the layout c, G.
Added(img, F, r, c, G, p, e, secs) ==
    /\ Laid(r, c, G)
    /\ p \in DOMAIN G /\ p \notin DOMAIN F /\ G[p] = secs /\ At(r, p) = e
    /\ \A q \in DOMAIN G \ {p} : q \in DOMAIN F /\ G[q] = F[q] /\ At(r, q) = At(img, q)

\* Nothing was cut off: the directory has its old sectors and those no longer free.
NothingCut(img, d, F, r, c, G, p) ==
    /\ DOMAIN G = DOMAIN F \cup {p}
    /\ ToSet(c) = ToSet(d) \cup (img.free \ r.free)
    /\ Exposed(r) \subseteq Exposed(img)

\* An entry stored in a vacant slot of the directory.
LEMMA StoreIs ==
    ASSUME NEW img \in Image, NEW d, NEW F, Laid(img, d, F), NEW p \in Vacant(img),
           NEW e \in Entry, NEW secs, Apart(img, d, F, secs), secs[1] = e.first
    PROVE  LET r == StoreEntry(img, p, e, End)
           IN  /\ r \in Image /\ Grows(img, r) /\ r.free = img.free
               /\ \E c, G : /\ Added(img, F, r, c, G, p, e, secs)
                            /\ NothingCut(img, d, F, r, c, G, p) \/ Severed(img, r)
<1>. DEFINE r == StoreEntry(img, p, e, End)
            m == StoreEntry(img, p, NoEntry, End)
<1>1. /\ Path(img, d) /\ d[1] = DirStart /\ DOMAIN F = Occupied(img, d)
      /\ d \in Seq(AllSectors) /\ Len(d) \in Nat /\ Len(d) > 0 /\ DOMAIN d = 1..Len(d)
      /\ \A k \in 1..Len(d) : d[k] \in AllSectors /\ d[k] \in ToSet(d)
      /\ \A i, j \in 1..Len(d) : d[i] = d[j] => i = j
      /\ ToSet(d) \subseteq AllSectors /\ ToSet(d) \cap img.free = {} /\ Len(d) \in 1..Len(d)
  BY PathFacts DEF Laid
<1>2. /\ Directory(img) = d /\ p \in ToSet(d) \X Slots /\ p \in Everywhere /\ At(img, p) = NoEntry
      /\ ToSet(d) \X Slots \subseteq Everywhere /\ DOMAIN F \subseteq ToSet(d) \X Slots
  BY <1>1, LaidReads DEF Vacant, Occupied
<1>3. e \in Fillings /\ NoEntry \in Fillings /\ End \in {End} \cup AllSectors /\ e # NoEntry
  BY NoEntryAssumption DEF Fillings
<1>4. /\ m \in Image /\ m.free = img.free /\ m.data = img.data
      /\ \A s \in AllSectors : m.link[s] = IF s = p[1] /\ p[2] = 1 THEN End ELSE img.link[s]
      /\ \A q \in Everywhere : At(m, q) = At(img, q)
  BY <1>2, <1>3, StoreEntryIs
<1>5. /\ r \in Image /\ r.free = img.free /\ r.data = img.data
      /\ \A s \in AllSectors : r.link[s] = IF s = p[1] /\ p[2] = 1 THEN End ELSE img.link[s]
      /\ \A q \in Everywhere : At(r, q) = IF q = p THEN e ELSE At(img, q)
  BY <1>2, <1>3, StoreEntryIs
<1>. HIDE DEF m, r
<1>6. PICK at \in 1..Len(d) : d[at] = p[1]
  BY <1>1, <1>2 DEF ToSet
<1>. DEFINE cut == p[2] = 1 /\ img.link[p[1]] # End
<1>7. PICK n \in 1..Len(d) : n = IF cut THEN at ELSE Len(d)
  BY <1>1
<1>8. \A k \in 1..(n - 1) : k \in 1..Len(d) /\ m.link[d[k]] = img.link[d[k]]
  <2>. SUFFICES ASSUME NEW k \in 1..(n - 1)
                PROVE  k \in 1..Len(d) /\ m.link[d[k]] = img.link[d[k]]
    OBVIOUS
  <2>0. Len(d) \in Nat
    BY <1>1
  <2>1. k \in 1..Len(d) /\ k # n /\ k # Len(d)
    BY <2>0
  <2>2. d[k] \in AllSectors
    BY <1>1, <2>1
  <2>3. CASE cut
    <3>1. d[k] # p[1]
      BY <1>1, <1>6, <1>7, <2>1, <2>3
    <3>. QED BY <1>4, <2>1, <2>2, <3>1
  <2>4. CASE ~cut
    <3>1. m.link[d[k]] = img.link[d[k]]
      BY <1>4, <2>2, <2>4
    <3>. QED BY <2>1, <3>1
  <2>. QED BY <2>3, <2>4
<1>9. m.link[d[n]] = End
  <2>1. CASE cut
    BY <1>1, <1>4, <1>6, <1>7, <2>1
  <2>2. CASE ~cut
    <3>1. img.link[d[n]] = End
      BY <1>1, <1>7, <2>2 DEF Path
    <3>. QED BY <1>1, <1>4, <3>1
  <2>. QED BY <2>1, <2>2
<1>10. PICK c : c = SubSeq(d, 1, n)
  OBVIOUS
<1>11. ToSet(c) = {d[k] : k \in 1..n} /\ ToSet(c) \subseteq ToSet(d)
  <2>1. c \in Seq(AllSectors) /\ Len(c) = n /\ \A k \in 1..n : c[k] = d[k]
    BY <1>1, <1>10, PrefixIs
  <2>2. ToSet(c) = {c[k] : k \in 1..n}
    BY <2>1 DEF ToSet
  <2>3. ToSet(c) = {d[k] : k \in 1..n}
    BY <2>1, <2>2
  <2>4. \A k \in 1..n : k \in 1..Len(d)
    BY <1>1
  <2>. QED BY <1>1, <2>3, <2>4
<1>12. Occupied(m, c) \subseteq DOMAIN F
  BY <1>1, <1>2, <1>4, <1>11 DEF Occupied
<1>13. \A q \in Occupied(m, c) :
          /\ At(m, q).first = At(img, q).first
          /\ \A s \in ToSet(F[q]) :
                m.link[s] = img.link[s] /\ m.data[s] = img.data[s] /\ s \notin m.free
  <2>. SUFFICES ASSUME NEW q \in DOMAIN F
                PROVE  /\ At(m, q) = At(img, q)
                       /\ \A s \in ToSet(F[q]) : m.link[s] = img.link[s] /\ s \notin m.free
    BY <1>4, <1>12
  <2>1. ToSet(F[q]) \subseteq AllSectors /\ ToSet(F[q]) \cap ToSet(d) = {} /\ ToSet(F[q]) \cap img.free = {}
    BY PathFacts DEF Laid
  <2>. QED BY <1>2, <1>4, <2>1
<1>14. \A k \in 1..n : d[k] \notin m.free
  <2>1. \A k \in 1..n : k \in 1..Len(d)
    BY <1>1
  <2>. QED BY <1>1, <1>4, <2>1
<1>15. Laid(m, c, Restrict(F, Occupied(m, c)))
  <2>1. \A k \in 1..(n - 1) : m.link[d[k]] = img.link[d[k]]
    BY <1>8
  <2>2. n \in 1..Len(d) /\ c = SubSeq(d, 1, n)
    BY <1>10
  <2>3. CutAfter(img, d, F, m, n, c)
    BY <1>9, <1>12, <1>13, <1>14, <2>1, <2>2 DEF CutAfter
  <2>. QED BY <2>3, Relaid
<1>. DEFINE K == Restrict(F, Occupied(m, c))
            G == With(K, p, secs)
<1>16. DOMAIN K = Occupied(m, c) /\ \A q \in DOMAIN K : K[q] = F[q]
  BY DEF Restrict
<1>24. DOMAIN G = DOMAIN K \cup {p} /\ G[p] = secs /\ \A q \in DOMAIN K \ {p} : G[q] = K[q]
  BY DEF With
<1>25. Laid(m, c, K)
  BY <1>15
<1>. HIDE DEF K
<1>17. p \in ToSet(c) \X Slots /\ p \notin DOMAIN K /\ p \notin DOMAIN F
  <2>1. p[1] \in ToSet(c)
    <3>1. n \in 1..n /\ at \in 1..Len(d)
      BY <1>1
    <3>2. CASE cut
      BY <1>6, <1>7, <1>11, <3>1, <3>2
    <3>3. CASE ~cut
      BY <1>6, <1>7, <1>11, <3>1, <3>3
    <3>. QED BY <3>2, <3>3
  <2>2. p \in ToSet(c) \X Slots
    BY <1>2, <2>1
  <2>. QED BY <1>1, <1>2, <1>4, <1>16, <2>2 DEF Occupied
<1>18. Laid(r, c, G)
  <2>1. r.free = m.free /\ r.data = m.data /\ \A s \in AllSectors : r.link[s] = m.link[s]
    BY <1>4, <1>5
  <2>2. \A q \in ToSet(c) \X Slots : At(r, q) = IF q = p THEN e ELSE At(m, q)
    BY <1>2, <1>4, <1>5, <1>11
  <2>3. Path(m, secs) /\ Filled(m, secs)
    <3>1. ToSet(secs) \subseteq AllSectors /\ p[1] \notin ToSet(secs)
      BY <1>2, PathFacts DEF Apart
    <3>2. \A s \in ToSet(secs) : m.link[s] = img.link[s] /\ m.data[s] = img.data[s]
      BY <1>4, <3>1
    <3>. QED BY <3>2, PathKept, FilledKept DEF Apart
  <2>4. ToSet(secs) \cap ToSet(c) = {} /\ ToSet(secs) \cap m.free = {}
    BY <1>4, <1>11 DEF Apart
  <2>5. \A q \in DOMAIN K : ToSet(secs) \cap ToSet(K[q]) = {}
    BY <1>12, <1>16 DEF Apart
  <2>6. Apart(m, c, K, secs)
    BY <2>3, <2>4, <2>5 DEF Apart
  <2>7. Receives(m, c, r, p, e)
    BY <1>3, <1>17, <2>1, <2>2 DEF Receives
  <2>8. p \notin DOMAIN K
    BY <1>17
  <2>. QED BY <1>25, <2>6, <2>7, <2>8, Entered
<1>19. Added(img, F, r, c, G, p, e, secs)
  <2>1. p \in DOMAIN G /\ G[p] = secs /\ At(r, p) = e
    BY <1>2, <1>5, <1>24
  <2>2. ASSUME NEW q \in DOMAIN G \ {p} PROVE q \in DOMAIN F /\ G[q] = F[q] /\ At(r, q) = At(img, q)
    BY <1>2, <1>5, <1>12, <1>16, <1>24
  <2>. HIDE DEF G
  <2>. QED BY <1>17, <1>18, <2>1, <2>2 DEF Added
<1>20. Grows(img, r)
  <2>. SUFFICES ASSUME NEW s \in AllSectors \ img.free
                PROVE  /\ r.link[s] \in {img.link[s], End}
                       /\ \A i \in Slots : At(img, <<s, i>>) # NoEntry => At(r, <<s, i>>) = At(img, <<s, i>>)
    BY <1>5 DEF Grows
  <2>1. r.link[s] \in {img.link[s], End}
    BY <1>5
  <2>2. ASSUME NEW i \in Slots, At(img, <<s, i>>) # NoEntry PROVE At(r, <<s, i>>) = At(img, <<s, i>>)
    <3>1. <<s, i>> \in Everywhere
      BY DEF Everywhere
    <3>. QED BY <1>2, <1>5, <2>2, <3>1
  <2>. QED BY <2>1, <2>2
<1>21. ASSUME cut PROVE Severed(img, r)
  <2>1. p = <<p[1], 1>> /\ p[1] \in ToSet(d) /\ img.link[p[1]] # End /\ p[1] \in AllSectors
    BY <1>1, <1>2, <1>21
  <2>2. p[1] \in Exposed(img)
    BY <1>2, <2>1 DEF Exposed
  <2>3. r.link[p[1]] # img.link[p[1]] /\ At(r, <<p[1], 1>>) # NoEntry
    BY <1>2, <1>3, <1>5, <1>21, <2>1
  <2>. QED BY <2>2, <2>3 DEF Severed
<1>22. ASSUME ~cut PROVE NothingCut(img, d, F, r, c, G, p)
  <2>1. n = Len(d) /\ c = d
    BY <1>1, <1>7, <1>10, <1>22, PrefixIs
  <2>2. Occupied(m, c) = DOMAIN F
    <3>1. \A q \in ToSet(d) \X Slots : At(m, q) = At(img, q)
      BY <1>2, <1>4
    <3>. QED BY <1>1, <2>1, <3>1 DEF Occupied
  <2>3. DOMAIN G = DOMAIN F \cup {p}
    BY <1>16, <1>24, <2>2
  <2>4. Directory(r) = d
    BY <1>5, <1>18, <2>1, LaidReads
  <2>5. Exposed(r) \subseteq Exposed(img)
    <3>. SUFFICES ASSUME NEW s \in ToSet(d), r.link[s] # End, At(r, <<s, 1>>) = NoEntry
                  PROVE  img.link[s] # End /\ At(img, <<s, 1>>) = NoEntry
      BY <1>2, <2>4 DEF Exposed
    <3>1. s \in AllSectors /\ <<s, 1>> \in Everywhere
      BY <1>1, Geometry DEF Everywhere
    <3>2. r.link[s] = img.link[s]
      BY <1>5, <3>1
    <3>3. At(img, <<s, 1>>) = NoEntry
      BY <1>2, <1>5, <3>1
    <3>. QED BY <3>2, <3>3
  <2>6. ToSet(c) = ToSet(d) \cup (img.free \ r.free)
    BY <1>5, <2>1
  <2>. HIDE DEF G
  <2>. QED BY <2>3, <2>5, <2>6 DEF NothingCut
<1>. HIDE DEF G, cut
<1>23. \E b, H : /\ Added(img, F, r, b, H, p, e, secs)
                 /\ NothingCut(img, d, F, r, b, H, p) \/ Severed(img, r)
  BY <1>19, <1>21, <1>22
<1>. QED BY <1>5, <1>20, <1>23 DEF r

LEMMA GrowsTwice ==
    ASSUME NEW img, NEW m, NEW r, Grows(img, m), Grows(m, r)
    PROVE  Grows(img, r)
<1>1. r.free \subseteq img.free /\ m.free \subseteq img.free
  BY DEF Grows
<1>2. ASSUME NEW s \in AllSectors \ img.free
      PROVE  /\ r.data[s] = img.data[s]
             /\ r.link[s] \in {img.link[s], End} \cup img.free
             /\ \A i \in Slots : At(img, <<s, i>>) # NoEntry => At(r, <<s, i>>) = At(img, <<s, i>>)
  <2>1. s \in AllSectors \ m.free
    BY <1>1
  <2>2. /\ r.data[s] = m.data[s] /\ r.link[s] \in {m.link[s], End} \cup m.free
        /\ \A i \in Slots : At(m, <<s, i>>) # NoEntry => At(r, <<s, i>>) = At(m, <<s, i>>)
    BY <2>1 DEF Grows
  <2>3. /\ m.data[s] = img.data[s] /\ m.link[s] \in {img.link[s], End} \cup img.free
        /\ \A i \in Slots : At(img, <<s, i>>) # NoEntry => At(m, <<s, i>>) = At(img, <<s, i>>)
    BY DEF Grows
  <2>4. r.link[s] \in {img.link[s], End} \cup img.free
    BY <1>1, <2>2, <2>3
  <2>. QED BY <2>2, <2>3, <2>4
<1>. QED BY <1>1, <1>2 DEF Grows

LEMMA GrowsNot ==
    ASSUME NEW img
    PROVE  Grows(img, img)
BY DEF Grows

\* A new entry: in a vacant slot, in a sector appended for it, or nowhere.
LEMMA AllocEntryIs ==
    ASSUME NEW img \in Image, NEW d, NEW F, Laid(img, d, F), NEW e \in Entry,
           NEW secs, Apart(img, d, F, secs), secs[1] = e.first
    PROVE  LET a == AllocDirectoryEntry(img, e)
           IN  /\ a.ok \in BOOLEAN /\ a.img \in Image /\ Grows(img, a.img)
               /\ ~a.ok => a.img = img /\ Vacant(img) = {}
               /\ a.ok => \E p, c, G :
                             /\ Added(img, F, a.img, c, G, p, e, secs)
                             /\ NothingCut(img, d, F, a.img, c, G, p) \/ Severed(img, a.img)
<1>. DEFINE a == AllocDirectoryEntry(img, e)
            p1 == FirstOf(img, Vacant(img))
            s == NextFree(img, 1)[1]
            x == Extend(img, s)
<1>1. Vacant(img) \subseteq DirectorySlots(img)
  BY DEF Vacant
<1>2. (Vacant(img) = {} => p1 = <<>>) /\ (Vacant(img) # {} => p1 \in Vacant(img) /\ p1 # <<>>)
  BY <1>1, FirstOfIs
<1>3. CASE Vacant(img) # {}
  <2>1. p1 \in Vacant(img) /\ p1 # <<>>
    BY <1>2, <1>3
  <2>. DEFINE r == StoreEntry(img, p1, e, End)
  <2>. HIDE DEF p1
  <2>2. a.ok = TRUE /\ a.img = r
    BY <2>1 DEF AllocDirectoryEntry, Done, p1
  <2>3. /\ r \in Image /\ Grows(img, r)
        /\ \E c, G : /\ Added(img, F, r, c, G, p1, e, secs)
                     /\ NothingCut(img, d, F, r, c, G, p1) \/ Severed(img, r)
    BY <2>1, StoreIs
  <2>. HIDE DEF r, a
  <2>. QED BY <2>2, <2>3 DEF a
<1>4. CASE Vacant(img) = {} /\ img.free = {}
  <2>1. a.ok = FALSE /\ a.img = img
    BY <1>2, <1>4 DEF AllocDirectoryEntry, Failed
  <2>. QED BY <1>4, <2>1, GrowsNot
<1>5. CASE Vacant(img) = {} /\ img.free # {}
  <2>. DEFINE p == <<s, 1>>
              r == StoreEntry(x, p, e, End)
              b == Append(d, s)
  <2>1. s \in img.free
    <3>1. IsFiniteSet(img.free)
      BY FreeFinite
    <3>3. Cardinality(img.free) \in Nat /\ Cardinality(img.free) # 0
      BY <1>5, <3>1, FS_CardinalityType, FS_EmptySet
    <3>4. 1 \in 0..Cardinality(img.free)
      BY <3>3
    <3>5. /\ NextFree(img, 1) \in Seq(AllSectors) /\ Len(NextFree(img, 1)) = 1
          /\ ToSet(NextFree(img, 1)) \subseteq img.free
      BY <3>4, NextFreeIs
    <3>6. 1 \in DOMAIN NextFree(img, 1)
      BY <3>5
    <3>. QED BY <3>5, <3>6 DEF ToSet
  <2>2. a.ok = TRUE /\ a.img = r
    BY <1>2, <1>5 DEF AllocDirectoryEntry, Done
  <2>. HIDE DEF s
  <2>3. /\ x \in Image /\ x.free = img.free \ {s} /\ Laid(x, b, F)
        /\ s \in Sectors /\ s \notin ToSet(d) /\ ToSet(b) = ToSet(d) \cup {s}
        /\ \A t \in AllSectors \ {s} : x.data[t] = img.data[t]
        /\ \A t \in AllSectors \ {s} : x.link[t] = IF t = d[Len(d)] THEN s ELSE img.link[t]
        /\ x.link[s] = End
        /\ \A q \in Everywhere : At(x, q) = IF q[1] = s THEN NoEntry ELSE At(img, q)
    BY <2>1, ExtendIs
  <2>. HIDE DEF x
  <2>4. /\ DirectorySlots(x) = ToSet(b) \X Slots /\ Directory(x) = b /\ DirectorySlots(x) \subseteq Everywhere
        /\ DirectorySlots(img) = ToSet(d) \X Slots /\ DOMAIN F \subseteq Everywhere
        /\ ToSet(d) \X Slots \subseteq Everywhere
        /\ Listed(x) = DOMAIN F /\ Listed(img) = DOMAIN F /\ ToSet(d) \subseteq AllSectors
        /\ d[Len(d)] \in ToSet(d) /\ s \in AllSectors
    <3>. HIDE DEF b
    <3>1. /\ DirectorySlots(x) = ToSet(b) \X Slots /\ Directory(x) = b /\ DirectorySlots(x) \subseteq Everywhere
          /\ Listed(x) = DOMAIN F
      BY <2>3, LaidReads
    <3>2. /\ DirectorySlots(img) = ToSet(d) \X Slots /\ DirectorySlots(img) \subseteq Everywhere
          /\ Listed(img) = DOMAIN F /\ DOMAIN F \subseteq Everywhere /\ ToSet(d) \subseteq AllSectors
      BY LaidReads
    <3>3. d[Len(d)] \in ToSet(d)
      BY PathFacts DEF Laid
    <3>. QED BY <2>3, <3>1, <3>2, <3>3, Geometry
  <2>. HIDE DEF b
  <2>5. p \in Vacant(x)
    <3>1. p \in DirectorySlots(x) /\ p \in Everywhere /\ p[1] = s
      BY <2>3, <2>4, Geometry
    <3>. QED BY <2>3, <3>1 DEF Vacant
  <2>6. Apart(x, b, F, secs)
    <3>1. ToSet(secs) \subseteq AllSectors /\ s \notin ToSet(secs) /\ d[Len(d)] \notin ToSet(secs)
      BY <2>1, <2>4, PathFacts DEF Apart
    <3>2. \A t \in ToSet(secs) : x.link[t] = img.link[t] /\ x.data[t] = img.data[t]
      BY <2>3, <3>1
    <3>3. Path(x, secs) /\ Filled(x, secs)
      BY <3>2, PathKept, FilledKept DEF Apart
    <3>4. ToSet(secs) \cap ToSet(b) = {} /\ ToSet(secs) \cap x.free = {}
      BY <2>3, <3>1 DEF Apart
    <3>. QED BY <3>3, <3>4 DEF Apart
  <2>7. /\ r \in Image /\ Grows(x, r) /\ r.free = x.free
        /\ \E c, G : /\ Added(x, F, r, c, G, p, e, secs)
                     /\ NothingCut(x, b, F, r, c, G, p) \/ Severed(x, r)
    BY <2>3, <2>5, <2>6, StoreIs
  <2>8. Grows(img, x)
    <3>. SUFFICES ASSUME NEW t \in AllSectors \ img.free
                  PROVE  /\ x.data[t] = img.data[t] /\ x.link[t] \in {img.link[t], End} \cup img.free
                         /\ \A i \in Slots : At(x, <<t, i>>) = At(img, <<t, i>>)
      BY <2>3 DEF Grows
    <3>1. t # s
      BY <2>1
    <3>2. \A i \in Slots : <<t, i>> \in Everywhere /\ <<t, i>>[1] = t
      BY DEF Everywhere
    <3>3. \A i \in Slots : At(x, <<t, i>>) = At(img, <<t, i>>)
      BY <2>3, <3>1, <3>2
    <3>4. x.link[t] \in {img.link[t], End} \cup img.free
      BY <2>1, <2>3, <3>1
    <3>. QED BY <2>3, <3>1, <3>3, <3>4
  <2>9. Grows(img, r)
    BY <2>7, <2>8, GrowsTwice
  <2>10. Exposed(x) = {}
    <3>. SUFFICES ASSUME NEW t \in ToSet(b), x.link[t] # End, At(x, <<t, 1>>) = NoEntry PROVE FALSE
      BY <2>4 DEF Exposed
    <3>1. t \in ToSet(d) /\ t # s
      BY <2>3
    <3>2. <<t, 1>> \in DirectorySlots(img) /\ <<t, 1>> \in Everywhere /\ <<t, 1>>[1] = t
      BY <2>4, <3>1, Geometry
    <3>3. At(img, <<t, 1>>) = NoEntry
      BY <2>3, <3>1, <3>2
    <3>. QED BY <1>5, <3>2, <3>3 DEF Vacant
  <2>11. PICK c, G : Added(x, F, r, c, G, p, e, secs) /\ NothingCut(x, b, F, r, c, G, p)
    <3>1. ~Severed(x, r)
      BY <2>10 DEF Severed
    <3>. QED BY <2>7, <3>1
  <2>. HIDE DEF p, r
  <2>12. Added(img, F, r, c, G, p, e, secs)
    <3>1. ASSUME NEW q \in DOMAIN F PROVE At(x, q) = At(img, q)
      <4>1. q[1] \in ToSet(d) /\ q \in Everywhere
        BY <2>4 DEF Laid, Occupied
      <4>. QED BY <2>3, <4>1
    <3>. QED BY <2>11, <3>1 DEF Added
  <2>13. NothingCut(img, d, F, r, c, G, p)
    <3>1. DOMAIN G = DOMAIN F \cup {p} /\ ToSet(c) = ToSet(b) \cup (x.free \ r.free) /\ Exposed(r) = {}
      BY <2>10, <2>11 DEF NothingCut
    <3>2. ToSet(c) = ToSet(d) \cup (img.free \ r.free)
      BY <2>1, <2>3, <2>7, <3>1
    <3>. QED BY <3>1, <3>2 DEF NothingCut
  <2>. HIDE DEF a
  <2>. QED BY <2>2, <2>7, <2>9, <2>12, <2>13 DEF a
<1>. QED BY <1>3, <1>4, <1>5

\* Nothing was lost: what is not free any more is the directory's or the new file's.
NothingLost(img, d, F, r, c, G, p) ==
    /\ DOMAIN G = DOMAIN F \cup {p}
    /\ ToSet(c) \cup ToSet(G[p]) = ToSet(d) \cup (img.free \ r.free)
    /\ Exposed(r) \subseteq Exposed(img)

\* secs holds the content.
Holds(img, secs, content) ==
    /\ Len(secs) = IF content = <<>> THEN 1 ELSE Len(content)
    /\ \A k \in 1..Len(secs) :
          img.data[secs[k]] = IF k > Len(content) THEN Nothing ELSE content[k]

\* An entry and a chain for the content fit without extending the directory.
Room(img, content) == /\ Vacant(img) # {}
                      /\ ~((IF content = <<>> THEN 1 ELSE Len(content)) > Cardinality(img.free))

LEMMA AddFileIs ==
    ASSUME NEW img \in Image, NEW d, NEW F, Laid(img, d, F),
           NEW f \in Names, NEW content \in Seq(Values)
    PROVE  LET a == AddFile(img, f, content)
           IN  /\ a.ok \in BOOLEAN /\ a.img \in Image /\ Grows(img, a.img)
               /\ ~a.ok => /\ Laid(a.img, d, F) /\ a.img.dir = img.dir
                           /\ Exposed(a.img) = Exposed(img)
                           /\ FileExists(img, f) \/ ~Room(img, content)
               /\ a.ok => /\ ~FileExists(img, f)
                          /\ \E secs, p, c, G :
                                /\ Added(img, F, a.img, c, G, p,
                                         [name |-> f, first |-> secs[1], closed |-> TRUE], secs)
                                /\ Holds(a.img, secs, content)
                                /\ \/ NothingLost(img, d, F, a.img, c, G, p)
                                   \/ Severed(img, a.img)
<1>. DEFINE a == AddFile(img, f, content)
            need == IF content = <<>> THEN 1 ELSE Len(content)
            secs == NextFree(img, need)
            w == WriteChain(Allocate(img, secs), secs, content)
            e == [name |-> f, first |-> secs[1], closed |-> TRUE]
<1>1. Len(content) \in Nat /\ need \in Nat /\ need >= 1 /\ Len(content) <= need
      /\ (content = <<>> <=> Len(content) = 0)
  OBVIOUS
<1>2. Path(img, d) /\ ToSet(d) \subseteq AllSectors /\ ToSet(d) \cap img.free = {} /\ Directory(img) = d
      /\ DOMAIN F \subseteq Everywhere /\ ToSet(d) \X Slots \subseteq Everywhere
  BY LaidReads, PathFacts, SMTT(30) DEF Laid
<1>3. CASE FileExists(img, f) \/ need > FreeSectors(img)
  <2>1. a.ok = FALSE /\ a.img = img
    BY <1>3 DEF AddFile, Failed
  <2>2. need > FreeSectors(img) => need > Cardinality(img.free)
    BY <1>1, FreeFinite, DiskAssumption DEF FreeSectors
  <2>3. FileExists(img, f) \/ ~Room(img, content)
    BY <1>3, <2>2 DEF Room
  <2>. HIDE DEF a
  <2>. QED BY <2>1, <2>3, GrowsNot DEF a
<1>4. CASE ~(FileExists(img, f) \/ need > FreeSectors(img)) /\ need > Cardinality(img.free)
  <2>. DEFINE r == [img EXCEPT !.free = {}]
  <2>1. a.ok = FALSE /\ a.img = r
    BY <1>4 DEF AddFile, Failed
  <2>2. /\ r \in Image /\ r.free = {} /\ r.link = img.link /\ r.data = img.data /\ r.dir = img.dir
    BY DEF Image
  <2>. HIDE DEF r, a
  <2>3. \A p : At(r, p) = At(img, p)
    BY <2>2 DEF At
  <2>4. Laid(r, d, F)
    BY <2>2, <2>3, LaidKept
  <2>5. Directory(r) = d
    BY <2>2, <2>4, LaidReads
  <2>6. Exposed(r) = Exposed(img)
    BY <1>2, <2>2, <2>3, <2>5 DEF Exposed
  <2>7. Grows(img, r)
    BY <2>2, <2>3 DEF Grows
  <2>8. ~Room(img, content)
    BY <1>4 DEF Room
  <2>. QED BY <2>1, <2>2, <2>4, <2>6, <2>7, <2>8 DEF a
<1>5. CASE ~(FileExists(img, f) \/ need > FreeSectors(img)) /\ ~(need > Cardinality(img.free))
  <2>1. need \in 0..Cardinality(img.free)
    BY <1>1, <1>5, FreeFinite
  <2>. HIDE DEF need
  <2>2. /\ secs \in Seq(AllSectors) /\ Len(secs) = need /\ IsInjective(secs) /\ ToSet(secs) \subseteq img.free
    BY <2>1, NextFreeIs
  <2>. HIDE DEF secs
  <2>3. ToSet(secs) \subseteq Sectors /\ secs # <<>> /\ Len(content) <= Len(secs)
    BY <1>1, <2>2, ImageFields
  <2>4. /\ w \in Image /\ w.free = img.free \ ToSet(secs) /\ w.dir = img.dir
        /\ \A s \in AllSectors \ ToSet(secs) : w.link[s] = img.link[s] /\ w.data[s] = img.data[s]
        /\ Path(w, secs)
        /\ \A k \in 1..Len(secs) : w.data[secs[k]] = IF k > Len(content) THEN Nothing ELSE content[k]
    BY <2>2, <2>3, WriteChainIs, ZenonT(30)
  <2>. HIDE DEF w
  <2>5. \A p : At(w, p) = At(img, p)
    BY <2>4 DEF At
  <2>6. ToSet(d) \subseteq AllSectors \ ToSet(secs)
    BY <1>2, <2>2
  <2>7. ASSUME NEW p \in DOMAIN F
        PROVE  ToSet(F[p]) \subseteq AllSectors \ ToSet(secs) /\ ToSet(F[p]) \cap img.free = {}
    BY <2>2, PathFacts DEF Laid
  <2>8. Laid(w, d, F)
    <3>1. \A s \in ToSet(d) : w.link[s] = img.link[s] /\ s \notin w.free
      BY <1>2, <2>4, <2>6
    <3>2. \A p \in DOMAIN F : \A s \in ToSet(F[p]) :
                w.link[s] = img.link[s] /\ w.data[s] = img.data[s] /\ s \notin w.free
      BY <2>4, <2>7
    <3>. QED BY <2>5, <3>1, <3>2, LaidKept
  <2>9. Apart(w, d, F, secs)
    <3>1. Filled(w, secs)
      <4>. SUFFICES ASSUME NEW k \in 1..(Len(secs) - 1) PROVE w.data[secs[k]] \in Values
        BY DEF Filled
      <4>1. k \in 1..Len(secs) /\ k \in 1..Len(content)
        BY <1>1, <2>2, <2>3 DEF need
      <4>2. ~(k > Len(content)) /\ content[k] \in Values
        BY <1>1, <4>1
      <4>. QED BY <2>4, <4>1, <4>2
    <3>. QED BY <2>2, <2>4, <2>6, <2>7, <3>1 DEF Apart
  <2>10. e \in Entry /\ e.first = secs[1]
    <3>1. 1 \in DOMAIN secs
      BY <1>1, <2>2
    <3>2. secs[1] \in Sectors
      BY <2>3, <3>1 DEF ToSet
    <3>. QED BY <3>2 DEF Entry
  <2>. DEFINE b == AllocDirectoryEntry(w, e)
  <2>11. a = b
    BY <1>5 DEF AddFile, w, secs, need
  <2>. HIDE DEF e
  <2>12. /\ b.ok \in BOOLEAN /\ b.img \in Image /\ Grows(w, b.img)
         /\ ~b.ok => b.img = w /\ Vacant(w) = {}
         /\ b.ok => \E p, c, G : /\ Added(w, F, b.img, c, G, p, e, secs)
                                 /\ NothingCut(w, d, F, b.img, c, G, p) \/ Severed(w, b.img)
    BY <2>4, <2>8, <2>9, <2>10, AllocEntryIs
  <2>. HIDE DEF b
  <2>13. Grows(img, w)
    <3>1. ASSUME NEW s \in AllSectors \ img.free PROVE w.data[s] = img.data[s] /\ w.link[s] = img.link[s]
      BY <2>2, <2>4
    <3>. QED BY <2>4, <2>5, <3>1 DEF Grows
  <2>14. Grows(img, b.img)
    BY <2>12, <2>13, GrowsTwice
  <2>15. Directory(w) = d
    BY <2>4, <2>8, LaidReads
  <2>16. Exposed(w) = Exposed(img) /\ \A s \in Exposed(img) : w.link[s] = img.link[s]
    <3>1. \A s \in ToSet(d) : w.link[s] = img.link[s]
      BY <2>4, <2>6
    <3>. QED BY <1>2, <2>5, <2>15, <3>1 DEF Exposed
  <2>17. ASSUME b.ok
         PROVE  \E p, c, G :
                    /\ Added(img, F, b.img, c, G, p, e, secs)
                    /\ Holds(b.img, secs, content)
                    /\ NothingLost(img, d, F, b.img, c, G, p) \/ Severed(img, b.img)
    <3>1. PICK p, c, G : /\ Added(w, F, b.img, c, G, p, e, secs)
                         /\ NothingCut(w, d, F, b.img, c, G, p) \/ Severed(w, b.img)
      BY <2>12, <2>17
    <3>2. Added(img, F, b.img, c, G, p, e, secs)
      BY <2>5, <3>1 DEF Added
    <3>3. Holds(b.img, secs, content)
      <4>1. ASSUME NEW k \in 1..Len(secs) PROVE secs[k] \in AllSectors \ w.free
        <5>1. secs[k] \in AllSectors /\ secs[k] \in ToSet(secs)
          BY <2>4, PathFacts
        <5>. QED BY <2>4, <5>1
      <4>2. \A k \in 1..Len(secs) : b.img.data[secs[k]] = w.data[secs[k]]
        BY <2>12, <4>1 DEF Grows
      <4>. QED BY <2>2, <2>4, <4>2 DEF Holds, need
    <3>4. ASSUME Severed(w, b.img) PROVE Severed(img, b.img)
      BY <2>16, <3>4 DEF Severed
    <3>5. ASSUME NothingCut(w, d, F, b.img, c, G, p) PROVE NothingLost(img, d, F, b.img, c, G, p)
      <4>1. G[p] = secs /\ b.img.free \subseteq w.free
        BY <2>12, <3>1 DEF Added, Grows
      <4>2. ToSet(c) \cup ToSet(secs) = ToSet(d) \cup (img.free \ b.img.free)
        BY <2>2, <2>4, <3>5, <4>1 DEF NothingCut
      <4>. QED BY <2>16, <3>5, <4>1, <4>2 DEF NothingCut, NothingLost
    <3>. QED BY <3>1, <3>2, <3>3, <3>4, <3>5
  <2>18. ~FileExists(img, f)
    BY <1>5
  <2>19. ~b.ok => /\ Laid(b.img, d, F) /\ b.img.dir = img.dir /\ Exposed(b.img) = Exposed(img)
                  /\ FileExists(img, f) \/ ~Room(img, content)
    <3>1. Vacant(w) = Vacant(img)
      BY <1>2, <2>5, <2>15 DEF Vacant, DirectorySlots
    <3>. QED BY <2>4, <2>8, <2>12, <2>16, <3>1 DEF Room
  <2>. HIDE DEF a
  <2>20. b.ok => \E u, p, c, G :
                    /\ Added(img, F, b.img, c, G, p, [name |-> f, first |-> u[1], closed |-> TRUE], u)
                    /\ Holds(b.img, u, content)
                    /\ NothingLost(img, d, F, b.img, c, G, p) \/ Severed(img, b.img)
    BY <2>17 DEF e
  <2>. QED BY <2>11, <2>12, <2>14, <2>18, <2>19, <2>20 DEF a
<1>. QED BY <1>3, <1>4, <1>5

-----------------------------------------------------------------------------
\* Finding, removing and relabelling files.

LEMMA FindsIs ==
    ASSUME NEW img \in Image, NEW d, NEW F, Laid(img, d, F), NEW f
    PROVE  /\ LET p == FindFileEntry(img, f)
              IN  /\ FileExists(img, f) <=> p # <<>>
                  /\ p # <<>> => p \in DOMAIN F /\ At(img, p).name = f /\ At(img, p).closed
                  /\ p = <<>> => \A q \in DOMAIN F : At(img, q).name = f => ~At(img, q).closed
           /\ LET p == FindAnyEntry(img, f)
              IN  p # <<>> => p \in DOMAIN F /\ At(img, p).name = f
<1>. DEFINE C == {p \in Named(img, f) : At(img, p).closed}
<1>1. Listed(img) = DOMAIN F /\ Listed(img) \subseteq DirectorySlots(img)
  BY LaidReads DEF Listed
<1>2. Named(img, f) = {p \in DOMAIN F : At(img, p).name = f}
  BY <1>1 DEF Named
<1>3. Named(img, f) \subseteq DirectorySlots(img) /\ C \subseteq DirectorySlots(img)
  BY <1>1, <1>2
<1>4. FindFileEntry(img, f) = FirstOf(img, C) /\ FindAnyEntry(img, f) = FirstOf(img, Named(img, f))
  BY DEF FindFileEntry, FindAnyEntry
<1>. HIDE DEF C
<1>5. /\ C = {} => FirstOf(img, C) = <<>>
      /\ C # {} => FirstOf(img, C) \in C /\ FirstOf(img, C) # <<>>
      /\ Named(img, f) = {} => FirstOf(img, Named(img, f)) = <<>>
      /\ Named(img, f) # {} => FirstOf(img, Named(img, f)) \in Named(img, f)
  BY <1>3, FirstOfIs
<1>6. \A p : p \in C <=> p \in DOMAIN F /\ At(img, p).name = f /\ At(img, p).closed
  BY <1>2 DEF C
<1>. QED BY <1>2, <1>4, <1>5, <1>6 DEF FileExists

\* The chain of slot p is free again and the slot vacant.
Removed(img, d, F, p, r) ==
    /\ r \in Image /\ r.free = img.free \cup ToSet(F[p])
    /\ \A s \in AllSectors \ ToSet(F[p]) : r.link[s] = img.link[s] /\ r.data[s] = img.data[s]
    /\ \A q \in Everywhere : At(r, q) = IF q = p THEN NoEntry ELSE At(img, q)
    /\ \E G : Laid(r, d, G) /\ DOMAIN G = DOMAIN F \ {p} /\ \A q \in DOMAIN G : G[q] = F[q]

LEMMA RemoveIs ==
    ASSUME NEW img \in Image, NEW d, NEW F, Laid(img, d, F), NEW p \in DOMAIN F
    PROVE  LET r == StoreEntry(FreeChain(img, FileChain(img, p)), p, NoEntry, img.link[p[1]])
           IN  Removed(img, d, F, p, r)
<1>. DEFINE x == FreeChain(img, FileChain(img, p))
            r == StoreEntry(x, p, NoEntry, img.link[p[1]])
<1>1. /\ Path(img, d) /\ ToSet(d) \subseteq AllSectors /\ ToSet(d) \cap img.free = {}
      /\ DOMAIN F = Occupied(img, d) /\ DOMAIN F \subseteq Everywhere /\ FileChain(img, p) = F[p]
      /\ ToSet(d) \X Slots \subseteq Everywhere
  BY LaidReads, PathFacts DEF Laid
<1>2. /\ Path(img, F[p]) /\ ToSet(F[p]) \cap ToSet(d) = {} /\ F[p] \in Seq(AllSectors)
      /\ ToSet(F[p]) \subseteq Sectors /\ p[1] \in ToSet(d) /\ p[1] \in AllSectors /\ p \in Everywhere
  <2>1. Path(img, F[p]) /\ ToSet(F[p]) \cap ToSet(d) = {} /\ F[p] \in Seq(AllSectors)
    BY PathFacts DEF Laid
  <2>2. ToSet(F[p]) \subseteq Sectors
    BY LaidReads
  <2>3. p[1] \in ToSet(d) /\ p \in Everywhere
    BY <1>1 DEF Occupied
  <2>. QED BY <1>1, <2>1, <2>2, <2>3
<1>3. /\ x \in Image /\ x.free = img.free \cup ToSet(F[p]) /\ x.dir = img.dir
      /\ \A s \in AllSectors \ ToSet(F[p]) : x.link[s] = img.link[s] /\ x.data[s] = img.data[s]
  BY <1>1, <1>2, FreeChainIs
<1>. HIDE DEF x
<1>4. img.link[p[1]] \in {End} \cup AllSectors /\ NoEntry \in Fillings /\ x.link[p[1]] = img.link[p[1]]
  BY <1>2, <1>3, ImageFields DEF Fillings
<1>5. /\ r \in Image /\ r.free = x.free /\ r.data = x.data
      /\ \A s \in AllSectors : r.link[s] = IF s = p[1] /\ p[2] = 1 THEN img.link[p[1]] ELSE x.link[s]
      /\ \A q \in Everywhere : At(r, q) = IF q = p THEN NoEntry ELSE At(x, q)
  <2>1. x \in Image /\ p \in Everywhere /\ NoEntry \in Fillings /\ img.link[p[1]] \in {End} \cup AllSectors
    BY <1>2, <1>3, <1>4
  <2>2. PICK next : next = img.link[p[1]]
    OBVIOUS
  <2>3. /\ r \in Image /\ r.free = x.free /\ r.data = x.data
        /\ \A s \in AllSectors : r.link[s] = IF s = p[1] /\ p[2] = 1 THEN next ELSE x.link[s]
        /\ \A q \in Everywhere : At(r, q) = IF q = p THEN NoEntry ELSE At(x, q)
    BY <2>1, <2>2, StoreEntryIs
  <2>. HIDE DEF r
  <2>. QED BY <2>2, <2>3
<1>. HIDE DEF r
<1>6. \A s \in AllSectors \ ToSet(F[p]) : r.link[s] = img.link[s] /\ r.data[s] = img.data[s]
  BY <1>3, <1>4, <1>5
<1>7. \A q \in Everywhere : At(r, q) = IF q = p THEN NoEntry ELSE At(img, q)
  BY <1>3, <1>5 DEF At
<1>8. Occupied(r, d) = DOMAIN F \ {p}
  BY <1>1, <1>7 DEF Occupied
<1>9. \A s \in ToSet(d) : r.link[s] = img.link[s] /\ s \notin r.free
  BY <1>1, <1>2, <1>3, <1>5, <1>6
<1>10. ASSUME NEW q \in DOMAIN F \ {p}
       PROVE  /\ At(r, q).first = At(img, q).first
              /\ \A s \in ToSet(F[q]) :
                    r.link[s] = img.link[s] /\ r.data[s] = img.data[s] /\ s \notin r.free
  <2>1. At(r, q) = At(img, q)
    BY <1>1, <1>7
  <2>2. ToSet(F[q]) \subseteq AllSectors \ ToSet(F[p]) /\ ToSet(F[q]) \cap img.free = {}
    BY PathFacts DEF Laid
  <2>3. \A s \in ToSet(F[q]) : r.link[s] = img.link[s] /\ r.data[s] = img.data[s] /\ s \notin r.free
    BY <1>3, <1>5, <1>6, <2>2
  <2>. QED BY <2>1, <2>3
<1>11. Leaves(img, d, F, r)
  BY <1>8, <1>9, <1>10 DEF Leaves
<1>12. Laid(r, d, Restrict(F, Occupied(r, d)))
  BY <1>11, RelaidWhole
<1>13. \E G : Laid(r, d, G) /\ DOMAIN G = DOMAIN F \ {p} /\ \A q \in DOMAIN G : G[q] = F[q]
  <2>. WITNESS Restrict(F, Occupied(r, d))
  <2>. QED BY <1>8, <1>12 DEF Restrict
<1>. QED BY <1>3, <1>5, <1>6, <1>7, <1>13 DEF r, x, Removed

\* The entry of slot p is stored anew, with the same chain.
LEMMA RelabelIs ==
    ASSUME NEW img \in Image, NEW d, NEW F, Laid(img, d, F), NEW p \in DOMAIN F,
           NEW e \in Entry, e.first = At(img, p).first
    PROVE  LET r == StoreEntry(img, p, e, img.link[p[1]])
           IN  /\ r \in Image /\ r.free = img.free /\ r.data = img.data
               /\ \A s \in AllSectors : r.link[s] = img.link[s]
               /\ \A q \in Everywhere : At(r, q) = IF q = p THEN e ELSE At(img, q)
               /\ Laid(r, d, F)
<1>. DEFINE r == StoreEntry(img, p, e, img.link[p[1]])
<1>1. /\ ToSet(d) \subseteq AllSectors /\ DOMAIN F = Occupied(img, d) /\ DOMAIN F \subseteq Everywhere
      /\ ToSet(d) \X Slots \subseteq Everywhere /\ ToSet(d) \cap img.free = {}
  BY LaidReads DEF Laid
<1>2. p \in Everywhere /\ p[1] \in AllSectors /\ p[2] \in Slots
  BY <1>1 DEF Everywhere
<1>3. img.link[p[1]] \in {End} \cup AllSectors /\ e \in Fillings /\ e # NoEntry
  BY <1>2, ImageFields, NoEntryAssumption DEF Fillings
<1>4. /\ r \in Image /\ r.free = img.free /\ r.data = img.data
      /\ \A s \in AllSectors : r.link[s] = IF s = p[1] /\ p[2] = 1 THEN img.link[p[1]] ELSE img.link[s]
      /\ \A q \in Everywhere : At(r, q) = IF q = p THEN e ELSE At(img, q)
  BY <1>2, <1>3, StoreEntryIs
<1>. HIDE DEF r
<1>5. \A s \in AllSectors : r.link[s] = img.link[s]
  BY <1>4
<1>6. \A s \in ToSet(d) : r.link[s] = img.link[s] /\ s \notin r.free
  BY <1>1, <1>4, <1>5
<1>7. \A q \in ToSet(d) \X Slots :
         /\ At(r, q) # NoEntry <=> At(img, q) # NoEntry
         /\ At(img, q) # NoEntry => At(r, q).first = At(img, q).first
  BY <1>1, <1>3, <1>4 DEF Occupied
<1>8. \A q \in DOMAIN F : \A s \in ToSet(F[q]) :
         r.link[s] = img.link[s] /\ r.data[s] = img.data[s] /\ s \notin r.free
  <2>. SUFFICES ASSUME NEW q \in DOMAIN F PROVE ToSet(F[q]) \subseteq AllSectors /\ ToSet(F[q]) \cap r.free = {}
    BY <1>4, <1>5
  <2>. QED BY <1>4, PathFacts DEF Laid
<1>9. Laid(r, d, F)
  BY <1>6, <1>7, <1>8, LaidKept
<1>. QED BY <1>4, <1>5, <1>9 DEF r

-----------------------------------------------------------------------------
\* The directory gives up its empty sectors at the end, or takes more.

LEMMA GreatestNatural ==
    ASSUME NEW n \in Nat, NEW S \in SUBSET (1..n), S # {}
    PROVE  Max(S) \in S /\ \A k \in S : k <= Max(S)
<1>. DEFINE R == {n - k : k \in S}
<1>1. R \in SUBSET Nat /\ R # {}
  <2>1. \A k \in S : n - k \in Nat
    OBVIOUS
  <2>2. PICK k \in S : TRUE
    OBVIOUS
  <2>3. n - k \in R
    OBVIOUS
  <2>. QED BY <2>1, <2>3
<1>2. PICK m \in R : \A i \in R : m <= i
  <2>. HIDE DEF R
  <2>. QED BY <1>1, LeastNatural
<1>3. PICK k \in S : m = n - k
  OBVIOUS
<1>4. ASSUME NEW i \in S PROVE k >= i
  <2>1. n - k <= n - i
    BY <1>2, <1>3
  <2>. QED BY <2>1
<1>5. Max(S) \in S /\ \A i \in S : Max(S) >= i
  BY <1>4 DEF Max
<1>6. \A i \in S : i \in Nat
  OBVIOUS
<1>. QED BY <1>5, <1>6

LEMMA ShrinkIs ==
    ASSUME NEW img \in Image, NEW d, NEW F, Laid(img, d, F)
    PROVE  LET r == ShrinkDirChain(img)
           IN  /\ r \in Image /\ \A q : At(r, q) = At(img, q)
               /\ \A s \in AllSectors \ ToSet(d) : r.data[s] = img.data[s]
               /\ \E c, G : /\ Laid(r, c, G) /\ DOMAIN G = DOMAIN F /\ \A q \in DOMAIN F : G[q] = F[q]
                            /\ ToSet(c) \subseteq ToSet(d)
                            /\ r.free = img.free \cup (ToSet(d) \ ToSet(c))
<1>. DEFINE IsVacant(s) == img.dir[s] = EmptySector
            S == {1} \cup {k \in DOMAIN d : ~IsVacant(d[k])}
            keep == Max(S)
            freed == SubSeq(d, keep + 1, Len(d))
            x == FreeChain(img, freed)
            r == ShrinkDirChain(img)
<1>1. /\ Path(img, d) /\ d[1] = DirStart /\ DOMAIN F = Occupied(img, d)
      /\ d \in Seq(AllSectors) /\ Len(d) \in Nat /\ Len(d) > 0 /\ DOMAIN d = 1..Len(d)
      /\ \A k \in 1..Len(d) : d[k] \in AllSectors /\ d[k] \in ToSet(d)
      /\ \A i, j \in 1..Len(d) : d[i] = d[j] => i = j
      /\ ToSet(d) \subseteq AllSectors /\ ToSet(d) \cap img.free = {} /\ 1 \in 1..Len(d)
  BY PathFacts DEF Laid
<1>2. Directory(img) = d /\ ToSet(d) \X Slots \subseteq Everywhere
  BY LaidReads
<1>3. keep \in S /\ \A k \in S : k <= keep
  <2>1. S \in SUBSET (1..Len(d)) /\ S # {}
    BY <1>1
  <2>. HIDE DEF S
  <2>. QED BY <1>1, <2>1, GreatestNatural
<1>4. keep \in 1..Len(d)
  BY <1>1, <1>3
<1>5. \A k \in 1..Len(d) : k > keep => IsVacant(d[k])
  <2>. SUFFICES ASSUME NEW k \in 1..Len(d), k > keep, ~IsVacant(d[k]) PROVE FALSE
    OBVIOUS
  <2>1. k \in S
    BY <1>1
  <2>2. k <= keep
    BY <1>3, <2>1
  <2>. HIDE DEF keep
  <2>. QED BY <1>4, <2>2
<1>6. r = IF freed = <<>> THEN img ELSE [x EXCEPT !.link[d[keep]] = End]
  BY <1>2 DEF ShrinkDirChain
<1>. HIDE DEF keep, S
<1>7. Len(d) \in Nat /\ keep \in Nat /\ keep >= 1 /\ keep <= Len(d)
  BY <1>1, <1>4
<1>8. /\ freed \in Seq(AllSectors) /\ Len(freed) = Len(d) - keep
      /\ \A k \in 1..(Len(d) - keep) : freed[k] = d[keep + k]
  <2>. DEFINE from == keep + 1
  <2>1. from \in Int /\ Len(d) \in Int /\ \A i \in from..Len(d) : d[i] \in AllSectors
    <3>1. \A i \in from..Len(d) : i \in 1..Len(d)
      BY <1>7
    <3>. QED BY <1>1, <1>7, <3>1
  <2>. HIDE DEF from
  <2>2. /\ freed \in Seq(AllSectors) /\ Len(freed) = IF from <= Len(d) THEN Len(d) - from + 1 ELSE 0
        /\ \A i \in 1..(Len(d) - from + 1) : freed[i] = d[from + i - 1]
    BY <2>1, SubSeqProperties DEF from
  <2>. HIDE DEF freed
  <2>3. Len(freed) = Len(d) - keep /\ Len(d) - from + 1 = Len(d) - keep
    BY <1>7, <2>2 DEF from
  <2>4. \A i \in 1..(Len(d) - keep) : from + i - 1 = keep + i
    BY <1>7 DEF from
  <2>. QED BY <2>2, <2>3, <2>4
<1>. HIDE DEF freed
<1>9. \A s : s \in ToSet(freed) <=> \E k \in 1..Len(d) : k > keep /\ s = d[k]
  <2>0. DOMAIN freed = 1..(Len(d) - keep)
    BY <1>7, <1>8
  <2>1. ASSUME NEW s \in ToSet(freed) PROVE \E k \in 1..Len(d) : k > keep /\ s = d[k]
    <3>1. PICK i \in 1..(Len(d) - keep) : s = freed[i]
      BY <2>0 DEF ToSet
    <3>2. keep + i \in 1..Len(d) /\ keep + i > keep
      BY <1>7
    <3>. QED BY <1>8, <3>1, <3>2
  <2>2. ASSUME NEW k \in 1..Len(d), k > keep PROVE d[k] \in ToSet(freed)
    <3>1. k - keep \in 1..(Len(d) - keep) /\ keep + (k - keep) = k
      BY <1>7, <2>2
    <3>2. freed[k - keep] = d[k]
      BY <1>8, <3>1
    <3>. QED BY <2>0, <3>1, <3>2 DEF ToSet
  <2>. QED BY <2>1, <2>2
<1>10. ToSet(freed) \subseteq Sectors /\ ToSet(freed) \subseteq ToSet(d)
  <2>1. ASSUME NEW k \in 1..Len(d), k > keep PROVE d[k] \in Sectors /\ d[k] \in ToSet(d)
    <3>1. k # 1
      BY <1>7, <2>1
    <3>2. d[k] # DirStart
      BY <1>1, <3>1
    <3>. QED BY <1>1, <3>2, Geometry
  <2>. QED BY <1>9, <2>1
<1>11. \A k \in 1..keep : k \in 1..Len(d) /\ d[k] \notin ToSet(freed)
  <2>. SUFFICES ASSUME NEW k \in 1..keep PROVE k \in 1..Len(d) /\ ~\E i \in 1..Len(d) : i > keep /\ d[k] = d[i]
    BY <1>9
  <2>1. k \in 1..Len(d) /\ \A i \in 1..Len(d) : i > keep => i # k
    BY <1>7
  <2>. QED BY <1>1, <2>1
<1>12. /\ x \in Image /\ x.free = img.free \cup ToSet(freed) /\ x.dir = img.dir
       /\ \A s \in AllSectors \ ToSet(freed) : x.link[s] = img.link[s] /\ x.data[s] = img.data[s]
  BY <1>8, <1>10, FreeChainIs
<1>. HIDE DEF x
<1>13. keep \in 1..keep /\ keep \in 1..Len(d)
  BY <1>7
<1>14. /\ r \in Image /\ r.free = img.free \cup ToSet(freed) /\ r.dir = img.dir
       /\ \A s \in AllSectors \ ToSet(freed) :
             /\ r.link[s] = IF s = d[keep] THEN End ELSE img.link[s]
             /\ r.data[s] = img.data[s]
  <2>1. CASE freed = <<>>
    <3>1. r = img /\ ToSet(freed) = {}
      BY <1>6, <2>1 DEF ToSet
    <3>2. keep = Len(d)
      BY <1>7, <1>8, <2>1
    <3>3. img.link[d[keep]] = End
      BY <1>1, <3>2 DEF Path
    <3>. QED BY <3>1, <3>3
  <2>2. CASE freed # <<>>
    <3>. DEFINE newlink == [x.link EXCEPT ![d[keep]] = End]
    <3>1. newlink \in [AllSectors -> {End} \cup AllSectors]
      BY <1>12, ImageFields
    <3>2. r = [x EXCEPT !.link = newlink]
      BY <1>6, <1>12, <2>2 DEF Image
    <3>3. \A s \in AllSectors : newlink[s] = IF s = d[keep] THEN End ELSE x.link[s]
      BY <1>12, ImageFields
    <3>. HIDE DEF newlink, r
    <3>4. /\ r \in Image /\ r.free = x.free /\ r.link = newlink /\ r.data = x.data /\ r.dir = x.dir
      BY <1>12, <3>1, <3>2 DEF Image
    <3>. QED BY <1>12, <3>3, <3>4
  <2>. QED BY <2>1, <2>2
<1>. HIDE DEF r
<1>15. PICK c : c = SubSeq(d, 1, keep)
  OBVIOUS
<1>16. \A q : At(r, q) = At(img, q)
  BY <1>14 DEF At
<1>17. ToSet(c) = {d[k] : k \in 1..keep}
  <2>1. c \in Seq(AllSectors) /\ Len(c) = keep /\ \A k \in 1..keep : c[k] = d[k]
    BY <1>1, <1>13, <1>15, PrefixIs
  <2>2. ToSet(c) = {c[k] : k \in 1..keep}
    BY <2>1 DEF ToSet
  <2>. QED BY <2>1, <2>2
<1>18. ToSet(c) \subseteq ToSet(d) /\ ToSet(d) \ ToSet(c) = ToSet(freed)
  <2>1. ToSet(c) \subseteq ToSet(d) /\ ToSet(c) \cap ToSet(freed) = {}
    BY <1>1, <1>11, <1>17
  <2>2. ASSUME NEW s \in ToSet(d), s \notin ToSet(freed) PROVE s \in ToSet(c)
    <3>1. PICK k \in 1..Len(d) : s = d[k]
      BY <1>1 DEF ToSet
    <3>2. ~(k > keep)
      BY <1>9, <2>2, <3>1
    <3>3. k \in 1..keep
      BY <1>7, <3>2
    <3>. QED BY <1>17, <3>1, <3>3
  <2>. QED BY <1>10, <2>1, <2>2
<1>19. Occupied(r, c) = DOMAIN F
  <2>1. ASSUME NEW q \in Occupied(img, d) PROVE q[1] \in ToSet(c)
    <3>1. q \in ToSet(d) \X Slots /\ At(img, q) # NoEntry /\ q[1] \in ToSet(d) /\ q[2] \in Slots
      BY DEF Occupied
    <3>2. q[1] \notin ToSet(freed)
      <4>. SUFFICES ASSUME NEW k \in 1..Len(d), k > keep, q[1] = d[k] PROVE FALSE
        BY <1>9
      <4>1. img.dir[q[1]] = EmptySector
        BY <1>5
      <4>. QED BY <3>1, <4>1 DEF At, EmptySector
    <3>. QED BY <1>18, <3>1, <3>2
  <2>2. Occupied(r, c) \subseteq Occupied(img, d)
    BY <1>16, <1>18 DEF Occupied
  <2>3. Occupied(img, d) \subseteq Occupied(r, c)
    BY <1>16, <2>1 DEF Occupied
  <2>. QED BY <1>1, <2>2, <2>3
<1>20. CutAfter(img, d, F, r, keep, c)
  <2>1. \A k \in 1..(keep - 1) : r.link[d[k]] = img.link[d[k]]
    <3>. SUFFICES ASSUME NEW k \in 1..(keep - 1) PROVE r.link[d[k]] = img.link[d[k]]
      OBVIOUS
    <3>1. k \in 1..keep /\ k # keep
      BY <1>7
    <3>2. d[k] \in AllSectors \ ToSet(freed) /\ d[k] # d[keep]
      BY <1>1, <1>11, <1>13, <3>1
    <3>. QED BY <1>14, <3>2
  <2>2. r.link[d[keep]] = End
    BY <1>1, <1>11, <1>13, <1>14
  <2>3. \A k \in 1..keep : d[k] \notin r.free
    BY <1>1, <1>11, <1>14
  <2>4. ASSUME NEW q \in DOMAIN F
        PROVE  \A s \in ToSet(F[q]) : r.link[s] = img.link[s] /\ r.data[s] = img.data[s] /\ s \notin r.free
    <3>1. ToSet(F[q]) \subseteq AllSectors /\ ToSet(F[q]) \cap ToSet(d) = {} /\ ToSet(F[q]) \cap img.free = {}
      BY PathFacts DEF Laid
    <3>2. d[keep] \in ToSet(d)
      BY <1>1, <1>13
    <3>. QED BY <1>10, <1>14, <3>1, <3>2
  <2>. QED BY <1>13, <1>15, <1>16, <1>19, <2>1, <2>2, <2>3, <2>4 DEF CutAfter
<1>21. Laid(r, c, Restrict(F, Occupied(r, c)))
  BY <1>20, Relaid
<1>22. \E G : Laid(r, c, G) /\ DOMAIN G = DOMAIN F /\ \A q \in DOMAIN F : G[q] = F[q]
  <2>. WITNESS Restrict(F, Occupied(r, c))
  <2>. QED BY <1>19, <1>21 DEF Restrict
<1>23. \A s \in AllSectors \ ToSet(d) : r.data[s] = img.data[s]
  BY <1>10, <1>14
<1>24. r.free = img.free \cup (ToSet(d) \ ToSet(c))
  BY <1>14, <1>18
<1>. QED BY <1>14, <1>16, <1>18, <1>22, <1>23, <1>24 DEF r

\* Some directory of r holds the files of F, and has the sectors that left the free ones.
Extended(img, d, F, r) ==
    /\ r \in Image /\ r.free \subseteq img.free
    /\ \A q \in DOMAIN F : At(r, q) = At(img, q)
    /\ \A s \in AllSectors \ img.free : r.data[s] = img.data[s]
    /\ \E c : Laid(r, c, F) /\ ToSet(c) = ToSet(d) \cup (img.free \ r.free)

LEMMA ExtendedOnce ==
    ASSUME NEW img \in Image, NEW d, NEW F, Laid(img, d, F),
           NEW m, Extended(img, d, F, m), NEW s \in m.free
    PROVE  Extended(img, d, F, Extend(m, s)) /\ Extend(m, s).free = m.free \ {s}
<1>. DEFINE r == Extend(m, s)
<1>1. PICK b : Laid(m, b, F) /\ ToSet(b) = ToSet(d) \cup (img.free \ m.free)
  BY DEF Extended
<1>2. m \in Image /\ m.free \subseteq img.free
  BY DEF Extended
<1>3. /\ r \in Image /\ r.free = m.free \ {s} /\ Laid(r, Append(b, s), F)
      /\ s \notin ToSet(b) /\ ToSet(Append(b, s)) = ToSet(b) \cup {s}
      /\ \A t \in AllSectors \ {s} : r.data[t] = m.data[t]
      /\ \A p \in Everywhere : At(r, p) = IF p[1] = s THEN NoEntry ELSE At(m, p)
  BY <1>1, <1>2, ExtendIs
<1>. HIDE DEF r
<1>4. ASSUME NEW q \in DOMAIN F PROVE At(r, q) = At(img, q)
  <2>1. q \in Everywhere
    BY <1>1, <1>2, LaidReads
  <2>2. q[1] \in ToSet(b)
    BY <1>1 DEF Laid, Occupied
  <2>. QED BY <1>3, <2>1, <2>2 DEF Extended
<1>5. \A t \in AllSectors \ img.free : r.data[t] = img.data[t]
  BY <1>2, <1>3 DEF Extended
<1>6. ToSet(Append(b, s)) = ToSet(d) \cup (img.free \ r.free)
  BY <1>1, <1>2, <1>3
<1>. QED BY <1>2, <1>3, <1>4, <1>5, <1>6 DEF Extended, r

\* The image after each of the sectors secs was appended.
Growing(img, secs, g, n) ==
    g = [j \in 0..n |-> IF j = 0 THEN img ELSE Extend(g[j - 1], secs[j])]

LEMMA GrowingExists ==
    ASSUME NEW img, NEW secs
    PROVE  \A n \in Nat : \E g : Growing(img, secs, g, n)
<1>. DEFINE S == {n \in Nat : ~\E g : Growing(img, secs, g, n)}
<1>. SUFFICES ASSUME S # {} PROVE FALSE
  OBVIOUS
<1>1. PICK n \in S : \A i \in S : n <= i
  BY LeastNatural
<1>2. CASE n = 0
  <2>. DEFINE g == [j \in 0..0 |-> img]
  <2>1. g = [j \in 0..0 |-> IF j = 0 THEN img ELSE Extend(g[j - 1], secs[j])]
    OBVIOUS
  <2>. HIDE DEF g
  <2>2. Growing(img, secs, g, 0)
    BY <2>1 DEF Growing
  <2>. QED BY <1>2, <2>2
<1>3. CASE n # 0
  <2>1. n - 1 \in Nat /\ n - 1 \notin S
    BY <1>1, <1>3
  <2>2. PICK v : Growing(img, secs, v, n - 1)
    BY <2>1
  <2>. DEFINE g == [j \in 0..n |-> IF j = n THEN Extend(v[n - 1], secs[n]) ELSE v[j]]
  <2>3. \A j \in 0..(n - 1) : v[j] = IF j = 0 THEN img ELSE Extend(v[j - 1], secs[j])
    BY <2>2, Zenon DEF Growing
  <2>4. ASSUME NEW j \in 0..n PROVE g[j] = IF j = 0 THEN img ELSE Extend(g[j - 1], secs[j])
    <3>1. CASE j = n
      <4>1. n - 1 \in 0..n /\ n - 1 # n /\ j # 0
        BY <1>3, <3>1
      <4>. QED BY <3>1, <4>1
    <3>2. CASE j # n
      <4>1. j \in 0..(n - 1) /\ (j # 0 => j - 1 \in 0..n /\ j - 1 # n)
        BY <3>2
      <4>. QED BY <2>3, <3>2, <4>1
    <3>. QED BY <3>1, <3>2
  <2>5. g = [j \in 0..n |-> g[j]]
    OBVIOUS
  <2>. HIDE DEF g
  <2>6. g = [j \in 0..n |-> IF j = 0 THEN img ELSE Extend(g[j - 1], secs[j])]
    BY <2>4, <2>5
  <2>7. Growing(img, secs, g, n)
    BY <2>6 DEF Growing
  <2>. QED BY <2>7
<1>. QED BY <1>2, <1>3

LEMMA VacantFinite ==
    ASSUME NEW img \in Image, NEW d, NEW F, Laid(img, d, F)
    PROVE  IsFiniteSet(Vacant(img)) /\ Cardinality(Vacant(img)) \in Nat
<1>1. IsFiniteSet(AllSectors) /\ IsFiniteSet(Slots)
  <2>1. 1 \in Int /\ DirStart \in Int /\ SlotCount \in Int
    BY Geometry
  <2>. QED BY <2>1, FS_Interval DEF AllSectors, Slots
<1>2. IsFiniteSet(Everywhere)
  BY <1>1, FS_Product DEF Everywhere
<1>3. Vacant(img) \subseteq Everywhere
  BY LaidReads DEF Vacant
<1>. QED BY <1>2, <1>3, FS_Subset, FS_CardinalityType

LEMMA Quotient ==
    ASSUME NEW a \in Nat, NEW b \in Nat, b >= 1
    PROVE  a \div b \in Nat
<1>1. a \div b \in Int /\ a % b \in 0..(b - 1) /\ a = b * (a \div b) + (a % b)
  OBVIOUS
<1>2. PICK q \in Int : q = a \div b
  BY <1>1
<1>3. ASSUME q < 0 PROVE FALSE
  <2>1. b * q <= -b
    BY <1>3
  <2>. QED BY <1>1, <1>2, <2>1
<1>. QED BY <1>2, <1>3

LEMMA EnsureIs ==
    ASSUME NEW img \in Image, NEW d, NEW F, Laid(img, d, F), NEW k \in Nat
    PROVE  LET a == EnsureDirCapacity(img, k)
           IN  /\ a.ok \in BOOLEAN
               /\ ~a.ok => a.img = img
               /\ a.ok => Extended(img, d, F, a.img)
<1>. DEFINE have == Cardinality(Vacant(img))
            more == IF have >= k THEN 0 ELSE ((k - have) + SlotCount - 1) \div SlotCount
            secs == NextFree(img, more)
            g == CHOOSE v : Growing(img, secs, v, more)
            a == EnsureDirCapacity(img, k)
<1>1. more \in Nat
  <2>1. have \in Nat /\ SlotCount \in Nat /\ SlotCount >= 1
    BY VacantFinite, Geometry
  <2>. HIDE DEF have
  <2>2. ~(have >= k) => (k - have) + SlotCount - 1 \in Nat
    BY <2>1
  <2>. QED BY <2>1, <2>2, Quotient
<1>2. a = IF more > Cardinality(img.free) THEN Failed(img) ELSE Done(g[more])
  BY DEF EnsureDirCapacity, Growing
<1>. HIDE DEF more, a
<1>3. Growing(img, secs, g, more)
  BY <1>1, GrowingExists
<1>4. CASE more > Cardinality(img.free)
  <2>1. a.ok = FALSE /\ a.img = img
    BY <1>2, <1>4 DEF Failed
  <2>. QED BY <2>1 DEF a
<1>5. CASE ~(more > Cardinality(img.free))
  <2>1. more \in 0..Cardinality(img.free)
    BY <1>1, <1>5, FreeFinite
  <2>2. /\ Len(secs) = more /\ secs \in Seq(AllSectors) /\ IsInjective(secs) /\ ToSet(secs) \subseteq img.free
    BY <2>1, NextFreeIs
  <2>. HIDE DEF secs, g
  <2>3. g[0] = img /\ \A j \in 1..more : g[j] = Extend(g[j - 1], secs[j])
    <3>1. 0 \in 0..more /\ \A j \in 1..more : j \in 0..more /\ j # 0
      BY <1>1
    <3>2. \A j \in 0..more : g[j] = IF j = 0 THEN img ELSE Extend(g[j - 1], secs[j])
      BY <1>3, Zenon DEF Growing
    <3>. QED BY <3>1, <3>2
  <2>. DEFINE Good(j) == /\ Extended(img, d, F, g[j])
                         /\ \A i \in 1..more : i > j => secs[i] \in g[j].free
              Bad == {j \in 0..more : ~Good(j)}
  <2>4. Good(0)
    <3>1. Extended(img, d, F, img)
      BY DEF Extended
    <3>2. \A i \in 1..more : secs[i] \in img.free
      BY <2>2 DEF ToSet
    <3>. QED BY <2>3, <3>1, <3>2
  <2>5. ASSUME NEW j \in 1..more, Good(j - 1) PROVE Good(j)
    <3>0. j > j - 1 /\ \A i \in 1..more : i > j => i > j - 1 /\ i # j
      OBVIOUS
    <3>1. secs[j] \in g[j - 1].free
      BY <2>5, <3>0
    <3>2. Extended(img, d, F, g[j]) /\ g[j].free = g[j - 1].free \ {secs[j]}
      BY <2>3, <2>5, <3>1, ExtendedOnce
    <3>3. ASSUME NEW i \in 1..more, i > j PROVE secs[i] \in g[j].free
      <4>1. secs[i] \in g[j - 1].free
        BY <2>5, <3>0, <3>3
      <4>2. secs[i] # secs[j]
        BY <2>2, <3>0, <3>3 DEF IsInjective
      <4>. QED BY <3>2, <4>1, <4>2
    <3>. QED BY <3>2, <3>3
  <2>. HIDE DEF Good
  <2>6. Bad = {}
    <3>. SUFFICES ASSUME Bad # {} PROVE FALSE
      OBVIOUS
    <3>1. Bad \in SUBSET Nat
      BY <1>1
    <3>2. PICK j \in Bad : \A i \in Bad : j <= i
      <4>. HIDE DEF Bad
      <4>. QED BY <3>1, LeastNatural
    <3>3. j # 0
      BY <2>4
    <3>4. j \in 1..more /\ j - 1 \in 0..more /\ ~(j <= j - 1)
      BY <1>1, <3>3
    <3>5. Good(j - 1)
      BY <3>2, <3>4
    <3>. QED BY <2>5, <3>4, <3>5
  <2>7. more \in 0..more
    BY <1>1
  <2>8. Extended(img, d, F, g[more])
    BY <2>6, <2>7 DEF Good
  <2>9. a.ok = TRUE /\ a.img = g[more]
    BY <1>2, <1>5 DEF Done
  <2>. QED BY <2>8, <2>9 DEF a
<1>. QED BY <1>4, <1>5

-----------------------------------------------------------------------------
\* What an operation does to the files it does not name, and to the sectors nobody owns.

Kept(img, r, on) == \A f \in Names \ on : Held(r, f) = Held(img, f)

Unchanged(img, F, r, G, p) ==
    /\ p \in DOMAIN F /\ p \in DOMAIN G
    /\ G[p] = F[p] /\ At(r, p) = At(img, p)
    /\ \A s \in ToSet(F[p]) : r.data[s] = img.data[s]

Untouched(img, F, r, G, on) ==
    /\ \A p \in DOMAIN F : Unchanged(img, F, r, G, p) \/ At(img, p).name \in on
    /\ \A p \in DOMAIN G : Unchanged(img, F, r, G, p) \/ At(r, p).name \in on

LEMMA ContentsSame ==
    ASSUME NEW img, NEW r, NEW p, NEW c, Path(img, c), FileChain(img, p) = c, FileChain(r, p) = c,
           \A s \in ToSet(c) : r.data[s] = img.data[s]
    PROVE  Contents(r, p) = Contents(img, p)
<1>. DEFINE used(i) == IF i.data[Last(c)] = Nothing THEN Len(c) - 1 ELSE Len(c)
<1>1. Len(c) \in Nat /\ Len(c) > 0 /\ \A k \in 1..Len(c) : c[k] \in ToSet(c)
  BY PathFacts
<1>2. Last(c) = c[Len(c)] /\ Len(c) \in 1..Len(c)
  BY <1>1 DEF Last
<1>3. used(r) = used(img)
  BY <1>1, <1>2
<1>4. \A k \in 1..used(img) : k \in 1..Len(c)
  BY <1>1
<1>5. Contents(r, p) = [k \in 1..used(r) |-> r.data[c[k]]]
      /\ Contents(img, p) = [k \in 1..used(img) |-> img.data[c[k]]]
  BY DEF Contents
<1>. HIDE DEF used
<1>6. \A k \in 1..used(img) : r.data[c[k]] = img.data[c[k]]
  BY <1>1, <1>4
<1>. QED BY <1>3, <1>5, <1>6

LEMMA HeldKept ==
    ASSUME NEW img \in Image, NEW d, NEW F, Laid(img, d, F),
           NEW r \in Image, NEW c, NEW G, Laid(r, c, G), NEW on, Untouched(img, F, r, G, on)
    PROVE  Kept(img, r, on)
<1>. SUFFICES ASSUME NEW f \in Names \ on PROVE Held(r, f) = Held(img, f)
  BY DEF Kept
<1>1. Listed(img) = DOMAIN F /\ Listed(r) = DOMAIN G
  BY LaidReads
<1>2. ASSUME NEW p PROVE /\ p \in Named(img, f) <=> p \in Named(r, f)
                         /\ p \in Named(img, f) => Unchanged(img, F, r, G, p)
  <2>1. p \in Named(img, f) => Unchanged(img, F, r, G, p)
    BY <1>1 DEF Named, Untouched
  <2>2. p \in Named(r, f) => Unchanged(img, F, r, G, p)
    BY <1>1 DEF Named, Untouched
  <2>3. Unchanged(img, F, r, G, p) => (p \in Named(img, f) <=> p \in Named(r, f))
    BY <1>1 DEF Named, Unchanged
  <2>. QED BY <2>1, <2>2, <2>3
<1>3. Named(r, f) = Named(img, f)
  BY <1>2
<1>4. ASSUME NEW p \in Named(img, f)
      PROVE  Contents(r, p) = Contents(img, p) /\ At(r, p) = At(img, p)
  <2>1. p \in DOMAIN F /\ p \in DOMAIN G /\ G[p] = F[p] /\ At(r, p) = At(img, p)
        /\ \A s \in ToSet(F[p]) : r.data[s] = img.data[s]
    BY <1>2 DEF Unchanged
  <2>2. FileChain(img, p) = F[p] /\ FileChain(r, p) = F[p]
    BY <2>1, LaidReads
  <2>3. Path(img, F[p])
    BY <2>1 DEF Laid
  <2>4. Contents(r, p) = Contents(img, p)
    BY <2>1, <2>2, <2>3, ContentsSame
  <2>. QED BY <2>1, <2>4
<1>. QED BY <1>3, <1>4 DEF Held

LEMMA KeptTwice ==
    ASSUME NEW img, NEW m, NEW r, NEW on, Kept(img, m, on), Kept(m, r, on)
    PROVE  Kept(img, r, on)
BY DEF Kept

LEMMA OwnedIs ==
    ASSUME NEW img \in Image, NEW d, NEW F, Laid(img, d, F)
    PROVE  /\ Owned(img) = ToSet(d) \cup UNION {ToSet(F[p]) : p \in DOMAIN F}
           /\ Owned(img) \cap img.free = {}
<1>1. Directory(img) = d /\ Listed(img) = DOMAIN F /\ \A p \in DOMAIN F : FileChain(img, p) = F[p]
  BY LaidReads
<1>2. Owned(img) = ToSet(d) \cup UNION {ToSet(F[p]) : p \in DOMAIN F}
  BY <1>1 DEF Owned
<1>. QED BY <1>2 DEF Laid

\* What a call may do: keep the rest, or overwrite a link of the directory.
Overwrote(img, r, on) ==
    \E s \in ToSet(Directory(img)) :
        /\ img.link[s] # End
        /\ r.link[s] # img.link[s]
        /\ \/ r.dir[s][1] # img.dir[s][1]
           \/ \E f \in on : img.dir[s][1] # NoEntry /\ img.dir[s][1].name = f

Outcome(img, r, ok, on) ==
    /\ Sound(r)
    /\ Kept(img, r, on) \/ Overwrote(img, r, on)
    /\ ok => Orphans(r) \subseteq Orphans(img) \/ Overwrote(img, r, on)

LEMMA OutcomeNone ==
    ASSUME NEW img, Sound(img), NEW ok, NEW on
    PROVE  Outcome(img, img, ok, on)
BY DEF Outcome, Kept

LEMMA SeveredOverwrote ==
    ASSUME NEW img, NEW r, NEW on, Severed(img, r)
    PROVE  Overwrote(img, r, on)
BY DEF Severed, Exposed, Overwrote, At

LEMMA DataGrown ==
    ASSUME NEW img \in Image, NEW d, NEW F, Laid(img, d, F), NEW r, Grows(img, r), NEW p \in DOMAIN F
    PROVE  \A s \in ToSet(F[p]) : r.data[s] = img.data[s]
<1>1. ToSet(F[p]) \subseteq AllSectors \ img.free
  BY PathFacts DEF Laid
<1>. QED BY <1>1 DEF Grows

LEMMA AddFileKeeps ==
    ASSUME NEW img, Sound(img), NEW f \in Names, NEW content \in Seq(Values)
    PROVE  LET a == AddFile(img, f, content)
           IN  /\ a.ok \in BOOLEAN /\ Sound(a.img) /\ Grows(img, a.img)
               /\ \/ Severed(img, a.img)
                  \/ /\ Kept(img, a.img, {f}) /\ Exposed(a.img) \subseteq Exposed(img)
                     /\ a.ok => Orphans(a.img) \subseteq Orphans(img)
<1>. DEFINE a == AddFile(img, f, content)
<1>1. img \in Image
  BY DEF Sound
<1>2. PICK d, F : Laid(img, d, F)
  BY DEF Sound
<1>3. /\ a.ok \in BOOLEAN /\ a.img \in Image /\ Grows(img, a.img)
      /\ ~a.ok => Laid(a.img, d, F) /\ a.img.dir = img.dir /\ Exposed(a.img) = Exposed(img)
      /\ a.ok => \E secs, p, c, G :
            /\ Added(img, F, a.img, c, G, p, [name |-> f, first |-> secs[1], closed |-> TRUE], secs)
            /\ Holds(a.img, secs, content)
            /\ NothingLost(img, d, F, a.img, c, G, p) \/ Severed(img, a.img)
  BY <1>1, <1>2, AddFileIs
<1>. HIDE DEF a
<1>4. CASE ~a.ok
  <2>1. \A q : At(a.img, q) = At(img, q)
    BY <1>3, <1>4 DEF At
  <2>2. Untouched(img, F, a.img, F, {f})
    BY <1>1, <1>2, <1>3, <2>1, DataGrown DEF Untouched, Unchanged
  <2>3. Kept(img, a.img, {f})
    BY <1>1, <1>2, <1>3, <1>4, <2>2, HeldKept
  <2>. QED BY <1>3, <1>4, <2>3 DEF Sound, a
<1>5. CASE a.ok
  <2>1. PICK secs, p, c, G :
            /\ Added(img, F, a.img, c, G, p, [name |-> f, first |-> secs[1], closed |-> TRUE], secs)
            /\ NothingLost(img, d, F, a.img, c, G, p) \/ Severed(img, a.img)
    BY <1>3, <1>5
  <2>2. /\ Laid(a.img, c, G) /\ p \in DOMAIN G /\ p \notin DOMAIN F /\ At(a.img, p).name = f
        /\ \A q \in DOMAIN G \ {p} : q \in DOMAIN F /\ G[q] = F[q] /\ At(a.img, q) = At(img, q)
    BY <2>1 DEF Added
  <2>3. Sound(a.img)
    BY <1>3, <2>2 DEF Sound
  <2>4. ASSUME NothingLost(img, d, F, a.img, c, G, p)
        PROVE  /\ Kept(img, a.img, {f}) /\ Exposed(a.img) \subseteq Exposed(img)
               /\ Orphans(a.img) \subseteq Orphans(img)
    <3>1. /\ DOMAIN G = DOMAIN F \cup {p} /\ Exposed(a.img) \subseteq Exposed(img)
          /\ ToSet(c) \cup ToSet(G[p]) = ToSet(d) \cup (img.free \ a.img.free)
      BY <2>4 DEF NothingLost
    <3>2. Untouched(img, F, a.img, G, {f})
      <4>1. ASSUME NEW q \in DOMAIN F PROVE Unchanged(img, F, a.img, G, q)
        <5>1. \A s \in ToSet(F[q]) : a.img.data[s] = img.data[s]
          BY <1>1, <1>2, <1>3, DataGrown
        <5>. QED BY <2>2, <3>1, <5>1 DEF Unchanged
      <4>. QED BY <2>2, <4>1 DEF Untouched
    <3>3. Kept(img, a.img, {f})
      BY <1>1, <1>2, <1>3, <2>2, <3>2, HeldKept
    <3>4. /\ Owned(img) = ToSet(d) \cup UNION {ToSet(F[q]) : q \in DOMAIN F}
          /\ Owned(a.img) = ToSet(c) \cup UNION {ToSet(G[q]) : q \in DOMAIN G}
      BY <1>1, <1>2, <1>3, <2>2, OwnedIs
    <3>5. ASSUME NEW s \in Orphans(a.img) PROVE s \in Orphans(img)
      <4>1. /\ s \in Sectors /\ s \notin a.img.free /\ s \notin ToSet(c)
            /\ \A q \in DOMAIN G : s \notin ToSet(G[q])
        BY <3>4 DEF Orphans
      <4>2. s \notin ToSet(d) /\ s \notin img.free
        BY <2>2, <3>1, <4>1
      <4>3. \A q \in DOMAIN F : s \notin ToSet(F[q])
        BY <2>2, <3>1, <4>1
      <4>. QED BY <3>4, <4>1, <4>2, <4>3 DEF Orphans
    <3>. QED BY <3>1, <3>3, <3>5
  <2>. QED BY <1>3, <2>1, <2>3, <2>4 DEF a
<1>. QED BY <1>3, <1>4, <1>5

\* An outcome for a layout that is known.
LEMMA OutcomeIs ==
    ASSUME NEW img \in Image, NEW d, NEW F, Laid(img, d, F),
           NEW r \in Image, NEW c, NEW G, Laid(r, c, G), NEW on, Untouched(img, F, r, G, on),
           \A s \in Sectors \ r.free :
              \/ s \in ToSet(c) \/ \E q \in DOMAIN G : s \in ToSet(G[q])
              \/ s \notin img.free /\ s \notin ToSet(d) /\ \A q \in DOMAIN F : s \notin ToSet(F[q]),
           NEW ok
    PROVE  Outcome(img, r, ok, on) /\ Kept(img, r, on) /\ Orphans(r) \subseteq Orphans(img)
<1>1. Kept(img, r, on)
  BY HeldKept
<1>2. /\ Owned(img) = ToSet(d) \cup UNION {ToSet(F[q]) : q \in DOMAIN F}
      /\ Owned(r) = ToSet(c) \cup UNION {ToSet(G[q]) : q \in DOMAIN G}
  BY OwnedIs
<1>3. Orphans(r) \subseteq Orphans(img)
  BY <1>2 DEF Orphans
<1>4. Sound(r)
  BY DEF Sound
<1>. QED BY <1>1, <1>3, <1>4 DEF Outcome

\* The directory keeps its chain, and the first slots of its sectors but for a file f.
SameDirectory(img, r, f) ==
    /\ Directory(r) = Directory(img)
    /\ \A s \in ToSet(Directory(img)) :
          /\ r.link[s] = img.link[s]
          /\ \/ At(r, <<s, 1>>) = At(img, <<s, 1>>)
             \/ At(img, <<s, 1>>) # NoEntry /\ At(img, <<s, 1>>).name = f

LEMMA RemoveFileKeeps ==
    ASSUME NEW img, Sound(img), NEW f, NEW a, a = RemoveFile(img, f)
    PROVE  /\ a.ok \in BOOLEAN /\ Outcome(img, a.img, a.ok, {f})
           /\ Kept(img, a.img, {f}) /\ Orphans(a.img) \subseteq Orphans(img)
           /\ SameDirectory(img, a.img, f)
<1>. DEFINE p == FindFileEntry(img, f)
<1>1. img \in Image
  BY DEF Sound
<1>2. PICK d, F : Laid(img, d, F)
  BY DEF Sound
<1>3. CASE p = <<>>
  <2>1. a.ok = FALSE /\ a.img = img
    BY <1>3 DEF RemoveFile, Failed
  <2>. QED BY <2>1, OutcomeNone DEF Kept, SameDirectory
<1>4. CASE p # <<>>
  <2>1. p \in DOMAIN F /\ At(img, p).name = f
    BY <1>1, <1>2, <1>4, FindsIs
  <2>. DEFINE r == StoreEntry(FreeChain(img, FileChain(img, p)), p, NoEntry, img.link[p[1]])
  <2>2. a.ok = TRUE /\ a.img = r
    BY <1>4 DEF RemoveFile, Done
  <2>. HIDE DEF p
  <2>3. /\ r \in Image /\ r.free = img.free \cup ToSet(F[p])
        /\ \A s \in AllSectors \ ToSet(F[p]) : r.link[s] = img.link[s] /\ r.data[s] = img.data[s]
        /\ \A q \in Everywhere : At(r, q) = IF q = p THEN NoEntry ELSE At(img, q)
        /\ \E G : Laid(r, d, G) /\ DOMAIN G = DOMAIN F \ {p} /\ \A q \in DOMAIN G : G[q] = F[q]
    <3>1. Removed(img, d, F, p, r)
      BY <1>1, <1>2, <2>1, RemoveIs
    <3>. QED BY <3>1 DEF Removed
  <2>. HIDE DEF r
  <2>4. PICK G : Laid(r, d, G) /\ DOMAIN G = DOMAIN F \ {p} /\ \A q \in DOMAIN G : G[q] = F[q]
    BY <2>3
  <2>5. DOMAIN F \subseteq Everywhere /\ Directory(img) = d /\ Directory(r) = d
        /\ ToSet(d) \subseteq AllSectors /\ DOMAIN F = Occupied(img, d)
    <3>1. Directory(r) = d
      BY <2>3, <2>4, LaidReads
    <3>2. DOMAIN F \subseteq Everywhere /\ Directory(img) = d /\ ToSet(d) \subseteq AllSectors
      BY <1>1, <1>2, LaidReads
    <3>. QED BY <1>2, <3>1, <3>2 DEF Laid
  <2>6. Untouched(img, F, r, G, {f})
    <3>1. ASSUME NEW q \in DOMAIN F \ {p} PROVE Unchanged(img, F, r, G, q)
      <4>1. ToSet(F[q]) \subseteq AllSectors \ ToSet(F[p])
        BY <1>2, <2>1, PathFacts DEF Laid
      <4>2. At(r, q) = At(img, q)
        BY <2>3, <2>5
      <4>. QED BY <2>3, <2>4, <4>1, <4>2 DEF Unchanged
    <3>. QED BY <2>1, <2>4, <3>1 DEF Untouched
  <2>7. \A s \in Sectors \ r.free :
              \/ s \in ToSet(d) \/ \E q \in DOMAIN G : s \in ToSet(G[q])
              \/ s \notin img.free /\ s \notin ToSet(d) /\ \A q \in DOMAIN F : s \notin ToSet(F[q])
    BY <2>3, <2>4
  <2>8. Outcome(img, r, TRUE, {f}) /\ Kept(img, r, {f}) /\ Orphans(r) \subseteq Orphans(img)
    BY <1>1, <1>2, <2>3, <2>4, <2>6, <2>7, OutcomeIs, ZenonT(30)
  <2>9. ASSUME NEW s \in ToSet(d)
        PROVE  /\ r.link[s] = img.link[s]
               /\ \/ At(r, <<s, 1>>) = At(img, <<s, 1>>)
                  \/ At(img, <<s, 1>>) # NoEntry /\ At(img, <<s, 1>>).name = f
    <3>1. s \in AllSectors \ ToSet(F[p]) /\ <<s, 1>> \in Everywhere
      BY <1>2, <2>1, <2>5, Geometry DEF Laid, Everywhere
    <3>2. <<s, 1>> = p => At(img, <<s, 1>>) # NoEntry /\ At(img, <<s, 1>>).name = f
      BY <2>1, <2>5 DEF Occupied
    <3>. QED BY <2>3, <3>1, <3>2
  <2>. QED BY <2>2, <2>5, <2>8, <2>9 DEF SameDirectory
<1>. QED BY <1>3, <1>4

LEMMA RelabelKeeps ==
    ASSUME NEW img \in Image, NEW d, NEW F, Laid(img, d, F), NEW p \in DOMAIN F,
           NEW e \in Entry, e.first = At(img, p).first,
           NEW on, At(img, p).name \in on, e.name \in on, NEW ok
    PROVE  Outcome(img, StoreEntry(img, p, e, img.link[p[1]]), ok, on)
<1>. DEFINE r == StoreEntry(img, p, e, img.link[p[1]])
<1>1. /\ r \in Image /\ r.free = img.free /\ r.data = img.data
      /\ \A q \in Everywhere : At(r, q) = IF q = p THEN e ELSE At(img, q)
      /\ Laid(r, d, F)
  BY RelabelIs
<1>. HIDE DEF r
<1>2. DOMAIN F \subseteq Everywhere
  BY LaidReads
<1>3. Untouched(img, F, r, F, on)
  <2>1. ASSUME NEW q \in DOMAIN F \ {p} PROVE Unchanged(img, F, r, F, q)
    BY <1>1, <1>2 DEF Unchanged
  <2>2. At(r, p) = e
    BY <1>1, <1>2
  <2>. QED BY <2>1, <2>2 DEF Untouched
<1>4. \A s \in Sectors \ r.free :
              \/ s \in ToSet(d) \/ \E q \in DOMAIN F : s \in ToSet(F[q])
              \/ s \notin img.free /\ s \notin ToSet(d) /\ \A q \in DOMAIN F : s \notin ToSet(F[q])
  BY <1>1
<1>5. Outcome(img, r, ok, on)
  BY <1>1, <1>3, <1>4, OutcomeIs
<1>. QED BY <1>5 DEF r

LEMMA RenameEntryKeeps ==
    ASSUME NEW img, Sound(img), NEW f \in Names, NEW g \in Names, NEW p, NEW ok,
           p # <<>>, p = FindFileEntry(img, f) \/ p = FindAnyEntry(img, f)
    PROVE  Outcome(img, RenameEntry(img, p, g), ok, {f, g})
<1>1. img \in Image
  BY DEF Sound
<1>2. PICK d, F : Laid(img, d, F)
  BY DEF Sound
<1>3. p \in DOMAIN F /\ At(img, p).name = f
  BY <1>1, <1>2, FindsIs
<1>4. At(img, p) \in Entry
  BY <1>1, <1>2, <1>3, LaidReads
<1>5. PICK e : e = [At(img, p) EXCEPT !.name = g]
  OBVIOUS
<1>6. e \in Entry /\ e.first = At(img, p).first /\ e.name = g
  BY <1>4, <1>5 DEF Entry
<1>7. Outcome(img, StoreEntry(img, p, e, img.link[p[1]]), ok, {f, g})
  BY <1>1, <1>2, <1>3, <1>6, RelabelKeeps
<1>. QED BY <1>5, <1>7 DEF RenameEntry

LEMMA RenameFileKeeps ==
    ASSUME NEW img, Sound(img), NEW f \in Names, NEW g \in Names, NEW ok
    PROVE  LET a == RenameFile(img, f, g)
           IN  a.ok \in BOOLEAN /\ Outcome(img, a.img, ok, {f, g})
<1>. DEFINE a == RenameFile(img, f, g)
<1>1. CASE ~FileExists(img, f) \/ FileExists(img, g)
  <2>1. a.ok = FALSE /\ a.img = img
    BY <1>1 DEF RenameFile, Failed
  <2>. HIDE DEF a
  <2>. QED BY <2>1, OutcomeNone DEF a
<1>2. CASE ~(~FileExists(img, f) \/ FileExists(img, g))
  <2>1. PICK p : p = FindFileEntry(img, f)
    OBVIOUS
  <2>2. a.ok = TRUE /\ a.img = RenameEntry(img, p, g)
    BY <1>2, <2>1 DEF RenameFile, Done
  <2>3. p # <<>>
    BY <1>2, <2>1 DEF FileExists
  <2>4. Outcome(img, RenameEntry(img, p, g), ok, {f, g})
    BY <2>1, <2>3, RenameEntryKeeps
  <2>. HIDE DEF a
  <2>. QED BY <2>2, <2>4 DEF a
<1>. QED BY <1>1, <1>2

LEMMA SetClosedKeeps ==
    ASSUME NEW img, Sound(img), NEW f \in Names, NEW closed \in BOOLEAN, NEW ok
    PROVE  LET a == SetClosed(img, f, closed)
           IN  a.ok \in BOOLEAN /\ Outcome(img, a.img, ok, {f})
<1>. DEFINE a == SetClosed(img, f, closed)
<1>0. PICK p : p = FindAnyEntry(img, f)
  OBVIOUS
<1>1. CASE p = <<>>
  <2>1. a.ok = FALSE /\ a.img = img
    BY <1>0, <1>1 DEF SetClosed, Failed
  <2>. HIDE DEF a
  <2>. QED BY <2>1, OutcomeNone DEF a
<1>2. CASE p # <<>>
  <2>. DEFINE r == [img EXCEPT !.dir[p[1]][p[2]].closed = closed]
  <2>1. a.ok = TRUE /\ a.img = r
    BY <1>0, <1>2 DEF SetClosed, Done
  <2>2. img \in Image
    BY DEF Sound
  <2>3. PICK d, F : Laid(img, d, F)
    BY DEF Sound
  <2>4. p \in DOMAIN F /\ At(img, p).name = f
    BY <1>0, <1>2, <2>2, <2>3, FindsIs
  <2>5. At(img, p) \in Entry /\ p \in Everywhere
    BY <2>2, <2>3, <2>4, LaidReads
  <2>6. PICK e : e = [At(img, p) EXCEPT !.closed = closed]
    OBVIOUS
  <2>7. e \in Entry /\ e.first = At(img, p).first /\ e.name = f
    BY <2>4, <2>5, <2>6 DEF Entry
  <2>8. r = StoreEntry(img, p, e, img.link[p[1]])
    <3>1. p[1] \in AllSectors /\ p[2] \in Slots
      BY <2>5 DEF Everywhere
    <3>. DEFINE newdir == [img.dir EXCEPT ![p[1]] = [@ EXCEPT ![p[2]] = e]]
                newlink == [img.link EXCEPT ![p[1]] = IF p[2] = 1 THEN img.link[p[1]] ELSE @]
    <3>2. newlink = img.link
      BY <2>2, <3>1, ImageFields
    <3>3. img.dir[p[1]][p[2]] = At(img, p)
      BY DEF At
    <3>4. r = [img EXCEPT !.dir = newdir]
      BY <2>2, <2>6, <3>1, <3>3 DEF Image
    <3>5. StoreEntry(img, p, e, img.link[p[1]]) = [img EXCEPT !.dir = newdir, !.link = newlink]
      BY <2>2 DEF StoreEntry, Image
    <3>. HIDE DEF newdir, newlink, r
    <3>. QED BY <2>2, <3>2, <3>4, <3>5 DEF Image
  <2>9. Outcome(img, StoreEntry(img, p, e, img.link[p[1]]), ok, {f})
    BY <2>2, <2>3, <2>4, <2>7, RelabelKeeps
  <2>. HIDE DEF a, r
  <2>. QED BY <2>1, <2>8, <2>9 DEF a
<1>. QED BY <1>1, <1>2

LEMMA ShrinkKeeps ==
    ASSUME NEW img, Sound(img), NEW ok, NEW on
    PROVE  Outcome(img, ShrinkDirChain(img), ok, on)
<1>. DEFINE r == ShrinkDirChain(img)
<1>1. img \in Image
  BY DEF Sound
<1>2. PICK d, F : Laid(img, d, F)
  BY DEF Sound
<1>3. /\ r \in Image /\ \A q : At(r, q) = At(img, q)
      /\ \A s \in AllSectors \ ToSet(d) : r.data[s] = img.data[s]
      /\ \E c, G : /\ Laid(r, c, G) /\ DOMAIN G = DOMAIN F /\ \A q \in DOMAIN F : G[q] = F[q]
                   /\ ToSet(c) \subseteq ToSet(d)
                   /\ r.free = img.free \cup (ToSet(d) \ ToSet(c))
  BY <1>1, <1>2, ShrinkIs
<1>. HIDE DEF r
<1>4. PICK c, G : /\ Laid(r, c, G) /\ DOMAIN G = DOMAIN F /\ \A q \in DOMAIN F : G[q] = F[q]
                  /\ ToSet(c) \subseteq ToSet(d)
                  /\ r.free = img.free \cup (ToSet(d) \ ToSet(c))
  BY <1>3
<1>5. Untouched(img, F, r, G, on)
  <2>1. ASSUME NEW q \in DOMAIN F PROVE Unchanged(img, F, r, G, q)
    <3>1. ToSet(F[q]) \subseteq AllSectors \ ToSet(d)
      BY <1>2, PathFacts DEF Laid
    <3>. QED BY <1>3, <1>4, <3>1 DEF Unchanged
  <2>. QED BY <1>4, <2>1 DEF Untouched
<1>6. \A s \in Sectors \ r.free :
              \/ s \in ToSet(c) \/ \E q \in DOMAIN G : s \in ToSet(G[q])
              \/ s \notin img.free /\ s \notin ToSet(d) /\ \A q \in DOMAIN F : s \notin ToSet(F[q])
  BY <1>4
<1>7. Outcome(img, r, ok, on)
  BY <1>1, <1>2, <1>3, <1>4, <1>5, <1>6, OutcomeIs
<1>. QED BY <1>7 DEF r

LEMMA EnsureKeeps ==
    ASSUME NEW img, Sound(img), NEW k \in Nat, NEW ok, NEW on
    PROVE  LET a == EnsureDirCapacity(img, k)
           IN  a.ok \in BOOLEAN /\ Outcome(img, a.img, ok, on)
<1>. DEFINE a == EnsureDirCapacity(img, k)
<1>1. img \in Image
  BY DEF Sound
<1>2. PICK d, F : Laid(img, d, F)
  BY DEF Sound
<1>3. a.ok \in BOOLEAN /\ (~a.ok => a.img = img) /\ (a.ok => Extended(img, d, F, a.img))
  BY <1>1, <1>2, EnsureIs
<1>. HIDE DEF a
<1>4. CASE ~a.ok
  BY <1>3, <1>4, OutcomeNone DEF a
<1>5. CASE a.ok
  <2>1. PICK r : r = a.img
    OBVIOUS
  <2>2. /\ r \in Image /\ r.free \subseteq img.free
        /\ \A q \in DOMAIN F : At(r, q) = At(img, q)
        /\ \A s \in AllSectors \ img.free : r.data[s] = img.data[s]
        /\ \E c : Laid(r, c, F) /\ ToSet(c) = ToSet(d) \cup (img.free \ r.free)
    BY <1>3, <1>5, <2>1 DEF Extended
  <2>3. PICK c : Laid(r, c, F) /\ ToSet(c) = ToSet(d) \cup (img.free \ r.free)
    BY <2>2
  <2>4. Untouched(img, F, r, F, on)
    <3>1. ASSUME NEW q \in DOMAIN F PROVE Unchanged(img, F, r, F, q)
      <4>1. ToSet(F[q]) \subseteq AllSectors \ img.free
        BY <1>2, PathFacts DEF Laid
      <4>. QED BY <2>2, <4>1 DEF Unchanged
    <3>. QED BY <3>1 DEF Untouched
  <2>5. \A s \in Sectors \ r.free :
              \/ s \in ToSet(c) \/ \E q \in DOMAIN F : s \in ToSet(F[q])
              \/ s \notin img.free /\ s \notin ToSet(d) /\ \A q \in DOMAIN F : s \notin ToSet(F[q])
    BY <2>3
  <2>6. Outcome(img, r, ok, on)
    BY <1>1, <1>2, <2>2, <2>3, <2>4, <2>5, OutcomeIs
  <2>. QED BY <1>3, <2>1, <2>6 DEF a
<1>. QED BY <1>4, <1>5

\* A file removed and added anew.
LEMMA ReplaceKeeps ==
    ASSUME NEW img, Sound(img), NEW f \in Names, NEW content \in Seq(Values)
    PROVE  LET a == AddFile(RemoveFile(img, f).img, f, content)
           IN  a.ok \in BOOLEAN /\ Outcome(img, a.img, a.ok, {f})
<1>1. PICK m : m = RemoveFile(img, f).img
  OBVIOUS
<1>2. Sound(m) /\ Kept(img, m, {f}) /\ Orphans(m) \subseteq Orphans(img) /\ SameDirectory(img, m, f)
  <2>1. PICK b : b = RemoveFile(img, f)
    OBVIOUS
  <2>2. /\ Outcome(img, b.img, b.ok, {f})
        /\ Kept(img, b.img, {f}) /\ Orphans(b.img) \subseteq Orphans(img)
        /\ SameDirectory(img, b.img, f)
    BY <2>1, RemoveFileKeeps
  <2>3. b.img = m
    BY <1>1, <2>1
  <2>. QED BY <2>2, <2>3 DEF Outcome
<1>3. PICK a : a = AddFile(m, f, content)
  OBVIOUS
<1>4. /\ a.ok \in BOOLEAN /\ Sound(a.img)
      /\ \/ Severed(m, a.img)
         \/ /\ Kept(m, a.img, {f})
            /\ a.ok => Orphans(a.img) \subseteq Orphans(m)
  BY <1>2, <1>3, AddFileKeeps
<1>5. CASE Severed(m, a.img)
  <2>1. PICK s \in Exposed(m) : a.img.link[s] # m.link[s] /\ At(a.img, <<s, 1>>) # NoEntry
    BY <1>5 DEF Severed
  <2>2. s \in ToSet(Directory(img)) /\ m.link[s] # End /\ At(m, <<s, 1>>) = NoEntry
    BY <1>2, <2>1 DEF Exposed, SameDirectory
  <2>3. m.link[s] = img.link[s]
    BY <1>2, <2>2 DEF SameDirectory
  <2>4. \/ At(a.img, <<s, 1>>) # At(img, <<s, 1>>)
        \/ At(img, <<s, 1>>) # NoEntry /\ At(img, <<s, 1>>).name = f
    BY <1>2, <2>1, <2>2 DEF SameDirectory
  <2>5. Overwrote(img, a.img, {f})
    BY <2>1, <2>2, <2>3, <2>4 DEF Overwrote, At
  <2>. QED BY <1>1, <1>3, <1>4, <2>5 DEF Outcome
<1>6. CASE Kept(m, a.img, {f}) /\ (a.ok => Orphans(a.img) \subseteq Orphans(m))
  <2>1. Kept(img, a.img, {f})
    BY <1>2, <1>6, KeptTwice
  <2>2. a.ok => Orphans(a.img) \subseteq Orphans(img)
    BY <1>2, <1>6
  <2>. QED BY <1>1, <1>3, <1>4, <2>1, <2>2 DEF Outcome
<1>. QED BY <1>4, <1>5, <1>6

\* A directory link that is gone stays gone while files are added.
LEMMA SeveredTwice ==
    ASSUME NEW img, Sound(img), NEW m, Grows(img, m), NEW r, Grows(m, r),
           Severed(img, m) \/ (Exposed(m) \subseteq Exposed(img) /\ Severed(m, r))
    PROVE  Severed(img, r)
<1>1. img \in Image
  BY DEF Sound
<1>2. PICK d, F : Laid(img, d, F)
  BY DEF Sound
<1>3. /\ Path(img, d) /\ Directory(img) = d /\ ToSet(d) \subseteq AllSectors /\ ToSet(d) \cap img.free = {}
  BY <1>1, <1>2, LaidReads DEF Laid
<1>4. ASSUME NEW s \in ToSet(d), img.link[s] # End PROVE img.link[s] \in ToSet(d)
  <2>1. /\ Len(d) \in Nat /\ Len(d) > 0 /\ DOMAIN d = 1..Len(d)
        /\ \A k \in 1..Len(d) : d[k] \in ToSet(d)
    BY <1>3, PathFacts
  <2>2. PICK k \in 1..Len(d) : s = d[k]
    BY <2>1 DEF ToSet
  <2>3. k # Len(d)
    BY <1>3, <1>4, <2>2 DEF Path
  <2>4. k \in 1..(Len(d) - 1) /\ k + 1 \in 1..Len(d)
    <3>1. Len(d) \in Nat
      BY <2>1
    <3>. QED BY <2>3, <3>1
  <2>5. img.link[s] = d[k + 1]
    BY <1>3, <2>2, <2>4 DEF Path
  <2>. QED BY <2>1, <2>4, <2>5
<1>5. m.free \subseteq img.free
  BY DEF Grows
<1>6. ASSUME NEW s \in Exposed(img)
      PROVE  /\ s \in AllSectors \ m.free /\ img.link[s] \notin m.free /\ img.link[s] # End
             /\ r.link[s] \in {m.link[s], End} \cup m.free
             /\ At(m, <<s, 1>>) # NoEntry => At(r, <<s, 1>>) # NoEntry
  <2>1. s \in ToSet(d) /\ img.link[s] # End
    BY <1>3 DEF Exposed
  <2>2. s \in AllSectors \ m.free /\ img.link[s] \notin m.free
    BY <1>3, <1>4, <1>5, <2>1
  <2>. QED BY <2>1, <2>2, Geometry DEF Grows
<1>7. CASE Severed(img, m)
  <2>1. PICK s \in Exposed(img) : m.link[s] # img.link[s] /\ At(m, <<s, 1>>) # NoEntry
    BY <1>7 DEF Severed
  <2>2. r.link[s] # img.link[s] /\ At(r, <<s, 1>>) # NoEntry
    BY <1>6, <2>1
  <2>. QED BY <2>2 DEF Severed
<1>8. CASE Exposed(m) \subseteq Exposed(img) /\ Severed(m, r)
  <2>1. PICK s \in Exposed(m) : r.link[s] # m.link[s] /\ At(r, <<s, 1>>) # NoEntry
    BY <1>8 DEF Severed
  <2>2. s \in Exposed(img)
    BY <1>8
  <2>3. r.link[s] # img.link[s]
    BY <1>6, <2>1, <2>2
  <2>. QED BY <2>1, <2>2, <2>3 DEF Severed
<1>. QED BY <1>7, <1>8

\* A copy, file by file.
CopyStep(acc, item) ==
    LET r == AddFile(acc.img, item.name, item.content)
    IN  IF FileExists(acc.img, item.name) THEN acc
        ELSE [img |-> r.img, copied |-> acc.copied \/ r.ok, complete |-> acc.complete /\ r.ok]

Copying(img, list, h, n) ==
    h = [k \in 0..n |->
            IF k = 0 THEN [img |-> img, copied |-> FALSE, complete |-> TRUE]
            ELSE LET acc == h[k - 1]
                     r == AddFile(acc.img, list[k].name, list[k].content)
                 IN  IF FileExists(acc.img, list[k].name) THEN acc
                     ELSE [img |-> r.img,
                           copied |-> acc.copied \/ r.ok,
                           complete |-> acc.complete /\ r.ok]]

LEMMA CopyingExists ==
    ASSUME NEW img, NEW list
    PROVE  \A n \in Nat : \E h : Copying(img, list, h, n)
<1>. DEFINE S == {n \in Nat : ~\E h : Copying(img, list, h, n)}
            start == [img |-> img, copied |-> FALSE, complete |-> TRUE]
<1>. SUFFICES ASSUME S # {} PROVE FALSE
  OBVIOUS
<1>1. PICK n \in S : \A i \in S : n <= i
  BY LeastNatural
<1>2. CASE n = 0
  <2>. DEFINE h == [k \in 0..0 |-> start]
  <2>. HIDE DEF start
  <2>1. h = [k \in 0..0 |-> IF k = 0 THEN start ELSE CopyStep(h[k - 1], list[k])]
    OBVIOUS
  <2>. HIDE DEF h
  <2>2. Copying(img, list, h, 0)
    BY <2>1 DEF Copying, CopyStep, start
  <2>. QED BY <1>2, <2>2
<1>3. CASE n # 0
  <2>1. n - 1 \in Nat /\ n - 1 \notin S
    BY <1>1, <1>3
  <2>2. PICK v : Copying(img, list, v, n - 1)
    BY <2>1
  <2>. HIDE DEF start
  <2>3. v = [k \in 0..(n - 1) |-> IF k = 0 THEN start ELSE CopyStep(v[k - 1], list[k])]
    BY <2>2 DEF Copying, CopyStep, start
  <2>. DEFINE h == [k \in 0..n |-> IF k = n THEN CopyStep(v[n - 1], list[n]) ELSE v[k]]
  <2>4. \A k \in 0..(n - 1) : v[k] = IF k = 0 THEN start ELSE CopyStep(v[k - 1], list[k])
    BY <2>3, Zenon
  <2>5. ASSUME NEW k \in 0..n PROVE h[k] = IF k = 0 THEN start ELSE CopyStep(h[k - 1], list[k])
    <3>1. CASE k = n
      <4>1. n - 1 \in 0..n /\ n - 1 # n /\ k # 0
        BY <1>3, <3>1
      <4>. QED BY <3>1, <4>1
    <3>2. CASE k # n
      <4>1. k \in 0..(n - 1) /\ (k # 0 => k - 1 \in 0..n /\ k - 1 # n)
        BY <3>2
      <4>. QED BY <2>4, <3>2, <4>1
    <3>. QED BY <3>1, <3>2
  <2>6. h = [k \in 0..n |-> h[k]]
    OBVIOUS
  <2>. HIDE DEF h
  <2>7. h = [k \in 0..n |-> IF k = 0 THEN start ELSE CopyStep(h[k - 1], list[k])]
    BY <2>5, <2>6
  <2>8. Copying(img, list, h, n)
    BY <2>7 DEF Copying, CopyStep, start
  <2>. QED BY <2>8
<1>. QED BY <1>2, <1>3

\* What holds all along a copy from img.
Copied(img, on, acc) ==
    /\ Sound(acc.img) /\ Grows(img, acc.img)
    /\ acc.complete \in BOOLEAN /\ acc.copied \in BOOLEAN
    /\ \/ Severed(img, acc.img)
       \/ /\ Kept(img, acc.img, on) /\ Exposed(acc.img) \subseteq Exposed(img)
          /\ acc.complete => Orphans(acc.img) \subseteq Orphans(img)

LEMMA CopyStepKeeps ==
    ASSUME NEW img, Sound(img), NEW on, NEW acc, Copied(img, on, acc),
           NEW item, item.name \in Names, item.content \in Seq(Values), item.name \in on
    PROVE  Copied(img, on, CopyStep(acc, item))
<1>1. CASE FileExists(acc.img, item.name)
  BY <1>1 DEF CopyStep
<1>2. CASE ~FileExists(acc.img, item.name)
  <2>1. PICK r : r = AddFile(acc.img, item.name, item.content)
    OBVIOUS
  <2>2. PICK b : b = CopyStep(acc, item)
    OBVIOUS
  <2>3. b = [img |-> r.img, copied |-> acc.copied \/ r.ok, complete |-> acc.complete /\ r.ok]
    BY <1>2, <2>1, <2>2 DEF CopyStep
  <2>4. b.img = r.img /\ b.copied = (acc.copied \/ r.ok) /\ b.complete = (acc.complete /\ r.ok)
    BY <2>3
  <2>5. Sound(acc.img)
    BY DEF Copied
  <2>6. /\ r.ok \in BOOLEAN /\ Sound(r.img) /\ Grows(acc.img, r.img)
        /\ \/ Severed(acc.img, r.img)
           \/ /\ Kept(acc.img, r.img, {item.name}) /\ Exposed(r.img) \subseteq Exposed(acc.img)
              /\ r.ok => Orphans(r.img) \subseteq Orphans(acc.img)
    BY <2>1, <2>5, AddFileKeeps
  <2>7. Grows(img, r.img)
    BY <2>6, GrowsTwice DEF Copied
  <2>8. CASE Severed(img, acc.img)
    <3>1. Severed(img, r.img)
      BY <2>6, <2>8, SeveredTwice DEF Copied
    <3>. QED BY <2>2, <2>4, <2>6, <2>7, <3>1 DEF Copied
  <2>9. CASE ~Severed(img, acc.img)
    <3>1. /\ Kept(img, acc.img, on) /\ Exposed(acc.img) \subseteq Exposed(img)
          /\ acc.complete => Orphans(acc.img) \subseteq Orphans(img)
      BY <2>9 DEF Copied
    <3>2. CASE Severed(acc.img, r.img)
      <4>1. Severed(img, r.img)
        BY <2>6, <3>1, <3>2, SeveredTwice DEF Copied
      <4>. QED BY <2>2, <2>4, <2>6, <2>7, <4>1 DEF Copied
    <3>3. CASE ~Severed(acc.img, r.img)
      <4>1. /\ Kept(acc.img, r.img, {item.name}) /\ Exposed(r.img) \subseteq Exposed(acc.img)
            /\ r.ok => Orphans(r.img) \subseteq Orphans(acc.img)
        BY <2>6, <3>3
      <4>2. Kept(img, r.img, on)
        <5>1. Kept(acc.img, r.img, on)
          BY <4>1 DEF Kept
        <5>. QED BY <3>1, <5>1, KeptTwice
      <4>3. b.complete => Orphans(r.img) \subseteq Orphans(img)
        BY <2>4, <2>6, <3>1, <4>1 DEF Copied
      <4>4. Exposed(r.img) \subseteq Exposed(img)
        BY <3>1, <4>1
      <4>5. b.complete \in BOOLEAN /\ b.copied \in BOOLEAN
        BY <2>4
      <4>6. Copied(img, on, b)
        BY <2>4, <2>6, <2>7, <4>2, <4>3, <4>4, <4>5 DEF Copied
      <4>. QED BY <2>2, <4>6
    <3>. QED BY <3>2, <3>3
  <2>. QED BY <2>8, <2>9
<1>. QED BY <1>1, <1>2

LEMMA CopyKeeps ==
    ASSUME NEW img, Sound(img), NEW on,
           NEW list \in Seq([name : Names, content : Seq(Values)]),
           \A k \in 1..Len(list) : list[k].name \in on,
           NEW h, Copying(img, list, h, Len(list))
    PROVE  Copied(img, on, h[Len(list)])
<1>. DEFINE n == Len(list)
            Bad == {k \in 0..n : ~Copied(img, on, h[k])}
            start == [img |-> img, copied |-> FALSE, complete |-> TRUE]
<1>1. n \in Nat /\ \A k \in 1..n : list[k] \in [name : Names, content : Seq(Values)]
  <2>1. PICK T : T = [name : Names, content : Seq(Values)]
    OBVIOUS
  <2>2. list \in Seq(T)
    BY <2>1
  <2>3. n \in Nat /\ \A k \in 1..n : list[k] \in T
    BY <2>2
  <2>. QED BY <2>1, <2>3
<1>. HIDE DEF n, start
<1>2. h = [k \in 0..n |-> IF k = 0 THEN start ELSE CopyStep(h[k - 1], list[k])]
  BY DEF Copying, CopyStep, start, n
<1>3. \A k \in 0..n : h[k] = IF k = 0 THEN start ELSE CopyStep(h[k - 1], list[k])
  BY <1>2, Zenon
<1>4. Copied(img, on, h[0])
  <2>1. h[0] = start
    BY <1>1, <1>3
  <2>2. start.img = img /\ start.complete = TRUE /\ start.copied = FALSE
    BY DEF start
  <2>. QED BY <2>1, <2>2, GrowsNot DEF Copied, Kept
<1>5. ASSUME NEW k \in 1..n, Copied(img, on, h[k - 1]) PROVE Copied(img, on, h[k])
  <2>1. h[k] = CopyStep(h[k - 1], list[k])
    <3>1. k \in 0..n /\ k # 0
      BY <1>1
    <3>. QED BY <1>3, <3>1
  <2>2. list[k].name \in Names /\ list[k].content \in Seq(Values) /\ list[k].name \in on
    BY <1>1 DEF n
  <2>3. Copied(img, on, CopyStep(h[k - 1], list[k]))
    BY <1>5, <2>2, CopyStepKeeps
  <2>. QED BY <2>1, <2>3
<1>6. Bad = {}
  <2>. SUFFICES ASSUME Bad # {} PROVE FALSE
    OBVIOUS
  <2>1. Bad \in SUBSET Nat
    BY <1>1
  <2>2. PICK k \in Bad : \A i \in Bad : k <= i
    <3>. HIDE DEF Bad
    <3>. QED BY <2>1, LeastNatural
  <2>3. k # 0
    BY <1>4
  <2>4. k \in 1..n /\ k - 1 \in 0..n /\ ~(k <= k - 1)
    BY <1>1, <2>3
  <2>5. Copied(img, on, h[k - 1])
    BY <2>2, <2>4
  <2>. QED BY <1>5, <2>4, <2>5
<1>7. n \in 0..n
  BY <1>1
<1>. QED BY <1>6, <1>7 DEF n

-----------------------------------------------------------------------------
\* What is read.

LEMMA ContentsIs ==
    ASSUME NEW img \in Image, NEW d, NEW F, Laid(img, d, F), NEW p \in DOMAIN F
    PROVE  Contents(img, p) \in Seq(Values) /\ Len(Contents(img, p)) <= Len(F[p])
<1>. DEFINE c == F[p]
            used == IF img.data[Last(c)] = Nothing THEN Len(c) - 1 ELSE Len(c)
<1>1. /\ c \in Seq(AllSectors) /\ Len(c) \in Nat /\ Len(c) > 0
      /\ (\A k \in 1..Len(c) : c[k] \in AllSectors) /\ Filled(img, c) /\ FileChain(img, p) = c
  BY LaidReads, PathFacts DEF Laid
<1>2. Contents(img, p) = [k \in 1..used |-> img.data[c[k]]]
  BY <1>1 DEF Contents
<1>3. Last(c) = c[Len(c)] /\ used \in Nat /\ used <= Len(c)
  BY <1>1 DEF Last
<1>4. ASSUME NEW k \in 1..used PROVE img.data[c[k]] \in Values
  <2>1. k \in 1..Len(c)
    BY <1>1, <1>3
  <2>2. CASE k = Len(c)
    <3>1. img.data[c[k]] # Nothing
      BY <1>1, <1>3, <2>2
    <3>. QED BY <1>1, <2>1, <3>1, ImageFields
  <2>3. CASE k # Len(c)
    <3>1. k \in 1..(Len(c) - 1)
      BY <1>1, <2>1, <2>3
    <3>. QED BY <1>1, <3>1 DEF Filled
  <2>. QED BY <2>2, <2>3
<1>. HIDE DEF used, c
<1>5. [k \in 1..used |-> img.data[c[k]]] \in Seq(Values) /\ Len([k \in 1..used |-> img.data[c[k]]]) = used
  BY <1>3, <1>4
<1>. QED BY <1>2, <1>3, <1>5 DEF c

LEMMA ReadFileIs ==
    ASSUME NEW img, Sound(img), NEW f
    PROVE  ReadFile(img, f) \in Seq(Values)
<1>1. img \in Image
  BY DEF Sound
<1>2. PICK d, F : Laid(img, d, F)
  BY DEF Sound
<1>3. CASE FileExists(img, f)
  <2>1. PICK p : p = FindFileEntry(img, f)
    OBVIOUS
  <2>2. p \in DOMAIN F
    BY <1>1, <1>2, <1>3, <2>1, FindsIs
  <2>. QED BY <1>1, <1>2, <1>3, <2>1, <2>2, ContentsIs DEF ReadFile
<1>4. CASE ~FileExists(img, f)
  BY <1>4 DEF ReadFile
<1>. QED BY <1>3, <1>4

LEMMA ResizeIs ==
    ASSUME NEW content \in Seq(Values), NEW k \in Nat
    PROVE  Resize(content, k) \in Seq(Values) /\ Len(Resize(content, k)) = k
<1>1. \A i \in 1..k : (IF i \in DOMAIN content THEN content[i] ELSE Zero) \in Values
  BY DiskAssumption
<1>. QED BY <1>1 DEF Resize

LEMMA OverwrittenIs ==
    ASSUME NEW content \in Seq(Values), NEW i \in Nat \ {0}, NEW v \in Values
    PROVE  /\ Overwritten(content, i, v) \in Seq(Values)
           /\ Len(Overwritten(content, i, v)) = IF i > Len(content) THEN i ELSE Len(content)
<1>. DEFINE k == IF i > Len(content) THEN i ELSE Len(content)
<1>1. k \in Nat
  OBVIOUS
<1>. HIDE DEF k
<1>2. PICK c : c = Resize(content, k)
  OBVIOUS
<1>3. c \in Seq(Values) /\ Len(c) = k
  BY <1>1, <1>2, ResizeIs
<1>4. Overwritten(content, i, v) = [c EXCEPT ![i] = v]
  BY <1>2 DEF Overwritten, k
<1>5. [c EXCEPT ![i] = v] \in Seq(Values) /\ Len([c EXCEPT ![i] = v]) = k
  <2>1. c = [j \in 1..k |-> c[j]] /\ \A j \in 1..k : c[j] \in Values
    BY <1>3
  <2>. DEFINE e == [j \in 1..k |-> IF j = i THEN v ELSE c[j]]
  <2>2. [c EXCEPT ![i] = v] = e
    BY <2>1
  <2>3. e \in Seq(Values) /\ Len(e) = k
    BY <1>1, <2>1
  <2>. QED BY <2>2, <2>3
<1>. QED BY <1>4, <1>5 DEF k

-----------------------------------------------------------------------------
\* The commands and the callbacks.

LEMMA CopyCommandKeeps ==
    ASSUME Sound(saved), NEW list \in CopyLists, cmdCopy(list)
    PROVE  \E ok \in BOOLEAN : \E img :
              /\ Command([on |-> {list[k].name : k \in DOMAIN list}, ok |-> TRUE, complete |-> ok], img)
              /\ Outcome(saved, img, ok, {list[k].name : k \in DOMAIN list})
<1>. DEFINE on == {list[k].name : k \in DOMAIN list}
            n == Len(list)
            h == CHOOSE v : Copying(saved, list, v, n)
            end == h[n]
            img == IF end.copied THEN end.img ELSE saved
<1>1. list \in Seq([name : Names, content : Seq(Values)])
  <2>1. list \in Seq([name : Names, content : Seq(WriteData)])
    BY Disk45Assumption
  <2>2. PICK T, U : T = [name : Names, content : Seq(WriteData)] /\ U = [name : Names, content : Seq(Values)]
    OBVIOUS
  <2>3. T \subseteq U
    <3>1. Seq(WriteData) \subseteq Seq(Values)
      BY Disk45Assumption
    <3>. QED BY <2>2, <3>1
  <2>4. list \in Seq(T)
    BY <2>1, <2>2
  <2>5. list \in Seq(U)
    BY <2>3, <2>4
  <2>. QED BY <2>2, <2>5
<1>2. n \in Nat /\ \A k \in 1..n : list[k].name \in on
  <2>1. PICK T : T = [name : Names, content : Seq(Values)]
    OBVIOUS
  <2>2. list \in Seq(T)
    BY <1>1, <2>1
  <2>3. n \in Nat /\ DOMAIN list = 1..n
    BY <2>2
  <2>. QED BY <2>3
<1>3. Command([on |-> on, ok |-> TRUE, complete |-> end.complete], img)
  BY DEF cmdCopy, Copying
<1>4. Copying(saved, list, h, n)
  BY <1>2, CopyingExists
<1>. HIDE DEF h, on
<1>5. Copied(saved, on, end)
  BY <1>1, <1>2, <1>4, CopyKeeps
<1>. HIDE DEF end
<1>6. Outcome(saved, img, end.complete, on)
  <2>1. CASE end.copied
    BY <1>5, <2>1, SeveredOverwrote DEF Copied, Outcome
  <2>2. CASE ~end.copied
    BY <2>2, OutcomeNone
  <2>. QED BY <2>1, <2>2
<1>7. end.complete \in BOOLEAN
  BY <1>5 DEF Copied
<1>. QED BY <1>3, <1>6, <1>7 DEF on

\* A call on the names on, from the image img; ok if it succeeded and added all it was to.
CallEnds(img, on, ok) ==
    /\ mounted' = mounted
    /\ on \in SUBSET Names /\ ok \in BOOLEAN
    /\ reply' \in Replies /\ reply'.on = on /\ reply'.complete = ok
    /\ Outcome(img, g_img', ok, on)

CommandEnds == /\ ~mounted
               /\ \E on, ok : CallEnds(saved, on, ok)
               /\ saved' = g_img'

LEMMA AllOrNothingEnds ==
    ASSUME Sound(saved), NEW on \in SUBSET Names, NEW result, result.ok \in BOOLEAN,
           Outcome(saved, result.img, result.ok, on), AllOrNothing(on, result)
    PROVE  CommandEnds
<1>1. /\ ~mounted /\ mounted' = mounted /\ saved' = g_img'
      /\ g_img' = (IF result.ok THEN result.img ELSE saved)
      /\ reply' \in Replies /\ reply'.on = on /\ reply'.complete = result.ok
  BY DEF AllOrNothing, Command, Reply, Replies
<1>2. Outcome(saved, g_img', result.ok, on)
  <2>1. CASE result.ok
    BY <1>1, <2>1
  <2>2. CASE ~result.ok
    BY <1>1, <2>2, OutcomeNone
  <2>. QED BY <2>1, <2>2
<1>. QED BY <1>1, <1>2 DEF CommandEnds, CallEnds

LEMMA CommandsEnd ==
    ASSUME Sound(saved), Commands
    PROVE  CommandEnds
<1>1. ASSUME NEW f \in Names, NEW v \in WriteData, cmdAdd(f, <<v>>) PROVE CommandEnds
  <2>1. <<v>> \in Seq(Values)
    BY Disk45Assumption
  <2>2. PICK a : a = AddFile(saved, f, <<v>>)
    OBVIOUS
  <2>3. a.ok \in BOOLEAN /\ Outcome(saved, a.img, a.ok, {f})
    BY <2>1, <2>2, AddFileKeeps, SeveredOverwrote DEF Outcome
  <2>. QED BY <1>1, <2>2, <2>3, AllOrNothingEnds DEF cmdAdd
<1>2. ASSUME NEW f \in Names, cmdRemove(f) PROVE CommandEnds
  <2>1. PICK a : a = RemoveFile(saved, f)
    OBVIOUS
  <2>2. a.ok \in BOOLEAN /\ Outcome(saved, a.img, a.ok, {f})
    BY <2>1, RemoveFileKeeps
  <2>. QED BY <1>2, <2>1, <2>2, AllOrNothingEnds DEF cmdRemove
<1>3. ASSUME NEW f \in Names, NEW g \in Names, cmdRename(f, g) PROVE CommandEnds
  <2>1. PICK tried, p : tried = RenameFile(saved, f, g) /\ p = FindAnyEntry(saved, f)
    OBVIOUS
  <2>2. PICK a : a = IF tried.ok \/ p = <<>> THEN tried ELSE Done(RenameEntry(saved, p, g))
    OBVIOUS
  <2>3. a.ok \in BOOLEAN /\ Outcome(saved, a.img, a.ok, {f, g})
    <3>1. CASE tried.ok \/ p = <<>>
      <4>1. a = tried
        BY <2>2, <3>1
      <4>. QED BY <2>1, <4>1, RenameFileKeeps
    <3>2. CASE ~(tried.ok \/ p = <<>>)
      <4>1. a.ok = TRUE /\ a.img = RenameEntry(saved, p, g)
        BY <2>2, <3>2 DEF Done
      <4>2. Outcome(saved, RenameEntry(saved, p, g), TRUE, {f, g})
        BY <2>1, <3>2, RenameEntryKeeps
      <4>. QED BY <4>1, <4>2
    <3>. QED BY <3>1, <3>2
  <2>4. AllOrNothing({f, g}, a)
    BY <1>3, <2>1, <2>2 DEF cmdRename
  <2>. QED BY <2>3, <2>4, AllOrNothingEnds
<1>4. ASSUME NEW f \in Names, NEW close \in BOOLEAN, cmdSplat(f, close) PROVE CommandEnds
  <2>1. PICK a : a = SetClosed(saved, f, close)
    OBVIOUS
  <2>2. a.ok \in BOOLEAN /\ Outcome(saved, a.img, a.ok, {f})
    BY <2>1, SetClosedKeeps
  <2>. QED BY <1>4, <2>1, <2>2, AllOrNothingEnds DEF cmdSplat
<1>5. ASSUME cmdDirShrink PROVE CommandEnds
  <2>1. PICK a : a = Done(ShrinkDirChain(saved))
    OBVIOUS
  <2>2. a.ok = TRUE /\ a.img = ShrinkDirChain(saved)
    BY <2>1 DEF Done
  <2>3. a.ok \in BOOLEAN /\ Outcome(saved, a.img, a.ok, {})
    BY <2>2, ShrinkKeeps
  <2>4. AllOrNothing({}, a) /\ {} \in SUBSET Names
    BY <1>5, <2>1 DEF cmdDirShrink
  <2>. QED BY <2>3, <2>4, AllOrNothingEnds
<1>6. ASSUME NEW k \in EnsureCounts, cmdDirEnsure(k) PROVE CommandEnds
  <2>1. PICK a : a = EnsureDirCapacity(saved, k)
    OBVIOUS
  <2>2. a.ok \in BOOLEAN /\ Outcome(saved, a.img, a.ok, {})
    BY <2>1, EnsureKeeps, Disk45Assumption
  <2>. QED BY <1>6, <2>1, <2>2, AllOrNothingEnds DEF cmdDirEnsure
<1>7. ASSUME NEW list \in CopyLists, cmdCopy(list) PROVE CommandEnds
  <2>1. PICK on : on = {list[k].name : k \in DOMAIN list}
    OBVIOUS
  <2>2. PICK ok \in BOOLEAN : \E img :
             /\ Command([on |-> on, ok |-> TRUE, complete |-> ok], img)
             /\ Outcome(saved, img, ok, on)
    BY <1>7, <2>1, CopyCommandKeeps
  <2>3. PICK img : /\ Command([on |-> on, ok |-> TRUE, complete |-> ok], img)
                   /\ Outcome(saved, img, ok, on)
    BY <2>2
  <2>4. on \in SUBSET Names
    <3>1. list \in Seq([name : Names, content : Seq(WriteData)])
      BY Disk45Assumption
    <3>2. PICK T : T = [name : Names, content : Seq(WriteData)]
      OBVIOUS
    <3>3. list \in Seq(T)
      BY <3>1, <3>2
    <3>4. \A k \in DOMAIN list : list[k] \in T
      BY <3>3
    <3>. QED BY <2>1, <3>2, <3>4
  <2>. QED BY <2>3, <2>4 DEF Command, CommandEnds, CallEnds, Replies
<1>. QED BY <1>1, <1>2, <1>3, <1>4, <1>5, <1>6, <1>7 DEF Commands

CallbackEnds == /\ mounted
                /\ \E on, ok : /\ CallEnds(g_img, on, ok)
                               /\ saved' = IF ok THEN g_img' ELSE saved

LEMMA CallbackEndsIs ==
    ASSUME NEW on \in SUBSET Names, NEW result, result.ok \in BOOLEAN,
           Outcome(g_img, result.img, result.ok, on), Callback(on, result)
    PROVE  CallbackEnds
<1>1. /\ mounted /\ mounted' = mounted /\ g_img' = result.img
      /\ saved' = (IF result.ok THEN g_img' ELSE saved)
      /\ reply' \in Replies /\ reply'.on = on /\ reply'.complete = result.ok
  BY DEF Callback, Reply, Replies
<1>2. CallEnds(g_img, on, result.ok)
  BY <1>1 DEF CallEnds
<1>. QED BY <1>1, <1>2 DEF CallbackEnds

LEMMA CallbacksEnd ==
    ASSUME Sound(g_img), Callbacks
    PROVE  CallbackEnds
<1>1. ASSUME NEW f \in Names, cbm_create(f) PROVE CallbackEnds
  <2>1. <<>> \in Seq(Values)
    OBVIOUS
  <2>2. PICK a : a = AddFile(g_img, f, <<>>)
    OBVIOUS
  <2>3. a.ok \in BOOLEAN /\ Outcome(g_img, a.img, a.ok, {f})
    BY <2>1, <2>2, AddFileKeeps, SeveredOverwrote DEF Outcome
  <2>. QED BY <1>1, <2>2, <2>3, CallbackEndsIs DEF cbm_create
<1>2. ASSUME NEW f \in Names, cbm_unlink(f) PROVE CallbackEnds
  <2>1. PICK a : a = RemoveFile(g_img, f)
    OBVIOUS
  <2>2. a.ok \in BOOLEAN /\ Outcome(g_img, a.img, a.ok, {f})
    BY <2>1, RemoveFileKeeps
  <2>. QED BY <1>2, <2>1, <2>2, CallbackEndsIs DEF cbm_unlink
<1>3. ASSUME NEW f \in Names, NEW g \in Names, cbm_rename(f, g) PROVE CallbackEnds
  <2>1. PICK a : a = RenameFile(g_img, f, g)
    OBVIOUS
  <2>2. a.ok \in BOOLEAN /\ Outcome(g_img, a.img, a.ok, {f, g})
    BY <2>1, RenameFileKeeps
  <2>. QED BY <1>3, <2>1, <2>2, CallbackEndsIs DEF cbm_rename
<1>4. ASSUME NEW f \in Names, NEW content \in Seq(Values), Callback({f}, Replace(f, content))
      PROVE  CallbackEnds
  <2>1. PICK a : a = Replace(f, content)
    OBVIOUS
  <2>2. a.ok \in BOOLEAN /\ Outcome(g_img, a.img, a.ok, {f})
    BY <2>1, ReplaceKeeps DEF Replace
  <2>. QED BY <1>4, <2>1, <2>2, CallbackEndsIs
<1>5. ASSUME NEW f \in Names, NEW i \in 1..MaxLength, NEW v \in WriteData, cbm_write(f, i, v)
      PROVE  CallbackEnds
  <2>1. i \in Nat \ {0} /\ v \in Values
    BY Disk45Assumption
  <2>2. Overwritten(ReadFile(g_img, f), i, v) \in Seq(Values)
    BY <2>1, ReadFileIs, OverwrittenIs
  <2>. QED BY <1>4, <1>5, <2>2 DEF cbm_write
<1>6. ASSUME NEW f \in Names, NEW k \in 0..MaxLength, cbm_truncate(f, k) PROVE CallbackEnds
  <2>1. k \in Nat
    BY Disk45Assumption
  <2>2. Resize(ReadFile(g_img, f), k) \in Seq(Values)
    BY <2>1, ReadFileIs, ResizeIs
  <2>. QED BY <1>4, <1>6, <2>2 DEF cbm_truncate
<1>. QED BY <1>1, <1>2, <1>3, <1>5, <1>6 DEF Callbacks

-----------------------------------------------------------------------------
\* The inductive invariant: both images are sound, and outside a session they are the same.
IInv == /\ TypeOK
        /\ Sound(g_img) /\ Sound(saved)
        /\ ~mounted => g_img = saved

LEMMA FormattedIsSound == Sound(Formatted)
<1>. DEFINE d == <<DirStart>>
            F == [p \in {} |-> d]
<1>1. Formatted \in Image
  BY Geometry DEF Formatted, Image, EmptySector
<1>2. Path(Formatted, d)
  <2>1. d \in Seq(AllSectors) /\ d # <<>> /\ Len(d) = 1 /\ d[1] = DirStart /\ DOMAIN d = {1}
    BY Geometry
  <2>2. IsInjective(d)
    BY <2>1 DEF IsInjective
  <2>3. Formatted.link[d[1]] = End
    BY <2>1, Geometry DEF Formatted
  <2>. QED BY <2>1, <2>2, <2>3 DEF Path
<1>3. ToSet(d) = {DirStart} /\ d[1] = DirStart
  BY DEF ToSet
<1>4. Occupied(Formatted, d) = {}
  <2>1. \A p \in {DirStart} \X Slots : At(Formatted, p) = NoEntry
    BY Geometry DEF At, Formatted, EmptySector
  <2>. QED BY <1>3, <2>1 DEF Occupied
<1>5. ToSet(d) \cap Formatted.free = {}
  BY <1>3, Geometry DEF Formatted
<1>6. Laid(Formatted, d, F)
  <2>1. DOMAIN F = {}
    OBVIOUS
  <2>. HIDE DEF F
  <2>. QED BY <1>2, <1>3, <1>4, <1>5, <2>1 DEF Laid
<1>. QED BY <1>1, <1>6 DEF Sound

LEMMA InitIInv == Init => IInv
<1>1. Sound(Formatted) /\ Formatted \in Image
  BY FormattedIsSound DEF Sound
<1>2. Reply({}, TRUE) \in Replies
  BY DEF Reply, Replies
<1>. SUFFICES ASSUME Init PROVE IInv
  OBVIOUS
<1>3. mounted = FALSE /\ g_img = Formatted /\ saved = Formatted /\ reply \in Replies
  BY <1>2 DEF Init
<1>. QED BY <1>1, <1>3, Zenon DEF IInv, TypeOK

LEMMA NextIInv == IInv /\ [Next]_vars => IInv'
<1>. SUFFICES ASSUME IInv, [Next]_vars PROVE IInv'
  OBVIOUS
<1>1. /\ mounted \in BOOLEAN /\ reply \in Replies
      /\ Sound(g_img) /\ Sound(saved) /\ (~mounted => g_img = saved)
  BY DEF IInv, TypeOK
<1>. SUFFICES /\ mounted' \in BOOLEAN /\ reply' \in Replies
              /\ Sound(g_img') /\ Sound(saved') /\ (~mounted' => g_img' = saved')
  BY DEF IInv, TypeOK, Sound
<1>2. CASE Mount
  BY <1>1, <1>2 DEF Mount
<1>3. CASE Unmount
  BY <1>1, <1>3 DEF Unmount
<1>4. CASE Commands
  BY <1>1, <1>4, CommandsEnd DEF CommandEnds, CallEnds, Outcome
<1>5. CASE Callbacks
  <2>1. mounted /\ \E on, ok : CallEnds(g_img, on, ok) /\ saved' = IF ok THEN g_img' ELSE saved
    BY <1>1, <1>5, CallbacksEnd DEF CallbackEnds
  <2>2. PICK on, ok : CallEnds(g_img, on, ok) /\ saved' = IF ok THEN g_img' ELSE saved
    BY <2>1
  <2>3. mounted' = mounted /\ reply' \in Replies /\ Sound(g_img')
    BY <2>2 DEF CallEnds, Outcome
  <2>4. Sound(saved')
    BY <1>1, <2>2, <2>3
  <2>. QED BY <2>1, <2>3, <2>4
<1>6. CASE UNCHANGED vars
  BY <1>1, <1>6 DEF vars
<1>. QED BY <1>2, <1>3, <1>4, <1>5, <1>6 DEF Next

LEMMA Invariance == Spec => []IInv
BY InitIInv, NextIInv, PTL DEF Spec

\* The image in memory and the file on the host are always disk images: links stay on the
\* disk, and every directory slot holds an entry or none.
THEOREM TypeCorrect == Spec => []TypeOK
<1>1. IInv => TypeOK
  BY DEF IInv
<1>. QED BY <1>1, Invariance, PTL

LEMMA SoundIsOwnedOnce ==
    ASSUME Sound(g_img)
    PROVE  SectorsOwnedOnce
<1>1. g_img \in Image
  BY DEF Sound
<1>2. PICK d, F : Laid(g_img, d, F)
  BY DEF Sound
<1>3. /\ Directory(g_img) = d /\ Listed(g_img) = DOMAIN F
      /\ \A p \in DOMAIN F : FileChain(g_img, p) = F[p]
  BY <1>1, <1>2, LaidReads
<1>4. IsInjective(d) /\ \A p \in DOMAIN F : IsInjective(F[p])
  BY <1>2 DEF Laid, Path
<1>. QED BY <1>2, <1>3, <1>4 DEF SectorsOwnedOnce, Laid

\* No call, in whatever order, on whatever disk, leaves a sector in two chains or twice in one:
\* what validate() calls cross-linked.
THEOREM SectorsStayOwnedOnce == Spec => []SectorsOwnedOnce
<1>1. IInv => SectorsOwnedOnce
  BY SoundIsOwnedOnce DEF IInv
<1>. QED BY <1>1, Invariance, PTL

\* A sector the directory or a file uses is never free in the block availability map.
THEOREM OwnedStayAllocated == Spec => []OwnedIsAllocated
<1>1. IInv => OwnedIsAllocated
  BY OwnedIs DEF IInv, OwnedIsAllocated, Sound
<1>. QED BY <1>1, Invariance, PTL

LEMMA OverwroteLink ==
    ASSUME NEW on, reply'.on = on, Overwrote(g_img, g_img', on)
    PROVE  LinkOverwritten
BY DEF Overwrote, LinkOverwritten

LEMMA CallsEnd ==
    ASSUME IInv, Next, Call
    PROVE  \E on, ok : CallEnds(g_img, on, ok)
<1>1. /\ mounted \in BOOLEAN /\ Sound(g_img) /\ Sound(saved) /\ (~mounted => g_img = saved)
  BY DEF IInv, TypeOK
<1>2. ~Mount /\ ~Unmount
  BY DEF Mount, Unmount, Call
<1>3. CASE Commands
  BY <1>1, <1>3, CommandsEnd DEF CommandEnds
<1>4. CASE Callbacks
  BY <1>1, <1>4, CallbacksEnd DEF CallbackEnds
<1>. QED BY <1>2, <1>3, <1>4 DEF Next

\* A call changes only the files it names, unless a new entry overwrites the directory's link.
THEOREM OthersStayKept == Spec => OthersKept
<1>1. ASSUME IInv, [Next]_vars, Call, g_img' # g_img
      PROVE  (\A f \in Names \ reply'.on : Held(g_img', f) = Held(g_img, f)) \/ LinkOverwritten
  <2>1. PICK on, ok : CallEnds(g_img, on, ok)
    BY <1>1, CallsEnd DEF vars
  <2>2. reply'.on = on
    BY <2>1 DEF CallEnds
  <2>. QED BY <2>1, <2>2, OverwroteLink DEF CallEnds, Outcome, Kept
<1>2. IInv /\ [Next]_vars =>
        [Call /\ g_img' # g_img =>
            \/ \A f \in Names \ reply'.on : Held(g_img', f) = Held(g_img, f)
            \/ LinkOverwritten]_vars
  BY <1>1
<1>. QED BY <1>2, Invariance, PTL DEF Spec, OthersKept

\* A call that succeeds, and brings in every file it was to add, leaves no allocated sector
\* behind that nothing leads to, unless it overwrites the directory's link.
THEOREM SuccessNeverLeaks == Spec => SuccessLeaksNothing
<1>1. ASSUME IInv, [Next]_vars, Call, reply'.ok, reply'.complete, g_img' # g_img
      PROVE  Orphans(g_img') \subseteq Orphans(g_img) \/ LinkOverwritten
  <2>1. PICK on, ok : CallEnds(g_img, on, ok)
    BY <1>1, CallsEnd DEF vars
  <2>2. ok
    BY <1>1, <2>1 DEF CallEnds
  <2>. QED BY <2>1, <2>2, OverwroteLink DEF CallEnds, Outcome
<1>2. IInv /\ [Next]_vars =>
        [Call /\ reply'.ok /\ reply'.complete /\ g_img' # g_img =>
            \/ Orphans(g_img') \subseteq Orphans(g_img)
            \/ LinkOverwritten]_vars
  BY <1>1
<1>. QED BY <1>2, Invariance, PTL DEF Spec, SuccessLeaksNothing

-----------------------------------------------------------------------------
\* Rewriting a file.

LEMMA AddedReads ==
    ASSUME NEW img, Sound(img), NEW f \in Names, NEW content \in Seq(Values), content # <<>>,
           NEW a, a = AddFile(img, f, content), a.ok
    PROVE  ReadFile(a.img, f) = content
<1>1. img \in Image
  BY DEF Sound
<1>2. PICK d, F : Laid(img, d, F)
  BY DEF Sound
<1>3. /\ a.img \in Image /\ ~FileExists(img, f)
      /\ \E secs, p, c, G :
            /\ Added(img, F, a.img, c, G, p, [name |-> f, first |-> secs[1], closed |-> TRUE], secs)
            /\ Holds(a.img, secs, content)
  BY <1>1, <1>2, AddFileIs
<1>4. PICK secs, p, c, G :
            /\ Added(img, F, a.img, c, G, p, [name |-> f, first |-> secs[1], closed |-> TRUE], secs)
            /\ Holds(a.img, secs, content)
  BY <1>3
<1>5. PICK r : r = a.img
  OBVIOUS
<1>6. /\ Laid(r, c, G) /\ p \in DOMAIN G /\ G[p] = secs /\ At(r, p).name = f /\ At(r, p).closed
      /\ \A q \in DOMAIN G \ {p} : q \in DOMAIN F /\ At(r, q) = At(img, q)
  BY <1>4, <1>5 DEF Added
<1>7. r \in Image /\ Holds(r, secs, content)
  BY <1>3, <1>4, <1>5
<1>8. PICK q : q = FindFileEntry(r, f)
  OBVIOUS
<1>9. q \in DOMAIN G /\ At(r, q).name = f /\ At(r, q).closed /\ FileExists(r, f)
  BY <1>6, <1>7, <1>8, FindsIs
<1>10. q = p
  <2>. SUFFICES ASSUME q # p PROVE FALSE
    OBVIOUS
  <2>1. q \in DOMAIN F /\ At(img, q).name = f /\ At(img, q).closed
    BY <1>6, <1>9
  <2>. QED BY <1>1, <1>2, <1>3, <2>1, FindsIs
<1>11. ReadFile(r, f) = Contents(r, p)
  BY <1>8, <1>9, <1>10 DEF ReadFile
<1>12. FileChain(r, p) = secs /\ Path(r, secs)
  BY <1>6, <1>7, LaidReads DEF Laid
<1>13. Len(content) \in Nat /\ Len(content) > 0 /\ content = [k \in 1..Len(content) |-> content[k]]
  OBVIOUS
<1>14. Len(secs) = Len(content) /\ \A k \in 1..Len(content) : r.data[secs[k]] = content[k]
  <2>1. Len(secs) = Len(content)
    BY <1>7 DEF Holds
  <2>2. ASSUME NEW k \in 1..Len(content) PROVE r.data[secs[k]] = content[k]
    <3>1. ~(k > Len(content))
      BY <1>13
    <3>. QED BY <1>7, <2>1, <3>1 DEF Holds
  <2>. QED BY <2>1, <2>2
<1>15. r.data[Last(secs)] # Nothing
  <2>1. Last(secs) = secs[Len(content)] /\ Len(content) \in 1..Len(content)
    BY <1>13, <1>14 DEF Last
  <2>2. content[Len(content)] \in Values
    BY <1>13
  <2>. QED BY <1>14, <2>1, <2>2, DiskAssumption
<1>16. Contents(r, p) = [k \in 1..Len(secs) |-> r.data[secs[k]]]
  BY <1>12, <1>15 DEF Contents
<1>17. [k \in 1..Len(secs) |-> r.data[secs[k]]] = [k \in 1..Len(content) |-> content[k]]
  BY <1>14
<1>. QED BY <1>5, <1>11, <1>13, <1>16, <1>17

LEMMA ReplacedReads ==
    ASSUME Sound(g_img), NEW f \in Names, NEW i \in Nat \ {0}, NEW v \in Values,
           NEW content, content = Overwritten(ReadFile(g_img, f), i, v),
           NEW a, a = Replace(f, content), a.ok
    PROVE  ReadFile(a.img, f) = content
<1>1. PICK b : b = RemoveFile(g_img, f)
  OBVIOUS
<1>2. Sound(b.img)
  BY <1>1, RemoveFileKeeps DEF Outcome
<1>3. PICK old : old = ReadFile(g_img, f)
  OBVIOUS
<1>4. old \in Seq(Values)
  BY <1>3, ReadFileIs
<1>5. content \in Seq(Values) /\ Len(content) = IF i > Len(old) THEN i ELSE Len(old)
  BY <1>3, <1>4, OverwrittenIs
<1>6. Len(content) >= i
  BY <1>4, <1>5
<1>7. content # <<>>
  BY <1>5, <1>6
<1>8. a = AddFile(b.img, f, content)
  BY <1>1 DEF Replace
<1>. QED BY <1>2, <1>5, <1>7, <1>8, AddedReads

\* What a mounted write that succeeded wrote is what the file reads next, and the rest of its
\* content is as it was, although the file is removed and added anew in other sectors.
THEOREM WrittenIsRead == Spec => ReadBack
<1>1. ASSUME IInv, NEW f \in Names, NEW i \in 1..MaxLength, NEW v \in WriteData,
             mounted, reply' = Reply({f}, TRUE), cbm_write(f, i, v)
      PROVE  ReadFile(g_img', f) = Overwritten(ReadFile(g_img, f), i, v)
  <2>1. PICK content : content = Overwritten(ReadFile(g_img, f), i, v)
    OBVIOUS
  <2>2. PICK a : a = Replace(f, content)
    OBVIOUS
  <2>3. g_img' = a.img /\ reply' = Reply({f}, a.ok)
    BY <1>1, <2>1, <2>2 DEF cbm_write, Callback
  <2>4. a.ok
    <3>1. reply'.ok = TRUE
      BY <1>1 DEF Reply
    <3>2. reply'.ok = a.ok
      BY <2>3 DEF Reply
    <3>. QED BY <3>1, <3>2
  <2>5. i \in Nat \ {0} /\ v \in Values
    BY Disk45Assumption
  <2>. QED BY <1>1, <2>1, <2>2, <2>3, <2>4, <2>5, ReplacedReads DEF IInv
<1>2. IInv /\ [Next]_vars =>
        [\A f \in Names, i \in 1..MaxLength, v \in WriteData :
            mounted /\ reply' = Reply({f}, TRUE) =>
                \/ ReadFile(g_img', f) = Overwritten(ReadFile(g_img, f), i, v)
                \/ ~cbm_write(f, i, v)]_vars
  BY <1>1
<1>. QED BY <1>2, Invariance, PTL DEF Spec, ReadBack

LEMMA ReplaceFits ==
    ASSUME Sound(g_img), NEW f \in Names, Cardinality(Named(g_img, f)) = 1,
           NEW content \in Seq(Values), content # <<>>, Len(content) = Len(ReadFile(g_img, f)),
           NEW a, a = Replace(f, content)
    PROVE  a.ok
<1>1. g_img \in Image
  BY DEF Sound
<1>2. PICK d, F : Laid(g_img, d, F)
  BY DEF Sound
<1>3. PICK p : p = FindFileEntry(g_img, f)
  OBVIOUS
<1>4. Len(content) \in Nat /\ Len(content) # 0
  OBVIOUS
<1>5. FileExists(g_img, f)
  BY <1>4 DEF ReadFile
<1>6. p \in DOMAIN F /\ At(g_img, p).name = f /\ p # <<>>
  BY <1>1, <1>2, <1>3, <1>5, FindsIs
<1>7. PICK b : b = RemoveFile(g_img, f)
  OBVIOUS
<1>8. PICK r : r = StoreEntry(FreeChain(g_img, FileChain(g_img, p)), p, NoEntry, g_img.link[p[1]])
  OBVIOUS
<1>9. b.img = r
  BY <1>3, <1>6, <1>7, <1>8 DEF RemoveFile, Done
<1>10. Removed(g_img, d, F, p, r)
  BY <1>1, <1>2, <1>6, <1>8, RemoveIs
<1>11. PICK G : Laid(r, d, G) /\ DOMAIN G = DOMAIN F \ {p}
  BY <1>10 DEF Removed
<1>12. /\ r \in Image /\ ToSet(F[p]) \subseteq r.free
       /\ \A q \in Everywhere : At(r, q) = IF q = p THEN NoEntry ELSE At(g_img, q)
  BY <1>10 DEF Removed
<1>13. Named(g_img, f) = {p}
  <2>1. /\ Listed(g_img) = DOMAIN F /\ DOMAIN F \subseteq Everywhere
    BY <1>1, <1>2, LaidReads
  <2>2. IsFiniteSet(Everywhere)
    <3>1. 1 \in Int /\ DirStart \in Int /\ SlotCount \in Int
      BY Geometry
    <3>2. IsFiniteSet(AllSectors) /\ IsFiniteSet(Slots)
      BY <3>1, FS_Interval DEF AllSectors, Slots
    <3>. QED BY <3>2, FS_Product DEF Everywhere
  <2>3. IsFiniteSet(Named(g_img, f))
    BY <2>1, <2>2, FS_Subset DEF Named
  <2>4. PICK q : Named(g_img, f) = {q}
    BY <2>3, FS_Singleton
  <2>5. p \in Named(g_img, f)
    BY <1>6, <2>1 DEF Named
  <2>. QED BY <2>4, <2>5
<1>14. ~FileExists(r, f)
  <2>. SUFFICES ASSUME FileExists(r, f) PROVE FALSE
    OBVIOUS
  <2>1. PICK q : q = FindFileEntry(r, f)
    OBVIOUS
  <2>2. q \in DOMAIN G /\ At(r, q).name = f
    BY <1>11, <1>12, <2>1, FindsIs
  <2>3. q \in DOMAIN F /\ q # p /\ q \in Everywhere /\ Listed(g_img) = DOMAIN F
    BY <1>1, <1>2, <1>11, <2>2, LaidReads
  <2>4. At(g_img, q).name = f
    BY <1>12, <2>2, <2>3
  <2>5. q \in Named(g_img, f)
    BY <2>3, <2>4 DEF Named
  <2>. QED BY <1>13, <2>3, <2>5
<1>15. Room(r, content)
  <2>1. p \in Vacant(r)
    <3>1. /\ DirectorySlots(g_img) = ToSet(d) \X Slots /\ DirectorySlots(r) = ToSet(d) \X Slots
          /\ Listed(g_img) = DOMAIN F /\ DOMAIN F \subseteq Everywhere
      BY <1>1, <1>2, <1>11, <1>12, LaidReads
    <3>2. p \in DirectorySlots(r)
      BY <1>6, <3>1 DEF Listed
    <3>. QED BY <1>6, <1>12, <3>1, <3>2 DEF Vacant
  <2>2. Len(content) <= Len(F[p])
    <3>1. ReadFile(g_img, f) = Contents(g_img, p)
      BY <1>3, <1>5 DEF ReadFile
    <3>. QED BY <1>1, <1>2, <1>6, <3>1, ContentsIs
  <2>3. Len(F[p]) \in Nat /\ Len(F[p]) <= Cardinality(r.free)
    <3>1. PICK c : c = F[p]
      OBVIOUS
    <3>2. Path(g_img, c) /\ Len(c) \in Nat /\ DOMAIN c = 1..Len(c) /\ c \in Seq(AllSectors)
      BY <1>2, <1>6, <3>1, PathFacts DEF Laid
    <3>3. c \in Injection(1..Len(c), r.free)
      <4>1. \A k \in 1..Len(c) : c[k] \in r.free
        BY <1>12, <3>1, <3>2 DEF ToSet
      <4>2. IsInjective(c)
        BY <3>2 DEF Path
      <4>. QED BY <3>2, <4>1, <4>2 DEF IsInjective, Injection
    <3>4. IsFiniteSet(1..Len(c)) /\ Cardinality(1..Len(c)) = Len(c)
      <4>1. PICK n \in Nat : n = Len(c)
        BY <3>2
      <4>2. IsFiniteSet(1..n) /\ Cardinality(1..n) = n
        BY FS_Interval
      <4>. QED BY <4>1, <4>2
    <3>5. IsFiniteSet(r.free)
      BY <1>12, FreeFinite
    <3>6. Cardinality(1..Len(c)) <= Cardinality(r.free)
      BY <3>3, <3>5, FS_Injection
    <3>. QED BY <3>1, <3>2, <3>4, <3>6
  <2>4. Cardinality(r.free) \in Nat
    BY <1>12, FreeFinite
  <2>5. ~(Len(content) > Cardinality(r.free))
    BY <1>4, <2>2, <2>3, <2>4
  <2>. QED BY <2>1, <2>5 DEF Room
<1>16. a = AddFile(r, f, content)
  BY <1>7, <1>9 DEF Replace
<1>17. a.ok \in BOOLEAN /\ (~a.ok => FileExists(r, f) \/ ~Room(r, content))
  BY <1>11, <1>12, <1>16, AddFileIs
<1>. QED BY <1>14, <1>15, <1>17

\* Rewriting a sector inside a file cannot run out of space, however full the disk: the sectors
\* and the directory slot the removed file gives back are enough.
THEOREM RewriteFits == Spec => InPlaceWriteSucceeds
<1>1. ASSUME IInv, NEW f \in Names, mounted, reply' = Reply({f}, FALSE),
             Cardinality(Named(g_img, f)) = 1, NEW i \in DOMAIN ReadFile(g_img, f),
             NEW v \in WriteData, cbm_write(f, i, v)
      PROVE  FALSE
  <2>1. PICK old : old = ReadFile(g_img, f)
    OBVIOUS
  <2>2. old \in Seq(Values) /\ i \in DOMAIN old
    BY <1>1, <2>1, ReadFileIs DEF IInv
  <2>3. i \in Nat \ {0} /\ ~(i > Len(old)) /\ v \in Values
    BY <2>2, Disk45Assumption
  <2>4. PICK content : content = Overwritten(old, i, v)
    OBVIOUS
  <2>5. content \in Seq(Values) /\ Len(content) = Len(old)
    BY <2>2, <2>3, <2>4, OverwrittenIs
  <2>6. content # <<>>
    BY <2>2, <2>3, <2>5
  <2>7. PICK a : a = Replace(f, content)
    OBVIOUS
  <2>8. reply' = Reply({f}, a.ok)
    BY <1>1, <2>1, <2>4, <2>7 DEF cbm_write, Callback
  <2>9. a.ok
    BY <1>1, <2>1, <2>5, <2>6, <2>7, ReplaceFits DEF IInv
  <2>10. reply'.ok = FALSE
    BY <1>1 DEF Reply
  <2>11. reply'.ok = a.ok
    BY <2>8 DEF Reply
  <2>. QED BY <2>9, <2>10, <2>11
<1>2. IInv /\ [Next]_vars =>
        [\A f \in Names :
            mounted /\ reply' = Reply({f}, FALSE) /\ Cardinality(Named(g_img, f)) = 1 =>
                \A i \in DOMAIN ReadFile(g_img, f), v \in WriteData : ~cbm_write(f, i, v)]_vars
  BY <1>1
<1>. QED BY <1>2, Invariance, PTL DEF Spec, InPlaceWriteSucceeds
=============================================================================
