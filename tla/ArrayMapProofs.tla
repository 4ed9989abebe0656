--------------------------- MODULE ArrayMapProofs ---------------------------
(***************************************************************************)
(* Theorems about ArrayMap, for any keys, hash function, threshold and     *)
(* size: entries and hash tables agree, whatever the operations before.    *)
(***************************************************************************)
EXTENDS ArrayMap, FiniteSetTheorems, SequenceTheorems, WellFoundedInduction, TLAPS

-----------------------------------------------------------------------------
\* The inductive invariant

Cells == [key : Keys, string : StrKeys \cup {Empty}]

\* A table that insert can use.
GoodTable(x, n) ==
    \/ x = NoIndex
    \/ IsTable(x, n) /\ x.count = Cardinality(SlotsOf(x)) /\ x.count < x.cap

\* A probe from the home of h meets the position p before any empty slot.
InTable(x, h, p) ==
    \E i \in 0 .. x.cap - 1 :
        /\ x.slots[SlotAt(x, h, i)] = p
        /\ \A j \in 0 .. i - 1 : x.slots[SlotAt(x, h, j)] # 0

\* Direct, for an array of len cells c.
DirectIn(c, len, k) == k \in IntKeys /\ k < len /\ c[k + 1].key = k

\* The table x has, or does not need, all entries with keys of kind d, but
\* perhaps that at p.
CoversBut(x, c, len, d, p) ==
    x # NoIndex =>
        \A q \in (1 .. len) \ {p} : Kind(c[q].key) = d =>
            DirectIn(c, len, c[q].key) \/ InTable(x, HashOf[c[q].key], q)

Covers(x, c, len, d) == CoversBut(x, c, len, d, 0)

Distinct(c, len) == \A p, q \in 1 .. len : c[p].key = c[q].key => p = q

\* An entry's string key is where the string table looks for it.
Shaped(c, len) ==
    /\ c \in Seq(Cells) /\ len \in 0 .. Len(c) /\ Len(c) <= MaxLength
    /\ \A p \in 1 .. len : c[p].key \in StrKeys => c[p].string = c[p].key

Good(c, len, x, tm) ==
    /\ Shaped(c, len)
    /\ x = [d \in Kinds |-> x[d]] /\ \A d \in Kinds : GoodTable(x[d], Len(c))
    /\ tm => Distinct(c, len) /\ \A d \in Kinds : Covers(x[d], c, len, d)

IInv ==
    /\ Good(mem, length, index, tame)
    /\ status \in {"ok", "hung", "undefined"} /\ tame \in BOOLEAN
    /\ ops \in 0 .. MaxOps

-----------------------------------------------------------------------------
\* Least elements, and the slots of a probe

\* A set of natural numbers has a least element.
LEMMA LeastNumber ==
    ASSUME NEW S \in SUBSET Nat, S # {}
    PROVE  Least(S) \in S /\ \A m \in S : Least(S) <= m
<1> DEFINE R == OpToRel(<, Nat)
<1>1. \A x, y \in Nat : <<x, y>> \in R <=> x < y
  BY DEF OpToRel
<1>2. IsWellFoundedOn(R, Nat)
  BY NatLessThanWellFounded
<1> HIDE DEF R
<1>3. PICK n \in S : \A m \in S : ~(<<m, n>> \in R)
  BY <1>2, WFMin
<1>4. ASSUME NEW m \in S
      PROVE  n <= m
  <2>1. n \in Nat /\ m \in Nat
    OBVIOUS
  <2>2. ~(m < n)
    BY <1>1, <1>3, <2>1, Zenon
  <2> QED
    BY <2>1, <2>2
<1>5. \E l \in S : \A m \in S : l <= m
  BY <1>4
<1> QED
  BY <1>5, Zenon DEF Least

\* The remainder of a number that goes round at most once.
LEMMA WrapOnce ==
    ASSUME NEW n \in Nat, NEW k \in Nat, k < 2 * n
    PROVE  k % n = IF k < n THEN k ELSE k - n
OBVIOUS

\* A probe stays in the table, and gets everywhere.
LEMMA SlotsReached ==
    ASSUME NEW x, x.cap \in Nat \ {0}, NEW h \in Nat
    PROVE  /\ \A i \in 0 .. x.cap - 1 : SlotAt(x, h, i) \in 0 .. x.cap - 1
           /\ \A s \in 0 .. x.cap - 1 : \E i \in 0 .. x.cap - 1 : SlotAt(x, h, i) = s
<1> DEFINE n == x.cap
           r == h % n
<1>1. n \in Nat \ {0} /\ r \in 0 .. n - 1
  OBVIOUS
<1>2. \A i : SlotAt(x, h, i) = (r + i) % n
  BY DEF SlotAt
<1> HIDE DEF n, r
<1>3. ASSUME NEW i \in 0 .. n - 1
      PROVE  SlotAt(x, h, i) = IF r + i < n THEN r + i ELSE r + i - n
  <2>1. r + i \in Nat /\ r + i < 2 * n
    BY <1>1
  <2> QED
    BY <1>1, <1>2, <2>1, WrapOnce
<1>4. \A i \in 0 .. n - 1 : SlotAt(x, h, i) \in 0 .. n - 1
  BY <1>1, <1>3
<1>5. ASSUME NEW s \in 0 .. n - 1
      PROVE  \E i \in 0 .. n - 1 : SlotAt(x, h, i) = s
  <2>1. CASE r <= s
    <3> DEFINE i == s - r
    <3>1. i \in 0 .. n - 1 /\ r + i = s /\ r + i < n
      BY <1>1, <2>1
    <3> HIDE DEF i
    <3> QED
      BY <1>3, <3>1
  <2>2. CASE s < r
    <3> DEFINE i == s - r + n
    <3>1. i \in 0 .. n - 1 /\ ~(r + i < n) /\ r + i - n = s
      BY <1>1, <2>2
    <3> HIDE DEF i
    <3> QED
      BY <1>3, <3>1
  <2> QED
    BY <1>1, <2>1, <2>2
<1> QED
  BY <1>4, <1>5 DEF n

\* A probe for the slots of S stops at the first one of them, if there is any.
LEMMA ProbeStops ==
    ASSUME NEW x, x.cap \in Nat \ {0}, NEW h \in Nat, NEW S \in SUBSET (0 .. x.cap - 1)
    PROVE  IF S = {} THEN Probe(x, h, S) = -1
           ELSE \E i \in 0 .. x.cap - 1 :
                   /\ Probe(x, h, S) = SlotAt(x, h, i) /\ SlotAt(x, h, i) \in S
                   /\ \A j \in 0 .. i - 1 : SlotAt(x, h, j) \notin S
<1> DEFINE hits == {i \in 0 .. x.cap - 1 : SlotAt(x, h, i) \in S}
<1>1. Probe(x, h, S) = IF hits = {} THEN -1 ELSE SlotAt(x, h, Least(hits))
  BY DEF Probe
<1>2. S # {} <=> hits # {}
  <2>1. ASSUME S # {}
        PROVE  hits # {}
    <3>1. PICK s \in 0 .. x.cap - 1 : s \in S
      BY <2>1
    <3>2. PICK i \in 0 .. x.cap - 1 : SlotAt(x, h, i) = s
      BY SlotsReached
    <3> QED
      BY <3>1, <3>2
  <2> QED
    BY <2>1
<1>3. ASSUME S # {}
      PROVE  \E i \in 0 .. x.cap - 1 :
                   /\ Probe(x, h, S) = SlotAt(x, h, i) /\ SlotAt(x, h, i) \in S
                   /\ \A j \in 0 .. i - 1 : SlotAt(x, h, j) \notin S
  <2>1. hits \in SUBSET Nat /\ hits # {}
    BY <1>2, <1>3
  <2>2. Least(hits) \in hits /\ \A m \in hits : Least(hits) <= m
    BY <2>1, LeastNumber
  <2>3. ASSUME NEW j \in 0 .. Least(hits) - 1
        PROVE  SlotAt(x, h, j) \notin S
    <3>1. Least(hits) \in 0 .. x.cap - 1
      BY <2>2
    <3>2. j \in 0 .. x.cap - 1 /\ ~(Least(hits) <= j)
      BY <3>1
    <3> QED
      BY <2>2, <3>2
  <2> HIDE DEF hits
  <2>4. Least(hits) \in 0 .. x.cap - 1 /\ SlotAt(x, h, Least(hits)) \in S
    BY <2>2 DEF hits
  <2> QED
    BY <1>1, <2>1, <2>3, <2>4
<1> QED
  BY <1>1, <1>2, <1>3
-----------------------------------------------------------------------------
\* What insert and delete do to a table

\* Whatever the table x has, y has.
Keeps(x, y) == \A g, q : q \in Nat \ {0} /\ InTable(x, g, q) => InTable(y, g, q)

\* What IsTable says of the fields.
LEMMA TableFields ==
    ASSUME NEW n \in Nat, NEW x, IsTable(x, n)
    PROVE  /\ x = [cap |-> x.cap, slots |-> x.slots, count |-> x.count]
           /\ x.cap \in Nat \ {0} /\ x.cap >= 4 /\ x.count \in Nat
           /\ x.slots \in [0 .. x.cap - 1 -> -1 .. n]
           /\ \A i \in 0 .. x.cap - 1 : x.slots[i] \in -1 .. n
           /\ x # NoIndex
<1>1. x \in [cap : Nat, slots : [0 .. x.cap - 1 -> -1 .. n], count : Nat] /\ x.cap >= 4
  BY ArrayAssumption DEF IsTable
<1>2. x.cap \in Nat \ {0}
  BY <1>1
<1>3. \A i \in 0 .. x.cap - 1 : x.slots[i] \in -1 .. n
  BY <1>1
<1> QED
  BY <1>1, <1>2, <1>3 DEF NoIndex

\* The slots in use are finitely many.
LEMMA SlotsFinite ==
    ASSUME NEW n \in Nat, NEW x, IsTable(x, n)
    PROVE  /\ IsFiniteSet(SlotsOf(x)) /\ Cardinality(SlotsOf(x)) \in Nat
           /\ Cardinality(0 .. x.cap - 1) = x.cap
<1>1. x.cap \in Nat \ {0}
  BY TableFields
<1>2. IsFiniteSet(0 .. x.cap - 1) /\ Cardinality(0 .. x.cap - 1) = x.cap
  <2>1. 0 \in Int /\ x.cap - 1 \in Int /\ ~(0 > x.cap - 1) /\ (x.cap - 1) - 0 + 1 = x.cap
    BY <1>1
  <2> QED
    BY <2>1, FS_Interval
<1>3. IsFiniteSet(SlotsOf(x))
  BY <1>2, FS_Subset DEF SlotsOf
<1> QED
  BY <1>2, <1>3, FS_CardinalityType

\* The slot that Put takes.
LEMMA PutSlot ==
    ASSUME NEW n \in Nat, NEW x, IsTable(x, n), NEW h \in Nat,
           x.count = Cardinality(SlotsOf(x)), x.count < x.cap
    PROVE  \E i \in 0 .. x.cap - 1 :
              /\ Probe(x, h, Unused(x)) = SlotAt(x, h, i)
              /\ SlotAt(x, h, i) \in 0 .. x.cap - 1 /\ x.slots[SlotAt(x, h, i)] <= 0
              /\ \A j \in 0 .. i - 1 : x.slots[SlotAt(x, h, j)] > 0
<1>1. /\ x.cap \in Nat \ {0} /\ x.count \in Nat
      /\ \A i \in 0 .. x.cap - 1 : x.slots[i] \in -1 .. n
  BY TableFields
<1>2. Unused(x) \in SUBSET (0 .. x.cap - 1)
  BY DEF Unused
<1>3. Unused(x) # {}
  <2>1. ASSUME Unused(x) = {}
        PROVE  FALSE
    <3>1. \A i \in 0 .. x.cap - 1 : x.slots[i] > 0
      BY <1>1, <2>1 DEF Unused
    <3>2. SlotsOf(x) = 0 .. x.cap - 1
      BY <3>1 DEF SlotsOf
    <3> QED
      BY <1>1, <3>2, SlotsFinite
  <2> QED
    BY <2>1
<1>4. PICK i \in 0 .. x.cap - 1 :
         /\ Probe(x, h, Unused(x)) = SlotAt(x, h, i) /\ SlotAt(x, h, i) \in Unused(x)
         /\ \A j \in 0 .. i - 1 : SlotAt(x, h, j) \notin Unused(x)
  BY <1>1, <1>2, <1>3, ProbeStops
<1>5. SlotAt(x, h, i) \in 0 .. x.cap - 1 /\ x.slots[SlotAt(x, h, i)] <= 0
  BY <1>4 DEF Unused
<1>6. ASSUME NEW j \in 0 .. i - 1
      PROVE  x.slots[SlotAt(x, h, j)] > 0
  <2>1. j \in 0 .. x.cap - 1
    BY <1>1
  <2>2. SlotAt(x, h, j) \in 0 .. x.cap - 1
    BY <1>1, <2>1, SlotsReached
  <2> QED
    BY <1>1, <1>4, <2>2 DEF Unused
<1> QED
  BY <1>4, <1>5, <1>6

\* Put adds its position and keeps the others.
LEMMA PutTable ==
    ASSUME NEW n \in Nat, NEW x, IsTable(x, n), NEW h \in Nat, NEW p \in 1 .. n,
           x.count = Cardinality(SlotsOf(x)), x.count < x.cap,
           NEW y, y = Put(x, h, p)
    PROVE  /\ IsTable(y, n) /\ y.cap = x.cap /\ y.count = x.count + 1
           /\ y.count = Cardinality(SlotsOf(y))
           /\ InTable(y, h, p) /\ Keeps(x, y)
<1>1. /\ x = [cap |-> x.cap, slots |-> x.slots, count |-> x.count]
      /\ x.cap \in Nat \ {0} /\ x.cap >= 4 /\ x.count \in Nat
      /\ x.slots \in [0 .. x.cap - 1 -> -1 .. n]
      /\ \A i \in 0 .. x.cap - 1 : x.slots[i] \in -1 .. n
  BY TableFields
<1>2. PICK i \in 0 .. x.cap - 1 :
         /\ Probe(x, h, Unused(x)) = SlotAt(x, h, i)
         /\ SlotAt(x, h, i) \in 0 .. x.cap - 1 /\ x.slots[SlotAt(x, h, i)] <= 0
         /\ \A j \in 0 .. i - 1 : x.slots[SlotAt(x, h, j)] > 0
  BY PutSlot
<1> DEFINE s == SlotAt(x, h, i)
<1>3. /\ y = [cap |-> x.cap, slots |-> [x.slots EXCEPT ![s] = p], count |-> x.count + 1]
      /\ s \in 0 .. x.cap - 1 /\ x.slots[s] <= 0
  BY <1>1, <1>2 DEF Put
<1> HIDE DEF s
<1>4. y.cap = x.cap /\ y.slots = [x.slots EXCEPT ![s] = p] /\ y.count = x.count + 1
  BY <1>3
<1>5. /\ y.slots \in [0 .. x.cap - 1 -> -1 .. n] /\ y.slots[s] = p
      /\ \A l \in 0 .. x.cap - 1 : l # s => y.slots[l] = x.slots[l]
  BY <1>1, <1>3, <1>4
<1>6. IsTable(y, n)
  <2>1. y \in [cap : Nat, slots : [0 .. y.cap - 1 -> -1 .. n], count : Nat]
    BY <1>1, <1>3, <1>4, <1>5
  <2> QED
    BY <1>4, <2>1 DEF IsTable
<1>7. y.count = Cardinality(SlotsOf(y))
  <2>1. SlotsOf(y) = SlotsOf(x) \cup {s} /\ s \notin SlotsOf(x)
    BY <1>1, <1>3, <1>4, <1>5 DEF SlotsOf
  <2> QED
    BY <1>4, <2>1, SlotsFinite, FS_AddElement
<1>8. \A g, j : SlotAt(y, g, j) = SlotAt(x, g, j)
  BY <1>4 DEF SlotAt
<1>9. InTable(y, h, p)
  <2>1. y.slots[SlotAt(y, h, i)] = p
    BY <1>5, <1>8 DEF s
  <2>2. ASSUME NEW j \in 0 .. i - 1
        PROVE  y.slots[SlotAt(y, h, j)] # 0
    <3>1. SlotAt(x, h, j) \in 0 .. x.cap - 1
      <4>1. j \in 0 .. x.cap - 1
        BY <1>1
      <4> QED
        BY <1>1, <4>1, SlotsReached
    <3>2. x.slots[SlotAt(x, h, j)] > 0
      BY <1>2
    <3> QED
      BY <1>3, <1>5, <1>8, <3>1, <3>2
  <2> QED
    BY <1>4, <2>1, <2>2 DEF InTable
<1>10. ASSUME NEW g, NEW q, q \in Nat \ {0}, InTable(x, g, q)
       PROVE  InTable(y, g, q)
  <2>1. PICK l \in 0 .. x.cap - 1 :
           /\ x.slots[SlotAt(x, g, l)] = q
           /\ \A j \in 0 .. l - 1 : x.slots[SlotAt(x, g, j)] # 0
    BY <1>10 DEF InTable
  <2>2. y.slots[SlotAt(x, g, l)] = q
    BY <1>3, <1>4, <1>5, <1>10, <2>1
  <2>3. ASSUME NEW j \in 0 .. l - 1
        PROVE  y.slots[SlotAt(x, g, j)] # 0
    BY <1>4, <1>5, <2>1
  <2> QED
    BY <1>4, <1>8, <2>1, <2>2, <2>3 DEF InTable
<1> QED
  BY <1>4, <1>6, <1>7, <1>9, <1>10 DEF Keeps
\* Where the probe of lookup and delete stops.
LEMMA SeekStops ==
    ASSUME NEW n \in Nat, NEW x, IsTable(x, n), NEW c, NEW len \in Nat, NEW k \in Keys
    PROVE  LET s == Seek(x, c, len, k) IN
           \/ s = -1
           \/ /\ s \in 0 .. x.cap - 1
              /\ x.slots[s] = 0 \/ (x.slots[s] \in 1 .. len /\ c[x.slots[s]].key = k)
<1> DEFINE S == {i \in 0 .. x.cap - 1 :
                    LET s == x.slots[i] IN s = 0 \/ (s \in 1 .. len /\ c[s].key = k)}
<1>1. x.cap \in Nat \ {0} /\ HashOf[k] \in Nat
  BY TableFields, ArrayAssumption
<1>2. Seek(x, c, len, k) = Probe(x, HashOf[k], S) /\ S \in SUBSET (0 .. x.cap - 1)
  BY DEF Seek
<1>3. \A s \in S : /\ s \in 0 .. x.cap - 1
                   /\ x.slots[s] = 0 \/ (x.slots[s] \in 1 .. len /\ c[x.slots[s]].key = k)
  OBVIOUS
<1> HIDE DEF S
<1>4. Probe(x, HashOf[k], S) = -1 \/ Probe(x, HashOf[k], S) \in S
  BY <1>1, <1>2, ProbeStops
<1> QED
  BY <1>2, <1>3, <1>4

\* An entry that the table has is found.
LEMMA SeekFinds ==
    ASSUME NEW n \in Nat, NEW x, IsTable(x, n), NEW c, NEW len \in Nat, NEW k \in Keys,
           NEW q \in 1 .. len, c[q].key = k, InTable(x, HashOf[k], q)
    PROVE  LET s == Seek(x, c, len, k) IN
           s \in 0 .. x.cap - 1 /\ x.slots[s] \in 1 .. len /\ c[x.slots[s]].key = k
<1> DEFINE S == {i \in 0 .. x.cap - 1 :
                    LET s == x.slots[i] IN s = 0 \/ (s \in 1 .. len /\ c[s].key = k)}
           At(i) == SlotAt(x, HashOf[k], i)
<1>1. x.cap \in Nat \ {0} /\ HashOf[k] \in Nat
  BY TableFields, ArrayAssumption
<1>2. Seek(x, c, len, k) = Probe(x, HashOf[k], S) /\ S \in SUBSET (0 .. x.cap - 1)
  BY DEF Seek
<1>3. PICK i \in 0 .. x.cap - 1 : x.slots[At(i)] = q /\ \A j \in 0 .. i - 1 : x.slots[At(j)] # 0
  BY DEF InTable
<1>4. At(i) \in S
  <2>1. At(i) \in 0 .. x.cap - 1
    BY <1>1, SlotsReached
  <2> QED
    BY <1>3, <2>1
<1>5. PICK l \in 0 .. x.cap - 1 :
         /\ Probe(x, HashOf[k], S) = At(l) /\ At(l) \in S
         /\ \A j \in 0 .. l - 1 : At(j) \notin S
  BY <1>1, <1>2, <1>4, ProbeStops
<1>6. ~(i < l)
  <2>1. i < l => i \in 0 .. l - 1
    BY <1>1
  <2> QED
    BY <1>4, <1>5, <2>1
<1>7. x.slots[At(l)] # 0
  <2>1. l = i \/ l \in 0 .. i - 1
    BY <1>1, <1>6
  <2> QED
    BY <1>3, <2>1
<1>8. At(l) \in 0 .. x.cap - 1 /\ x.slots[At(l)] \in 1 .. len /\ c[x.slots[At(l)]].key = k
  BY <1>5, <1>7
<1> QED
  BY <1>2, <1>5, <1>8

\* Delete takes one entry of its key away at most, and keeps the others.
LEMMA DeleteTable ==
    ASSUME NEW n \in Nat, NEW x, GoodTable(x, n), NEW c, NEW len \in Nat, NEW k \in Keys,
           ~Endless(x, c, len, k), NEW y, y = Delete(x, c, len, k)
    PROVE  /\ GoodTable(y, n) /\ (y = NoIndex <=> x = NoIndex)
           /\ \A g, q : (/\ q \in Nat \ {0} /\ InTable(x, g, q)
                         /\ ~(q \in 1 .. len /\ c[q].key = k)) => InTable(y, g, q)
<1> DEFINE s == Seek(x, c, len, k)
<1>1. CASE x = NoIndex
  BY <1>1 DEF Delete
<1>2. CASE x # NoIndex
  <2>1. /\ IsTable(x, n) /\ x.count = Cardinality(SlotsOf(x)) /\ x.count < x.cap
    BY <1>2 DEF GoodTable
  <2>2. /\ s \in 0 .. x.cap - 1
        /\ x.slots[s] = 0 \/ (x.slots[s] \in 1 .. len /\ c[x.slots[s]].key = k)
    BY <1>2, <2>1, SeekStops DEF Endless
  <2>3. /\ x = [cap |-> x.cap, slots |-> x.slots, count |-> x.count]
        /\ x.cap \in Nat \ {0} /\ x.cap >= 4 /\ x.count \in Nat
        /\ x.slots \in [0 .. x.cap - 1 -> -1 .. n]
        /\ \A i \in 0 .. x.cap - 1 : x.slots[i] \in -1 .. n
    BY <2>1, TableFields
  <2>4. y = IF x.slots[s] = 0 THEN x ELSE [x EXCEPT !.slots[s] = -1, !.count = @ - 1]
    BY <1>2 DEF Delete
  <2> HIDE DEF s
  <2>5. CASE x.slots[s] = 0
    BY <1>2, <2>4, <2>5
  <2>6. CASE x.slots[s] # 0
    <3>1. x.slots[s] \in 1 .. len /\ c[x.slots[s]].key = k /\ x.slots[s] > 0
      BY <2>2, <2>6
    <3>2. y = [cap |-> x.cap, slots |-> [x.slots EXCEPT ![s] = -1], count |-> x.count - 1]
      BY <2>3, <2>4, <2>6
    <3>3. y.cap = x.cap /\ y.slots = [x.slots EXCEPT ![s] = -1] /\ y.count = x.count - 1
      BY <3>2
    <3>4. /\ y.slots \in [0 .. x.cap - 1 -> -1 .. n] /\ y.slots[s] = -1
          /\ \A l \in 0 .. x.cap - 1 : l # s => y.slots[l] = x.slots[l]
      BY <2>2, <2>3, <3>3
    <3>5. /\ SlotsOf(y) = SlotsOf(x) \ {s} /\ s \in SlotsOf(x)
      BY <2>2, <2>3, <3>1, <3>3, <3>4 DEF SlotsOf
    <3>6. y.count = Cardinality(SlotsOf(y)) /\ y.count \in Nat
      <4>1. IsFiniteSet(SlotsOf(x)) /\ Cardinality(SlotsOf(y)) = x.count - 1
        BY <2>1, <3>5, SlotsFinite, FS_RemoveElement
      <4>2. Cardinality(SlotsOf(y)) \in Nat
        BY <3>5, <4>1, FS_RemoveElement, FS_CardinalityType
      <4> QED
        BY <3>3, <4>1, <4>2
    <3>7. IsTable(y, n)
      <4>1. y \in [cap : Nat, slots : [0 .. y.cap - 1 -> -1 .. n], count : Nat]
        BY <2>3, <3>2, <3>3, <3>4, <3>6
      <4> QED
        BY <2>1, <3>3, <4>1 DEF IsTable
    <3>8. GoodTable(y, n) /\ y # NoIndex
      BY <2>1, <2>3, <3>3, <3>6, <3>7, TableFields DEF GoodTable
    <3>9. ASSUME NEW g, NEW q, q \in Nat \ {0}, InTable(x, g, q),
                 ~(q \in 1 .. len /\ c[q].key = k)
          PROVE  InTable(y, g, q)
      <4>1. PICK l \in 0 .. x.cap - 1 :
               /\ x.slots[SlotAt(x, g, l)] = q
               /\ \A j \in 0 .. l - 1 : x.slots[SlotAt(x, g, j)] # 0
        BY <3>9 DEF InTable
      <4>2. SlotAt(x, g, l) # s
        BY <3>1, <3>9, <4>1
      <4>3. y.slots[SlotAt(x, g, l)] = q
        BY <3>3, <4>1, <4>2, <2>3
      <4>4. ASSUME NEW j \in 0 .. l - 1
            PROVE  y.slots[SlotAt(x, g, j)] # 0
        BY <2>3, <3>3, <3>4, <4>1
      <4>5. \A j : SlotAt(y, g, j) = SlotAt(x, g, j)
        BY <3>3 DEF SlotAt
      <4> QED
        BY <3>3, <4>1, <4>3, <4>4, <4>5 DEF InTable
    <3> QED
      BY <1>2, <3>8, <3>9
  <2> QED
    BY <2>5, <2>6
<1> QED
  BY <1>1, <1>2
-----------------------------------------------------------------------------
\* Recursive functions

\* What holds at 0 and goes from each number to the next holds up to N.
LEMMA UpTo ==
    ASSUME NEW N \in Nat, NEW G, 0 \in G, \A m \in 1 .. N : m - 1 \in G => m \in G
    PROVE  \A m \in 0 .. N : m \in G
<1> DEFINE B == (0 .. N) \ G
<1>1. ASSUME B # {}
      PROVE  FALSE
  <2>1. Least(B) \in B /\ \A m \in B : Least(B) <= m
    BY <1>1, LeastNumber
  <2> HIDE DEF B
  <2>2. Least(B) \in 0 .. N /\ Least(B) \notin G
    BY <2>1 DEF B
  <2>3. Least(B) \in 1 .. N
    BY <2>2
  <2>4. Least(B) - 1 \notin B
    BY <2>1, <2>3
  <2>5. Least(B) - 1 \in G
    BY <2>3, <2>4 DEF B
  <2> QED
    BY <2>2, <2>3, <2>5
<1> QED
  BY <1>1

\* t begins with a and goes on by step.
Follows(t, N, a, step) == t[0] = a /\ \A m \in 1 .. N : t[m] = step[<<m, t[m - 1]>>]

\* A function on 0 .. N that does exists.
LEMMA Recursion ==
    ASSUME NEW N \in Nat, NEW S, NEW a \in S, NEW step,
           \A m \in 1 .. N, v \in S : step[<<m, v>>] \in S
    PROVE  \E t \in [0 .. N -> S] : Follows(t, N, a, step)
<1> DEFINE Up(m, u) == u[0] = a /\ \A j \in 1 .. m : u[j] = step[<<j, u[j - 1]>>]
           G == {m \in 0 .. N : \E u \in [0 .. m -> S] : Up(m, u)}
<1> USE DEF Follows
<1>1. 0 \in G
  <2> DEFINE w == [j \in 0 .. 0 |-> a]
  <2>1. w \in [0 .. 0 -> S] /\ w[0] = a /\ 1 .. 0 = {}
    OBVIOUS
  <2> HIDE DEF w
  <2>2. \E u \in [0 .. 0 -> S] : Up(0, u)
    BY <2>1
  <2> QED
    BY <2>2
<1>2. ASSUME NEW m \in 1 .. N, m - 1 \in G
      PROVE  m \in G
  <2>1. PICK u \in [0 .. m - 1 -> S] : Up(m - 1, u)
    BY <1>2
  <2> DEFINE w == [j \in 0 .. m |-> IF j < m THEN u[j] ELSE step[<<m, u[m - 1]>>]]
  <2>2. u[m - 1] \in S
    OBVIOUS
  <2>3. w \in [0 .. m -> S]
    <3>1. step[<<m, u[m - 1]>>] \in S
      BY <2>2
    <3>2. \A j \in 0 .. m : j < m => u[j] \in S
      OBVIOUS
    <3> QED
      BY <3>1, <3>2
  <2>4. w[0] = a
    BY <2>1
  <2>5. ASSUME NEW j \in 1 .. m
        PROVE  w[j] = step[<<j, w[j - 1]>>]
    <3>1. w[j - 1] = u[j - 1]
      OBVIOUS
    <3>2. CASE j < m
      <4>1. w[j] = u[j] /\ j \in 1 .. m - 1
        BY <3>2
      <4> QED
        BY <2>1, <3>1, <4>1
    <3>3. CASE j = m
      <4>1. w[m] = step[<<m, u[m - 1]>>]
        OBVIOUS
      <4> QED
        BY <3>1, <3>3, <4>1
    <3> QED
      BY <3>2, <3>3
  <2> HIDE DEF w
  <2>6. Up(m, w)
    BY <2>4, <2>5
  <2> QED
    BY <2>3, <2>6
<1> HIDE DEF G
<1>3. N \in G
  BY <1>1, <1>2, UpTo
<1> QED
  BY <1>3 DEF G

\* The loops of build and of doubling, unfolded.
LEMMA FilledUnfolds ==
    ASSUME NEW d, NEW c, NEW cap, NEW ps,
           \E u : u = [n \in 0 .. Len(ps) |->
              IF n = 0 THEN Blank(cap)
              ELSE IF ps[n] > 0 THEN Put(u[n - 1], HashIn(d, c[ps[n]]), ps[n])
              ELSE u[n - 1]]
    PROVE  \E u : /\ u = [n \in 0 .. Len(ps) |->
                       IF n = 0 THEN Blank(cap)
                       ELSE IF ps[n] > 0 THEN Put(u[n - 1], HashIn(d, c[ps[n]]), ps[n])
                       ELSE u[n - 1]]
                  /\ Filled(d, c, cap, ps) = u[Len(ps)]
BY Zenon DEF Filled

\* The loop that doubles a first table's slots, unfolded.
LEMMA CapForUnfolds ==
    ASSUME NEW len,
           \E u : u = [n \in 0 .. len |->
              IF n = 0 THEN InitialCap
              ELSE IF u[n - 1] < len * 2 THEN u[n - 1] * 2 ELSE u[n - 1]]
    PROVE  \E u : /\ u = [n \in 0 .. len |->
                       IF n = 0 THEN InitialCap
                       ELSE IF u[n - 1] < len * 2 THEN u[n - 1] * 2 ELSE u[n - 1]]
                  /\ CapFor(len) = u[len]
BY Zenon DEF CapFor
-----------------------------------------------------------------------------
\* Tables that are built

\* ps holds positions up to n, zeros and tombstones; the cells up to n have a
\* hash; the table y has all the positions of ps.
Names(ps, n)        == \A i \in 1 .. Len(ps) : ps[i] \in -1 .. n
Hashed(d, c, n)     == \A q \in 1 .. n : HashIn(d, c[q]) \in Nat
HasAll(y, d, c, ps) ==
    \A i \in 1 .. Len(ps) : ps[i] > 0 => InTable(y, HashIn(d, c[ps[i]]), ps[i])

\* The loop of build and of doubling ends with a table of all it was given.
LEMMA FilledTable ==
    ASSUME NEW n \in Nat, NEW d, NEW c, NEW cap \in Nat, cap >= InitialCap,
           NEW ps, Len(ps) \in Nat, Len(ps) <= cap,
           Names(ps, n), Hashed(d, c, n), NEW y, y = Filled(d, c, cap, ps)
    PROVE  /\ IsTable(y, n) /\ y.cap = cap
           /\ y.count = Cardinality(SlotsOf(y)) /\ y.count <= Len(ps)
           /\ HasAll(y, d, c, ps)
<1> DEFINE N == Len(ps)
           S == [cap : {cap}, slots : [0 .. cap - 1 -> -1 .. n], count : Nat]
           More(m, v) == IF ps[m] > 0 THEN Put(v, HashIn(d, c[ps[m]]), ps[m]) ELSE v
           step == [e \in (1 .. N) \X S |-> More(e[1], e[2])]
<1> USE DEF Names, Hashed
<1>1. /\ Blank(cap) = [cap |-> cap, slots |-> [i \in 0 .. cap - 1 |-> 0], count |-> 0]
      /\ Blank(cap) \in S
  BY DEF Blank
<1>2. ASSUME NEW m \in 1 .. N, NEW v \in S
      PROVE  step[<<m, v>>] = More(m, v) /\ step[<<m, v>>] \in S
  <2>1. step[<<m, v>>] = More(m, v)
    OBVIOUS
  <2>2. ASSUME ps[m] > 0
        PROVE  More(m, v) \in S
    <3>1. ps[m] \in 1 .. n
      BY <2>2
    <3> DEFINE s == Probe(v, HashIn(d, c[ps[m]]), Unused(v))
    <3>2. /\ v.cap = cap /\ v.slots \in [0 .. cap - 1 -> -1 .. n] /\ v.count \in Nat
          /\ v = [cap |-> cap, slots |-> v.slots, count |-> v.count]
      OBVIOUS
    <3>3. More(m, v) = [v EXCEPT !.slots[s] = ps[m], !.count = @ + 1]
      BY <2>2 DEF Put
    <3> HIDE DEF s, More
    <3>4. More(m, v) =
             [cap |-> cap, slots |-> [v.slots EXCEPT ![s] = ps[m]], count |-> v.count + 1]
      BY <3>2, <3>3
    <3>5. [v.slots EXCEPT ![s] = ps[m]] \in [0 .. cap - 1 -> -1 .. n]
      BY <3>1, <3>2
    <3> QED
      BY <3>2, <3>4, <3>5
  <2> QED
    BY <2>1, <2>2
<1> HIDE DEF step, S, More
<1>3. PICK t \in [0 .. N -> S] : Follows(t, N, Blank(cap), step)
  BY <1>1, <1>2, Recursion
<1>4. \A m \in 1 .. N : t[m] = More(m, t[m - 1])
  <2>1. \A m \in 1 .. N : m - 1 \in 0 .. N
    OBVIOUS
  <2> QED
    BY <1>2, <1>3, <2>1 DEF Follows
<1>5. t = [m \in 0 .. N |-> IF m = 0 THEN Blank(cap) ELSE More(m, t[m - 1])]
  BY <1>3, <1>4 DEF Follows
<1>6. PICK u : /\ u = [m \in 0 .. N |-> IF m = 0 THEN Blank(cap) ELSE More(m, u[m - 1])]
               /\ y = u[N]
  BY <1>5, FilledUnfolds DEF More
<1>7. u[0] = Blank(cap) /\ \A m \in 1 .. N : u[m] = More(m, u[m - 1])
  <2>1. 0 \in 0 .. N /\ \A m \in 1 .. N : m \in 0 .. N /\ m # 0
    OBVIOUS
  <2> HIDE DEF N
  <2> QED
    BY <1>6, <2>1
<1> DEFINE Sound(m) ==
              /\ IsTable(u[m], n) /\ u[m].cap = cap
              /\ u[m].count = Cardinality(SlotsOf(u[m])) /\ u[m].count <= m
              /\ \A i \in 1 .. m : ps[i] > 0 => InTable(u[m], HashIn(d, c[ps[i]]), ps[i])
           G == {m \in 0 .. N : Sound(m)}
<1>8. Sound(0)
  <2> DEFINE b == Blank(cap)
  <2>1. /\ b.cap = cap /\ b.count = 0 /\ b.slots = [i \in 0 .. cap - 1 |-> 0]
        /\ b \in [cap : Nat, slots : [0 .. b.cap - 1 -> -1 .. n], count : Nat]
    BY <1>1
  <2> HIDE DEF b
  <2>2. IsTable(b, n)
    BY <2>1 DEF IsTable
  <2>3. SlotsOf(b) = {}
    BY <2>1 DEF SlotsOf
  <2>4. b.count = Cardinality(SlotsOf(b))
    BY <2>1, <2>3, FS_EmptySet
  <2> QED
    BY <1>7, <2>1, <2>2, <2>4 DEF b
<1>9. ASSUME NEW m \in 1 .. N, Sound(m - 1)
      PROVE  Sound(m)
  <2> DEFINE x == u[m - 1]
  <2>1. /\ IsTable(x, n) /\ x.cap = cap
        /\ x.count = Cardinality(SlotsOf(x)) /\ x.count <= m - 1
        /\ \A i \in 1 .. m - 1 : ps[i] > 0 => InTable(x, HashIn(d, c[ps[i]]), ps[i])
        /\ x.count \in Nat
    BY <1>9, TableFields
  <2> HIDE DEF x
  <2>2. u[m] = More(m, x)
    BY <1>7 DEF x
  <2>3. CASE ps[m] > 0
    <3>1. ps[m] \in 1 .. n /\ HashIn(d, c[ps[m]]) \in Nat
      BY <2>3
    <3>2. u[m] = Put(x, HashIn(d, c[ps[m]]), ps[m]) /\ x.count < x.cap
      BY <2>1, <2>2, <2>3 DEF More
    <3>3. /\ IsTable(u[m], n) /\ u[m].cap = x.cap /\ u[m].count = x.count + 1
          /\ u[m].count = Cardinality(SlotsOf(u[m]))
          /\ InTable(u[m], HashIn(d, c[ps[m]]), ps[m])
          /\ Keeps(x, u[m])
      BY <2>1, <3>1, <3>2, PutTable
    <3>4. ASSUME NEW i \in 1 .. m, ps[i] > 0
          PROVE  InTable(u[m], HashIn(d, c[ps[i]]), ps[i])
      <4>1. CASE i = m
        BY <3>3, <4>1
      <4>2. CASE i # m
        <5>1. i \in 1 .. m - 1 /\ ps[i] \in Nat \ {0}
          BY <3>4, <4>2
        <5> QED
          BY <2>1, <3>3, <3>4, <5>1 DEF Keeps
      <4> QED
        BY <4>1, <4>2
    <3> QED
      BY <2>1, <3>3, <3>4
  <2>4. CASE ~(ps[m] > 0)
    <3>1. u[m] = x
      BY <2>2, <2>4 DEF More
    <3>2. \A i \in 1 .. m : ps[i] > 0 => i \in 1 .. m - 1
      BY <2>4
    <3> QED
      BY <2>1, <3>1, <3>2
  <2> QED
    BY <2>3, <2>4
<1> HIDE DEF Sound
<1>10. \A m \in 0 .. N : m \in G
  <2>1. 0 \in G
    BY <1>8
  <2>2. \A m \in 1 .. N : m - 1 \in G => m \in G
    BY <1>9
  <2> HIDE DEF G
  <2> QED
    BY <2>1, <2>2, UpTo
<1>11. Sound(N)
  BY <1>10
<1> QED
  BY <1>6, <1>11 DEF Sound, HasAll

\* The slots of a first table: twice the entries at least.
LEMMA CapForEnough ==
    ASSUME NEW len \in Nat
    PROVE  CapFor(len) \in Nat /\ CapFor(len) >= InitialCap /\ CapFor(len) >= 2 * len
<1> DEFINE More(v) == IF v < len * 2 THEN v * 2 ELSE v
           step == [e \in (1 .. len) \X Nat |-> More(e[2])]
<1>1. InitialCap \in Nat /\ InitialCap >= 4
  BY ArrayAssumption
<1>2. \A m \in 1 .. len, v \in Nat : step[<<m, v>>] = More(v) /\ step[<<m, v>>] \in Nat
  OBVIOUS
<1> HIDE DEF step, More
<1>3. PICK t \in [0 .. len -> Nat] : Follows(t, len, InitialCap, step)
  BY <1>1, <1>2, Recursion
<1>4. \A m \in 1 .. len : t[m] = More(t[m - 1])
  <2>1. \A m \in 1 .. len : m - 1 \in 0 .. len
    OBVIOUS
  <2> QED
    BY <1>2, <1>3, <2>1 DEF Follows
<1>5. t = [m \in 0 .. len |-> IF m = 0 THEN InitialCap ELSE More(t[m - 1])]
  BY <1>3, <1>4 DEF Follows
<1>6. PICK u : /\ u = [m \in 0 .. len |-> IF m = 0 THEN InitialCap ELSE More(u[m - 1])]
               /\ CapFor(len) = u[len]
  BY <1>5, CapForUnfolds DEF More
<1>7. u[0] = InitialCap /\ \A m \in 1 .. len : u[m] = More(u[m - 1])
  BY <1>6
<1> DEFINE Sound(m) == /\ u[m] \in Nat /\ u[m] >= InitialCap
                       /\ u[m] >= 2 * len \/ u[m] >= 2 * m + 4
           G == {m \in 0 .. len : Sound(m)}
<1>8. Sound(0)
  BY <1>1, <1>7
<1>9. ASSUME NEW m \in 1 .. len, Sound(m - 1)
      PROVE  Sound(m)
  <2> DEFINE x == u[m - 1]
  <2>1. x \in Nat /\ x >= InitialCap /\ (x >= 2 * len \/ x >= 2 * (m - 1) + 4)
    BY <1>9
  <2> HIDE DEF x
  <2>2. u[m] = IF x < len * 2 THEN x * 2 ELSE x
    BY <1>7 DEF x, More
  <2> QED
    BY <1>1, <2>1, <2>2
<1> HIDE DEF Sound
<1>10. \A m \in 0 .. len : m \in G
  <2>1. 0 \in G
    BY <1>8
  <2>2. \A m \in 1 .. len : m - 1 \in G => m \in G
    BY <1>9
  <2> HIDE DEF G
  <2> QED
    BY <2>1, <2>2, UpTo
<1>11. Sound(len)
  BY <1>10
<1> QED
  BY <1>6, <1>11 DEF Sound
-----------------------------------------------------------------------------
\* Tables and entries

\* Keys have a kind, and a hash.
LEMMA KeyFacts ==
    ASSUME NEW k \in Keys
    PROVE  /\ Kind(k) \in Kinds /\ HashOf[k] \in Nat /\ k # Empty
           /\ Kind(k) = "str" <=> k \in StrKeys
           /\ Kind(k) = "int" <=> k \in IntKeys
BY ArrayAssumption DEF Kind, Kinds, Keys

\* Every cell has a hash in each table, and an entry has that of its key in the
\* table of its kind.
LEMMA HashFacts ==
    ASSUME NEW c, NEW len, Shaped(c, len), NEW d \in Kinds
    PROVE  /\ Hashed(d, c, Len(c))
           /\ \A q \in 1 .. len : /\ c[q].key \in Keys /\ q \in 1 .. Len(c)
                                  /\ Kind(c[q].key) = d => HashIn(d, c[q]) = HashOf[c[q].key]
<1>1. c \in Seq(Cells) /\ Len(c) \in Nat /\ len \in 0 .. Len(c)
  BY DEF Shaped
<1>2. ASSUME NEW q \in 1 .. Len(c)
      PROVE  c[q].key \in Keys /\ HashIn(d, c[q]) \in Nat
  <2>1. c[q] \in Cells
    BY <1>1
  <2>2. c[q].key \in Keys /\ c[q].string \in StrKeys \cup {Empty}
    BY <2>1 DEF Cells
  <2>3. c[q].key \in Keys \cup {Empty} /\ c[q].string \in Keys \cup {Empty}
    BY <2>2 DEF Keys
  <2> QED
    BY <2>2, <2>3, ArrayAssumption DEF HashIn
<1>3. ASSUME NEW q \in 1 .. len
      PROVE  /\ c[q].key \in Keys /\ q \in 1 .. Len(c)
             /\ Kind(c[q].key) = d => HashIn(d, c[q]) = HashOf[c[q].key]
  <2>1. q \in 1 .. Len(c)
    BY <1>1
  <2>2. c[q].key \in StrKeys => c[q].string = c[q].key
    BY DEF Shaped
  <2> QED
    BY <1>2, <2>1, <2>2, KeyFacts DEF HashIn
<1> QED
  BY <1>2, <1>3 DEF Hashed

\* A table that was built has every entry of its kind.
LEMMA BuildTable ==
    ASSUME NEW c, NEW len, Shaped(c, len), NEW d \in Kinds, NEW y, y = Build(d, c, len)
    PROVE  GoodTable(y, Len(c)) /\ Covers(y, c, len, d)
<1> DEFINE ps == [p \in 1 .. len |-> IF Kind(c[p].key) = d THEN p ELSE 0]
<1>1. Len(c) \in Nat /\ len \in Nat /\ len <= Len(c) /\ Len(ps) = len
  BY DEF Shaped
<1>2. /\ CapFor(len) \in Nat /\ CapFor(len) >= InitialCap /\ CapFor(len) >= 4
      /\ CapFor(len) >= 2 * len
  BY <1>1, CapForEnough, ArrayAssumption
<1>3. y = Filled(d, c, CapFor(len), ps)
  BY DEF Build
<1>4. \A i \in 1 .. len : ps[i] = IF Kind(c[i].key) = d THEN i ELSE 0
  OBVIOUS
<1> HIDE DEF ps
<1>5. Names(ps, Len(c)) /\ Len(ps) <= CapFor(len) /\ len < CapFor(len)
  BY <1>1, <1>2, <1>4 DEF Names
<1>6. Hashed(d, c, Len(c))
  BY HashFacts
<1>7. /\ IsTable(y, Len(c)) /\ y.cap = CapFor(len)
      /\ y.count = Cardinality(SlotsOf(y)) /\ y.count <= len
      /\ \A i \in 1 .. len : ps[i] > 0 => InTable(y, HashIn(d, c[ps[i]]), ps[i])
  <2>1. /\ IsTable(y, Len(c)) /\ y.cap = CapFor(len)
        /\ y.count = Cardinality(SlotsOf(y)) /\ y.count <= Len(ps)
        /\ HasAll(y, d, c, ps)
    <3>1. Len(ps) \in Nat
      BY <1>1
    <3> QED
      BY <1>1, <1>2, <1>3, <1>5, <1>6, <3>1, FilledTable
  <2> QED
    BY <1>1, <2>1 DEF HasAll
<1>8. GoodTable(y, Len(c))
  <2>1. y.count \in Nat
    BY <1>1, <1>7, TableFields
  <2> QED
    BY <1>1, <1>2, <1>5, <1>7, <2>1 DEF GoodTable
<1>9. ASSUME NEW q \in 1 .. len, Kind(c[q].key) = d
      PROVE  InTable(y, HashOf[c[q].key], q)
  <2>1. ps[q] = q /\ ps[q] > 0
    BY <1>1, <1>4, <1>9
  <2> QED
    BY <1>7, <1>9, <2>1, HashFacts
<1> QED
  BY <1>8, <1>9 DEF Covers, CoversBut

\* A full table is doubled into one with room that has the same entries.
LEMMA RoomMade ==
    ASSUME NEW c, NEW len, Shaped(c, len), NEW d \in Kinds,
           NEW x, IsTable(x, Len(c)), x.count = Cardinality(SlotsOf(x)),
           NEW z, z = IF Full(x) THEN Filled(d, c, x.cap * 2, Held(x)) ELSE x
    PROVE  /\ IsTable(z, Len(c)) /\ z.count = Cardinality(SlotsOf(z)) /\ z.count + 1 < z.cap
           /\ \A q \in 1 .. len : (Kind(c[q].key) = d /\ InTable(x, HashOf[c[q].key], q)) =>
                                      InTable(z, HashOf[c[q].key], q)
<1>1. /\ Len(c) \in Nat /\ len \in Nat /\ len <= Len(c)
      /\ x.cap \in Nat \ {0} /\ x.cap >= 4 /\ x.count \in Nat
      /\ \A i \in 0 .. x.cap - 1 : x.slots[i] \in -1 .. Len(c)
  <2>1. Len(c) \in Nat /\ len \in Nat /\ len <= Len(c)
    BY DEF Shaped
  <2> QED
    BY <2>1, TableFields
<1>2. CASE ~Full(x)
  <2>1. z = x /\ ~(x.count * 4 >= x.cap * 3)
    BY <1>2 DEF Full
  <2>2. x.count + 1 < x.cap
    BY <1>1, <2>1
  <2> QED
    BY <2>1, <2>2
<1>3. CASE Full(x)
  <2> DEFINE ps == Held(x)
             cap == x.cap * 2
  <2>1. Len(ps) = x.cap /\ \A i \in 1 .. x.cap : ps[i] = x.slots[i - 1]
    BY <1>1 DEF Held
  <2>2. z = Filled(d, c, cap, ps)
    BY <1>3
  <2>3. cap \in Nat /\ cap >= InitialCap /\ x.cap + 1 < cap /\ Len(ps) <= cap
    BY <1>1, <2>1, ArrayAssumption DEF IsTable
  <2>4. Names(ps, Len(c))
    <3>1. \A i \in 1 .. x.cap : i - 1 \in 0 .. x.cap - 1
      BY <1>1
    <3> QED
      BY <1>1, <2>1, <3>1, Zenon DEF Names
  <2>5. Hashed(d, c, Len(c))
    BY HashFacts
  <2> HIDE DEF ps, cap
  <2>6. /\ IsTable(z, Len(c)) /\ z.cap = cap
        /\ z.count = Cardinality(SlotsOf(z)) /\ z.count <= x.cap
        /\ \A i \in 1 .. x.cap : ps[i] > 0 => InTable(z, HashIn(d, c[ps[i]]), ps[i])
    <3>1. Len(ps) \in Nat
      BY <1>1, <2>1
    <3> QED
      <4>1. /\ IsTable(z, Len(c)) /\ z.cap = cap
            /\ z.count = Cardinality(SlotsOf(z)) /\ z.count <= Len(ps)
            /\ HasAll(z, d, c, ps)
        BY <1>1, <2>2, <2>3, <2>4, <2>5, <3>1, FilledTable
      <4> QED
        BY <2>1, <4>1 DEF HasAll
  <2>7. z.count + 1 < z.cap
    <3>1. z.count \in Nat
      BY <1>1, <2>6, TableFields
    <3> QED
      BY <1>1, <2>3, <2>6, <3>1
  <2>8. ASSUME NEW q \in 1 .. len, Kind(c[q].key) = d, InTable(x, HashOf[c[q].key], q)
        PROVE  InTable(z, HashOf[c[q].key], q)
    <3>1. PICK i \in 0 .. x.cap - 1 : x.slots[SlotAt(x, HashOf[c[q].key], i)] = q
      BY <2>8 DEF InTable
    <3> DEFINE s == SlotAt(x, HashOf[c[q].key], i)
    <3>2. HashOf[c[q].key] \in Nat /\ HashIn(d, c[q]) = HashOf[c[q].key]
      BY <2>8, HashFacts, KeyFacts
    <3>3. s \in 0 .. x.cap - 1
      BY <1>1, <3>2, SlotsReached
    <3> HIDE DEF s
    <3>4. s + 1 \in 1 .. x.cap /\ (s + 1) - 1 = s
      BY <1>1, <3>3
    <3>5. ps[s + 1] = q
      BY <2>1, <3>1, <3>4 DEF s
    <3> QED
      BY <2>6, <3>2, <3>4, <3>5
  <2> QED
    BY <2>6, <2>7, <2>8
<1> QED
  BY <1>2, <1>3

\* After insert the table has the entry it was told of, and those it had.
LEMMA InsertTable ==
    ASSUME NEW c, NEW len, Shaped(c, len), NEW d \in Kinds,
           NEW x, GoodTable(x, Len(c)), NEW p \in 1 .. len, NEW k, k = c[p].key, Kind(k) = d,
           NEW y, y = Insert(d, x, c, k, p)
    PROVE  /\ GoodTable(y, Len(c))
           /\ CoversBut(x, c, len, d, p) => Covers(y, c, len, d)
<1>1. CASE x = NoIndex
  BY <1>1 DEF Insert, Covers, CoversBut
<1>2. CASE x # NoIndex
  <2> DEFINE z == IF Full(x) THEN Filled(d, c, x.cap * 2, Held(x)) ELSE x
  <2>1. IsTable(x, Len(c)) /\ x.count = Cardinality(SlotsOf(x))
    BY <1>2 DEF GoodTable
  <2>2. y = Put(z, HashOf[k], p)
    BY <1>2 DEF Insert
  <2>3. /\ IsTable(z, Len(c)) /\ z.count = Cardinality(SlotsOf(z)) /\ z.count + 1 < z.cap
        /\ \A q \in 1 .. len : (Kind(c[q].key) = d /\ InTable(x, HashOf[c[q].key], q)) =>
                                   InTable(z, HashOf[c[q].key], q)
    BY <2>1, RoomMade
  <2> HIDE DEF z
  <2>4. /\ Len(c) \in Nat /\ p \in 1 .. Len(c) /\ HashOf[k] \in Nat
    <3>1. Len(c) \in Nat /\ p \in 1 .. Len(c)
      BY DEF Shaped
    <3> QED
      BY <3>1, HashFacts, KeyFacts
  <2>5. z.count \in Nat /\ z.cap \in Nat /\ z.count < z.cap
    <3>1. z.count \in Nat /\ z.cap \in Nat
      BY <2>3, <2>4, TableFields
    <3> QED
      BY <2>3, <3>1
  <2>6. /\ IsTable(y, Len(c)) /\ y.cap = z.cap /\ y.count = z.count + 1
        /\ y.count = Cardinality(SlotsOf(y))
        /\ InTable(y, HashOf[k], p) /\ Keeps(z, y)
    <3> DEFINE h == HashOf[k]
               n == Len(c)
    <3>1. /\ n \in Nat /\ p \in 1 .. n /\ h \in Nat /\ y = Put(z, h, p)
          /\ IsTable(z, n) /\ z.count = Cardinality(SlotsOf(z)) /\ z.count < z.cap
      BY <2>2, <2>3, <2>4, <2>5
    <3> HIDE DEF h, n
    <3>2. /\ IsTable(y, n) /\ y.cap = z.cap /\ y.count = z.count + 1
          /\ y.count = Cardinality(SlotsOf(y)) /\ InTable(y, h, p) /\ Keeps(z, y)
      BY <3>1, PutTable
    <3> QED
      BY <3>2 DEF h, n
  <2>7. GoodTable(y, Len(c))
    BY <2>3, <2>6 DEF GoodTable
  <2>8. ASSUME CoversBut(x, c, len, d, p), NEW q \in 1 .. len, Kind(c[q].key) = d,
               ~DirectIn(c, len, c[q].key)
        PROVE  InTable(y, HashOf[c[q].key], q)
    <3>1. CASE q = p
      BY <2>6, <3>1
    <3>2. CASE q # p
      <4>1. InTable(x, HashOf[c[q].key], q)
        BY <1>2, <2>8, <3>2 DEF CoversBut
      <4> QED
        BY <2>3, <2>6, <2>8, <4>1 DEF Keeps
    <3> QED
      BY <3>1, <3>2
  <2>9. CoversBut(x, c, len, d, p) => Covers(y, c, len, d)
    BY <2>8 DEF Covers, CoversBut
  <2> QED
    BY <2>7, <2>9
<1> QED
  BY <1>1, <1>2
-----------------------------------------------------------------------------
\* Finding a key

\* What a search returns: that it does not end, nothing, or a place of the key.
LEMMA PlaceSound ==
    ASSUME Shaped(mem, length), NEW k \in Keys, NEW x, GoodTable(x, Len(mem))
    PROVE  \/ Place(x, k) \in {-1, 0}
           \/ Place(x, k) \in 1 .. length /\ mem[Place(x, k)].key = k
<1>1. Len(mem) \in Nat /\ length \in Nat
  BY DEF Shaped
<1>2. CASE Direct(k)
  <2>1. k \in Nat /\ k < length /\ mem[k + 1].key = k
    BY <1>2, ArrayAssumption DEF Direct
  <2> QED
    BY <1>1, <1>2, <2>1 DEF Place
<1>3. CASE ~Direct(k) /\ x = NoIndex
  <2> DEFINE S == {p \in 1 .. length : mem[p].key = k}
  <2>1. Place(x, k) = IF k \in Present THEN Least(S) ELSE 0
    BY <1>3 DEF Place, Search
  <2>2. CASE k \in Present
    <3>1. S # {} /\ S \in SUBSET Nat
      BY <1>1, <2>2 DEF Present
    <3>2. Least(S) \in S
      BY <3>1, LeastNumber
    <3> QED
      BY <2>1, <2>2, <3>2
  <2> QED
    BY <2>1, <2>2
<1>4. CASE ~Direct(k) /\ x # NoIndex
  <2> DEFINE s == Seek(x, mem, length, k)
  <2>1. IsTable(x, Len(mem))
    BY <1>4 DEF GoodTable
  <2>2. Place(x, k) = IF s = -1 THEN -1 ELSE x.slots[s]
    BY <1>4 DEF Place, Search
  <2>3. s = -1 \/ x.slots[s] = 0 \/ (x.slots[s] \in 1 .. length /\ mem[x.slots[s]].key = k)
    BY <1>1, <2>1, SeekStops
  <2> HIDE DEF s
  <2> QED
    BY <2>2, <2>3
<1> QED
  BY <1>2, <1>3, <1>4

\* A key that is present is found, if the table has what it needs.
LEMMA PlaceComplete ==
    ASSUME Shaped(mem, length), NEW k \in Keys, NEW x, GoodTable(x, Len(mem)),
           Covers(x, mem, length, Kind(k)), k \in Present
    PROVE  Place(x, k) \in 1 .. length /\ mem[Place(x, k)].key = k
<1>1. Len(mem) \in Nat /\ length \in Nat
  BY DEF Shaped
<1>2. CASE Direct(k)
  <2>1. k \in Nat /\ k < length /\ mem[k + 1].key = k
    BY <1>2, ArrayAssumption DEF Direct
  <2> QED
    BY <1>1, <1>2, <2>1 DEF Place
<1>3. CASE ~Direct(k) /\ x = NoIndex
  <2> DEFINE S == {p \in 1 .. length : mem[p].key = k}
  <2>1. Place(x, k) = Least(S)
    BY <1>3 DEF Place, Search
  <2>2. S # {} /\ S \in SUBSET Nat
    BY <1>1 DEF Present
  <2>3. Least(S) \in S
    BY <2>2, LeastNumber
  <2> QED
    BY <2>1, <2>3
<1>4. CASE ~Direct(k) /\ x # NoIndex
  <2>1. IsTable(x, Len(mem))
    BY <1>4 DEF GoodTable
  <2>2. PICK q \in 1 .. length : mem[q].key = k
    BY DEF Present
  <2>3. InTable(x, HashOf[k], q)
    <3>1. ~DirectIn(mem, length, k)
      BY <1>4 DEF Direct, DirectIn
    <3>2. q \in (1 .. length) \ {0}
      BY <1>1
    <3> QED
      BY <1>4, <2>2, <3>1, <3>2 DEF Covers, CoversBut
  <2> DEFINE s == Seek(x, mem, length, k)
  <2>4. s \in 0 .. x.cap - 1 /\ x.slots[s] \in 1 .. length /\ mem[x.slots[s]].key = k
    BY <1>1, <2>1, <2>2, <2>3, SeekFinds
  <2>5. s # -1
    BY <2>4
  <2> QED
    BY <1>4, <2>4, <2>5 DEF Place, Search
<1> QED
  BY <1>2, <1>3, <1>4

-----------------------------------------------------------------------------
\* What the operations do to entries

\* A table can be used on a longer array.
LEMMA LongerTable ==
    ASSUME NEW n \in Nat, NEW m \in Nat, n <= m, NEW x, GoodTable(x, n)
    PROVE  GoodTable(x, m)
<1>1. CASE x = NoIndex
  BY <1>1 DEF GoodTable
<1>2. CASE x # NoIndex
  <2>1. /\ IsTable(x, n) /\ x.count = Cardinality(SlotsOf(x)) /\ x.count < x.cap
    BY <1>2 DEF GoodTable
  <2>2. x \in [cap : Nat, slots : [0 .. x.cap - 1 -> -1 .. m], count : Nat]
    BY <2>1 DEF IsTable
  <2> QED
    BY <2>1, <2>2 DEF GoodTable, IsTable
<1> QED
  BY <1>1, <1>2

\* Where entries stay at their places, a table goes on having them.
LEMMA CoversMoved ==
    ASSUME NEW c, NEW len \in Nat, Distinct(c, len), NEW x, NEW d, NEW p,
           CoversBut(x, c, len, d, p),
           NEW e, NEW more \in Nat, NEW r,
           \A q \in (1 .. more) \ {r} : Kind(e[q].key) = d =>
               q \in (1 .. len) \ {p} /\ e[q].key = c[q].key
    PROVE  CoversBut(x, e, more, d, r)
<1>1. ASSUME x # NoIndex, NEW q \in (1 .. more) \ {r}, Kind(e[q].key) = d
      PROVE  DirectIn(e, more, e[q].key) \/ InTable(x, HashOf[e[q].key], q)
  <2>1. q \in (1 .. len) \ {p} /\ e[q].key = c[q].key
    BY <1>1
  <2>2. DirectIn(c, len, c[q].key) \/ InTable(x, HashOf[c[q].key], q)
    BY <1>1, <2>1 DEF CoversBut
  <2>3. ASSUME DirectIn(c, len, c[q].key)
        PROVE  DirectIn(e, more, e[q].key)
    <3> DEFINE k == c[q].key
    <3>1. k \in IntKeys /\ k \in Nat /\ k < len /\ c[k + 1].key = k
      BY <2>3, ArrayAssumption DEF DirectIn
    <3>2. k + 1 \in 1 .. len
      BY <3>1
    <3>3. k + 1 = q
      BY <2>1, <3>1, <3>2 DEF Distinct
    <3>4. k < more /\ e[k + 1].key = k
      BY <1>1, <2>1, <3>1, <3>3
    <3> QED
      BY <2>1, <3>1, <3>4 DEF DirectIn
  <2> QED
    BY <2>1, <2>2, <2>3
<1> QED
  BY <1>1 DEF CoversBut

\* No entry but perhaps that at p has the key k.
Lacks(c, len, k, p) == \A q \in (1 .. len) \ {p} : c[q].key # k

\* Delete of a key takes away no entry with another one.
LEMMA DeleteCovers ==
    ASSUME NEW n \in Nat, NEW x, GoodTable(x, n), NEW c, NEW len \in Nat, NEW near \in Nat,
           NEW k \in Keys, ~Endless(x, c, near, k), NEW y, y = Delete(x, c, near, k),
           NEW d, NEW p, CoversBut(x, c, len, d, p), Lacks(c, len, k, p)
    PROVE  CoversBut(y, c, len, d, p)
<1>1. /\ y = NoIndex <=> x = NoIndex
      /\ \A g, q : (/\ q \in Nat \ {0} /\ InTable(x, g, q)
                    /\ ~(q \in 1 .. near /\ c[q].key = k)) => InTable(y, g, q)
  BY DeleteTable
<1> QED
  BY <1>1 DEF CoversBut, Lacks

\* An entry written after the last one.
LEMMA WrittenNext ==
    ASSUME Shaped(mem, length), length < MaxLength, NEW k \in Keys,
           NEW c, c = Written(k, length + 1)
    PROVE  /\ Shaped(c, length + 1) /\ Len(mem) <= Len(c) /\ Len(mem) \in Nat
           /\ c[length + 1].key = k
           /\ \A q \in 1 .. length : c[q] = mem[q]
<1> DEFINE old == IF length + 1 <= Len(mem) THEN mem[length + 1].string ELSE Empty
           new == [key |-> k, string |-> IF k \in StrKeys THEN k ELSE old]
<1>1. /\ mem \in Seq(Cells) /\ Len(mem) \in Nat /\ length \in 0 .. Len(mem)
      /\ Len(mem) <= MaxLength /\ MaxLength \in Nat
      /\ \A p \in 1 .. length : mem[p].key \in StrKeys => mem[p].string = mem[p].key
  BY ArrayAssumption DEF Shaped
<1>2. old \in StrKeys \cup {Empty}
  <2>1. length + 1 <= Len(mem) => mem[length + 1] \in Cells
    BY <1>1
  <2> QED
    BY <2>1 DEF Cells
<1>3. new \in Cells /\ new.key = k /\ (k \in StrKeys => new.string = k)
  BY <1>2 DEF Cells
<1>4. c = IF length + 1 <= Len(mem) THEN [mem EXCEPT ![length + 1] = new] ELSE Append(mem, new)
  BY DEF Written
<1> HIDE DEF old, new
<1>5. /\ c \in Seq(Cells) /\ Len(mem) <= Len(c) /\ length + 1 \in 0 .. Len(c)
      /\ Len(c) <= MaxLength /\ c[length + 1] = new
      /\ \A q \in 1 .. length : c[q] = mem[q]
  <2>1. CASE length + 1 <= Len(mem)
    BY <1>1, <1>3, <1>4, <2>1
  <2>2. CASE ~(length + 1 <= Len(mem))
    <3>1. length = Len(mem) /\ c = Append(mem, new)
      BY <1>1, <1>4, <2>2
    <3> QED
      BY <1>1, <1>3, <3>1
  <2> QED
    BY <2>1, <2>2
<1>6. ASSUME NEW p \in 1 .. length + 1, c[p].key \in StrKeys
      PROVE  c[p].string = c[p].key
  <2>1. CASE p = length + 1
    BY <1>3, <1>5, <1>6, <2>1
  <2>2. CASE p # length + 1
    <3>1. p \in 1 .. length
      BY <1>1, <2>2
    <3> QED
      BY <1>1, <1>5, <1>6, <3>1
  <2> QED
    BY <2>1, <2>2
<1> QED
  BY <1>1, <1>3, <1>5, <1>6 DEF Shaped
-----------------------------------------------------------------------------
\* The operations

\* A table built on demand.
LEMMA EnsuredGood ==
    ASSUME Good(mem, length, index, tame), NEW d \in Kinds
    PROVE  GoodTable(Ensured(d), Len(mem)) /\ (tame => Covers(Ensured(d), mem, length, d))
<1>1. Shaped(mem, length) /\ GoodTable(index[d], Len(mem))
      /\ (tame => Covers(index[d], mem, length, d))
  BY DEF Good
<1> QED
  BY <1>1, BuildTable DEF Ensured

\* The table that an assignment has looked at.
LEMMA SetTableGood ==
    ASSUME Good(mem, length, index, tame), NEW k \in Keys
    PROVE  /\ Kind(k) \in Kinds
           /\ GoodTable(SetTable(k), Len(mem))
           /\ tame => Covers(SetTable(k), mem, length, Kind(k))
<1>1. Kind(k) \in Kinds
  BY KeyFacts
<1>2. CASE Kind(k) = "int" /\ ~Direct(k)
  BY <1>1, <1>2, EnsuredGood DEF SetTable
<1>3. CASE ~(Kind(k) = "int" /\ ~Direct(k))
  <2>1. SetTable(k) = index[Kind(k)]
    BY <1>3 DEF SetTable
  <2> QED
    BY <1>1, <2>1 DEF Good
<1> QED
  BY <1>2, <1>3

\* One of the tables changes.
LEMMA TableChanged ==
    ASSUME NEW x, x = [d \in Kinds |-> x[d]], NEW d \in Kinds, NEW t, NEW y,
           y = [x EXCEPT ![d] = t]
    PROVE  /\ y = [e \in Kinds |-> y[e]] /\ y[d] = t
           /\ \A e \in Kinds : e # d => y[e] = x[e]
OBVIOUS

\* Tables of an array that is left as it was.
LEMMA GoodIndex ==
    ASSUME Good(mem, length, index, tame), NEW d \in Kinds, NEW t, GoodTable(t, Len(mem)),
           tame => Covers(t, mem, length, d), NEW y, y = [index EXCEPT ![d] = t]
    PROVE  Good(mem, length, y, tame)
<1>1. /\ y = [e \in Kinds |-> y[e]] /\ y[d] = t
      /\ \A e \in Kinds : e # d => y[e] = index[e]
  BY TableChanged DEF Good
<1>2. \A e \in Kinds : GoodTable(y[e], Len(mem)) /\ (tame => Covers(y[e], mem, length, e))
  BY <1>1 DEF Good
<1> QED
  BY <1>1, <1>2 DEF Good

\* With a key that is not there, keys stay distinct.
LEMMA DistinctNext ==
    ASSUME NEW len \in Nat, NEW c, Distinct(c, len), NEW e,
           \A q \in 1 .. len : e[q].key = c[q].key /\ c[q].key # e[len + 1].key
    PROVE  Distinct(e, len + 1)
<1>1. ASSUME NEW p \in 1 .. len + 1, NEW q \in 1 .. len + 1, e[p].key = e[q].key
      PROVE  p = q
  <2>1. p \in 1 .. len \/ p = len + 1
    OBVIOUS
  <2>2. q \in 1 .. len \/ q = len + 1
    OBVIOUS
  <2> QED
    BY <1>1, <2>1, <2>2 DEF Distinct
<1> QED
  BY <1>1 DEF Distinct

\* The keys of an array, and the key that is not among them.
LEMMA NotPresent ==
    ASSUME Shaped(mem, length), NEW k \in Keys, NEW x, GoodTable(x, Len(mem)),
           Covers(x, mem, length, Kind(k)), Place(x, k) = 0
    PROVE  k \notin Present /\ \A q \in 1 .. length : mem[q].key # k
<1>1. length \in Nat
  BY DEF Shaped
<1>2. k \notin Present
  BY <1>1, PlaceComplete
<1> QED
  BY <1>2 DEF Present

\* set_int and set_str of a new key.
LEMMA AppendedGood ==
    ASSUME Good(mem, length, index, tame), NEW k \in Keys, Place(SetTable(k), k) = 0, Appended(k)
    PROVE  Good(mem', length', index', tame')
<1> DEFINE d == Kind(k)
           x == SetTable(k)
           c == Written(k, length + 1)
           t == IF x # NoIndex THEN Insert(d, x, c, k, length + 1)
                ELSE IF length + 1 >= Threshold THEN Build(d, c, length + 1) ELSE NoIndex
<1>1. /\ Shaped(mem, length) /\ length \in Nat /\ Len(mem) \in Nat
      /\ d \in Kinds /\ GoodTable(x, Len(mem)) /\ (tame => Covers(x, mem, length, d))
  BY SetTableGood DEF Good, Shaped
<1>2. CASE Undefined(d, x, c, length + 1)
  <2>1. UNCHANGED <<mem, length, index, tame>>
    BY <1>2 DEF Appended, Stop
  <2> QED
    BY <2>1
<1>3. CASE ~Undefined(d, x, c, length + 1)
  <2>1. /\ length < MaxLength /\ mem' = c /\ length' = length + 1
        /\ index' = [index EXCEPT ![d] = t] /\ tame' = tame
    BY <1>3 DEF Appended
  <2>2. /\ Shaped(c, length + 1) /\ Len(mem) <= Len(c) /\ c[length + 1].key = k
        /\ \A q \in 1 .. length : c[q] = mem[q]
    BY <1>1, <2>1, WrittenNext
  <2> HIDE DEF c, x, d, t
  <2>3. Len(c) \in Nat /\ length + 1 \in 1 .. length + 1
    BY <1>1, <2>2 DEF Shaped
  <2>4. GoodTable(x, Len(c)) /\ \A e \in Kinds : GoodTable(index[e], Len(c))
    BY <1>1, <2>2, <2>3, LongerTable DEF Good
  <2>5. d = Kind(k)
    BY DEF d
  <2>6. ASSUME tame
        PROVE  /\ Distinct(mem, length) /\ Distinct(c, length + 1)
               /\ CoversBut(x, c, length + 1, d, length + 1)
               /\ \A e \in Kinds : e # d => Covers(index[e], c, length + 1, e)
    <3>1. Distinct(mem, length) /\ \A e \in Kinds : Covers(index[e], mem, length, e)
      BY <2>6 DEF Good
    <3>2. \A q \in 1 .. length : mem[q].key # k
      BY <1>1, <2>6, NotPresent DEF x, d
    <3>3. Distinct(c, length + 1)
      BY <1>1, <2>2, <3>1, <3>2, DistinctNext
    <3>4. CoversBut(x, c, length + 1, d, length + 1)
      <4>1. CoversBut(x, mem, length, d, 0)
        BY <1>1, <2>6 DEF Covers
      <4>2. \A q \in (1 .. length + 1) \ {length + 1} : Kind(c[q].key) = d =>
                q \in (1 .. length) \ {0} /\ c[q].key = mem[q].key
        BY <1>1, <2>2
      <4> QED
        BY <1>1, <2>3, <3>1, <4>1, <4>2, CoversMoved
    <3>5. ASSUME NEW e \in Kinds, e # d
          PROVE  Covers(index[e], c, length + 1, e)
      <4>1. CoversBut(index[e], mem, length, e, 0)
        BY <3>1 DEF Covers
      <4>2. ASSUME NEW q \in (1 .. length + 1) \ {0}, Kind(c[q].key) = e
            PROVE  q \in (1 .. length) \ {0} /\ c[q].key = mem[q].key
        <5>1. q # length + 1
          BY <2>2, <2>5, <3>5, <4>2
        <5> QED
          BY <1>1, <2>2, <5>1
      <4>3. CoversBut(index[e], c, length + 1, e, 0)
        BY <1>1, <2>3, <3>1, <4>1, <4>2, CoversMoved
      <4> QED
        BY <4>3 DEF Covers
    <3> QED
      BY <3>1, <3>3, <3>4, <3>5
  <2>7. GoodTable(t, Len(c)) /\ (tame => Covers(t, c, length + 1, d))
    <3>1. CASE x # NoIndex
      <4>1. t = Insert(d, x, c, k, length + 1)
        BY <3>1 DEF t
      <4> QED
        BY <1>1, <2>2, <2>3, <2>4, <2>5, <2>6, <4>1, InsertTable
    <3>2. CASE x = NoIndex /\ length + 1 >= Threshold
      <4>1. t = Build(d, c, length + 1)
        BY <3>2 DEF t
      <4> QED
        BY <1>1, <2>2, <4>1, BuildTable
    <3>3. CASE x = NoIndex /\ ~(length + 1 >= Threshold)
      <4>1. t = NoIndex
        BY <3>3 DEF t
      <4> QED
        BY <4>1 DEF GoodTable, Covers, CoversBut
    <3> QED
      BY <3>1, <3>2, <3>3
  <2>8. /\ index' = [e \in Kinds |-> index'[e]] /\ index'[d] = t
        /\ \A e \in Kinds : e # d => index'[e] = index[e]
    BY <1>1, <2>1, TableChanged DEF Good
  <2>9. \A e \in Kinds : /\ GoodTable(index'[e], Len(c))
                         /\ tame => Covers(index'[e], c, length + 1, e)
    BY <2>4, <2>6, <2>7, <2>8
  <2> QED
    BY <2>1, <2>2, <2>6, <2>8, <2>9 DEF Good
<1> QED
  BY <1>2, <1>3
\* arr_push.
LEMMA PushGood ==
    ASSUME Good(mem, length, index, tame), Push
    PROVE  Good(mem', length', index', tame')
<1> DEFINE k == length
           c == Written(k, length + 1)
<1>1. /\ length < MaxLength /\ k \in IntKeys /\ mem' = c /\ length' = length + 1
      /\ tame' = (tame /\ k \notin Present) /\ index' = index
  BY DEF Push
<1>2. /\ Shaped(mem, length) /\ length \in Nat /\ Len(mem) \in Nat /\ k \in Keys
      /\ k \notin StrKeys /\ Kind(k) = "int"
  BY <1>1, ArrayAssumption DEF Good, Shaped, Keys, Kind
<1>3. /\ Shaped(c, length + 1) /\ Len(mem) <= Len(c) /\ c[length + 1].key = k
      /\ \A q \in 1 .. length : c[q] = mem[q]
  BY <1>1, <1>2, WrittenNext
<1> HIDE DEF c
<1>4. Len(c) \in Nat /\ \A d \in Kinds : GoodTable(index[d], Len(c))
  <2>1. Len(c) \in Nat
    BY <1>3 DEF Shaped
  <2> QED
    BY <1>2, <1>3, <2>1, LongerTable DEF Good
<1>5. ASSUME tame, k \notin Present
      PROVE  Distinct(c, length + 1) /\ \A d \in Kinds : Covers(index[d], c, length + 1, d)
  <2>1. Distinct(mem, length) /\ \A d \in Kinds : Covers(index[d], mem, length, d)
    BY <1>5 DEF Good
  <2>2. \A q \in 1 .. length : mem[q].key # c[length + 1].key
    BY <1>3, <1>5 DEF Present
  <2>3. Distinct(c, length + 1)
    BY <1>2, <1>3, <2>1, <2>2, DistinctNext
  <2>4. ASSUME NEW d \in Kinds
        PROVE  Covers(index[d], c, length + 1, d)
    <3>1. CoversBut(index[d], mem, length, d, 0)
      BY <2>1 DEF Covers
    <3>2. \A q \in (1 .. length + 1) \ {length + 1} : Kind(c[q].key) = d =>
              q \in (1 .. length) \ {0} /\ c[q].key = mem[q].key
      BY <1>2, <1>3
    <3>3. CoversBut(index[d], c, length + 1, d, length + 1)
      BY <1>2, <2>1, <3>1, <3>2, CoversMoved
    <3>4. DirectIn(c, length + 1, c[length + 1].key)
      BY <1>1, <1>2, <1>3 DEF DirectIn
    <3> QED
      BY <3>3, <3>4 DEF Covers, CoversBut
  <2> QED
    BY <2>3, <2>4
<1> QED
  BY <1>1, <1>3, <1>4, <1>5 DEF Good

\* The entry of p is out of the tables x, and of the array when the last one
\* takes its place.
LEMMA FillHoleGood ==
    ASSUME Shaped(mem, length), NEW x, x = [d \in Kinds |-> x[d]],
           \A d \in Kinds : GoodTable(x[d], Len(mem)),
           NEW p \in 1 .. length - 1, FillHole(p, x),
           tame => Distinct(mem, length) /\ \A d \in Kinds : CoversBut(x[d], mem, length, d, p),
           Good(mem, length, index, tame)
    PROVE  Good(mem', length', index', tame')
<1> DEFINE c == [mem EXCEPT ![p] = mem[length]]
           k == c[p].key
           d == Kind(k)
           y == Delete(x[d], c, length, k)
           t == Insert(d, y, c, k, p)
<1>1. CASE Endless(x[d], c, length, k) \/ Undefined(d, y, c, length)
  <2>1. UNCHANGED <<mem, length, index, tame>>
    BY <1>1 DEF FillHole, Stop
  <2> QED
    BY <2>1
<1>2. CASE ~Endless(x[d], c, length, k) /\ ~Undefined(d, y, c, length)
  <2>1. /\ mem' = c /\ length' = length - 1 /\ index' = [x EXCEPT ![d] = t] /\ tame' = tame
    BY <1>2 DEF FillHole
  <2>2. /\ mem \in Seq(Cells) /\ Len(mem) \in Nat /\ length \in 1 .. Len(mem)
        /\ Len(mem) <= MaxLength /\ length - 1 \in Nat
        /\ \A q \in 1 .. length : mem[q].key \in StrKeys => mem[q].string = mem[q].key
    BY DEF Shaped
  <2>3. /\ c \in Seq(Cells) /\ Len(c) = Len(mem) /\ c[p] = mem[length]
        /\ \A q \in 1 .. length : q # p => c[q] = mem[q]
    BY <2>2
  <2>4. ~Endless(x[d], c, length, k) /\ y = Delete(x[d], c, length, k)
        /\ t = Insert(d, y, c, k, p) /\ k = c[p].key /\ d = Kind(k)
    BY <1>2
  <2> HIDE DEF t, y, d, k, c
  <2>5. Shaped(c, length - 1)
    <3>1. ASSUME NEW q \in 1 .. length - 1, c[q].key \in StrKeys
          PROVE  c[q].string = c[q].key
      BY <2>2, <2>3, <3>1
    <3> QED
      BY <2>2, <2>3, <3>1 DEF Shaped
  <2>6. k \in Keys /\ d \in Kinds
    <3>1. c[p] \in Cells
      BY <2>2, <2>3
    <3> QED
      BY <2>4, <3>1, KeyFacts DEF Cells
  <2>7. GoodTable(x[d], Len(c)) /\ length \in Nat
    BY <2>2, <2>3, <2>6
  <2>8. GoodTable(y, Len(c))
    BY <2>2, <2>3, <2>4, <2>6, <2>7, DeleteTable
  <2>9. ASSUME tame
        PROVE  /\ Distinct(c, length - 1)
               /\ CoversBut(y, c, length - 1, d, p)
               /\ \A e \in Kinds : e # d => Covers(x[e], c, length - 1, e)
    <3>1. Distinct(mem, length) /\ \A e \in Kinds : CoversBut(x[e], mem, length, e, p)
      BY <2>9
    <3>2. Distinct(c, length - 1)
      <4>1. ASSUME NEW q \in 1 .. length - 1, NEW r \in 1 .. length - 1, c[q].key = c[r].key
            PROVE  q = r
        <5> DEFINE From(i) == IF i = p THEN length ELSE i
        <5>1. /\ From(q) \in 1 .. length /\ c[q] = mem[From(q)]
              /\ From(r) \in 1 .. length /\ c[r] = mem[From(r)]
          BY <2>2, <2>3
        <5>2. From(q) = From(r)
          BY <3>1, <4>1, <5>1 DEF Distinct
        <5> QED
          BY <2>2, <5>2
      <4> QED
        BY <4>1 DEF Distinct
    <3>3. \A q \in (1 .. length - 1) \ {p} : q \in (1 .. length) \ {p} /\ c[q].key = mem[q].key
      BY <2>2, <2>3
    <3>4. ASSUME NEW e \in Kinds
          PROVE  CoversBut(x[e], c, length - 1, e, p)
      <4>1. CoversBut(x[e], mem, length, e, p)
        BY <3>1
      <4> QED
        BY <2>2, <2>7, <3>1, <3>3, <4>1, CoversMoved
    <3>5. Lacks(c, length - 1, k, p)
      <4>1. ASSUME NEW q \in (1 .. length - 1) \ {p}, c[q].key = k
            PROVE  FALSE
        <5>1. q \in 1 .. length /\ length \in 1 .. length /\ mem[q].key = mem[length].key
          BY <2>2, <2>3, <2>4, <4>1
        <5>2. q = length
          BY <3>1, <5>1 DEF Distinct
        <5> QED
          BY <2>2, <4>1, <5>2
      <4> QED
        BY <4>1 DEF Lacks
    <3>6. CoversBut(y, c, length - 1, d, p)
      <4>1. CoversBut(x[d], c, length - 1, d, p)
        BY <2>6, <3>4
      <4>2. Len(c) \in Nat
        BY <2>2, <2>3
      <4> QED
        BY <2>2, <2>4, <2>6, <2>7, <3>5, <4>1, <4>2, DeleteCovers
    <3>7. ASSUME NEW e \in Kinds, e # d
          PROVE  Covers(x[e], c, length - 1, e)
      <4>1. CoversBut(x[e], c, length - 1, e, p)
        BY <3>4
      <4> QED
        BY <2>4, <3>7, <4>1 DEF Covers, CoversBut
    <3> QED
      BY <3>2, <3>6, <3>7
  <2>10. GoodTable(t, Len(c)) /\ (tame => Covers(t, c, length - 1, d))
    BY <2>4, <2>5, <2>6, <2>8, <2>9, InsertTable
  <2>11. /\ index' = [e \in Kinds |-> index'[e]] /\ index'[d] = t
         /\ \A e \in Kinds : e # d => index'[e] = x[e]
    BY <2>1, <2>6, TableChanged
  <2>12. \A e \in Kinds : /\ GoodTable(index'[e], Len(c))
                          /\ tame => Covers(index'[e], c, length - 1, e)
    BY <2>3, <2>9, <2>10, <2>11
  <2> QED
    BY <2>1, <2>5, <2>9, <2>11, <2>12 DEF Good
<1> QED
  BY <1>1, <1>2

\* The last entry is out of the tables x, and of the array, of which its cell
\* may change.
LEMMA ShrinkGood ==
    ASSUME Shaped(mem, length), length > 0, NEW x, x = [d \in Kinds |-> x[d]],
           \A d \in Kinds : GoodTable(x[d], Len(mem)),
           tame => Distinct(mem, length) /\ \A d \in Kinds : CoversBut(x[d], mem, length, d, length),
           NEW c, c \in Seq(Cells), Len(c) = Len(mem),
           \A q \in 1 .. length - 1 : c[q] = mem[q]
    PROVE  Good(c, length - 1, x, tame)
<1>1. /\ Len(mem) \in Nat /\ length \in 1 .. Len(mem) /\ length - 1 \in Nat /\ length \in Nat
      /\ Len(mem) <= MaxLength
      /\ \A q \in 1 .. length : mem[q].key \in StrKeys => mem[q].string = mem[q].key
  BY DEF Shaped
<1>2. Shaped(c, length - 1)
  <2>1. ASSUME NEW q \in 1 .. length - 1, c[q].key \in StrKeys
        PROVE  c[q].string = c[q].key
    BY <1>1, <2>1
  <2> QED
    BY <1>1, <2>1 DEF Shaped
<1>3. ASSUME tame
      PROVE  Distinct(c, length - 1) /\ \A d \in Kinds : Covers(x[d], c, length - 1, d)
  <2>1. Distinct(mem, length) /\ \A d \in Kinds : CoversBut(x[d], mem, length, d, length)
    BY <1>3
  <2>2. Distinct(c, length - 1)
    BY <1>1, <2>1 DEF Distinct
  <2>3. \A q \in (1 .. length - 1) \ {0} : q \in (1 .. length) \ {length} /\ c[q].key = mem[q].key
    BY <1>1
  <2>4. \A d \in Kinds : CoversBut(x[d], c, length - 1, d, 0)
    BY <1>1, <2>1, <2>3, CoversMoved
  <2> QED
    BY <2>2, <2>4 DEF Covers
<1> QED
  BY <1>2, <1>3 DEF Good
\* The tables, when one of them was told to delete the key of the entry at p.
LEMMA DeletedGood ==
    ASSUME Good(mem, length, index, tame), NEW near \in Nat, NEW k \in Keys, NEW p,
           NEW d \in Kinds, ~Endless(index[d], mem, near, k),
           tame => Lacks(mem, length, k, p),
           NEW x, x = [index EXCEPT ![d] = Delete(@, mem, near, k)]
    PROVE  /\ x = [e \in Kinds |-> x[e]] /\ \A e \in Kinds : GoodTable(x[e], Len(mem))
           /\ tame => Distinct(mem, length) /\ \A e \in Kinds : CoversBut(x[e], mem, length, e, p)
<1>1. /\ Len(mem) \in Nat /\ length \in Nat /\ GoodTable(index[d], Len(mem))
      /\ index = [e \in Kinds |-> index[e]]
  BY DEF Good, Shaped
<1> DEFINE t == Delete(index[d], mem, near, k)
<1>2. x = [index EXCEPT ![d] = t]
  BY <1>1
<1>3. GoodTable(t, Len(mem))
  BY <1>1, DeleteTable
<1>4. ASSUME tame
      PROVE  CoversBut(t, mem, length, d, p)
  <2>1. CoversBut(index[d], mem, length, d, p)
    BY <1>4 DEF Good, Covers, CoversBut
  <2> QED
    BY <1>1, <1>4, <2>1, DeleteCovers
<1> HIDE DEF t
<1>5. /\ x = [e \in Kinds |-> x[e]] /\ x[d] = t
      /\ \A e \in Kinds : e # d => x[e] = index[e]
  BY <1>1, <1>2, TableChanged
<1>6. \A e \in Kinds : GoodTable(x[e], Len(mem))
  BY <1>3, <1>5 DEF Good
<1>7. ASSUME tame
      PROVE  Distinct(mem, length) /\ \A e \in Kinds : CoversBut(x[e], mem, length, e, p)
  <2>1. Distinct(mem, length) /\ \A e \in Kinds : CoversBut(index[e], mem, length, e, p)
    BY <1>7 DEF Good, Covers, CoversBut
  <2> QED
    BY <1>4, <1>5, <1>7, <2>1
<1> QED
  BY <1>5, <1>6, <1>7

\* The key of an entry is at no other place.
LEMMA KeyOnce ==
    ASSUME NEW c, NEW len, Distinct(c, len), NEW p \in 1 .. len, NEW k, c[p].key = k
    PROVE  Lacks(c, len, k, p)
BY DEF Distinct, Lacks

\* A key that is freed changes its own cell at most.
LEMMA FreedCells ==
    ASSUME mem \in Seq(Cells), NEW p \in 1 .. Len(mem)
    PROVE  /\ Freed(p) \in Seq(Cells) /\ Len(Freed(p)) = Len(mem)
           /\ \A q \in 1 .. Len(mem) : q # p => Freed(p)[q] = mem[q]
<1> DEFINE cell == [mem[p] EXCEPT !.string = Empty]
<1>1. mem[p] \in Cells /\ Len(mem) \in Nat
  OBVIOUS
<1>2. cell \in Cells
  BY <1>1 DEF Cells
<1>3. Freed(p) = mem \/ Freed(p) = [mem EXCEPT ![p] = cell]
  BY DEF Freed
<1> HIDE DEF cell
<1>4. [mem EXCEPT ![p] = cell] \in Seq(Cells)
  BY <1>1, <1>2
<1> QED
  BY <1>1, <1>3, <1>4

\* unset_int.
LEMMA UnsetIntGood ==
    ASSUME Good(mem, length, index, tame), NEW k \in IntKeys, UnsetInt(k)
    PROVE  Good(mem', length', index', tame')
<1> DEFINE p == IF k < length THEN Place(index["int"], k) ELSE 0
<1>1. /\ Shaped(mem, length) /\ length \in Nat /\ Len(mem) \in Nat /\ mem \in Seq(Cells)
      /\ k \in Keys /\ Kind(k) = "int" /\ "int" \in Kinds
      /\ index = [d \in Kinds |-> index[d]] /\ \A d \in Kinds : GoodTable(index[d], Len(mem))
  BY KeyFacts DEF Good, Shaped, Keys, Kinds
<1>2. /\ \/ p = -1 /\ Stop("hung")
         \/ p = 0 /\ UNCHANGED <<mem, length, index, status, tame>>
         \/ p \in 1 .. length - 1 /\ FillHole(p, index)
         \/ /\ p = length /\ length > 0
            /\ IF Endless(index["int"], mem, length, k) THEN Stop("hung")
               ELSE Shrink([index EXCEPT !["int"] = Delete(@, mem, length, k)])
  BY DEF UnsetInt
<1>3. p \in 1 .. length => mem[p].key = k
  BY <1>1, PlaceSound
<1> HIDE DEF p
<1>4. CASE p = -1 /\ Stop("hung")
  <2>1. UNCHANGED <<mem, length, index, tame>>
    BY <1>4 DEF Stop
  <2> QED
    BY <2>1
<1>5. CASE p = 0 /\ UNCHANGED <<mem, length, index, status, tame>>
  BY <1>5 DEF Good
<1>6. CASE p \in 1 .. length - 1 /\ FillHole(p, index)
  <2>1. tame => /\ Distinct(mem, length)
                /\ \A d \in Kinds : CoversBut(index[d], mem, length, d, p)
    BY DEF Good, Covers, CoversBut
  <2> QED
    BY <1>1, <1>6, <2>1, FillHoleGood
<1>7. CASE p = length /\ length > 0 /\ Endless(index["int"], mem, length, k) /\ Stop("hung")
  <2>1. UNCHANGED <<mem, length, index, tame>>
    BY <1>7 DEF Stop
  <2> QED
    BY <2>1
<1>8. CASE /\ p = length /\ length > 0 /\ ~Endless(index["int"], mem, length, k)
           /\ Shrink([index EXCEPT !["int"] = Delete(@, mem, length, k)])
  <2> DEFINE x == [index EXCEPT !["int"] = Delete(@, mem, length, k)]
  <2>1. length' = length - 1 /\ index' = x /\ mem' = mem /\ tame' = tame
    BY <1>8 DEF Shrink
  <2>2. tame => Lacks(mem, length, k, length)
    BY <1>1, <1>3, <1>8, KeyOnce DEF Good
  <2>3. /\ x = [e \in Kinds |-> x[e]] /\ \A e \in Kinds : GoodTable(x[e], Len(mem))
        /\ tame => /\ Distinct(mem, length)
                   /\ \A e \in Kinds : CoversBut(x[e], mem, length, e, length)
    BY <1>1, <1>8, <2>2, DeletedGood
  <2> HIDE DEF x
  <2> QED
    BY <1>1, <1>8, <2>1, <2>3, ShrinkGood
<1> QED
  BY <1>2, <1>4, <1>5, <1>6, <1>7, <1>8

\* unset_str.
LEMMA UnsetStrGood ==
    ASSUME Good(mem, length, index, tame), NEW k \in StrKeys, UnsetStr(k)
    PROVE  Good(mem', length', index', tame')
<1> DEFINE p == Search(index["str"], k)
           x == [index EXCEPT !["str"] = Delete(@, mem, length, k)]
<1>1. /\ Shaped(mem, length) /\ length \in Nat /\ Len(mem) \in Nat /\ mem \in Seq(Cells)
      /\ k \in Keys /\ Kind(k) = "str" /\ "str" \in Kinds
      /\ index = [d \in Kinds |-> index[d]] /\ \A d \in Kinds : GoodTable(index[d], Len(mem))
  BY KeyFacts DEF Good, Shaped, Keys, Kinds
<1>2. \/ p = -1 /\ Stop("hung")
      \/ p = 0 /\ UNCHANGED <<mem, length, index, status, tame>>
      \/ p \in 1 .. length - 1 /\ FillHole(p, x)
      \/ p = length /\ length > 0 /\ Shrink(x)
  BY DEF UnsetStr
<1>3. /\ p \in 1 .. length => mem[p].key = k
      /\ p # -1 => ~Endless(index["str"], mem, length, k)
  <2>1. ~Direct(k)
    BY ArrayAssumption DEF Direct
  <2>2. p = Place(index["str"], k)
    BY <2>1 DEF Place
  <2>3. p # -1 => ~Endless(index["str"], mem, length, k)
    BY DEF Search, Endless
  <2> HIDE DEF p
  <2>4. p \in {-1, 0} \/ (p \in 1 .. length /\ mem[p].key = k)
    BY <1>1, <2>2, PlaceSound
  <2> QED
    BY <1>1, <2>3, <2>4
<1> HIDE DEF p
<1>4. ASSUME p \in 1 .. length
      PROVE  /\ x = [e \in Kinds |-> x[e]] /\ \A e \in Kinds : GoodTable(x[e], Len(mem))
             /\ tame => /\ Distinct(mem, length)
                        /\ \A e \in Kinds : CoversBut(x[e], mem, length, e, p)
  <2>1. tame => Lacks(mem, length, k, p)
    BY <1>3, <1>4, KeyOnce DEF Good
  <2>2. ~Endless(index["str"], mem, length, k)
    BY <1>1, <1>3, <1>4
  <2> QED
    BY <1>1, <2>1, <2>2, DeletedGood
<1> HIDE DEF x
<1>5. CASE p = -1 /\ Stop("hung")
  <2>1. UNCHANGED <<mem, length, index, tame>>
    BY <1>5 DEF Stop
  <2> QED
    BY <2>1
<1>6. CASE p = 0 /\ UNCHANGED <<mem, length, index, status, tame>>
  BY <1>6
<1>7. CASE p \in 1 .. length - 1 /\ FillHole(p, x)
  <2>1. p \in 1 .. length
    BY <1>1, <1>7
  <2> QED
    BY <1>1, <1>4, <1>7, <2>1, FillHoleGood
<1>8. CASE p = length /\ length > 0 /\ Shrink(x)
  <2>1. length' = length - 1 /\ index' = x /\ mem' = mem /\ tame' = tame /\ p \in 1 .. length
    BY <1>1, <1>8 DEF Shrink
  <2> QED
    BY <1>1, <1>4, <1>8, <2>1, ShrinkGood
<1> QED
  BY <1>2, <1>5, <1>6, <1>7, <1>8

\* arr_pop.
LEMMA PopGood ==
    ASSUME Good(mem, length, index, tame), Pop
    PROVE  Good(mem', length', index', tame')
<1> DEFINE k == mem[length].key
           d == Kind(k)
           x == [index EXCEPT ![d] = Delete(@, mem, length - 1, k)]
<1>1. /\ Shaped(mem, length) /\ Len(mem) \in Nat /\ mem \in Seq(Cells) /\ length \in 1 .. Len(mem)
      /\ length - 1 \in Nat /\ length > 0
  BY DEF Good, Shaped, Pop
<1>2. k \in Keys /\ d \in Kinds
  <2>1. mem[length] \in Cells
    BY <1>1
  <2>2. k \in Keys
    BY <2>1 DEF Cells
  <2> QED
    BY <2>2, KeyFacts
<1>3. CASE Endless(index[d], mem, length - 1, k)
  <2>1. UNCHANGED <<mem, length, index, tame>>
    BY <1>3 DEF Pop, Stop
  <2> QED
    BY <2>1
<1>4. CASE ~Endless(index[d], mem, length - 1, k)
  <2>1. length' = length - 1 /\ index' = x /\ mem' = Freed(length) /\ tame' = tame
    BY <1>4 DEF Pop
  <2>2. tame => Lacks(mem, length, k, length)
    BY <1>1, KeyOnce DEF Good
  <2>3. /\ x = [e \in Kinds |-> x[e]] /\ \A e \in Kinds : GoodTable(x[e], Len(mem))
        /\ tame => /\ Distinct(mem, length)
                   /\ \A e \in Kinds : CoversBut(x[e], mem, length, e, length)
    BY <1>1, <1>2, <1>4, <2>2, DeletedGood
  <2>4. /\ mem' \in Seq(Cells) /\ Len(mem') = Len(mem)
        /\ \A q \in 1 .. length - 1 : mem'[q] = mem[q]
    BY <1>1, <2>1, FreedCells
  <2> HIDE DEF x
  <2> QED
    BY <1>1, <2>1, <2>3, <2>4, ShrinkGood
<1> QED
  BY <1>3, <1>4

\* arr_shift.
LEMMA ShiftGood ==
    ASSUME Good(mem, length, index, tame), Shift
    PROVE  Good(mem', length', index', tame')
<1> DEFINE f == Freed(1)
           From(p) == IF p < length THEN p + 1 ELSE p
<1>1. /\ mem \in Seq(Cells) /\ Len(mem) \in Nat /\ length \in 1 .. Len(mem)
      /\ Len(mem) <= MaxLength
      /\ \A p \in 1 .. length : mem[p].key \in StrKeys => mem[p].string = mem[p].key
      /\ tame => Distinct(mem, length)
  BY DEF Good, Shaped, Shift
<1>2. /\ mem' = [p \in 1 .. Len(mem) |-> f[From(p)]] /\ length' = length - 1 /\ tame' = tame
      /\ index' = [d \in Kinds |-> NoIndex]
  BY DEF Shift
<1>3. /\ f \in Seq(Cells) /\ Len(f) = Len(mem)
      /\ \A q \in 1 .. Len(mem) : q # 1 => f[q] = mem[q]
  BY <1>1, FreedCells
<1> HIDE DEF f
<1>4. /\ mem' \in Seq(Cells) /\ Len(mem') = Len(mem)
      /\ \A p \in 1 .. length - 1 : mem'[p] = mem[p + 1]
  <2>1. \A p \in 1 .. Len(mem) : From(p) \in 1 .. Len(mem)
    BY <1>1
  <2>2. \A p \in 1 .. Len(mem) : f[From(p)] \in Cells
    BY <1>3, <2>1
  <2>3. \A p \in 1 .. length - 1 : From(p) = p + 1 /\ p + 1 # 1 /\ p + 1 \in 1 .. Len(mem)
                                   /\ p \in 1 .. Len(mem)
    BY <1>1
  <2> HIDE DEF From
  <2> QED
    BY <1>1, <1>2, <1>3, <2>2, <2>3
<1>5. Shaped(mem', length')
  <2>1. ASSUME NEW p \in 1 .. length - 1, mem'[p].key \in StrKeys
        PROVE  mem'[p].string = mem'[p].key
    BY <1>1, <1>4, <2>1
  <2>2. length - 1 \in 0 .. Len(mem)
    BY <1>1
  <2> QED
    BY <1>1, <1>2, <1>4, <2>1, <2>2 DEF Shaped
<1>6. ASSUME tame
      PROVE  Distinct(mem', length')
  <2>1. ASSUME NEW p \in 1 .. length - 1, NEW q \in 1 .. length - 1, mem'[p].key = mem'[q].key
        PROVE  p = q
    <3>1. /\ p + 1 \in 1 .. length /\ q + 1 \in 1 .. length
          /\ mem[p + 1].key = mem[q + 1].key
      BY <1>1, <1>4, <2>1
    <3>2. p + 1 = q + 1
      BY <1>1, <1>6, <3>1 DEF Distinct
    <3> QED
      BY <3>2
  <2> QED
    BY <1>2, <2>1 DEF Distinct
<1>7. \A d \in Kinds : /\ index'[d] = NoIndex /\ GoodTable(index'[d], Len(mem'))
                       /\ Covers(index'[d], mem', length', d)
  BY <1>2 DEF GoodTable, Covers, CoversBut
<1>8. index' = [d \in Kinds |-> index'[d]]
  BY <1>2
<1> QED
  BY <1>2, <1>5, <1>6, <1>7, <1>8 DEF Good
\* get_int, get_str, and assignments to a key that is there.
LEMMA GetGood ==
    ASSUME Good(mem, length, index, tame), NEW k \in Keys, Get(k)
    PROVE  Good(mem', length', index', tame')
<1> DEFINE x == IF Direct(k) THEN index[Kind(k)] ELSE Ensured(Kind(k))
<1>1. CASE Place(x, k) = -1 /\ Stop("hung")
  <2>1. UNCHANGED <<mem, length, index, tame>>
    BY <1>1 DEF Stop
  <2> QED
    BY <2>1
<1>2. CASE index' = [index EXCEPT ![Kind(k)] = x] /\ UNCHANGED <<mem, length, status, tame>>
  <2>1. Kind(k) \in Kinds
    BY KeyFacts
  <2>2. GoodTable(x, Len(mem)) /\ (tame => Covers(x, mem, length, Kind(k)))
    BY <2>1, EnsuredGood DEF Good
  <2> HIDE DEF x
  <2>3. Good(mem, length, index', tame)
    BY <1>2, <2>1, <2>2, GoodIndex
  <2> QED
    BY <1>2, <2>3
<1> QED
  BY <1>1, <1>2 DEF Get

LEMMA SetGood ==
    ASSUME Good(mem, length, index, tame), NEW k \in Keys, Set(k)
    PROVE  Good(mem', length', index', tame')
<1> DEFINE p == Place(SetTable(k), k)
<1>1. CASE p = -1 /\ Stop("hung")
  <2>1. UNCHANGED <<mem, length, index, tame>>
    BY <1>1 DEF Stop
  <2> QED
    BY <2>1
<1>2. CASE p = 0 /\ Appended(k)
  BY <1>2, AppendedGood
<1>3. CASE /\ index' = [index EXCEPT ![Kind(k)] = SetTable(k)]
           /\ UNCHANGED <<mem, length, status, tame>>
  <2>1. Good(mem, length, index', tame)
    BY <1>3, SetTableGood, GoodIndex
  <2> QED
    BY <1>3, <2>1
<1> QED
  BY <1>1, <1>2, <1>3 DEF Set

-----------------------------------------------------------------------------
\* The invariant is inductive

LEMMA InitInv == Init => IInv
<1> SUFFICES ASSUME Init
             PROVE  IInv
  OBVIOUS
<1>1. /\ mem = <<>> /\ length = 0 /\ index = [d \in Kinds |-> NoIndex]
      /\ status = "ok" /\ tame = TRUE /\ ops = 0
  BY DEF Init
<1>2. Shaped(mem, length)
  BY <1>1, ArrayAssumption DEF Shaped
<1>3. /\ index = [d \in Kinds |-> index[d]]
      /\ \A d \in Kinds : GoodTable(index[d], Len(mem)) /\ Covers(index[d], mem, length, d)
  BY <1>1 DEF GoodTable, Covers, CoversBut
<1>4. Distinct(mem, length)
  BY <1>1 DEF Distinct
<1> QED
  BY <1>1, <1>2, <1>3, <1>4, ArrayAssumption DEF IInv, Good

\* What every operation begins and ends with.
LEMMA Counts ==
    ASSUME ops \in 0 .. MaxOps, Begin, End
    PROVE  ops' \in 0 .. MaxOps
BY ArrayAssumption DEF Begin, End

\* The status and the history have their types.
LEMMA Statuses ==
    ASSUME IInv, Next
    PROVE  status' \in {"ok", "hung", "undefined"} /\ tame' \in BOOLEAN /\ ops' \in 0 .. MaxOps
<1>1. status \in {"ok", "hung", "undefined"} /\ tame \in BOOLEAN /\ ops \in 0 .. MaxOps
  BY DEF IInv
<1>2. ASSUME NEW k \in Keys, Get(k)
      PROVE  status' \in {"ok", "hung", "undefined"} /\ tame' \in BOOLEAN /\ Begin /\ End
  BY <1>1, <1>2 DEF Get, Stop
<1>3. ASSUME NEW k \in Keys, Set(k)
      PROVE  status' \in {"ok", "hung", "undefined"} /\ tame' \in BOOLEAN /\ Begin /\ End
  BY <1>1, <1>3 DEF Set, Appended, Stop
<1>4. ASSUME NEW k \in IntKeys, UnsetInt(k)
      PROVE  status' \in {"ok", "hung", "undefined"} /\ tame' \in BOOLEAN /\ Begin /\ End
  BY <1>1, <1>4, Zenon DEF UnsetInt, FillHole, Shrink, Stop
<1>5. ASSUME NEW k \in StrKeys, UnsetStr(k)
      PROVE  status' \in {"ok", "hung", "undefined"} /\ tame' \in BOOLEAN /\ Begin /\ End
  BY <1>1, <1>5, Zenon DEF UnsetStr, FillHole, Shrink, Stop
<1>6. ASSUME Push
      PROVE  status' \in {"ok", "hung", "undefined"} /\ tame' \in BOOLEAN /\ Begin /\ End
  BY <1>1, <1>6, Zenon DEF Push
<1>7. ASSUME Pop \/ Shift
      PROVE  status' \in {"ok", "hung", "undefined"} /\ tame' \in BOOLEAN /\ Begin /\ End
  BY <1>1, <1>7 DEF Pop, Shift, Stop
<1>8. status' \in {"ok", "hung", "undefined"} /\ tame' \in BOOLEAN /\ Begin /\ End
  BY <1>2, <1>3, <1>4, <1>5, <1>6, <1>7, Zenon DEF Next
<1> QED
  BY <1>1, <1>8, Counts

LEMMA NextInv == IInv /\ [Next]_vars => IInv'
<1> SUFFICES ASSUME IInv, [Next]_vars
             PROVE  IInv'
  OBVIOUS
<1>1. Good(mem, length, index, tame)
  BY DEF IInv
<1>2. CASE UNCHANGED vars
  BY <1>2 DEF IInv, vars
<1>3. CASE Next
  <2>1. ASSUME NEW k \in Keys, Get(k)
        PROVE  Good(mem', length', index', tame')
    BY <1>1, <2>1, GetGood
  <2>2. ASSUME NEW k \in Keys, Set(k)
        PROVE  Good(mem', length', index', tame')
    BY <1>1, <2>2, SetGood
  <2>3. ASSUME NEW k \in IntKeys, UnsetInt(k)
        PROVE  Good(mem', length', index', tame')
    BY <1>1, <2>3, UnsetIntGood
  <2>4. ASSUME NEW k \in StrKeys, UnsetStr(k)
        PROVE  Good(mem', length', index', tame')
    BY <1>1, <2>4, UnsetStrGood
  <2>5. ASSUME Push
        PROVE  Good(mem', length', index', tame')
    BY <1>1, <2>5, PushGood
  <2>6. ASSUME Pop
        PROVE  Good(mem', length', index', tame')
    BY <1>1, <2>6, PopGood
  <2>7. ASSUME Shift
        PROVE  Good(mem', length', index', tame')
    BY <1>1, <2>7, ShiftGood
  <2>8. Good(mem', length', index', tame')
    BY <1>3, <2>1, <2>2, <2>3, <2>4, <2>5, <2>6, <2>7, Zenon DEF Next
  <2> QED
    BY <1>3, <2>8, Statuses DEF IInv
<1> QED
  BY <1>2, <1>3

LEMMA Invariance == Spec => []IInv
<1>1. Init => IInv
  BY InitInv
<1>2. IInv /\ [Next]_vars => IInv'
  BY NextInv
<1> QED
  BY <1>1, <1>2, PTL DEF Spec

-----------------------------------------------------------------------------
\* Theorems

\* Variables keep their types, and tables never name a cell that no entry was
\* ever in: array.h reads the key of whatever position a slot holds.
THEOREM TypeCorrect == Spec => []TypeOK
<1>1. IInv => TypeOK
  <2> SUFFICES ASSUME IInv
               PROVE  TypeOK
    OBVIOUS
  <2>1. /\ mem \in Seq(Cells) /\ length \in 0 .. Len(mem) /\ Len(mem) <= MaxLength
        /\ index = [d \in Kinds |-> index[d]]
        /\ \A d \in Kinds : index[d] = NoIndex \/ IsTable(index[d], Len(mem))
        /\ status \in {"ok", "hung", "undefined"} /\ tame \in BOOLEAN /\ ops \in 0 .. MaxOps
    BY DEF IInv, Good, Shaped, GoodTable
  <2> QED
    BY <2>1, Zenon DEF TypeOK, Cells
<1> QED
  BY <1>1, Invariance, PTL

\* arr_stridx_insert and arr_intidx_insert always find a slot: a table counts
\* the slots it uses, tombstones not among them, and uses never all of them.
THEOREM InsertsAlwaysEnd == Spec => []InsertsEnd
<1>1. IInv => InsertsEnd
  BY DEF IInv, Good, GoodTable, InsertsEnd
<1> QED
  BY <1>1, Invariance, PTL

\* However entries are appended, removed and moved, no key is there twice,
\* unless a push has used one that was there.
THEOREM KeysStayDistinct == Spec => []KeysDistinct
<1>1. IInv => KeysDistinct
  BY DEF IInv, Good, Distinct, KeysDistinct
<1> QED
  BY <1>1, Invariance, PTL

\* After any sequence of operations in which no push met its key, a search
\* finds every key that is present, at its place, and no other: tables built,
\* doubled, told of some changes and not of others, with their stale slots and
\* tombstones, agree with the entries.
THEOREM TablesAgree == Spec => []IndexAgrees
<1>1. IInv => IndexAgrees
  <2> SUFFICES ASSUME IInv, tame, NEW k \in Keys
               PROVE  LET p == Place(index[Kind(k)], k) IN
                      IF k \in Present THEN p \in 1 .. length /\ mem[p].key = k ELSE p <= 0
    BY Zenon DEF IndexAgrees
  <2> DEFINE p == Place(index[Kind(k)], k)
  <2>1. /\ Shaped(mem, length) /\ Kind(k) \in Kinds /\ GoodTable(index[Kind(k)], Len(mem))
        /\ Covers(index[Kind(k)], mem, length, Kind(k))
    BY KeyFacts DEF IInv, Good
  <2>2. k \in Present => p \in 1 .. length /\ mem[p].key = k
    BY <2>1, PlaceComplete
  <2>3. p \in {-1, 0} \/ (p \in 1 .. length /\ mem[p].key = k)
    BY <2>1, PlaceSound
  <2> HIDE DEF p
  <2>4. k \notin Present => p \in {-1, 0}
    BY <2>3 DEF Present
  <2>5. IF k \in Present THEN p \in 1 .. length /\ mem[p].key = k ELSE p <= 0
    BY <2>2, <2>4
  <2> QED
    BY <2>5 DEF p
<1> QED
  BY <1>1, Invariance, PTL
-----------------------------------------------------------------------------
\* What the operations mean

\* The keys of c are those of all entries but that at p.
KeysOf(c, len) == {c[q].key : q \in 1 .. len}

AllBut(c, len, p) ==
    /\ \A q \in 1 .. len : \E r \in (1 .. length) \ {p} : c[q].key = mem[r].key
    /\ \A r \in (1 .. length) \ {p} : \E q \in 1 .. len : c[q].key = mem[r].key

\* Without the entry at p, which alone has its key, the key is gone.
LEMMA PresentWithout ==
    ASSUME Distinct(mem, length), NEW p \in 1 .. length, NEW k, k = mem[p].key,
           NEW c, NEW len, AllBut(c, len, p)
    PROVE  KeysOf(c, len) = Present \ {k}
<1> USE DEF KeysOf, AllBut
<1>1. ASSUME NEW a \in {c[q].key : q \in 1 .. len}
      PROVE  a \in Present \ {k}
  <2>1. PICK q \in 1 .. len : a = c[q].key
    OBVIOUS
  <2>2. PICK r \in (1 .. length) \ {p} : c[q].key = mem[r].key
    OBVIOUS
  <2>3. mem[r].key # k
    BY <2>2 DEF Distinct
  <2> QED
    BY <2>1, <2>2, <2>3 DEF Present
<1>2. ASSUME NEW a \in Present \ {k}
      PROVE  a \in {c[q].key : q \in 1 .. len}
  <2>1. PICK r \in 1 .. length : a = mem[r].key
    BY DEF Present
  <2>2. r \in (1 .. length) \ {p}
    BY <2>1
  <2> QED
    BY <2>1, <2>2
<1> QED
  BY <1>1, <1>2

\* The entries after an append.
LEMMA PresentWith ==
    ASSUME Shaped(mem, length), length < MaxLength, NEW k \in Keys,
           mem' = Written(k, length + 1), length' = length + 1
    PROVE  Present' = Present \cup {k}
<1> DEFINE c == Written(k, length + 1)
<1>1. length \in Nat
  BY DEF Shaped
<1>2. c[length + 1].key = k /\ \A q \in 1 .. length : c[q] = mem[q]
  BY WrittenNext
<1>3. mem' = c
  OBVIOUS
<1> HIDE DEF c
<1>4. Present' = {c[q].key : q \in 1 .. length + 1}
  BY <1>3 DEF Present
<1>5. \A q : q \in 1 .. length + 1 <=> q \in 1 .. length \/ q = length + 1
  BY <1>1
<1> QED
  BY <1>2, <1>4, <1>5 DEF Present

\* The last entry takes the place of that at p.
LEMMA HoleFilled ==
    ASSUME Shaped(mem, length), Distinct(mem, length), NEW x, NEW p \in 1 .. length - 1,
           FillHole(p, x), status' = "ok", NEW k, k = mem[p].key
    PROVE  Present' = Present \ {k}
<1> DEFINE c == [mem EXCEPT ![p] = mem[length]]
<1>1. mem' = c /\ length' = length - 1
  BY DEF FillHole, Stop
<1>2. mem \in Seq(Cells) /\ Len(mem) \in Nat /\ length \in 1 .. Len(mem)
  BY DEF Shaped
<1>3. c[p] = mem[length] /\ \A q \in 1 .. length - 1 : q # p => c[q] = mem[q]
  BY <1>2
<1> HIDE DEF c
<1>4. ASSUME NEW q \in 1 .. length - 1
      PROVE  \E r \in (1 .. length) \ {p} : c[q].key = mem[r].key
  <2>1. q \in 1 .. length /\ length \in 1 .. length /\ length # p
    BY <1>2
  <2> QED
    BY <1>3, <2>1
<1>5. ASSUME NEW r \in (1 .. length) \ {p}
      PROVE  \E q \in 1 .. length - 1 : c[q].key = mem[r].key
  <2>1. r = length \/ r \in 1 .. length - 1
    BY <1>2
  <2> QED
    BY <1>3, <2>1
<1>6. KeysOf(c, length - 1) = Present \ {k}
  <2>1. p \in 1 .. length
    BY <1>2
  <2> QED
    BY <1>4, <1>5, <2>1, PresentWithout DEF AllBut
<1> QED
  BY <1>1, <1>6 DEF Present, KeysOf

\* The last entry goes.
LEMMA LastGone ==
    ASSUME Shaped(mem, length), Distinct(mem, length), length > 0, length' = length - 1,
           \A q \in 1 .. length - 1 : mem'[q].key = mem[q].key, NEW k, k = mem[length].key
    PROVE  Present' = Present \ {k}
<1>1. length \in Nat \ {0}
  BY DEF Shaped
<1>2. ASSUME NEW q \in 1 .. length - 1
      PROVE  \E r \in (1 .. length) \ {length} : mem'[q].key = mem[r].key
  <2>1. q \in (1 .. length) \ {length}
    BY <1>1
  <2> QED
    BY <2>1
<1>3. ASSUME NEW r \in (1 .. length) \ {length}
      PROVE  \E q \in 1 .. length - 1 : mem'[q].key = mem[r].key
  <2>1. r \in 1 .. length - 1
    BY <1>1
  <2> QED
    BY <2>1
<1>4. KeysOf(mem', length - 1) = Present \ {k}
  <2>1. length \in 1 .. length
    BY <1>1
  <2> QED
    BY <1>2, <1>3, <2>1, PresentWithout DEF AllBut
<1> QED
  BY <1>4 DEF Present, KeysOf

\* What an operation that ended normally has done to the keys.
LEMMA SetMeans ==
    ASSUME IInv, NEW k \in Keys, Set(k), status' = "ok"
    PROVE  Present' = Present \cup {k}
<1> DEFINE p == Place(SetTable(k), k)
<1>1. Good(mem, length, index, tame) /\ Shaped(mem, length)
  BY DEF IInv, Good
<1>2. CASE p = 0 /\ Appended(k)
  <2>1. length < MaxLength /\ mem' = Written(k, length + 1) /\ length' = length + 1
    BY <1>2 DEF Appended, Stop
  <2> QED
    BY <1>1, <2>1, PresentWith
<1>3. CASE p > 0 /\ UNCHANGED <<mem, length, status, tame>>
  <2>1. p \in {-1, 0} \/ (p \in 1 .. length /\ mem[p].key = k)
    BY <1>1, SetTableGood, PlaceSound
  <2> HIDE DEF p
  <2>2. k \in Present
    BY <1>3, <2>1 DEF Present
  <2>3. Present' = Present
    BY <1>3 DEF Present
  <2> QED
    BY <2>2, <2>3
<1> QED
  BY <1>2, <1>3 DEF Set, Stop

LEMMA UnsetIntMeans ==
    ASSUME IInv, NEW k \in IntKeys, UnsetInt(k), tame, status' = "ok"
    PROVE  RemovesIfBelow(k)
<1>0. ASSUME ~(k < length)
      PROVE  Present' = Present
  <2> DEFINE p == IF k < length THEN Place(index["int"], k) ELSE 0
  <2>1. p = 0
    BY <1>0
  <2>2. \/ p = -1
        \/ p = 0 /\ UNCHANGED <<mem, length, index, status, tame>>
        \/ p \in 1 .. length - 1
        \/ p = length /\ length > 0
    BY DEF UnsetInt
  <2>3. length \in Nat
    BY DEF IInv, Good, Shaped
  <2> HIDE DEF p
  <2>4. p # -1 /\ p \notin 1 .. length - 1 /\ ~(p = length /\ length > 0)
    BY <2>1, <2>3
  <2>5. mem' = mem /\ length' = length
    BY <2>2, <2>4
  <2> QED
    BY <2>5 DEF Present
<1> SUFFICES ASSUME k < length
             PROVE  Present' = Present \ {k}
  BY <1>0 DEF RemovesIfBelow, M!Remove
<1> DEFINE p == Place(index["int"], k)
<1>1. /\ Shaped(mem, length) /\ k \in Keys /\ Kind(k) = "int" /\ GoodTable(index["int"], Len(mem))
      /\ Distinct(mem, length) /\ Covers(index["int"], mem, length, "int")
  BY KeyFacts DEF IInv, Good, Keys, Kinds
<1>2. p \in 1 .. length => mem[p].key = k
  BY <1>1, PlaceSound
<1>3. CASE p = 0 /\ UNCHANGED <<mem, length, index, status, tame>>
  <2>1. k \notin Present
    BY <1>1, <1>3, NotPresent
  <2>2. Present' = Present
    BY <1>3 DEF Present
  <2> QED
    BY <2>1, <2>2
<1>4. CASE p \in 1 .. length - 1 /\ FillHole(p, index)
  <2>1. p \in 1 .. length
    BY <1>1, <1>4 DEF Shaped
  <2> HIDE DEF p
  <2> QED
    BY <1>1, <1>2, <1>4, <2>1, HoleFilled
<1>5. CASE /\ p = length /\ length > 0
           /\ Shrink([index EXCEPT !["int"] = Delete(@, mem, length, k)])
  <2>1. mem' = mem /\ length' = length - 1
    BY <1>5 DEF Shrink
  <2>2. mem[length].key = k
    BY <1>1, <1>2, <1>5 DEF Shaped
  <2> QED
    BY <1>1, <1>5, <2>1, <2>2, LastGone
<1> HIDE DEF p
<1>6. \/ p = -1 /\ Stop("hung")
      \/ p = 0 /\ UNCHANGED <<mem, length, index, status, tame>>
      \/ p \in 1 .. length - 1 /\ FillHole(p, index)
      \/ p = length /\ length > 0 /\ Stop("hung")
      \/ /\ p = length /\ length > 0
         /\ Shrink([index EXCEPT !["int"] = Delete(@, mem, length, k)])
  BY DEF UnsetInt, p
<1> QED
  BY <1>3, <1>4, <1>5, <1>6 DEF Stop

LEMMA UnsetStrMeans ==
    ASSUME IInv, NEW k \in StrKeys, UnsetStr(k), tame, status' = "ok"
    PROVE  Present' = Present \ {k}
<1> DEFINE p == Search(index["str"], k)
           x == [index EXCEPT !["str"] = Delete(@, mem, length, k)]
<1>1. /\ Shaped(mem, length) /\ k \in Keys /\ Kind(k) = "str" /\ GoodTable(index["str"], Len(mem))
      /\ Distinct(mem, length) /\ Covers(index["str"], mem, length, "str")
  BY KeyFacts DEF IInv, Good, Keys, Kinds
<1>2. p = Place(index["str"], k)
  <2>1. ~Direct(k)
    BY ArrayAssumption DEF Direct
  <2> QED
    BY <2>1 DEF Place
<1>3. p \in 1 .. length => mem[p].key = k
  BY <1>1, <1>2, PlaceSound
<1>4. \/ p = -1 /\ Stop("hung")
      \/ p = 0 /\ UNCHANGED <<mem, length, index, status, tame>>
      \/ p \in 1 .. length - 1 /\ FillHole(p, x)
      \/ p = length /\ length > 0 /\ Shrink(x)
  BY DEF UnsetStr
<1> HIDE DEF p, x
<1>5. CASE p = 0 /\ UNCHANGED <<mem, length, index, status, tame>>
  <2>1. k \notin Present
    BY <1>1, <1>2, <1>5, NotPresent
  <2>2. Present' = Present
    BY <1>5 DEF Present
  <2> QED
    BY <2>1, <2>2
<1>6. CASE p \in 1 .. length - 1 /\ FillHole(p, x)
  <2>1. p \in 1 .. length
    BY <1>1, <1>6 DEF Shaped
  <2> QED
    BY <1>1, <1>3, <1>6, <2>1, HoleFilled
<1>7. CASE p = length /\ length > 0 /\ Shrink(x)
  <2>1. mem' = mem /\ length' = length - 1
    BY <1>7 DEF Shrink
  <2>2. mem[length].key = k
    BY <1>1, <1>3, <1>7 DEF Shaped
  <2> QED
    BY <1>1, <1>7, <2>1, <2>2, LastGone
<1> QED
  BY <1>4, <1>5, <1>6, <1>7 DEF Stop

LEMMA PushMeans ==
    ASSUME IInv, Push
    PROVE  AppendsIfFree
<1>1. /\ length < MaxLength /\ length \in IntKeys /\ length \in Keys
      /\ mem' = Written(length, length + 1) /\ length' = length + 1
  BY DEF Push, Keys
<1>2. Present' = Present \cup {length}
  BY <1>1, PresentWith DEF IInv, Good
<1> QED
  BY <1>1, <1>2 DEF AppendsIfFree, M!Append, M!Assign

LEMMA PopMeans ==
    ASSUME IInv, Pop, tame, status' = "ok"
    PROVE  M!Take
<1>1. /\ Shaped(mem, length) /\ (tame => Distinct(mem, length)) /\ mem \in Seq(Cells)
      /\ length \in 1 .. Len(mem) /\ length > 0
  BY DEF IInv, Good, Shaped, Pop
<1>2. length' = length - 1 /\ mem' = Freed(length)
  BY DEF Pop, Stop
<1>3. \A q \in 1 .. length - 1 : mem'[q].key = mem[q].key
  BY <1>1, <1>2, FreedCells
<1>4. Present' = Present \ {mem[length].key}
  BY <1>1, <1>2, <1>3, LastGone
<1>5. mem[length].key \in Present
  BY <1>1 DEF Present
<1> QED
  BY <1>4, <1>5 DEF M!Take, M!Remove

LEMMA ShiftMeans ==
    ASSUME IInv, Shift, tame
    PROVE  M!Take
<1> DEFINE f == Freed(1)
           From(p) == IF p < length THEN p + 1 ELSE p
<1>1. /\ Shaped(mem, length) /\ (tame => Distinct(mem, length)) /\ mem \in Seq(Cells)
      /\ length \in 1 .. Len(mem) /\ Len(mem) \in Nat
  BY DEF IInv, Good, Shaped, Shift
<1>2. /\ mem' = [p \in 1 .. Len(mem) |-> f[From(p)]] /\ length' = length - 1
  BY DEF Shift
<1>3. \A q \in 1 .. Len(mem) : q # 1 => f[q] = mem[q]
  BY <1>1, FreedCells
<1> HIDE DEF f
<1>4. \A q \in 1 .. length - 1 : mem'[q].key = mem[q + 1].key
  <2>1. \A q \in 1 .. length - 1 : /\ From(q) = q + 1 /\ q + 1 # 1 /\ q + 1 \in 1 .. Len(mem)
                                   /\ q \in 1 .. Len(mem)
    BY <1>1
  <2> HIDE DEF From
  <2> QED
    BY <1>2, <1>3, <2>1
<1>5. ASSUME NEW q \in 1 .. length - 1
      PROVE  \E r \in (1 .. length) \ {1} : mem'[q].key = mem[r].key
  <2>1. q + 1 \in (1 .. length) \ {1}
    BY <1>1
  <2> QED
    BY <1>4, <2>1
<1>6. ASSUME NEW r \in (1 .. length) \ {1}
      PROVE  \E q \in 1 .. length - 1 : mem'[q].key = mem[r].key
  <2>1. r - 1 \in 1 .. length - 1 /\ (r - 1) + 1 = r
    BY <1>1
  <2> QED
    BY <1>4, <2>1
<1>7. KeysOf(mem', length - 1) = Present \ {mem[1].key}
  <2>1. 1 \in 1 .. length
    BY <1>1
  <2>2. AllBut(mem', length - 1, 1)
    BY <1>5, <1>6 DEF AllBut
  <2>3. Distinct(mem, length)
    BY <1>1, <1>2
  <2> QED
    BY <2>1, <2>2, <2>3, PresentWithout
<1>8. mem[1].key \in Present
  BY <1>1 DEF Present
<1>9. Present' = KeysOf(mem', length - 1)
  BY <1>2 DEF Present, KeysOf
<1> QED
  BY <1>7, <1>8, <1>9 DEF M!Take, M!Remove

\* While keys are distinct, each operation does to the set of keys what an array
\* promises, whatever it does to positions and tables: what a set or a push onto
\* a free key appends is there, what an unset (of an int key: below the length),
\* a pop or a shift removes is gone, and no other key comes or goes.  A push onto
\* a key that is there, and an unset of any other int key, change no key.
THEOREM ArrayMeansMap == Spec => MeansMap
<1> DEFINE Means ==
       tame /\ status' = "ok" =>
           /\ \A k \in Keys : Set(k) => M!Assign(k)
           /\ \A k \in IntKeys : UnsetInt(k) => RemovesIfBelow(k)
           /\ \A k \in StrKeys : UnsetStr(k) => M!Remove(k)
           /\ Push => AppendsIfFree
           /\ (Pop \/ Shift) => M!Take
<1>1. IInv => Means
  <2> SUFFICES ASSUME IInv, tame, status' = "ok"
               PROVE  /\ \A k \in Keys : Set(k) => M!Assign(k)
                      /\ \A k \in IntKeys : UnsetInt(k) => RemovesIfBelow(k)
                      /\ \A k \in StrKeys : UnsetStr(k) => M!Remove(k)
                      /\ Push => AppendsIfFree
                      /\ (Pop \/ Shift) => M!Take
    OBVIOUS
  <2>1. ASSUME NEW k \in Keys, Set(k)
        PROVE  M!Assign(k)
    BY <2>1, SetMeans DEF M!Assign
  <2>2. ASSUME NEW k \in IntKeys, UnsetInt(k)
        PROVE  RemovesIfBelow(k)
    BY <2>2, UnsetIntMeans
  <2>3. ASSUME NEW k \in StrKeys, UnsetStr(k)
        PROVE  M!Remove(k)
    BY <2>3, UnsetStrMeans DEF M!Remove
  <2> QED
    BY <2>1, <2>2, <2>3, PushMeans, PopMeans, ShiftMeans, Zenon
<1>2. IInv => [Means]_vars
  BY <1>1
<1> QED
  BY <1>2, Invariance, PTL DEF MeansMap
=============================================================================
