------------------------------ MODULE ArrayMap ------------------------------
(***************************************************************************)
(* t_array of include/array.h: entries in a dense array, and for each kind *)
(* of key (string, int) a hash table with linear probing from keys to      *)
(* positions, built when the array is large enough and kept up to date, or *)
(* not, by every operation from then on.                                   *)
(*                                                                         *)
(* A position is the index of the C array plus 1, which is what a slot of  *)
(* a table holds; 0 is an empty slot and -1 a tombstone.  Values are left  *)
(* out: they move with their keys.                                         *)
(***************************************************************************)
EXTENDS Integers, Sequences, FiniteSets

CONSTANTS
    StrKeys, IntKeys,
    Empty,        \* the string of length 0 that tphp_rt_str_free leaves
    HashOf,       \* HashOf[k]: _arr_key_hash, _arr_int_hash
    InitialCap,   \* slots of a first table (16 in the code)
    Threshold,    \* ARR_HASH_THRESHOLD (8)
    MaxLength,    \* bound: entries
    MaxCap,       \* bound: slots of a table
    MaxOps        \* bound: operations on the array

Keys  == StrKeys \cup IntKeys
Kinds == {"str", "int"}

ASSUME ArrayAssumption ==
    /\ IntKeys \subseteq Nat /\ StrKeys \cap IntKeys = {}
    /\ Empty \notin Keys
    /\ HashOf \in [Keys \cup {Empty} -> Nat]
    /\ InitialCap \in Nat /\ InitialCap >= 4 /\ Threshold \in Nat
    /\ MaxLength \in Nat /\ MaxCap \in Nat /\ MaxOps \in Nat

VARIABLES
    mem,     \* entries[], up to the highest position ever used: the key, and
             \* what the string part of the key's union holds
    length,
    index,   \* str_index and int_index
    status,  \* "ok"; "hung": a probe never ends; "undefined": the program read
             \* a string that an entry no longer owns
    tame,    \* history: no push met its key
    ops      \* operations so far

vars == <<mem, length, index, status, tame, ops>>

NoIndex == [cap |-> 0, slots |-> <<>>, count |-> 0]

Init ==
    /\ mem = <<>> /\ length = 0
    /\ index = [d \in Kinds |-> NoIndex]
    /\ status = "ok" /\ tame = TRUE /\ ops = 0

Kind(k)  == IF k \in StrKeys THEN "str" ELSE "int"
Present  == {mem[p].key : p \in 1 .. length}

\* Writing a key into the cell at p: an int key leaves what follows its eight
\* bytes in the union as it was.
Written(k, p) ==
    LET old == IF p <= Len(mem) THEN mem[p].string ELSE Empty
        new == [key |-> k, string |-> IF k \in StrKeys THEN k ELSE old]
    IN  IF p <= Len(mem) THEN [mem EXCEPT ![p] = new] ELSE Append(mem, new)

\* tphp_rt_str_free of the key at p.
Freed(p) == IF mem[p].key \in StrKeys THEN [mem EXCEPT ![p].string = Empty] ELSE mem

-----------------------------------------------------------------------------
\* Hash tables

Least(S) == CHOOSE n \in S : \A m \in S : n <= m

\* The slot that a probe from the home of hash h reaches after i steps.
SlotAt(x, h, i) == ((h % x.cap) + i) % x.cap

\* The slot at which it stops, if it stops at those of S; -1 when the loop goes
\* round for ever.
Probe(x, h, S) ==
    LET hits == {i \in 0 .. x.cap - 1 : SlotAt(x, h, i) \in S}
    IN  IF hits = {} THEN -1 ELSE SlotAt(x, h, Least(hits))

\* The slots not in use, for insert: empty or a tombstone.
Unused(x) == {i \in 0 .. x.cap - 1 : x.slots[i] <= 0}

\* The probe of lookup and delete for k in an array of len cells c.
Seek(x, c, len, k) ==
    Probe(x, HashOf[k], {i \in 0 .. x.cap - 1 :
        LET s == x.slots[i] IN s = 0 \/ (s \in 1 .. len /\ c[s].key = k)})

\* Mutant: the slot gets the position after the entry's.
PutOffByOne(x, h, p) ==
    [x EXCEPT !.slots[Probe(x, h, Unused(x))] = p + 1, !.count = @ + 1]

Put(x, h, p) ==
    [x EXCEPT !.slots[Probe(x, h, Unused(x))] = p, !.count = @ + 1]

\* What each table hashes of a cell, its kind of key or not.
HashIn(d, cell) == HashOf[IF d = "str" THEN cell.string ELSE cell.key]

Blank(cap) == [cap |-> cap, slots |-> [i \in 0 .. cap - 1 |-> 0], count |-> 0]

\* A table of cap slots that holds the positions in ps, zeros and tombstones of
\* ps skipped: the loop of build and of doubling.
Filled(d, c, cap, ps) ==
    LET table[n \in 0 .. Len(ps)] ==
          IF n = 0 THEN Blank(cap)
          ELSE IF ps[n] > 0 THEN Put(table[n - 1], HashIn(d, c[ps[n]]), ps[n])
          ELSE table[n - 1]
    IN  table[Len(ps)]

\* The slots of a first table for len entries, doubled until half stay free.
CapFor(len) ==
    LET cap[n \in 0 .. len] ==
          IF n = 0 THEN InitialCap
          ELSE IF cap[n - 1] < len * 2 THEN cap[n - 1] * 2 ELSE cap[n - 1]
    IN  cap[len]

\* arr_stridx_build and arr_intidx_build.
Build(d, c, len) ==
    Filled(d, c, CapFor(len), [p \in 1 .. len |-> IF Kind(c[p].key) = d THEN p ELSE 0])

\* Mutant: the load factor is not looked at.
NeverFull(x) == FALSE

Full(x) == x.count * 4 >= x.cap * 3

\* What the slots hold, first to last.
Held(x) == [i \in 1 .. x.cap |-> x.slots[i - 1]]

\* arr_stridx_insert and arr_intidx_insert; a full table is doubled first.
Insert(d, x, c, k, p) ==
    IF x = NoIndex THEN x
    ELSE Put(IF Full(x) THEN Filled(d, c, x.cap * 2, Held(x)) ELSE x, HashOf[k], p)

\* Doubling the string table hashes, for a stale slot, the string that the cell
\* holds by now: defined for an entry's own key and for a string that was freed.
Undefined(d, x, c, len) ==
    /\ d = "str" /\ x # NoIndex /\ Full(x)
    /\ \E i \in 0 .. x.cap - 1 :
          LET p == x.slots[i] IN
          p > 0 /\ c[p].string # Empty /\ ~(p <= len /\ c[p].key = c[p].string)

\* Mutant: a deleted slot becomes empty, which cuts the probes that passed it.
DeleteEmpties(x, c, len, k) ==
    IF x = NoIndex THEN x
    ELSE LET s == Seek(x, c, len, k) IN
         IF x.slots[s] = 0 THEN x
         ELSE [x EXCEPT !.slots[s] = 0, !.count = @ - 1]

\* arr_stridx_delete and arr_intidx_delete, for a probe that ends.
Delete(x, c, len, k) ==
    IF x = NoIndex THEN x
    ELSE LET s == Seek(x, c, len, k) IN
         IF x.slots[s] = 0 THEN x
         ELSE [x EXCEPT !.slots[s] = -1, !.count = @ - 1]

Endless(x, c, len, k) == x # NoIndex /\ Seek(x, c, len, k) = -1

-----------------------------------------------------------------------------
\* Finding a key

\* The position of k, 0 if it is not found, -1 if the search does not end: by
\* the table x, or by a scan where there is none.
Search(x, k) ==
    IF x = NoIndex THEN IF k \in Present THEN Least({p \in 1 .. length : mem[p].key = k}) ELSE 0
    ELSE LET s == Seek(x, mem, length, k) IN IF s = -1 THEN -1 ELSE x.slots[s]

\* The fast path of the int operations: the key at the position of its value.
Direct(k) == k \in IntKeys /\ k < length /\ mem[k + 1].key = k

Place(x, k) == IF Direct(k) THEN k + 1 ELSE Search(x, k)

\* arr_stridx_ensure and arr_intidx_ensure.
Ensured(d) ==
    IF index[d] = NoIndex /\ length >= Threshold THEN Build(d, mem, length) ELSE index[d]

-----------------------------------------------------------------------------
\* What every operation begins with; nothing runs after a search that does not
\* end, and nothing is said of what follows an undefined read.
Begin == status = "ok" /\ ops < MaxOps
End   == ops' = ops + 1

\* Bound: a table is not doubled beyond MaxCap.
Grows(x) == Full(x) => x.cap * 2 <= MaxCap

Stop(s) == status' = s /\ UNCHANGED <<mem, length, index, tame>>

\* get_int, get_str: the first one of a large array builds the table.
Get(k) ==
    /\ Begin
    /\ LET x == IF Direct(k) THEN index[Kind(k)] ELSE Ensured(Kind(k)) IN
       \/ Place(x, k) = -1 /\ Stop("hung")
       \/ /\ Place(x, k) # -1
          /\ index' = [index EXCEPT ![Kind(k)] = x]
          /\ UNCHANGED <<mem, length, status, tame>>
    /\ End

\* set_int builds the table before it looks, set_str after it appended.
SetTable(k) == IF Kind(k) = "int" /\ ~Direct(k) THEN Ensured("int") ELSE index[Kind(k)]

\* Mutant: the entry is appended and an existing table is not told.
AppendedUnindexed(k) ==
    /\ length < MaxLength
    /\ mem' = Written(k, length + 1) /\ length' = length + 1
    /\ index' = [index EXCEPT ![Kind(k)] = SetTable(k)]
    /\ UNCHANGED <<status, tame>>

\* set_int and set_str of a key that the array has not: append, and index it.
Appended(k) ==
    LET d == Kind(k)
        x == SetTable(k)
        c == Written(k, length + 1)
    IN  /\ length < MaxLength /\ Grows(x)
        /\ IF Undefined(d, x, c, length + 1) THEN Stop("undefined")
           ELSE /\ mem' = c /\ length' = length + 1
                /\ index' = [index EXCEPT ![d] =
                      IF x # NoIndex THEN Insert(d, x, c, k, length + 1)
                      ELSE IF length + 1 >= Threshold THEN Build(d, c, length + 1)
                      ELSE NoIndex]
                /\ UNCHANGED <<status, tame>>

Set(k) ==
    /\ Begin
    /\ LET p == Place(SetTable(k), k) IN
       \/ p = -1 /\ Stop("hung")
       \/ p = 0 /\ Appended(k)
       \/ /\ p > 0
          /\ index' = [index EXCEPT ![Kind(k)] = SetTable(k)]
          /\ UNCHANGED <<mem, length, status, tame>>
    /\ End

\* arr_push: the next key is the length; no table is told, since Direct finds
\* the entry where it is.
Push ==
    /\ Begin /\ length < MaxLength /\ length \in IntKeys
    /\ mem' = Written(length, length + 1) /\ length' = length + 1
    /\ tame' = (tame /\ length \notin Present)
    /\ UNCHANGED <<index, status>>
    /\ End

\* Mutant: the entry after the hole is moved instead of the last one.
FillHoleNext(p, x) ==
    /\ mem' = [mem EXCEPT ![p] = mem[p + 1]] /\ length' = length - 1
    /\ index' = [d \in Kinds |-> NoIndex]
    /\ UNCHANGED <<status, tame>>

\* The end of both unsets: the last entry fills the hole at p, and the table of
\* its kind (x is the tables so far) is told.
FillHole(p, x) ==
    LET c == [mem EXCEPT ![p] = mem[length]]
        k == c[p].key
        d == Kind(k)
        y == Delete(x[d], c, length, k)
    IN  IF Endless(x[d], c, length, k) THEN Stop("hung")
        ELSE /\ Grows(y)
             /\ IF Undefined(d, y, c, length) THEN Stop("undefined")
                ELSE /\ mem' = c /\ length' = length - 1
                     /\ index' = [x EXCEPT ![d] = Insert(d, y, c, k, p)]
                     /\ UNCHANGED <<status, tame>>

Shrink(x) == length' = length - 1 /\ index' = x /\ UNCHANGED <<mem, status, tame>>

\* unset_int looks only at keys below the length, and tells the table of the
\* removed key only when it is the last entry's.
UnsetInt(k) ==
    /\ Begin
    /\ LET p == IF k < length THEN Place(index["int"], k) ELSE 0 IN
       \/ p = -1 /\ Stop("hung")
       \/ p = 0 /\ UNCHANGED <<mem, length, index, status, tame>>
       \/ p \in 1 .. length - 1 /\ FillHole(p, index)
       \/ /\ p = length /\ length > 0
          /\ IF Endless(index["int"], mem, length, k) THEN Stop("hung")
             ELSE Shrink([index EXCEPT !["int"] = Delete(@, mem, length, k)])
    /\ End

\* unset_str deletes the key from the table first.
UnsetStr(k) ==
    /\ Begin
    /\ LET p == Search(index["str"], k)
           x == [index EXCEPT !["str"] = Delete(@, mem, length, k)]
       IN \/ p = -1 /\ Stop("hung")
          \/ p = 0 /\ UNCHANGED <<mem, length, index, status, tame>>
          \/ p \in 1 .. length - 1 /\ FillHole(p, x)
          \/ p = length /\ length > 0 /\ Shrink(x)
    /\ End

\* arr_pop takes the entry off before it asks the table to delete its key, so
\* that the probe of delete no longer recognises it.  A string key is freed.
Pop ==
    /\ Begin /\ length > 0
    /\ LET k == mem[length].key
           d == Kind(k)
           len == length - 1
       IN IF Endless(index[d], mem, len, k) THEN Stop("hung")
          ELSE /\ length' = len
               /\ index' = [index EXCEPT ![d] = Delete(@, mem, len, k)]
               /\ mem' = Freed(length)
               /\ UNCHANGED <<status, tame>>
    /\ End

\* arr_shift: the entries move down, the keys stay, both tables are freed.
Shift ==
    /\ Begin /\ length > 0
    /\ mem' = [p \in 1 .. Len(mem) |-> Freed(1)[IF p < length THEN p + 1 ELSE p]]
    /\ length' = length - 1
    /\ index' = [d \in Kinds |-> NoIndex]
    /\ UNCHANGED <<status, tame>>
    /\ End

Next ==
    \/ \E k \in Keys : Get(k) \/ Set(k)
    \/ \E k \in IntKeys : UnsetInt(k)
    \/ \E k \in StrKeys : UnsetStr(k)
    \/ Push \/ Pop \/ Shift

Spec == Init /\ [][Next]_vars

-----------------------------------------------------------------------------
SlotsOf(x) == {i \in 0 .. x.cap - 1 : x.slots[i] > 0}

\* A table whose slots name positions up to n.
IsTable(x, n) ==
    /\ x \in [cap : Nat, slots : [0 .. x.cap - 1 -> -1 .. n], count : Nat]
    /\ x.cap >= InitialCap

\* Every variable has its type; the slots of a table name cells of the array.
TypeOK ==
    /\ mem \in Seq([key : Keys, string : StrKeys \cup {Empty}])
    /\ length \in 0 .. Len(mem) /\ Len(mem) <= MaxLength
    /\ index = [d \in Kinds |-> index[d]]
    /\ \A d \in Kinds : index[d] = NoIndex \/ IsTable(index[d], Len(mem))
    /\ status \in {"ok", "hung", "undefined"} /\ tame \in BOOLEAN
    /\ ops \in 0 .. MaxOps

\* The count of a table is the number of its slots in use, stale ones included,
\* and never all of them: the loop of insert, which stops at a slot that is not
\* in use, ends.
InsertsEnd ==
    \A d \in Kinds : index[d] # NoIndex =>
        /\ index[d].count = Cardinality(SlotsOf(index[d]))
        /\ index[d].count < index[d].cap

\* No key is in the array twice, unless a push has used one that was there.
KeysDistinct ==
    tame => \A p, q \in 1 .. length : mem[p].key = mem[q].key => p = q

\* Tables and entries agree, after any sequence of operations in which no push
\* met its key: a search with the table the array has finds each key that is
\* present, at its place, and finds no other.
IndexAgrees ==
    tame => \A k \in Keys :
        LET p == Place(index[Kind(k)], k) IN
        IF k \in Present THEN p \in 1 .. length /\ mem[p].key = k ELSE p <= 0

M == INSTANCE PhpMap WITH keys <- Present

\* unset of an int key removes it if it is below the length.  To any other int
\* key it does nothing, though it may be present: the comment above
\* tphp_fn_arr_unset_int, which says that the element is deleted, is wrong then.
RemovesIfBelow(k) == IF k < length THEN M!Remove(k) ELSE UNCHANGED Present

\* push adds the length as a key if it is free.  If it is there no key is new,
\* though FUNCTIONS.md says of array_push that it appends an entry as PHP does.
AppendsIfFree == IF length \notin Present THEN M!Append ELSE UNCHANGED Present

\* While keys are distinct, each operation that ends does to the keys what an
\* array promises and nothing else, whatever it does to tables and positions,
\* but for the two cases above, where it does nothing to them.
MeansMap ==
    [][tame /\ status' = "ok" =>
        /\ \A k \in Keys : Set(k) => M!Assign(k)
        /\ \A k \in IntKeys : UnsetInt(k) => RemovesIfBelow(k)
        /\ \A k \in StrKeys : UnsetStr(k) => M!Remove(k)
        /\ Push => AppendsIfFree
        /\ (Pop \/ Shift) => M!Take]_vars

\* Lookups take constant time from eight keys on (FUNCTIONS.md): no search goes
\* round its table for ever, in an array used without pushes onto a present key.
LookupsEnd == tame => status # "hung"
=============================================================================
