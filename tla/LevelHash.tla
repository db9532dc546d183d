------------------------------ MODULE LevelHash ------------------------------
(***************************************************************************)
(* The level hash of njs_lvlhsh.c, which properties, variables, atoms,     *)
(* events and modules are kept in.  A slot is Null, a chain of buckets, or *)
(* a level of slots that the next bits of the hash select.  A bucket has   *)
(* Capacity cells, of which count are in use; cells that were never        *)
(* written hold Unwritten, deleted ones are Free.                          *)
(*                                                                         *)
(* mem says how many allocations will succeed and how many blocks are held.*)
(***************************************************************************)
EXTENDS Integers, Sequences, FiniteSets

CONSTANTS Keys, Values,
          Hash,        \* Hash[k]: the hash of the key
          Shift,       \* proto->shift: bits of each level, 0 after the last
          Capacity,    \* entries of a bucket, proto->bucket_end
          MaxFailAt,   \* an operation may fail at any of its first allocations
          Null

VARIABLES slot,      \* lh->slot
          blocks,    \* levels and buckets that are allocated
          map,       \* history: what callers have put in
          answered   \* history: the last call returned what a map would have

vars == <<slot, blocks, map, answered>>

Free    == [key |-> Null, value |-> Null, used |-> FALSE]
Unwritten == [key |-> Null, value |-> Null, used |-> TRUE]
Cell(q) == [key |-> q.key, value |-> q.value, used |-> TRUE]

Answer(ret, value) == [ret |-> ret, value |-> value]

Init ==
    /\ slot = Null /\ blocks = 0 /\ map = <<>>
    /\ answered = TRUE

Size(n)     == 2 ^ Shift[n]
Index(h, n) == h % Size(n)
Rest(h, n)  == h \div Size(n)
IsBucket(s) == s.kind = "chain"

(* Results of the functions below: the slot afterwards, what is returned,  *)
(* lhq->value, and the allocator.                                          *)
Result(s, ret, value, mem) == [slot |-> s, ret |-> ret, value |-> value, mem |-> mem]
Got(mem)      == [left |-> mem.left - 1, held |-> mem.held + 1]
Gave(mem, n)  == [mem EXCEPT !.held = @ - n]
Chain(s)      == [kind |-> "chain", buckets |-> s]

(* njs_lvlhsh_new_bucket(), at the end of the chain s.                     *)
NewBucket(s, q, mem) ==
    LET bucket == [count |-> 1,
                   cells |-> [i \in 1..Capacity |-> IF i = 1 THEN Cell(q) ELSE Unwritten]]
    IN  IF mem.left = 0 THEN Result(IF s = <<>> THEN Null ELSE Chain(s), "ERROR", q.value, mem)
        ELSE Result(Chain(Append(s, bucket)), "OK", q.value, Got(mem))

(* The cells that a scan of a bucket reads: up to the last one in use.     *)
Scanned(b) ==
    LET full(i) == Cardinality({j \in 1..i : b.cells[j].used}) = b.count
    IN  1..(CHOOSE i \in 1..Capacity : full(i) /\ \A j \in 1..i - 1 : ~full(j))

(* Where an entry of the key is in a chain: pairs of bucket and cell.      *)
Places(s, k) ==
    {p \in (1..Len(s)) \X (1..Capacity) :
        p[2] \in Scanned(s[p[1]]) /\ s[p[1]].cells[p[2]].used
        /\ s[p[1]].cells[p[2]].key = k}

Before(p, q) == p[1] < q[1] \/ (p[1] = q[1] /\ p[2] < q[2])
First(S)     == CHOOSE p \in S : \A q \in S \ {p} : Before(p, q)

(* njs_lvlhsh_bucket_find().                                               *)
BucketFind(s, k) ==
    IF Places(s, k) = {} THEN Null
    ELSE LET p == First(Places(s, k)) IN s[p[1]].cells[p[2]].value

(* njs_lvlhsh_find(), njs_lvlhsh_level_find().                             *)
RECURSIVE LevelFind(_, _, _, _)
LevelFind(s, k, h, n) ==
    IF s = Null THEN Null
    ELSE IF IsBucket(s) THEN BucketFind(s.buckets, k)
    ELSE LevelFind(s.slots[Index(h, n)], k, Rest(h, n), n + 1)
Find(s, k) == LevelFind(s, k, Hash[k], 1)

(* A hole in the cells that are in use, or the cell after them.            *)
Vacant(s) ==
    {p \in (1..Len(s)) \X (1..Capacity) :
        \/ p[2] \in Scanned(s[p[1]]) /\ ~s[p[1]].cells[p[2]].used
        \/ p[2] = Cardinality(Scanned(s[p[1]])) + 1}

(* njs_lvlhsh_convert_bucket_to_level(): the entries of the last bucket    *)
(* move to a new level.  If memory runs out all that was built is freed.   *)
(* At most Capacity entries go to one slot, which is one bucket.           *)
ConvertBucketToLevel(s, n, mem) ==
    LET cells   == s[Len(s)].cells
        skipped == LET sum[i \in 0..n - 1] == IF i = 0 THEN 0 ELSE sum[i - 1] + Shift[i]
                   IN  sum[n - 1]
        at(i)   == Index(Hash[cells[i].key] \div 2 ^ skipped, n)
        to(j)   == {i \in 1..Capacity : at(i) = j}
        taken   == {j \in 0..Size(n) - 1 : to(j) # {}}
        nth(j, m) == CHOOSE i \in to(j) : Cardinality({x \in to(j) : x <= i}) = m
        bucket(j) == [count |-> Cardinality(to(j)),
                      cells |-> [m \in 1..Capacity |-> IF m <= Cardinality(to(j))
                                                       THEN cells[nth(j, m)] ELSE Unwritten]]
        level   == [kind |-> "level", count |-> Cardinality(taken),
                    slots |-> [j \in 0..Size(n) - 1 |-> IF j \in taken
                                                        THEN Chain(<<bucket(j)>>) ELSE Null]]
        need    == 1 + Cardinality(taken)
    IN  IF mem.left < need
        THEN Result(Chain(s), "ERROR", Null, [mem EXCEPT !.left = 0])
        ELSE Result(level, "OK", Null,
                    [left |-> mem.left - need, held |-> mem.held + need - 1])

(* njs_lvlhsh_insert(): njs_lvlhsh_level_insert() and, where the slot is a *)
(* chain, njs_lvlhsh_bucket_insert().  h is what is left of the hash, n    *)
(* the number of the level.                                                *)
RECURSIVE LevelInsert(_, _, _, _, _)

BucketInsert(s, q, h, n, mem) ==
    LET p == First(Places(s, q.key))
        v == First(Vacant(s))
        converted == ConvertBucketToLevel(s, n, mem)
    IN  IF Places(s, q.key) # {}
        THEN LET old == s[p[1]].cells[p[2]].value
             IN  IF q.replace
                 THEN Result(Chain([s EXCEPT ![p[1]].cells[p[2]].value = q.value]), "OK", old, mem)
                 ELSE Result(Chain(s), "DECLINED", old, mem)
        ELSE IF Vacant(s) # {}
        THEN Result(Chain([s EXCEPT ![v[1]].cells[v[2]] = Cell(q), ![v[1]].count = @ + 1]),
                    "OK", q.value, mem)
        ELSE IF Shift[n] = 0 THEN NewBucket(s, q, mem)
        ELSE IF converted.ret # "OK" THEN converted
        ELSE LevelInsert(converted.slot, q, h, n, converted.mem)

LevelInsert(s, q, h, n, mem) ==
    IF s = Null THEN NewBucket(<<>>, q, mem)
    ELSE IF IsBucket(s) THEN BucketInsert(s.buckets, q, h, n, mem)
    ELSE LET i == Index(h, n)
             r == LevelInsert(s.slots[i], q, Rest(h, n), n + 1, mem)
             new == s.slots[i] = Null /\ r.ret = "OK"
         IN  [r EXCEPT !.slot = [s EXCEPT !.slots[i] = r.slot,
                                          !.count = IF new THEN @ + 1 ELSE @]]

(* njs_lvlhsh_bucket_delete().                                             *)
BucketDelete(s, k, mem) ==
    LET p == First(Places(s, k))
        rest == [i \in 1..Len(s) - 1 |-> IF i < p[1] THEN s[i] ELSE s[i + 1]]
    IN  IF Places(s, k) = {} THEN Result(Chain(s), "DECLINED", Null, mem)
        ELSE IF s[p[1]].count = 1
        THEN Result(IF rest = <<>> THEN Null ELSE Chain(rest), "OK",
                    s[p[1]].cells[p[2]].value, Gave(mem, 1))
        ELSE Result(Chain([s EXCEPT ![p[1]].count = @ - 1, ![p[1]].cells[p[2]] = Free]), "OK",
                    s[p[1]].cells[p[2]].value, mem)

(* njs_lvlhsh_delete(), njs_lvlhsh_level_delete().  The number of slots in *)
(* use is kept in Shift[n] bits of the pointer to the level: a full level  *)
(* reads as an empty one, and is never asked.                              *)
RECURSIVE LevelDelete(_, _, _, _, _)
LevelDeleteCountsEntries(s, k, h, n, mem) ==                     \* mutant
    IF s = Null THEN Result(Null, "DECLINED", Null, mem)
    ELSE IF IsBucket(s) THEN BucketDelete(s.buckets, k, mem)
    ELSE LET i == Index(h, n)
             r == LevelDelete(s.slots[i], k, Rest(h, n), n + 1, mem)
             left == IF r.ret = "OK" THEN s.count - 1 ELSE s.count
         IN  IF r.ret = "OK" /\ left % Size(n) = 0
             THEN [r EXCEPT !.slot = Null, !.mem = Gave(@, 1)]
             ELSE [r EXCEPT !.slot = [s EXCEPT !.slots[i] = r.slot, !.count = left]]

LevelDelete(s, k, h, n, mem) ==
    IF s = Null THEN Result(Null, "DECLINED", Null, mem)
    ELSE IF IsBucket(s) THEN BucketDelete(s.buckets, k, mem)
    ELSE LET i == Index(h, n)
             r == LevelDelete(s.slots[i], k, Rest(h, n), n + 1, mem)
             emptied == s.slots[i] # Null /\ r.slot = Null
             left == IF emptied THEN s.count - 1 ELSE s.count
         IN  IF emptied /\ left % Size(n) = 0
             THEN [r EXCEPT !.slot = Null, !.mem = Gave(@, 1)]
             ELSE [r EXCEPT !.slot = [s EXCEPT !.slots[i] = r.slot, !.count = left]]

-----------------------------------------------------------------------------
(* njs_lvlhsh_each(): the iterator remembers the path to the slot it is in *)
(* as the bits of current, and the bucket of that slot: Null before it is  *)
(* entered, "done" after its last entry.                                   *)

Start == [current |-> 0, bucket |-> Null, entries |-> 0, entry |-> 1]

(* njs_lvlhsh_bucket_each(): bucket is what is left of the chain.          *)
BucketEach(it) ==
    LET b == it.bucket[1]
        i == CHOOSE j \in it.entry..Capacity :
                b.cells[j].used /\ \A x \in it.entry..j - 1 : ~b.cells[x].used
        more == Tail(it.bucket)
    IN  [value |-> b.cells[i],
         it |-> IF it.entries > 1 THEN [it EXCEPT !.entries = @ - 1, !.entry = i + 1]
                ELSE [it EXCEPT !.bucket = IF more = <<>> THEN "done" ELSE more,
                                !.entries = IF more = <<>> THEN 0 ELSE more[1].count,
                                !.entry = 1]]

Enter(it, chain) == [it EXCEPT !.bucket = chain, !.entries = chain[1].count, !.entry = 1]

RECURSIVE LevelEach(_, _, _, _)
LevelEach(it, lvl, n, shift) ==
    LET unit  == 2 ^ shift
        i     == (it.current \div unit) % Size(n)
        s     == lvl.slots[i]
        inner == IF s = Null THEN [value |-> Null, it |-> it]
                 ELSE IF IsBucket(s)
                 THEN IF it.bucket # "done" THEN BucketEach(Enter(it, s.buckets))
                      ELSE [value |-> Null, it |-> [it EXCEPT !.bucket = Null]]
                 ELSE LevelEach(it, s, n + 1, shift + Shift[n])
        i2    == (i + 1) % Size(n)
        moved == [inner.it EXCEPT !.current = @ - i * unit + i2 * unit]
    IN  IF inner.value # Null THEN inner
        ELSE IF i2 = 0 THEN [value |-> Null, it |-> moved]
        ELSE LevelEach(moved, lvl, n, shift)

Each(s, it) ==
    IF it.bucket = "done"
    THEN IF IsBucket(s) THEN [value |-> Null, it |-> it] ELSE LevelEach(it, s, 1, 0)
    ELSE IF it.bucket # Null THEN BucketEach(it)
    ELSE IF s = Null THEN [value |-> Null, it |-> it]
    ELSE IF IsBucket(s) THEN BucketEach(Enter(it, s.buckets))
    ELSE LevelEach(it, s, 1, 0)

RECURSIVE ListedFrom(_, _)
ListedFrom(s, it) ==
    LET e == Each(s, it)
    IN  IF e.value = Null THEN <<>> ELSE <<e.value>> \o ListedFrom(s, e.it)

-----------------------------------------------------------------------------
Mem(n) == [left |-> n, held |-> blocks]

(* A call fails only when it runs out of memory.                           *)
Returns(r, expected) ==
    /\ slot' = r.slot /\ blocks' = r.mem.held
    /\ answered' = (r.ret = "ERROR" \/ Answer(r.ret, r.value) = expected)

Inserted(r, k, v, replace) ==
    /\ Returns(r, IF k \notin DOMAIN map THEN Answer("OK", v)
                  ELSE Answer(IF replace THEN "OK" ELSE "DECLINED", map[k]))
    /\ map' = IF r.ret = "OK" THEN [x \in DOMAIN map \cup {k} |-> IF x = k THEN v ELSE map[x]] ELSE map

Insert(k, v, replace, allocations) ==
    Inserted(LevelInsert(slot, [key |-> k, value |-> v, replace |-> replace], Hash[k], 1, Mem(allocations)),
             k, v, replace)

Delete(k) ==
    /\ Returns(LevelDelete(slot, k, Hash[k], 1, Mem(0)),
               IF k \in DOMAIN map THEN Answer("OK", map[k]) ELSE Answer("DECLINED", Null))
    /\ map' = [x \in DOMAIN map \ {k} |-> map[x]]

Next ==
    \E k \in Keys :
        \/ \E v \in Values, replace \in BOOLEAN, n \in 0..MaxFailAt : Insert(k, v, replace, n)
        \/ Delete(k)

-----------------------------------------------------------------------------
(* Levels and buckets that the slot reaches; -1 if a count is wrong.       *)
RECURSIVE Blocks(_, _)
Blocks(s, n) ==
    IF s = Null THEN 0
    ELSE IF IsBucket(s) THEN Len(s.buckets)
    ELSE LET sum[i \in 0..Size(n)] ==
                 IF i = 0 THEN 1 ELSE sum[i - 1] + Blocks(s.slots[i - 1], n + 1)
         IN  sum[Size(n)]

Of(k) == IF k \in DOMAIN map THEN map[k] ELSE Null

(* The hash is the map that its callers think it is: every key finds the   *)
(* last value put in, calls return the old value, an iteration lists every *)
(* entry once and no garbage,                                              *)
(* and memory that is held is memory that the slot reaches, also after an  *)
(* insertion that ran out of memory in the middle of a conversion          *)
(* (njs_lvlhsh_find(), njs_lvlhsh_each(), njs_lvlhsh_free_level()).        *)
HashIsMap ==
    LET listed == ListedFrom(slot, Start)
    IN  /\ answered
        /\ \A k \in Keys : Find(slot, k) = Of(k)
        /\ Len(listed) = Cardinality(DOMAIN map)
        /\ {listed[i] : i \in 1..Len(listed)} =
              {[key |-> k, value |-> map[k], used |-> TRUE] : k \in DOMAIN map}
        /\ blocks = Blocks(slot, 1)

=============================================================================
