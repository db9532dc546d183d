------------------------------- MODULE Arrays -------------------------------
(***************************************************************************)
(* Arrays of njs_array.c.  An array is a block of cells of which those     *)
(* from start hold its elements: shift() moves start, unshift() puts       *)
(* elements in front of it, and a block that is too small is replaced.     *)
(* The methods also take an object with a length and indexes as names.     *)
(*                                                                         *)
(* The variable js is the same value as ECMAScript 5.1 sees it: a length   *)
(* and the indexes that exist.  Each action does what the code does to     *)
(* this, and what chapter 15.4.4 of the standard says to js.               *)
(***************************************************************************)
EXTENDS Integers, Sequences, FiniteSets, SequencesExt

CONSTANTS Values,       \* what elements may be, numbers for sort()
          MaxLength,    \* bound of the lengths that are tried
          Positions,    \* arguments that are positions, negative ones too
          Spare,        \* NJS_ARRAY_SPARE
          Large,        \* NJS_ARRAY_LARGE_OBJECT_LENGTH
          Hole,         \* an element that does not exist
          Garbage,      \* what a cell holds that was never written, or is not
                        \* in use any more
          Undefined,
          NoMemory,     \* the MemoryError exception
          Null

VARIABLES this,     \* the array or the object that the methods work on
          js,       \* history: what it is in ECMAScript
          loop,     \* the method that is calling user code, or Null
          agrees    \* history: every method returned what the standard says

vars == <<this, js, loop, agrees>>

Top == 2 * MaxLength + 2
Least(x, y) == IF x < y THEN x ELSE y
Most(x, y)  == IF x > y THEN x ELSE y

(* Lists are what new arrays are made of: functions from 0..n - 1.         *)
List(s)   == [i \in 0..Len(s) - 1 |-> s[i + 1]]
Length(l) == Cardinality(DOMAIN l)

IsArray(t) == t.kind = "array"
Size(a)    == Cardinality(DOMAIN a.cells)
Cell(a, i) == IF a.start + i \in DOMAIN a.cells THEN a.cells[a.start + i] ELSE Garbage

(* njs_array_alloc(), then the elements are stored.                        *)
Alloc(l, spare) ==
    [kind |-> "array", start |-> 0, length |-> Length(l),
     cells |-> [i \in 0..Length(l) + spare - 1 |-> IF i \in DOMAIN l THEN l[i] ELSE Garbage]]

(* njs_array_constructor() with a number, and with any other arguments, as *)
(* njs_array_of().                                                         *)
Constructed(n) == Alloc([i \in 0..n - 1 |-> Hole], Spare)
Of(s)          == Alloc(List(s), Spare)

ExpandByTotal(a, prepend, append, memory) ==                     \* mutant
    LET need == prepend + a.length + append
    IN  IF Size(a) >= need THEN a
        ELSE IF ~memory THEN NoMemory
        ELSE [a EXCEPT !.start = prepend, !.cells = [i \in 0..need * 2 - 1 |->
                 IF i \in prepend..prepend + a.length - 1 THEN a.cells[a.start + i - prepend]
                 ELSE Garbage]]

(* njs_array_expand(): the array with room before and after its elements,  *)
(* or NoMemory.                                                            *)
Expand(a, prepend, append, memory) ==
    LET before == a.start
        after  == Size(a) - a.length - before
        need   == prepend + a.length + append
        size   == IF need < 16 THEN need * 2 ELSE need + need \div 2
        place(i) == IF i \in prepend..prepend + a.length - 1
                    THEN a.cells[a.start + i - prepend] ELSE Garbage
    IN  IF before >= prepend /\ after >= append THEN a
        ELSE IF ~memory THEN NoMemory
        ELSE [a EXCEPT !.start = prepend, !.cells = [i \in 0..size - 1 |-> place(i)]]

(* What is left in cells that are not in use is written before it is read, *)
(* but by a method that calls user code in the middle.                     *)
Settle(t) ==
    IF ~IsArray(t) THEN t
    ELSE [t EXCEPT !.cells = [i \in DOMAIN @ |->
             IF i \in t.start..t.start + t.length - 1 THEN @[i] ELSE Garbage]]

(* Stores l from index at on.                                              *)
Store(a, at, l) ==
    [a EXCEPT !.cells = [c \in DOMAIN @ |->
        IF c - a.start - at \in DOMAIN l THEN l[c - a.start - at] ELSE @[c]]]

Result(t, ret) == [this |-> t, ret |-> ret]
Failed(t)      == Result(t, NoMemory)

-----------------------------------------------------------------------------
(* Properties of array-like objects, and elements read as properties.      *)

Has(o, i) == IF IsArray(o) THEN i < o.length /\ Cell(o, i) # Hole ELSE i \in DOMAIN o.props
Get(o, i) == IF ~Has(o, i) THEN Hole ELSE IF IsArray(o) THEN Cell(o, i) ELSE o.props[i]

PropertySet(o, i, v) ==
    [o EXCEPT !.props = [k \in DOMAIN @ \cup {i} |-> IF k = i THEN v ELSE @[k]]]
PropertyDelete(o, i) == [o EXCEPT !.props = [k \in DOMAIN @ \ {i} |-> @[k]]]

(* One turn of the loops that move elements of an object: an index that    *)
(* does not exist is skipped.                                              *)
Move(o, from, to) ==
    IF Has(o, from) THEN PropertySet(PropertyDelete(o, from), to, Get(o, from)) ELSE o

MoveAll(o, order, by) == FoldLeft(LAMBDA x, i : Move(x, i, i + by), o, order)
SetAll(o, at, s) ==
    FoldLeft(LAMBDA x, i : PropertySet(x, at + i - 1, s[i]), o, [i \in 1..Len(s) |-> i])

Up(m, n)   == [i \in 1..n - m + 1 |-> m + i - 1]
Down(m, n) == Reverse(Up(m, n))

(* njs_object_indexes(): the indexes of an object in order.                *)
Indexes(o) == SetToSortSeq({i \in 0..Top : Has(o, i)}, <)

(* The argument of a method as a position: negative ones count from the    *)
(* end.                                                                    *)
Position(n, length) == IF n < 0 THEN Most(length + n, 0) ELSE Least(n, length)

-----------------------------------------------------------------------------
(* The methods.  Each returns the value of this afterwards and its result. *)

(* An assignment to length (njs_array_length()).                           *)
LengthSet(a, n, memory) ==
    LET b == Expand(a, 0, n - a.length, memory)
        holes == [i \in 0..n - a.length - 1 |-> Hole]
    IN  IF n <= a.length THEN Result([a EXCEPT !.length = n], n)
        ELSE IF b = NoMemory THEN Failed(a)
        ELSE Result([Store(b, a.length, holes) EXCEPT !.length = n], n)

(* An assignment to an index (njs_array_property_query()).                 *)
IndexSet(t, i, v, memory) ==
    LET b == Expand(t, 0, i - t.length + 1, memory)
        holes == [k \in 0..i - t.length - 1 |-> Hole]
    IN  IF ~IsArray(t) THEN Result(PropertySet(t, i, v), v)
        ELSE IF i < t.length THEN Result(Store(t, i, List(<<v>>)), v)
        ELSE IF b = NoMemory THEN Failed(t)
        ELSE Result(Store([Store(b, t.length, holes) EXCEPT !.length = i + 1], i, List(<<v>>)), v)

IndexDelete(t, i) ==
    IF ~IsArray(t) THEN Result(PropertyDelete(t, i), TRUE)
    ELSE Result(IF i < t.length THEN Store(t, i, List(<<Hole>>)) ELSE t, TRUE)

(* njs_array_prototype_push(): room is asked for one element too many.     *)
PushOf(t, s, memory) ==
    LET b == Expand(t, 0, Len(s) + 1, memory)
        n == t.length + Len(s)
    IN  IF ~IsArray(t) THEN Result([SetAll(t, t.length, s) EXCEPT !.length = n], n)
        ELSE IF b = NoMemory THEN Failed(t)
        ELSE Result([Store(b, t.length, List(s)) EXCEPT !.length = n], n)

OrUndefined(v) == IF v = Hole THEN Undefined ELSE v

PopOf(t) ==
    IF t.length = 0 THEN Result(t, Undefined)
    ELSE LET last == t.length - 1
             cut  == IF IsArray(t) THEN t ELSE PropertyDelete(t, last)
         IN  Result([cut EXCEPT !.length = last], OrUndefined(Get(t, last)))

(* njs_array_prototype_unshift(): the arguments go in from the last one on.*)
UnshiftOf(t, s, memory) ==
    LET b == Expand(t, Len(s), 0, memory)
        n == t.length + Len(s)
        order == IF t.length > Large THEN Reverse(Indexes(t)) ELSE Down(0, t.length - 1)
    IN  IF s = <<>> THEN Result(t, n)
        ELSE IF ~IsArray(t)
        THEN Result([SetAll(MoveAll(t, order, Len(s)), 0, s) EXCEPT !.length = n], n)
        ELSE IF b = NoMemory THEN Failed(t)
        ELSE Result(Store([b EXCEPT !.start = @ - Len(s), !.length = n], 0, List(s)), n)

ShiftOf(t) ==
    IF t.length = 0 THEN Result(t, Undefined)
    ELSE LET n == t.length - 1
             first == OrUndefined(Get(t, 0))
         IN  IF IsArray(t) THEN Result([t EXCEPT !.start = @ + 1, !.length = n], first)
             ELSE Result([MoveAll(PropertyDelete(t, 0), Up(1, n), -1) EXCEPT !.length = n], first)

(* njs_array_prototype_splice(): what is deleted goes to a new array, the  *)
(* rest is moved in the block, the new elements are stored.                *)
SpliceOf(a, at, count, s, memory) ==
    LET start   == Position(at, a.length)
        delete  == IF count < 0 THEN 0 ELSE Least(count, a.length - start)
        deleted == [i \in 0..delete - 1 |-> Cell(a, start + i)]
        rest    == [i \in 0..a.length - start - delete - 1 |-> Cell(a, start + delete + i)]
        delta   == Len(s) - delete
        b       == IF delta > 0 THEN Expand(a, 0, delta, memory) ELSE a
        moved   == IF delta = 0 THEN a
                   ELSE [Store(b, start + Len(s), rest) EXCEPT !.length = @ + delta]
    IN  IF b = NoMemory THEN Failed(a)
        ELSE Result(Store(moved, start, List(s)), deleted)

ReverseOf(a) ==
    Result(Store(a, 0, [i \in 0..a.length - 1 |-> Cell(a, a.length - 1 - i)]), Null)

FillOf(t, v, from, to) ==
    LET start == Position(from, t.length)
        n     == Most(Position(to, t.length) - start, 0)
    IN  IF IsArray(t) THEN Result(Store(t, start, [i \in 0..n - 1 |-> v]), Null)
        ELSE Result(SetAll(t, start, [i \in 1..n |-> v]), Null)

(* njs_array_prototype_copy_within(), which goes backwards whenever from   *)
(* is before to.                                                           *)
CopyWithinOf(t, target, first, last) ==
    LET to    == Position(target, t.length)
        from  == Position(first, t.length)
        count == Most(Least(Position(last, t.length) - from, t.length - to), 0)
        order == IF from < to /\ from + count # 0 THEN Down(0, count - 1) ELSE Up(0, count - 1)
        copy(x, i) ==
            IF IsArray(x) THEN Store(x, to + i, List(<<Cell(x, from + i)>>))
            ELSE IF Has(x, from + i) THEN PropertySet(x, to + i, Get(x, from + i))
            ELSE PropertyDelete(x, to + i)
    IN  Result(FoldLeft(copy, t, order), Null)

(* njs_array_prototype_slice(), njs_array_prototype_slice_copy().          *)
SliceOf(t, from, to) ==
    LET start  == IF from < 0 THEN Most(from + t.length, 0) ELSE from
        end    == IF to < 0 THEN to + t.length ELSE to
        length == IF start >= t.length THEN 0
                  ELSE IF t.length >= end THEN Most(end - start, 0) ELSE t.length - start
    IN  Result(t, [i \in 0..length - 1 |-> IF IsArray(t) THEN Cell(t, start + i)
                                           ELSE Get(t, start + i)])

(* njs_array_prototype_concat() with another array, then with a value.     *)
ConcatOf(t, l, v) ==
    LET n == IF IsArray(t) THEN t.length ELSE 1
    IN  Result(t, [i \in 0..n + Length(l) |->
                      IF i < n THEN IF IsArray(t) THEN Cell(t, i) ELSE Null
                      ELSE IF i < n + Length(l) THEN l[i - n] ELSE v])

(* njs_array_prototype_index_of(), _last_index_of(), _includes().  Large   *)
(* objects are searched by their indexes; what is found there is the       *)
(* number of the index in that list.                                       *)
Found(S, none, least) ==
    IF S = {} THEN none ELSE CHOOSE i \in S : \A j \in S : IF least THEN i <= j ELSE i >= j

IndexOfOf(t, v, from) ==
    LET start == Position(from, t.length)
        large == ~IsArray(t) /\ t.length - start > Large
        keys  == Indexes(t)
    IN  Result(t, IF large
                  THEN Found({i - 1 : i \in {j \in 1..Len(keys) :
                          keys[j] \in start..t.length /\ t.props[keys[j]] = v}}, -1, TRUE)
                  ELSE Found({i \in start..t.length - 1 : Get(t, i) = v}, -1, TRUE))

LastIndexOfOf(t, v, from) ==
    LET start == IF from >= 0 THEN Least(from, t.length - 1) ELSE from + t.length
    IN  Result(t, IF t.length = 0 \/ (from < 0 /\ start <= 0) THEN -1
                  ELSE Found({i \in 0..start : Get(t, i) = v}, -1, FALSE))

IncludesOf(t, v, from) ==
    Result(t, \E i \in (IF from < 0 THEN Most(from + t.length, 0) ELSE from)..t.length - 1 :
                 OrUndefined(Get(t, i)) = v)

-----------------------------------------------------------------------------
(* The same methods in ECMAScript: the new length, and for each index what *)
(* it holds afterwards.                                                    *)

Made(length, At(_)) ==
    [length |-> length, props |-> [i \in {k \in 0..Top : At(k) # Hole} |-> At(i)]]
E(k)   == IF k \in DOMAIN js.props THEN js.props[k] ELSE Hole
N      == js.length
Sub(m, n) == [i \in 0..n - m - 1 |-> E(m + i)]

View(t) ==
    IF IsArray(t) THEN Made(t.length, LAMBDA k : Get(t, k))
    ELSE [length |-> t.length, props |-> t.props]

(* The outcome of a method against what the standard says: if memory runs  *)
(* out nothing has changed.                                                *)
Does(result, standard, ret) ==
    /\ loop = Null /\ UNCHANGED loop
    /\ this' = Settle(result.this)
    /\ js' = IF result.ret = NoMemory THEN js ELSE standard
    /\ agrees' = (agrees /\ result.ret \in {ret, NoMemory})

Answers(result, ret) == Does(result, js, ret)

Args == UNION {[1..n -> Values] : n \in 0..2}

SetLength(n, memory) ==
    /\ IsArray(this)
    /\ Does(LengthSet(this, n, memory), Made(n, LAMBDA k : IF k < n THEN E(k) ELSE Hole), n)

SetIndex(i, v, memory) ==
    /\ IsArray(this) \/ i < N
    /\ Does(IndexSet(this, i, v, memory),
            Made(Most(N, i + 1), LAMBDA k : IF k = i THEN v ELSE E(k)), v)

Deleted(i) == Made(N, LAMBDA k : IF k = i THEN Hole ELSE E(k))
DeleteIndex(i) == Does(IndexDelete(this, i), Deleted(i), TRUE)

Pushed(s) == Made(N + Len(s), LAMBDA k : IF k \in N..N + Len(s) - 1 THEN s[k - N + 1] ELSE E(k))
Popped == IF N = 0 THEN js ELSE Made(N - 1, LAMBDA k : IF k = N - 1 THEN Hole ELSE E(k))
Shifted == IF N = 0 THEN js ELSE Made(N - 1, LAMBDA k : IF k < N - 1 THEN E(k + 1) ELSE Hole)

Push(s, memory) ==
    /\ N + Len(s) <= MaxLength
    /\ Does(PushOf(this, s, memory), Pushed(s), N + Len(s))

Pop   == Does(PopOf(this), Popped, IF N = 0 THEN Undefined ELSE OrUndefined(E(N - 1)))
Shift == Does(ShiftOf(this), Shifted, IF N = 0 THEN Undefined ELSE OrUndefined(E(0)))

Unshifted(s) == Made(N + Len(s), LAMBDA k : IF k < Len(s) THEN s[k + 1] ELSE E(k - Len(s)))
Unshift(s, memory) ==
    /\ N + Len(s) <= MaxLength
    /\ Does(UnshiftOf(this, s, memory), Unshifted(s), N + Len(s))

Splice(at, count, s, memory) ==
    LET start  == Position(at, N)
        delete == Most(Least(count, N - start), 0)
        added  == Len(s) - delete
    IN  /\ IsArray(this) /\ N + added <= MaxLength
        /\ Does(SpliceOf(this, at, count, s, memory),
                Made(N + added, LAMBDA k : IF k < start THEN E(k)
                                           ELSE IF k < start + Len(s) THEN s[k - start + 1]
                                           ELSE E(k - added)),
                Sub(start, start + delete))

ReverseAll ==
    /\ IsArray(this)
    /\ Does(ReverseOf(this), Made(N, LAMBDA k : IF k < N THEN E(N - 1 - k) ELSE Hole), Null)

Fill(v, from, to) ==
    Does(FillOf(this, v, from, to),
         Made(N, LAMBDA k : IF k \in Position(from, N)..Position(to, N) - 1 THEN v ELSE E(k)), Null)

CopyWithin(target, first, last) ==
    LET to    == Position(target, N)
        from  == Position(first, N)
        count == Least(Position(last, N) - from, N - to)
    IN  Does(CopyWithinOf(this, target, first, last),
             Made(N, LAMBDA k : IF k \in to..to + count - 1 THEN E(from + k - to) ELSE E(k)), Null)

Slice(from, to) == Answers(SliceOf(this, from, to), Sub(Position(from, N), Position(to, N)))

Concat(l, v) ==
    /\ IsArray(this)
    /\ Answers(ConcatOf(this, l, v), [i \in 0..N + Length(l) |->
                  IF i < N THEN E(i) ELSE IF i < N + Length(l) THEN l[i - N] ELSE v])

(* An object that is large and has gaps is left out of indexOf().          *)
Dense == \A k \in DOMAIN js.props : \A i \in 0..k : i \in DOMAIN js.props

IndexOf(v, from) ==
    /\ IsArray(this) \/ N <= Large \/ Dense
    /\ Answers(IndexOfOf(this, v, from),
               Found({i \in Position(from, N)..N - 1 : E(i) = v}, -1, TRUE))

(* The code does not look at element 0 if fromIndex is the length negated. *)
LastIndexOf(v, from) ==
    /\ from # -N
    /\ Answers(LastIndexOfOf(this, v, from),
               Found({i \in 0..(IF from < 0 THEN N + from ELSE from) : i < N /\ E(i) = v}, -1, FALSE))

Includes(v, from) ==
    Answers(IncludesOf(this, v, from), \E i \in Position(from, N)..N - 1 : OrUndefined(E(i)) = v)

-----------------------------------------------------------------------------
(* Methods with a callback, which may change the array between two visits. *)
(* loop.at is the next index, loop.keys what is left of the list of        *)
(* indexes of a large object; loop.result what the method has gathered;    *)
(* loop.seen (history) the visits that the standard asks for.              *)

Methods == {"forEach", "some", "every", "filter", "find", "findIndex", "map", "reduce",
            "reduceRight"}
Backwards == loop.method = "reduceRight"

(* njs_array_validate_args() and the first part of map() and reduceRight().*)
StartLoop(method) ==
    /\ loop = Null
    /\ loop' = [method |-> method, length |-> this.length, at |-> 0, ended |-> FALSE,
                large |-> ~IsArray(this) /\ this.length > Large,
                keys |-> IF method = "reduceRight" THEN Reverse(Indexes(this)) ELSE Indexes(this),
                result |-> IF method = "map" THEN [i \in 0..this.length - 1 |-> Garbage]
                           ELSE <<>>,
                changed |-> "none", seen |-> <<>>]
    /\ UNCHANGED <<this, js, agrees>>

Index == IF loop.large THEN loop.keys[loop.at + 1]
         ELSE IF Backwards THEN loop.length - 1 - loop.at ELSE loop.at
More  == ~loop.ended /\ loop.at < (IF loop.large THEN Len(loop.keys) ELSE loop.length)

(* What njs_array_iterator(), njs_array_reverse_iterator() give to the     *)
(* handler: the latter reads the cell of the array whatever its length is. *)
Entry ==
    IF IsArray(this) /\ Backwards THEN Cell(this, Index) ELSE Get(this, Index)

(* The number that goes with it: in a large object not the index.          *)
Number == IF loop.large /\ ~Backwards THEN loop.at ELSE Index

CallsFor(method, entry) ==
    \/ entry # Hole
    \/ method \in {"find", "findIndex"}

(* The handlers njs_array_handler_*(): the result after the callback       *)
(* returned v, which is true or not, and whether the iteration is over.    *)
Handled(entry, v) ==
    LET r == loop.result
    IN  CASE loop.method = "filter" /\ v -> Append(r, entry)
          [] loop.method = "map" -> [r EXCEPT ![Number] = v]
          [] loop.method \in {"reduce", "reduceRight"} -> Append(r, entry)
          [] loop.method = "some" /\ v -> <<TRUE>>
          [] loop.method = "every" /\ ~v -> <<FALSE>>
          [] loop.method = "find" /\ v -> <<OrUndefined(entry)>>
          [] loop.method = "findIndex" /\ v -> <<Number>>
          [] OTHER -> r

Over(v) == \/ loop.method \in {"some", "find", "findIndex"} /\ v
           \/ loop.method = "every" /\ ~v

(* What user code does to the array, and what this makes of it in          *)
(* ECMAScript.  In one loop the array changes once.                        *)
Changed(how, v) ==
    CASE how = "none"    -> this
      [] how = "pop"     -> PopOf(this).this
      [] how = "shift"   -> ShiftOf(this).this
      [] how = "push"    -> PushOf(this, <<v>>, TRUE).this
      [] how = "unshift" -> UnshiftOf(this, <<v>>, TRUE).this
      [] how = "delete"  -> IndexDelete(this, this.length - 1).this

ChangedView(how, v) ==
    CASE how = "none"    -> js
      [] how = "pop"     -> Popped
      [] how = "shift"   -> Shifted
      [] how = "push"    -> Pushed(<<v>>)
      [] how = "unshift" -> Unshifted(<<v>>)
      [] how = "delete"  -> Deleted(N - 1)

Changes ==
    IF loop.changed # "none" THEN {"none"}
    ELSE {"none", "pop", "shift"} \cup (IF this.length > 0 THEN {"delete"} ELSE {})
            \cup (IF this.length < MaxLength THEN {"push", "unshift"} ELSE {})

Noted(how) == IF how = "none" THEN loop.changed ELSE how

(* reduceRight() goes on to the elements that its callback cut off.        *)
Stale == IsArray(this) /\ Backwards /\ Index >= N /\ loop.changed \in {"pop", "shift"}

Calling == loop # Null /\ loop.method \in Methods

(* A reduction without a first value takes it from the first element; this *)
(* one and the callback, which adds entries to a list, are the same here.  *)
Verdicts == IF loop.method \in {"forEach", "reduce", "reduceRight"} THEN {TRUE} ELSE BOOLEAN

Visit ==
    /\ Calling /\ More
    /\ agrees' = (agrees /\ (Stale \/ (Entry = E(Index))))
    /\ IF CallsFor(loop.method, Entry)
       THEN \E result \in Verdicts, how \in Changes, v \in Values :
               /\ this' = Changed(how, v) /\ js' = ChangedView(how, v)
               /\ loop' = [loop EXCEPT !.at = @ + 1, !.ended = Over(result), !.changed = Noted(how),
                              !.result = Handled(Entry, result),
                              !.seen = Append(@, <<Index, Entry, result>>)]
       ELSE /\ loop' = [loop EXCEPT !.at = @ + 1,
                           !.result = IF loop.method = "map"
                                      THEN [@ EXCEPT ![Number] = Hole] ELSE @]
            /\ UNCHANGED <<this, js>>

(* What the method returns; map() makes holes of the results that are      *)
(* beyond the array's length now.                                          *)
Returned ==
    LET r == loop.result
    IN  CASE loop.method = "some" /\ r = <<>> -> <<FALSE>>
          [] loop.method = "every" /\ r = <<>> -> <<TRUE>>
          [] loop.method = "find" /\ r = <<>> -> <<Undefined>>
          [] loop.method = "findIndex" /\ r = <<>> -> <<-1>>
          [] loop.method = "map" /\ IsArray(this) ->
                [i \in DOMAIN r |-> IF i >= this.length THEN Hole ELSE r[i]]
          [] loop.method = "map" /\ loop.large ->
                [i \in DOMAIN r |-> IF r[i] = Garbage THEN Hole ELSE r[i]]
          [] OTHER -> r

(* And what it should return after the visits that it made.                *)
Standard ==
    LET s == loop.seen
        last == s[Len(s)]
        hit == s # <<>> /\ Over(last[3])
        entries(t) == [i \in 1..Len(t) |-> t[i][2]]
        of(i) == {k \in 1..Len(s) : s[k][1] = i}
    IN  CASE loop.method = "some" -> <<hit>>
          [] loop.method = "every" -> <<~hit>>
          [] loop.method = "find" -> <<IF hit THEN OrUndefined(last[2]) ELSE Undefined>>
          [] loop.method = "findIndex" -> <<IF hit THEN last[1] ELSE -1>>
          [] loop.method = "filter" -> entries(SelectSeq(s, LAMBDA x : x[3]))
          [] loop.method = "map" ->
                [i \in 0..loop.length - 1 |->
                    IF of(i) = {} \/ (IsArray(this) /\ i >= N) THEN Hole
                    ELSE s[CHOOSE k \in of(i) : TRUE][3]]
          [] loop.method \in {"reduce", "reduceRight"} -> entries(s)
          [] OTHER -> <<>>

(* Where a large object has gaps, Number is not the index.                 *)
Renumbered == loop.large /\ ~Backwards /\ loop.keys # Up(0, Len(loop.keys) - 1)

EndLoop ==
    /\ Calling /\ ~More
    /\ agrees' = (agrees /\ (Returned = Standard \/ Renumbered))
    /\ loop' = Null /\ this' = Settle(this)
    /\ UNCHANGED js

-----------------------------------------------------------------------------
(* njs_array_prototype_sort(), an insertion sort: index is the element that *)
(* is sinking, current the last one that was inserted.  The address of the *)
(* first element is kept (start) while the comparison function runs, the   *)
(* length is read again.  When a cell is touched that is not in the block, *)
(* or the block was replaced meanwhile, sort has gone astray: what follows *)
(* is not modelled.                                                        *)

Stop(a, l, step) == [this |-> a, loop |-> [l EXCEPT !.step = step]]

At(a, l, n) ==
    IF ~l.freed /\ l.start + n \in DOMAIN a.cells THEN a.cells[l.start + n] ELSE Garbage

(* From element n to the next comparison: a hole sinks by itself.          *)
RECURSIVE Sunk(_, _, _)
Sunk(a, l, n) ==
    LET x == At(a, l, n)
        y == At(a, l, n - 1)
        next == l.current + 1
        swapped == [a EXCEPT !.cells[l.start + n] = y, !.cells[l.start + n - 1] = x]
    IN  CASE n > 0 /\ (x = Garbage \/ (x # Hole /\ y = Garbage)) -> Stop(a, l, "astray")
          [] n > 0 /\ x # Hole /\ y = Hole -> Sunk(swapped, l, n - 1)
          [] n > 0 /\ x # Hole /\ y # Hole /\ y # Garbage ->
                [this |-> a, loop |-> [l EXCEPT !.index = n]]
          [] n = 0 \/ x = Hole ->
                IF next < a.length THEN Sunk(a, [l EXCEPT !.current = next], next)
                ELSE Stop(a, l, "ended")

Swap(a, l, n) ==
    IF At(a, l, n) = Garbage \/ At(a, l, n - 1) = Garbage THEN Stop(a, l, "astray")
    ELSE Sunk([a EXCEPT !.cells[l.start + n] = a.cells[l.start + n - 1],
                        !.cells[l.start + n - 1] = a.cells[l.start + n]], l, n - 1)

(* Whether the block of the array is replaced.                             *)
Moves(how) ==
    \/ how = "push" /\ Expand(this, 0, 2, TRUE) # this
    \/ how = "unshift" /\ Expand(this, 1, 0, TRUE) # this

StartSort(order) ==
    /\ loop = Null /\ IsArray(this) /\ N > 0
    /\ LET begin == [method |-> "sort", step |-> "compare", order |-> order, start |-> this.start,
                     index |-> 0, current |-> 0, changed |-> "none", freed |-> FALSE]
           s == Sunk(this, begin, 0)
       IN  this' = s.this /\ loop' = s.loop
    /\ UNCHANGED <<js, agrees>>

(* Calls of the comparison function: it may have one of two orders, or     *)
(* answer at random; what is no number ends the sort, as an exception.     *)
Verdict(x, y) ==
    CASE loop.order = "up"   -> {IF y > x THEN "after" ELSE "not after"}
      [] loop.order = "down" -> {IF y < x THEN "after" ELSE "not after"}
      [] loop.order = "any"  -> {"after", "not after", "no number"}

Compare ==
    /\ loop # Null /\ loop.method = "sort" /\ loop.step = "compare"
    /\ \E how \in Changes, v \in Values :
          LET a == Changed(how, v)
              l == [loop EXCEPT !.changed = Noted(how), !.freed = @ \/ Moves(how)]
              x == this.cells[loop.start + loop.index]
              y == this.cells[loop.start + loop.index - 1]
          IN  \E answer \in Verdict(x, y) :
                 LET s == CASE answer = "after"     -> Swap(a, l, l.index)
                            [] answer = "not after" -> Sunk(a, l, 0)
                            [] answer = "no number" -> Stop(a, l, "ended")
                 IN  this' = s.this /\ loop' = s.loop
    /\ UNCHANGED <<js, agrees>>

(* The standard leaves the order open if the function is inconsistent, and *)
(* everything if it changes the array.                                     *)
InOrder ==
    LET there   == {k \in 0..N - 1 : E(k) # Hole}
        before(i, k) == IF loop.order = "up" THEN E(i) < E(k) ELSE E(i) > E(k)
        rank(k) == Cardinality({i \in there : before(i, k) \/ (E(i) = E(k) /\ i < k)})
    IN  Made(N, LAMBDA k : IF k < Cardinality(there)
                           THEN E(CHOOSE i \in there : rank(i) = k) ELSE Hole)

Permuted ==
    /\ this.length = N
    /\ \A v \in Values : Cardinality({k \in 0..N - 1 : E(k) = v}) =
                         Cardinality({k \in 0..N - 1 : Get(this, k) = v})

EndSort ==
    /\ loop # Null /\ loop.method = "sort" /\ loop.step = "ended"
    /\ this' = Settle(this) /\ loop' = Null
    /\ js' = IF loop.changed = "none" /\ loop.order # "any" THEN InOrder ELSE View(this)
    /\ agrees' = (agrees /\ (loop.changed = "none" => Permuted))

-----------------------------------------------------------------------------
(* njs_array_prototype_join(): the elements that are not strings are       *)
(* counted and copied to a list (values); the first pass over the array    *)
(* converts those of the list and adds up the sizes, the second copies the *)
(* strings to a buffer of that size.  Both read the array as it is then.   *)
(* A string is a number, its size.  Beyond the list or the buffer, or with *)
(* a value that is still to be converted, join has gone astray.            *)

Empty == {Hole, Undefined}

(* The strings that the standard puts together.                            *)
JoinedView ==
    [i \in 1..N |->
        IF E(i - 1) \in Empty THEN 0 ELSE IF E(i - 1) \in loop.strings THEN E(i - 1)
        ELSE loop.given[CHOOSE k \in 1..Len(loop.given) : loop.given[k][1] = i - 1][2]]

StartJoin(strings) ==
    /\ loop = Null /\ IsArray(this) /\ N > 0
    /\ loop' = [method |-> "join", step |-> "convert", strings |-> strings, at |-> 0,
                room |-> Cardinality({i \in 0..N - 1 : Cell(this, i) \notin strings \cup Empty}),
                values |-> <<>>, size |-> 0, changed |-> "none", given |-> <<>>]
    /\ UNCHANGED <<this, js, agrees>>

Convert ==
    /\ loop # Null /\ loop.method = "join" /\ loop.step = "convert" /\ loop.at < this.length
    /\ LET v == Cell(this, loop.at)
       IN  \/ /\ v \in loop.strings \cup Empty
              /\ loop' = [loop EXCEPT !.at = @ + 1, !.size = @ + (IF v \in Empty THEN 0 ELSE v)]
              /\ UNCHANGED <<this, js>>
           \/ /\ v \notin loop.strings \cup Empty /\ Len(loop.values) = loop.room
              /\ loop' = [loop EXCEPT !.step = "astray"]
              /\ UNCHANGED <<this, js>>
           \/ /\ v \notin loop.strings \cup Empty /\ Len(loop.values) < loop.room
              /\ \E text, w \in Values, how \in Changes :
                    /\ this' = Changed(how, w) /\ js' = ChangedView(how, w)
                    /\ loop' = [loop EXCEPT !.at = @ + 1, !.values = Append(@, text),
                                   !.size = @ + text, !.changed = Noted(how),
                                   !.given = Append(@, <<loop.at, text>>)]
    /\ UNCHANGED agrees

(* A conversion throws.                                                    *)
ConvertFails ==
    /\ loop # Null /\ loop.method = "join" /\ loop.step = "convert" /\ loop.at < this.length
    /\ Cell(this, loop.at) \notin loop.strings \cup Empty
    /\ loop' = Null /\ this' = Settle(this)
    /\ UNCHANGED <<js, agrees>>

EndJoin ==
    /\ loop # Null /\ loop.method = "join" /\ loop.step = "convert" /\ loop.at >= this.length
    /\ LET elements == [i \in 1..this.length |-> Cell(this, i - 1)]
           other(i) == elements[i] \notin loop.strings \cup Empty
           nth(i)   == Cardinality({k \in 1..i : other(k)})
           piece(i) == IF elements[i] \in Empty THEN 0
                       ELSE IF other(i) THEN loop.values[nth(i)] ELSE elements[i]
           copied   == FoldLeft(LAMBDA size, i : size + piece(i), 0, Up(1, this.length))
       IN  IF nth(this.length) > Len(loop.values) \/ copied > loop.size
           THEN loop' = [loop EXCEPT !.step = "astray"] /\ UNCHANGED <<this, agrees>>
           ELSE /\ loop' = Null /\ this' = Settle(this)
                /\ agrees' = (agrees /\ (loop.changed = "none" =>
                                  /\ [i \in 1..this.length |-> piece(i)] = JoinedView
                                  /\ copied = loop.size))
    /\ UNCHANGED js

(* Nothing is known of what follows.                                       *)
Astray == loop # Null /\ loop.method \in {"sort", "join"} /\ loop.step = "astray"
StayAstray == Astray /\ UNCHANGED vars

-----------------------------------------------------------------------------
Objects == [kind : {"object"}, length : {MaxLength},
            props : UNION {[S -> Values] : S \in SUBSET (0..MaxLength - 1)}]

Init ==
    /\ this \in {Constructed(n) : n \in 0..MaxLength} \cup {Of(s) : s \in Args} \cup Objects
    /\ js = View(this)
    /\ loop = Null /\ agrees = TRUE

Next ==
    \/ \E memory \in BOOLEAN :
          \/ \E n \in 0..MaxLength : SetLength(n, memory)
          \/ \E i \in 0..MaxLength - 1, v \in Values : SetIndex(i, v, memory)
          \/ \E s \in Args : Push(s, memory) \/ Unshift(s, memory)
          \/ \E at, count \in Positions, s \in Args : Splice(at, count, s, memory)
    \/ \E i \in 0..MaxLength - 1 : DeleteIndex(i)
    \/ Pop \/ Shift \/ ReverseAll
    \/ \E from, to \in Positions :
          \/ Slice(from, to)
          \/ \E v \in Values : Fill(v, from, to)
          \/ \E target \in Positions : CopyWithin(target, from, to)
    \/ \E s \in Args, v \in Values : Concat(List(s), v)
    \/ \E strings \in SUBSET Values : StartJoin(strings)
    \/ \E order \in {"up", "down", "any"} : StartSort(order)
    \/ \E v \in Values, from \in Positions : IndexOf(v, from) \/ LastIndexOf(v, from) \/ Includes(v, from)
    \/ \E method \in Methods : StartLoop(method)
    \/ Visit \/ EndLoop \/ Compare \/ EndSort
    \/ Convert \/ ConvertFails \/ EndJoin \/ StayAstray

-----------------------------------------------------------------------------
(* Whatever sequence of methods, with user code that changes the array in  *)
(* the middle of one and expansions that run out of memory, the elements   *)
(* are where the block says they are and what the standard says they are,  *)
(* and methods return what it says (njs_array_expand() and the methods     *)
(* that move start, length and cells).  Three methods are not up to user   *)
(* code that changes the array, and this much is said of them: sort() goes *)
(* outside the block it started in only if the array grew; join() outside  *)
(* its list or its buffer only if the array grew or was shifted; only      *)
(* reduceRight() gets elements that its callback has cut off (Stale).      *)
ArraysAsStandard ==
    /\ View(this) = js \/ (loop # Null /\ loop.method = "sort")
    /\ agrees
    /\ IsArray(this) => /\ this.start >= 0
                        /\ this.start + this.length <= Size(this)
    /\ Astray => loop.changed \in {"push", "unshift"}
                    \cup (IF loop.method = "join" THEN {"shift"} ELSE {})

=============================================================================
