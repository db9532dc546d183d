------------------------------- MODULE Lists -------------------------------
(***************************************************************************)
(* The doubly linked queues of njs_queue.h and the growing arrays of       *)
(* njs_arr.c.  A queue is a circle of links through its head.  An array of *)
(* items is in a block of the memory pool: its own, one that the caller    *)
(* gave, or the one that holds its header.                                 *)
(***************************************************************************)
EXTENDS Integers, Sequences, FiniteSets, SequencesExt

CONSTANTS Links,        \* elements of queues
          Rank,         \* Rank[l]: what the comparison callback compares
          Queue,        \* the head of the queue
          MaxItems,     \* bound of the array, far below its limit of 65535
          Null

VARIABLES links,        \* the fields prev and next of links and heads
          list,         \* history: the elements in order
          middle,       \* what njs_queue_middle() returned last, and of which list
          arr,          \* an njs_arr_t, or Null
          held,         \* blocks of the pool that are allocated
          items         \* history: the items that callers put in

vars == <<links, list, middle, arr, held, items>>

All == Links \cup {Queue}

(* njs_queue_init().                                                       *)
Init ==
    /\ links = [prev |-> [x \in All |-> IF x = Queue THEN x ELSE Null],
                next |-> [x \in All |-> IF x = Queue THEN x ELSE Null]]
    /\ list = <<>> /\ middle = Null
    /\ arr = Null /\ held = {} /\ items = <<>>

InsertAfter(q, target, l) ==
    LET after == q.next[target]
    IN  [q EXCEPT !.next[l] = after, !.prev[after] = l, !.prev[l] = target, !.next[target] = l]

InsertBefore(q, target, l) ==
    LET before == q.prev[target]
    IN  [q EXCEPT !.next[l] = target, !.prev[l] = before, !.prev[target] = l, !.next[before] = l]

Unlinked(q, l) ==
    [[q EXCEPT !.prev[q.next[l]] = q.prev[l], !.next[q.prev[l]] = q.next[l]]
        EXCEPT !.prev[l] = Null, !.next[l] = Null]

(* njs_queue_middle() of a queue that is not empty.                        *)
RECURSIVE Middle(_, _, _)
Middle(q, mid, ahead) ==
    LET one == q.next[ahead]
        last == q.prev[Queue]
    IN  IF ahead = last THEN mid
        ELSE IF last \in {one, q.next[one]} THEN q.next[mid]
        ELSE Middle(q, q.next[mid], q.next[one])

(* njs_queue_sort(): each link is taken out and put after the first one    *)
(* before it that is not greater.                                          *)
RECURSIVE BackPastEqual(_, _, _)
BackPastEqual(q, prev, l) ==                                     \* mutant
    IF prev = Queue \/ Rank[prev] < Rank[l] THEN prev ELSE BackPastEqual(q, q.prev[prev], l)

RECURSIVE Back(_, _, _)
Back(q, prev, l) ==
    IF prev = Queue \/ Rank[prev] <= Rank[l] THEN prev ELSE Back(q, q.prev[prev], l)

RECURSIVE Sorted(_, _)
Sorted(q, l) ==
    LET out == Unlinked(q, l)
    IN  IF l = Queue THEN q
        ELSE Sorted(InsertAfter(out, Back(out, q.prev[l], l), l), q.next[l])

QueueOnly == UNCHANGED <<arr, held, items>>

InsertHead(l) ==
    /\ l \notin ToSet(list) /\ links' = InsertAfter(links, Queue, l)
    /\ list' = <<l>> \o list
    /\ middle' = Null /\ QueueOnly

InsertTail(l) ==
    /\ l \notin ToSet(list) /\ links' = InsertBefore(links, Queue, l)
    /\ list' = Append(list, l)
    /\ middle' = Null /\ QueueOnly

Take(i) ==
    /\ i \in 1..Len(list) /\ links' = Unlinked(links, list[i])
    /\ list' = RemoveAt(list, i)
    /\ middle' = Null /\ QueueOnly

Sort ==
    /\ Len(list) > 1
    /\ links' = Sorted(links, links.next[links.next[Queue]])
    /\ list' = SortSeq(list, LAMBDA x, y :
                   \/ Rank[x] < Rank[y]
                   \/ Rank[x] = Rank[y]
                      /\ \E i, j \in 1..Len(list) : i < j /\ list[i] = x /\ list[j] = y)
    /\ middle' = Null /\ QueueOnly

FindMiddle ==
    /\ list # <<>>
    /\ middle' = <<Middle(links, links.next[Queue], links.next[Queue]), list>>
    /\ UNCHANGED <<links, list>> /\ QueueOnly

-----------------------------------------------------------------------------
(* Blocks are named for what they hold.  The items are inside the block of *)
(* the header, in the caller's, or in one of their own.                    *)
ArrOnly == UNCHANGED <<links, list, middle>>
Header  == <<"header", 0>>
Inside  == <<"inside", 0>>
Given   == <<"given", 0>>
Fresh   == <<"items", IF <<"items", 0>> \in held THEN 1 ELSE 0>>

(* njs_arr_create(): the items are in the header's block, which            *)
(* njs_mp_free() does not take back by the address of the items.           *)
Create(n) ==
    /\ arr = Null
    /\ arr' = [start |-> Inside, available |-> n, pointer |-> TRUE, separate |-> TRUE]
    /\ held' = held \cup {Header} /\ items' = <<>>
    /\ ArrOnly

(* njs_arr_init(), with the caller's n items or with Null.                 *)
ArrInit(n, given) ==
    /\ arr = Null
    /\ arr' = [start |-> IF given THEN Given ELSE Fresh, available |-> n, pointer |-> FALSE,
               separate |-> ~given]
    /\ held' = IF given THEN held ELSE held \cup {Fresh}
    /\ items' = IF given THEN [i \in 1..n |-> i] ELSE <<>>
    /\ ArrOnly

Freed(blocks, start) == IF start = Inside THEN blocks ELSE blocks \ {start}

(* njs_arr_add_multiple(); the number of the item stands for the item.     *)
AddMultiple(count, memory) ==
    LET need == Len(items) + count
        size == IF arr.available < 16 THEN 2 * arr.available
                ELSE arr.available + arr.available \div 2
        grows == need >= arr.available
    IN  /\ arr # Null /\ need <= MaxItems
        /\ IF grows /\ ~memory THEN UNCHANGED <<arr, held, items>>
           ELSE /\ arr' = IF ~grows THEN arr
                          ELSE [arr EXCEPT !.start = Fresh, !.separate = TRUE,
                                           !.available = IF size < need THEN need ELSE size]
                /\ held' = IF ~grows THEN held
                           ELSE IF arr.separate THEN Freed(held, arr.start) \cup {Fresh}
                           ELSE held \cup {Fresh}
                /\ items' = items \o [i \in 1..count |-> Len(items) + i]
        /\ ArrOnly

RemoveItem(i) ==
    /\ arr # Null /\ i \in 1..Len(items)
    /\ items' = RemoveAt(items, i)
    /\ UNCHANGED <<arr, held>> /\ ArrOnly

DestroyArr ==
    /\ arr # Null
    /\ LET left == IF arr.separate THEN Freed(held, arr.start) ELSE held
       IN  held' = IF arr.pointer THEN left \ {Header} ELSE left
    /\ arr' = Null /\ items' = <<>>
    /\ ArrOnly

Next ==
    \/ \E l \in Links : InsertHead(l) \/ InsertTail(l)
    \/ \E i \in 1..Cardinality(Links) : Take(i)
    \/ Sort \/ FindMiddle
    \/ \E n \in 1..2 : Create(n) \/ \E given \in BOOLEAN : ArrInit(n, given)
    \/ \E n \in 1..2, memory \in BOOLEAN : AddMultiple(n, memory)
    \/ \E i \in 1..MaxItems : RemoveItem(i)
    \/ DestroyArr

-----------------------------------------------------------------------------
RECURSIVE Walk(_, _, _)
Walk(side, at, bound) ==
    IF at = Queue \/ bound = 0 THEN <<>> ELSE <<at>> \o Walk(side, side[at], bound - 1)

(* Both directions of a queue list the elements that were put in, in order *)
(* (sorting keeps the order of equal ones), the middle is the middle, and  *)
(* an array has room for its items and holds no block but its own: growing *)
(* and destroying it, also without memory, neither loses a block nor frees *)
(* the caller's (njs_queue_sort(), njs_queue_middle(),                     *)
(* njs_arr_add_multiple(), njs_arr_destroy()).                             *)
ListsAsPutIn ==
    /\ Walk(links.next, links.next[Queue], Cardinality(Links) + 1) = list
    /\ Walk(links.prev, links.prev[Queue], Cardinality(Links) + 1) = Reverse(list)
    /\ middle # Null => middle[1] = middle[2][Len(middle[2]) \div 2 + 1]
    /\ arr = Null => held = {}
    /\ arr # Null =>
          /\ Len(items) <= arr.available
          /\ held = (IF arr.pointer THEN {Header} ELSE {})
                        \cup (IF arr.separate /\ arr.start # Inside THEN {arr.start} ELSE {})

=============================================================================
