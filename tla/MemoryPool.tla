----------------------------- MODULE MemoryPool -----------------------------
(***************************************************************************)
(* The memory pool of a virtual machine, njs_mp.c.                         *)
(*                                                                         *)
(* Clusters of pages come from the system's allocator.  A page is used as  *)
(* a whole or is divided into chunks of one size; pages with free chunks   *)
(* wait in the queue of the slot of that size, free pages in free_pages.   *)
(* Larger allocations are blocks of their own.                             *)
(*                                                                         *)
(* An address is a block and an offset into it.  The blocks are what the   *)
(* tree mp->blocks holds; that the tree finds the block of an address is   *)
(* taken from the tree.  heap is what the pool has got from the system and *)
(* not given back, live what its callers have got from the pool.           *)
(***************************************************************************)
EXTENDS Naturals, Sequences, FiniteSets, Queues

CONSTANTS Clusters, Larges,      \* the blocks that the system may return
          PageSize, MinChunk,    \* page_size and min_chunk_size
          PagesPerCluster,       \* cluster_size / page_size
          PageAlignment,
          Requests               \* the pairs <<alignment, size>> of callers

(* njs_is_power_of_two(), (n - 1) & n == 0, as 2 dividing what else divides *)
(* n; as there, 0 is one.                                                  *)
PowerOfTwo(n) == \A d \in 2..n : n % d = 0 => d % 2 = 0

(* What njs_mp_create() requires, except that page_size is at least 64.    *)
SizesAssumption ==
    /\ PageSize \in Nat \ {0} /\ MinChunk \in Nat \ {0} /\ PageAlignment \in Nat \ {0}
    /\ PowerOfTwo(PageSize) /\ PowerOfTwo(MinChunk) /\ PowerOfTwo(PageAlignment)
    /\ MinChunk <= PageSize /\ PageSize <= MinChunk * 32
    /\ PageAlignment <= PageSize
    /\ PagesPerCluster \in 1..256

(* What the theorems assume besides.  The smallest chunk is smaller than   *)
(* the page, which njs_mp_create() does not require: the shifted size of   *)
(* the chunks would be 0 else.  Clusters and other blocks are told apart   *)
(* by their addresses, and njs_mp_align() requires a power of two.         *)
PoolAssumption ==
    /\ SizesAssumption
    /\ 2 * MinChunk <= PageSize
    /\ Clusters \cap Larges = {}
    /\ Requests \subseteq (Nat \ {0}) \X Nat
    /\ \A r \in Requests : PowerOfTwo(r[1])

VARIABLES created,     \* the pool exists
          clusters,    \* the clusters in mp->blocks
          page,        \* page[<<c, n>>]: njs_mp_page_t
          free_pages,  \* mp->free_pages
          slots,       \* slots[s]: the pages of the slot of chunk size s
          large,       \* large[b]: the block's type, or "none"
          heap, live

vars == <<created, clusters, page, free_pages, slots, large, heap, live>>

-----------------------------------------------------------------------------
(* The slots of njs_mp_fast_create(): halves of the page down to MinChunk, *)
(* and one in any case.                                                    *)
ChunkSizes == {s \in 1..PageSize :
                  /\ PowerOfTwo(s) /\ 2 * s <= PageSize
                  /\ s >= MinChunk \/ 2 * s = PageSize}

Slot(size) == CHOOSE s \in ChunkSizes :
                  s >= size /\ \A t \in ChunkSizes : t >= size => s <= t

SlotChunks(s) == PageSize \div s - 1

(* size >> mp->chunk_size_shift, and back.                                 *)
Shifted(size)   == size \div MinChunk
Unshifted(size) == size * MinChunk

Numbers == 0..(PagesPerCluster - 1)
Pages   == Clusters \X Numbers

Zeroed == [size |-> 0, chunks |-> 0, map |-> {}]

(* njs_mp_alloc_chunk(): the first free chunk.                             *)
FirstFree(map) == CHOOSE i \in 0..PageSize : i \notin map /\ \A j \in 0..(i - 1) : j \in map

Without(q, pg) == IF pg \in Elems(q) THEN Unlink(q, pg) ELSE q

(* The pages of a cluster are taken out of a queue, one after the other.   *)
WithoutCluster(q, c) ==
    LET rest[n \in 0..PagesPerCluster] ==
            IF n = 0 THEN q ELSE Without(rest[n - 1], <<c, n - 1>>)
    IN  rest[PagesPerCluster]

-----------------------------------------------------------------------------
(* njs_mp_alloc_page(): the pages it may return, with what is left of      *)
(* free_pages and the cluster that was allocated.                          *)
FreshPages(c) == [page |-> <<c, 0>>, new |-> {c},
                  rest |-> [i \in 1..(PagesPerCluster - 1) |-> <<c, i>>]]

AllocPage ==
    IF free_pages # <<>>
    THEN {[page |-> Head(free_pages), new |-> {}, rest |-> Tail(free_pages)]}
    ELSE {FreshPages(c) : c \in Clusters \ clusters}

Take(t) ==
    /\ free_pages' = t.rest
    /\ clusters' = clusters \cup t.new
    /\ heap' = heap \cup ({"cluster", "pages"} \X t.new)

Returned(b, offset, request) ==
    live' = live \cup {[block |-> b, offset |-> offset,
                        align |-> request[1], size |-> request[2]]}

(* What njs_mp_alloc() and njs_mp_align() ask njs_mp_alloc_small() for.    *)
SmallSize(request) == IF request[2] >= request[1] THEN request[2] ELSE request[1]
IsSmall(request)   == /\ request[1] <= PageAlignment
                      /\ SmallSize(request) <= PageSize

(* njs_mp_alloc_small(): a chunk of a page that has free ones.             *)
AllocChunk(request) ==
    LET s == Slot(SmallSize(request))
        pg == Head(slots[s])
        i == FirstFree(page[pg].map)
    IN  /\ created /\ IsSmall(request) /\ 2 * SmallSize(request) <= PageSize
        /\ slots[s] # <<>>
        /\ page' = [page EXCEPT ![pg].map = @ \cup {i}, ![pg].chunks = @ - 1]
        /\ slots' = [slots EXCEPT ![s] = IF page[pg].chunks = 1
                                         THEN Without(@, pg) ELSE @]
        /\ Returned(pg[1], pg[2] * PageSize + i * s, request)
        /\ UNCHANGED <<created, clusters, free_pages, large, heap>>

(* The first chunk of a page that becomes a chunked one.                   *)
AllocFirstChunk(request) ==
    LET s == Slot(SmallSize(request))
    IN  /\ created /\ IsSmall(request) /\ 2 * SmallSize(request) <= PageSize
        /\ slots[s] = <<>>
        /\ \E t \in AllocPage :
              /\ Take(t)
              /\ page' = [page EXCEPT ![t.page] = [size |-> Shifted(s),
                                chunks |-> SlotChunks(s), map |-> {0}]]
              /\ slots' = [slots EXCEPT ![s] = <<t.page>> \o @]
              /\ Returned(t.page[1], t.page[2] * PageSize, request)
        /\ UNCHANGED <<created, large>>

(* A whole page.                                                           *)
AllocWholePage(request) ==
    /\ created /\ IsSmall(request) /\ 2 * SmallSize(request) > PageSize
    /\ \E t \in AllocPage :
          /\ Take(t)
          /\ page' = [page EXCEPT ![t.page].size = Shifted(PageSize)]
          /\ Returned(t.page[1], t.page[2] * PageSize, request)
    /\ UNCHANGED <<created, slots, large>>

(* njs_mp_alloc_large().                                                   *)
LargeHeap(b, type) ==
    IF type = "discrete" THEN {<<"block", b>>, <<"memory", b>>}
    ELSE {<<"memory", b>>}

AllocLarge(request) ==
    LET type == IF PowerOfTwo(request[2]) THEN "discrete" ELSE "embedded"
    IN  /\ created /\ ~IsSmall(request)
        /\ \E b \in {x \in Larges : large[x] = "none"} :
              /\ large' = [large EXCEPT ![b] = type]
              /\ heap' = heap \cup LargeHeap(b, type)
              /\ Returned(b, 0, request)
        /\ UNCHANGED <<created, clusters, page, free_pages, slots>>

(* The system's second allocation for a block fails, and what the first    *)
(* one got is given back.                                                  *)
GivesNothingBack(got) == heap' = heap \cup got                  \* mutant
GivesBack(got)        == heap' = (heap \cup got) \ got

AllocFails(request) ==
    /\ created
    /\ \/ /\ ~IsSmall(request) /\ PowerOfTwo(request[2])
          /\ \E b \in Larges : large[b] = "none" /\ GivesBack({<<"block", b>>})
       \/ /\ IsSmall(request) /\ free_pages = <<>>
          /\ 2 * SmallSize(request) <= PageSize => slots[Slot(SmallSize(request))] = <<>>
          /\ \E c \in Clusters \ clusters : GivesBack({<<"cluster", c>>})
    /\ UNCHANGED <<created, clusters, page, free_pages, slots, large, live>>

-----------------------------------------------------------------------------
(* njs_mp_free() of the address (b, offset), whether its owner frees it or *)
(* nobody owns it.                                                         *)

Given(b, offset) == live' = {r \in live : r.block # b \/ r.offset # offset}

(* The chunk of that address, where njs_mp_chunk_free() accepts it.        *)
Busy(c, offset) ==
    LET p == page[<<c, offset \div PageSize>>]
        size == Unshifted(p.size)
        inside == offset % PageSize
    IN  /\ c \in clusters /\ p.size # 0
        /\ IF size = PageSize THEN inside = 0
           ELSE inside % size = 0 /\ inside \div size \in p.map

FreeChunkUnlisted(c, offset) ==                                  \* mutant
    LET pg == <<c, offset \div PageSize>>
        size == Unshifted(page[pg].size)
        s == Slot(size)
    IN  /\ created /\ Busy(c, offset) /\ size # PageSize
        /\ page[pg].chunks # SlotChunks(s)
        /\ page' = [page EXCEPT ![pg].map = @ \ {(offset % PageSize) \div size},
                                ![pg].chunks = @ + 1]
        /\ Given(c, offset)
        /\ UNCHANGED <<created, clusters, free_pages, slots, large, heap>>

(* The page keeps other chunks: free this one.                             *)
FreeChunk(c, offset) ==
    LET pg == <<c, offset \div PageSize>>
        size == Unshifted(page[pg].size)
        s == Slot(size)
    IN  /\ created /\ Busy(c, offset) /\ size # PageSize
        /\ page[pg].chunks # SlotChunks(s)
        /\ page' = [page EXCEPT ![pg].map = @ \ {(offset % PageSize) \div size},
                                ![pg].chunks = @ + 1]
        /\ slots' = [slots EXCEPT ![s] = IF page[pg].chunks = 0
                                         THEN <<pg>> \o @ ELSE @]
        /\ Given(c, offset)
        /\ UNCHANGED <<created, clusters, free_pages, large, heap>>

FreePageSkipsFirst(c, offset) ==                                 \* mutant
    LET pg == <<c, offset \div PageSize>>
        size == Unshifted(page[pg].size)
        others == {n \in Numbers : n \notin {0, pg[2]} /\ page[<<c, n>>].size # 0}
    IN  /\ created /\ Busy(c, offset)
        /\ size # PageSize => page[pg].chunks = SlotChunks(Slot(size))
        /\ slots' = IF size = PageSize THEN slots
                    ELSE [slots EXCEPT ![Slot(size)] = Without(@, pg)]
        /\ IF others # {}
           THEN /\ page' = [page EXCEPT ![pg] = Zeroed]
                /\ free_pages' = <<pg>> \o free_pages
                /\ UNCHANGED <<clusters, heap>>
           ELSE /\ page' = [x \in Pages |-> IF x[1] = c THEN Zeroed ELSE page[x]]
                /\ free_pages' = WithoutCluster(<<pg>> \o free_pages, c)
                /\ clusters' = clusters \ {c}
                /\ heap' = heap \ ({"cluster", "pages"} \X {c})
        /\ Given(c, offset)
        /\ UNCHANGED <<created, large>>

(* The page becomes free, and with the last page the cluster.  The code    *)
(* leaves chunks and map of a free page as they are and never reads them.  *)
FreePage(c, offset) ==
    LET pg == <<c, offset \div PageSize>>
        size == Unshifted(page[pg].size)
        others == {n \in Numbers : n # pg[2] /\ page[<<c, n>>].size # 0}
    IN  /\ created /\ Busy(c, offset)
        /\ size # PageSize => page[pg].chunks = SlotChunks(Slot(size))
        /\ slots' = IF size = PageSize THEN slots
                    ELSE [slots EXCEPT ![Slot(size)] = Without(@, pg)]
        /\ IF others # {}
           THEN /\ page' = [page EXCEPT ![pg] = Zeroed]
                /\ free_pages' = <<pg>> \o free_pages
                /\ UNCHANGED <<clusters, heap>>
           ELSE /\ page' = [x \in Pages |-> IF x[1] = c THEN Zeroed ELSE page[x]]
                /\ free_pages' = WithoutCluster(<<pg>> \o free_pages, c)
                /\ clusters' = clusters \ {c}
                /\ heap' = heap \ ({"cluster", "pages"} \X {c})
        /\ Given(c, offset)
        /\ UNCHANGED <<created, large>>

(* A large block, which is freed by its start only.                        *)
FreeLarge(b) ==
    /\ created /\ large[b] # "none"
    /\ large' = [large EXCEPT ![b] = "none"]
    /\ heap' = heap \ LargeHeap(b, large[b])
    /\ Given(b, 0)
    /\ UNCHANGED <<created, clusters, page, free_pages, slots>>

(* Any other address: an error that only a debug build reports.            *)
FreeRefused(b, offset) ==
    /\ created
    /\ b \in Clusters => ~Busy(b, offset)
    /\ b \in Larges => large[b] = "none" \/ offset # 0
    /\ Given(b, offset)
    /\ UNCHANGED <<created, clusters, page, free_pages, slots, large, heap>>

-----------------------------------------------------------------------------
Empty ==
    /\ clusters' = {} /\ free_pages' = <<>> /\ live' = {}
    /\ page' = [x \in Pages |-> Zeroed]
    /\ slots' = [s \in ChunkSizes |-> <<>>]
    /\ large' = [b \in Larges |-> "none"]

(* njs_mp_destroy(): every block of the tree, by its type.                 *)
Destroy ==
    /\ created /\ created' = FALSE
    /\ heap' = heap \ ({<<"pool">>} \cup ({"cluster", "pages"} \X clusters) \cup
                       UNION {LargeHeap(b, large[b]) : b \in {x \in Larges : large[x] # "none"}})
    /\ Empty

(* njs_mp_fast_create().                                                   *)
Create ==
    /\ ~created /\ created' = TRUE
    /\ heap' = heap \cup {<<"pool">>}
    /\ Empty

Init ==
    /\ created = FALSE /\ clusters = {} /\ free_pages = <<>> /\ live = {} /\ heap = {}
    /\ page = [x \in Pages |-> Zeroed]
    /\ slots = [s \in ChunkSizes |-> <<>>]
    /\ large = [b \in Larges |-> "none"]

Offsets == 0..(PagesPerCluster * PageSize - 1)

Next ==
    \/ \E r \in Requests :
          AllocChunk(r) \/ AllocFirstChunk(r) \/ AllocWholePage(r) \/ AllocLarge(r)
             \/ AllocFails(r)
    \/ \E c \in Clusters, offset \in Offsets :
          FreeChunk(c, offset) \/ FreePage(c, offset)
    \/ \E b \in Larges : FreeLarge(b)
    \/ \E b \in Clusters \cup Larges, offset \in Offsets : FreeRefused(b, offset)
    \/ Create \/ Destroy

Spec == Init /\ [][Next]_vars

-----------------------------------------------------------------------------
(* What callers hold never overlaps, lies in one page of its cluster and   *)
(* has the alignment that was asked for.                                   *)
AllocationsSound ==
    /\ \A r \in live : r.block \in Clusters =>
          /\ r.block \in clusters
          /\ r.offset \div PageSize \in Numbers
          /\ (r.offset % PageSize) + r.size <= PageSize
          /\ r.offset % r.align = 0
    /\ \A r, q \in live : r # q =>
          \/ r.block # q.block
          \/ r.offset + r.size <= q.offset
          \/ q.offset + q.size <= r.offset

(* njs_mp_page_t agrees with what callers hold: a page is free if nothing  *)
(* of it is held and is in free_pages then, once; a chunked page counts    *)
(* its free chunks and is in its slot, once, while it has some.            *)
Held(pg) == {r \in live : r.block = pg[1] /\ r.offset \div PageSize = pg[2]}

Occurs(q, x) == Cardinality({i \in DOMAIN q : q[i] = x})

BooksBalance ==
    \A pg \in Pages :
        LET p == page[pg]
            size == Unshifted(p.size)
            chunked == p.size # 0 /\ size # PageSize
        IN  /\ (Held(pg) = {}) = (p.size = 0)
            /\ Occurs(free_pages, pg) = IF pg[1] \in clusters /\ p.size = 0 THEN 1 ELSE 0
            /\ chunked => /\ p.map = {(r.offset % PageSize) \div size : r \in Held(pg)}
                          /\ p.chunks = PageSize \div size - Cardinality(p.map)
            /\ \A s \in ChunkSizes : Occurs(slots[s], pg) =
                  IF chunked /\ s = size /\ p.chunks > 0 THEN 1 ELSE 0

(* The pool holds of the system's memory what its blocks are made of and   *)
(* no more, also after a failure; nothing remains when it is destroyed;    *)
(* and it has no cluster of which every page is free.                      *)
HeapOwned ==
    /\ heap = (IF created THEN {<<"pool">>} ELSE {})
              \cup ({"cluster", "pages"} \X clusters)
              \cup UNION {LargeHeap(b, large[b]) : b \in {x \in Larges : large[x] # "none"}}
    /\ \A c \in clusters : \E r \in live : r.block = c
    /\ \A b \in Larges : large[b] # "none" => \E r \in live : r.block = b

=============================================================================
