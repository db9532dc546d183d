-------------------------- MODULE MemoryPoolProofs --------------------------
(***************************************************************************)
(* Proofs about module MemoryPool: for any sizes of pages, chunks and      *)
(* clusters that njs_mp_create() accepts, any number of blocks, and any    *)
(* requests.                                                               *)
(***************************************************************************)
EXTENDS MemoryPool, CommonProofs, FiniteSetTheorems

Divides(a, n) == \E k \in Nat : n = a * k

-----------------------------------------------------------------------------
(* The inductive invariant.  *)

Chunk == [block : Clusters \cup Larges, offset : Nat, align : Nat \ {0}, size : Nat]

PageType == [size : Nat, chunks : Nat, map : SUBSET Nat]

Typed ==
    /\ created \in BOOLEAN
    /\ clusters \subseteq Clusters
    /\ page \in [Pages -> PageType]
    /\ free_pages \in Seq(Pages)
    /\ slots \in [ChunkSizes -> Seq(Pages)]
    /\ large \in [Larges -> {"none", "embedded", "discrete"}]
    /\ live \subseteq Chunk

HeapIs ==
    heap = (IF created THEN {<<"pool">>} ELSE {})
           \cup ({"cluster", "pages"} \X clusters)
           \cup UNION {LargeHeap(b, large[b]) : b \in {x \in Larges : large[x] # "none"}}

(* A pool that was destroyed owns nothing.                                 *)
NothingLeft == ~ created => clusters = {} /\ \A b \in Larges : large[b] = "none"

(* The chunks of a set of allocations that lie in a page.                  *)
HeldIn(L, pg) == {r \in L : r.block = pg[1] /\ r.offset \div PageSize = pg[2]}

InSlot(p, s) == p.size = Shifted(s) /\ p.chunks > 0

FreeList ==
    /\ Distinct(free_pages)
    /\ \A pg \in Pages :
          pg \in Elems(free_pages) <=> pg[1] \in clusters /\ page[pg].size = 0

SlotLists ==
    \A s \in ChunkSizes :
        /\ Distinct(slots[s])
        /\ \A pg \in Pages : pg \in Elems(slots[s]) <=> InSlot(page[pg], s)

(* A page p of which the allocations H are held: the three uses of a page. *)
FreeGood(p, H) == p.size = 0 /\ H = {}

WholeFits(r) ==
    r.offset % PageSize = 0 /\ r.size <= PageSize /\ Divides(r.align, PageSize)

WholeGood(p, H) == p.size = Shifted(PageSize) /\ \E r \in H : H = {r} /\ WholeFits(r)

Index(r, s) == (r.offset % PageSize) \div s

ChunkFits(r, s) ==
    (r.offset % PageSize) % s = 0 /\ r.size <= s /\ Divides(r.align, s)

ChunkedGood(p, H, s) ==
    /\ p.size = Shifted(s)
    /\ p.map \subseteq 0 .. SlotChunks(s) /\ p.map # {}
    /\ p.chunks + Cardinality(p.map) = SlotChunks(s) + 1
    /\ p.map = {Index(r, s) : r \in H}
    /\ \A r \in H : ChunkFits(r, s)
    /\ \A r, q \in H : r.offset = q.offset => r = q

PageGood(p, H) ==
    FreeGood(p, H) \/ WholeGood(p, H) \/ \E s \in ChunkSizes : ChunkedGood(p, H, s)

PagesGood == \A pg \in Pages : PageGood(page[pg], HeldIn(live, pg))

ClustersGood ==
    /\ \A pg \in Pages : pg[1] \notin clusters => page[pg].size = 0
    /\ \A c \in clusters : \E n \in Numbers : page[<<c, n>>].size # 0
    /\ \A r \in live : r.block \in Clusters => r.offset \div PageSize \in Numbers

LargesGood ==
    \A b \in Larges :
        /\ large[b] = "none" => \A r \in live : r.block # b
        /\ large[b] # "none" => \E r \in live : r.block = b
        /\ \A r, q \in live : r.block = b /\ q.block = b => r.offset = 0 /\ r = q

IInv ==
    /\ Typed /\ HeapIs /\ NothingLeft /\ FreeList /\ SlotLists
    /\ PagesGood /\ ClustersGood /\ LargesGood

-----------------------------------------------------------------------------
(* Numbers.  *)

LEMMA DivMod ==
    ASSUME NEW n \in Nat, NEW p \in Nat \ {0}
    PROVE  /\ n \div p \in Nat /\ n % p \in 0 .. p - 1
           /\ n = (n \div p) * p + (n % p)
<1>1. n \div p \in Nat
  OBVIOUS
<1>2. n % p \in 0 .. p - 1
  OBVIOUS
<1>3. n = (n \div p) * p + (n % p)
  OBVIOUS
<1> QED BY <1>1, <1>2, <1>3

LEMMA DivModOf ==
    ASSUME NEW q \in Nat, NEW p \in Nat \ {0}, NEW x \in 0 .. p - 1
    PROVE  q * p + x \in Nat /\ (q * p + x) \div p = q /\ (q * p + x) % p = x
OBVIOUS

LEMMA MultipleMod ==
    ASSUME NEW p \in Nat \ {0}, NEW k \in Nat
    PROVE  p * k \in Nat /\ (p * k) % p = 0 /\ (p * k) \div p = k
OBVIOUS

LEMMA DividesIs ==
    ASSUME NEW a \in Nat \ {0}, NEW n \in Nat
    PROVE  n % a = 0 <=> Divides(a, n)
<1>1. n % a = 0 => n = a * (n \div a)
  BY DivMod
<1>2. n \div a \in Nat
  BY DivMod
<1> QED BY <1>1, <1>2, MultipleMod DEF Divides

LEMMA DividesTrans ==
    ASSUME NEW a \in Nat, NEW b \in Nat, NEW n \in Nat, Divides(a, b), Divides(b, n)
    PROVE  Divides(a, n)
<1>1. PICK j \in Nat : b = a * j
  BY DEF Divides
<1>2. PICK k \in Nat : n = b * k
  BY DEF Divides
<1>3. j * k \in Nat /\ n = a * (j * k)
  BY <1>1, <1>2
<1> QED BY <1>3 DEF Divides

LEMMA DividesSum ==
    ASSUME NEW a \in Nat, NEW b \in Nat, NEW n \in Nat, Divides(a, b), Divides(a, n),
           NEW x \in Nat, NEW y \in Nat
    PROVE  Divides(a, x * b + y * n)
<1>1. PICK j \in Nat : b = a * j
  BY DEF Divides
<1>2. PICK k \in Nat : n = a * k
  BY DEF Divides
<1>3. x * j + y * k \in Nat /\ x * b + y * n = a * (x * j + y * k)
  BY <1>1, <1>2
<1> QED BY <1>3 DEF Divides

LEMMA Halved ==
    ASSUME NEW n \in Nat, PowerOfTwo(n), n >= 2
    PROVE  \E h \in Nat \ {0} : n = 2 * h /\ h < n /\ PowerOfTwo(h)
<1>1. n % n = 0
  OBVIOUS
<1>2. n % 2 = 0
  BY <1>1 DEF PowerOfTwo
<1>3. PICK h \in Nat : n = 2 * h
  BY <1>2, DividesIs DEF Divides
<1>4. PowerOfTwo(h)
  <2> SUFFICES ASSUME NEW d \in 2 .. h, h % d = 0 PROVE d % 2 = 0
    BY DEF PowerOfTwo
  <2>1. Divides(d, h)
    BY DividesIs
  <2>2. PICK k \in Nat : h = d * k
    BY <2>1 DEF Divides
  <2>3. n = d * (2 * k) /\ 2 * k \in Nat
    BY <1>3, <2>2
  <2>4. n % d = 0
    BY <2>3, MultipleMod
  <2>5. d \in 2 .. n
    BY <1>3
  <2> QED BY <2>4, <2>5 DEF PowerOfTwo
<1> QED BY <1>3, <1>4

(* Of two powers of two the smaller one divides the other.                 *)
LEMMA PowersDivide ==
    ASSUME NEW a \in Nat \ {0}, NEW b \in Nat, PowerOfTwo(a), PowerOfTwo(b), a <= b
    PROVE  Divides(a, b)
<1> DEFINE Wrong(c, d) == /\ c # 0 /\ c <= d /\ PowerOfTwo(c) /\ PowerOfTwo(d)
                          /\ ~ Divides(c, d)
           T == {d \in Nat : \E c \in Nat : Wrong(c, d)}
<1> SUFFICES ASSUME T # {} PROVE FALSE
  OBVIOUS
<1>1. PICK d \in T : \A k \in T : d <= k
  <2>1. T \subseteq Nat
    OBVIOUS
  <2> QED BY <2>1, LeastNumber
<1>2. PICK c \in Nat : Wrong(c, d)
  OBVIOUS
<1>3. c # 1
  <2>1. d = 1 * d
    OBVIOUS
  <2> QED BY <1>2, <2>1 DEF Divides
<1>4. c >= 2 /\ d >= 2 /\ c \in Nat /\ d \in Nat /\ PowerOfTwo(c) /\ PowerOfTwo(d)
  BY <1>2, <1>3
<1>5. PICK g \in Nat \ {0} : c = 2 * g /\ PowerOfTwo(g)
  BY <1>4, Halved
<1>6. PICK h \in Nat \ {0} : d = 2 * h /\ h < d /\ PowerOfTwo(h)
  BY <1>4, Halved
<1>7. h \notin T
  BY <1>1, <1>4, <1>6
<1>8. g <= h
  BY <1>2, <1>5, <1>6
<1>9. Divides(g, h)
  BY <1>5, <1>6, <1>7, <1>8
<1>10. PICK k \in Nat : h = g * k
  BY <1>9 DEF Divides
<1>11. d = c * k
  BY <1>5, <1>6, <1>10
<1> QED BY <1>2, <1>11 DEF Divides

-----------------------------------------------------------------------------
(* The sizes of chunks.  *)

LEMMA Sizes ==
    ASSUME PoolAssumption
    PROVE  /\ PageSize \in Nat \ {0} /\ PageSize >= 2 /\ MinChunk \in Nat \ {0} /\ 2 * MinChunk <= PageSize
           /\ PowerOfTwo(PageSize) /\ PowerOfTwo(MinChunk)
           /\ PageAlignment \in Nat \ {0} /\ PageAlignment <= PageSize
           /\ PowerOfTwo(PageAlignment)
           /\ PagesPerCluster \in Nat \ {0}
           /\ Numbers = 0 .. PagesPerCluster - 1 /\ 0 \in Numbers /\ Numbers \subseteq Nat
BY DEF PoolAssumption, SizesAssumption, Numbers

LEMMA ShiftedBack ==
    ASSUME PoolAssumption, NEW s \in Nat, PowerOfTwo(s), MinChunk <= s
    PROVE  /\ Shifted(s) \in Nat \ {0}
           /\ Unshifted(Shifted(s)) = s
<1>1. MinChunk \in Nat \ {0} /\ PowerOfTwo(MinChunk)
  BY Sizes
<1>2. PICK k \in Nat : s = MinChunk * k
  BY <1>1, PowersDivide DEF Divides
<1>3. Shifted(s) = k /\ k # 0
  BY <1>1, <1>2, MultipleMod DEF Shifted
<1>4. k * MinChunk = MinChunk * k
  BY <1>1
<1> QED BY <1>2, <1>3, <1>4 DEF Unshifted

LEMMA ChunkSizeIs ==
    ASSUME PoolAssumption, NEW s \in ChunkSizes
    PROVE  /\ s \in Nat \ {0} /\ PowerOfTwo(s) /\ 2 * s <= PageSize
           /\ Shifted(s) \in Nat \ {0} /\ Unshifted(Shifted(s)) = s
           /\ Divides(s, PageSize)
           /\ SlotChunks(s) \in Nat \ {0}
           /\ PageSize = s * (SlotChunks(s) + 1)
<1>1. /\ s \in Nat \ {0} /\ PowerOfTwo(s) /\ 2 * s <= PageSize /\ MinChunk <= s
  BY Sizes DEF ChunkSizes
<1>2. Shifted(s) \in Nat \ {0} /\ Unshifted(Shifted(s)) = s
  BY <1>1, ShiftedBack
<1>3. Divides(s, PageSize)
  BY <1>1, Sizes, PowersDivide
<1>4. PICK k \in Nat : PageSize = s * k
  BY <1>3 DEF Divides
<1>5. PageSize \div s = k
  BY <1>1, <1>4, MultipleMod
<1>6. k # 0 /\ k # 1
  BY <1>1, <1>4, Sizes
<1>7. SlotChunks(s) = k - 1
  BY <1>5 DEF SlotChunks
<1> QED BY <1>1, <1>2, <1>3, <1>4, <1>6, <1>7

LEMMA PageSizeIs ==
    ASSUME PoolAssumption
    PROVE  /\ Shifted(PageSize) \in Nat \ {0} /\ Unshifted(Shifted(PageSize)) = PageSize
           /\ PageSize \notin ChunkSizes
           /\ \A s \in ChunkSizes : Shifted(s) # Shifted(PageSize)
<1>1. Shifted(PageSize) \in Nat \ {0} /\ Unshifted(Shifted(PageSize)) = PageSize
  BY Sizes, ShiftedBack
<1>2. \A s \in ChunkSizes : Unshifted(Shifted(s)) = s /\ s < PageSize
  BY ChunkSizeIs, Sizes
<1> QED BY <1>1, <1>2, Sizes

LEMMA ChunkSizesDiffer ==
    ASSUME PoolAssumption, NEW s \in ChunkSizes, NEW t \in ChunkSizes,
           Shifted(s) = Shifted(t)
    PROVE  s = t
BY ChunkSizeIs

(* The slots are sorted, and the first that is large enough is taken.      *)
LEMMA SlotIs ==
    ASSUME PoolAssumption, NEW n \in Nat, 2 * n <= PageSize
    PROVE  /\ Slot(n) \in ChunkSizes /\ n <= Slot(n)
           /\ n \in ChunkSizes => Slot(n) = n
<1> DEFINE T == {s \in ChunkSizes : s >= n}
<1>1. T \subseteq Nat
  BY ChunkSizeIs
<1>2. T # {}
  <2>1. PICK h \in Nat \ {0} : PageSize = 2 * h /\ PowerOfTwo(h)
    BY Sizes, Halved
  <2>2. h \in ChunkSizes /\ h >= n
    BY <2>1, Sizes DEF ChunkSizes
  <2> QED BY <2>2
<1>3. PICK m \in T : \A k \in T : m <= k
  BY <1>1, <1>2, LeastNumber
<1>4. m \in ChunkSizes /\ m >= n /\ \A t \in ChunkSizes : t >= n => m <= t
  BY <1>3
<1>5. /\ Slot(n) \in ChunkSizes /\ Slot(n) >= n
      /\ \A t \in ChunkSizes : t >= n => Slot(n) <= t
  BY <1>4 DEF Slot
<1>6. Slot(n) \in Nat
  BY <1>5, ChunkSizeIs
<1> QED BY <1>5, <1>6

-----------------------------------------------------------------------------
(* Pages and what is held of them.  *)

LEMMA PagePairs ==
    /\ \A pg \in Pages : pg[1] \in Clusters /\ pg[2] \in Numbers /\ pg = <<pg[1], pg[2]>>
    /\ \A c \in Clusters, n \in Numbers : <<c, n>> \in Pages
    /\ \A pg \in Pages, qg \in Pages : pg[1] = qg[1] /\ pg[2] = qg[2] => pg = qg
BY DEF Pages

LEMMA HeldIs == \A pg : Held(pg) = HeldIn(live, pg)
BY DEF Held, HeldIn

LEMMA HeldAdded ==
    ASSUME NEW r, live' = live \cup {r}, NEW pg
    PROVE  /\ (r.block # pg[1] \/ r.offset \div PageSize # pg[2]) =>
                 HeldIn(live', pg) = HeldIn(live, pg)
           /\ (r.block = pg[1] /\ r.offset \div PageSize = pg[2]) =>
                 HeldIn(live', pg) = HeldIn(live, pg) \cup {r}
BY DEF HeldIn

(* What the owner of an address gives back.                                *)
Left(L, b, offset) == {r \in L : r.block # b \/ r.offset # offset}

LEMMA HeldLeft ==
    ASSUME NEW b, NEW offset, live' = Left(live, b, offset), NEW pg
    PROVE  /\ (b # pg[1] \/ offset \div PageSize # pg[2]) =>
                 HeldIn(live', pg) = HeldIn(live, pg)
           /\ b = pg[1] =>
                 HeldIn(live', pg) = {r \in HeldIn(live, pg) : r.offset # offset}
BY DEF HeldIn, Left

(* A page that is not free is held, and a free one is not.                 *)
LEMMA GoodHeld ==
    ASSUME PoolAssumption, NEW p, NEW H, PageGood(p, H)
    PROVE  p.size = 0 <=> H = {}
<1>1. CASE FreeGood(p, H)
  BY <1>1 DEF FreeGood
<1>2. CASE WholeGood(p, H)
  BY <1>2, PageSizeIs DEF WholeGood
<1>3. CASE \E s \in ChunkSizes : ChunkedGood(p, H, s)
  <2>1. PICK s \in ChunkSizes : ChunkedGood(p, H, s)
    BY <1>3
  <2>2. p.size # 0
    BY <2>1, ChunkSizeIs DEF ChunkedGood
  <2>3. {Index(r, s) : r \in H} # {}
    BY <2>1 DEF ChunkedGood
  <2> QED BY <2>2, <2>3
<1> QED BY <1>1, <1>2, <1>3 DEF PageGood

LEMMA GoodWhole ==
    ASSUME PoolAssumption, NEW p, NEW H, PageGood(p, H), p.size = Shifted(PageSize)
    PROVE  WholeGood(p, H)
<1>1. ~ FreeGood(p, H)
  BY PageSizeIs DEF FreeGood
<1>2. \A s \in ChunkSizes : ~ ChunkedGood(p, H, s)
  BY PageSizeIs DEF ChunkedGood
<1> QED BY <1>1, <1>2 DEF PageGood

LEMMA GoodChunked ==
    ASSUME PoolAssumption, NEW p, NEW H, PageGood(p, H), NEW s \in ChunkSizes,
           p.size = Shifted(s)
    PROVE  ChunkedGood(p, H, s)
<1>1. ~ FreeGood(p, H)
  BY ChunkSizeIs DEF FreeGood
<1>2. ~ WholeGood(p, H)
  BY PageSizeIs DEF WholeGood
<1>3. PICK t \in ChunkSizes : ChunkedGood(p, H, t)
  BY <1>1, <1>2 DEF PageGood
<1>4. t = s
  BY <1>3, ChunkSizesDiffer DEF ChunkedGood
<1> QED BY <1>3, <1>4

(* The size that a busy page has, as njs_mp_chunk_free() reads it.         *)
LEMMA GoodSize ==
    ASSUME PoolAssumption, NEW p, NEW H, PageGood(p, H), p.size # 0
    PROVE  \/ Unshifted(p.size) = PageSize /\ WholeGood(p, H)
           \/ /\ Unshifted(p.size) \in ChunkSizes
              /\ p.size = Shifted(Unshifted(p.size))
              /\ ChunkedGood(p, H, Unshifted(p.size))
<1>1. CASE WholeGood(p, H)
  BY <1>1, PageSizeIs DEF WholeGood
<1>2. CASE \E s \in ChunkSizes : ChunkedGood(p, H, s)
  <2>1. PICK s \in ChunkSizes : ChunkedGood(p, H, s)
    BY <1>2
  <2>2. Unshifted(p.size) = s
    BY <2>1, ChunkSizeIs DEF ChunkedGood
  <2>3. p.size = Shifted(s)
    BY <2>1 DEF ChunkedGood
  <2> QED BY <2>1, <2>2, <2>3
<1>3. ~ FreeGood(p, H)
  BY DEF FreeGood
<1> QED BY <1>1, <1>2, <1>3 DEF PageGood

-----------------------------------------------------------------------------
(* The chunks of one page.  *)

(* The offset of the i-th chunk of the n-th page.                          *)
Place(n, i, s) == n * PageSize + i * s

LEMMA ChunkOffset ==
    ASSUME PoolAssumption, NEW s \in ChunkSizes, NEW n \in Nat,
           NEW i \in 0 .. SlotChunks(s)
    PROVE  /\ i * s \in Nat /\ i * s + s <= PageSize
           /\ n * PageSize + i * s \in Nat
           /\ (n * PageSize + i * s) \div PageSize = n
           /\ (n * PageSize + i * s) % PageSize = i * s
           /\ (i * s) % s = 0 /\ (i * s) \div s = i
<1>1. /\ s \in Nat \ {0} /\ PageSize \in Nat \ {0} /\ SlotChunks(s) \in Nat
      /\ PageSize = s * (SlotChunks(s) + 1)
  BY ChunkSizeIs, Sizes
<1>2. i \in Nat /\ i <= SlotChunks(s)
  BY <1>1
<1>3. i * s \in Nat /\ i * s = s * i
  BY <1>1, <1>2
<1>4. i * s + s <= PageSize
  <2> DEFINE K == SlotChunks(s)
  <2>1. K \in Nat /\ PageSize = s * K + s
    BY <1>1
  <2> HIDE DEF K
  <2>2. PICK d \in Nat : K = i + d
    <3>1. K - i \in Nat /\ K = i + (K - i)
      BY <1>2, <2>1 DEF K
    <3> QED BY <3>1
  <2>3. s * K = s * i + s * d /\ s * d \in Nat
    BY <1>1, <1>2, <2>2
  <2> QED BY <1>1, <1>3, <2>1, <2>3
<1>5. i * s \in 0 .. PageSize - 1
  BY <1>1, <1>3, <1>4
<1>6. /\ n * PageSize + i * s \in Nat
      /\ (n * PageSize + i * s) \div PageSize = n
      /\ (n * PageSize + i * s) % PageSize = i * s
  BY <1>1, <1>5, DivModOf
<1>7. (s * i) % s = 0 /\ (s * i) \div s = i
  BY <1>1, <1>2, MultipleMod
<1> QED BY <1>3, <1>4, <1>6, <1>7

(* An address is known from its page and its place in it.                  *)
LEMMA SameOffset ==
    ASSUME PoolAssumption, NEW s \in Nat \ {0}, NEW x \in Nat, NEW y \in Nat,
           x \div PageSize = y \div PageSize,
           (x % PageSize) % s = 0, (y % PageSize) % s = 0,
           (x % PageSize) \div s = (y % PageSize) \div s
    PROVE  x = y
<1>1. PageSize \in Nat \ {0}
  BY Sizes
<1>2. /\ x = (x \div PageSize) * PageSize + (x % PageSize)
      /\ y = (y \div PageSize) * PageSize + (y % PageSize)
      /\ x % PageSize \in Nat /\ y % PageSize \in Nat
  BY <1>1, DivMod
<1> DEFINE a == x % PageSize
           b == y % PageSize
<1>3. a = b
  <2>1. a \in Nat /\ b \in Nat /\ a % s = 0 /\ b % s = 0 /\ a \div s = b \div s
    BY <1>2
  <2> HIDE DEF a, b
  <2>2. a = (a \div s) * s + (a % s) /\ b = (b \div s) * s + (b % s)
    BY <2>1, DivMod
  <2> QED BY <2>1, <2>2
<1> QED BY <1>2, <1>3

LEMMA MapFinite ==
    ASSUME PoolAssumption, NEW s \in ChunkSizes, NEW map \in SUBSET (0 .. SlotChunks(s))
    PROVE  /\ IsFiniteSet(map) /\ Cardinality(map) \in Nat
           /\ Cardinality(0 .. SlotChunks(s)) = SlotChunks(s) + 1
<1>1. SlotChunks(s) \in Nat
  BY ChunkSizeIs
<1>2. /\ IsFiniteSet(0 .. SlotChunks(s))
      /\ Cardinality(0 .. SlotChunks(s)) = SlotChunks(s) + 1
  BY <1>1, FS_Interval
<1> QED BY <1>2, FS_Subset, FS_CardinalityType

(* njs_mp_alloc_chunk() finds a free chunk if one is left.                 *)
LEMMA FirstFreeIs ==
    ASSUME PoolAssumption, NEW s \in ChunkSizes, NEW map \in SUBSET (0 .. SlotChunks(s)),
           Cardinality(map) # SlotChunks(s) + 1
    PROVE  FirstFree(map) \in (0 .. SlotChunks(s)) \ map
<1> DEFINE K == SlotChunks(s)
           T == (0 .. K) \ map
<1>1. K \in Nat /\ K <= PageSize /\ PageSize \in Nat
  <2>1. s \in Nat \ {0} /\ K \in Nat /\ PageSize = s * (K + 1) /\ PageSize \in Nat
    BY ChunkSizeIs, Sizes
  <2> HIDE DEF K
  <2> QED BY <2>1
<1>2. T # {} /\ T \subseteq Nat
  <2>1. Cardinality(0 .. K) = K + 1
    BY MapFinite
  <2>2. map # 0 .. K
    BY <2>1
  <2>3. T # {}
    BY <2>2
  <2> QED BY <2>3
<1>3. PICK m \in T : \A k \in T : m <= k
  BY <1>2, LeastNumber
<1> HIDE DEF K
<1>4. m \in 0 .. K /\ m \in 0 .. PageSize /\ m \notin map /\ m \in Nat
  BY <1>1, <1>3
<1>5. \A j \in 0 .. m - 1 : j \in map
  BY <1>1, <1>3, <1>4
<1> DEFINE f == FirstFree(map)
<1>6. f \in 0 .. PageSize /\ f \notin map /\ \A j \in 0 .. f - 1 : j \in map
  BY <1>4, <1>5 DEF FirstFree
<1>7. f \in Nat
  BY <1>1, <1>6
<1> HIDE DEF f
<1>8. f = m
  <2>1. ~ f < m
    BY <1>4, <1>5, <1>6, <1>7
  <2>2. ~ m < f
    BY <1>4, <1>6, <1>7
  <2> QED BY <1>4, <1>7, <2>1, <2>2
<1> QED BY <1>4, <1>8 DEF f, K

(* njs_mp_alloc_small() divides a page and returns its first chunk.        *)
LEMMA GoodFirst ==
    ASSUME PoolAssumption, NEW s \in ChunkSizes, NEW n \in Nat, NEW r \in Chunk,
           r.offset = n * PageSize, r.size <= s, Divides(r.align, s),
           NEW p, p.size = Shifted(s), p.chunks = SlotChunks(s), p.map = {0}
    PROVE  ChunkedGood(p, {r}, s) /\ r.offset \div PageSize = n
<1>1. 0 \in 0 .. SlotChunks(s) /\ SlotChunks(s) \in Nat /\ s \in Nat
  BY ChunkSizeIs
<1>2. r.offset = n * PageSize + 0 * s
  BY <1>1, Sizes
<1>3. r.offset \div PageSize = n /\ ChunkFits(r, s) /\ Index(r, s) = 0
  BY <1>1, <1>2, ChunkOffset DEF ChunkFits, Index
<1>4. Cardinality({0}) = 1
  BY FS_Singleton
<1> QED BY <1>1, <1>3, <1>4 DEF ChunkedGood

(* It returns one more chunk.                                              *)
LEMMA GoodMore ==
    ASSUME PoolAssumption, NEW s \in ChunkSizes, NEW n \in Nat,
           NEW p \in PageType, NEW H \in SUBSET Chunk, ChunkedGood(p, H, s), p.chunks > 0,
           NEW r \in Chunk, r.offset = Place(n, FirstFree(p.map), s),
           r.size <= s, Divides(r.align, s),
           NEW a, a.size = p.size, a.chunks = p.chunks - 1,
           a.map = p.map \cup {FirstFree(p.map)},
           NEW G, G = H \cup {r}
    PROVE  ChunkedGood(a, G, s) /\ r.offset \div PageSize = n
<1> DEFINE i == FirstFree(p.map)
           K == SlotChunks(s)
<1>1. /\ p.size = Shifted(s) /\ p.map \in SUBSET (0 .. K)
      /\ p.chunks + Cardinality(p.map) = K + 1
      /\ p.map = {Index(q, s) : q \in H}
      /\ \A q \in H : ChunkFits(q, s)
      /\ \A q, x \in H : q.offset = x.offset => q = x
  BY DEF ChunkedGood
<1>2. p.chunks \in Nat /\ p.map \subseteq Nat /\ K \in Nat /\ s \in Nat
  BY ChunkSizeIs DEF PageType
<1>3. IsFiniteSet(p.map) /\ Cardinality(p.map) \in Nat
  BY <1>1, MapFinite
<1>4. Cardinality(p.map) # K + 1
  BY <1>1, <1>2, <1>3
<1>5. i \in 0 .. K /\ i \notin p.map
  BY <1>1, <1>4, FirstFreeIs
<1> HIDE DEF i, K
<1>6. Cardinality(a.map) = Cardinality(p.map) + 1
  <2>1. a.map = p.map \cup {i}
    BY DEF i
  <2>2. Cardinality(p.map \cup {i}) = Cardinality(p.map) + 1
    BY <1>3, <1>5, FS_AddElement
  <2> QED BY <2>1, <2>2
<1>7. a.chunks + Cardinality(a.map) = K + 1
  BY <1>1, <1>2, <1>3, <1>6
<1>8. r.offset \div PageSize = n /\ ChunkFits(r, s) /\ Index(r, s) = i
  BY <1>5, ChunkOffset DEF ChunkFits, Index, Place, i, K
<1>9. a.map = {Index(q, s) : q \in H \cup {r}}
  BY <1>1, <1>8 DEF i
<1>10. \A q \in H : q.offset # r.offset
  BY <1>1, <1>5, <1>8 DEF Index
<1>11. \A q, x \in H \cup {r} : q.offset = x.offset => q = x
  BY <1>1, <1>10
<1>12. a.map \subseteq 0 .. K /\ a.map # {}
  BY <1>1, <1>5 DEF i
<1> QED BY <1>1, <1>7, <1>8, <1>9, <1>11, <1>12 DEF ChunkedGood, K

(* What a caller holds of a page, without the chunk at an offset.          *)
Without1(H, offset) == {r \in H : r.offset # offset}

(* The offsets of a page that are the start of a busy chunk.               *)
BusyAt(p, s, n, offset) ==
    /\ offset \div PageSize = n
    /\ (offset % PageSize) % s = 0
    /\ (offset % PageSize) \div s \in p.map

LEMMA BusyChunk ==
    ASSUME PoolAssumption, NEW s \in ChunkSizes, NEW n \in Nat, NEW p,
           NEW H \in SUBSET Chunk, ChunkedGood(p, H, s),
           \A r \in H : r.offset \div PageSize = n,
           NEW offset \in Nat, BusyAt(p, s, n, offset)
    PROVE  \A r \in H :
              r.offset = offset <=> Index(r, s) = (offset % PageSize) \div s
<1> SUFFICES ASSUME NEW r \in H
             PROVE  r.offset = offset <=> Index(r, s) = (offset % PageSize) \div s
  OBVIOUS
<1>1. /\ r.offset \in Nat /\ s \in Nat \ {0}
      /\ r.offset \div PageSize = offset \div PageSize
      /\ (r.offset % PageSize) % s = 0 /\ (offset % PageSize) % s = 0
  BY ChunkSizeIs DEF Chunk, ChunkedGood, ChunkFits, BusyAt
<1>2. Index(r, s) = (offset % PageSize) \div s => r.offset = offset
  BY <1>1, SameOffset DEF Index
<1> QED BY <1>2 DEF Index

(* njs_mp_chunk_free() of one chunk of several.                            *)
LEMMA GoodLess ==
    ASSUME PoolAssumption, NEW s \in ChunkSizes, NEW n \in Nat,
           NEW p \in PageType, NEW H \in SUBSET Chunk, ChunkedGood(p, H, s),
           p.chunks # SlotChunks(s),
           \A r \in H : r.offset \div PageSize = n,
           NEW offset \in Nat, BusyAt(p, s, n, offset),
           NEW a, a.size = p.size, a.chunks = p.chunks + 1,
           a.map = p.map \ {(offset % PageSize) \div s}
    PROVE  ChunkedGood(a, Without1(H, offset), s)
<1> DEFINE i == (offset % PageSize) \div s
           K == SlotChunks(s)
           G == Without1(H, offset)
<1>1. /\ p.size = Shifted(s) /\ p.map \in SUBSET (0 .. K)
      /\ p.chunks + Cardinality(p.map) = K + 1
      /\ p.map = {Index(q, s) : q \in H}
      /\ \A q \in H : ChunkFits(q, s)
      /\ \A q, x \in H : q.offset = x.offset => q = x
  BY DEF ChunkedGood
<1>2. p.chunks \in Nat /\ K \in Nat /\ i \in p.map
  BY ChunkSizeIs DEF PageType, BusyAt
<1>3. IsFiniteSet(p.map) /\ Cardinality(p.map) \in Nat
  BY <1>1, MapFinite
<1>4. \A r \in H : r.offset = offset <=> Index(r, s) = i
  BY BusyChunk
<1> HIDE DEF i, K
<1>5. Cardinality(a.map) = Cardinality(p.map) - 1
  <2>1. a.map = p.map \ {i}
    BY DEF i
  <2>2. Cardinality(p.map \ {i}) = Cardinality(p.map) - 1
    BY <1>2, <1>3, FS_RemoveElement
  <2> QED BY <2>1, <2>2
<1>6. a.chunks + Cardinality(a.map) = K + 1
  BY <1>1, <1>2, <1>3, <1>5
<1>7. Cardinality(p.map) # 1
  BY <1>1, <1>2, <1>3 DEF K
<1>8. a.map # {}
  <2>1. p.map # {i}
    BY <1>7, FS_Singleton
  <2> QED BY <1>2, <2>1 DEF i
<1>9. a.map = {Index(q, s) : q \in G}
  BY <1>1, <1>4 DEF i, Without1
<1> QED BY <1>1, <1>6, <1>8, <1>9 DEF ChunkedGood, K, Without1

(* It frees the page with its last chunk.                                  *)
LEMMA GoodLast ==
    ASSUME PoolAssumption, NEW s \in ChunkSizes, NEW n \in Nat,
           NEW p \in PageType, NEW H \in SUBSET Chunk, ChunkedGood(p, H, s),
           p.chunks = SlotChunks(s),
           \A r \in H : r.offset \div PageSize = n,
           NEW offset \in Nat, BusyAt(p, s, n, offset)
    PROVE  Without1(H, offset) = {}
<1> DEFINE i == (offset % PageSize) \div s
           K == SlotChunks(s)
<1>1. /\ p.map \in SUBSET (0 .. K)
      /\ p.chunks + Cardinality(p.map) = K + 1
      /\ p.map = {Index(q, s) : q \in H}
  BY DEF ChunkedGood
<1>2. K \in Nat /\ i \in p.map
  BY ChunkSizeIs DEF BusyAt
<1>3. IsFiniteSet(p.map) /\ Cardinality(p.map) \in Nat
  BY <1>1, MapFinite
<1>4. \A r \in H : r.offset = offset <=> Index(r, s) = i
  BY BusyChunk
<1> HIDE DEF i, K
<1>5. Cardinality(p.map) = 1
  BY <1>1, <1>2, <1>3 DEF K
<1>6. PICK x : p.map = {x}
  BY <1>3, <1>5, FS_Singleton
<1>7. \A r \in H : Index(r, s) = i
  BY <1>1, <1>2, <1>6
<1> QED BY <1>4, <1>7 DEF Without1

LEMMA GoodWholeLast ==
    ASSUME PoolAssumption, NEW n \in Nat, NEW p, NEW H \in SUBSET Chunk, WholeGood(p, H),
           \A r \in H : r.offset \div PageSize = n,
           NEW offset \in Nat, offset \div PageSize = n, offset % PageSize = 0
    PROVE  Without1(H, offset) = {}
<1>1. \A r \in H : r.offset \in Nat /\ r.offset % PageSize = 0
  BY DEF WholeGood, WholeFits, Chunk
<1>2. \A x \in Nat : x % PageSize = 0 /\ x \div PageSize = n => x = n * PageSize
  <2> SUFFICES ASSUME NEW x \in Nat, x % PageSize = 0, x \div PageSize = n
               PROVE  x = n * PageSize
    OBVIOUS
  <2>1. PageSize \in Nat \ {0}
    BY Sizes
  <2>2. x = (x \div PageSize) * PageSize + (x % PageSize)
    BY <2>1, DivMod
  <2> QED BY <2>1, <2>2
<1>3. \A r \in H : r.offset = offset
  BY <1>1, <1>2
<1> QED BY <1>3 DEF Without1

-----------------------------------------------------------------------------
(* The queues of pages.  *)

IsQueue(q) == q \in Seq(Pages) /\ Distinct(q)

LEMMA WithoutIs ==
    ASSUME NEW q, IsQueue(q), NEW pg
    PROVE  IsQueue(Without(q, pg)) /\ Elems(Without(q, pg)) = Elems(q) \ {pg}
<1>1. CASE pg \in Elems(q)
  BY <1>1, UnlinkDistinct DEF IsQueue, Without
<1>2. CASE pg \notin Elems(q)
  BY <1>2 DEF IsQueue, Without
<1> QED BY <1>1, <1>2

(* The loop of njs_mp_chunk_free(), up to its k-th page.                   *)
IsRest(f, q, c, k) ==
    f = [n \in 0 .. k |-> IF n = 0 THEN q ELSE Without(f[n - 1], <<c, n - 1>>)]

LEMMA RestExists ==
    ASSUME NEW q, NEW c
    PROVE  \A k \in Nat : \E f : IsRest(f, q, c, k)
<1> DEFINE T == {k \in Nat : ~ \E f : IsRest(f, q, c, k)}
<1> SUFFICES ASSUME T # {} PROVE FALSE
  OBVIOUS
<1>1. PICK m \in T : \A k \in T : m <= k
  <2>1. T \subseteq Nat
    OBVIOUS
  <2> QED BY <2>1, LeastNumber
<1>2. m # 0
  <2>1. IsRest([n \in 0 .. 0 |-> q], q, c, 0)
    BY DEF IsRest
  <2> QED BY <2>1
<1>3. m \in Nat /\ m - 1 \in Nat /\ m - 1 \notin T
  BY <1>1, <1>2
<1>4. PICK f : IsRest(f, q, c, m - 1)
  BY <1>3
<1> DEFINE g == [n \in 0 .. m |-> IF n = m THEN Without(f[m - 1], <<c, m - 1>>) ELSE f[n]]
<1>5. \A n \in 0 .. m : g[n] = IF n = 0 THEN q ELSE Without(g[n - 1], <<c, n - 1>>)
  <2> SUFFICES ASSUME NEW n \in 0 .. m
               PROVE  g[n] = IF n = 0 THEN q ELSE Without(g[n - 1], <<c, n - 1>>)
    OBVIOUS
  <2>1. \A j \in 0 .. m - 1 : g[j] = f[j]
    BY <1>3
  <2>2. \A j \in 0 .. m - 1 :
           f[j] = IF j = 0 THEN q ELSE Without(f[j - 1], <<c, j - 1>>)
    BY <1>4 DEF IsRest
  <2>3. CASE n = m
    <3>1. g[n] = Without(f[m - 1], <<c, m - 1>>) /\ g[m - 1] = f[m - 1]
      BY <1>2, <1>3, <2>1, <2>3
    <3> QED BY <1>2, <2>3, <3>1
  <2>4. CASE n # m
    <3>1. n \in 0 .. m - 1 /\ (n # 0 => n - 1 \in 0 .. m - 1)
      BY <1>3, <2>4
    <3> HIDE DEF g
    <3> QED BY <2>1, <2>2, <3>1
  <2> QED BY <2>3, <2>4
<1>6. IsRest(g, q, c, m)
  <2>1. g = [n \in 0 .. m |-> g[n]]
    OBVIOUS
  <2> HIDE DEF g
  <2> QED BY <1>5, <2>1 DEF IsRest
<1> QED BY <1>1, <1>6

(* It takes all pages of a cluster out of the queue, and no others.        *)
LEMMA WithoutClusterIs ==
    ASSUME PoolAssumption, NEW q, IsQueue(q), NEW c \in Clusters
    PROVE  /\ IsQueue(WithoutCluster(q, c))
           /\ Elems(WithoutCluster(q, c)) = {pg \in Elems(q) : pg[1] # c}
<1> DEFINE N == PagesPerCluster
           f == CHOOSE g : IsRest(g, q, c, N)
           Good(k) == /\ IsQueue(f[k])
                      /\ Elems(f[k]) = Elems(q) \ {<<c, n>> : n \in 0 .. k - 1}
           T == {k \in 0 .. N : ~ Good(k)}
<1>1. N \in Nat \ {0} /\ Numbers = 0 .. N - 1
  BY Sizes
<1>2. WithoutCluster(q, c) = f[N]
  BY DEF WithoutCluster, IsRest
<1>3. IsRest(f, q, c, N)
  BY <1>1, RestExists
<1> HIDE DEF f, N
<1>4. f[0] = q /\ \A k \in 1 .. N : f[k] = Without(f[k - 1], <<c, k - 1>>)
  BY <1>1, <1>3 DEF IsRest
<1>5. T = {}
  <2> SUFFICES ASSUME T # {} PROVE FALSE
    OBVIOUS
  <2>1. PICK m \in T : \A k \in T : m <= k
    <3>1. T \subseteq Nat
      BY <1>1
    <3> QED BY <3>1, LeastNumber
  <2>2. Good(0)
    BY <1>4
  <2>3. m \in 1 .. N /\ m - 1 \in 0 .. N /\ m - 1 \notin T
    BY <1>1, <2>1, <2>2
  <2>4. Good(m - 1)
    BY <2>3
  <2>5. /\ IsQueue(f[m])
        /\ Elems(f[m]) = Elems(f[m - 1]) \ {<<c, m - 1>>}
    <3>1. f[m] = Without(f[m - 1], <<c, m - 1>>)
      BY <1>4, <2>3
    <3>2. IsQueue(f[m - 1])
      BY <2>4
    <3> QED BY <3>1, <3>2, WithoutIs
  <2>6. \A n : n \in 0 .. m - 1 <=> n \in 0 .. (m - 1) - 1 \/ n = m - 1
    BY <1>1, <2>3
  <2>7. {<<c, n>> : n \in 0 .. m - 1}
           = {<<c, n>> : n \in 0 .. (m - 1) - 1} \cup {<<c, m - 1>>}
    BY <2>6
  <2>8. Good(m)
    BY <2>4, <2>5, <2>7
  <2> QED BY <2>1, <2>8
<1>6. Good(N)
  BY <1>1, <1>5
<1>7. \A pg \in Elems(q) : pg \in {<<c, n>> : n \in 0 .. N - 1} <=> pg[1] = c
  <2> SUFFICES ASSUME NEW pg \in Elems(q)
               PROVE  pg \in {<<c, n>> : n \in Numbers} <=> pg[1] = c
    BY <1>1
  <2>1. pg \in Pages
    BY DEF IsQueue, Elems
  <2> QED BY <2>1, PagePairs
<1> QED BY <1>2, <1>6, <1>7

-----------------------------------------------------------------------------
(* njs_mp_alloc_page().  *)

LEMMA RequestIs ==
    ASSUME PoolAssumption, NEW request \in Requests
    PROVE  /\ request[1] \in Nat \ {0} /\ request[2] \in Nat
           /\ PowerOfTwo(request[1])
           /\ SmallSize(request) \in Nat
           /\ request[1] <= SmallSize(request) /\ request[2] <= SmallSize(request)
<1>1. request \in (Nat \ {0}) \X Nat /\ PowerOfTwo(request[1])
  BY DEF PoolAssumption
<1>2. request[1] \in Nat \ {0} /\ request[2] \in Nat
  BY <1>1
<1> QED BY <1>1, <1>2 DEF SmallSize

LEMMA FreshQueue ==
    ASSUME PoolAssumption, NEW c \in Clusters,
           NEW q, q = [i \in 1 .. (PagesPerCluster - 1) |-> <<c, i>>]
    PROVE  /\ IsQueue(q)
           /\ \A pg \in Pages : pg \in Elems(q) <=> pg[1] = c /\ pg # <<c, 0>>
<1> DEFINE N == PagesPerCluster
<1>1. N \in Nat \ {0} /\ Numbers = 0 .. N - 1
  BY Sizes
<1> HIDE DEF N
<1>2. /\ DOMAIN q = 1 .. N - 1 /\ \A i \in 1 .. N - 1 : q[i] = <<c, i>> /\ i \in Numbers
  BY <1>1 DEF N
<1>3. q \in Seq(Pages)
  <2>1. q = [i \in 1 .. N - 1 |-> q[i]] /\ N - 1 \in Nat
    BY <1>1, <1>2 DEF N
  <2>2. \A i \in 1 .. N - 1 : q[i] \in Pages
    BY <1>2, PagePairs
  <2>3. q \in [1 .. N - 1 -> Pages]
    BY <2>1, <2>2
  <2>4. \A n \in Nat : [1 .. n -> Pages] \subseteq Seq(Pages)
    OBVIOUS
  <2> QED BY <2>1, <2>3, <2>4
<1>4. Distinct(q)
  BY <1>2 DEF Distinct
<1>5. \A pg \in Pages : pg \in Elems(q) <=> pg[1] = c /\ pg # <<c, 0>>
  <2> SUFFICES ASSUME NEW pg \in Pages
               PROVE  pg \in Elems(q) <=> pg[1] = c /\ pg # <<c, 0>>
    OBVIOUS
  <2>1. pg[2] \in 0 .. N - 1 /\ pg = <<pg[1], pg[2]>>
    BY <1>1, PagePairs
  <2>2. pg[1] = c /\ pg # <<c, 0>> <=> pg[1] = c /\ pg[2] \in 1 .. N - 1
    BY <1>1, <2>1
  <2>3. pg \in Elems(q) <=> \E i \in 1 .. N - 1 : pg = <<c, i>>
    BY <1>2 DEF Elems
  <2> QED BY <2>1, <2>2, <2>3
<1> QED BY <1>3, <1>4, <1>5 DEF IsQueue

LEMMA TakeIs ==
    ASSUME PoolAssumption, Typed, FreeList, ClustersGood,
           NEW t \in AllocPage, Take(t)
    PROVE  /\ t.page \in Pages /\ page[t.page].size = 0
           /\ clusters' \subseteq Clusters /\ clusters' = clusters \cup t.new
           /\ \A c : c \in clusters' <=> c \in clusters \/ c = t.page[1]
           /\ IsQueue(free_pages')
           /\ \A pg \in Pages : pg \in Elems(free_pages') <=>
                 pg[1] \in clusters' /\ page[pg].size = 0 /\ pg # t.page
<1>0. /\ free_pages' = t.rest /\ clusters' = clusters \cup t.new
      /\ clusters \subseteq Clusters /\ free_pages \in Seq(Pages)
      /\ Distinct(free_pages)
      /\ \A pg \in Pages : pg \in Elems(free_pages)
            <=> pg[1] \in clusters /\ page[pg].size = 0
  BY DEF Take, Typed, FreeList
<1>1. CASE free_pages # <<>>
  <2>1. t.page = Head(free_pages) /\ t.new = {} /\ t.rest = Tail(free_pages)
    BY <1>1 DEF AllocPage
  <2>2. /\ t.page \in Elems(free_pages) /\ IsQueue(t.rest)
        /\ Elems(t.rest) = Elems(free_pages) \ {t.page}
    BY <1>0, <1>1, <2>1, HeadElems, TailDistinct DEF IsQueue
  <2>3. t.page \in Pages
    BY <1>0, <2>2 DEF Elems
  <2> QED BY <1>0, <2>1, <2>2, <2>3
<1>2. CASE free_pages = <<>>
  <2>1. PICK c \in Clusters \ clusters : t = FreshPages(c)
    BY <1>2 DEF AllocPage
  <2>2. /\ t.page = <<c, 0>> /\ t.new = {c}
        /\ t.rest = [i \in 1 .. (PagesPerCluster - 1) |-> <<c, i>>]
    BY <2>1 DEF FreshPages
  <2>3. /\ IsQueue(t.rest)
        /\ \A pg \in Pages : pg \in Elems(t.rest) <=> pg[1] = c /\ pg # <<c, 0>>
    BY <2>2, FreshQueue
  <2>4. t.page \in Pages /\ t.page[1] = c
    BY <2>2, PagePairs, Sizes
  <2>5. \A pg \in Pages : pg[1] \notin clusters => page[pg].size = 0
    BY DEF ClustersGood
  <2>6. page[t.page].size = 0
    BY <2>1, <2>4, <2>5
  <2>7. Elems(free_pages) = {}
    BY <1>0, <1>2, HeadElems
  <2>8. \A pg \in Pages : pg \in Elems(t.rest) <=>
           pg[1] \in clusters \cup {c} /\ page[pg].size = 0 /\ pg # t.page
    BY <1>0, <2>1, <2>2, <2>3, <2>5, <2>7
  <2> QED BY <1>0, <2>2, <2>3, <2>4, <2>6, <2>8
<1> QED BY <1>1, <1>2

-----------------------------------------------------------------------------
(* What an operation on one page leaves as it is.  *)

LEMMA OnePage ==
    ASSUME PagesGood, NEW pg \in Pages,
           \A x \in Pages : x # pg =>
              page'[x] = page[x] /\ HeldIn(live', x) = HeldIn(live, x),
           PageGood(page'[pg], HeldIn(live', pg))
    PROVE  PagesGood'
<1> SUFFICES ASSUME NEW x \in Pages PROVE PageGood(page'[x], HeldIn(live', x))
  BY DEF PagesGood
<1>1. CASE x = pg
  BY <1>1
<1>2. CASE x # pg
  BY <1>2 DEF PagesGood
<1> QED BY <1>1, <1>2

LEMMA LargesStay ==
    ASSUME LargesGood, large' = large,
           \A r : r.block \in Larges => (r \in live' <=> r \in live)
    PROVE  LargesGood'
<1> SUFFICES ASSUME NEW b \in Larges
             PROVE  /\ large[b] = "none" => \A r \in live' : r.block # b
                    /\ large[b] # "none" => \E r \in live' : r.block = b
                    /\ \A r, q \in live' : r.block = b /\ q.block = b =>
                          r.offset = 0 /\ r = q
  BY DEF LargesGood
<1>1. /\ large[b] = "none" => \A r \in live : r.block # b
      /\ large[b] # "none" => \E r \in live : r.block = b
      /\ \A r, q \in live : r.block = b /\ q.block = b => r.offset = 0 /\ r = q
  BY DEF LargesGood
<1>2. \A r : r.block = b => (r \in live' <=> r \in live)
  OBVIOUS
<1> QED BY <1>1, <1>2

LEMMA HeapTaken ==
    ASSUME HeapIs, NEW t, Take(t), created' = created, large' = large
    PROVE  HeapIs'
<1> DEFINE Rest == UNION {LargeHeap(b, large[b]) : b \in {x \in Larges : large[x] # "none"}}
           Own  == IF created THEN {<<"pool">>} ELSE {}
<1>1. heap = Own \cup ({"cluster", "pages"} \X clusters) \cup Rest
  BY DEF HeapIs
<1>2. /\ heap' = heap \cup ({"cluster", "pages"} \X t.new)
      /\ clusters' = clusters \cup t.new
  BY DEF Take
<1>3. ({"cluster", "pages"} \X clusters) \cup ({"cluster", "pages"} \X t.new)
         = {"cluster", "pages"} \X clusters'
  BY <1>2
<1>4. HeapIs' <=> heap' = Own \cup ({"cluster", "pages"} \X clusters') \cup Rest
  BY DEF HeapIs
<1> HIDE DEF Own, Rest
<1> QED BY <1>1, <1>2, <1>3, <1>4

(* A page that was free is given out, whole or divided.                    *)
LEMMA PageTaken ==
    ASSUME PoolAssumption, IInv, created, NEW t \in AllocPage, Take(t),
           created' = created, large' = large,
           NEW a \in PageType, a.size # 0, page' = [page EXCEPT ![t.page] = a],
           NEW r \in Chunk, live' = live \cup {r},
           r.block = t.page[1], r.offset \div PageSize = t.page[2],
           PageGood(a, {r})
    PROVE  /\ page' \in [Pages -> PageType] /\ page'[t.page] = a
           /\ page[t.page].size = 0 /\ t.page \in Pages
           /\ clusters' \subseteq Clusters /\ free_pages' \in Seq(Pages)
           /\ live' \subseteq Chunk
           /\ HeapIs' /\ NothingLeft' /\ FreeList'
           /\ PagesGood' /\ ClustersGood' /\ LargesGood'
<1> DEFINE pg == t.page
<1>0. /\ Typed /\ HeapIs /\ NothingLeft /\ FreeList /\ PagesGood /\ ClustersGood
      /\ LargesGood
  BY DEF IInv
<1>1. /\ pg \in Pages /\ page[pg].size = 0
      /\ clusters' \subseteq Clusters
      /\ \A c : c \in clusters' <=> c \in clusters \/ c = pg[1]
      /\ IsQueue(free_pages')
      /\ \A x \in Pages : x \in Elems(free_pages') <=>
            x[1] \in clusters' /\ page[x].size = 0 /\ x # pg
  BY <1>0, TakeIs
<1>2. page \in [Pages -> PageType] /\ live \subseteq Chunk
  BY <1>0 DEF Typed
<1>3. /\ page' \in [Pages -> PageType] /\ page'[pg] = a
      /\ \A x \in Pages : x # pg => page'[x] = page[x]
  BY <1>1, <1>2
<1> HIDE DEF pg
<1>4. HeapIs'
  BY <1>0, HeapTaken
<1>5. NothingLeft'
  BY DEF NothingLeft
<1>6. FreeList'
  <2>1. \A x \in Pages : page'[x].size = 0 <=> page[x].size = 0 /\ x # pg
    BY <1>1, <1>3
  <2> QED BY <1>1, <2>1 DEF FreeList, IsQueue
<1>7. PagesGood'
  <2>1. HeldIn(live, pg) = {}
    BY <1>0, <1>1, GoodHeld DEF PagesGood
  <2>2. HeldIn(live', pg) = {r}
    <3>1. HeldIn(live', pg) = HeldIn(live, pg) \cup {r}
      BY HeldAdded, Zenon DEF pg
    <3> QED BY <2>1, <3>1
  <2>3. \A x \in Pages : x # pg => HeldIn(live', x) = HeldIn(live, x)
    <3> SUFFICES ASSUME NEW x \in Pages, x # pg
                 PROVE  HeldIn(live', x) = HeldIn(live, x)
      OBVIOUS
    <3>1. r.block # x[1] \/ r.offset \div PageSize # x[2]
      BY <1>1, PagePairs DEF pg
    <3> QED BY <3>1, HeldAdded, Zenon
  <2> QED BY <1>0, <1>1, <1>3, <2>2, <2>3, OnePage
<1>8. ClustersGood'
  <2>0. pg[1] \in Clusters /\ pg[2] \in Numbers /\ pg = <<pg[1], pg[2]>>
    BY <1>1, PagePairs
  <2>1. \A x \in Pages : x[1] \notin clusters' => page'[x].size = 0
    BY <1>0, <1>1, <1>3 DEF ClustersGood
  <2>2. \A c \in clusters' : \E n \in Numbers : page'[<<c, n>>].size # 0
    <3> SUFFICES ASSUME NEW c \in clusters'
                 PROVE  \E n \in Numbers : page'[<<c, n>>].size # 0
      OBVIOUS
    <3>1. CASE c = pg[1]
      <4>1. <<c, pg[2]>> = pg
        BY <2>0, <3>1
      <4> QED BY <1>3, <2>0, <4>1
    <3>2. CASE c # pg[1]
      <4>1. PICK n \in Numbers : page[<<c, n>>].size # 0
        BY <1>0, <1>1, <3>2 DEF ClustersGood
      <4>2. <<c, n>> \in Pages /\ <<c, n>> # pg
        BY <1>1, <4>1, PagePairs
      <4> QED BY <1>3, <4>1, <4>2
    <3> QED BY <3>1, <3>2
  <2>3. \A q \in live' : q.block \in Clusters => q.offset \div PageSize \in Numbers
    BY <1>0, <2>0 DEF ClustersGood, pg
  <2> QED BY <2>1, <2>2, <2>3 DEF ClustersGood
<1>9. LargesGood'
  <2>1. r.block \notin Larges
    BY <1>1, PagePairs DEF PoolAssumption, pg
  <2> QED BY <1>0, <2>1, LargesStay
<1>10. live' \subseteq Chunk
  BY <1>2
<1> QED BY <1>1, <1>3, <1>4, <1>5, <1>6, <1>7, <1>8, <1>9, <1>10 DEF pg, IsQueue

-----------------------------------------------------------------------------
(* The allocations.  *)

Got(b, offset, request) ==
    [block |-> b, offset |-> offset, align |-> request[1], size |-> request[2]]

LEMMA GotIs ==
    ASSUME NEW b, NEW offset, NEW request, NEW r, r = Got(b, offset, request)
    PROVE  /\ r.block = b /\ r.offset = offset
           /\ r.align = request[1] /\ r.size = request[2]
           /\ (b \in Clusters \cup Larges /\ offset \in Nat
               /\ request[1] \in Nat \ {0} /\ request[2] \in Nat) => r \in Chunk
BY DEF Got, Chunk

LEMMA ReturnedIs ==
    ASSUME NEW b, NEW offset, NEW request, Returned(b, offset, request)
    PROVE  live' = live \cup {Got(b, offset, request)}
BY DEF Returned, Got

(* The slot of a small request has chunks that are large enough for it and *)
(* for its alignment.                                                      *)
LEMMA SlotFits ==
    ASSUME PoolAssumption, NEW request \in Requests, 2 * SmallSize(request) <= PageSize,
           NEW s, s = Slot(SmallSize(request))
    PROVE  s \in ChunkSizes /\ request[2] <= s /\ Divides(request[1], s)
<1>1. /\ request[1] \in Nat \ {0} /\ request[2] \in Nat /\ PowerOfTwo(request[1])
      /\ SmallSize(request) \in Nat
      /\ request[1] <= SmallSize(request) /\ request[2] <= SmallSize(request)
  BY RequestIs
<1>2. s \in ChunkSizes /\ SmallSize(request) <= s
  BY <1>1, SlotIs
<1>3. s \in Nat /\ PowerOfTwo(s)
  BY <1>2, ChunkSizeIs
<1>4. request[1] <= s /\ request[2] <= s
  BY <1>1, <1>2, <1>3
<1> QED BY <1>1, <1>2, <1>3, <1>4, PowersDivide

LEMMA FirstChunkStep ==
    ASSUME PoolAssumption, IInv, NEW request \in Requests, AllocFirstChunk(request)
    PROVE  IInv'
<1> DEFINE s == Slot(SmallSize(request))
<1>0. /\ created /\ 2 * SmallSize(request) <= PageSize /\ created' = created
      /\ large' = large /\ created \in BOOLEAN
      /\ slots \in [ChunkSizes -> Seq(Pages)] /\ page \in [Pages -> PageType]
      /\ large \in [Larges -> {"none", "embedded", "discrete"}]
  BY DEF AllocFirstChunk, IInv, Typed
<1>1. PICK t \in AllocPage :
         /\ Take(t)
         /\ page' = [page EXCEPT ![t.page] = [size |-> Shifted(s),
                                  chunks |-> SlotChunks(s), map |-> {0}]]
         /\ slots' = [slots EXCEPT ![s] = <<t.page>> \o @]
         /\ Returned(t.page[1], t.page[2] * PageSize, request)
  BY DEF AllocFirstChunk
<1>2. s \in ChunkSizes /\ request[2] <= s /\ Divides(request[1], s)
  BY <1>0, SlotFits
<1> HIDE DEF s
<1> DEFINE a == [size |-> Shifted(s), chunks |-> SlotChunks(s), map |-> {0}]
           r == Got(t.page[1], t.page[2] * PageSize, request)
<1>3. /\ a \in PageType /\ a.size = Shifted(s) /\ a.size # 0
      /\ a.chunks = SlotChunks(s) /\ a.chunks > 0 /\ a.map = {0}
  BY <1>2, ChunkSizeIs DEF PageType
<1>4. page' = [page EXCEPT ![t.page] = a] /\ live' = live \cup {r}
  BY <1>1, ReturnedIs
<1> HIDE DEF a
<1>5. t.page \in Pages /\ t.page[1] \in Clusters /\ t.page[2] \in Nat
  <2>1. t.page \in Pages
    BY <1>1, TakeIs DEF IInv
  <2> QED BY <2>1, PagePairs, Sizes
<1>6. /\ r \in Chunk /\ r.block = t.page[1] /\ r.offset = t.page[2] * PageSize
      /\ r.align = request[1] /\ r.size = request[2]
  <2>1. t.page[2] * PageSize \in Nat
    BY <1>5, Sizes
  <2> QED BY <1>5, <2>1, GotIs, RequestIs
<1> HIDE DEF r
<1>7. ChunkedGood(a, {r}, s) /\ r.offset \div PageSize = t.page[2]
  BY <1>2, <1>3, <1>5, <1>6, GoodFirst
<1>8. PageGood(a, {r})
  BY <1>2, <1>7 DEF PageGood
<1>9. /\ page' \in [Pages -> PageType] /\ page'[t.page] = a
      /\ page[t.page].size = 0 /\ t.page \in Pages
      /\ clusters' \subseteq Clusters /\ free_pages' \in Seq(Pages)
      /\ live' \subseteq Chunk
      /\ HeapIs' /\ NothingLeft' /\ FreeList'
      /\ PagesGood' /\ ClustersGood' /\ LargesGood'
  BY <1>0, <1>1, <1>3, <1>4, <1>6, <1>7, <1>8, PageTaken
<1>10. \A x \in Pages : x # t.page => page'[x] = page[x]
  BY <1>0, <1>4
<1>11. \A u \in ChunkSizes : t.page \notin Elems(slots[u])
  BY <1>9, ChunkSizeIs DEF IInv, SlotLists, InSlot
<1>12. slots[s] \in Seq(Pages) /\ Distinct(slots[s])
  BY <1>0, <1>2 DEF IInv, SlotLists
<1>13. /\ <<t.page>> \o slots[s] \in Seq(Pages)
       /\ Elems(<<t.page>> \o slots[s]) = Elems(slots[s]) \cup {t.page}
       /\ Distinct(<<t.page>> \o slots[s])
  BY <1>2, <1>5, <1>11, <1>12, PrependDistinct
<1>14. /\ slots' \in [ChunkSizes -> Seq(Pages)]
       /\ slots'[s] = <<t.page>> \o slots[s]
       /\ \A u \in ChunkSizes : u # s => slots'[u] = slots[u]
  BY <1>0, <1>1, <1>2, <1>13
<1>15. SlotLists'
  <2> SUFFICES ASSUME NEW u \in ChunkSizes
               PROVE  /\ Distinct(slots'[u])
                      /\ \A x \in Pages : x \in Elems(slots'[u]) <=> InSlot(page'[x], u)
    BY DEF SlotLists
  <2>1. InSlot(a, u) <=> u = s
    BY <1>2, <1>3, ChunkSizesDiffer DEF InSlot
  <2>2. /\ Distinct(slots[u])
        /\ \A x \in Pages : x \in Elems(slots[u]) <=> InSlot(page[x], u)
    BY DEF IInv, SlotLists
  <2>3. CASE u = s
    BY <1>9, <1>10, <1>13, <1>14, <2>1, <2>2, <2>3
  <2>4. CASE u # s
    BY <1>9, <1>10, <1>11, <1>14, <2>1, <2>2, <2>4
  <2> QED BY <2>3, <2>4
<1>16. Typed'
  BY <1>0, <1>9, <1>14 DEF Typed
<1> QED BY <1>9, <1>15, <1>16 DEF IInv

LEMMA WholePageStep ==
    ASSUME PoolAssumption, IInv, NEW request \in Requests, AllocWholePage(request)
    PROVE  IInv'
<1>0. /\ created /\ IsSmall(request) /\ created' = created
      /\ large' = large /\ slots' = slots /\ created \in BOOLEAN
      /\ slots \in [ChunkSizes -> Seq(Pages)] /\ page \in [Pages -> PageType]
      /\ large \in [Larges -> {"none", "embedded", "discrete"}]
  BY DEF AllocWholePage, IInv, Typed
<1>1. PICK t \in AllocPage :
         /\ Take(t)
         /\ page' = [page EXCEPT ![t.page].size = Shifted(PageSize)]
         /\ Returned(t.page[1], t.page[2] * PageSize, request)
  BY DEF AllocWholePage
<1>2. t.page \in Pages /\ t.page[1] \in Clusters /\ t.page[2] \in Nat
  <2>1. t.page \in Pages
    BY <1>1, TakeIs DEF IInv
  <2> QED BY <2>1, PagePairs, Sizes
<1> DEFINE a == [page[t.page] EXCEPT !.size = Shifted(PageSize)]
           r == Got(t.page[1], t.page[2] * PageSize, request)
<1>3. a \in PageType /\ a.size = Shifted(PageSize) /\ a.size # 0
  <2>1. page[t.page] \in PageType
    BY <1>0, <1>2
  <2> QED BY <2>1, PageSizeIs DEF PageType
<1>4. page' = [page EXCEPT ![t.page] = a] /\ live' = live \cup {r}
  BY <1>0, <1>1, <1>2, ReturnedIs
<1> HIDE DEF a
<1>5. /\ r \in Chunk /\ r.block = t.page[1] /\ r.offset = t.page[2] * PageSize
      /\ r.align = request[1] /\ r.size = request[2]
  <2>1. t.page[2] * PageSize \in Nat
    BY <1>2, Sizes
  <2> QED BY <1>2, <2>1, GotIs, RequestIs
<1> HIDE DEF r
<1>6. r.offset \div PageSize = t.page[2] /\ r.offset % PageSize = 0
  <2>1. t.page[2] * PageSize = PageSize * t.page[2]
    BY <1>2, Sizes
  <2> QED BY <1>2, <1>5, <2>1, Sizes, MultipleMod
<1>7. r.size <= PageSize /\ Divides(r.align, PageSize)
  <2>1. /\ request[1] \in Nat \ {0} /\ PowerOfTwo(request[1])
        /\ request[2] \in Nat /\ SmallSize(request) \in Nat
        /\ request[2] <= SmallSize(request)
    BY RequestIs
  <2>2. request[1] <= PageSize /\ request[2] <= PageSize
    BY <1>0, <2>1, Sizes DEF IsSmall
  <2> QED BY <1>5, <2>1, <2>2, Sizes, PowersDivide
<1>8. PageGood(a, {r})
  <2>1. WholeFits(r)
    BY <1>6, <1>7 DEF WholeFits
  <2> QED BY <1>3, <2>1 DEF PageGood, WholeGood
<1>9. /\ page' \in [Pages -> PageType] /\ page'[t.page] = a
      /\ page[t.page].size = 0 /\ t.page \in Pages
      /\ clusters' \subseteq Clusters /\ free_pages' \in Seq(Pages)
      /\ live' \subseteq Chunk
      /\ HeapIs' /\ NothingLeft' /\ FreeList'
      /\ PagesGood' /\ ClustersGood' /\ LargesGood'
  BY <1>0, <1>1, <1>3, <1>4, <1>5, <1>6, <1>8, PageTaken
<1>10. \A x \in Pages : x # t.page => page'[x] = page[x]
  BY <1>0, <1>4
<1>11. SlotLists'
  <2>1. \A x \in Pages, u \in ChunkSizes : InSlot(page'[x], u) <=> InSlot(page[x], u)
    <3> SUFFICES ASSUME NEW x \in Pages, NEW u \in ChunkSizes
                 PROVE  InSlot(page'[x], u) <=> InSlot(page[x], u)
      OBVIOUS
    <3>1. CASE x = t.page
      <4>1. Shifted(u) # 0 /\ Shifted(u) # Shifted(PageSize)
        BY ChunkSizeIs, PageSizeIs
      <4> QED BY <1>3, <1>9, <3>1, <4>1 DEF InSlot
    <3>2. CASE x # t.page
      BY <1>10, <3>2
    <3> QED BY <3>1, <3>2
  <2> QED BY <1>0, <2>1 DEF IInv, SlotLists
<1>12. Typed'
  BY <1>0, <1>9 DEF Typed
<1> QED BY <1>9, <1>11, <1>12 DEF IInv

LEMMA SizesStay ==
    ASSUME clusters \subseteq Clusters, FreeList, ClustersGood, clusters' = clusters, free_pages' = free_pages,
           \A x \in Pages : page'[x].size = page[x].size,
           \A r \in live' : r.block \in Clusters => r.offset \div PageSize \in Numbers
    PROVE  FreeList' /\ ClustersGood'
<1>1. FreeList'
  BY DEF FreeList
<1>2. \A c \in clusters : \E n \in Numbers : page'[<<c, n>>].size # 0
  <2> SUFFICES ASSUME NEW c \in clusters
               PROVE  \E n \in Numbers : page'[<<c, n>>].size # 0
    OBVIOUS
  <2>1. PICK n \in Numbers : page[<<c, n>>].size # 0
    BY DEF ClustersGood
  <2> QED BY <2>1, PagePairs
<1>3. \A x \in Pages : x[1] \notin clusters => page'[x].size = 0
  BY DEF ClustersGood
<1> QED BY <1>1, <1>2, <1>3 DEF ClustersGood

LEMMA ChunkStep ==
    ASSUME PoolAssumption, IInv, NEW request \in Requests, AllocChunk(request)
    PROVE  IInv'
<1> DEFINE s == Slot(SmallSize(request))
           pg == Head(slots[s])
           p == page[pg]
           i == FirstFree(p.map)
           r == Got(pg[1], pg[2] * PageSize + i * s, request)
           H == HeldIn(live, pg)
<1>0. /\ created /\ created' = created /\ clusters' = clusters
      /\ free_pages' = free_pages /\ large' = large /\ heap' = heap
      /\ 2 * SmallSize(request) <= PageSize /\ slots[s] # <<>>
      /\ page' = [page EXCEPT ![pg].map = @ \cup {i}, ![pg].chunks = @ - 1]
      /\ slots' = [slots EXCEPT ![s] = IF p.chunks = 1 THEN Without(@, pg) ELSE @]
      /\ live' = live \cup {r}
  BY ReturnedIs DEF AllocChunk
<1>1. /\ slots \in [ChunkSizes -> Seq(Pages)] /\ page \in [Pages -> PageType]
      /\ live \subseteq Chunk /\ free_pages \in Seq(Pages) /\ clusters \subseteq Clusters
      /\ large \in [Larges -> {"none", "embedded", "discrete"}] /\ created \in BOOLEAN
  BY DEF IInv, Typed
<1>2. s \in ChunkSizes /\ request[2] <= s /\ Divides(request[1], s)
  BY <1>0, SlotFits
<1> HIDE DEF s
<1>3. /\ slots[s] \in Seq(Pages) /\ Distinct(slots[s])
      /\ \A x \in Pages : x \in Elems(slots[s]) <=> InSlot(page[x], s)
  BY <1>1, <1>2 DEF IInv, SlotLists
<1>4. pg \in Elems(slots[s])
  BY <1>0, <1>3, HeadElems
<1>5. pg \in Pages
  BY <1>3, <1>4 DEF Elems
<1> HIDE DEF pg
<1>6. /\ p \in PageType /\ p.size = Shifted(s) /\ p.chunks > 0 /\ p.chunks \in Nat
      /\ p.map \subseteq Nat
  BY <1>1, <1>3, <1>4, <1>5 DEF InSlot, PageType
<1>7. pg[1] \in Clusters /\ pg[2] \in Numbers /\ pg[2] \in Nat /\ pg = <<pg[1], pg[2]>>
  BY <1>5, PagePairs, Sizes
<1>8. ChunkedGood(p, H, s) /\ H \subseteq Chunk
  <2>1. PageGood(p, H)
    BY <1>5 DEF IInv, PagesGood
  <2> QED BY <1>1, <1>2, <1>6, <2>1, GoodChunked DEF HeldIn
<1> HIDE DEF i
<1>9. i \in 0 .. SlotChunks(s)
  <2>1. /\ p.map \in SUBSET (0 .. SlotChunks(s)) /\ SlotChunks(s) \in Nat
        /\ p.chunks + Cardinality(p.map) = SlotChunks(s) + 1
    BY <1>2, <1>8, ChunkSizeIs DEF ChunkedGood
  <2>2. Cardinality(p.map) \in Nat
    BY <1>2, <2>1, MapFinite
  <2>3. Cardinality(p.map) # SlotChunks(s) + 1
    BY <1>6, <2>1, <2>2
  <2> QED BY <1>2, <2>1, <2>3, FirstFreeIs DEF i
<1>10. /\ r \in Chunk /\ r.block = pg[1] /\ r.offset = pg[2] * PageSize + i * s
       /\ r.align = request[1] /\ r.size = request[2]
  <2>1. pg[2] * PageSize + i * s \in Nat
    BY <1>2, <1>7, <1>9, ChunkOffset
  <2> QED BY <1>7, <2>1, GotIs, RequestIs
<1> HIDE DEF r, p
<1>11. /\ page' \in [Pages -> PageType]
       /\ page'[pg].size = p.size /\ page'[pg].chunks = p.chunks - 1
       /\ page'[pg].map = p.map \cup {i}
       /\ \A x \in Pages : x # pg => page'[x] = page[x]
  <2> DEFINE a == [p EXCEPT !.map = p.map \cup {i}, !.chunks = p.chunks - 1]
  <2>1. page' = [page EXCEPT ![pg] = a]
    BY <1>0, <1>1, <1>5 DEF p
  <2>2. /\ a \in PageType /\ a.size = p.size /\ a.chunks = p.chunks - 1
        /\ a.map = p.map \cup {i}
    <3>1. i \in Nat /\ p.chunks - 1 \in Nat
      BY <1>6, <1>9
    <3> QED BY <1>6, <3>1 DEF PageType
  <2> HIDE DEF a
  <2> QED BY <1>1, <1>5, <2>1, <2>2
<1> HIDE DEF H
<1>12. ChunkedGood(page'[pg], H \cup {r}, s) /\ r.offset \div PageSize = pg[2]
  <2>1. /\ r.offset = Place(pg[2], FirstFree(p.map), s)
        /\ page'[pg].map = p.map \cup {FirstFree(p.map)}
    BY <1>10, <1>11 DEF i, Place
  <2>2. r.size <= s /\ Divides(r.align, s)
    BY <1>2, <1>10
  <2>3. /\ ChunkedGood(p, H, s) /\ H \in SUBSET Chunk /\ p.chunks > 0
        /\ page'[pg].size = p.size /\ page'[pg].chunks = p.chunks - 1
    BY <1>6, <1>8, <1>11
  <2> DEFINE a == page'[pg]
             G == H \cup {r}
  <2>4. /\ a.size = p.size /\ a.chunks = p.chunks - 1
        /\ a.map = p.map \cup {FirstFree(p.map)} /\ G = H \cup {r}
    BY <2>1, <2>3
  <2>5. r \in Chunk /\ pg[2] \in Nat /\ p \in PageType
    BY <1>6, <1>7, <1>10
  <2> HIDE DEF a, G
  <2>6. ChunkedGood(a, G, s) /\ r.offset \div PageSize = pg[2]
    BY <1>2, <2>1, <2>2, <2>3, <2>4, <2>5, GoodMore
  <2> QED BY <2>6 DEF a, G
<1>13. PagesGood'
  <2>1. HeldIn(live', pg) = H \cup {r}
    BY <1>0, <1>10, <1>12, HeldAdded DEF H
  <2>2. PageGood(page'[pg], HeldIn(live', pg))
    BY <1>2, <1>12, <2>1 DEF PageGood
  <2>3. \A x \in Pages : x # pg => HeldIn(live', x) = HeldIn(live, x)
    <3> SUFFICES ASSUME NEW x \in Pages, x # pg
                 PROVE  HeldIn(live', x) = HeldIn(live, x)
      OBVIOUS
    <3>1. r.block # x[1] \/ r.offset \div PageSize # x[2]
      BY <1>5, <1>10, <1>12, PagePairs
    <3> QED BY <1>0, <3>1, HeldAdded
  <2> QED BY <1>5, <1>11, <2>2, <2>3, OnePage DEF IInv
<1>14. FreeList' /\ ClustersGood'
  <2>1. \A q \in live' : q.block \in Clusters => q.offset \div PageSize \in Numbers
    BY <1>0, <1>7, <1>12 DEF IInv, ClustersGood
  <2>2. \A x \in Pages : page'[x].size = page[x].size
    BY <1>11 DEF p
  <2> QED BY <1>0, <1>1, <2>1, <2>2, SizesStay DEF IInv
<1>15. LargesGood'
  <2>1. r.block \notin Larges
    BY <1>7, <1>10 DEF PoolAssumption
  <2> QED BY <1>0, <2>1, LargesStay DEF IInv
<1>16. HeapIs' /\ NothingLeft'
  BY <1>0 DEF IInv, HeapIs, NothingLeft
<1> DEFINE rest == IF p.chunks = 1 THEN Without(slots[s], pg) ELSE slots[s]
<1>17. /\ IsQueue(rest)
       /\ p.chunks = 1 => Elems(rest) = Elems(slots[s]) \ {pg}
       /\ p.chunks # 1 => Elems(rest) = Elems(slots[s])
  BY <1>3, WithoutIs DEF IsQueue
<1> HIDE DEF rest
<1>18. /\ slots' \in [ChunkSizes -> Seq(Pages)] /\ slots'[s] = rest
       /\ \A u \in ChunkSizes : u # s => slots'[u] = slots[u]
  BY <1>0, <1>1, <1>2, <1>17 DEF IsQueue, rest
<1>19. SlotLists'
  <2> SUFFICES ASSUME NEW u \in ChunkSizes
               PROVE  /\ Distinct(slots'[u])
                      /\ \A x \in Pages : x \in Elems(slots'[u]) <=> InSlot(page'[x], u)
    BY DEF SlotLists
  <2>1. /\ Distinct(slots[u])
        /\ \A x \in Pages : x \in Elems(slots[u]) <=> InSlot(page[x], u)
    BY DEF IInv, SlotLists
  <2>2. CASE u = s
    <3>1. InSlot(page'[pg], s) <=> p.chunks # 1
      BY <1>6, <1>11 DEF InSlot
    <3> QED BY <1>4, <1>11, <1>17, <1>18, <2>1, <2>2, <3>1 DEF IsQueue
  <2>3. CASE u # s
    <3>1. ~ InSlot(page'[pg], u) /\ ~ InSlot(page[pg], u)
      BY <1>2, <1>6, <1>11, <2>3, ChunkSizesDiffer DEF InSlot, p
    <3> QED BY <1>11, <1>18, <2>1, <2>3, <3>1
  <2> QED BY <2>2, <2>3
<1>20. Typed'
  <2>1. live' \subseteq Chunk
    BY <1>0, <1>1, <1>10
  <2> QED BY <1>0, <1>1, <1>11, <1>18, <2>1 DEF Typed
<1> QED BY <1>13, <1>14, <1>15, <1>16, <1>19, <1>20 DEF IInv

-----------------------------------------------------------------------------
(* The large blocks.  *)

Blocks(lg) == UNION {LargeHeap(b, lg[b]) : b \in {x \in Larges : lg[x] # "none"}}

Own == (IF created THEN {<<"pool">>} ELSE {}) \cup ({"cluster", "pages"} \X clusters)

LEMMA HeapBlocks ==
    /\ HeapIs <=> heap = Own \cup Blocks(large)
    /\ HeapIs' <=> heap' = Own' \cup Blocks(large')
BY DEF HeapIs, Own, Blocks

LEMMA BlocksAre ==
    ASSUME NEW lg, NEW x
    PROVE  x \in Blocks(lg) <=>
              \E b \in Larges : lg[b] # "none" /\ x \in LargeHeap(b, lg[b])
BY DEF Blocks

LEMMA LargeHeapIs ==
    ASSUME NEW b, NEW type, NEW x
    PROVE  x \in LargeHeap(b, type) <=>
              x = <<"memory", b>> \/ (type = "discrete" /\ x = <<"block", b>>)
BY DEF LargeHeap

LEMMA BlocksDiffer ==
    ASSUME NEW a, NEW b, a # b, NEW s, NEW t
    PROVE  LargeHeap(a, s) \cap LargeHeap(b, t) = {}
<1>1. /\ <<"memory", a>> # <<"memory", b>> /\ <<"block", a>> # <<"block", b>>
      /\ <<"memory", a>> # <<"block", b>> /\ <<"block", a>> # <<"memory", b>>
  OBVIOUS
<1> QED BY <1>1, LargeHeapIs

LEMMA OwnIs ==
    ASSUME NEW x \in Own, NEW b, NEW type
    PROVE  x \notin LargeHeap(b, type)
<1>1. CASE x = <<"pool">>
  <2>1. Len(<<"pool">>) = 1 /\ Len(<<"memory", b>>) = 2 /\ Len(<<"block", b>>) = 2
    OBVIOUS
  <2>2. <<"pool">> # <<"memory", b>> /\ <<"pool">> # <<"block", b>>
    BY <2>1
  <2> QED BY <1>1, <2>2, LargeHeapIs
<1>2. CASE x \in {"cluster", "pages"} \X clusters
  <2>1. x[1] \in {"cluster", "pages"}
    BY <1>2
  <2>2. x # <<"memory", b>> /\ x # <<"block", b>>
    BY <2>1
  <2> QED BY <2>2, LargeHeapIs
<1> QED BY <1>1, <1>2 DEF Own

LEMMA BlockAdded ==
    ASSUME NEW lg, NEW b \in Larges, lg[b] = "none",
           NEW lh, lh[b] # "none", \A x \in Larges : x # b => lh[x] = lg[x]
    PROVE  Blocks(lh) = Blocks(lg) \cup LargeHeap(b, lh[b])
<1>1. \A x : x \in Blocks(lh) <=> x \in Blocks(lg) \/ x \in LargeHeap(b, lh[b])
  BY BlocksAre
<1> QED BY <1>1

LEMMA BlockRemoved ==
    ASSUME NEW lg, NEW b \in Larges, lg[b] # "none",
           NEW lh, lh[b] = "none", \A x \in Larges : x # b => lh[x] = lg[x]
    PROVE  Blocks(lh) = Blocks(lg) \ LargeHeap(b, lg[b])
<1>1. \A x : x \in Blocks(lh) <=> x \in Blocks(lg) /\ x \notin LargeHeap(b, lg[b])
  <2> SUFFICES ASSUME NEW x
               PROVE  x \in Blocks(lh)
                         <=> x \in Blocks(lg) /\ x \notin LargeHeap(b, lg[b])
    OBVIOUS
  <2>1. \A a \in Larges : a # b /\ x \in LargeHeap(a, lg[a])
           => x \notin LargeHeap(b, lg[b])
    BY BlocksDiffer
  <2> QED BY <2>1, BlocksAre
<1> QED BY <1>1

(* The pages are the same before and after.                                *)
LEMMA PagesStay ==
    ASSUME PoolAssumption, IInv, clusters' = clusters, page' = page,
           free_pages' = free_pages, slots' = slots, live' \subseteq Chunk,
           \A r : r.block \in Clusters => (r \in live' <=> r \in live)
    PROVE  FreeList' /\ SlotLists' /\ PagesGood' /\ ClustersGood'
<1>1. FreeList' /\ SlotLists'
  BY DEF IInv, FreeList, SlotLists
<1>2. PagesGood'
  <2>1. \A x \in Pages : HeldIn(live', x) = HeldIn(live, x)
    BY PagePairs DEF HeldIn
  <2> QED BY <2>1 DEF IInv, PagesGood
<1>3. ClustersGood'
  BY DEF IInv, ClustersGood
<1> QED BY <1>1, <1>2, <1>3

LEMMA LargeStep ==
    ASSUME PoolAssumption, IInv, NEW request \in Requests, AllocLarge(request)
    PROVE  IInv'
<1> DEFINE type == IF PowerOfTwo(request[2]) THEN "discrete" ELSE "embedded"
<1>1. type \in {"none", "embedded", "discrete"} /\ type # "none"
  OBVIOUS
<1>2. PICK b \in Larges :
         /\ large[b] = "none" /\ large' = [large EXCEPT ![b] = type]
         /\ heap' = heap \cup LargeHeap(b, type) /\ Returned(b, 0, request)
  BY DEF AllocLarge
<1> HIDE DEF type
<1>3. /\ created /\ created' = created /\ clusters' = clusters /\ page' = page
      /\ free_pages' = free_pages /\ slots' = slots
  BY DEF AllocLarge
<1>4. Typed /\ HeapIs /\ LargesGood
  BY DEF IInv
<1> DEFINE r == Got(b, 0, request)
<1>5. live' = live \cup {r} /\ r.block = b /\ r.offset = 0 /\ r \in Chunk
  BY <1>2, ReturnedIs, RequestIs, GotIs
<1> HIDE DEF r
<1>6. /\ large' \in [Larges -> {"none", "embedded", "discrete"}]
      /\ large'[b] = type /\ \A x \in Larges : x # b => large'[x] = large[x]
  BY <1>1, <1>2, <1>4 DEF Typed
<1>7. Typed'
  BY <1>3, <1>4, <1>5, <1>6 DEF Typed
<1>8. HeapIs'
  <2>1. Blocks(large') = Blocks(large) \cup LargeHeap(b, type)
    <3>1. /\ large[b] = "none" /\ large'[b] # "none"
          /\ \A x \in Larges : x # b => large'[x] = large[x]
      BY <1>1, <1>2, <1>6
    <3>2. Blocks(large') = Blocks(large) \cup LargeHeap(b, large'[b])
      BY <3>1, BlockAdded
    <3> QED BY <1>6, <3>2
  <2>2. heap' = Own \cup Blocks(large')
    BY <1>2, <1>4, <2>1, HeapBlocks
  <2>3. Own' = Own
    BY <1>3 DEF Own
  <2> QED BY <2>2, <2>3, HeapBlocks
<1>9. NothingLeft'
  BY <1>3 DEF NothingLeft
<1>10. FreeList' /\ SlotLists' /\ PagesGood' /\ ClustersGood'
  <2>1. b \notin Clusters
    BY DEF PoolAssumption
  <2>2. live' \subseteq Chunk
    BY <1>7 DEF Typed
  <2> QED BY <1>3, <1>5, <2>1, <2>2, PagesStay
<1>11. LargesGood'
  <2> SUFFICES ASSUME NEW x \in Larges
               PROVE  /\ large'[x] = "none" => \A q \in live' : q.block # x
                      /\ large'[x] # "none" => \E q \in live' : q.block = x
                      /\ \A q, y \in live' : q.block = x /\ y.block = x =>
                            q.offset = 0 /\ q = y
    BY DEF LargesGood
  <2>1. /\ large[x] = "none" => \A q \in live : q.block # x
        /\ large[x] # "none" => \E q \in live : q.block = x
        /\ \A q, y \in live : q.block = x /\ y.block = x => q.offset = 0 /\ q = y
    BY <1>4 DEF LargesGood
  <2>2. CASE x = b
    <3>1. \A q \in live : q.block # b
      BY <1>2, <2>1, <2>2
    <3> QED BY <1>1, <1>5, <1>6, <2>2, <3>1
  <2>3. CASE x # b
    <3>1. \A q : q.block = x => (q \in live' <=> q \in live)
      BY <1>5, <2>3
    <3> QED BY <1>6, <2>1, <2>3, <3>1
  <2> QED BY <2>2, <2>3
<1> QED BY <1>7, <1>8, <1>9, <1>10, <1>11 DEF IInv

LEMMA FreeLargeStep ==
    ASSUME PoolAssumption, IInv, NEW b \in Larges, FreeLarge(b)
    PROVE  IInv'
<1>1. /\ created /\ created' = created /\ clusters' = clusters /\ page' = page
      /\ free_pages' = free_pages /\ slots' = slots /\ large[b] # "none"
      /\ large' = [large EXCEPT ![b] = "none"]
      /\ heap' = heap \ LargeHeap(b, large[b])
      /\ live' = Left(live, b, 0)
  BY DEF FreeLarge, Given, Left
<1>2. Typed /\ HeapIs /\ LargesGood
  BY DEF IInv
<1>3. /\ large' \in [Larges -> {"none", "embedded", "discrete"}]
      /\ large'[b] = "none" /\ \A x \in Larges : x # b => large'[x] = large[x]
  BY <1>1, <1>2 DEF Typed
<1>4. /\ live' \subseteq live
      /\ \A q : q.block # b => (q \in live' <=> q \in live)
      /\ \A q \in live' : q.block = b => q.offset # 0
  BY <1>1 DEF Left
<1>5. Typed'
  BY <1>1, <1>2, <1>3, <1>4 DEF Typed
<1>6. HeapIs'
  <2>1. Blocks(large') = Blocks(large) \ LargeHeap(b, large[b])
    BY <1>1, <1>3, BlockRemoved
  <2>2. heap = Own \cup Blocks(large)
    BY <1>2, HeapBlocks
  <2>3. \A x \in Own : x \notin LargeHeap(b, large[b])
    BY OwnIs
  <2>4. heap' = Own \cup Blocks(large')
    BY <1>1, <2>1, <2>2, <2>3
  <2>5. Own' = Own
    BY <1>1 DEF Own
  <2> QED BY <2>4, <2>5, HeapBlocks
<1>7. NothingLeft'
  BY <1>1 DEF NothingLeft
<1>8. FreeList' /\ SlotLists' /\ PagesGood' /\ ClustersGood'
  <2>1. b \notin Clusters
    BY DEF PoolAssumption
  <2>2. live' \subseteq Chunk
    BY <1>5 DEF Typed
  <2>3. \A r : r.block \in Clusters => (r \in live' <=> r \in live)
    BY <1>4, <2>1
  <2> QED BY <1>1, <2>2, <2>3, PagesStay
<1>9. LargesGood'
  <2> SUFFICES ASSUME NEW x \in Larges
               PROVE  /\ large'[x] = "none" => \A q \in live' : q.block # x
                      /\ large'[x] # "none" => \E q \in live' : q.block = x
                      /\ \A q, y \in live' : q.block = x /\ y.block = x =>
                            q.offset = 0 /\ q = y
    BY DEF LargesGood
  <2>1. /\ large[x] = "none" => \A q \in live : q.block # x
        /\ large[x] # "none" => \E q \in live : q.block = x
        /\ \A q, y \in live : q.block = x /\ y.block = x => q.offset = 0 /\ q = y
    BY <1>2 DEF LargesGood
  <2>2. CASE x = b
    <3>1. \A q \in live' : q.block # b
      BY <1>4, <2>1, <2>2
    <3> QED BY <1>3, <2>2, <3>1
  <2>3. CASE x # b
    <3>1. \A q : q.block = x => (q \in live' <=> q \in live)
      BY <1>4, <2>3
    <3> QED BY <1>3, <2>1, <2>3, <3>1
  <2> QED BY <2>2, <2>3
<1> QED BY <1>5, <1>6, <1>7, <1>8, <1>9 DEF IInv

-----------------------------------------------------------------------------
(* njs_mp_free() of an address in a cluster.  *)

LEMMA OffsetIs ==
    ASSUME PoolAssumption, NEW offset \in Offsets
    PROVE  /\ offset \in Nat /\ offset \div PageSize \in Numbers
<1> DEFINE n == offset \div PageSize
           x == offset % PageSize
           N == PagesPerCluster
           P == PageSize
<1>1. /\ P \in Nat \ {0} /\ N \in Nat \ {0} /\ Numbers = 0 .. N - 1
      /\ offset \in Nat /\ offset <= N * P - 1 /\ N * P \in Nat
  BY Sizes DEF Offsets
<1>2. n \in Nat /\ x \in Nat /\ offset = n * P + x
  <2>1. offset \in Nat /\ PageSize \in Nat \ {0}
    BY <1>1
  <2>2. /\ offset \div PageSize \in Nat /\ offset % PageSize \in 0 .. PageSize - 1
        /\ offset = (offset \div PageSize) * PageSize + (offset % PageSize)
    BY <2>1, DivMod
  <2>3. offset % PageSize \in Nat
    BY <2>1, <2>2
  <2> QED BY <2>2, <2>3
<1> HIDE DEF n, x, N, P
<1>3. n < N
  <2> SUFFICES ASSUME N <= n PROVE FALSE
    BY <1>1, <1>2
  <2>1. N * P <= n * P /\ n * P \in Nat
    BY <1>1, <1>2
  <2> QED BY <1>1, <1>2, <2>1
<1> QED BY <1>1, <1>2, <1>3 DEF n

(* What njs_mp_chunk_free() finds at an address that it accepts.           *)
LEMMA BusyIs ==
    ASSUME PoolAssumption, IInv, NEW c \in Clusters, NEW offset \in Nat,
           offset \div PageSize \in Numbers, Busy(c, offset),
           NEW pg, pg = <<c, offset \div PageSize>>,
           NEW size, size = Unshifted(page[pg].size)
    PROVE  /\ pg \in Pages /\ pg[1] = c /\ pg[2] = offset \div PageSize /\ pg[2] \in Nat
           /\ c \in clusters /\ page[pg].size # 0 /\ page[pg] \in PageType
           /\ HeldIn(live, pg) \subseteq Chunk
           /\ \A r \in HeldIn(live, pg) : r.offset \div PageSize = pg[2]
           /\ size = PageSize =>
                 WholeGood(page[pg], HeldIn(live, pg)) /\ offset % PageSize = 0
           /\ size # PageSize =>
                 /\ size \in ChunkSizes /\ page[pg].size = Shifted(size)
                 /\ ChunkedGood(page[pg], HeldIn(live, pg), size)
                 /\ BusyAt(page[pg], size, pg[2], offset)
<1>1. pg \in Pages /\ pg[1] = c /\ pg[2] = offset \div PageSize /\ pg[2] \in Nat
  BY PagePairs, Sizes
<1>2. page \in [Pages -> PageType] /\ live \subseteq Chunk
  BY DEF IInv, Typed
<1>3. page[pg] \in PageType /\ HeldIn(live, pg) \subseteq Chunk
  BY <1>1, <1>2 DEF HeldIn
<1>4. \A r \in HeldIn(live, pg) : r.offset \div PageSize = pg[2]
  BY DEF HeldIn
<1>5. PageGood(page[pg], HeldIn(live, pg))
  BY <1>1 DEF IInv, PagesGood
<1>6. /\ c \in clusters /\ page[pg].size # 0
      /\ size = PageSize => offset % PageSize = 0
      /\ size # PageSize => /\ (offset % PageSize) % size = 0
                            /\ (offset % PageSize) \div size \in page[pg].map
  BY DEF Busy
<1>7. \/ size = PageSize /\ WholeGood(page[pg], HeldIn(live, pg))
      \/ /\ size \in ChunkSizes /\ page[pg].size = Shifted(size)
         /\ ChunkedGood(page[pg], HeldIn(live, pg), size)
  BY <1>5, <1>6, GoodSize
<1>8. size # PageSize => BusyAt(page[pg], size, pg[2], offset)
  BY <1>1, <1>6 DEF BusyAt
<1>9. size \in ChunkSizes => size # PageSize
  BY PageSizeIs
<1> QED BY <1>1, <1>3, <1>4, <1>6, <1>7, <1>8, <1>9

(* What is left after it.                                                  *)
LEMMA LeftIs ==
    ASSUME PoolAssumption, IInv, NEW c \in Clusters, NEW offset \in Nat,
           NEW pg \in Pages, pg[1] = c, pg[2] = offset \div PageSize,
           live' = Left(live, c, offset), large' = large
    PROVE  /\ HeldIn(live', pg) = Without1(HeldIn(live, pg), offset)
           /\ \A x \in Pages : x # pg => HeldIn(live', x) = HeldIn(live, x)
           /\ live' \subseteq live /\ LargesGood'
<1>1. HeldIn(live', pg) = Without1(HeldIn(live, pg), offset)
  BY HeldLeft DEF Without1
<1>2. \A x \in Pages : x # pg => HeldIn(live', x) = HeldIn(live, x)
  <2> SUFFICES ASSUME NEW x \in Pages, x # pg
               PROVE  HeldIn(live', x) = HeldIn(live, x)
    OBVIOUS
  <2>1. c # x[1] \/ offset \div PageSize # x[2]
    BY PagePairs
  <2> QED BY <2>1, HeldLeft
<1>3. live' \subseteq live
  BY DEF Left
<1>4. \A r : r.block \in Larges => (r \in live' <=> r \in live)
  BY DEF Left, PoolAssumption
<1> QED BY <1>1, <1>2, <1>3, <1>4, LargesStay DEF IInv

LEMMA FreeChunkStep ==
    ASSUME PoolAssumption, IInv, NEW c \in Clusters, NEW offset \in Offsets,
           FreeChunk(c, offset)
    PROVE  IInv'
<1> DEFINE pg == <<c, offset \div PageSize>>
           p == page[pg]
           s == Unshifted(page[pg].size)
           i == (offset % PageSize) \div s
           H == HeldIn(live, pg)
<1>0. /\ created /\ created' = created /\ clusters' = clusters
      /\ free_pages' = free_pages /\ large' = large /\ heap' = heap
      /\ Busy(c, offset) /\ s # PageSize /\ p.chunks # SlotChunks(Slot(s))
      /\ page' = [page EXCEPT ![pg].map = @ \ {i}, ![pg].chunks = @ + 1]
      /\ slots' = [slots EXCEPT ![Slot(s)] = IF p.chunks = 0 THEN <<pg>> \o @ ELSE @]
      /\ live' = Left(live, c, offset)
  BY DEF FreeChunk, Given, Left
<1>1. offset \in Nat /\ offset \div PageSize \in Numbers
  BY OffsetIs
<1>2. /\ pg \in Pages /\ pg[1] = c /\ pg[2] = offset \div PageSize /\ pg[2] \in Nat
      /\ c \in clusters /\ p.size # 0 /\ p \in PageType
      /\ H \subseteq Chunk
      /\ \A r \in H : r.offset \div PageSize = pg[2]
      /\ s \in ChunkSizes /\ p.size = Shifted(s)
      /\ ChunkedGood(p, H, s) /\ BusyAt(p, s, pg[2], offset)
  BY <1>0, <1>1, BusyIs
<1>3. Slot(s) = s
  <2>1. s \in Nat /\ 2 * s <= PageSize
    BY <1>2, ChunkSizeIs
  <2> QED BY <1>2, <2>1, SlotIs
<1>4. /\ slots \in [ChunkSizes -> Seq(Pages)] /\ page \in [Pages -> PageType]
      /\ live \subseteq Chunk /\ free_pages \in Seq(Pages) /\ clusters \subseteq Clusters
      /\ large \in [Larges -> {"none", "embedded", "discrete"}] /\ created \in BOOLEAN
  BY DEF IInv, Typed
<1>5. p.chunks \in Nat /\ p.map \subseteq Nat
  BY <1>2 DEF PageType
<1> HIDE DEF pg, s, i
<1>6. /\ page' \in [Pages -> PageType]
      /\ page'[pg].size = p.size /\ page'[pg].chunks = p.chunks + 1
      /\ page'[pg].map = p.map \ {i}
      /\ \A x \in Pages : x # pg => page'[x] = page[x]
  <2> DEFINE a == [p EXCEPT !.map = p.map \ {i}, !.chunks = p.chunks + 1]
  <2>1. page' = [page EXCEPT ![pg] = a]
    BY <1>0, <1>2, <1>4
  <2>2. /\ a \in PageType /\ a.size = p.size /\ a.chunks = p.chunks + 1
        /\ a.map = p.map \ {i}
    <3> HIDE DEF p
    <3>1. p.chunks + 1 \in Nat /\ p.map \ {i} \subseteq Nat
      BY <1>5
    <3> QED BY <1>2, <3>1 DEF PageType
  <2> HIDE DEF a
  <2> QED BY <1>2, <1>4, <2>1, <2>2
<1> HIDE DEF H, p
<1> DEFINE G == Without1(H, offset)
           b == page'[pg]
<1>7. ChunkedGood(b, G, s)
  <2>1. /\ b.size = p.size /\ b.chunks = p.chunks + 1
        /\ b.map = p.map \ {(offset % PageSize) \div s}
    BY <1>6 DEF i
  <2>2. p.chunks # SlotChunks(s)
    BY <1>0, <1>3 DEF p
  <2> HIDE DEF b
  <2> QED BY <1>1, <1>2, <2>1, <2>2, GoodLess
<1>8. /\ HeldIn(live', pg) = G
      /\ \A x \in Pages : x # pg => HeldIn(live', x) = HeldIn(live, x)
      /\ live' \subseteq live /\ LargesGood'
  BY <1>0, <1>1, <1>2, LeftIs DEF H
<1> HIDE DEF G, b
<1>9. PagesGood'
  <2>1. PageGood(page'[pg], HeldIn(live', pg))
    BY <1>2, <1>7, <1>8 DEF PageGood, b
  <2> QED BY <1>2, <1>6, <1>8, <2>1, OnePage DEF IInv
<1>10. FreeList' /\ ClustersGood'
  <2>1. \A q \in live' : q.block \in Clusters => q.offset \div PageSize \in Numbers
    BY <1>8 DEF IInv, ClustersGood
  <2>2. \A x \in Pages : page'[x].size = page[x].size
    BY <1>6 DEF p
  <2> QED BY <1>0, <1>4, <2>1, <2>2, SizesStay DEF IInv
<1>11. HeapIs' /\ NothingLeft'
  BY <1>0 DEF IInv, HeapIs, NothingLeft
<1>12. /\ slots[s] \in Seq(Pages) /\ Distinct(slots[s])
       /\ pg \in Elems(slots[s]) <=> p.chunks > 0
  BY <1>2, <1>4 DEF IInv, SlotLists, InSlot, p
<1> DEFINE rest == IF p.chunks = 0 THEN <<pg>> \o slots[s] ELSE slots[s]
<1>13. /\ IsQueue(rest) /\ Elems(rest) = Elems(slots[s]) \cup {pg}
  <2>1. CASE p.chunks = 0
    <3>1. pg \notin Elems(slots[s])
      BY <1>12, <2>1
    <3> QED BY <1>2, <1>12, <2>1, <3>1, PrependDistinct DEF IsQueue
  <2>2. CASE p.chunks # 0
    <3>1. p.chunks > 0
      BY <1>5, <2>2 DEF p
    <3> QED BY <1>12, <2>2, <3>1 DEF IsQueue
  <2> QED BY <2>1, <2>2
<1> HIDE DEF rest
<1>14. /\ slots' \in [ChunkSizes -> Seq(Pages)] /\ slots'[s] = rest
       /\ \A u \in ChunkSizes : u # s => slots'[u] = slots[u]
  <2>1. slots' = [slots EXCEPT ![s] = rest]
    BY <1>0, <1>2, <1>3, <1>4 DEF rest, p
  <2> QED BY <1>2, <1>4, <1>13, <2>1 DEF IsQueue
<1>15. SlotLists'
  <2> SUFFICES ASSUME NEW u \in ChunkSizes
               PROVE  /\ Distinct(slots'[u])
                      /\ \A x \in Pages : x \in Elems(slots'[u]) <=> InSlot(page'[x], u)
    BY DEF SlotLists
  <2>1. /\ Distinct(slots[u])
        /\ \A x \in Pages : x \in Elems(slots[u]) <=> InSlot(page[x], u)
    BY DEF IInv, SlotLists
  <2>2. CASE u = s
    <3>1. InSlot(page'[pg], s)
      BY <1>2, <1>5, <1>6 DEF InSlot, p
    <3> QED BY <1>6, <1>13, <1>14, <2>1, <2>2, <3>1 DEF IsQueue
  <2>3. CASE u # s
    <3>1. ~ InSlot(page'[pg], u) /\ ~ InSlot(page[pg], u)
      BY <1>2, <1>6, <2>3, ChunkSizesDiffer DEF InSlot, p
    <3> QED BY <1>6, <1>14, <2>1, <2>3, <3>1
  <2> QED BY <2>2, <2>3
<1>16. Typed'
  BY <1>0, <1>4, <1>6, <1>8, <1>14 DEF Typed
<1> QED BY <1>8, <1>9, <1>10, <1>11, <1>15, <1>16 DEF IInv

(* The page that njs_mp_chunk_free() gives back was in no slot but its own.*)
LEMMA SlotsFreed ==
    ASSUME PoolAssumption, IInv, NEW pg \in Pages, page[pg].size # 0,
           NEW s, s = Unshifted(page[pg].size),
           s # PageSize => s \in ChunkSizes /\ page[pg].size = Shifted(s),
           s = PageSize => page[pg].size = Shifted(s),
           slots' = IF s = PageSize THEN slots
                    ELSE [slots EXCEPT ![Slot(s)] = Without(@, pg)],
           page'[pg].size = 0,
           \A x \in Pages : x # pg =>
              page'[x] = page[x] \/ (page'[x].size = 0 /\ page[x].size = 0)
    PROVE  slots' \in [ChunkSizes -> Seq(Pages)] /\ SlotLists'
<1>1. /\ slots \in [ChunkSizes -> Seq(Pages)]
      /\ \A u \in ChunkSizes :
            /\ Distinct(slots[u])
            /\ \A x \in Pages : x \in Elems(slots[u]) <=> InSlot(page[x], u)
  BY DEF IInv, Typed, SlotLists
<1>2. \A u \in ChunkSizes : Shifted(u) # 0
  BY ChunkSizeIs
<1>3. \A x \in Pages, u \in ChunkSizes :
         InSlot(page'[x], u) <=> InSlot(page[x], u) /\ x # pg
  <2> SUFFICES ASSUME NEW x \in Pages, NEW u \in ChunkSizes
               PROVE  InSlot(page'[x], u) <=> InSlot(page[x], u) /\ x # pg
    OBVIOUS
  <2>1. CASE x = pg
    BY <1>2, <2>1 DEF InSlot
  <2>2. CASE x # pg /\ page'[x] = page[x]
    BY <2>2
  <2>3. CASE x # pg /\ page'[x].size = 0 /\ page[x].size = 0
    BY <1>2, <2>3 DEF InSlot
  <2> QED BY <2>1, <2>2, <2>3
<1>4. CASE s = PageSize
  <2>1. \A u \in ChunkSizes : ~ InSlot(page[pg], u)
    BY <1>4, PageSizeIs DEF InSlot
  <2>2. slots' = slots
    BY <1>4
  <2>3. \A x \in Pages, u \in ChunkSizes : InSlot(page'[x], u) <=> InSlot(page[x], u)
    BY <1>3, <2>1
  <2> QED BY <1>1, <2>2, <2>3 DEF SlotLists
<1>5. CASE s # PageSize
  <2>1. s \in ChunkSizes /\ page[pg].size = Shifted(s)
    BY <1>5
  <2>2. Slot(s) = s
    <3>1. s \in Nat /\ 2 * s <= PageSize
      BY <2>1, ChunkSizeIs
    <3> QED BY <2>1, <3>1, SlotIs
  <2> DEFINE rest == Without(slots[s], pg)
  <2>3. slots' = [slots EXCEPT ![s] = rest]
    BY <1>1, <1>5, <2>1, <2>2
  <2>4. IsQueue(rest) /\ Elems(rest) = Elems(slots[s]) \ {pg}
    BY <1>1, <2>1, WithoutIs DEF IsQueue
  <2> HIDE DEF rest
  <2>5. /\ slots' \in [ChunkSizes -> Seq(Pages)] /\ slots'[s] = rest
        /\ \A u \in ChunkSizes : u # s => slots'[u] = slots[u]
    BY <1>1, <2>1, <2>3, <2>4 DEF IsQueue
  <2>6. \A u \in ChunkSizes : u # s => ~ InSlot(page[pg], u)
    BY <2>1, ChunkSizesDiffer DEF InSlot
  <2>7. SlotLists'
    <3> SUFFICES ASSUME NEW u \in ChunkSizes
                 PROVE  /\ Distinct(slots'[u])
                        /\ \A x \in Pages :
                              x \in Elems(slots'[u]) <=> InSlot(page'[x], u)
      BY DEF SlotLists
    <3>1. CASE u = s
      BY <1>1, <1>3, <2>4, <2>5, <3>1 DEF IsQueue
    <3>2. CASE u # s
      BY <1>1, <1>3, <2>5, <2>6, <3>2
    <3> QED BY <3>1, <3>2
  <2> QED BY <2>5, <2>7
<1> QED BY <1>4, <1>5

LEMMA ZeroedIs == Zeroed \in PageType /\ Zeroed.size = 0
BY DEF Zeroed, PageType

LEMMA FreePageStep ==
    ASSUME PoolAssumption, IInv, NEW c \in Clusters, NEW offset \in Offsets,
           FreePage(c, offset)
    PROVE  IInv'
<1> DEFINE pg == <<c, offset \div PageSize>>
           p == page[pg]
           s == Unshifted(page[pg].size)
           H == HeldIn(live, pg)
           others == {n \in Numbers : n # pg[2] /\ page[<<c, n>>].size # 0}
           Keeps == /\ page' = [page EXCEPT ![pg] = Zeroed]
                    /\ free_pages' = <<pg>> \o free_pages
                    /\ clusters' = clusters /\ heap' = heap
           Releases == /\ page' = [x \in Pages |-> IF x[1] = c THEN Zeroed ELSE page[x]]
                       /\ free_pages' = WithoutCluster(<<pg>> \o free_pages, c)
                       /\ clusters' = clusters \ {c}
                       /\ heap' = heap \ ({"cluster", "pages"} \X {c})
<1>0. /\ created /\ created' = created /\ large' = large /\ Busy(c, offset)
      /\ s # PageSize => p.chunks = SlotChunks(Slot(s))
      /\ slots' = IF s = PageSize THEN slots
                  ELSE [slots EXCEPT ![Slot(s)] = Without(@, pg)]
      /\ others # {} => Keeps
      /\ others = {} => Releases
      /\ live' = Left(live, c, offset)
  BY DEF FreePage, Given, Left
<1>1. offset \in Nat /\ offset \div PageSize \in Numbers
  BY OffsetIs
<1>2. /\ pg \in Pages /\ pg[1] = c /\ pg[2] = offset \div PageSize /\ pg[2] \in Nat
      /\ c \in clusters /\ p.size # 0 /\ p \in PageType
      /\ H \subseteq Chunk
      /\ \A r \in H : r.offset \div PageSize = pg[2]
      /\ s = PageSize => WholeGood(p, H) /\ offset % PageSize = 0
      /\ s # PageSize => /\ s \in ChunkSizes /\ p.size = Shifted(s)
                         /\ ChunkedGood(p, H, s) /\ BusyAt(p, s, pg[2], offset)
  BY <1>0, <1>1, BusyIs
<1>3. /\ slots \in [ChunkSizes -> Seq(Pages)] /\ page \in [Pages -> PageType]
      /\ live \subseteq Chunk /\ free_pages \in Seq(Pages) /\ clusters \subseteq Clusters
      /\ large \in [Larges -> {"none", "embedded", "discrete"}] /\ created \in BOOLEAN
  BY DEF IInv, Typed
<1>4. others = {} => \A x \in Pages : x[1] = c /\ x # pg => page[x].size = 0
  BY <1>2, PagePairs
<1> HIDE DEF others, s, pg, H
<1>5. /\ HeldIn(live', pg) = Without1(H, offset)
      /\ \A x \in Pages : x # pg => HeldIn(live', x) = HeldIn(live, x)
      /\ live' \subseteq live /\ LargesGood'
  BY <1>0, <1>1, <1>2, LeftIs DEF H
<1>6. Without1(H, offset) = {}
  <2>1. CASE s = PageSize
    <3>1. offset \div PageSize = pg[2]
      BY <1>2
    <3> QED BY <1>1, <1>2, <2>1, <3>1, GoodWholeLast
  <2>2. CASE s # PageSize
    <3>1. s \in Nat /\ 2 * s <= PageSize /\ s \in ChunkSizes
      BY <1>2, <2>2, ChunkSizeIs
    <3>2. Slot(s) = s
      BY <3>1, SlotIs
    <3>3. p.chunks = SlotChunks(s)
      BY <1>0, <2>2, <3>2
    <3> QED BY <1>1, <1>2, <2>2, <3>1, <3>3, GoodLast
  <2> QED BY <2>1, <2>2
<1> HIDE DEF p, Keeps, Releases
<1>7. /\ page' \in [Pages -> PageType] /\ page'[pg] = Zeroed
      /\ \A x \in Pages : x # pg =>
            page'[x] = page[x] \/ (page'[x] = Zeroed /\ page[x].size = 0)
      /\ \A x \in Pages : x[1] # c => page'[x] = page[x]
  <2>1. CASE others # {}
    BY <1>0, <1>2, <1>3, <2>1, ZeroedIs DEF Keeps
  <2>2. CASE others = {}
    <3>1. page' = [x \in Pages |-> IF x[1] = c THEN Zeroed ELSE page[x]]
      BY <1>0, <2>2 DEF Releases
    <3>2. \A x \in Pages : page'[x] = IF x[1] = c THEN Zeroed ELSE page[x]
      BY <3>1
    <3>3. page' \in [Pages -> PageType]
      BY <1>3, <3>1, ZeroedIs
    <3> QED BY <1>2, <1>4, <2>2, <3>2, <3>3
  <2> QED BY <2>1, <2>2
<1>8. \A x \in Pages : page'[x].size = 0 <=> page[x].size = 0 \/ x = pg
  BY <1>7, ZeroedIs
<1>9. PagesGood'
  <2> SUFFICES ASSUME NEW x \in Pages PROVE PageGood(page'[x], HeldIn(live', x))
    BY DEF PagesGood
  <2>1. PageGood(page[x], HeldIn(live, x))
    BY DEF IInv, PagesGood
  <2>2. PageGood(Zeroed, {})
    BY ZeroedIs DEF PageGood, FreeGood
  <2>3. CASE x = pg
    BY <1>5, <1>6, <1>7, <2>2, <2>3
  <2>4. CASE x # pg /\ page'[x] = page[x]
    BY <1>5, <2>1, <2>4
  <2>5. CASE x # pg /\ page'[x] = Zeroed /\ page[x].size = 0
    <3>1. HeldIn(live', x) = {}
      BY <1>5, <2>1, <2>5, GoodHeld
    <3> QED BY <2>2, <2>5, <3>1
  <2> QED BY <1>7, <2>3, <2>4, <2>5
<1>10. slots' \in [ChunkSizes -> Seq(Pages)] /\ SlotLists'
  <2>1. page'[pg].size = 0 /\ page[pg].size # 0
    BY <1>2, <1>7, ZeroedIs DEF p
  <2>2. s = PageSize => page[pg].size = Shifted(s)
    BY <1>2 DEF p, WholeGood
  <2>3. s # PageSize => s \in ChunkSizes /\ page[pg].size = Shifted(s)
    BY <1>2 DEF p
  <2>4. \A x \in Pages : x # pg =>
           page'[x] = page[x] \/ (page'[x].size = 0 /\ page[x].size = 0)
    BY <1>7, ZeroedIs
  <2>5. s = Unshifted(page[pg].size)
    BY DEF s, pg
  <2> QED BY <1>0, <1>2, <2>1, <2>2, <2>3, <2>4, <2>5, SlotsFreed
<1> DEFINE q == <<pg>> \o free_pages
<1>11. /\ Distinct(free_pages)
       /\ \A x \in Pages :
             x \in Elems(free_pages) <=> x[1] \in clusters /\ page[x].size = 0
  BY DEF IInv, FreeList
<1>12. IsQueue(q) /\ Elems(q) = Elems(free_pages) \cup {pg}
  <2>1. pg \notin Elems(free_pages)
    BY <1>2, <1>11 DEF p
  <2> QED BY <1>2, <1>3, <1>11, <2>1, PrependDistinct DEF IsQueue
<1> HIDE DEF q
<1>13. FreeList' /\ free_pages' \in Seq(Pages)
  <2>1. CASE others # {}
    <3>1. free_pages' = q /\ clusters' = clusters
      BY <1>0, <2>1 DEF Keeps, q
    <3> QED BY <1>2, <1>8, <1>11, <1>12, <3>1 DEF FreeList, IsQueue
  <2>2. CASE others = {}
    <3>1. free_pages' = WithoutCluster(q, c) /\ clusters' = clusters \ {c}
      BY <1>0, <2>2 DEF Releases, q
    <3>2. IsQueue(free_pages') /\ Elems(free_pages') = {x \in Elems(q) : x[1] # c}
      BY <1>12, <3>1, WithoutClusterIs
    <3> QED BY <1>2, <1>8, <1>11, <1>12, <3>1, <3>2 DEF FreeList, IsQueue
  <2> QED BY <2>1, <2>2
<1>14. ClustersGood' /\ clusters' \subseteq Clusters
  <2>0. /\ \A x \in Pages : x[1] \notin clusters => page[x].size = 0
        /\ \A d \in clusters : \E n \in Numbers : page[<<d, n>>].size # 0
        /\ \A r \in live : r.block \in Clusters => r.offset \div PageSize \in Numbers
    BY DEF IInv, ClustersGood
  <2>1. \A d \in clusters : d # c => \E n \in Numbers : page'[<<d, n>>].size # 0
    <3> SUFFICES ASSUME NEW d \in clusters, d # c
                 PROVE  \E n \in Numbers : page'[<<d, n>>].size # 0
      OBVIOUS
    <3>1. PICK n \in Numbers : page[<<d, n>>].size # 0
      BY <2>0
    <3>2. <<d, n>> \in Pages /\ <<d, n>>[1] # c
      BY <1>3, PagePairs
    <3> QED BY <1>7, <3>1, <3>2
  <2>2. \A r \in live' : r.block \in Clusters => r.offset \div PageSize \in Numbers
    BY <1>5, <2>0
  <2>3. CASE others # {}
    <3>1. clusters' = clusters
      BY <1>0, <2>3 DEF Keeps
    <3>2. PICK n \in Numbers : n # pg[2] /\ page[<<c, n>>].size # 0
      BY <2>3 DEF others
    <3>3. <<c, n>> \in Pages /\ <<c, n>> # pg
      BY <1>2, <3>2, PagePairs
    <3>4. page'[<<c, n>>].size # 0
      BY <1>8, <3>2, <3>3
    <3>5. \A x \in Pages : x[1] \notin clusters' => page'[x].size = 0
      BY <1>8, <2>0, <3>1
    <3>6. \A d \in clusters' : \E m \in Numbers : page'[<<d, m>>].size # 0
      BY <2>1, <3>1, <3>4
    <3> QED BY <1>3, <2>2, <3>1, <3>5, <3>6 DEF ClustersGood
  <2>4. CASE others = {}
    <3>1. clusters' = clusters \ {c}
      BY <1>0, <2>4 DEF Releases
    <3>2. \A x \in Pages : x[1] \notin clusters' => page'[x].size = 0
      BY <1>4, <1>8, <2>0, <2>4, <3>1
    <3>3. \A d \in clusters' : \E m \in Numbers : page'[<<d, m>>].size # 0
      BY <2>1, <3>1
    <3> QED BY <1>3, <2>2, <3>1, <3>2, <3>3 DEF ClustersGood
  <2> QED BY <2>3, <2>4
<1>15. HeapIs'
  <2>1. heap = Own \cup Blocks(large)
    BY HeapBlocks DEF IInv
  <2>2. CASE others # {}
    <3>1. heap' = heap /\ Own' = Own
      BY <1>0, <2>2 DEF Keeps, Own
    <3> QED BY <1>0, <2>1, <3>1, HeapBlocks
  <2>3. CASE others = {}
    <3>1. /\ heap' = heap \ ({"cluster", "pages"} \X {c}) /\ clusters' = clusters \ {c}
      BY <1>0, <2>3 DEF Releases
    <3>2. \A x \in Blocks(large) : x \notin {"cluster", "pages"} \X {c}
      <4> SUFFICES ASSUME NEW x \in Blocks(large)
                   PROVE  x \notin {"cluster", "pages"} \X {c}
        OBVIOUS
      <4>1. PICK b \in Larges : x = <<"memory", b>> \/ x = <<"block", b>>
        BY BlocksAre, LargeHeapIs
      <4>2. x[1] \in {"memory", "block"}
        BY <4>1
      <4> QED BY <4>2
    <3>3. Own' = Own \ ({"cluster", "pages"} \X {c})
      <4>1. <<"pool">> \notin {"cluster", "pages"} \X {c}
        <5>1. Len(<<"pool">>) = 1
          OBVIOUS
        <5>2. \A x \in {"cluster", "pages"} \X {c} : Len(x) = 2
          OBVIOUS
        <5> QED BY <5>1, <5>2
      <4>2. {"cluster", "pages"} \X clusters'
               = ({"cluster", "pages"} \X clusters) \ ({"cluster", "pages"} \X {c})
        BY <3>1
      <4> QED BY <1>0, <4>1, <4>2 DEF Own
    <3>4. heap' = Own' \cup Blocks(large)
      BY <2>1, <3>1, <3>2, <3>3
    <3> QED BY <1>0, <3>4, HeapBlocks
  <2> QED BY <2>2, <2>3
<1>16. NothingLeft'
  BY <1>0 DEF NothingLeft
<1>17. Typed'
  BY <1>0, <1>3, <1>5, <1>7, <1>10, <1>13, <1>14 DEF Typed
<1> QED BY <1>5, <1>9, <1>10, <1>13, <1>14, <1>15, <1>16, <1>17 DEF IInv

(* Whatever a caller holds is freed when its address is given.             *)
LEMMA LiveBusy ==
    ASSUME PoolAssumption, IInv, NEW r \in live, r.block \in Clusters
    PROVE  Busy(r.block, r.offset)
<1> DEFINE pg == <<r.block, r.offset \div PageSize>>
           p == page[pg]
           H == HeldIn(live, pg)
<1>1. pg \in Pages /\ pg[1] = r.block /\ r \in H
  BY PagePairs DEF IInv, ClustersGood, HeldIn
<1>2. PageGood(p, H)
  BY <1>1 DEF IInv, PagesGood
<1>3. p.size # 0
  BY <1>1, <1>2, GoodHeld
<1>4. r.block \in clusters
  BY <1>1, <1>3 DEF IInv, ClustersGood
<1>5. CASE Unshifted(p.size) = PageSize /\ WholeGood(p, H)
  <2>1. r.offset % PageSize = 0
    BY <1>1, <1>5 DEF WholeGood, WholeFits
  <2> QED BY <1>3, <1>4, <1>5, <2>1 DEF Busy
<1>6. CASE Unshifted(p.size) \in ChunkSizes /\ ChunkedGood(p, H, Unshifted(p.size))
  <2> DEFINE s == Unshifted(p.size)
  <2>1. s # PageSize
    BY <1>6, PageSizeIs
  <2>2. (r.offset % PageSize) % s = 0 /\ (r.offset % PageSize) \div s \in p.map
    BY <1>1, <1>6 DEF ChunkedGood, ChunkFits, Index
  <2> QED BY <1>3, <1>4, <2>1, <2>2 DEF Busy
<1> QED BY <1>2, <1>3, <1>5, <1>6, GoodSize

LEMMA Stutters ==
    ASSUME IInv, UNCHANGED vars
    PROVE  IInv'
<1>1. /\ created' = created /\ clusters' = clusters /\ page' = page
      /\ free_pages' = free_pages /\ slots' = slots /\ large' = large
      /\ heap' = heap /\ live' = live
  BY DEF vars
<1>2. Typed' /\ HeapIs' /\ NothingLeft'
  BY <1>1 DEF IInv, Typed, HeapIs, NothingLeft
<1>3. FreeList' /\ SlotLists'
  BY <1>1 DEF IInv, FreeList, SlotLists
<1>4. PagesGood' /\ ClustersGood' /\ LargesGood'
  BY <1>1 DEF IInv, PagesGood, ClustersGood, LargesGood
<1> QED BY <1>2, <1>3, <1>4 DEF IInv

LEMMA FreeRefusedStep ==
    ASSUME PoolAssumption, IInv, NEW b \in Clusters \cup Larges, NEW offset \in Offsets,
           FreeRefused(b, offset)
    PROVE  IInv'
<1>1. \A r \in live : r.block # b \/ r.offset # offset
  <2> SUFFICES ASSUME NEW r \in live, r.block = b, r.offset = offset PROVE FALSE
    OBVIOUS
  <2>1. CASE b \in Clusters
    BY <2>1, LiveBusy DEF FreeRefused
  <2>2. CASE b \in Larges
    BY <2>2 DEF FreeRefused, IInv, LargesGood
  <2> QED BY <2>1, <2>2
<1>2. live' = live
  BY <1>1 DEF FreeRefused, Given
<1>3. UNCHANGED vars
  BY <1>2 DEF FreeRefused, vars
<1> QED BY <1>3, Stutters

-----------------------------------------------------------------------------
(* The pool's beginning and end.  *)

LEMMA EmptyQueue == Elems(<<>>) = {} /\ Distinct(<<>>) /\ <<>> \in Seq(Pages)
BY DEF Elems, Distinct

LEMMA EmptyGood ==
    ASSUME PoolAssumption, Empty, created' \in BOOLEAN
    PROVE  /\ Typed' /\ NothingLeft' /\ FreeList' /\ SlotLists' /\ PagesGood'
           /\ ClustersGood' /\ LargesGood' /\ Blocks(large') = {}
<1>1. /\ clusters' = {} /\ free_pages' = <<>> /\ live' = {}
      /\ page' = [x \in Pages |-> Zeroed]
      /\ slots' = [s \in ChunkSizes |-> <<>>]
      /\ large' = [b \in Larges |-> "none"]
  BY DEF Empty
<1>2. \A x \in Pages : page'[x] = Zeroed /\ Zeroed.size = 0 /\ Zeroed \in PageType
  BY <1>1, ZeroedIs
<1>3. Typed'
  <2>1. page' \in [Pages -> PageType]
    BY <1>1, ZeroedIs
  <2>2. slots' \in [ChunkSizes -> Seq(Pages)] /\ free_pages' \in Seq(Pages)
    BY <1>1, EmptyQueue
  <2> QED BY <1>1, <2>1, <2>2 DEF Typed
<1>4. FreeList'
  BY <1>1, EmptyQueue DEF FreeList
<1>5. SlotLists'
  <2> SUFFICES ASSUME NEW u \in ChunkSizes
               PROVE  /\ Distinct(slots'[u])
                      /\ \A x \in Pages : x \in Elems(slots'[u]) <=> InSlot(page'[x], u)
    BY DEF SlotLists
  <2>1. slots'[u] = <<>>
    BY <1>1
  <2>2. \A x \in Pages : ~ InSlot(page'[x], u)
    BY <1>2, ChunkSizeIs DEF InSlot
  <2> QED BY <2>1, <2>2, EmptyQueue
<1>6. PagesGood'
  <2> SUFFICES ASSUME NEW x \in Pages PROVE PageGood(page'[x], HeldIn(live', x))
    BY DEF PagesGood
  <2>1. HeldIn(live', x) = {}
    BY <1>1 DEF HeldIn
  <2> QED BY <1>2, <2>1 DEF PageGood, FreeGood
<1>7. ClustersGood'
  BY <1>1, <1>2 DEF ClustersGood
<1>8. LargesGood' /\ NothingLeft'
  BY <1>1 DEF LargesGood, NothingLeft
<1>9. Blocks(large') = {}
  <2>1. \A b \in Larges : large'[b] = "none"
    BY <1>1
  <2> QED BY <2>1, BlocksAre
<1> QED BY <1>3, <1>4, <1>5, <1>6, <1>7, <1>8, <1>9

LEMMA CreateStep ==
    ASSUME PoolAssumption, IInv, Create
    PROVE  IInv'
<1>1. Empty /\ ~ created /\ created' = TRUE /\ heap' = heap \cup {<<"pool">>}
  BY DEF Create
<1>2. heap = {}
  <2>1. clusters = {} /\ \A b \in Larges : large[b] = "none"
    BY <1>1 DEF IInv, NothingLeft
  <2>2. Blocks(large) = {}
    BY <2>1, BlocksAre
  <2>3. Own = {}
    BY <1>1, <2>1 DEF Own
  <2> QED BY <2>2, <2>3, HeapBlocks DEF IInv
<1>3. Own' = {<<"pool">>}
  BY <1>1 DEF Own, Empty
<1>4. HeapIs'
  BY <1>1, <1>2, <1>3, EmptyGood, HeapBlocks
<1> QED BY <1>1, <1>4, EmptyGood DEF IInv

LEMMA DestroyStep ==
    ASSUME PoolAssumption, IInv, Destroy
    PROVE  IInv'
<1>1. /\ Empty /\ created /\ created' = FALSE
      /\ heap' = heap \ ({<<"pool">>} \cup ({"cluster", "pages"} \X clusters)
                         \cup Blocks(large))
  BY DEF Destroy, Blocks
<1>2. heap = Own \cup Blocks(large)
  BY HeapBlocks DEF IInv
<1>3. Own = {<<"pool">>} \cup ({"cluster", "pages"} \X clusters)
  BY <1>1 DEF Own
<1>4. heap' = {}
  BY <1>1, <1>2, <1>3
<1>5. Own' = {}
  BY <1>1 DEF Own, Empty
<1>6. HeapIs'
  BY <1>1, <1>4, <1>5, EmptyGood, HeapBlocks
<1> QED BY <1>1, <1>6, EmptyGood DEF IInv

LEMMA Initially == ASSUME PoolAssumption, Init PROVE IInv
<1>1. /\ created = FALSE /\ clusters = {} /\ free_pages = <<>> /\ live = {} /\ heap = {}
      /\ page = [x \in Pages |-> Zeroed]
      /\ slots = [s \in ChunkSizes |-> <<>>]
      /\ large = [b \in Larges |-> "none"]
  BY DEF Init
<1>2. \A x \in Pages : page[x] = Zeroed /\ Zeroed.size = 0
  BY <1>1, ZeroedIs
<1>3. Typed
  <2>1. page \in [Pages -> PageType]
    BY <1>1, ZeroedIs
  <2>2. slots \in [ChunkSizes -> Seq(Pages)] /\ free_pages \in Seq(Pages)
    BY <1>1, EmptyQueue
  <2> QED BY <1>1, <2>1, <2>2 DEF Typed
<1>4. FreeList
  BY <1>1, EmptyQueue DEF FreeList
<1>5. SlotLists
  <2> SUFFICES ASSUME NEW u \in ChunkSizes
               PROVE  /\ Distinct(slots[u])
                      /\ \A x \in Pages : x \in Elems(slots[u]) <=> InSlot(page[x], u)
    BY DEF SlotLists
  <2>1. slots[u] = <<>>
    BY <1>1
  <2>2. \A x \in Pages : ~ InSlot(page[x], u)
    BY <1>2, ChunkSizeIs DEF InSlot
  <2> QED BY <2>1, <2>2, EmptyQueue
<1>6. PagesGood
  <2> SUFFICES ASSUME NEW x \in Pages PROVE PageGood(page[x], HeldIn(live, x))
    BY DEF PagesGood
  <2>1. HeldIn(live, x) = {}
    BY <1>1 DEF HeldIn
  <2> QED BY <1>2, <2>1 DEF PageGood, FreeGood
<1>7. ClustersGood
  BY <1>1, <1>2 DEF ClustersGood
<1>8. LargesGood /\ NothingLeft
  BY <1>1 DEF LargesGood, NothingLeft
<1>9. HeapIs
  <2>1. \A b \in Larges : large[b] = "none"
    BY <1>1
  <2>2. Blocks(large) = {}
    BY <2>1, BlocksAre
  <2>3. Own = {}
    BY <1>1 DEF Own
  <2> QED BY <1>1, <2>2, <2>3, HeapBlocks
<1> QED BY <1>3, <1>4, <1>5, <1>6, <1>7, <1>8, <1>9 DEF IInv

(* An allocation that failed half way leaves nothing behind, as the block  *)
(* that it was for was not in use.                                         *)
LEMMA FailedStep ==
    ASSUME IInv, NEW r, AllocFails(r)
    PROVE  IInv'
<1>1. heap = Own \cup Blocks(large)
  BY HeapBlocks DEF IInv
<1>2. ASSUME NEW b \in Larges, large[b] = "none", GivesBack({<<"block", b>>})
      PROVE  heap' = heap
  <2>1. <<"block", b>> \notin Blocks(large)
    <3> SUFFICES ASSUME NEW a \in Larges, large[a] # "none",
                        <<"block", b>> \in LargeHeap(a, large[a])
                 PROVE  FALSE
      BY BlocksAre
    <3>1. <<"block", b>> = <<"block", a>>
      BY LargeHeapIs
    <3> QED BY <3>1, <1>2
  <2>2. <<"block", b>> \notin Own
    BY DEF Own
  <2> QED BY <1>1, <1>2, <2>1, <2>2 DEF GivesBack
<1>3. ASSUME NEW c \in Clusters \ clusters, GivesBack({<<"cluster", c>>})
      PROVE  heap' = heap
  <2>1. <<"cluster", c>> \notin Blocks(large)
    BY BlocksAre, LargeHeapIs
  <2>2. <<"cluster", c>> \notin Own
    BY DEF Own
  <2> QED BY <1>1, <1>3, <2>1, <2>2 DEF GivesBack
<1>4. UNCHANGED vars
  BY <1>2, <1>3 DEF AllocFails, vars
<1> QED BY <1>4, Stutters

LEMMA StepPreserves ==
    ASSUME PoolAssumption, IInv, [Next]_vars
    PROVE  IInv'
<1>1. ASSUME NEW r \in Requests,
             AllocChunk(r) \/ AllocFirstChunk(r) \/ AllocWholePage(r) \/ AllocLarge(r)
               \/ AllocFails(r)
      PROVE  IInv'
  <2>1. CASE AllocChunk(r)
    BY <2>1, ChunkStep
  <2>2. CASE AllocFirstChunk(r)
    BY <2>2, FirstChunkStep
  <2>3. CASE AllocWholePage(r)
    BY <2>3, WholePageStep
  <2>4. CASE AllocLarge(r)
    BY <2>4, LargeStep
  <2>5. CASE AllocFails(r)
    BY <2>5, FailedStep
  <2> QED BY <1>1, <2>1, <2>2, <2>3, <2>4, <2>5
<1>2. ASSUME NEW c \in Clusters, NEW offset \in Offsets,
             FreeChunk(c, offset) \/ FreePage(c, offset)
      PROVE  IInv'
  BY <1>2, FreeChunkStep, FreePageStep
<1>3. ASSUME NEW b \in Larges, FreeLarge(b)
      PROVE  IInv'
  BY <1>3, FreeLargeStep
<1>4. ASSUME NEW b \in Clusters \cup Larges, NEW offset \in Offsets, FreeRefused(b, offset)
      PROVE  IInv'
  BY <1>4, FreeRefusedStep
<1>5. CASE Create
  BY <1>5, CreateStep
<1>6. CASE Destroy
  BY <1>6, DestroyStep
<1>7. CASE UNCHANGED vars
  BY <1>7, Stutters
<1> QED BY <1>1, <1>2, <1>3, <1>4, <1>5, <1>6, <1>7 DEF Next

(* The invariant from which the properties follow.                         *)
THEOREM Invariance ==
    ASSUME PoolAssumption PROVE Spec => []IInv
<1>1. Init => IInv
  BY Initially
<1>2. IInv /\ [Next]_vars => IInv'
  BY StepPreserves
<1> QED BY <1>1, <1>2, PTL DEF Spec

-----------------------------------------------------------------------------
(* The properties.  *)

(* Where something lies that is held of a cluster.                         *)
LEMMA LiveIs ==
    ASSUME PoolAssumption, IInv, NEW r \in live, r.block \in Clusters,
           NEW pg, pg = <<r.block, r.offset \div PageSize>>,
           NEW H, H = HeldIn(live, pg)
    PROVE  /\ r.block \in clusters /\ r.offset \div PageSize \in Numbers
           /\ pg \in Pages /\ r \in H
           /\ \/ WholeGood(page[pg], H)
              \/ \E s \in ChunkSizes : ChunkedGood(page[pg], H, s)
<1>1. r.offset \div PageSize \in Numbers
  BY DEF IInv, ClustersGood
<1>2. pg \in Pages /\ pg[1] = r.block /\ r \in H
  BY <1>1, PagePairs DEF HeldIn
<1>3. PageGood(page[pg], H)
  BY <1>2 DEF IInv, PagesGood
<1>4. page[pg].size # 0
  BY <1>2, <1>3, GoodHeld
<1>5. r.block \in clusters
  BY <1>2, <1>4 DEF IInv, ClustersGood
<1> QED BY <1>1, <1>2, <1>3, <1>4, <1>5 DEF PageGood, FreeGood

(* A chunk lies in its page and has its alignment.                         *)
LEMMA ChunkLies ==
    ASSUME PoolAssumption, NEW s \in ChunkSizes, NEW p, NEW H, ChunkedGood(p, H, s),
           NEW r \in H, r \in Chunk
    PROVE  /\ Index(r, s) \in 0 .. SlotChunks(s)
           /\ r.offset % PageSize = Index(r, s) * s
           /\ r.size <= s
           /\ (r.offset % PageSize) + r.size <= PageSize
           /\ r.offset % r.align = 0
<1> DEFINE n == r.offset \div PageSize
           x == r.offset % PageSize
           j == Index(r, s)
<1>1. /\ j \in 0 .. SlotChunks(s) /\ x % s = 0 /\ r.size <= s /\ Divides(r.align, s)
  BY DEF ChunkedGood, ChunkFits
<1>2. /\ s \in Nat \ {0} /\ PageSize \in Nat \ {0} /\ SlotChunks(s) \in Nat
      /\ Divides(s, PageSize)
      /\ r.offset \in Nat /\ r.size \in Nat /\ r.align \in Nat \ {0}
  BY ChunkSizeIs, Sizes DEF Chunk
<1>3. n \in Nat /\ x \in Nat /\ r.offset = n * PageSize + x
  <2>1. /\ r.offset \div PageSize \in Nat /\ r.offset % PageSize \in 0 .. PageSize - 1
        /\ r.offset = (r.offset \div PageSize) * PageSize + (r.offset % PageSize)
    BY <1>2, DivMod
  <2>2. r.offset % PageSize \in Nat
    BY <1>2, <2>1
  <2> QED BY <2>1, <2>2
<1>4. j = x \div s
  BY DEF Index
<1> HIDE DEF n, x, j
<1>5. x = j * s /\ j \in Nat
  <2>1. x = (x \div s) * s + (x % s) /\ x \div s \in Nat
    BY <1>2, <1>3, DivMod
  <2>2. x = (x \div s) * s + 0
    BY <1>1, <2>1
  <2>3. (x \div s) * s \in Nat
    BY <1>2, <2>1
  <2> QED BY <1>4, <2>1, <2>2, <2>3
<1>6. j * s + s <= PageSize /\ j * s \in Nat
  <2>1. 0 \in Nat
    OBVIOUS
  <2> QED BY <1>1, <2>1, ChunkOffset
<1>7. x + r.size <= PageSize
  BY <1>1, <1>2, <1>5, <1>6
<1>8. r.offset % r.align = 0
  <2>1. Divides(r.align, PageSize)
    BY <1>1, <1>2, DividesTrans
  <2>2. Divides(r.align, n * PageSize + j * s)
    BY <1>1, <1>2, <1>3, <1>5, <2>1, DividesSum
  <2>3. Divides(r.align, r.offset)
    BY <1>3, <1>5, <2>2
  <2> QED BY <1>2, <2>3, DividesIs
<1> QED BY <1>1, <1>5, <1>7, <1>8 DEF x, j

LEMMA WholeLies ==
    ASSUME PoolAssumption, NEW r \in Chunk, WholeFits(r)
    PROVE  /\ (r.offset % PageSize) + r.size <= PageSize
           /\ r.offset % r.align = 0
<1>1. /\ r.offset \in Nat /\ r.size \in Nat /\ r.align \in Nat \ {0}
      /\ r.offset % PageSize = 0 /\ r.size <= PageSize /\ Divides(r.align, PageSize)
      /\ PageSize \in Nat \ {0}
  BY Sizes DEF Chunk, WholeFits
<1>2. Divides(PageSize, r.offset)
  BY <1>1, DividesIs
<1>3. Divides(r.align, r.offset)
  BY <1>1, <1>2, DividesTrans
<1> QED BY <1>1, <1>3, DividesIs

(* Of two chunks of a page, the one with the smaller index ends first.     *)
LEMMA ChunksApart ==
    ASSUME PoolAssumption, NEW s \in ChunkSizes, NEW p, NEW H, ChunkedGood(p, H, s),
           NEW r \in H, r \in Chunk, NEW q \in H, q \in Chunk,
           r.offset \div PageSize = q.offset \div PageSize,
           Index(r, s) < Index(q, s)
    PROVE  r.offset + r.size <= q.offset
<1> DEFINE n == r.offset \div PageSize
           i == Index(r, s)
           j == Index(q, s)
           P == PageSize
<1>1. /\ s \in Nat \ {0} /\ P \in Nat \ {0} /\ SlotChunks(s) \in Nat
      /\ r.offset \in Nat /\ q.offset \in Nat /\ r.size \in Nat
  BY ChunkSizeIs, Sizes DEF Chunk
<1>2. /\ i \in Nat /\ j \in Nat /\ r.size <= s
      /\ r.offset % P = i * s /\ q.offset % P = j * s
  BY <1>1, ChunkLies
<1>3. /\ n \in Nat
      /\ r.offset = n * P + (r.offset % P)
      /\ q.offset = n * P + (q.offset % P)
  BY <1>1, DivMod
<1>4. i < j /\ r.offset = n * P + i * s /\ q.offset = n * P + j * s
  BY <1>2, <1>3
<1> HIDE DEF n, i, j, P
<1>5. n * P \in Nat /\ i * s \in Nat /\ j * s \in Nat
  BY <1>1, <1>2, <1>3
<1>6. i * s + s <= j * s
  <2>1. PICK d \in Nat : j = i + 1 + d
    <3>1. j - i - 1 \in Nat /\ j = i + 1 + (j - i - 1)
      BY <1>2, <1>4
    <3> QED BY <3>1
  <2>2. j * s = i * s + s + d * s /\ d * s \in Nat
    BY <1>1, <1>2, <2>1
  <2> QED BY <1>1, <1>5, <2>2
<1> DEFINE A == n * P
           B == i * s
           C == j * s
<1>7. /\ A \in Nat /\ B \in Nat /\ C \in Nat /\ B + s <= C /\ s \in Nat
      /\ r.offset = A + B /\ q.offset = A + C
      /\ r.size \in Nat /\ r.size <= s
  BY <1>1, <1>2, <1>4, <1>5, <1>6
<1> HIDE DEF A, B, C
<1> QED BY <1>7

(* What is held of two pages of a cluster is apart.                        *)
LEMMA PagesApart ==
    ASSUME PoolAssumption, NEW r \in Chunk, NEW q \in Chunk,
           (r.offset % PageSize) + r.size <= PageSize,
           r.offset \div PageSize < q.offset \div PageSize
    PROVE  r.offset + r.size <= q.offset
<1> DEFINE m == r.offset \div PageSize
           n == q.offset \div PageSize
           x == r.offset % PageSize
           y == q.offset % PageSize
           P == PageSize
<1>1. /\ P \in Nat \ {0} /\ r.offset \in Nat /\ q.offset \in Nat /\ r.size \in Nat
  BY Sizes DEF Chunk
<1>2. /\ m \in Nat /\ r.offset = m * P + x /\ x \in 0 .. P - 1
      /\ n \in Nat /\ q.offset = n * P + y /\ y \in 0 .. P - 1
  BY <1>1, DivMod
<1>3. m < n /\ x + r.size <= P
  OBVIOUS
<1> HIDE DEF m, n, x, y, P
<1>4. m * P + P <= n * P /\ m * P \in Nat /\ n * P \in Nat
  <2>1. PICK d \in Nat : n = m + 1 + d
    <3>1. n - m - 1 \in Nat /\ n = m + 1 + (n - m - 1)
      BY <1>2, <1>3
    <3> QED BY <3>1
  <2>2. n * P = m * P + P + d * P /\ d * P \in Nat /\ m * P \in Nat
    BY <1>1, <1>2, <2>1
  <2> QED BY <1>1, <2>2
<1> QED BY <1>1, <1>2, <1>3, <1>4

LEMMA LiveLies ==
    ASSUME PoolAssumption, IInv, NEW r \in live, r.block \in Clusters
    PROVE  /\ r.block \in clusters
           /\ r.offset \div PageSize \in Numbers
           /\ (r.offset % PageSize) + r.size <= PageSize
           /\ r.offset % r.align = 0
<1> DEFINE pg == <<r.block, r.offset \div PageSize>>
           H == HeldIn(live, pg)
<1>1. /\ r.block \in clusters /\ r.offset \div PageSize \in Numbers /\ r \in H
      /\ \/ WholeGood(page[pg], H)
         \/ \E s \in ChunkSizes : ChunkedGood(page[pg], H, s)
  BY LiveIs
<1>2. r \in Chunk
  BY DEF IInv, Typed
<1> HIDE DEF H
<1>3. CASE WholeGood(page[pg], H)
  <2>1. WholeFits(r)
    BY <1>1, <1>3 DEF WholeGood
  <2> QED BY <1>1, <1>2, <2>1, WholeLies
<1>4. CASE \E s \in ChunkSizes : ChunkedGood(page[pg], H, s)
  <2>1. PICK s \in ChunkSizes : ChunkedGood(page[pg], H, s)
    BY <1>4
  <2> QED BY <1>1, <1>2, <2>1, ChunkLies
<1> QED BY <1>1, <1>3, <1>4

Apart(r, q) ==
    \/ r.block # q.block
    \/ r.offset + r.size <= q.offset
    \/ q.offset + q.size <= r.offset

LEMMA LiveApart ==
    ASSUME PoolAssumption, IInv, NEW r \in live, NEW q \in live, r # q
    PROVE  Apart(r, q)
<1>1. r \in Chunk /\ q \in Chunk
  BY DEF IInv, Typed
<1> SUFFICES ASSUME r.block = q.block PROVE Apart(r, q)
  BY DEF Apart
<1>2. r.block \in Clusters
  <2>1. r.block \notin Larges
    BY DEF IInv, LargesGood
  <2> QED BY <1>1, <2>1 DEF Chunk
<1> DEFINE m == r.offset \div PageSize
           n == q.offset \div PageSize
<1>3. /\ m \in Nat /\ n \in Nat
      /\ (r.offset % PageSize) + r.size <= PageSize
      /\ (q.offset % PageSize) + q.size <= PageSize
  BY <1>2, LiveLies, Sizes
<1>4. CASE m < n
  BY <1>1, <1>3, <1>4, PagesApart DEF Apart
<1>5. CASE n < m
  BY <1>1, <1>3, <1>5, PagesApart DEF Apart
<1>6. CASE m = n
  <2> DEFINE pg == <<r.block, m>>
             H == HeldIn(live, pg)
  <2>1. /\ r \in H
        /\ \/ WholeGood(page[pg], H)
           \/ \E s \in ChunkSizes : ChunkedGood(page[pg], H, s)
    BY <1>2, LiveIs
  <2>2. q \in H
    BY <1>6 DEF HeldIn
  <2> HIDE DEF H
  <2>3. ~ WholeGood(page[pg], H)
    BY <2>1, <2>2 DEF WholeGood
  <2>4. PICK s \in ChunkSizes : ChunkedGood(page[pg], H, s)
    BY <2>1, <2>3
  <2>5. /\ Index(r, s) \in 0 .. SlotChunks(s) /\ Index(q, s) \in 0 .. SlotChunks(s)
        /\ (r.offset % PageSize) % s = 0 /\ (q.offset % PageSize) % s = 0
    BY <2>1, <2>2, <2>4 DEF ChunkedGood, ChunkFits
  <2>6. /\ r.offset \in Nat /\ q.offset \in Nat /\ s \in Nat \ {0}
        /\ SlotChunks(s) \in Nat
    BY <1>1, ChunkSizeIs DEF Chunk
  <2>7. Index(r, s) # Index(q, s)
    <3>1. r.offset # q.offset
      BY <2>1, <2>2, <2>4 DEF ChunkedGood
    <3> QED BY <1>6, <2>5, <2>6, <3>1, SameOffset DEF Index
  <2>8. Index(r, s) < Index(q, s) \/ Index(q, s) < Index(r, s)
    <3> DEFINE i == Index(r, s)
               j == Index(q, s)
    <3>1. i \in Nat /\ j \in Nat /\ i # j
      BY <2>5, <2>6, <2>7
    <3> HIDE DEF i, j
    <3>2. i < j \/ j < i
      BY <3>1
    <3> QED BY <3>2 DEF i, j
  <2>9. CASE Index(r, s) < Index(q, s)
    <3>1. r.offset + r.size <= q.offset
      BY <1>1, <1>6, <2>1, <2>2, <2>4, <2>9, ChunksApart
    <3> QED BY <3>1 DEF Apart
  <2>10. CASE Index(q, s) < Index(r, s)
    <3>1. q.offset + q.size <= r.offset
      BY <1>1, <1>6, <2>1, <2>2, <2>4, <2>10, ChunksApart
    <3> QED BY <3>1 DEF Apart
  <2> QED BY <2>8, <2>9, <2>10
<1>7. m < n \/ n < m \/ m = n
  <2> HIDE DEF m, n
  <2> QED BY <1>3
<1> QED BY <1>4, <1>5, <1>6, <1>7

(* njs_mp_alloc() and njs_mp_align() never return memory that somebody     *)
(* holds, or that is smaller or less aligned than was asked for.           *)
THEOREM AllocationsSoundTheorem ==
    ASSUME PoolAssumption PROVE Spec => []AllocationsSound
<1>1. IInv => AllocationsSound
  <2> SUFFICES ASSUME IInv PROVE AllocationsSound
    OBVIOUS
  <2>1. \A r \in live : r.block \in Clusters =>
           /\ r.block \in clusters
           /\ r.offset \div PageSize \in Numbers
           /\ (r.offset % PageSize) + r.size <= PageSize
           /\ r.offset % r.align = 0
    BY LiveLies
  <2>2. \A r, q \in live : r # q => Apart(r, q)
    BY LiveApart
  <2> QED BY <2>1, <2>2 DEF AllocationsSound, Apart
<1> QED BY <1>1, Invariance, PTL

(* A queue that has no link twice has one once or not at all.              *)
LEMMA OccursIs ==
    ASSUME NEW q, Distinct(q), NEW x
    PROVE  Occurs(q, x) = IF x \in Elems(q) THEN 1 ELSE 0
<1> DEFINE D == {i \in DOMAIN q : q[i] = x}
<1>1. CASE x \in Elems(q)
  <2>1. PICK i \in DOMAIN q : q[i] = x
    BY <1>1 DEF Elems
  <2>2. D = {i}
    BY <2>1 DEF Distinct
  <2> QED BY <1>1, <2>2, FS_Singleton DEF Occurs
<1>2. CASE x \notin Elems(q)
  <2>1. D = {}
    BY <1>2 DEF Elems
  <2> QED BY <1>2, <2>1, FS_EmptySet DEF Occurs
<1> QED BY <1>1, <1>2

(* The counters, the bits and the queues of pages agree with each other    *)
(* and with what callers hold.                                             *)
THEOREM BooksBalanceTheorem ==
    ASSUME PoolAssumption PROVE Spec => []BooksBalance
<1>1. IInv => BooksBalance
  <2> SUFFICES ASSUME IInv, NEW pg \in Pages
               PROVE  LET p == page[pg]
                          size == Unshifted(p.size)
                          chunked == p.size # 0 /\ size # PageSize
                      IN  /\ (Held(pg) = {}) = (p.size = 0)
                          /\ Occurs(free_pages, pg) =
                                IF pg[1] \in clusters /\ p.size = 0 THEN 1 ELSE 0
                          /\ chunked =>
                                /\ p.map = {(r.offset % PageSize) \div size : r \in Held(pg)}
                                /\ p.chunks = PageSize \div size - Cardinality(p.map)
                          /\ \A s \in ChunkSizes : Occurs(slots[s], pg) =
                                IF chunked /\ s = size /\ p.chunks > 0 THEN 1 ELSE 0
    BY DEF BooksBalance
  <2> DEFINE p == page[pg]
             size == Unshifted(p.size)
             H == HeldIn(live, pg)
  <2>0. Held(pg) = H
    BY HeldIs
  <2>1. PageGood(p, H) /\ p \in PageType
    BY DEF IInv, PagesGood, Typed
  <2>2. (Held(pg) = {}) = (p.size = 0)
    <3>1. H = {} <=> p.size = 0
      BY <2>1, GoodHeld
    <3> QED BY <2>0, <3>1
  <2>3. Occurs(free_pages, pg) = IF pg[1] \in clusters /\ p.size = 0 THEN 1 ELSE 0
    <3>1. /\ Distinct(free_pages)
          /\ pg \in Elems(free_pages) <=> pg[1] \in clusters /\ p.size = 0
      BY DEF IInv, FreeList
    <3> QED BY <3>1, OccursIs
  <2>4. ASSUME p.size # 0, size # PageSize
        PROVE  size \in ChunkSizes /\ p.size = Shifted(size) /\ ChunkedGood(p, H, size)
    BY <2>1, <2>4, GoodSize
  <2>5. ASSUME p.size # 0, size # PageSize
        PROVE  /\ p.map = {(r.offset % PageSize) \div size : r \in Held(pg)}
               /\ p.chunks = PageSize \div size - Cardinality(p.map)
    <3>1. /\ size \in ChunkSizes /\ p.map \in SUBSET (0 .. SlotChunks(size))
          /\ p.map = {Index(r, size) : r \in H}
          /\ p.chunks + Cardinality(p.map) = SlotChunks(size) + 1
      BY <2>4, <2>5 DEF ChunkedGood
    <3>2. /\ SlotChunks(size) \in Nat /\ SlotChunks(size) = PageSize \div size - 1
          /\ PageSize \div size \in Nat
      <4>1. size \in Nat \ {0} /\ SlotChunks(size) \in Nat /\ PageSize \in Nat
        BY <3>1, ChunkSizeIs, Sizes
      <4>2. PageSize \div size \in Nat
        BY <4>1, DivMod
      <4> QED BY <4>1, <4>2 DEF SlotChunks
    <3>3. Cardinality(p.map) \in Nat
      BY <3>1, MapFinite
    <3>4. p.chunks \in Nat
      BY <2>1 DEF PageType
    <3> DEFINE k == PageSize \div size
               c == Cardinality(p.map)
               f == p.chunks
               h == SlotChunks(size)
    <3>5. k \in Nat /\ c \in Nat /\ f \in Nat /\ h = k - 1 /\ f + c = h + 1
      BY <3>1, <3>2, <3>3, <3>4
    <3> HIDE DEF k, c, f, h
    <3>6. f = k - c
      BY <3>5
    <3> QED BY <2>0, <3>1, <3>6 DEF Index, k, c, f
  <2>6. ASSUME NEW s \in ChunkSizes
        PROVE  Occurs(slots[s], pg) =
                  IF p.size # 0 /\ size # PageSize /\ s = size /\ p.chunks > 0 THEN 1 ELSE 0
    <3>1. /\ Distinct(slots[s])
          /\ pg \in Elems(slots[s]) <=> p.size = Shifted(s) /\ p.chunks > 0
      BY DEF IInv, SlotLists, InSlot
    <3>2. p.size = Shifted(s) <=> p.size # 0 /\ size # PageSize /\ s = size
      <4>1. /\ Shifted(s) # 0 /\ Unshifted(Shifted(s)) = s /\ s # PageSize
        BY ChunkSizeIs, PageSizeIs
      <4> QED BY <2>4, <4>1
    <3> QED BY <3>1, <3>2, OccursIs
  <2> QED BY <2>2, <2>3, <2>5, <2>6
<1> QED BY <1>1, Invariance, PTL

(* Nothing of what the pool got from the system is lost, and no cluster is *)
(* kept of which every page is free.                                       *)
THEOREM HeapOwnedTheorem ==
    ASSUME PoolAssumption PROVE Spec => []HeapOwned
<1>1. IInv => HeapOwned
  <2> SUFFICES ASSUME IInv PROVE HeapOwned
    OBVIOUS
  <2>1. \A c \in clusters : \E r \in live : r.block = c
    <3> SUFFICES ASSUME NEW c \in clusters PROVE \E r \in live : r.block = c
      OBVIOUS
    <3>1. PICK n \in Numbers : page[<<c, n>>].size # 0
      BY DEF IInv, ClustersGood
    <3>2. <<c, n>> \in Pages
      BY PagePairs DEF IInv, Typed
    <3>3. HeldIn(live, <<c, n>>) # {}
      BY <3>1, <3>2, GoodHeld DEF IInv, PagesGood
    <3> QED BY <3>3 DEF HeldIn
  <2>2. \A b \in Larges : large[b] # "none" => \E r \in live : r.block = b
    BY DEF IInv, LargesGood
  <2> QED BY <2>1, <2>2 DEF HeapOwned, IInv, HeapIs
<1> QED BY <1>1, Invariance, PTL

=============================================================================
