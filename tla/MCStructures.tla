---------------------------- MODULE MCStructures ----------------------------
(***************************************************************************)
(* The memory pool and the data structures for TLC.  They do not touch     *)
(* each other, so each behaviour is one of the pool, of the tree, of the   *)
(* hash, of the lists or of arrays; the others stay as they were at the    *)
(* start.                                                                  *)
(***************************************************************************)
EXTENDS Integers, MemoryPool, TLC

CONSTANTS Nodes, n1, n2, n3, n4, n5, n6, n7, n8,
          Sentinel, Null,
          Keys, k1, k2, k3, k4, k5, Texts,
          Links, l1, l2, l3, l4, Queue,
          Hole, Garbage, Undefined, NoMemory,
          MaxLive                \* how many allocations callers hold at a time

VARIABLES part,
          tree, members, next,
          slot, blocks, map, answered,
          links, list, middle, arr, held, items,
          this, js, loop, agrees

treeVars  == <<tree, members, next>>
hashVars  == <<slot, blocks, map, answered>>
listVars  == <<links, list, middle, arr, held, items>>
arrayVars == <<this, js, loop, agrees>>

Tree == INSTANCE RBTree WITH
    Key <- [n \in Nodes |-> CASE n = n1 -> 10 [] n \in {n2, n3} -> 20 [] n = n4 -> 30
                              [] n = n5 -> 40 [] n = n6 -> 50 [] n = n7 -> 60 [] n = n8 -> 70]

(* Two keys have the same hash, two others differ in the second level.     *)
Hashes == INSTANCE LevelHash WITH
    Values <- Texts, Shift <- <<1, 1, 0>>, Capacity <- 2, MaxFailAt <- 4,
    Hash <- [k \in Keys |-> CASE k \in {k1, k2} -> 0 [] k = k3 -> 4 [] k = k4 -> 2 [] k = k5 -> 1]

Linked == INSTANCE Lists WITH
    MaxItems <- 4, Rank <- [l \in Links |-> CASE l = l1 -> 1 [] l \in {l2, l3} -> 2 [] l = l4 -> 3]

Array == INSTANCE Arrays WITH
    Values <- {1, 2}, MaxLength <- 3, Spare <- 1, Large <- 2, Positions <- {-2, 0, 4}

(* Chunks of two sizes, one of them by its alignment, whole pages, and      *)
(* blocks whose header is embedded or not.                                 *)
PoolRequests == {<<1, 2>>, <<4, 3>>, <<1, 7>>, <<1, 16>>, <<8, 9>>}

(* Clusters are alike, and so are the other blocks.                        *)
Alike == Permutations(Clusters) \cup Permutations(Larges)

ASSUME PoolAssumption /\ MaxLive \in Nat

StructuresInit ==
    /\ part \in {"pool", "tree", "hash", "lists", "arrays"}
    /\ Init /\ Tree!Init /\ Hashes!Init /\ Linked!Init /\ Array!Init
    /\ part = "arrays" \/ this = Array!Constructed(0)

StructuresNext ==
    /\ UNCHANGED part
    /\ \/ part = "pool" /\ Next /\ Cardinality(live') <= MaxLive
          /\ UNCHANGED <<treeVars, hashVars, listVars, arrayVars>>
       \/ part = "tree" /\ Tree!Next /\ UNCHANGED <<vars, hashVars, listVars, arrayVars>>
       \/ part = "hash" /\ Hashes!Next /\ UNCHANGED <<vars, treeVars, listVars, arrayVars>>
       \/ part = "lists" /\ Linked!Next /\ UNCHANGED <<vars, treeVars, hashVars, arrayVars>>
       \/ part = "arrays" /\ Array!Next /\ UNCHANGED <<vars, treeVars, hashVars, listVars>>

StructuresSpec ==
    StructuresInit /\ [][StructuresNext]_<<part, vars, treeVars, hashVars, listVars, arrayVars>>

(* The invariants that the other modules state, each of its own behaviours. *)
IsSearchTree     == part = "tree" => Tree!IsSearchTree
HashIsMap        == part = "hash" => Hashes!HashIsMap
ListsAsPutIn     == part = "lists" => Linked!ListsAsPutIn
ArraysAsStandard == part = "arrays" => Array!ArraysAsStandard

========================
