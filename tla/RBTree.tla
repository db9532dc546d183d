------------------------------- MODULE RBTree -------------------------------
(***************************************************************************)
(* The red-black tree of njs_rbtree.c, which the memory pool keeps its     *)
(* blocks in.  A tree is a record of functions from nodes: left, right,    *)
(* parent, color.  The sentinel is the leaf of all branches and the parent *)
(* of the root, which is its left child; its right child stores the        *)
(* comparison callback.  A rotation and its mirror image are one operator. *)
(***************************************************************************)
EXTENDS Integers, Sequences, FiniteSets

CONSTANTS Nodes,     \* nodes that callers may insert
          Key,       \* Key[n]: what the comparison callback compares
          Sentinel,
          Null       \* no node

VARIABLES tree,
          members,      \* history: the nodes that callers have put in
          next          \* the iterator of njs_rbtree_destroy_next(), or Null

vars == <<tree, members, next>>

All == Nodes \cup {Sentinel}
Other(side) == IF side = "left" THEN "right" ELSE "left"

Init ==
    /\ tree = [left   |-> [n \in All |-> Sentinel],
               right  |-> [n \in All |-> IF n = Sentinel THEN Null ELSE Sentinel],
               parent |-> [n \in All |-> Sentinel],
               color  |-> [n \in All |-> "black"]]
    /\ members = {}
    /\ next = Null

Root(t) == t.left[Sentinel]

(* What is left in the fields of a node that is out of the tree, and in    *)
(* the sentinel's parent, is written before it is read again.              *)
Settle(t, out) ==
    [left   |-> [n \in All |-> IF n \in out THEN Sentinel ELSE t.left[n]],
     right  |-> [n \in All |-> IF n \in out THEN Sentinel ELSE t.right[n]],
     parent |-> [n \in All |-> IF n \in out \cup {Sentinel} THEN Sentinel ELSE t.parent[n]],
     color  |-> [n \in All |-> IF n \in out THEN "black" ELSE t.color[n]]]

(* njs_rbtree_parent_relink(): subst takes the place of node.              *)
Relink(t, subst, node) ==
    LET p    == t.parent[node]
        side == IF node = t.left[p] THEN "left" ELSE "right"
    IN  [t EXCEPT !.parent[subst] = p, ![side][p] = subst]

(* njs_rbtree_left_rotate(); with side = "right" njs_rbtree_right_rotate().*)
Rotate(t, side, node) ==
    LET child == t[Other(side)][node]
        inner == t[side][child]
        moved == [t EXCEPT ![Other(side)][node] = inner, !.parent[inner] = node,
                           ![side][child] = node]
    IN  [Relink(moved, child, node) EXCEPT !.parent[node] = child]

InsertFixupOuter(t, node) ==                                     \* mutant
    LET parent == t.parent[node]
        grand  == t.parent[parent]
        side   == IF parent = t.left[grand] THEN "left" ELSE "right"
    IN  IF t.color[parent] = "black" THEN t
        ELSE Rotate([t EXCEPT !.color[parent] = "black", !.color[grand] = "red"],
                    Other(side), grand)

(* One pass of the loop of njs_rbtree_insert_fixup(): the colors move up,  *)
(* or the loop ends.                                                       *)
RECURSIVE InsertFixup(_, _)
InsertFixup(t, node) ==
    LET parent == t.parent[node]
        grand  == t.parent[parent]
        side   == IF parent = t.left[grand] THEN "left" ELSE "right"
        uncle  == t[Other(side)][grand]
        inner  == node = t[Other(side)][parent]
        turned == IF inner THEN Rotate(t, side, parent) ELSE t
        top    == IF inner THEN node ELSE parent
    IN  IF t.color[parent] = "black" THEN t
        ELSE IF t.color[uncle] = "black"
        THEN Rotate([turned EXCEPT !.color[top] = "black", !.color[grand] = "red"],
                    Other(side), grand)
        ELSE InsertFixup([t EXCEPT !.color[uncle] = "black", !.color[parent] = "black",
                                   !.color[grand] = "red"], grand)

RECURSIVE Leaf(_, _, _)
Leaf(t, n, at) ==
    LET side == IF Key[n] < Key[at] THEN "left" ELSE "right"
    IN  IF t[side][at] = Sentinel THEN <<at, side>> ELSE Leaf(t, n, t[side][at])

Inserted(t, n) ==
    LET place == IF Root(t) = Sentinel THEN <<Sentinel, "left">> ELSE Leaf(t, n, Root(t))
        hung  == [t EXCEPT !.left[n] = Sentinel, !.right[n] = Sentinel, !.color[n] = "red",
                           ![place[2]][place[1]] = n, !.parent[n] = place[1]]
        fixed == InsertFixup(hung, n)
    IN  [fixed EXCEPT !.color[Root(fixed)] = "black"]

(* One pass of the loop of njs_rbtree_delete_fixup(): the branch of node   *)
(* lacks a black node.                                                     *)
RECURSIVE DeleteFixup(_, _)
DeleteFixup(t, node) ==
    LET parent  == t.parent[node]
        side    == IF node = t.left[parent] THEN "left" ELSE "right"
        far     == Other(side)
        red     == t.color[t[far][parent]] # "black"
        t1      == IF red THEN Rotate([t EXCEPT !.color[t[far][parent]] = "black",
                                                !.color[parent] = "red"], side, parent)
                   ELSE t
        sibling == t1[far][parent]
        outer   == t1.color[t1[far][sibling]]
        near    == t1[side][sibling]
        t2      == IF outer = "black"
                   THEN Rotate([t1 EXCEPT !.color[sibling] = "red", !.color[near] = "black"],
                               far, sibling)
                   ELSE t1
        last    == t2[far][parent]
    IN  IF node = Root(t) \/ t.color[node] # "black"
        THEN [t EXCEPT !.color[node] = "black"]
        ELSE IF outer = "black" /\ t1.color[near] = "black"
        THEN DeleteFixup([t1 EXCEPT !.color[sibling] = "red"], parent)
        ELSE Rotate([t2 EXCEPT !.color[last] = t2.color[parent], !.color[parent] = "black",
                               !.color[t2[far][last]] = "black"], side, parent)

RECURSIVE BranchMin(_, _)
BranchMin(t, n) == IF t.left[n] = Sentinel THEN n ELSE BranchMin(t, t.left[n])

Deleted(t, node) ==
    LET subst == IF Sentinel \in {t.left[node], t.right[node]} THEN node
                 ELSE BranchMin(t, t.right[node])
        child == IF t.left[subst] = Sentinel THEN t.right[subst] ELSE t.left[subst]
        out   == Relink(t, child, subst)
        put   == [out EXCEPT !.color[subst] = out.color[node],
                             !.left[subst] = out.left[node],
                             !.parent[out.left[node]] = subst,
                             !.right[subst] = out.right[node]]
        whole == IF subst = node THEN out
                 ELSE Relink([put EXCEPT !.parent[put.right[subst]] = subst], subst, node)
    IN  IF t.color[subst] = "black" THEN DeleteFixup(whole, child) ELSE whole

(* njs_rbtree_find(), njs_rbtree_find_less_or_equal() and                  *)
(* njs_rbtree_find_greater_or_equal(): keep is the side where a node that  *)
(* was passed is remembered, Null for the first of them.                 *)
RECURSIVE Search(_, _, _, _, _)
Search(t, k, keep, at, best) ==
    IF at = Sentinel THEN best
    ELSE IF k = Key[at] THEN at
    ELSE LET side == IF k < Key[at] THEN "left" ELSE "right"
         IN  Search(t, k, keep, t[side][at], IF side = keep THEN at ELSE best)
Find(t, k)               == Search(t, k, Null, Root(t), Null)
FindLessOrEqual(t, k)    == Search(t, k, "right", Root(t), Null)
FindGreaterOrEqual(t, k) == Search(t, k, "left", Root(t), Null)

(* njs_rbtree_node_successor(), from node up.                              *)
RECURSIVE Climb(_, _)
Climb(t, n) == IF n = t.left[t.parent[n]] THEN t.parent[n] ELSE Climb(t, t.parent[n])
Successor(t, n) == IF t.right[n] # Sentinel THEN BranchMin(t, t.right[n]) ELSE Climb(t, n)

-----------------------------------------------------------------------------
Insert(n) ==
    /\ next = Null /\ n \notin members
    /\ tree' = Settle(Inserted(tree, n), {})
    /\ members' = members \cup {n}
    /\ UNCHANGED next

Delete(n) ==
    /\ next = Null /\ n \in members
    /\ tree' = Settle(Deleted(tree, n), {n})
    /\ members' = members \ {n}
    /\ UNCHANGED next

Destroy ==
    /\ next = Null /\ members # {}
    /\ next' = Root(tree)
    /\ UNCHANGED <<tree, members>>

DestroyNext ==
    /\ next \notin {Null, Sentinel}
    /\ LET node   == BranchMin(tree, next)
           subst  == tree.right[node]
           parent == tree.parent[node]
       IN  /\ tree' = Settle([tree EXCEPT !.left[parent] = subst,
                                          !.parent[subst] = parent], {node})
           /\ next' = IF subst = Sentinel THEN parent ELSE subst
           /\ members' = members \ {node}

(* The iterator has come to the sentinel: there is no node left.           *)
Destroyed == next = Sentinel /\ next' = Null /\ UNCHANGED <<tree, members>>

Next == (\E n \in Nodes : Insert(n) \/ Delete(n)) \/ Destroy \/ DestroyNext \/ Destroyed

-----------------------------------------------------------------------------
RECURSIVE InOrder(_, _)
InOrder(t, n) ==
    IF n = Sentinel THEN <<>>
    ELSE InOrder(t, t.left[n]) \o <<n>> \o InOrder(t, t.right[n])

(* The black nodes from n down to any leaf, or -1 if branches differ or a  *)
(* red node has a red child.                                               *)
RECURSIVE BlackHeight(_, _)
BlackHeight(t, n) ==
    IF n = Sentinel THEN 0
    ELSE LET l == BlackHeight(t, t.left[n])
             r == BlackHeight(t, t.right[n])
             red == t.color[n] = "red"
         IN  IF \/ l = -1
                \/ l # r
                \/ red /\ "red" \in {t.color[t.left[n]], t.color[t.right[n]]}
             THEN -1 ELSE IF red THEN l ELSE l + 1

Balanced == next = Null => BlackHeight(tree, Root(tree)) # -1

Linked ==
    /\ tree.color[Sentinel] = "black" /\ tree.right[Sentinel] = Null
    /\ \A n \in members : \A side \in {"left", "right"} :
          tree[side][n] # Sentinel => tree.parent[tree[side][n]] = n

(* In order, the tree has the members and no other nodes, by key.          *)
Sorted ==
    LET s == InOrder(tree, Root(tree))
    IN  /\ Len(s) = Cardinality(members) /\ members = {s[i] : i \in 1..Len(s)}
        /\ \A i \in 1..Len(s) - 1 :
              Key[s[i]] <= Key[s[i + 1]] /\ Successor(tree, s[i]) = s[i + 1]
        /\ s # <<>> => Successor(tree, s[Len(s)]) = Sentinel

Best(S, k, better(_, _)) ==
    IF S = {} THEN {Null}
    ELSE {n \in S : \A m \in S : ~better(Key[m], Key[n])}

Finds ==
    \A k \in {Key[n] + d : n \in Nodes, d \in {-1, 0, 1}} :
        /\ Find(tree, k) \in Best({n \in members : Key[n] = k}, k, <)
        /\ FindLessOrEqual(tree, k) \in Best({n \in members : Key[n] <= k}, k, >)
        /\ FindGreaterOrEqual(tree, k) \in Best({n \in members : Key[n] >= k}, k, <)

(* Whatever order nodes come and go in, rebalancing leaves a balanced      *)
(* search tree of exactly the nodes that were inserted, in which the three *)
(* searches and the successor find what they should; and destruction, node *)
(* by node, leaves a tree of the rest (njs_rbtree_insert_fixup(),          *)
(* njs_rbtree_delete_fixup(), njs_rbtree_destroy_next()).                  *)
IsSearchTree ==
    /\ Linked /\ Sorted /\ Balanced
    /\ next = Null => Finds
    /\ next = Sentinel => members = {}

=============================================================================
