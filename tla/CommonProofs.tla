---------------------------- MODULE CommonProofs ----------------------------
(***************************************************************************)
(* Lemmas that the proofs about several modules share: the least of a set  *)
(* of numbers, and what inserting and removing links does to a queue of    *)
(* any length.                                                             *)
(***************************************************************************)
EXTENDS Queues, WellFoundedInduction, TLAPS

(* What stands in for induction: a counterexample has a least one.         *)
LEMMA LeastNumber ==
    ASSUME NEW T, T \subseteq Nat, T # {}
    PROVE  \E m \in T : \A k \in T : m <= k
<1> DEFINE R == OpToRel(<, Nat)
<1>1. IsWellFoundedOn(R, Nat)
  BY NatLessThanWellFounded
<1>2. \A k, m \in Nat : k < m => <<k, m>> \in R
  BY DEF OpToRel
<1> HIDE DEF R
<1>3. PICK m \in T : \A k \in T : ~ (<<k, m>> \in R)
  BY <1>1, WFMin, Zenon
<1>4. \A k \in T : k \in Nat /\ m \in Nat /\ ~ (k < m)
  BY <1>2, <1>3, Zenon
<1>5. \A k \in T : m <= k
  BY <1>4
<1> QED BY <1>5

-----------------------------------------------------------------------------
(* No link is in a queue twice.                                            *)
Distinct(q) == \A i, j \in DOMAIN q : q[i] = q[j] => i = j

(* njs_queue_remove() takes the given link and no other out of a queue.    *)
LEMMA UnlinkDistinct ==
    ASSUME NEW S, NEW q \in Seq(S), Distinct(q), NEW e \in Elems(q)
    PROVE  /\ Unlink(q, e) \in Seq(S)
           /\ Elems(Unlink(q, e)) = Elems(q) \ {e}
           /\ Distinct(Unlink(q, e))
<1> DEFINE at == CHOOSE i \in DOMAIN q : q[i] = e
           u  == Unlink(q, e)
           from(i) == IF i < at THEN i ELSE i + 1
<1>1. at \in 1 .. Len(q) /\ q[at] = e /\ Len(q) \in Nat /\ DOMAIN q = 1 .. Len(q)
  BY DEF Elems
<1>2. u = [i \in 1 .. Len(q) - 1 |-> IF i < at THEN q[i] ELSE q[i + 1]]
  BY DEF Unlink
<1> HIDE DEF at
<1>3. /\ u \in Seq(S) /\ DOMAIN u = 1 .. Len(q) - 1
      /\ \A i \in 1 .. Len(q) - 1 :
            from(i) \in 1 .. Len(q) /\ from(i) # at /\ u[i] = q[from(i)]
  BY <1>1, <1>2
<1>4. Elems(u) \subseteq Elems(q) \ {e}
  <2> SUFFICES ASSUME NEW i \in 1 .. Len(q) - 1
               PROVE  u[i] \in Elems(q) /\ u[i] # e
    BY <1>3 DEF Elems
  <2>1. from(i) \in DOMAIN q /\ at \in DOMAIN q /\ from(i) # at /\ u[i] = q[from(i)]
    BY <1>1, <1>3
  <2> HIDE DEF from
  <2> QED BY <2>1, <1>1 DEF Elems, Distinct
<1>5. Elems(q) \ {e} \subseteq Elems(u)
  <2> SUFFICES ASSUME NEW j \in 1 .. Len(q), q[j] # e
               PROVE  \E i \in 1 .. Len(q) - 1 : u[i] = q[j]
    <3>1. Elems(q) = {q[i] : i \in 1 .. Len(q)}
      BY <1>1 DEF Elems
    <3>2. Elems(u) = {u[i] : i \in 1 .. Len(q) - 1}
      BY <1>3 DEF Elems
    <3> HIDE DEF u
    <3> QED BY <3>1, <3>2
  <2>1. CASE j < at
    <3>1. j \in 1 .. Len(q) - 1 /\ u[j] = q[j]
      BY <2>1, <1>1, <1>2
    <3> QED BY <3>1
  <2>2. CASE at < j
    <3>1. j - 1 \in 1 .. Len(q) - 1 /\ u[j - 1] = q[j]
      BY <2>2, <1>1, <1>2
    <3> QED BY <3>1
  <2>3. j # at
    BY <1>1
  <2> QED BY <2>1, <2>2, <2>3, <1>1
<1>6. Distinct(u)
  <2> SUFFICES ASSUME NEW i \in 1 .. Len(q) - 1, NEW j \in 1 .. Len(q) - 1,
                      u[i] = u[j]
               PROVE  i = j
    BY <1>3 DEF Distinct
  <2>1. /\ from(i) \in DOMAIN q /\ from(j) \in DOMAIN q
        /\ q[from(i)] = q[from(j)]
    BY <1>1, <1>3
  <2>2. from(i) = from(j)
    <3> HIDE DEF from
    <3> QED BY <2>1 DEF Distinct
  <2> QED BY <2>2, <1>1
<1> QED BY <1>3, <1>4, <1>5, <1>6

(* njs_queue_insert_tail() of a link that is in no queue.                  *)
LEMMA AppendDistinct ==
    ASSUME NEW S, NEW q \in Seq(S), Distinct(q), NEW e \in S, e \notin Elems(q)
    PROVE  /\ Append(q, e) \in Seq(S)
           /\ Elems(Append(q, e)) = Elems(q) \cup {e}
           /\ Distinct(Append(q, e))
<1>1. /\ Append(q, e) \in Seq(S)
      /\ DOMAIN q = 1 .. Len(q) /\ Len(q) \in Nat
      /\ DOMAIN Append(q, e) = 1 .. Len(q) + 1
      /\ \A i \in 1 .. Len(q) : Append(q, e)[i] = q[i]
      /\ Append(q, e)[Len(q) + 1] = e
  OBVIOUS
<1>2. Elems(Append(q, e)) = Elems(q) \cup {e}
  BY <1>1 DEF Elems
<1>3. Distinct(Append(q, e))
  BY <1>1 DEF Distinct, Elems
<1> QED BY <1>1, <1>2, <1>3

(* A queue is empty if it has no links, and otherwise has a first one.     *)
LEMMA HeadElems ==
    ASSUME NEW S, NEW q \in Seq(S)
    PROVE  /\ q = <<>> <=> Elems(q) = {}
           /\ q # <<>> => Head(q) \in Elems(q)
<1>1. DOMAIN q = 1 .. Len(q) /\ Len(q) \in Nat
  OBVIOUS
<1>2. CASE q = <<>>
  BY <1>2 DEF Elems
<1>3. CASE q # <<>>
  <2>1. 1 \in DOMAIN q /\ Head(q) = q[1]
    BY <1>3
  <2>2. Head(q) \in Elems(q)
    BY <2>1 DEF Elems
  <2> QED BY <2>2, <1>3
<1> QED BY <1>2, <1>3

(* njs_queue_remove() of the first link.                                   *)
LEMMA TailDistinct ==
    ASSUME NEW S, NEW q \in Seq(S), Distinct(q), q # <<>>
    PROVE  /\ Tail(q) \in Seq(S)
           /\ Elems(Tail(q)) = Elems(q) \ {Head(q)}
           /\ Distinct(Tail(q))
<1>1. /\ Len(q) \in Nat /\ Len(q) # 0 /\ DOMAIN q = 1 .. Len(q) /\ Head(q) = q[1]
      /\ Tail(q) \in Seq(S) /\ DOMAIN Tail(q) = 1 .. Len(q) - 1
      /\ \A i \in 1 .. Len(q) - 1 : Tail(q)[i] = q[i + 1]
  OBVIOUS
<1>2. Distinct(Tail(q))
  <2> SUFFICES ASSUME NEW i \in 1 .. Len(q) - 1, NEW j \in 1 .. Len(q) - 1,
                      Tail(q)[i] = Tail(q)[j]
               PROVE  i = j
    BY <1>1 DEF Distinct
  <2>1. i + 1 \in DOMAIN q /\ j + 1 \in DOMAIN q /\ q[i + 1] = q[j + 1]
    BY <1>1
  <2>2. i + 1 = j + 1
    BY <2>1, Zenon DEF Distinct
  <2> QED BY <2>2, <1>1
<1>3. Elems(Tail(q)) \subseteq Elems(q) \ {Head(q)}
  <2> SUFFICES ASSUME NEW i \in 1 .. Len(q) - 1
               PROVE  Tail(q)[i] \in Elems(q) /\ Tail(q)[i] # Head(q)
    BY <1>1 DEF Elems
  <2>1. /\ i + 1 \in DOMAIN q /\ 1 \in DOMAIN q /\ i + 1 # 1
        /\ Tail(q)[i] = q[i + 1]
    BY <1>1
  <2> QED BY <1>1, <2>1 DEF Distinct, Elems
<1>4. Elems(q) \ {Head(q)} \subseteq Elems(Tail(q))
  <2> SUFFICES ASSUME NEW j \in 1 .. Len(q), j # 1
               PROVE  q[j] \in Elems(Tail(q))
    BY <1>1 DEF Elems
  <2>1. j - 1 \in 1 .. Len(q) - 1 /\ Tail(q)[j - 1] = q[j]
    BY <1>1
  <2> QED BY <1>1, <2>1 DEF Elems
<1> QED BY <1>1, <1>2, <1>3, <1>4

(* njs_queue_insert_head() of a link that is in no queue.                  *)
LEMMA PrependDistinct ==
    ASSUME NEW S, NEW q \in Seq(S), Distinct(q), NEW e \in S, e \notin Elems(q)
    PROVE  /\ <<e>> \o q \in Seq(S)
           /\ Elems(<<e>> \o q) = Elems(q) \cup {e}
           /\ Distinct(<<e>> \o q)
<1> DEFINE p == <<e>> \o q
<1>1. /\ Len(q) \in Nat /\ DOMAIN q = 1 .. Len(q)
      /\ p \in Seq(S) /\ DOMAIN p = 1 .. Len(q) + 1 /\ p[1] = e
      /\ \A i \in 1 .. Len(q) : p[i + 1] = q[i]
  OBVIOUS
<1>2. \A i \in 1 .. Len(q) + 1 : i # 1 => i - 1 \in DOMAIN q /\ p[i] = q[i - 1]
  BY <1>1
<1> HIDE DEF p
<1>3. Elems(p) = Elems(q) \cup {e}
  <2>1. Elems(p) \subseteq Elems(q) \cup {e}
    BY <1>1, <1>2 DEF Elems
  <2>2. Elems(q) \subseteq Elems(p)
    <3> SUFFICES ASSUME NEW i \in 1 .. Len(q) PROVE q[i] \in Elems(p)
      BY <1>1 DEF Elems
    <3>1. i + 1 \in DOMAIN p /\ p[i + 1] = q[i]
      BY <1>1
    <3> QED BY <3>1 DEF Elems
  <2>3. e \in Elems(p)
    BY <1>1 DEF Elems
  <2> QED BY <2>1, <2>2, <2>3
<1>4. Distinct(p)
  <2> SUFFICES ASSUME NEW i \in 1 .. Len(q) + 1, NEW j \in 1 .. Len(q) + 1,
                      p[i] = p[j]
               PROVE  i = j
    BY <1>1 DEF Distinct
  <2>1. CASE i # 1 /\ j # 1
    <3>1. i - 1 = j - 1
      BY <1>2, <2>1 DEF Distinct
    <3> QED BY <3>1
  <2>2. CASE i = 1 \/ j = 1
    BY <1>1, <1>2, <2>2 DEF Elems
  <2> QED BY <2>1, <2>2
<1> QED BY <1>1, <1>3, <1>4 DEF p

=============================================================================
