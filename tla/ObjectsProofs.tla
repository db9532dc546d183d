---------------------------- MODULE ObjectsProofs ----------------------------
(***************************************************************************)
(* Proofs about module Objects: for any set of objects, names, values and  *)
(* descriptors, and for any contents of the shared tables.                 *)
(***************************************************************************)
EXTENDS Objects, CommonProofs, FiniteSetTheorems, TLAPS

(* Walks along __proto__ end: the prototype of an object is nearer to the  *)
(* end of the walk.                                                        *)
Acyclic ==
    \E rank \in [Objects -> Nat] :
        \A x \in Objects : proto[x] # Null => rank[proto[x]] < rank[x]

IInv == TypeOK /\ Acyclic

Size == Cardinality(Objects)

-----------------------------------------------------------------------------
(* The chain of an object.  *)

LEMMA SizeNat == Size \in Nat
BY FS_CardinalityType, ObjectsAssumption DEF Size

Above(x) == IF x = Null THEN Null ELSE proto[x]

IsChain(c, o, k) ==
    c = [i \in 0 .. k |-> IF i = 0 THEN o
                          ELSE IF c[i - 1] = Null THEN Null ELSE proto[c[i - 1]]]

LEMMA ChainExists ==
    ASSUME NEW o
    PROVE  \A k \in Nat : \E c : IsChain(c, o, k)
<1> DEFINE T == {k \in Nat : ~ \E c : IsChain(c, o, k)}
<1> SUFFICES ASSUME T # {} PROVE FALSE
  OBVIOUS
<1>1. PICK m \in T : \A k \in T : m <= k
  BY LeastNumber
<1>2. m # 0
  <2>1. IsChain([i \in 0 .. 0 |-> o], o, 0)
    BY DEF IsChain
  <2> QED BY <2>1
<1>3. m \in Nat /\ m - 1 \in Nat /\ m - 1 \notin T
  BY <1>1, <1>2
<1>4. PICK c : IsChain(c, o, m - 1)
  BY <1>3
<1> DEFINE d == [i \in 0 .. m |-> IF i = m THEN Above(c[m - 1]) ELSE c[i]]
<1>5. \A i \in 0 .. m : d[i] = IF i = 0 THEN o ELSE Above(d[i - 1])
  <2> SUFFICES ASSUME NEW i \in 0 .. m
               PROVE  d[i] = IF i = 0 THEN o ELSE Above(d[i - 1])
    OBVIOUS
  <2>1. \A j \in 0 .. m - 1 : d[j] = c[j]
    BY <1>3
  <2>2. \A j \in 0 .. m - 1 : c[j] = IF j = 0 THEN o ELSE Above(c[j - 1])
    BY <1>4 DEF IsChain, Above
  <2>3. CASE i = m
    BY <1>2, <1>3, <2>1, <2>3
  <2>4. CASE i # m
    <3>1. i \in 0 .. m - 1 /\ (i # 0 => i - 1 \in 0 .. m - 1)
      BY <1>3, <2>4
    <3> HIDE DEF d
    <3> QED BY <2>1, <2>2, <3>1
  <2> QED BY <2>3, <2>4
<1>6. IsChain(d, o, m)
  <2>1. d = [i \in 0 .. m |-> d[i]]
    OBVIOUS
  <2> HIDE DEF d
  <2> QED BY <1>5, <2>1 DEF IsChain, Above
<1> QED BY <1>1, <1>6

LEMMA ChainIs ==
    ASSUME NEW o
    PROVE  /\ DOMAIN Chain(o) = 0 .. Size
           /\ Chain(o)[0] = o
           /\ \A i \in 1 .. Size : Chain(o)[i] = Above(Chain(o)[i - 1])
<1>1. Chain(o) = CHOOSE c : IsChain(c, o, Size)
  BY DEF Chain, IsChain, Size
<1>2. IsChain(Chain(o), o, Size)
  BY <1>1, ChainExists, SizeNat
<1> QED BY <1>2, SizeNat DEF IsChain, Above

LEMMA ChainType ==
    ASSUME NEW o \in Objects, proto \in [Objects -> Objects \cup {Null}]
    PROVE  \A i \in 0 .. Size : Chain(o)[i] \in Objects \cup {Null}
<1> DEFINE c == Chain(o)
           T == {i \in 0 .. Size : c[i] \notin Objects \cup {Null}}
<1>1. /\ c[0] = o /\ Size \in Nat
      /\ \A i \in 1 .. Size : c[i] = Above(c[i - 1])
  BY ChainIs, SizeNat
<1> HIDE DEF c
<1> SUFFICES ASSUME T # {} PROVE FALSE
  BY DEF c
<1>2. PICK m \in T : \A k \in T : m <= k
  <2>1. T \subseteq Nat
    OBVIOUS
  <2> QED BY <2>1, LeastNumber
<1>3. m \in 1 .. Size /\ m - 1 \in 0 .. Size /\ m - 1 \notin T
  BY <1>1, <1>2
<1>4. c[m - 1] \in Objects \cup {Null} /\ c[m] = Above(c[m - 1])
  BY <1>1, <1>3
<1> QED BY <1>2, <1>4 DEF Above

(* After its end a chain stays at Null.                                    *)
LEMMA ChainPrefix ==
    ASSUME NEW o, NEW i \in 0 .. Size, Chain(o)[i] # Null
    PROVE  \A j \in 0 .. i : Chain(o)[j] # Null
<1> DEFINE c == Chain(o)
           T == {k \in 0 .. i : c[i - k] = Null}
<1>1. Size \in Nat /\ \A j \in 1 .. Size : c[j] = Above(c[j - 1])
  BY ChainIs, SizeNat
<1> SUFFICES ASSUME T # {} PROVE FALSE
  <2>1. \A j \in 0 .. i : i - j \in 0 .. i /\ i - (i - j) = j
    BY <1>1
  <2> QED BY <2>1
<1> HIDE DEF c
<1>2. PICK m \in T : \A k \in T : m <= k
  <2>1. T \subseteq Nat
    OBVIOUS
  <2> QED BY <2>1, LeastNumber
<1>3. m # 0
  BY <1>1 DEF c
<1>4. m \in 1 .. i /\ m - 1 \in 0 .. i /\ m - 1 \notin T
  BY <1>1, <1>2, <1>3
<1>5. i - (m - 1) \in 1 .. Size /\ i - (m - 1) - 1 = i - m
  BY <1>1, <1>4
<1>6. c[i - (m - 1)] = Above(c[i - m]) /\ c[i - m] = Null
  BY <1>1, <1>2, <1>5
<1> QED BY <1>4, <1>6 DEF Above

(* What njs_object_property_query() finds.                                 *)
LEMMA HolderIs ==
    ASSUME NEW o \in Objects, NEW n, proto \in [Objects -> Objects \cup {Null}]
    PROVE  \/ /\ Holder(o, n) = Null
              /\ \A j \in 0 .. Size : Chain(o)[j] # Null => ~Visible(Chain(o)[j], n)
           \/ \E i \in 0 .. Size :
                /\ Holder(o, n) = Chain(o)[i]
                /\ Chain(o)[i] \in Objects /\ Visible(Chain(o)[i], n)
                /\ \A j \in 0 .. i - 1 : Chain(o)[j] # Null /\ ~Visible(Chain(o)[j], n)
<1> DEFINE c == Chain(o)
           at == {i \in 0 .. Size : c[i] # Null /\ Visible(c[i], n)}
<1>1. DOMAIN c = 0 .. Size /\ Size \in Nat
  BY ChainIs, SizeNat
<1>2. Holder(o, n) = IF at = {} THEN Null
                     ELSE c[CHOOSE i \in at : \A j \in at : i <= j]
  BY <1>1 DEF Holder
<1>3. CASE at = {}
  BY <1>2, <1>3
<1>4. CASE at # {}
  <2>1. \E i \in at : \A j \in at : i <= j
    <3>1. at \subseteq Nat
      OBVIOUS
    <3> HIDE DEF at
    <3> QED BY <1>4, <3>1, LeastNumber
  <2>2. PICK i \in at : (\A j \in at : i <= j) /\ Holder(o, n) = c[i]
    <3> HIDE DEF at, c
    <3> QED BY <1>2, <1>4, <2>1
  <2>3. i \in 0 .. Size /\ c[i] # Null /\ Visible(c[i], n) /\ c[i] \in Objects
    BY <2>2, ChainType
  <2>4. \A j \in 0 .. i - 1 : j \in 0 .. Size /\ j \in 0 .. i /\ ~ (i <= j)
    BY <1>1, <2>3
  <2>5. \A j \in 0 .. i - 1 : c[j] # Null
    BY <2>3, <2>4, ChainPrefix
  <2>6. \A j \in 0 .. i - 1 : ~Visible(c[j], n)
    BY <2>2, <2>4, <2>5
  <2> QED BY <2>2, <2>3, <2>5, <2>6
<1> QED BY <1>3, <1>4

(* The object itself hides what its prototypes have.                       *)
LEMMA HolderFacts ==
    ASSUME NEW o \in Objects, NEW n, proto \in [Objects -> Objects \cup {Null}]
    PROVE  /\ Holder(o, n) \in Objects \cup {Null}
           /\ Holder(o, n) # Null => Visible(Holder(o, n), n)
           /\ Visible(o, n) <=> Holder(o, n) = o
<1>1. Chain(o)[0] = o /\ Size \in Nat /\ o # Null
  BY ChainIs, SizeNat, ObjectsAssumption
<1>2. CASE /\ Holder(o, n) = Null
           /\ \A j \in 0 .. Size : Chain(o)[j] # Null => ~Visible(Chain(o)[j], n)
  <2>1. 0 \in 0 .. Size
    BY <1>1
  <2> QED BY <1>1, <1>2, <2>1
<1>3. CASE \E i \in 0 .. Size :
              /\ Holder(o, n) = Chain(o)[i]
              /\ Chain(o)[i] \in Objects /\ Visible(Chain(o)[i], n)
              /\ \A j \in 0 .. i - 1 : Chain(o)[j] # Null /\ ~Visible(Chain(o)[j], n)
  <2>1. PICK i \in 0 .. Size :
              /\ Holder(o, n) = Chain(o)[i]
              /\ Chain(o)[i] \in Objects /\ Visible(Chain(o)[i], n)
              /\ \A j \in 0 .. i - 1 : Chain(o)[j] # Null /\ ~Visible(Chain(o)[j], n)
    BY <1>3
  <2>2. i # 0 => ~Visible(o, n)
    <3>1. i # 0 => 0 \in 0 .. i - 1
      BY <1>1
    <3> QED BY <1>1, <2>1, <3>1
  <2> QED BY <1>1, <2>1, <2>2, ObjectsAssumption
<1> QED BY <1>2, <1>3, HolderIs

-----------------------------------------------------------------------------
(* Chains end.  *)

(* The chain of an object goes on with the chain of its prototype.         *)
LEMMA ChainShift ==
    ASSUME NEW o
    PROVE  \A i \in 0 .. Size - 1 : Chain(o)[i + 1] = Chain(Above(o))[i]
<1> DEFINE c == Chain(o)
           d == Chain(Above(o))
           T == {i \in 0 .. Size - 1 : c[i + 1] # d[i]}
<1>1. /\ Size \in Nat /\ c[0] = o /\ d[0] = Above(o)
      /\ \A i \in 1 .. Size : c[i] = Above(c[i - 1]) /\ d[i] = Above(d[i - 1])
  BY ChainIs, SizeNat
<1> HIDE DEF c, d
<1> SUFFICES ASSUME T # {} PROVE FALSE
  BY DEF c, d
<1>2. PICK m \in T : \A k \in T : m <= k
  <2>1. T \subseteq Nat
    BY <1>1
  <2> HIDE DEF T
  <2> QED BY <2>1, LeastNumber
<1>3. m \in Nat /\ m + 1 \in 1 .. Size /\ (m + 1) - 1 = m
  BY <1>1, <1>2
<1>4. c[m + 1] = Above(c[m])
  BY <1>1, <1>3
<1>5. CASE m = 0
  BY <1>1, <1>2, <1>4, <1>5
<1>6. CASE m # 0
  <2>1. m \in 1 .. Size /\ m - 1 \in 0 .. Size - 1 /\ m - 1 \notin T /\ (m - 1) + 1 = m
    BY <1>1, <1>2, <1>3, <1>6
  <2>2. c[m] = d[m - 1] /\ d[m] = Above(d[m - 1])
    BY <1>1, <2>1
  <2> QED BY <1>2, <1>4, <2>2
<1> QED BY <1>5, <1>6

LEMMA AcyclicEnds ==
    ASSUME Acyclic, proto \in [Objects -> Objects \cup {Null}]
    PROVE  ChainsEnd
<1> SUFFICES ASSUME NEW o \in Objects, Chain(o)[Size] # Null PROVE FALSE
  BY DEF ChainsEnd, Size
<1> DEFINE c == Chain(o)
<1>1. /\ Size \in Nat /\ DOMAIN c = 0 .. Size
      /\ \A i \in 1 .. Size : c[i] = Above(c[i - 1])
  BY ChainIs, SizeNat
<1>2. \A i \in 0 .. Size : c[i] \in Objects
  <2>1. Size \in 0 .. Size
    BY <1>1
  <2> QED BY <2>1, ChainPrefix, ChainType
<1> HIDE DEF c
<1>3. PICK rank \in [Objects -> Nat] :
         \A x \in Objects : proto[x] # Null => rank[proto[x]] < rank[x]
  BY DEF Acyclic
<1>4. \A i \in 1 .. Size : rank[c[i]] < rank[c[i - 1]]
  <2> SUFFICES ASSUME NEW i \in 1 .. Size PROVE rank[c[i]] < rank[c[i - 1]]
    OBVIOUS
  <2>1. i - 1 \in 0 .. Size /\ i \in 0 .. Size
    BY <1>1
  <2>2. c[i] = proto[c[i - 1]] /\ c[i - 1] \in Objects /\ c[i] # Null
    BY <1>1, <1>2, <2>1, ObjectsAssumption DEF Above
  <2> QED BY <1>3, <2>2
<1>5. \A k \in 0 .. Size : \A j \in 0 .. k - 1 : rank[c[k]] < rank[c[j]]
  <2> DEFINE T == {k \in 0 .. Size : \E j \in 0 .. k - 1 : ~ (rank[c[k]] < rank[c[j]])}
  <2> SUFFICES ASSUME T # {} PROVE FALSE
    OBVIOUS
  <2>1. PICK m \in T : \A k \in T : m <= k
    <3>1. T \subseteq Nat
      BY <1>1
    <3> HIDE DEF T
    <3> QED BY <3>1, LeastNumber
  <2>2. PICK j \in 0 .. m - 1 : ~ (rank[c[m]] < rank[c[j]])
    BY <2>1
  <2>3. m \in 1 .. Size /\ m - 1 \in 0 .. Size /\ m - 1 \notin T /\ j \in 0 .. Size
    BY <1>1, <2>1, <2>2
  <2>4. rank[c[m]] < rank[c[m - 1]]
    BY <1>4, <2>3
  <2>5. j # m - 1
    BY <2>2, <2>4
  <2>6. j \in 0 .. (m - 1) - 1
    BY <2>2, <2>3, <2>5
  <2>7. rank[c[m - 1]] < rank[c[j]]
    BY <2>3, <2>6
  <2>8. /\ rank[c[m]] \in Nat /\ rank[c[m - 1]] \in Nat /\ rank[c[j]] \in Nat
    BY <1>2, <1>3, <2>3
  <2> QED BY <2>2, <2>4, <2>7, <2>8
<1>6. PICK x, y \in 0 .. Size : x # y /\ c[x] = c[y]
  <2>1. c \in [0 .. Size -> Objects]
    <3>1. c = [i \in 0 .. Size |-> c[i]]
      BY <1>1, ChainIs, SizeNat DEF c, Chain, Size
    <3> QED BY <1>2, <3>1
  <2>2. IsFiniteSet(0 .. Size) /\ Cardinality(0 .. Size) = Size + 1
    BY <1>1, FS_Interval
  <2>3. IsFiniteSet(Objects) /\ Cardinality(Objects) < Cardinality(0 .. Size)
    BY <1>1, <2>2, ObjectsAssumption DEF Size
  <2> QED BY <2>1, <2>2, <2>3, FS_PigeonHole
<1>7. CASE x < y
  <2>1. x \in 0 .. y - 1 /\ c[y] \in Objects /\ rank[c[y]] \in Nat
    BY <1>1, <1>2, <1>3, <1>7
  <2> QED BY <1>5, <1>6, <2>1
<1>8. CASE y < x
  <2>1. y \in 0 .. x - 1 /\ c[y] \in Objects /\ rank[c[y]] \in Nat
    BY <1>1, <1>2, <1>3, <1>8
  <2> QED BY <1>5, <1>6, <2>1
<1> QED BY <1>1, <1>6, <1>7, <1>8

(* Putting an object that is in no chain of p below p closes no chain.     *)
LEMMA NewPrototype ==
    ASSUME Acyclic, proto \in [Objects -> Objects \cup {Null}],
           NEW o \in Objects, NEW p \in Objects \cup {Null},
           p # Null => \A i \in DOMAIN Chain(p) : Chain(p)[i] # o,
           proto' = [proto EXCEPT ![o] = p]
    PROVE  Acyclic'
<1>1. PICK rank \in [Objects -> Nat] :
         \A x \in Objects : proto[x] # Null => rank[proto[x]] < rank[x]
  BY DEF Acyclic
<1>2. /\ proto'[o] = p /\ \A x \in Objects : x # o => proto'[x] = proto[x]
  OBVIOUS
<1>3. CASE p = Null
  BY <1>1, <1>2, <1>3 DEF Acyclic
<1>4. CASE p # Null
  <2> DEFINE Reaches(x) == \E i \in 0 .. Size : Chain(x)[i] = o
             new == [x \in Objects |-> IF Reaches(x) THEN rank[x] + rank[p] + 1
                                       ELSE rank[x]]
  <2>1. p \in Objects /\ ~Reaches(p) /\ Reaches(o)
    BY <1>4, ChainIs, SizeNat
  <2>2. \A x, y \in Objects : proto[x] = y /\ Reaches(y) => Reaches(x)
    <3> SUFFICES ASSUME NEW x \in Objects, NEW y \in Objects, proto[x] = y,
                        NEW j \in 0 .. Size, Chain(y)[j] = o
                 PROVE  \E i \in 0 .. Size : Chain(x)[i] = o
      OBVIOUS
    <3>1. Chain(y)[Size] = Null /\ Size \in Nat /\ o # Null /\ x # Null
      BY AcyclicEnds, SizeNat, ObjectsAssumption DEF ChainsEnd, Size
    <3>2. j \in 0 .. Size - 1 /\ j + 1 \in 0 .. Size
      BY <3>1
    <3>3. Chain(x)[j + 1] = Chain(y)[j]
      BY <3>1, <3>2, ChainShift DEF Above
    <3> QED BY <3>2, <3>3
  <2> HIDE DEF Reaches
  <2>3. new \in [Objects -> Nat]
    <3>0. rank[p] \in Nat
      BY <1>1, <1>4
    <3>1. \A x \in Objects : rank[x] \in Nat /\ rank[x] + rank[p] + 1 \in Nat
      <4>1. \A a, b \in Nat : a + b + 1 \in Nat
        OBVIOUS
      <4>2. \A x \in Objects : rank[x] \in Nat
        OBVIOUS
      <4> QED BY <3>0, <4>1, <4>2, Zenon
    <3>2. \A x \in Objects : (IF Reaches(x) THEN rank[x] + rank[p] + 1
                               ELSE rank[x]) \in Nat
      BY <3>1
    <3> QED BY <3>2
  <2>4. \A x \in Objects : proto'[x] # Null => new[proto'[x]] < new[x]
    <3> SUFFICES ASSUME NEW x \in Objects, proto'[x] # Null
                 PROVE  new[proto'[x]] < new[x]
      OBVIOUS
    <3>1. rank[x] \in Nat /\ rank[p] \in Nat
      BY <1>1, <2>1
    <3>2. CASE x = o
      BY <1>2, <2>1, <3>1, <3>2
    <3>3. CASE x # o
      <4>1. /\ proto'[x] = proto[x] /\ proto[x] \in Objects
            /\ rank[proto[x]] < rank[x] /\ rank[proto[x]] \in Nat
        BY <1>1, <1>2, <3>3
      <4>2. Reaches(proto[x]) => Reaches(x)
        BY <2>2, <4>1
      <4> QED BY <3>1, <4>1, <4>2
    <3> QED BY <3>2, <3>3
  <2> HIDE DEF new
  <2> QED BY <2>3, <2>4 DEF Acyclic
<1> QED BY <1>3, <1>4

-----------------------------------------------------------------------------
(* The tables.  *)

TableType == [Objects -> [Names -> PropertyType \cup {None}]]

LEMMA EntryType ==
    ASSUME hash \in TableType, NEW o \in Objects, NEW n \in Names
    PROVE  /\ Entry(o, n) \in PropertyType \cup {None}
           /\ Visible(o, n) => Entry(o, n) \in PropertyType
           /\ OwnWhiteout(o, n) => hash[o][n] \in PropertyType
BY ObjectsAssumption DEF TableType, Entry, Visible, OwnWhiteout

(* What an operation may do to the properties that queries find: nothing,  *)
(* or change one of them.                                                  *)
SameFound == \A x \in Objects, m \in Names : Entry(x, m)' = Entry(x, m)

Only(o, n, p) ==
    /\ Entry(o, n)' = p
    /\ \A x \in Objects, m \in Names :
          x # o \/ m # n => Entry(x, m)' = Entry(x, m)

Update(t, o, n, p) == [t EXCEPT ![o][n] = p]

LEMMA Put ==
    ASSUME NEW t \in TableType, NEW o \in Objects, NEW n \in Names,
           NEW p \in PropertyType, NEW u, u = Update(t, o, n, p)
    PROVE  /\ u \in TableType /\ u[o][n] = p
           /\ \A x \in Objects, m \in Names : x # o \/ m # n => u[x][m] = t[x][m]
<1> DEFINE row == [t[o] EXCEPT ![n] = p]
<1>1. row \in [Names -> PropertyType \cup {None}]
  BY DEF TableType
<1>2. /\ row[n] = p /\ \A m \in Names : m # n => row[m] = t[o][m]
  BY DEF TableType
<1>3. u = [t EXCEPT ![o] = row]
  BY DEF Update
<1> HIDE DEF row
<1>4. u \in TableType /\ u[o] = row /\ \A x \in Objects : x # o => u[x] = t[x]
  BY <1>1, <1>3 DEF TableType
<1> QED BY <1>2, <1>4

LEMMA StoreIs ==
    ASSUME hash \in TableType, NEW o \in Objects, NEW n \in Names,
           NEW p \in PropertyType, hash' = Update(hash, o, n, p)
    PROVE  hash' \in TableType /\ Only(o, n, p)
<1>1. /\ hash' \in TableType /\ hash'[o][n] = p
      /\ \A x \in Objects, m \in Names : x # o \/ m # n => hash'[x][m] = hash[x][m]
  BY Put
<1> QED BY <1>1, ObjectsAssumption DEF Only, Entry

(* The private copy of a property cannot be told from the shared one.      *)
LEMMA Copied ==
    ASSUME hash \in TableType, NEW h \in Objects \cup {Null}, NEW n \in Names,
           h # Null => Visible(h, n), NEW t, t = PrivateCopy(h, n)
    PROVE  /\ t \in TableType
           /\ h # Null => t[h][n] = Entry(h, n)
           /\ \A x \in Objects, m \in Names :
                 (IF t[x][m] # None THEN t[x][m] ELSE Shared[x][m]) = Entry(x, m)
<1>1. CASE h = Null
  BY <1>1 DEF PrivateCopy, Entry
<1>2. CASE h # Null
  <2>1. h \in Objects /\ Entry(h, n) \in PropertyType
    BY <1>2, EntryType
  <2>2. /\ t \in TableType /\ t[h][n] = Entry(h, n)
        /\ \A x \in Objects, m \in Names : x # h \/ m # n => t[x][m] = hash[x][m]
    <3>1. t = Update(hash, h, n, Entry(h, n))
      BY <1>2 DEF PrivateCopy, Update
    <3> QED BY <2>1, <3>1, Put
  <2> QED BY <2>1, <2>2, ObjectsAssumption DEF Entry
<1> QED BY <1>1, <1>2

LEMMA CopyIs ==
    ASSUME hash \in TableType, NEW h \in Objects \cup {Null}, NEW n \in Names,
           h # Null => Visible(h, n), hash' = PrivateCopy(h, n)
    PROVE  hash' \in TableType /\ SameFound
<1>1. /\ hash' \in TableType
      /\ \A x \in Objects, m \in Names :
            (IF hash'[x][m] # None THEN hash'[x][m] ELSE Shared[x][m]) = Entry(x, m)
  BY Copied
<1> QED BY <1>1 DEF SameFound, Entry

LEMMA CopyStoreIs ==
    ASSUME hash \in TableType, NEW h \in Objects \cup {Null}, NEW n \in Names,
           h # Null => Visible(h, n), NEW o \in Objects, NEW p \in PropertyType,
           hash' = Update(PrivateCopy(h, n), o, n, p)
    PROVE  hash' \in TableType /\ Only(o, n, p)
<1> DEFINE t == PrivateCopy(h, n)
<1>1. /\ t \in TableType
      /\ \A x \in Objects, m \in Names :
            (IF t[x][m] # None THEN t[x][m] ELSE Shared[x][m]) = Entry(x, m)
  BY Copied
<1>2. hash' = Update(t, o, n, p)
  OBVIOUS
<1> HIDE DEF t
<1>3. /\ hash' \in TableType /\ hash'[o][n] = p
      /\ \A x \in Objects, m \in Names : x # o \/ m # n => hash'[x][m] = t[x][m]
  BY <1>1, <1>2, Put
<1>4. Entry(o, n)' = p
  BY <1>3, ObjectsAssumption DEF Entry
<1>5. ASSUME NEW x \in Objects, NEW m \in Names, x # o \/ m # n
      PROVE  Entry(x, m)' = Entry(x, m)
  BY <1>1, <1>3, <1>5 DEF Entry
<1> QED BY <1>3, <1>4, <1>5 DEF Only

-----------------------------------------------------------------------------
(* What the operations do, in terms of what queries find.  *)

LEMMA GetDoes ==
    ASSUME IInv, NEW o \in Objects, NEW n \in Names, Get(o, n)
    PROVE  /\ hash' \in TableType /\ SameFound /\ UNCHANGED <<extensible, proto>>
           /\ result' = LET h == Holder(o, n) IN
                        IF h = Null THEN Undefined
                        ELSE IF IsData(Entry(h, n)) THEN Entry(h, n).value
                        ELSE Entry(h, n).getter
<1>1. hash \in TableType /\ proto \in [Objects -> Objects \cup {Null}]
  BY DEF IInv, TypeOK, TableType
<1>2. Holder(o, n) \in Objects \cup {Null}
      /\ (Holder(o, n) # Null => Visible(Holder(o, n), n))
  BY <1>1, HolderFacts
<1>3. hash' = PrivateCopy(Holder(o, n), n)
  BY DEF Get, Query
<1>4. hash' \in TableType /\ SameFound
  BY <1>1, <1>2, <1>3, CopyIs
<1> QED BY <1>4 DEF Get, Returns

(* The five ways through njs_value_property_set().                         *)
ReadOnly(o, n) ==
    LET h == Holder(o, n)
    IN  h # Null /\ IsData(Entry(h, n)) /\ ~Entry(h, n).writable

HasSetter(o, n) ==
    LET h == Holder(o, n)
    IN  h # Null /\ ~IsData(Entry(h, n))

LEMMA SetDoes ==
    ASSUME IInv, NEW o \in Objects, NEW n \in Names, NEW v \in Data, Set(o, n, v)
    PROVE  /\ hash' \in TableType /\ UNCHANGED <<extensible, proto>>
           /\ \/ ReadOnly(o, n) /\ SameFound /\ result' = "TypeError"
              \/ /\ HasSetter(o, n) /\ SameFound
                 /\ result' = LET s == Entry(Holder(o, n), n).setter
                              IN  IF s \in Functions THEN s ELSE "TypeError"
              \/ /\ ~ReadOnly(o, n) /\ ~HasSetter(o, n) /\ result' = "ok"
                 /\ Holder(o, n) = o
                 /\ Only(o, n, [Entry(o, n) EXCEPT !.value = v])
              \/ /\ ~ReadOnly(o, n) /\ ~HasSetter(o, n) /\ result' = "ok"
                 /\ Holder(o, n) # o /\ MayAdd(o, n)
                 /\ Only(o, n, Added(o, n, v))
              \/ /\ ~ReadOnly(o, n) /\ ~HasSetter(o, n) /\ result' = "TypeError"
                 /\ Holder(o, n) # o /\ ~MayAdd(o, n) /\ SameFound
<1> DEFINE h == Holder(o, n)
           p == Entry(h, n)
           copied == PrivateCopy(h, n)
<1>1. hash \in TableType /\ proto \in [Objects -> Objects \cup {Null}]
  BY DEF IInv, TypeOK, TableType
<1>2. h \in Objects \cup {Null} /\ (h # Null => Visible(h, n))
  BY <1>1, HolderFacts
<1>3. /\ IF h # Null /\ IsData(p) /\ ~p.writable
         THEN hash' = copied /\ Returns("TypeError")
         ELSE IF h # Null /\ ~IsData(p)
         THEN /\ hash' = copied
              /\ Returns(IF p.setter \in Functions THEN p.setter ELSE "TypeError")
         ELSE IF h = o
         THEN hash' = [copied EXCEPT ![o][n].value = v] /\ Returns("ok")
         ELSE IF MayAdd(o, n)
         THEN hash' = [copied EXCEPT ![o][n] = Added(o, n, v)] /\ Returns("ok")
         ELSE hash' = copied /\ Returns("TypeError")
  BY DEF Set
<1>4. hash' = copied => hash' \in TableType /\ SameFound
  BY <1>1, <1>2, CopyIs
<1>5. ASSUME h = o, hash' = [copied EXCEPT ![o][n].value = v]
      PROVE  hash' \in TableType /\ Only(o, n, [Entry(o, n) EXCEPT !.value = v])
  <2>1. Entry(o, n) \in PropertyType /\ h # Null
    BY <1>1, <1>2, <1>5, EntryType, ObjectsAssumption
  <2>2. [Entry(o, n) EXCEPT !.value = v] \in PropertyType
    BY <2>1 DEF PropertyType, Value
  <2>3. copied \in TableType /\ copied[o][n] = Entry(o, n)
    BY <1>1, <1>2, <1>5, <2>1, Copied
  <2>4. hash' = Update(copied, o, n, [Entry(o, n) EXCEPT !.value = v])
    <3> HIDE DEF copied, h
    <3> QED BY <1>5, <2>3 DEF TableType, Update
  <2> QED BY <1>1, <1>2, <2>2, <2>4, CopyStoreIs
<1>6. ASSUME hash' = [copied EXCEPT ![o][n] = Added(o, n, v)]
      PROVE  hash' \in TableType /\ Only(o, n, Added(o, n, v))
  <2>1. Added(o, n, v) \in PropertyType
    <3>1. CASE OwnWhiteout(o, n)
      <4>1. hash[o][n] \in PropertyType
        BY <1>1, <3>1, EntryType
      <4> QED BY <3>1, <4>1 DEF Added, PropertyType, Value, Flag
    <3>2. CASE ~OwnWhiteout(o, n)
      BY <3>2 DEF Added, DataProperty, Property, PropertyType, Value, Flag, Accessor
    <3> QED BY <3>1, <3>2
  <2>2. hash' = Update(copied, o, n, Added(o, n, v))
    BY <1>6 DEF Update
  <2> QED BY <1>1, <1>2, <2>1, <2>2, CopyStoreIs
<1> HIDE DEF p, copied
<1>7. p = Entry(Holder(o, n), n)
  BY DEF p
<1> QED BY <1>3, <1>4, <1>5, <1>6, <1>7 DEF Returns, ReadOnly, HasSetter

LEMMA DeleteDoes ==
    ASSUME IInv, NEW o \in Objects, NEW n \in Names, Delete(o, n)
    PROVE  /\ hash' \in TableType /\ UNCHANGED <<extensible, proto>>
           /\ \/ ~Visible(o, n) /\ SameFound /\ result' = "ok"
              \/ /\ Visible(o, n) /\ Entry(o, n).configurable /\ result' = "ok"
                 /\ Only(o, n, [Entry(o, n) EXCEPT !.type = "whiteout", !.value = Absent])
              \/ /\ Visible(o, n) /\ ~Entry(o, n).configurable /\ result' = "TypeError"
                 /\ SameFound
<1> DEFINE p == Entry(o, n)
           w == [p EXCEPT !.type = "whiteout", !.value = Absent]
<1>1. hash \in TableType
  BY DEF IInv, TypeOK, TableType
<1>2. IF ~Visible(o, n) THEN UNCHANGED hash /\ Returns("ok")
      ELSE IF p.configurable
      THEN hash' = Update(hash, o, n, w) /\ Returns("ok")
      ELSE hash' = PrivateCopy(o, n) /\ Returns("TypeError")
  BY DEF Delete, Store, Query, Update
<1>3. CASE ~Visible(o, n)
  BY <1>1, <1>2, <1>3 DEF Returns, SameFound, Entry
<1>4. CASE Visible(o, n) /\ p.configurable
  <2>1. w \in PropertyType
    <3>1. p \in PropertyType
      BY <1>1, <1>4, EntryType
    <3> QED BY <3>1 DEF PropertyType, Value
  <2>2. hash' = Update(hash, o, n, w)
    BY <1>2, <1>4
  <2> HIDE DEF w
  <2>3. hash' \in TableType /\ Only(o, n, w)
    BY <1>1, <2>1, <2>2, StoreIs
  <2> QED BY <1>2, <1>4, <2>3 DEF Returns, w
<1>5. CASE Visible(o, n) /\ ~p.configurable
  <2>1. hash' \in TableType /\ SameFound
    BY <1>1, <1>2, <1>5, CopyIs
  <2> QED BY <1>2, <1>5, <2>1 DEF Returns
<1> QED BY <1>3, <1>4, <1>5

(* The fields of what Object.defineProperty() stores.                      *)
LEMMA Fields ==
    ASSUME NEW p \in PropertyType, NEW e,
           e = [f \in DOMAIN p |-> e[f]],
           e.type \in {"property", "whiteout"}, e.value \in Value, e.writable \in Flag,
           e.getter \in Accessor, e.setter \in Accessor,
           e.enumerable \in BOOLEAN, e.configurable \in BOOLEAN
    PROVE  e \in PropertyType
<1>1. DOMAIN p = {"type", "value", "writable", "getter", "setter", "enumerable", "configurable"}
  BY DEF PropertyType
<1>2. e = [type |-> e.type, value |-> e.value, writable |-> e.writable,
           getter |-> e.getter, setter |-> e.setter,
           enumerable |-> e.enumerable, configurable |-> e.configurable]
  BY <1>1
<1> QED BY <1>2 DEF PropertyType

(* What njs_object_prop_define() is called with.                           *)
NewType ==
    [type : {"property"}, value : Value, writable : Flag,
     getter : Accessor, setter : Accessor, enumerable : Flag, configurable : Flag]

LEMMA DescriptorIs ==
    ASSUME NEW d \in Descriptors
    PROVE  Descriptor(d) \in NewType
<1>1. d \in [value : Value, writable : Flag, get : Accessor, set : Accessor,
             enumerable : Flag, configurable : Flag]
  BY ObjectsAssumption DEF PropertyDescriptor
<1> QED BY <1>1 DEF Descriptor, Property, NewType

LEMMA CompleteIs ==
    ASSUME NEW d \in NewType, ~(IsData(d) /\ IsAccessor(d)),
           NEW e, e = Complete(d)
    PROVE  /\ e \in PropertyType /\ e.type = "property" /\ IsComplete(e)
           /\ e.value = IF IsAccessor(d) THEN Absent ELSE Default(d.value, Undefined)
           /\ e.writable = IF IsAccessor(d) THEN Absent ELSE Default(d.writable, FALSE)
           /\ e.getter = IF IsAccessor(d) THEN Default(d.getter, Undefined) ELSE Absent
           /\ e.setter = IF IsAccessor(d) THEN Default(d.setter, Undefined) ELSE Absent
           /\ e.enumerable = Default(d.enumerable, FALSE)
           /\ e.configurable = Default(d.configurable, FALSE)
<1> DEFINE b == IF IsAccessor(d)
                THEN Property(Absent, Absent, Undefined, Undefined, FALSE, FALSE)
                ELSE Property(Undefined, FALSE, Absent, Absent, FALSE, FALSE)
<1>1. /\ d.type = "property" /\ d.value \in Value /\ d.writable \in Flag
      /\ d.getter \in Accessor /\ d.setter \in Accessor
      /\ d.enumerable \in Flag /\ d.configurable \in Flag
      /\ DOMAIN d = {"type", "value", "writable", "getter", "setter",
                     "enumerable", "configurable"}
  BY DEF NewType
<1>2. e = [f \in DOMAIN d |-> Default(d[f], b[f])]
  BY DEF Complete
<1>3. /\ b \in PropertyType /\ b.type = "property"
      /\ b.value = (IF IsAccessor(d) THEN Absent ELSE Undefined)
      /\ b.writable = (IF IsAccessor(d) THEN Absent ELSE FALSE)
      /\ b.getter = (IF IsAccessor(d) THEN Undefined ELSE Absent)
      /\ b.setter = (IF IsAccessor(d) THEN Undefined ELSE Absent)
      /\ b.enumerable = FALSE /\ b.configurable = FALSE
      /\ DOMAIN b = DOMAIN d
  BY <1>1 DEF Property, PropertyType, Value, Flag, Accessor
<1> HIDE DEF b
<1>4. /\ e.type = "property"
      /\ e.value = Default(d.value, b.value)
      /\ e.writable = Default(d.writable, b.writable)
      /\ e.getter = Default(d.getter, b.getter)
      /\ e.setter = Default(d.setter, b.setter)
      /\ e.enumerable = Default(d.enumerable, FALSE)
      /\ e.configurable = Default(d.configurable, FALSE)
  BY <1>1, <1>2, <1>3 DEF Default
<1>5. /\ e.value = IF IsAccessor(d) THEN Absent ELSE Default(d.value, Undefined)
      /\ e.writable = IF IsAccessor(d) THEN Absent ELSE Default(d.writable, FALSE)
      /\ e.getter = IF IsAccessor(d) THEN Default(d.getter, Undefined) ELSE Absent
      /\ e.setter = IF IsAccessor(d) THEN Default(d.setter, Undefined) ELSE Absent
  BY <1>1, <1>3, <1>4 DEF Default, IsData, IsAccessor
<1>6. e \in PropertyType
  <2>1. e.enumerable \in BOOLEAN /\ e.configurable \in BOOLEAN
    BY <1>1, <1>4 DEF Default, Flag
  <2>2. /\ e.value \in Value /\ e.writable \in Flag
        /\ e.getter \in Accessor /\ e.setter \in Accessor
    BY <1>1, <1>5 DEF Default, Value, Flag, Accessor
  <2>3. e = [f \in DOMAIN b |-> e[f]]
    BY <1>2, <1>3
  <2> QED BY <1>3, <1>4, <2>1, <2>2, <2>3, Fields
<1>7. IsComplete(e)
  BY <1>5, ObjectsAssumption DEF IsComplete, IsData, IsAccessor, Default
<1> QED BY <1>4, <1>5, <1>6, <1>7

SameKind(p, d) == Generic(d) \/ IsData(p) = IsData(d)

LEMMA ConvertedIs ==
    ASSUME NEW p \in PropertyType, NEW d, NEW c, c = Converted(p, d)
    PROVE  /\ c \in PropertyType /\ c.type = p.type
           /\ c.enumerable = p.enumerable /\ c.configurable = p.configurable
           /\ SameKind(p, d) => c = p
           /\ ~SameKind(p, d) /\ IsData(p) =>
                /\ c.value = Absent /\ c.writable = Absent
                /\ c.getter = Undefined /\ c.setter = Undefined
           /\ ~SameKind(p, d) /\ ~IsData(p) =>
                /\ c.value = Undefined /\ c.writable = FALSE
                /\ c.getter = Absent /\ c.setter = Absent
BY DEF Converted, SameKind, PropertyType, Value, Flag, Accessor

LEMMA RedefinedIs ==
    ASSUME NEW p \in PropertyType, p.type = "property", IsComplete(p),
           NEW d \in NewType, ~(IsData(d) /\ IsAccessor(d)),
           NEW c, c = Converted(p, d), NEW e, e = Redefined(p, d)
    PROVE  /\ e \in PropertyType /\ e.type = "property" /\ IsComplete(e)
           /\ e.value = Default(d.value, c.value)
           /\ e.writable = Default(d.writable, c.writable)
           /\ e.getter = Default(d.getter, c.getter)
           /\ e.setter = Default(d.setter, c.setter)
           /\ e.enumerable = Default(d.enumerable, p.enumerable)
           /\ e.configurable = Default(d.configurable, p.configurable)
<1>1. /\ d.type = "property" /\ d.value \in Value /\ d.writable \in Flag
      /\ d.getter \in Accessor /\ d.setter \in Accessor
      /\ d.enumerable \in Flag /\ d.configurable \in Flag
  BY DEF NewType
<1>2. e = [f \in DOMAIN p |-> Default(d[f], c[f])]
  BY DEF Redefined
<1>3. /\ c \in PropertyType /\ c.type = "property"
      /\ c.enumerable = p.enumerable /\ c.configurable = p.configurable
  BY ConvertedIs
<1>4. DOMAIN p = {"type", "value", "writable", "getter", "setter",
                  "enumerable", "configurable"}
  BY DEF PropertyType
<1>5. /\ e.type = "property"
      /\ e.value = Default(d.value, c.value)
      /\ e.writable = Default(d.writable, c.writable)
      /\ e.getter = Default(d.getter, c.getter)
      /\ e.setter = Default(d.setter, c.setter)
      /\ e.enumerable = Default(d.enumerable, p.enumerable)
      /\ e.configurable = Default(d.configurable, p.configurable)
  BY <1>1, <1>2, <1>3, <1>4 DEF Default
<1>6. e \in PropertyType
  <2>1. /\ c.value \in Value /\ c.writable \in Flag
        /\ c.getter \in Accessor /\ c.setter \in Accessor
        /\ p.enumerable \in BOOLEAN /\ p.configurable \in BOOLEAN
    BY <1>3 DEF PropertyType
  <2>2. /\ e.value \in Value /\ e.writable \in Flag
        /\ e.getter \in Accessor /\ e.setter \in Accessor
        /\ e.enumerable \in BOOLEAN /\ e.configurable \in BOOLEAN
    BY <1>1, <1>5, <2>1 DEF Default, Flag
  <2>3. e = [f \in DOMAIN p |-> e[f]]
    BY <1>2
  <2> QED BY <1>5, <2>2, <2>3, Fields
<1>7. IsComplete(e)
  <2>1. CASE SameKind(p, d)
    <3>1. c = p
      BY <2>1, ConvertedIs
    <3> QED BY <1>5, <2>1, <3>1 DEF IsComplete, IsData, IsAccessor, Default, Generic, SameKind
  <2>2. CASE ~SameKind(p, d)
    <3>1. CASE IsData(p)
      <4>1. /\ c.value = Absent /\ c.writable = Absent
            /\ c.getter = Undefined /\ c.setter = Undefined
        BY <2>2, <3>1, ConvertedIs
      <4>2. d.value = Absent /\ d.writable = Absent
        BY <2>2, <3>1 DEF Generic, IsData, SameKind
      <4> QED BY <1>5, <4>1, <4>2, ObjectsAssumption DEF IsComplete, IsData, Default
    <3>2. CASE ~IsData(p)
      <4>1. c.value = Undefined /\ c.writable = FALSE
        BY <2>2, <3>2, ConvertedIs
      <4> QED BY <1>5, <4>1, ObjectsAssumption DEF IsComplete, IsData, Default
    <3> QED BY <3>1, <3>2
  <2> QED BY <2>1, <2>2
<1> QED BY <1>5, <1>6, <1>7

LEMMA DefineDoes ==
    ASSUME IInv, NEW o \in Objects, NEW n \in Names, NEW a \in Descriptors,
           DefineProperty(o, n, a), NEW d, d = Descriptor(a)
    PROVE  /\ hash' \in TableType /\ UNCHANGED <<extensible, proto>>
           /\ \/ /\ o \notin extensible \/ (IsData(d) /\ IsAccessor(d))
                    \/ (Visible(o, n) /\ Rejects(Entry(o, n), d))
                 /\ SameFound /\ result' = "TypeError"
              \/ /\ o \in extensible /\ ~(IsData(d) /\ IsAccessor(d)) /\ result' = "ok"
                 /\ Visible(o, n) /\ ~Rejects(Entry(o, n), d)
                 /\ Only(o, n, Redefined(Entry(o, n), d))
              \/ /\ o \in extensible /\ ~(IsData(d) /\ IsAccessor(d)) /\ result' = "ok"
                 /\ ~Visible(o, n) /\ Only(o, n, Complete(d))
<1> DEFINE p == Entry(o, n)
           both == IsData(d) /\ IsAccessor(d)
<1>1. hash \in TableType
  BY DEF IInv, TypeOK, TableType
<1>2. IF o \notin extensible THEN UNCHANGED hash /\ Returns("TypeError")
      ELSE IF Visible(o, n) /\ (both \/ Rejects(p, d))
      THEN hash' = PrivateCopy(o, n) /\ Returns("TypeError")
      ELSE IF both THEN UNCHANGED hash /\ Returns("TypeError")
      ELSE /\ hash' = Update(hash, o, n, IF Visible(o, n) THEN Redefined(p, d) ELSE Complete(d))
           /\ Returns("ok")
  BY DEF DefineProperty, Store, Query, Update
<1>3. hash' = hash => hash' \in TableType /\ SameFound
  BY <1>1 DEF SameFound, Entry
<1>4. hash' = PrivateCopy(o, n) /\ Visible(o, n) => hash' \in TableType /\ SameFound
  BY <1>1, CopyIs
<1>5. d \in NewType
  BY DescriptorIs
<1>6. ASSUME ~both, Visible(o, n), hash' = Update(hash, o, n, Redefined(p, d))
      PROVE  hash' \in TableType /\ Only(o, n, Redefined(p, d))
  <2>1. p \in PropertyType /\ p.type = "property" /\ IsComplete(p)
    <3>1. p \in PropertyType
      BY <1>1, <1>6, EntryType
    <3>2. p.type # "whiteout" /\ IsComplete(p)
      BY <1>6 DEF Visible, IInv, TypeOK
    <3> QED BY <3>1, <3>2 DEF PropertyType
  <2> HIDE DEF p
  <2>2. Redefined(p, d) \in PropertyType
    BY <1>5, <1>6, <2>1, RedefinedIs
  <2> QED BY <1>1, <1>6, <2>2, StoreIs
<1>7. ASSUME ~both, hash' = Update(hash, o, n, Complete(d))
      PROVE  hash' \in TableType /\ Only(o, n, Complete(d))
  <2>1. Complete(d) \in PropertyType
    BY <1>5, <1>7, CompleteIs
  <2> QED BY <1>1, <1>7, <2>1, StoreIs
<1> QED BY <1>2, <1>3, <1>4, <1>6, <1>7 DEF Returns

(* Object.freeze(), Object.seal() and Object.preventExtensions().          *)
Tightened(p, q) ==
    /\ q \in PropertyType /\ q.type = p.type /\ q.value = p.value
    /\ q.getter = p.getter /\ q.setter = p.setter /\ q.enumerable = p.enumerable
    /\ q.configurable = p.configurable \/ q.configurable = FALSE
    /\ q.writable = p.writable \/ (q.writable = FALSE /\ ~IsAccessor(p))

LEMMA RestrictDoes ==
    ASSUME IInv, NEW o \in Objects, Freeze(o) \/ Seal(o) \/ PreventExtensions(o)
    PROVE  /\ hash' \in TableType /\ extensible' = extensible \ {o}
           /\ UNCHANGED proto /\ result' = "ok"
           /\ \A x \in Objects, m \in Names :
                 \/ Entry(x, m)' = Entry(x, m)
                 \/ Entry(x, m) # None /\ Tightened(Entry(x, m), Entry(x, m)')
<1>1. hash \in TableType
  BY DEF IInv, TypeOK, TableType
<1>2. /\ extensible' = extensible \ {o} /\ UNCHANGED proto /\ result' = "ok"
  BY DEF Freeze, Seal, PreventExtensions, RestrictObject
<1>3. PICK row : /\ row = [m \in Names |-> row[m]]
                 /\ hash' = [hash EXCEPT ![o] = row]
                 /\ \A m \in Names : IF hash[o][m] = None THEN row[m] = None
                                     ELSE Tightened(hash[o][m], row[m])
  <2>0. \A m \in Names : hash[o][m] # None => hash[o][m] \in PropertyType
    BY <1>1 DEF TableType
  <2>1. CASE Freeze(o)
    <3> DEFINE row == [m \in Names |-> IF hash[o][m] = None THEN None ELSE Frozen(hash[o][m])]
    <3>1. hash' = [hash EXCEPT ![o] = row]
      BY <1>1, <2>1 DEF Freeze, RestrictObject, TableType
    <3>2. ASSUME NEW p \in PropertyType PROVE Tightened(p, Frozen(p))
      BY DEF Tightened, Frozen, PropertyType, Flag
    <3>3. \A m \in Names : IF hash[o][m] = None THEN row[m] = None
                           ELSE Tightened(hash[o][m], row[m])
      BY <2>0, <3>2
    <3> QED BY <3>1, <3>3
  <2>2. CASE Seal(o)
    <3> DEFINE row == [m \in Names |-> IF hash[o][m] = None THEN None ELSE Sealed(hash[o][m])]
    <3>1. hash' = [hash EXCEPT ![o] = row]
      BY <1>1, <2>2 DEF Seal, RestrictObject, TableType
    <3>2. ASSUME NEW p \in PropertyType PROVE Tightened(p, Sealed(p))
      BY DEF Tightened, Sealed, PropertyType
    <3>3. \A m \in Names : IF hash[o][m] = None THEN row[m] = None
                           ELSE Tightened(hash[o][m], row[m])
      BY <2>0, <3>2
    <3> QED BY <3>1, <3>3
  <2>3. CASE PreventExtensions(o)
    <3> DEFINE row == [m \in Names |-> IF hash[o][m] = None THEN None ELSE hash[o][m]]
    <3>1. hash' = [hash EXCEPT ![o] = row]
      BY <1>1, <2>3 DEF PreventExtensions, RestrictObject, TableType, Same
    <3>2. ASSUME NEW p \in PropertyType PROVE Tightened(p, p)
      BY DEF Tightened, PropertyType
    <3>3. \A m \in Names : IF hash[o][m] = None THEN row[m] = None
                           ELSE Tightened(hash[o][m], row[m])
      BY <2>0, <3>2
    <3> QED BY <3>1, <3>3
  <2> QED BY <2>1, <2>2, <2>3
<1>4. row \in [Names -> PropertyType \cup {None}]
  <2>1. \A m \in Names : row[m] \in PropertyType \cup {None}
    BY <1>3 DEF Tightened
  <2> QED BY <1>3, <2>1
<1>5. /\ hash' \in TableType /\ hash'[o] = row
      /\ \A x \in Objects : x # o => hash'[x] = hash[x]
  BY <1>1, <1>3, <1>4 DEF TableType
<1>6. ASSUME NEW x \in Objects, NEW m \in Names
      PROVE  \/ Entry(x, m)' = Entry(x, m)
             \/ Entry(x, m) # None /\ Tightened(Entry(x, m), Entry(x, m)')
  <2>1. CASE x # o \/ hash[o][m] = None
    BY <1>3, <1>5, <2>1 DEF Entry
  <2>2. CASE x = o /\ hash[o][m] # None
    <3>1. Tightened(hash[o][m], row[m]) /\ row[m] # None
      BY <1>3, <2>2, ObjectsAssumption DEF Tightened
    <3> QED BY <1>5, <2>2, <3>1 DEF Entry
  <2> QED BY <2>1, <2>2
<1> QED BY <1>2, <1>5, <1>6

-----------------------------------------------------------------------------
(* What every operation preserves.  *)

CompleteFound == \A x \in Objects, m \in Names : Visible(x, m) => IsComplete(Entry(x, m))

(* The actions of NonConfigurableStays and NeverGainsNewNames.             *)
Keeps ==
    \A x \in Objects, m \in Names :
        Visible(x, m) /\ ~Entry(x, m).configurable
            => Visible(x, m)' /\ Kept(Entry(x, m), Entry(x, m)')

GainsNothing ==
    \A x \in Objects \ extensible, m \in Names : Entry(x, m) = None => Entry(x, m)' = None

Preserved == CompleteFound' /\ Keeps /\ GainsNothing

LEMMA SamePreserves ==
    ASSUME IInv, SameFound
    PROVE  Preserved
<1>1. \A x \in Objects, m \in Names :
         /\ Entry(x, m)' = Entry(x, m) /\ (Visible(x, m)' <=> Visible(x, m))
         /\ Visible(x, m) => IsComplete(Entry(x, m))
  BY DEF SameFound, Visible, IInv, TypeOK
<1>2. CompleteFound'
  BY <1>1 DEF CompleteFound, IsComplete, IsData
<1>3. Keeps
  BY <1>1 DEF Keeps, Kept
<1> QED BY <1>1, <1>2, <1>3 DEF Preserved, GainsNothing

LEMMA OnlyPreserves ==
    ASSUME IInv, NEW o \in Objects, NEW n \in Names, NEW p \in PropertyType, Only(o, n, p),
           p.type # "whiteout" => IsComplete(p),
           Visible(o, n) /\ ~Entry(o, n).configurable =>
               p.type # "whiteout" /\ Kept(Entry(o, n), p),
           o \notin extensible => Entry(o, n) # None
    PROVE  Preserved
<1>1. p # None
  BY ObjectsAssumption
<1>2. /\ Entry(o, n)' = p /\ (Visible(o, n)' <=> p.type # "whiteout")
      /\ \A x \in Objects, m \in Names : x # o \/ m # n =>
            /\ Entry(x, m)' = Entry(x, m) /\ (Visible(x, m)' <=> Visible(x, m))
            /\ Visible(x, m) => IsComplete(Entry(x, m))
  BY <1>1 DEF Only, Visible, IInv, TypeOK
<1>3. CompleteFound'
  BY <1>2 DEF CompleteFound, IsComplete, IsData
<1>4. Keeps
  <2> SUFFICES ASSUME NEW x \in Objects, NEW m \in Names,
                      Visible(x, m), ~Entry(x, m).configurable
               PROVE  Visible(x, m)' /\ Kept(Entry(x, m), Entry(x, m)')
    BY DEF Keeps
  <2>1. CASE x = o /\ m = n
    BY <1>2, <2>1
  <2>2. CASE x # o \/ m # n
    BY <1>2, <2>2 DEF Kept
  <2> QED BY <2>1, <2>2
<1> QED BY <1>1, <1>2, <1>3, <1>4 DEF Preserved, GainsNothing

LEMMA TightenedPreserves ==
    ASSUME IInv, \A x \in Objects, m \in Names :
                    \/ Entry(x, m)' = Entry(x, m)
                    \/ Entry(x, m) # None /\ Tightened(Entry(x, m), Entry(x, m)')
    PROVE  Preserved
<1> SUFFICES ASSUME NEW x \in Objects, NEW m \in Names
             PROVE  /\ Visible(x, m)' => IsComplete(Entry(x, m)')
                    /\ Visible(x, m) /\ ~Entry(x, m).configurable
                          => Visible(x, m)' /\ Kept(Entry(x, m), Entry(x, m)')
                    /\ Entry(x, m) = None => Entry(x, m)' = None
  BY DEF Preserved, CompleteFound, Keeps, GainsNothing, IsComplete, IsData
<1> DEFINE p == Entry(x, m)
           q == Entry(x, m)'
<1>1. CASE q = p
  BY <1>1 DEF Visible, IInv, TypeOK, Kept
<1>2. CASE p # None /\ Tightened(p, q)
  <2>1. /\ q # None /\ (Visible(x, m)' <=> Visible(x, m))
        /\ Visible(x, m) => IsComplete(p)
    BY <1>2, ObjectsAssumption DEF Tightened, Visible, IInv, TypeOK
  <2>2. p \in PropertyType
    BY <1>2, EntryType DEF IInv, TypeOK, TableType
  <2> HIDE DEF p, q
  <2>3. IsComplete(p) => IsComplete(q) /\ IsData(q) = IsData(p)
    BY <1>2, <2>2, ObjectsAssumption DEF Tightened, IsComplete, IsData, IsAccessor
  <2>4. IsComplete(p) /\ ~p.configurable => Kept(p, q)
    <3> SUFFICES ASSUME IsComplete(p), ~p.configurable PROVE Kept(p, q)
      OBVIOUS
    <3>1. ~q.configurable /\ q.enumerable = p.enumerable
      BY <1>2 DEF Tightened
    <3>2. /\ IsData(p) /\ ~p.writable => ~q.writable /\ q.value = p.value
          /\ ~IsData(p) => q.getter = p.getter /\ q.setter = p.setter
      BY <1>2 DEF Tightened
    <3> QED BY <2>3, <3>1, <3>2 DEF Kept
  <2> QED BY <1>2, <2>1, <2>3, <2>4 DEF p, q
<1> QED BY <1>1, <1>2

Results == Data \cup Functions \cup {"ok", "TypeError", Undefined}

LEMMA GetPreserves ==
    ASSUME IInv, NEW o \in Objects, NEW n \in Names, Get(o, n)
    PROVE  Preserved /\ result' \in Results
<1> DEFINE h == Holder(o, n)
           p == Entry(h, n)
<1>1. /\ SameFound
      /\ result' = IF h = Null THEN Undefined
                   ELSE IF IsData(p) THEN p.value ELSE p.getter
  BY GetDoes
<1>2. hash \in TableType /\ proto \in [Objects -> Objects \cup {Null}]
  BY DEF IInv, TypeOK, TableType
<1>3. h # Null => p \in PropertyType /\ IsComplete(p)
  BY <1>2, HolderFacts, EntryType DEF IInv, TypeOK
<1> HIDE DEF h, p
<1>4. result' \in Results
  BY <1>1, <1>3 DEF PropertyType, IsComplete, Value, Accessor, Results
<1> QED BY <1>1, <1>4, SamePreserves

LEMMA SetPreserves ==
    ASSUME IInv, NEW o \in Objects, NEW n \in Names, NEW v \in Data, Set(o, n, v)
    PROVE  Preserved /\ result' \in Results
<1>1. hash \in TableType /\ proto \in [Objects -> Objects \cup {Null}]
  BY DEF IInv, TypeOK, TableType
<1>2. v # Absent /\ v \in Value
  BY ObjectsAssumption DEF Value
<1>3. CASE /\ SameFound
           /\ \/ result' = "TypeError"
              \/ result' = LET s == Entry(Holder(o, n), n).setter
                           IN  IF s \in Functions THEN s ELSE "TypeError"
  BY <1>3, SamePreserves DEF Results
<1>4. CASE /\ ~ReadOnly(o, n) /\ ~HasSetter(o, n) /\ result' = "ok"
           /\ Holder(o, n) = o
           /\ Only(o, n, [Entry(o, n) EXCEPT !.value = v])
  <2> DEFINE p == Entry(o, n)
             q == [p EXCEPT !.value = v]
  <2>1. /\ Visible(o, n) /\ p \in PropertyType /\ IsComplete(p)
        /\ IsData(p) /\ ~(~p.writable) /\ p # None
    BY <1>1, <1>4, HolderFacts, EntryType, ObjectsAssumption
       DEF ReadOnly, HasSetter, IInv, TypeOK
  <2> HIDE DEF p
  <2>2. q \in PropertyType /\ IsComplete(q) /\ q.type = p.type
    BY <1>2, <2>1 DEF PropertyType, IsComplete, IsData
  <2>3. ~p.configurable => Kept(p, q)
    BY <1>2, <2>1 DEF PropertyType, IsComplete, IsData, Kept
  <2>4. p.type # "whiteout" /\ Only(o, n, q)
    BY <1>4, <2>1 DEF p, Visible
  <2> HIDE DEF q
  <2>5. Preserved
    BY <2>1, <2>2, <2>3, <2>4, OnlyPreserves DEF p
  <2> QED BY <1>4, <2>5 DEF Results
<1>5. CASE /\ result' = "ok" /\ Holder(o, n) # o /\ MayAdd(o, n)
           /\ Only(o, n, Added(o, n, v))
  <2>1. /\ Added(o, n, v) \in PropertyType /\ IsComplete(Added(o, n, v))
        /\ Added(o, n, v).type = "property"
    <3>1. CASE OwnWhiteout(o, n)
      <4>1. hash[o][n] \in PropertyType
        BY <1>1, <3>1, EntryType
      <4> QED BY <1>2, <3>1, <4>1, ObjectsAssumption
              DEF Added, PropertyType, Flag, IsComplete, IsData
    <3>2. CASE ~OwnWhiteout(o, n)
      BY <1>2, <3>2, ObjectsAssumption
         DEF Added, DataProperty, Property, PropertyType, Flag, Accessor, IsComplete, IsData
    <3> QED BY <3>1, <3>2
  <2>2. ~Visible(o, n)
    BY <1>1, <1>5, HolderFacts
  <2>3. o \notin extensible => Entry(o, n) # None
    BY <1>5 DEF MayAdd, OwnWhiteout, Entry
  <2>4. Preserved
    BY <1>5, <2>1, <2>2, <2>3, OnlyPreserves
  <2> QED BY <1>5, <2>4 DEF Results
<1> QED BY <1>3, <1>4, <1>5, SetDoes

LEMMA DeletePreserves ==
    ASSUME IInv, NEW o \in Objects, NEW n \in Names, Delete(o, n)
    PROVE  Preserved /\ result' \in Results
<1> DEFINE p == Entry(o, n)
           w == [p EXCEPT !.type = "whiteout", !.value = Absent]
<1>1. CASE SameFound /\ result' \in {"ok", "TypeError"}
  BY <1>1, SamePreserves DEF Results
<1>2. CASE Visible(o, n) /\ p.configurable /\ result' = "ok" /\ Only(o, n, w)
  <2>1. p \in PropertyType /\ p # None
    BY <1>2, EntryType, ObjectsAssumption DEF IInv, TypeOK, TableType
  <2> HIDE DEF p
  <2>2. w \in PropertyType /\ w.type = "whiteout"
    BY <2>1 DEF PropertyType, Value
  <2> HIDE DEF w
  <2>3. Preserved
    BY <1>2, <2>1, <2>2, OnlyPreserves DEF p
  <2> QED BY <1>2, <2>3 DEF Results
<1> QED BY <1>1, <1>2, DeleteDoes

(* What "Cannot redefine property" lets through keeps what is not          *)
(* configurable.                                                           *)
LEMMA RedefinedKept ==
    ASSUME NEW p \in PropertyType, p.type = "property", IsComplete(p), ~p.configurable,
           NEW d \in NewType, ~(IsData(d) /\ IsAccessor(d)), ~Rejects(p, d),
           NEW e, e = Redefined(p, d)
    PROVE  Kept(p, e)
<1> DEFINE c == Converted(p, d)
<1>1. SameKind(p, d)
  BY DEF Rejects, SameKind
<1>2. c = p
  BY <1>1, ConvertedIs
<1> HIDE DEF c
<1>3. /\ IsComplete(e)
      /\ e.value = Default(d.value, p.value) /\ e.writable = Default(d.writable, p.writable)
      /\ e.getter = Default(d.getter, p.getter) /\ e.setter = Default(d.setter, p.setter)
      /\ e.enumerable = Default(d.enumerable, p.enumerable)
      /\ e.configurable = Default(d.configurable, p.configurable)
  BY <1>2, RedefinedIs DEF c
<1>4. d.configurable \in Flag /\ d.writable \in Flag /\ p.writable \in Flag
      /\ p.configurable \in BOOLEAN
  BY DEF NewType, PropertyType
<1>5. ~e.configurable /\ e.enumerable = p.enumerable
  BY <1>3, <1>4 DEF Default, Rejects, Flag
<1>6. IsData(e) = IsData(p)
  BY <1>1, <1>3 DEF SameKind, Generic, IsData, IsAccessor, Default, IsComplete
<1>7. IsData(p) /\ ~p.writable => ~e.writable /\ e.value = p.value
  <2> SUFFICES ASSUME IsData(p), ~p.writable PROVE ~e.writable /\ e.value = p.value
    OBVIOUS
  <2>1. CASE IsData(d)
    BY <1>3, <1>4, <2>1 DEF Rejects, Default, Flag
  <2>2. CASE ~IsData(d)
    BY <1>3, <2>2 DEF IsData, Default
  <2> QED BY <2>1, <2>2
<1>8. ~IsData(p) => e.getter = p.getter /\ e.setter = p.setter
  <2> SUFFICES ASSUME ~IsData(p) PROVE e.getter = p.getter /\ e.setter = p.setter
    OBVIOUS
  <2>1. CASE IsAccessor(d)
    BY <1>3, <2>1 DEF Rejects, Default
  <2>2. CASE ~IsAccessor(d)
    BY <1>3, <2>2 DEF IsAccessor, Default
  <2> QED BY <2>1, <2>2
<1> QED BY <1>5, <1>6, <1>7, <1>8 DEF Kept

LEMMA DefinePreserves ==
    ASSUME IInv, NEW o \in Objects, NEW n \in Names, NEW a \in Descriptors,
           DefineProperty(o, n, a)
    PROVE  Preserved /\ result' \in Results
<1> DEFINE d == Descriptor(a)
           p == Entry(o, n)
<1>1. d \in NewType
  BY DescriptorIs
<1>2. CASE SameFound /\ result' = "TypeError"
  BY <1>2, SamePreserves DEF Results
<1>3. CASE /\ o \in extensible /\ ~(IsData(d) /\ IsAccessor(d)) /\ result' = "ok"
           /\ Visible(o, n) /\ ~Rejects(p, d) /\ Only(o, n, Redefined(p, d))
  <2>1. p \in PropertyType /\ p.type = "property" /\ IsComplete(p) /\ p # None
    <3>1. p \in PropertyType /\ IsComplete(p)
      BY <1>3, EntryType DEF IInv, TypeOK, TableType
    <3> QED BY <1>3, <3>1, ObjectsAssumption DEF PropertyType, Visible
  <2> HIDE DEF d, p
  <2>2. /\ Redefined(p, d) \in PropertyType /\ Redefined(p, d).type = "property"
        /\ IsComplete(Redefined(p, d))
    BY <1>1, <1>3, <2>1, RedefinedIs
  <2>3. ~p.configurable => Kept(p, Redefined(p, d))
    BY <1>1, <1>3, <2>1, RedefinedKept
  <2>4. Preserved
    BY <1>3, <2>2, <2>3, OnlyPreserves DEF p
  <2> QED BY <1>3, <2>4 DEF Results
<1>4. CASE /\ o \in extensible /\ ~(IsData(d) /\ IsAccessor(d)) /\ result' = "ok"
           /\ ~Visible(o, n) /\ Only(o, n, Complete(d))
  <2> HIDE DEF d
  <2>1. Complete(d) \in PropertyType /\ IsComplete(Complete(d))
    BY <1>1, <1>4, CompleteIs
  <2>2. Preserved
    BY <1>4, <2>1, OnlyPreserves
  <2> QED BY <1>4, <2>2 DEF Results
<1> QED BY <1>2, <1>3, <1>4, DefineDoes

LEMMA RestrictPreserves ==
    ASSUME IInv, NEW o \in Objects, Freeze(o) \/ Seal(o) \/ PreventExtensions(o)
    PROVE  Preserved /\ result' \in Results
BY RestrictDoes, TightenedPreserves DEF Results

LEMMA SetProtoPreserves ==
    ASSUME IInv, NEW o \in Objects, NEW p \in Objects \cup {Null}, SetProto(o, p)
    PROVE  /\ Preserved /\ result' \in Results /\ UNCHANGED <<hash, extensible>>
           /\ proto' \in [Objects -> Objects \cup {Null}] /\ Acyclic'
<1> DEFINE cyclic == p # Null /\ \E i \in DOMAIN Chain(p) : Chain(p)[i] = o
<1>1. /\ proto \in [Objects -> Objects \cup {Null}] /\ Acyclic
  BY DEF IInv, TypeOK
<1>2. SameFound /\ UNCHANGED <<hash, extensible>> /\ result' \in {"ok", "TypeError"}
  BY DEF SetProto, SameFound, Entry
<1>3. UNCHANGED proto \/ (~cyclic /\ proto' = [proto EXCEPT ![o] = p])
  BY DEF SetProto
<1>4. CASE UNCHANGED proto
  BY <1>1, <1>2, <1>4, SamePreserves DEF Acyclic, Results
<1>5. CASE ~cyclic /\ proto' = [proto EXCEPT ![o] = p]
  <2>1. proto' \in [Objects -> Objects \cup {Null}]
    BY <1>1, <1>5
  <2>2. Acyclic'
    BY <1>1, <1>5, NewPrototype
  <2> QED BY <1>2, <2>1, <2>2, SamePreserves DEF Results
<1> QED BY <1>3, <1>4, <1>5

(* One step of Next.                                                       *)
LEMMA StepPreserves ==
    ASSUME IInv, Next
    PROVE  IInv' /\ Keeps /\ GainsNothing
<1> SUFFICES Preserved /\ IInv'
  BY DEF Preserved
<1>1. /\ extensible \subseteq Objects /\ proto \in [Objects -> Objects \cup {Null}] /\ Acyclic
  BY DEF IInv, TypeOK
<1>2. ASSUME Preserved, result' \in Results, hash' \in TableType,
             extensible' \subseteq Objects, proto' \in [Objects -> Objects \cup {Null}],
             Acyclic'
      PROVE  Preserved /\ IInv'
  BY <1>2 DEF Preserved, CompleteFound, IInv, TypeOK, TableType, Results
<1>3. UNCHANGED proto => proto' \in [Objects -> Objects \cup {Null}] /\ Acyclic'
  BY <1>1 DEF Acyclic
<1>4. ASSUME NEW o \in Objects, NEW n \in Names, Get(o, n) PROVE Preserved /\ IInv'
  BY <1>1, <1>2, <1>3, <1>4, GetDoes, GetPreserves
<1>5. ASSUME NEW o \in Objects, NEW n \in Names, NEW v \in Data, Set(o, n, v)
      PROVE  Preserved /\ IInv'
  <2>1. hash' \in TableType /\ UNCHANGED <<extensible, proto>>
    BY <1>5, SetDoes
  <2> QED BY <1>1, <1>2, <1>3, <1>5, <2>1, SetPreserves
<1>6. ASSUME NEW o \in Objects, NEW n \in Names, Delete(o, n) PROVE Preserved /\ IInv'
  <2>1. hash' \in TableType /\ UNCHANGED <<extensible, proto>>
    BY <1>6, DeleteDoes
  <2> QED BY <1>1, <1>2, <1>3, <1>6, <2>1, DeletePreserves
<1>7. ASSUME NEW o \in Objects, NEW n \in Names, NEW d \in Descriptors, DefineProperty(o, n, d)
      PROVE  Preserved /\ IInv'
  <2>1. hash' \in TableType /\ UNCHANGED <<extensible, proto>>
    BY <1>7, DefineDoes
  <2> QED BY <1>1, <1>2, <1>3, <1>7, <2>1, DefinePreserves
<1>8. ASSUME NEW o \in Objects, Freeze(o) \/ Seal(o) \/ PreventExtensions(o)
      PROVE  Preserved /\ IInv'
  <2>1. hash' \in TableType /\ extensible' \subseteq Objects /\ UNCHANGED proto
    BY <1>1, <1>8, RestrictDoes
  <2> QED BY <1>2, <1>3, <1>8, <2>1, RestrictPreserves
<1>9. ASSUME NEW o \in Objects, NEW p \in Objects \cup {Null}, SetProto(o, p)
      PROVE  Preserved /\ IInv'
  <2>1. hash' \in TableType /\ extensible' \subseteq Objects
    BY <1>1, <1>9, SetProtoPreserves DEF IInv, TypeOK, TableType
  <2> QED BY <1>2, <1>9, <2>1, SetProtoPreserves
<1> QED BY <1>4, <1>5, <1>6, <1>7, <1>8, <1>9 DEF Next

LEMMA Initially == Init => IInv
<1> SUFFICES ASSUME Init PROVE IInv
  OBVIOUS
<1>1. \A o \in Objects, n \in Names : Entry(o, n) = Shared[o][n]
  BY DEF Init, Entry
<1>2. \A o \in Objects, n \in Names : Visible(o, n) => IsComplete(Entry(o, n))
  BY <1>1, ObjectsAssumption DEF Visible
<1>3. TypeOK
  BY <1>2, ObjectsAssumption DEF Init, TypeOK
<1>4. Acyclic
  <2>1. PICK rank \in [Objects -> 0 .. Cardinality(Objects)] :
           \A x \in Objects : Prototype[x] # Null => rank[Prototype[x]] < rank[x]
    BY ObjectsAssumption
  <2>2. rank \in [Objects -> Nat]
    OBVIOUS
  <2> QED BY <2>1, <2>2 DEF Init, Acyclic
<1> QED BY <1>3, <1>4 DEF IInv

LEMMA Stutters ==
    ASSUME IInv, UNCHANGED vars
    PROVE  IInv' /\ Keeps /\ GainsNothing
<1>1. UNCHANGED <<hash, extensible, proto, result>>
  BY DEF vars
<1>2. SameFound
  BY <1>1 DEF SameFound, Entry
<1>3. Preserved
  BY <1>2, SamePreserves
<1> QED BY <1>1, <1>3 DEF Preserved, CompleteFound, IInv, TypeOK, Acyclic

(* IInv holds in every state: it is what the theorems below follow from.   *)
THEOREM Invariance == Spec => []IInv
<1>1. IInv /\ [Next]_vars => IInv'
  BY StepPreserves, Stutters
<1> QED BY <1>1, Initially, PTL DEF Spec

(* The tables hold properties and what a query finds is complete, whatever *)
(* the shared tables and the descriptors are.                              *)
THEOREM TypeCorrect == Spec => []TypeOK
BY Invariance, PTL DEF IInv

(* njs_object_prototype_proto() never closes a chain, so that the walks of *)
(* njs_object_property_query() and njs_object_enumerate_object() end.      *)
THEOREM ChainsEndTheorem == Spec => []ChainsEnd
<1>1. IInv => ChainsEnd
  BY AcyclicEnds DEF IInv, TypeOK
<1> QED BY <1>1, Invariance, PTL

(* What is not configurable stays as it is.                                *)
THEOREM NonConfigurableStaysTheorem == Spec => NonConfigurableStays
<1>1. IInv /\ [Next]_vars => Keeps
  BY StepPreserves, Stutters
<1>2. Keeps <=> \A o \in Objects, n \in Names :
                   Visible(o, n) /\ ~Entry(o, n).configurable
                       => Visible(o, n)' /\ Kept(Entry(o, n), Entry(o, n)')
  BY DEF Keeps
<1> QED BY <1>1, <1>2, Invariance, PTL DEF Spec, NonConfigurableStays

(* An object that is not extensible gains no name that it never had.       *)
THEOREM NeverGainsNewNamesTheorem == Spec => NeverGainsNewNames
<1>1. IInv /\ [Next]_vars => GainsNothing
  BY StepPreserves, Stutters
<1>2. GainsNothing <=> \A o \in Objects \ extensible, n \in Names :
                          Entry(o, n) = None => Entry(o, n)' = None
  BY DEF GainsNothing
<1> QED BY <1>1, <1>2, Invariance, PTL DEF Spec, NeverGainsNewNames

-----------------------------------------------------------------------------
(* The refinement of PropertyMap.  *)

ViewOf(p) ==
    IF p = None \/ p.type = "whiteout" THEN None
    ELSE [value |-> IF IsData(p) THEN p.value ELSE Absent,
          writable |-> IF IsData(p) THEN p.writable ELSE Absent,
          get |-> IF IsData(p) THEN Absent ELSE p.getter,
          set |-> IF IsData(p) THEN Absent ELSE p.setter,
          enumerable |-> p.enumerable, configurable |-> p.configurable]

LEMMA ViewIs ==
    ASSUME NEW o, NEW n
    PROVE  View(o, n) = ViewOf(Entry(o, n))
BY DEF View, ViewOf, Visible

LEMMA ViewFields ==
    ASSUME NEW p \in PropertyType, p.type = "property", NEW v, v = ViewOf(p)
    PROVE  /\ v \in PropertyDescriptor /\ v # None
           /\ v = [f \in {"value", "writable", "get", "set", "enumerable", "configurable"}
                       |-> v[f]]
           /\ v.enumerable = p.enumerable /\ v.configurable = p.configurable
           /\ IsData(p) => /\ v.value = p.value /\ v.writable = p.writable
                           /\ v.get = Absent /\ v.set = Absent
           /\ ~IsData(p) => /\ v.value = Absent /\ v.writable = Absent
                            /\ v.get = p.getter /\ v.set = p.setter
<1>1. p # None
  BY ObjectsAssumption
<1>2. v = [value |-> IF IsData(p) THEN p.value ELSE Absent,
           writable |-> IF IsData(p) THEN p.writable ELSE Absent,
           get |-> IF IsData(p) THEN Absent ELSE p.getter,
           set |-> IF IsData(p) THEN Absent ELSE p.setter,
           enumerable |-> p.enumerable, configurable |-> p.configurable]
  BY <1>1 DEF ViewOf
<1>3. v \in PropertyDescriptor
  BY <1>2 DEF PropertyType, PropertyDescriptor, Value, Flag, Accessor
<1> QED BY <1>2, <1>3, ObjectsAssumption

LEMMA SameHolder ==
    ASSUME IInv, NEW o \in Objects, NEW n \in Names
    PROVE  ECMAScript!Chain(o) = Chain(o) /\ ECMAScript!Holder(o, n) = Holder(o, n)
<1> DEFINE own == [x \in Objects |-> [m \in Names |-> View(x, m)]]
           up == Chain(o)
<1>1. ECMAScript!Chain(o) = Chain(o)
  BY DEF ECMAScript!Chain, Chain, ECMAScript!Cardinality, Cardinality
<1>2. \A x \in Objects : own[x][n] # None <=> Visible(x, n)
  <2> SUFFICES ASSUME NEW x \in Objects PROVE View(x, n) # None <=> Visible(x, n)
    OBVIOUS
  <2>1. CASE Visible(x, n)
    <3>1. Entry(x, n) \in PropertyType /\ Entry(x, n).type = "property"
      <4>1. Entry(x, n) \in PropertyType
        BY <2>1, EntryType DEF IInv, TypeOK, TableType
      <4> QED BY <2>1, <4>1 DEF PropertyType, Visible
    <3> QED BY <2>1, <3>1, ViewIs, ViewFields
  <2>2. CASE ~Visible(x, n)
    BY <2>2 DEF View
  <2> QED BY <2>1, <2>2
<1>3. \A i \in DOMAIN up : up[i] # Null => up[i] \in Objects
  BY ChainIs, ChainType DEF IInv, TypeOK
<1> HIDE DEF own, up
<1>4. {i \in DOMAIN up : up[i] # Null /\ own[up[i]][n] # None}
         = {i \in DOMAIN up : up[i] # Null /\ Visible(up[i], n)}
  BY <1>2, <1>3
<1>5. ECMAScript!Holder(o, n) =
         LET at == {i \in DOMAIN up : up[i] # Null /\ own[up[i]][n] # None}
         IN  IF at = {} THEN Null ELSE up[CHOOSE i \in at : \A j \in at : i <= j]
  BY <1>1 DEF ECMAScript!Holder, own, up
<1>6. Holder(o, n) =
         LET at == {i \in DOMAIN up : up[i] # Null /\ Visible(up[i], n)}
         IN  IF at = {} THEN Null ELSE up[CHOOSE i \in at : \A j \in at : i <= j]
  BY DEF Holder, up
<1> QED BY <1>1, <1>4, <1>5, <1>6

LEMMA ReturnsIs ==
    ASSUME SameFound, UNCHANGED proto, NEW r, result' = r
    PROVE  ECMAScript!Returns(r)
<1>1. \A x \in Objects, m \in Names : View(x, m)' = View(x, m)
  BY DEF SameFound, View, Visible, IsData
<1> QED BY <1>1 DEF ECMAScript!Returns

LEMMA BecomesIs ==
    ASSUME NEW o \in Objects, NEW n \in Names, NEW p, Only(o, n, p),
           UNCHANGED proto, result' = "ok", NEW v, v = ViewOf(p)
    PROVE  ECMAScript!Becomes(o, n, v)
<1> DEFINE own == [x \in Objects |-> [m \in Names |-> View(x, m)]]
           new == [x \in Objects |-> [m \in Names |-> View(x, m)']]
<1>1. View(o, n)' = v
  BY DEF Only, View, ViewOf, Visible, IsData
<1>2. \A x \in Objects, m \in Names : x # o \/ m # n => View(x, m)' = View(x, m)
  BY DEF Only, View, Visible, IsData
<1>3. new = [own EXCEPT ![o][n] = v]
  BY <1>1, <1>2
<1> QED BY <1>3 DEF ECMAScript!Becomes

LEMMA ViewKinds ==
    ASSUME IInv, NEW x \in Objects, NEW n \in Names, Visible(x, n), NEW v, v = View(x, n)
    PROVE  /\ Entry(x, n) \in PropertyType /\ Entry(x, n).type = "property"
           /\ IsComplete(Entry(x, n))
           /\ v = ViewOf(Entry(x, n)) /\ v # None
           /\ ECMAScript!IsData(v) <=> IsData(Entry(x, n))
           /\ ECMAScript!IsAccessor(v) <=> ~IsData(Entry(x, n))
<1> DEFINE p == Entry(x, n)
<1>1. p \in PropertyType /\ p.type = "property" /\ IsComplete(p)
  <2>1. p \in PropertyType /\ IsComplete(p)
    BY EntryType DEF IInv, TypeOK, TableType
  <2> QED BY <2>1 DEF PropertyType, Visible
<1>2. v = ViewOf(p)
  BY ViewIs
<1> HIDE DEF p
<1>3. /\ v # None
      /\ IsData(p) => /\ v.value = p.value /\ v.writable = p.writable
                      /\ v.get = Absent /\ v.set = Absent
      /\ ~IsData(p) => /\ v.value = Absent /\ v.writable = Absent
                       /\ v.get = p.getter /\ v.set = p.setter
  BY <1>1, <1>2, ViewFields
<1>4. /\ ECMAScript!IsData(v) <=> IsData(p)
      /\ ECMAScript!IsAccessor(v) <=> ~IsData(p)
  BY <1>1, <1>3 DEF ECMAScript!IsData, ECMAScript!IsAccessor, IsComplete
<1> QED BY <1>1, <1>2, <1>3, <1>4 DEF p

LEMMA GetImplements ==
    ASSUME IInv, NEW o \in Objects, NEW n \in Names, Get(o, n)
    PROVE  ECMAScript!Get(o, n)
<1> DEFINE own == [x \in Objects |-> [m \in Names |-> View(x, m)]]
           h == Holder(o, n)
           v == own[h][n]
           r == IF h = Null THEN Undefined
                ELSE IF ECMAScript!IsData(v) THEN v.value ELSE v.get
<1>1. /\ SameFound /\ UNCHANGED proto
      /\ result' = IF h = Null THEN Undefined
                   ELSE IF IsData(Entry(h, n)) THEN Entry(h, n).value
                   ELSE Entry(h, n).getter
  BY GetDoes
<1>2. h \in Objects \cup {Null} /\ (h # Null => Visible(h, n))
  BY HolderFacts DEF IInv, TypeOK
<1>3. result' = r
  <2>1. CASE h = Null
    BY <1>1, <2>1
  <2>2. CASE h # Null
    <3>1. v = View(h, n)
      BY <1>2, <2>2
    <3> HIDE DEF own, h, v
    <3>2. /\ Entry(h, n) \in PropertyType /\ Entry(h, n).type = "property"
          /\ v = ViewOf(Entry(h, n))
          /\ ECMAScript!IsData(v) <=> IsData(Entry(h, n))
      BY <1>2, <2>2, <3>1, ViewKinds
    <3>3. /\ IsData(Entry(h, n)) => v.value = Entry(h, n).value
          /\ ~IsData(Entry(h, n)) => v.get = Entry(h, n).getter
      BY <3>2, ViewFields
    <3> QED BY <1>1, <2>2, <3>2, <3>3
  <2> QED BY <2>1, <2>2
<1>4. ECMAScript!Get(o, n) <=> ECMAScript!Returns(r)
  BY SameHolder DEF ECMAScript!Get
<1> HIDE DEF r
<1> QED BY <1>1, <1>3, <1>4, ReturnsIs

LEMMA DeleteImplements ==
    ASSUME IInv, NEW o \in Objects, NEW n \in Names, Delete(o, n)
    PROVE  ECMAScript!Delete(o, n)
<1> DEFINE own == [x \in Objects |-> [m \in Names |-> View(x, m)]]
           v == View(o, n)
           p == Entry(o, n)
           w == [p EXCEPT !.type = "whiteout", !.value = Absent]
<1>1. UNCHANGED proto
  BY DeleteDoes
<1>2. own[o][n] = v
  OBVIOUS
<1>3. ECMAScript!Delete(o, n) <=>
         IF v = None THEN ECMAScript!Returns("ok")
         ELSE IF v.configurable THEN ECMAScript!Becomes(o, n, None)
         ELSE ECMAScript!Returns("TypeError")
  BY <1>2 DEF ECMAScript!Delete
<1>4. Visible(o, n) => v # None /\ v.configurable = p.configurable
  BY ViewKinds, ViewFields
<1>5. ~Visible(o, n) => v = None
  BY DEF View
<1>6. CASE ~Visible(o, n) /\ SameFound /\ result' = "ok"
  BY <1>1, <1>3, <1>5, <1>6, ReturnsIs
<1>7. CASE Visible(o, n) /\ p.configurable /\ result' = "ok" /\ Only(o, n, w)
  <2>1. ViewOf(w) = None
    <3>1. p \in PropertyType
      BY <1>7, ViewKinds
    <3>2. w.type = "whiteout"
      BY <3>1 DEF PropertyType
    <3> QED BY <3>2 DEF ViewOf
  <2> HIDE DEF w, v, p
  <2>2. ECMAScript!Becomes(o, n, None)
    BY <1>1, <1>7, <2>1, BecomesIs
  <2> QED BY <1>3, <1>4, <1>7, <2>2
<1>8. CASE Visible(o, n) /\ ~p.configurable /\ result' = "TypeError" /\ SameFound
  BY <1>1, <1>3, <1>4, <1>8, ReturnsIs
<1> QED BY <1>6, <1>7, <1>8, DeleteDoes

NewView(v) ==
    [value |-> v, writable |-> TRUE, get |-> Absent, set |-> Absent,
     enumerable |-> TRUE, configurable |-> TRUE]

LEMMA AddedView ==
    ASSUME IInv, NEW o \in Objects, NEW n \in Names, NEW v \in Data
    PROVE  ViewOf(Added(o, n, v)) = NewView(v)
<1> DEFINE p == Added(o, n, v)
<1>1. /\ p \in PropertyType /\ p.type = "property" /\ p.value = v /\ p.writable = TRUE
      /\ p.enumerable = TRUE /\ p.configurable = TRUE
  <2>1. v \in Value
    BY DEF Value
  <2>2. CASE OwnWhiteout(o, n)
    <3>1. hash[o][n] \in PropertyType
      BY <2>2, EntryType DEF IInv, TypeOK, TableType
    <3> QED BY <2>1, <2>2, <3>1 DEF Added, PropertyType, Flag
  <2>3. CASE ~OwnWhiteout(o, n)
    BY <2>1, <2>3 DEF Added, DataProperty, Property, PropertyType, Flag, Accessor
  <2> QED BY <2>2, <2>3
<1> HIDE DEF p
<1>2. IsData(p) /\ p # None
  BY <1>1, ObjectsAssumption DEF IsData
<1> QED BY <1>1, <1>2 DEF ViewOf, NewView, p

LEMMA SetImplements ==
    ASSUME IInv, extensible = Objects,
           NEW o \in Objects, NEW n \in Names, NEW v \in Data, Set(o, n, v)
    PROVE  ECMAScript!Put(o, n, v)
<1> DEFINE own == [x \in Objects |-> [m \in Names |-> View(x, m)]]
           h == Holder(o, n)
           e == Entry(h, n)
           p == own[h][n]
<1>1. UNCHANGED proto /\ MayAdd(o, n)
  BY SetDoes DEF MayAdd
<1>2. h \in Objects \cup {Null} /\ (h # Null => Visible(h, n)) /\ o # Null
  BY HolderFacts, ObjectsAssumption DEF IInv, TypeOK
<1>3. ECMAScript!Put(o, n, v) <=>
         IF h = Null THEN ECMAScript!Becomes(o, n, NewView(v))
         ELSE IF ECMAScript!IsAccessor(p)
         THEN ECMAScript!Returns(IF p.set = Undefined THEN "TypeError" ELSE p.set)
         ELSE IF ~p.writable THEN ECMAScript!Returns("TypeError")
         ELSE IF h = o THEN ECMAScript!Becomes(o, n, [p EXCEPT !.value = v])
         ELSE ECMAScript!Becomes(o, n, NewView(v))
  BY SameHolder DEF ECMAScript!Put, NewView
<1>4. h # Null => p = View(h, n)
  BY <1>2
<1>5. /\ h # Null /\ IsData(e) => ~ECMAScript!IsAccessor(p) /\ p.writable = e.writable
      /\ h # Null /\ ~IsData(e) => ECMAScript!IsAccessor(p) /\ p.set = e.setter
      /\ h # Null => e \in PropertyType /\ e.type = "property" /\ IsComplete(e) /\ p = ViewOf(e)
  <2> SUFFICES ASSUME h # Null
               PROVE  /\ IsData(e) => ~ECMAScript!IsAccessor(p) /\ p.writable = e.writable
                      /\ ~IsData(e) => ECMAScript!IsAccessor(p) /\ p.set = e.setter
                      /\ e \in PropertyType /\ e.type = "property" /\ IsComplete(e)
                      /\ p = ViewOf(e)
    OBVIOUS
  <2> HIDE DEF own, h, p
  <2>1. /\ e \in PropertyType /\ e.type = "property" /\ IsComplete(e) /\ p = ViewOf(e)
        /\ ECMAScript!IsAccessor(p) <=> ~IsData(e)
    BY <1>2, <1>4, ViewKinds
  <2> HIDE DEF e
  <2> QED BY <2>1, ViewFields
<1> HIDE DEF own, h, p
<1>6. CASE ReadOnly(o, n) /\ SameFound /\ result' = "TypeError"
  <2>1. h # Null /\ IsData(e) /\ ~e.writable
    BY <1>6 DEF ReadOnly, h
  <2>2. ECMAScript!Returns("TypeError")
    BY <1>1, <1>6, ReturnsIs
  <2> HIDE DEF e
  <2> QED BY <1>3, <1>5, <2>1, <2>2
<1>7. CASE /\ HasSetter(o, n) /\ SameFound
           /\ result' = LET s == Entry(Holder(o, n), n).setter
                        IN  IF s \in Functions THEN s ELSE "TypeError"
  <2>1. h # Null /\ ~IsData(e) /\ result' = IF e.setter \in Functions THEN e.setter ELSE "TypeError"
    BY <1>7 DEF HasSetter, h
  <2> HIDE DEF e
  <2>2. e.setter \in Functions \cup {Undefined}
    BY <1>5, <2>1 DEF PropertyType, Accessor, IsComplete
  <2>3. result' = IF p.set = Undefined THEN "TypeError" ELSE p.set
    BY <1>5, <2>1, <2>2, ObjectsAssumption
  <2>4. ECMAScript!Returns(IF p.set = Undefined THEN "TypeError" ELSE p.set)
    BY <1>1, <1>7, <2>3, ReturnsIs
  <2> QED BY <1>3, <1>5, <2>1, <2>4
<1>8. ASSUME ~ReadOnly(o, n), ~HasSetter(o, n), h # Null
      PROVE  IsData(e) /\ ~ECMAScript!IsAccessor(p) /\ ~(~p.writable)
  BY <1>5, <1>8 DEF ReadOnly, HasSetter, h
<1>9. CASE /\ ~ReadOnly(o, n) /\ ~HasSetter(o, n) /\ result' = "ok" /\ h = o
           /\ Only(o, n, [Entry(o, n) EXCEPT !.value = v])
  <2> DEFINE q == [e EXCEPT !.value = v]
  <2>0. h # Null /\ IsData(e) /\ ~ECMAScript!IsAccessor(p) /\ ~(~p.writable)
    BY <1>2, <1>8, <1>9
  <2>1. ViewOf(q) = [p EXCEPT !.value = v]
    <3> HIDE DEF e
    <3>1. /\ q \in PropertyType /\ q.type = "property" /\ IsData(q)
          /\ q.value = v /\ q.writable = e.writable
          /\ q.enumerable = e.enumerable /\ q.configurable = e.configurable
      BY <1>5, <2>0, ObjectsAssumption DEF PropertyType, Value, IsComplete, IsData
    <3>2. /\ e # None /\ q # None
      BY <1>5, <2>0, <3>1, ObjectsAssumption
    <3> HIDE DEF q
    <3> QED BY <1>5, <2>0, <3>1, <3>2 DEF ViewOf
  <2>2. Only(o, n, q)
    BY <1>9
  <2> HIDE DEF q
  <2>3. ECMAScript!Becomes(o, n, [p EXCEPT !.value = v])
    BY <1>1, <1>9, <2>1, <2>2, BecomesIs
  <2> QED BY <1>3, <1>9, <2>0, <2>3
<1>10. CASE /\ ~ReadOnly(o, n) /\ ~HasSetter(o, n) /\ result' = "ok" /\ h # o
            /\ Only(o, n, Added(o, n, v))
  <2>1. ECMAScript!Becomes(o, n, NewView(v))
    BY <1>1, <1>10, AddedView, BecomesIs
  <2> QED BY <1>3, <1>8, <1>10, <2>1
<1> QED BY <1>1, <1>6, <1>7, <1>9, <1>10, SetDoes DEF h

(* A descriptor as the script gives it, and as njs_descriptor_prop() does. *)
LEMMA DescriptorKinds ==
    ASSUME NEW a \in Descriptors, NEW d, d = Descriptor(a)
    PROVE  /\ d \in NewType /\ a \in PropertyDescriptor
           /\ ECMAScript!IsData(a) <=> IsData(d)
           /\ ECMAScript!IsAccessor(a) <=> IsAccessor(d)
           /\ d.value = a.value /\ d.writable = a.writable
           /\ d.getter = a.get /\ d.setter = a.set
           /\ d.enumerable = a.enumerable /\ d.configurable = a.configurable
<1>1. d \in NewType /\ a \in PropertyDescriptor
  BY DescriptorIs, ObjectsAssumption
<1>2. /\ d.value = a.value /\ d.writable = a.writable
      /\ d.getter = a.get /\ d.setter = a.set
      /\ d.enumerable = a.enumerable /\ d.configurable = a.configurable
  BY DEF Descriptor, Property
<1> QED BY <1>1, <1>2
        DEF ECMAScript!IsData, IsData, ECMAScript!IsAccessor, IsAccessor

LEMMA CompleteView ==
    ASSUME NEW a \in Descriptors, NEW d, d = Descriptor(a), ~(IsData(d) /\ IsAccessor(d))
    PROVE  ViewOf(Complete(d)) = ECMAScript!Complete(a)
<1> DEFINE e == Complete(d)
<1>1. /\ d \in NewType
      /\ ECMAScript!IsAccessor(a) <=> IsAccessor(d)
      /\ d.value = a.value /\ d.writable = a.writable
      /\ d.getter = a.get /\ d.setter = a.set
      /\ d.enumerable = a.enumerable /\ d.configurable = a.configurable
  BY DescriptorKinds
<1>2. /\ e \in PropertyType /\ e.type = "property" /\ IsComplete(e)
      /\ e.value = IF IsAccessor(d) THEN Absent ELSE Default(d.value, Undefined)
      /\ e.writable = IF IsAccessor(d) THEN Absent ELSE Default(d.writable, FALSE)
      /\ e.getter = IF IsAccessor(d) THEN Default(d.getter, Undefined) ELSE Absent
      /\ e.setter = IF IsAccessor(d) THEN Default(d.setter, Undefined) ELSE Absent
      /\ e.enumerable = Default(d.enumerable, FALSE)
      /\ e.configurable = Default(d.configurable, FALSE)
  BY <1>1, CompleteIs
<1> HIDE DEF e
<1>3. e # None /\ (IsData(e) <=> ~IsAccessor(d))
  BY <1>2, ObjectsAssumption DEF IsData, IsComplete, Default
<1>4. CASE IsAccessor(d)
  BY <1>1, <1>2, <1>3, <1>4 DEF ViewOf, ECMAScript!Complete, ECMAScript!Default, Default, e
<1>5. CASE ~IsAccessor(d)
  BY <1>1, <1>2, <1>3, <1>5 DEF ViewOf, ECMAScript!Complete, ECMAScript!Default, Default, e
<1> QED BY <1>4, <1>5

LEMMA RejectsIs ==
    ASSUME NEW p \in PropertyType, p.type = "property", IsComplete(p), NEW v, v = ViewOf(p),
           NEW a \in Descriptors, NEW d, d = Descriptor(a), ~(IsData(d) /\ IsAccessor(d))
    PROVE  Rejects(p, d) <=> ~ECMAScript!Allowed(v, a)
<1>1. /\ ECMAScript!IsData(a) <=> IsData(d)
      /\ ECMAScript!IsAccessor(a) <=> IsAccessor(d)
      /\ d.value = a.value /\ d.writable = a.writable
      /\ d.getter = a.get /\ d.setter = a.set
      /\ d.enumerable = a.enumerable /\ d.configurable = a.configurable
  BY DescriptorKinds
<1>2. /\ v.enumerable = p.enumerable /\ v.configurable = p.configurable
      /\ IsData(p) => /\ v.value = p.value /\ v.writable = p.writable
                      /\ v.get = Absent /\ v.set = Absent
      /\ ~IsData(p) => /\ v.value = Absent /\ v.writable = Absent
                       /\ v.get = p.getter /\ v.set = p.setter
  BY ViewFields
<1>3. /\ ECMAScript!IsData(v) <=> IsData(p)
      /\ ECMAScript!IsAccessor(v) <=> ~IsData(p)
  BY <1>2 DEF ECMAScript!IsData, ECMAScript!IsAccessor, IsComplete
<1>4. CASE p.configurable
  BY <1>2, <1>4 DEF Rejects, ECMAScript!Allowed
<1>5. CASE ~p.configurable /\ IsData(p)
  <2>1. CASE IsAccessor(d)
    BY <1>1, <1>2, <1>3, <1>5, <2>1 DEF Rejects, ECMAScript!Allowed, Generic, IsData
  <2>2. CASE IsData(d)
    <3>1. ~IsAccessor(d) /\ ~Generic(d) /\ (IsData(p) = IsData(d))
      BY <1>5, <2>2 DEF Generic, IsData
    <3> QED BY <1>1, <1>2, <1>3, <1>5, <2>2, <3>1 DEF Rejects, ECMAScript!Allowed
  <2>3. CASE Generic(d)
    BY <1>1, <1>2, <1>3, <1>5, <2>3 DEF Rejects, ECMAScript!Allowed, Generic
  <2> QED BY <2>1, <2>2, <2>3 DEF Generic
<1>6. CASE ~p.configurable /\ ~IsData(p)
  <2>1. CASE IsAccessor(d)
    <3>1. ~IsData(d) /\ ~Generic(d) /\ (IsData(p) = IsData(d))
      BY <1>6, <2>1 DEF Generic, IsData
    <3> QED BY <1>1, <1>2, <1>3, <1>6, <2>1, <3>1 DEF Rejects, ECMAScript!Allowed
  <2>2. CASE IsData(d)
    BY <1>1, <1>2, <1>3, <1>6, <2>2 DEF Rejects, ECMAScript!Allowed, Generic, IsData
  <2>3. CASE Generic(d)
    BY <1>1, <1>2, <1>3, <1>6, <2>3 DEF Rejects, ECMAScript!Allowed, Generic
  <2> QED BY <2>1, <2>2, <2>3 DEF Generic
<1> QED BY <1>4, <1>5, <1>6

LEMMA MergeIs ==
    ASSUME NEW p \in PropertyType, p.type = "property", IsComplete(p), NEW v, v = ViewOf(p),
           NEW a \in Descriptors, NEW d, d = Descriptor(a), ~(IsData(d) /\ IsAccessor(d))
    PROVE  ViewOf(Redefined(p, d)) = ECMAScript!Merge(v, a)
<1> DEFINE e == Redefined(p, d)
           c == Converted(p, d)
           w == ViewOf(e)
           b == [a EXCEPT !.enumerable = ECMAScript!Default(@, v.enumerable),
                          !.configurable = ECMAScript!Default(@, v.configurable)]
<1>1. /\ d \in NewType /\ a \in PropertyDescriptor
      /\ ECMAScript!IsData(a) <=> IsData(d)
      /\ ECMAScript!IsAccessor(a) <=> IsAccessor(d)
      /\ d.value = a.value /\ d.writable = a.writable
      /\ d.getter = a.get /\ d.setter = a.set
      /\ d.enumerable = a.enumerable /\ d.configurable = a.configurable
  BY DescriptorKinds
<1>2. /\ v \in PropertyDescriptor
      /\ v.enumerable = p.enumerable /\ v.configurable = p.configurable
      /\ IsData(p) => /\ v.value = p.value /\ v.writable = p.writable
                      /\ v.get = Absent /\ v.set = Absent
      /\ ~IsData(p) => /\ v.value = Absent /\ v.writable = Absent
                       /\ v.get = p.getter /\ v.set = p.setter
  BY ViewFields
<1>3. /\ ECMAScript!IsData(v) <=> IsData(p)
      /\ ECMAScript!IsAccessor(v) <=> ~IsData(p)
  BY <1>2 DEF ECMAScript!IsData, ECMAScript!IsAccessor, IsComplete
<1>4. /\ e \in PropertyType /\ e.type = "property" /\ IsComplete(e)
      /\ e.value = Default(d.value, c.value) /\ e.writable = Default(d.writable, c.writable)
      /\ e.getter = Default(d.getter, c.getter) /\ e.setter = Default(d.setter, c.setter)
      /\ e.enumerable = Default(d.enumerable, p.enumerable)
      /\ e.configurable = Default(d.configurable, p.configurable)
  BY <1>1, RedefinedIs
<1>5. /\ SameKind(p, d) => c = p
      /\ ~SameKind(p, d) /\ IsData(p) =>
           /\ c.value = Absent /\ c.writable = Absent
           /\ c.getter = Undefined /\ c.setter = Undefined
      /\ ~SameKind(p, d) /\ ~IsData(p) =>
           /\ c.value = Undefined /\ c.writable = FALSE
           /\ c.getter = Absent /\ c.setter = Absent
  BY ConvertedIs
<1> HIDE DEF e, c, b
<1>6. /\ w = [f \in {"value", "writable", "get", "set", "enumerable", "configurable"} |-> w[f]]
      /\ w.enumerable = e.enumerable /\ w.configurable = e.configurable
      /\ IsData(e) => /\ w.value = e.value /\ w.writable = e.writable
                      /\ w.get = Absent /\ w.set = Absent
      /\ ~IsData(e) => /\ w.value = Absent /\ w.writable = Absent
                       /\ w.get = e.getter /\ w.set = e.setter
  BY <1>4, ViewFields
<1> HIDE DEF w
<1>7. /\ b.value = a.value /\ b.writable = a.writable /\ b.get = a.get /\ b.set = a.set
      /\ b.enumerable = Default(a.enumerable, v.enumerable)
      /\ b.configurable = Default(a.configurable, v.configurable)
  BY <1>1 DEF b, PropertyDescriptor, ECMAScript!Default, Default
<1>8. /\ v.enumerable \in BOOLEAN /\ v.configurable \in BOOLEAN
      /\ a.enumerable \in Flag /\ a.configurable \in Flag
  BY <1>1, <1>2 DEF PropertyType, PropertyDescriptor
<1>9. /\ Default(b.enumerable, FALSE) = w.enumerable
      /\ Default(b.configurable, FALSE) = w.configurable
  <2>1. w.enumerable = b.enumerable /\ w.configurable = b.configurable
    BY <1>1, <1>2, <1>4, <1>6, <1>7
  <2>2. b.enumerable \in BOOLEAN /\ b.configurable \in BOOLEAN
    BY <1>7, <1>8 DEF Default, Flag
  <2>3. Absent \notin BOOLEAN
    BY ObjectsAssumption
  <2>4. b.enumerable # Absent /\ b.configurable # Absent
    BY <2>2, <2>3
  <2> QED BY <2>1, <2>4 DEF Default
<1> DEFINE converted == \/ ECMAScript!IsData(a) /\ ECMAScript!IsAccessor(v)
                        \/ ECMAScript!IsAccessor(a) /\ ECMAScript!IsData(v)
<1>10. ECMAScript!Merge(v, a) =
          IF converted THEN ECMAScript!Complete(b)
          ELSE [f \in DOMAIN v |-> ECMAScript!Default(a[f], v[f])]
  BY DEF ECMAScript!Merge, b
<1>11. CASE SameKind(p, d)
  <2>1. ~converted
    BY <1>1, <1>3, <1>11 DEF SameKind, Generic, IsData, IsAccessor
  <2>2. DOMAIN v = {"value", "writable", "get", "set", "enumerable", "configurable"}
    BY <1>2 DEF PropertyDescriptor
  <2>3. \A f \in DOMAIN v : w[f] = Default(a[f], v[f])
    <3>1. w.enumerable = Default(a.enumerable, v.enumerable)
          /\ w.configurable = Default(a.configurable, v.configurable)
      BY <1>1, <1>2, <1>4, <1>6
    <3>2. c = p
      BY <1>5, <1>11
    <3>3. CASE IsData(p)
      <4>1. d.getter = Absent /\ d.setter = Absent
        BY <1>11, <3>3 DEF SameKind, Generic, IsData, IsAccessor
      <4>2. IsData(e)
        BY <1>4, <3>2, <3>3 DEF IsData, Default
      <4>3. /\ w.value = Default(a.value, v.value) /\ w.writable = Default(a.writable, v.writable)
            /\ w.get = Default(a.get, v.get) /\ w.set = Default(a.set, v.set)
        BY <1>1, <1>2, <1>4, <1>6, <3>2, <3>3, <4>1, <4>2 DEF Default
      <4> QED BY <2>2, <3>1, <4>3
    <3>4. CASE ~IsData(p)
      <4>1. d.value = Absent /\ d.writable = Absent
        BY <1>11, <3>4 DEF SameKind, Generic, IsData, IsAccessor
      <4>2. ~IsData(e)
        BY <1>4, <3>2, <3>4, <4>1 DEF IsData, Default
      <4>3. /\ w.value = Default(a.value, v.value) /\ w.writable = Default(a.writable, v.writable)
            /\ w.get = Default(a.get, v.get) /\ w.set = Default(a.set, v.set)
        BY <1>1, <1>2, <1>4, <1>6, <3>2, <3>4, <4>1, <4>2 DEF Default
      <4> QED BY <2>2, <3>1, <4>3
    <3> QED BY <3>3, <3>4
  <2>4. w = [f \in DOMAIN v |-> ECMAScript!Default(a[f], v[f])]
    BY <1>6, <2>2, <2>3 DEF Default, ECMAScript!Default
  <2> QED BY <1>10, <2>1, <2>4 DEF w, e
<1>12. CASE ~SameKind(p, d) /\ IsData(p)
  <2>1. converted /\ IsAccessor(d) /\ ~IsData(d)
    BY <1>1, <1>3, <1>12 DEF SameKind, Generic, IsData, IsAccessor
  <2>2. ECMAScript!IsAccessor(b)
    BY <1>1, <1>7, <2>1 DEF ECMAScript!IsAccessor, IsAccessor
  <2>3. ~IsData(e) /\ e.getter = Default(a.get, Undefined) /\ e.setter = Default(a.set, Undefined)
    BY <1>1, <1>4, <1>5, <1>12, <2>1 DEF IsData, Default
  <2>4. w = ECMAScript!Complete(b)
    BY <1>6, <1>7, <1>9, <2>2, <2>3 DEF ECMAScript!Complete, ECMAScript!Default, Default
  <2> QED BY <1>10, <2>1, <2>4 DEF w, e
<1>13. CASE ~SameKind(p, d) /\ ~IsData(p)
  <2>1. converted /\ IsData(d) /\ ~IsAccessor(d)
    BY <1>1, <1>3, <1>13 DEF SameKind, Generic, IsData, IsAccessor
  <2>2. ~ECMAScript!IsAccessor(b)
    BY <1>1, <1>7, <2>1 DEF ECMAScript!IsAccessor, IsAccessor
  <2>3. e.value = Default(a.value, Undefined) /\ e.writable = Default(a.writable, FALSE)
    BY <1>1, <1>4, <1>5, <1>13
  <2>4. IsData(e)
    BY <2>3, ObjectsAssumption DEF IsData, Default
  <2>5. w = ECMAScript!Complete(b)
    BY <1>6, <1>7, <1>9, <2>2, <2>3, <2>4 DEF ECMAScript!Complete, ECMAScript!Default, Default
  <2> QED BY <1>10, <2>1, <2>5 DEF w, e
<1> QED BY <1>11, <1>12, <1>13

LEMMA DefineImplements ==
    ASSUME IInv, extensible = Objects,
           NEW o \in Objects, NEW n \in Names, NEW a \in Descriptors, DefineProperty(o, n, a)
    PROVE  ECMAScript!Define(o, n, a)
<1> DEFINE own == [x \in Objects |-> [m \in Names |-> View(x, m)]]
           d == Descriptor(a)
           p == Entry(o, n)
           v == View(o, n)
           both == IsData(d) /\ IsAccessor(d)
<1>1. own[o][n] = v
  OBVIOUS
<1>2. ECMAScript!Define(o, n, a) <=>
         IF ECMAScript!IsData(a) /\ ECMAScript!IsAccessor(a) THEN ECMAScript!Returns("TypeError")
         ELSE IF v = None THEN ECMAScript!Becomes(o, n, ECMAScript!Complete(a))
         ELSE IF ECMAScript!Allowed(v, a) THEN ECMAScript!Becomes(o, n, ECMAScript!Merge(v, a))
         ELSE ECMAScript!Returns("TypeError")
  BY <1>1 DEF ECMAScript!Define
<1>3. both <=> ECMAScript!IsData(a) /\ ECMAScript!IsAccessor(a)
  BY DescriptorKinds
<1>4. Visible(o, n) => /\ p \in PropertyType /\ p.type = "property" /\ IsComplete(p)
                       /\ v = ViewOf(p) /\ v # None
  BY ViewKinds
<1>5. ~Visible(o, n) => v = None
  BY DEF View
<1>6. UNCHANGED proto
  BY DefineDoes
<1> HIDE DEF d, p, v
<1>7. CASE /\ both \/ (Visible(o, n) /\ Rejects(p, d))
           /\ SameFound /\ result' = "TypeError"
  <2>1. ECMAScript!Returns("TypeError")
    BY <1>6, <1>7, ReturnsIs
  <2>2. ~both => Visible(o, n) /\ ~ECMAScript!Allowed(v, a)
    BY <1>4, <1>7, RejectsIs DEF d
  <2> QED BY <1>2, <1>3, <1>4, <2>1, <2>2
<1>8. CASE /\ ~both /\ result' = "ok" /\ Visible(o, n) /\ ~Rejects(p, d)
           /\ Only(o, n, Redefined(p, d))
  <2>1. ViewOf(Redefined(p, d)) = ECMAScript!Merge(v, a)
    BY <1>4, <1>8, MergeIs DEF d
  <2>2. ECMAScript!Becomes(o, n, ECMAScript!Merge(v, a))
    BY <1>6, <1>8, <2>1, BecomesIs
  <2>3. ECMAScript!Allowed(v, a)
    BY <1>4, <1>8, RejectsIs DEF d
  <2> QED BY <1>2, <1>3, <1>4, <1>8, <2>2, <2>3
<1>9. CASE ~both /\ result' = "ok" /\ ~Visible(o, n) /\ Only(o, n, Complete(d))
  <2>1. ViewOf(Complete(d)) = ECMAScript!Complete(a)
    BY <1>9, CompleteView DEF d
  <2>2. ECMAScript!Becomes(o, n, ECMAScript!Complete(a))
    BY <1>6, <1>9, <2>1, BecomesIs
  <2> QED BY <1>2, <1>3, <1>5, <1>9, <2>2
<1> QED BY <1>7, <1>8, <1>9, DefineDoes DEF d, p

(* An object is not in the chain of its prototype.                         *)
LEMMA NotAbove ==
    ASSUME IInv, NEW o \in Objects, proto[o] # Null
    PROVE  \A i \in 0 .. Size : Chain(proto[o])[i] # o
<1> DEFINE c == Chain(proto[o])
<1>1. PICK rank \in [Objects -> Nat] :
         \A x \in Objects : proto[x] # Null => rank[proto[x]] < rank[x]
  BY DEF IInv, Acyclic
<1>2. /\ proto \in [Objects -> Objects \cup {Null}] /\ proto[o] \in Objects
      /\ Null \notin Objects /\ Size \in Nat
  BY SizeNat, ObjectsAssumption DEF IInv, TypeOK
<1>3. /\ c[0] = proto[o]
      /\ \A i \in 1 .. Size : c[i] = Above(c[i - 1])
      /\ \A i \in 0 .. Size : c[i] \in Objects \cup {Null}
  BY <1>2, ChainIs, ChainType
<1> DEFINE T == {i \in 0 .. Size : c[i] # Null /\ ~ (rank[c[i]] < rank[o])}
<1> HIDE DEF c
<1>4. T = {}
  <2> SUFFICES ASSUME T # {} PROVE FALSE
    OBVIOUS
  <2>1. PICK m \in T : \A k \in T : m <= k
    <3>1. T \subseteq Nat
      BY <1>2
    <3> HIDE DEF T
    <3> QED BY <3>1, LeastNumber
  <2>2. m # 0
    BY <1>1, <1>3, <2>1
  <2>3. m \in 1 .. Size /\ m - 1 \in 0 .. Size /\ m - 1 \notin T
    BY <1>2, <2>1, <2>2
  <2>4. c[m] = proto[c[m - 1]] /\ c[m - 1] \in Objects /\ c[m] \in Objects
    BY <1>2, <1>3, <2>1, <2>3 DEF Above
  <2>5. rank[c[m]] < rank[c[m - 1]] /\ rank[c[m - 1]] < rank[o]
    BY <1>1, <1>2, <2>3, <2>4
  <2>6. rank[c[m]] \in Nat /\ rank[c[m - 1]] \in Nat /\ rank[o] \in Nat
    BY <1>1, <2>4
  <2> QED BY <2>1, <2>5, <2>6
<1>5. \A i \in 0 .. Size : c[i] # Null => rank[c[i]] < rank[o]
  BY <1>4
<1>6. rank[o] \in Nat
  BY <1>1
<1> QED BY <1>2, <1>5, <1>6 DEF c

LEMMA SetProtoImplements ==
    ASSUME IInv, extensible = Objects,
           NEW o \in Objects, NEW p \in Objects \cup {Null}, SetProto(o, p)
    PROVE  ECMAScript!SetPrototype(o, p)
<1> DEFINE cyclic == p # Null /\ \E i \in DOMAIN Chain(p) : Chain(p)[i] = o
<1>1. ECMAScript!Chain(p) = Chain(p)
  BY DEF ECMAScript!Chain, Chain, ECMAScript!Cardinality, Cardinality
<1>2. ECMAScript!SetPrototype(o, p) <=>
         IF cyclic THEN ECMAScript!Returns("TypeError")
         ELSE /\ proto' = [proto EXCEPT ![o] = p] /\ result' = "ok"
              /\ UNCHANGED [x \in Objects |-> [m \in Names |-> View(x, m)]]
  BY <1>1 DEF ECMAScript!SetPrototype
<1>3. SameFound /\ UNCHANGED hash
  BY DEF SetProto, SameFound, Entry
<1>4. UNCHANGED [x \in Objects |-> [m \in Names |-> View(x, m)]]
  BY <1>3 DEF View, Visible, Entry, IsData
<1>5. CASE p = proto[o]
  <2>1. ~cyclic
    BY <1>5, NotAbove, ChainIs
  <2>2. result' = "ok" /\ proto' = proto
    BY <1>5 DEF SetProto
  <2>3. proto' = [proto EXCEPT ![o] = p]
    BY <1>5, <2>2 DEF IInv, TypeOK
  <2> QED BY <1>2, <1>4, <2>1, <2>2, <2>3
<1>6. CASE p # proto[o] /\ cyclic
  <2>1. result' = "TypeError" /\ UNCHANGED proto
    BY <1>6 DEF SetProto
  <2> QED BY <1>2, <1>3, <1>6, <2>1, ReturnsIs
<1>7. CASE p # proto[o] /\ ~cyclic
  <2>1. result' = "ok" /\ proto' = [proto EXCEPT ![o] = p]
    BY <1>7 DEF SetProto
  <2> QED BY <1>2, <1>4, <1>7, <2>1
<1> QED BY <1>5, <1>6, <1>7

(* The two tables, the private copies and the deleted properties cannot be *)
(* told from the objects of ECMAScript: each operation of the code, from   *)
(* any reachable state, is the operation of the standard.                  *)
THEOREM Refinement == Spec => ImplementsPropertyMap
<1>1. ASSUME IInv, Next, extensible = Objects, extensible' = Objects
      PROVE  ECMAScript!Next
  <2>1. ASSUME NEW o \in Objects PROVE ~(Freeze(o) \/ Seal(o) \/ PreventExtensions(o))
    <3>1. Freeze(o) \/ Seal(o) \/ PreventExtensions(o) => extensible' = extensible \ {o}
      BY DEF Freeze, Seal, PreventExtensions, RestrictObject
    <3> QED BY <1>1, <3>1
  <2>2. PICK o \in Objects :
           \/ \E n \in Names :
                 \/ Get(o, n)
                 \/ \E v \in Data : Set(o, n, v)
                 \/ Delete(o, n)
                 \/ \E d \in Descriptors : DefineProperty(o, n, d)
           \/ \E p \in Objects \cup {Null} : SetProto(o, p)
    BY <1>1, <2>1 DEF Next
  <2>3. \/ \E n \in Names :
              \/ ECMAScript!Get(o, n)
              \/ \E v \in Data : ECMAScript!Put(o, n, v)
              \/ ECMAScript!Delete(o, n)
              \/ \E d \in Descriptors : ECMAScript!Define(o, n, d)
        \/ \E p \in Objects \cup {Null} : ECMAScript!SetPrototype(o, p)
    BY <1>1, <2>2, GetImplements, SetImplements, DeleteImplements,
       DefineImplements, SetProtoImplements
  <2> QED BY <2>3 DEF ECMAScript!Next
<1>2. UNCHANGED vars => UNCHANGED ECMAScript!vars
  BY DEF vars, ECMAScript!vars, View, Visible, Entry, IsData
<1>3. IInv /\ [Next]_vars =>
         [extensible = Objects /\ extensible' = Objects => ECMAScript!Next]_(ECMAScript!vars)
  BY <1>1, <1>2
<1> QED BY <1>3, Invariance, PTL DEF Spec, ImplementsPropertyMap

-----------------------------------------------------------------------------
(* njs_object_enumerate() lists what a lookup finds.  *)

Listed(o, i, n) ==
    /\ Chain(o)[i] # Null /\ Visible(Chain(o)[i], n)
    /\ Entry(Chain(o)[i], n).enumerable /\ ~ExistInProto(o, i, n)

Item(o, i, n) ==
    <<i, IF hash[Chain(o)[i]][n] # None THEN "hash" ELSE "shared_hash", n>>

OwnItem(o, i, n, t) == t \in OwnEnumerate(o, i, FALSE) /\ t[3] = n

LEMMA OwnItems ==
    ASSUME IInv, NEW o \in Objects, NEW n \in Names, NEW i \in 0 .. Size, NEW t,
           Chain(o)[i] # Null
    PROVE  OwnItem(o, i, n, t) <=> Listed(o, i, n) /\ t = Item(o, i, n)
<1> DEFINE x == Chain(o)[i]
<1>1. x \in Objects
  BY ChainType DEF IInv, TypeOK
<1>2. \A m \in Names : Shared[x][m] # None => Shared[x][m].type # "whiteout"
  BY <1>1, ObjectsAssumption
<1>3. t \in OwnEnumerate(o, i, FALSE) <=>
         \/ \E m \in Names : /\ hash[x][m] # None /\ hash[x][m].type # "whiteout"
                             /\ ~ExistInProto(o, i, m) /\ hash[x][m].enumerable
                             /\ t = <<i, "hash", m>>
         \/ \E m \in Names : /\ hash[x][m] = None /\ Shared[x][m] # None
                             /\ ~ExistInProto(o, i, m) /\ Shared[x][m].enumerable
                             /\ t = <<i, "shared_hash", m>>
  BY DEF OwnEnumerate
<1> HIDE DEF x
<1>4. OwnItem(o, i, n, t) <=>
         \/ /\ hash[x][n] # None /\ hash[x][n].type # "whiteout"
            /\ ~ExistInProto(o, i, n) /\ hash[x][n].enumerable
            /\ t = <<i, "hash", n>>
         \/ /\ hash[x][n] = None /\ Shared[x][n] # None
            /\ ~ExistInProto(o, i, n) /\ Shared[x][n].enumerable
            /\ t = <<i, "shared_hash", n>>
  <2>1. \A m : <<i, "hash", m>>[3] = m /\ <<i, "shared_hash", m>>[3] = m
    OBVIOUS
  <2> QED BY <1>3, <2>1, Zenon DEF OwnItem
<1>5. Listed(o, i, n) <=>
         /\ Entry(x, n) # None /\ Entry(x, n).type # "whiteout"
         /\ Entry(x, n).enumerable /\ ~ExistInProto(o, i, n)
  BY DEF Listed, Visible, x
<1>6. CASE hash[x][n] # None
  BY <1>4, <1>5, <1>6 DEF Entry, Item, x
<1>7. CASE hash[x][n] = None
  BY <1>2, <1>4, <1>5, <1>7 DEF Entry, Item, x
<1> QED BY <1>6, <1>7

LEMMA Items ==
    ASSUME IInv, NEW o \in Objects, NEW n \in Names
    PROVE  {t \in Enumerate(o, FALSE) : t[3] = n} =
              {Item(o, i, n) : i \in {j \in 0 .. Size : Listed(o, j, n)}}
<1> DEFINE S == {t \in Enumerate(o, FALSE) : t[3] = n}
           T == {Item(o, i, n) : i \in {j \in 0 .. Size : Listed(o, j, n)}}
<1>1. \A t : t \in Enumerate(o, FALSE) <=>
               \E i \in 0 .. Size : Chain(o)[i] # Null /\ t \in OwnEnumerate(o, i, FALSE)
  BY ChainIs DEF Enumerate, Places
<1>2. ASSUME NEW t PROVE t \in S <=> t \in T
  <2>1. t \in S <=> \E i \in 0 .. Size :
                       Chain(o)[i] # Null /\ OwnItem(o, i, n, t)
    BY <1>1 DEF OwnItem
  <2>2. t \in T <=> \E i \in 0 .. Size :
                       Listed(o, i, n) /\ t = Item(o, i, n)
    OBVIOUS
  <2>3. \A i \in 0 .. Size : Listed(o, i, n) => Chain(o)[i] # Null
    BY DEF Listed
  <2>4. \A i \in 0 .. Size : Chain(o)[i] # Null =>
           (OwnItem(o, i, n, t) <=> Listed(o, i, n) /\ t = Item(o, i, n))
    BY OwnItems
  <2> HIDE DEF S, T
  <2> QED BY <2>1, <2>2, <2>3, <2>4
<1> HIDE DEF S, T
<1>3. S = T
  BY <1>2
<1> QED BY <1>3 DEF S, T

(* The pass that counts and the pass that writes find the same items.      *)
LEMMA Counted ==
    ASSUME NEW o, NEW all
    PROVE  EnumerateLength(o, all) = Cardinality(Enumerate(o, all))
<1>1. ASSUME NEW i PROVE OwnEnumerateLength(o, i, all) = OwnEnumerate(o, i, all)
  BY DEF OwnEnumerateLength, OwnEnumerate
<1>2. UNION {OwnEnumerateLength(o, i, all) : i \in Places(o)} = UNION {OwnEnumerate(o, i, all) : i \in Places(o)}
  BY <1>1
<1> QED BY <1>2 DEF EnumerateLength, Enumerate

LEMMA Exact ==
    ASSUME IInv
    PROVE  EnumerationExact
<1> SUFFICES ASSUME NEW o \in Objects, NEW n \in Names
             PROVE  Cardinality({t \in Enumerate(o, FALSE) : t[3] = n}) =
                       IF Holder(o, n) # Null /\ Entry(Holder(o, n), n).enumerable THEN 1 ELSE 0
  BY Counted DEF EnumerationExact
<1> DEFINE at == {j \in 0 .. Size : Listed(o, j, n)}
           S == {t \in Enumerate(o, FALSE) : t[3] = n}
           item(i) == Item(o, i, n)
<1>1. S = {item(i) : i \in at}
  BY Items
<1>2. Size \in Nat
  BY SizeNat
<1>3. at = {} => Cardinality(S) = 0
  <2>1. at = {} => S = {}
    BY <1>1
  <2> HIDE DEF S, at
  <2> QED BY <2>1, FS_EmptySet
<1>4. ASSUME NEW i, at = {i} PROVE Cardinality(S) = 1
  <2>1. S = {item(i)}
    BY <1>1, <1>4
  <2> HIDE DEF S, item
  <2> QED BY <2>1, FS_Singleton
<1>5. CASE /\ Holder(o, n) = Null
           /\ \A j \in 0 .. Size : Chain(o)[j] # Null => ~Visible(Chain(o)[j], n)
  <2>1. at = {}
    BY <1>5 DEF Listed
  <2> HIDE DEF S, at
  <2> QED BY <1>3, <1>5, <2>1 DEF S
<1>6. CASE \E i \in 0 .. Size :
              /\ Holder(o, n) = Chain(o)[i]
              /\ Chain(o)[i] \in Objects /\ Visible(Chain(o)[i], n)
              /\ \A j \in 0 .. i - 1 : Chain(o)[j] # Null /\ ~Visible(Chain(o)[j], n)
  <2>1. PICK i \in 0 .. Size :
              /\ Holder(o, n) = Chain(o)[i]
              /\ Chain(o)[i] \in Objects /\ Visible(Chain(o)[i], n)
              /\ \A j \in 0 .. i - 1 : Chain(o)[j] # Null /\ ~Visible(Chain(o)[j], n)
    BY <1>6
  <2>2. Chain(o)[i] # Null
    BY <2>1, ObjectsAssumption
  <2>3. \A k \in at : k = i
    <3> SUFFICES ASSUME NEW k \in 0 .. Size, Listed(o, k, n) PROVE k = i
      OBVIOUS
    <3>1. ~ (k < i)
      <4>1. k < i => k \in 0 .. i - 1
        BY <1>2
      <4> QED BY <2>1, <4>1 DEF Listed
    <3>2. ~ (i < k)
      <4>1. i < k => i \in 0 .. k - 1
        BY <1>2
      <4> QED BY <2>1, <4>1 DEF Listed, ExistInProto
    <3> QED BY <1>2, <3>1, <3>2
  <2>4. i \in at <=> Entry(Chain(o)[i], n).enumerable
    BY <2>1, <2>2 DEF Listed, ExistInProto
  <2>5. at = IF Entry(Holder(o, n), n).enumerable THEN {i} ELSE {}
    <3> HIDE DEF at
    <3> QED BY <2>1, <2>3, <2>4
  <2> HIDE DEF S, at
  <2>6. Cardinality(S) = IF Entry(Holder(o, n), n).enumerable THEN 1 ELSE 0
    BY <1>3, <1>4, <2>5
  <2> QED BY <2>1, <2>2, <2>6 DEF S
<1> QED BY <1>5, <1>6, HolderIs DEF IInv, TypeOK

(* A name is listed once if a lookup finds an enumerable property of that  *)
(* name, and otherwise not: what is deleted, shadowed, copied or shared    *)
(* makes no difference to njs_object_enumerate().                          *)
THEOREM EnumerationExactTheorem == Spec => []EnumerationExact
BY Exact, Invariance, PTL

=============================================================================
