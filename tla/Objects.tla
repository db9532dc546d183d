------------------------------ MODULE Objects ------------------------------
(***************************************************************************)
(* Properties of objects: njs_property_query() and the operations of       *)
(* njs_value.c, njs_object_prop.c and njs_object.c that are built on it.   *)
(*                                                                         *)
(* An object has two tables: hash, its own, and shared_hash, which all     *)
(* clones of a VM read and none may write.  A property of shared_hash is   *)
(* copied to hash when a query finds it.  A deleted property stays in hash *)
(* with the type NJS_WHITEOUT, so that it hides the shared one, and keeps  *)
(* its attributes and its accessors.                                       *)
(*                                                                         *)
(* Values are members of Data, a getter or a setter is a member of         *)
(* Functions, and a call of one is the result that names it.  Absent is    *)
(* both NJS_ATTRIBUTE_UNSET and an invalid value.  Property handlers and   *)
(* the elements of arrays and strings are left out.                        *)
(***************************************************************************)
EXTENDS Naturals, FiniteSets

CONSTANTS Objects, Names, Data, Functions,
          Shared,       \* Shared[o][n]: the property in shared_hash, or None
          Prototype,    \* the prototypes at the start
          Descriptors,  \* the arguments of Object.defineProperty()
          Operations,   \* what scripts do
          Null, None, Absent, Undefined

VARIABLES hash,        \* hash[o][n]: a property, or None
          extensible,  \* the objects whose extensible is 1
          proto,       \* __proto__ of each object, or Null
          result       \* what the last operation returned, threw or called

vars == <<hash, extensible, proto, result>>

-----------------------------------------------------------------------------
(* Properties and descriptors.                                             *)

Property(v, w, g, s, e, c) ==
    [type |-> "property", value |-> v, writable |-> w, getter |-> g,
     setter |-> s, enumerable |-> e, configurable |-> c]

(* njs_object_prop_alloc() with all attributes 1.                          *)
DataProperty(v) == Property(v, TRUE, Absent, Absent, TRUE, TRUE)

(* njs_descriptor_prop(), of a descriptor that it accepts.                 *)
Descriptor(d) ==
    Property(d.value, d.writable, d.get, d.set, d.enumerable, d.configurable)

IsData(p)     == p.writable # Absent \/ p.value # Absent
IsAccessor(p) == p.getter # Absent \/ p.setter # Absent

Flag  == BOOLEAN \cup {Absent}
Value == Data \cup {Undefined, Absent}
Accessor == Functions \cup {Undefined, Absent}

PropertyType ==
    [type : {"property", "whiteout"}, value : Value, writable : Flag,
     getter : Accessor, setter : Accessor,
     enumerable : BOOLEAN, configurable : BOOLEAN]

(* What scripts pass to Object.defineProperty() and can see of a property. *)
PropertyDescriptor ==
    [value : Value, writable : Flag, get : Accessor, set : Accessor,
     enumerable : Flag, configurable : Flag]

(* A property has a value and writable, or else a getter and a setter.     *)
IsComplete(p) ==
    IF IsData(p) THEN p.value # Absent /\ p.writable # Absent
    ELSE p.getter # Absent /\ p.setter # Absent

(* The names of missing things are different from all things.  The shared  *)
(* tables, which njs_builtin.c fills, hold complete properties, and the    *)
(* prototypes that it sets form a tree.                                    *)
ASSUME ObjectsAssumption ==
    /\ IsFiniteSet(Objects) /\ Null \notin Objects
    /\ None \notin PropertyType \cup PropertyDescriptor
    /\ Absent \notin Data \cup Functions \cup BOOLEAN \cup {Undefined}
    /\ Undefined \notin Functions
    /\ Shared \in [Objects -> [Names -> PropertyType \cup {None}]]
    /\ \A o \in Objects, n \in Names : Shared[o][n] # None =>
          Shared[o][n].type = "property" /\ IsComplete(Shared[o][n])
    /\ Prototype \in [Objects -> Objects \cup {Null}]
    /\ \E rank \in [Objects -> 0 .. Cardinality(Objects)] :
          \A o \in Objects : Prototype[o] # Null => rank[Prototype[o]] < rank[o]
    /\ Descriptors \subseteq PropertyDescriptor

-----------------------------------------------------------------------------
(* njs_object_property_query().                                            *)

Entry(o, n)   == IF hash[o][n] # None THEN hash[o][n] ELSE Shared[o][n]
Visible(o, n) == Entry(o, n) # None /\ Entry(o, n).type # "whiteout"

(* The objects that the walk along __proto__ visits from o on.             *)
Chain(o) ==
    LET up[i \in 0..Cardinality(Objects)] ==
            IF i = 0 THEN o ELSE IF up[i - 1] = Null THEN Null ELSE proto[up[i - 1]]
    IN  up

Holder(o, n) ==
    LET up == Chain(o)
        at == {i \in DOMAIN up : up[i] # Null /\ Visible(up[i], n)}
    IN  IF at = {} THEN Null ELSE up[CHOOSE i \in at : \A j \in at : i <= j]

(* pq->own_whiteout is set.                                                *)
OwnWhiteout(o, n) == hash[o][n] # None /\ hash[o][n].type = "whiteout"

(* njs_prop_private_copy(): no change where the property is private.       *)
PrivateCopy(h, n) ==
    IF h = Null THEN hash ELSE [hash EXCEPT ![h][n] = Entry(h, n)]

Query(h, n) == hash' = PrivateCopy(h, n)

Returns(r) == result' = r /\ UNCHANGED <<extensible, proto>>

Store(o, n, p) == hash' = [hash EXCEPT ![o][n] = p] /\ Returns("ok")

-----------------------------------------------------------------------------
(* njs_value_property().                                                   *)
Get(o, n) ==
    LET h == Holder(o, n)
        p == Entry(h, n)
    IN  /\ "get" \in Operations
        /\ Query(h, n)
        /\ Returns(IF h = Null THEN Undefined
                   ELSE IF IsData(p) THEN p.value ELSE p.getter)

(* What njs_value_property_set() adds: a new property, or one that was     *)
(* deleted and comes back, with its getter and setter.                     *)
Added(o, n, v) ==
    IF OwnWhiteout(o, n)
    THEN [hash[o][n] EXCEPT !.type = "property", !.value = v, !.writable = TRUE,
                            !.enumerable = TRUE, !.configurable = TRUE]
    ELSE DataProperty(v)

MayAddAnywhere(o, n) == TRUE                                     \* mutant

MayAdd(o, n) == OwnWhiteout(o, n) \/ o \in extensible

(* njs_value_property_set().                                               *)
Set(o, n, v) ==
    LET h == Holder(o, n)
        p == Entry(h, n)
        copied == PrivateCopy(h, n)
    IN  /\ "set" \in Operations
        /\ IF h # Null /\ IsData(p) /\ ~p.writable
           THEN hash' = copied /\ Returns("TypeError")
           ELSE IF h # Null /\ ~IsData(p)
           THEN /\ hash' = copied
                /\ Returns(IF p.setter \in Functions THEN p.setter ELSE "TypeError")
           ELSE IF h = o
           THEN hash' = [copied EXCEPT ![o][n].value = v] /\ Returns("ok")
           ELSE IF MayAdd(o, n)
           THEN hash' = [copied EXCEPT ![o][n] = Added(o, n, v)] /\ Returns("ok")
           ELSE hash' = copied /\ Returns("TypeError")

DeleteRemoves(o, n) ==                                           \* mutant
    LET p == Entry(o, n)
    IN  /\ "delete" \in Operations
        /\ IF ~Visible(o, n) THEN UNCHANGED hash /\ Returns("ok")
           ELSE IF p.configurable THEN Store(o, n, None)
           ELSE Query(o, n) /\ Returns("TypeError")

(* njs_value_property_delete().                                            *)
Delete(o, n) ==
    LET p == Entry(o, n)
    IN  /\ "delete" \in Operations
        /\ IF ~Visible(o, n) THEN UNCHANGED hash /\ Returns("ok")
           ELSE IF p.configurable
           THEN Store(o, n, [p EXCEPT !.type = "whiteout", !.value = Absent])
           ELSE Query(o, n) /\ Returns("TypeError")

-----------------------------------------------------------------------------
(* njs_object_define_property() and njs_object_prop_define().              *)

Default(x, d) == IF x = Absent THEN d ELSE x

Complete(d) ==
    LET default == IF IsAccessor(d)
                   THEN Property(Absent, Absent, Undefined, Undefined, FALSE, FALSE)
                   ELSE Property(Undefined, FALSE, Absent, Absent, FALSE, FALSE)
    IN  [f \in DOMAIN d |-> Default(d[f], default[f])]

Generic(d) == ~IsData(d) /\ ~IsAccessor(d)

RejectsAttributesOnly(p, d) ==                                   \* mutant
    /\ ~p.configurable
    /\ \/ d.configurable = TRUE
       \/ d.enumerable \notin {Absent, p.enumerable}

(* "Cannot redefine property".                                             *)
Rejects(p, d) ==
    /\ ~p.configurable
    /\ \/ d.configurable = TRUE
       \/ d.enumerable \notin {Absent, p.enumerable}
       \/ ~Generic(d) /\ IsData(p) # IsData(d)
       \/ /\ IsData(p) /\ IsData(d) /\ ~p.writable
          /\ d.writable = TRUE \/ d.value \notin {Absent, p.value}
       \/ /\ ~IsData(p) /\ IsAccessor(d)
          /\ d.getter \notin {Absent, p.getter} \/ d.setter \notin {Absent, p.setter}

ConvertedBare(p, d) ==                                           \* mutant
    IF Generic(d) \/ IsData(p) = IsData(d) THEN p
    ELSE [p EXCEPT !.value = Absent, !.writable = Absent,
                   !.getter = Absent, !.setter = Absent]

(* The property before the fields of d are assigned to it.                 *)
Converted(p, d) ==
    IF Generic(d) \/ IsData(p) = IsData(d) THEN p
    ELSE IF IsData(p)
    THEN [p EXCEPT !.getter = Undefined, !.setter = Undefined,
                   !.value = Absent, !.writable = Absent]
    ELSE [p EXCEPT !.value = Undefined, !.writable = FALSE,
                   !.getter = Absent, !.setter = Absent]

Redefined(p, d) == [f \in DOMAIN p |-> Default(d[f], Converted(p, d)[f])]

DefineProperty(o, n, d) ==
    LET new == Descriptor(d)
        p == Entry(o, n)
        found == Visible(o, n)
    IN  /\ "define" \in Operations
        /\ IF o \notin extensible THEN UNCHANGED hash /\ Returns("TypeError")
           ELSE IF found /\ ((IsData(new) /\ IsAccessor(new)) \/ Rejects(p, new))
           THEN Query(o, n) /\ Returns("TypeError")
           ELSE IF IsData(new) /\ IsAccessor(new)
           THEN UNCHANGED hash /\ Returns("TypeError")
           ELSE Store(o, n, IF found THEN Redefined(p, new) ELSE Complete(new))

-----------------------------------------------------------------------------
(* Object.freeze(), Object.seal() and Object.preventExtensions(), which    *)
(* visit hash only, and what it holds of deleted properties too.           *)

RestrictObject(op, o, F(_)) ==
    /\ op \in Operations
    /\ extensible' = extensible \ {o}
    /\ hash' = [hash EXCEPT ![o] =
                   [n \in Names |-> IF @[n] = None THEN None ELSE F(@[n])]]
    /\ result' = "ok"
    /\ UNCHANGED proto

Frozen(p) == [p EXCEPT !.configurable = FALSE,
                       !.writable = IF IsAccessor(p) THEN @ ELSE FALSE]
Sealed(p) == [p EXCEPT !.configurable = FALSE]
Same(p)   == p

Freeze(o)            == RestrictObject("freeze", o, Frozen)
Seal(o)              == RestrictObject("seal", o, Sealed)
PreventExtensions(o) == RestrictObject("preventExtensions", o, Same)

IsFrozen(o) ==
    /\ o \notin extensible
    /\ \A n \in Names : hash[o][n] # None =>
          ~hash[o][n].configurable /\ (IsData(hash[o][n]) => ~hash[o][n].writable)

SetProtoDirect(o, p) ==                                          \* mutant
    /\ "proto" \in Operations
    /\ IF o \notin extensible THEN result' = "ok" /\ UNCHANGED proto
       ELSE IF p = o THEN result' = "TypeError" /\ UNCHANGED proto
       ELSE result' = "ok" /\ proto' = [proto EXCEPT ![o] = p]
    /\ UNCHANGED <<hash, extensible>>

(* njs_object_prototype_proto(): an assignment to __proto__, which does    *)
(* nothing on an object that is not extensible.                            *)
SetProto(o, p) ==
    LET cyclic == p # Null /\ \E i \in DOMAIN Chain(p) : Chain(p)[i] = o
    IN  /\ "proto" \in Operations
        /\ IF p = proto[o] \/ o \notin extensible
           THEN result' = "ok" /\ UNCHANGED proto
           ELSE IF cyclic THEN result' = "TypeError" /\ UNCHANGED proto
           ELSE result' = "ok" /\ proto' = [proto EXCEPT ![o] = p]
        /\ UNCHANGED <<hash, extensible>>

-----------------------------------------------------------------------------
(* njs_object_enumerate(): a first pass counts the items that the list has *)
(* room for, a second one writes them.  An item is an object of the chain  *)
(* (by its place), the table that it comes from and its name.              *)

ExistInProtoPrivate(o, i, n) ==                                  \* mutant
    \E j \in 0..(i - 1) : hash[Chain(o)[j]][n] # None /\ Visible(Chain(o)[j], n)

ExistInProto(o, i, n) ==
    \E j \in 0..(i - 1) : Visible(Chain(o)[j], n)

OwnEnumerate(o, i, all) ==
    LET x == Chain(o)[i]
        listed(p, n) == ~ExistInProto(o, i, n) /\ (p.enumerable \/ all)
    IN       {<<i, "hash", n>> : n \in {m \in Names :
                 /\ hash[x][m] # None /\ hash[x][m].type # "whiteout"
                 /\ listed(hash[x][m], m)}}
        \cup {<<i, "shared_hash", n>> : n \in {m \in Names :
                 /\ hash[x][m] = None /\ Shared[x][m] # None
                 /\ listed(Shared[x][m], m)}}

OwnEnumerateLength(o, i, all) ==
    LET x          == Chain(o)[i]
        inHash(n)  == /\ hash[x][n] # None /\ ~ExistInProto(o, i, n)
                      /\ hash[x][n].type # "whiteout" /\ (hash[x][n].enumerable \/ all)
        inShared(n) == /\ Shared[x][n] # None /\ hash[x][n] = None
                       /\ ~ExistInProto(o, i, n) /\ (Shared[x][n].enumerable \/ all)
    IN  ({i} \X {"hash"} \X {n \in Names : inHash(n)}) \cup ({i} \X {"shared_hash"} \X {n \in Names : inShared(n)})

Places(o) == {j \in DOMAIN Chain(o) : Chain(o)[j] # Null}

EnumerateLength(o, all) == Cardinality(UNION {OwnEnumerateLength(o, i, all) : i \in Places(o)})
Enumerate(o, all)       == UNION {OwnEnumerate(o, i, all) : i \in Places(o)}

-----------------------------------------------------------------------------
Init ==
    /\ hash = [o \in Objects |-> [n \in Names |-> None]]
    /\ extensible = Objects
    /\ proto = Prototype
    /\ result = "ok"

Next ==
    \E o \in Objects :
        \/ \E n \in Names :
              \/ Get(o, n)
              \/ \E v \in Data : Set(o, n, v)
              \/ Delete(o, n)
              \/ \E d \in Descriptors : DefineProperty(o, n, d)
        \/ Freeze(o)
        \/ Seal(o)
        \/ PreventExtensions(o)
        \/ \E p \in Objects \cup {Null} : SetProto(o, p)

Spec == Init /\ [][Next]_vars

-----------------------------------------------------------------------------
(* The tables hold properties.  What a query finds is complete: it has a   *)
(* value and writable, or else a getter and a setter, whichever conversion *)
(* or copy it went through.                                                *)
TypeOK ==
    /\ hash \in [Objects -> [Names -> PropertyType \cup {None}]]
    /\ extensible \subseteq Objects
    /\ proto \in [Objects -> Objects \cup {Null}]
    /\ result \in Data \cup Functions \cup {"ok", "TypeError", Undefined}
    /\ \A o \in Objects, n \in Names : Visible(o, n) => IsComplete(Entry(o, n))

(* Assignments to __proto__ never close a chain of prototypes: the walks   *)
(* of njs_object_property_query() and njs_object_enumerate_object() end.   *)
ChainsEnd == \A o \in Objects : Chain(o)[Cardinality(Objects)] = Null

(* njs_object_enumerate() lists a name once if a lookup finds an           *)
(* enumerable property of that name, and otherwise not: what is deleted,   *)
(* shadowed, copied or shared makes no difference.  The list has as much   *)
(* room as there are items, with or without the ones not enumerable.       *)
EnumerationExact ==
    /\ \A o \in Objects, all \in BOOLEAN : EnumerateLength(o, all) = Cardinality(Enumerate(o, all))
    /\ \A o \in Objects, n \in Names :
           LET h == Holder(o, n)
               expected == h # Null /\ Entry(h, n).enumerable
           IN  Cardinality({t \in Enumerate(o, FALSE) : t[3] = n}) =
                   IF expected THEN 1 ELSE 0

(* What an object has that is not configurable it keeps as it is, whatever *)
(* operation comes: a lookup finds the property, with the same attributes  *)
(* and accessors, and the same value if it is read-only.                   *)
Kept(p, q) ==
    /\ ~q.configurable
    /\ q.enumerable = p.enumerable
    /\ IsData(q) = IsData(p)
    /\ IsData(p) /\ ~p.writable => ~q.writable /\ q.value = p.value
    /\ ~IsData(p) => q.getter = p.getter /\ q.setter = p.setter

NonConfigurableStays ==
    [][\A o \in Objects, n \in Names :
           Visible(o, n) /\ ~Entry(o, n).configurable
               => Visible(o, n)' /\ Kept(Entry(o, n), Entry(o, n)')]_vars

(* An object that is not extensible gains no name that it never had, also  *)
(* by an assignment that a prototype would have allowed.                   *)
NeverGainsNewNames ==
    [][\A o \in Objects \ extensible, n \in Names :
           Entry(o, n) = None => Entry(o, n)' = None]_vars

(* As long as every object is extensible, the two tables, the copies and   *)
(* the deleted properties cannot be told from the objects of ECMAScript.   *)
View(o, n) ==
    LET p == Entry(o, n)
        data == IsData(p)
    IN  IF ~Visible(o, n) THEN None
        ELSE [value |-> IF data THEN p.value ELSE Absent,
              writable |-> IF data THEN p.writable ELSE Absent,
              get |-> IF data THEN Absent ELSE p.getter,
              set |-> IF data THEN Absent ELSE p.setter,
              enumerable |-> p.enumerable, configurable |-> p.configurable]

ECMAScript == INSTANCE PropertyMap
                  WITH own <- [o \in Objects |-> [n \in Names |-> View(o, n)]]

ImplementsPropertyMap ==
    [][extensible = Objects /\ extensible' = Objects => ECMAScript!Next]_(ECMAScript!vars)

(* "var o = Object.preventExtensions({a:1}); o.b = 1" is a TypeError,      *)
(* "Cannot add property "b", object is not extensible": an object that is  *)
(* not extensible gains no property.                                       *)
NonExtensibleNeverGrows ==
    [][\A o \in Objects \ extensible, n \in Names :
           ~Visible(o, n) => ~Visible(o, n)']_vars

(* "var o = Object.freeze({a:1}); Object.isFrozen(o)" is true: every       *)
(* object is frozen after Object.freeze().                                 *)
FreezeMakesFrozen == [][\A o \in Objects : Freeze(o) => IsFrozen(o)']_vars

=============================================================================
