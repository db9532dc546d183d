---------------------------- MODULE PropertyMap ----------------------------
(***************************************************************************)
(* The objects of ECMAScript 5.1, chapter 8.12, as a script in strict mode *)
(* sees them: each object is a map from names to properties and has a      *)
(* prototype.  There is one table per object, nothing is copied, and a     *)
(* property that was deleted leaves nothing behind.                        *)
(*                                                                         *)
(* A property and a descriptor are records with the same fields; a field   *)
(* that one does not have is Absent.  The variable result is what the last *)
(* operation returned: a value, the function that it called, "ok" or       *)
(* "TypeError".                                                            *)
(***************************************************************************)
EXTENDS Naturals, FiniteSets

CONSTANTS Objects, Names, Data, Functions, Descriptors,
          Null, None, Absent, Undefined

VARIABLES own,    \* own[o][n]: the property of o named n, or None
          proto,  \* the prototype of each object, or Null
          result

vars == <<own, proto, result>>

IsData(d)     == d.value # Absent \/ d.writable # Absent
IsAccessor(d) == d.get # Absent \/ d.set # Absent

(* The objects that a lookup visits from o on.                             *)
Chain(o) ==
    LET up[i \in 0..Cardinality(Objects)] ==
            IF i = 0 THEN o ELSE IF up[i - 1] = Null THEN Null ELSE proto[up[i - 1]]
    IN  up

(* The first of them that has a property n, or Null.                       *)
Holder(o, n) ==
    LET up == Chain(o)
        at == {i \in DOMAIN up : up[i] # Null /\ own[up[i]][n] # None}
    IN  IF at = {} THEN Null
        ELSE up[CHOOSE i \in at : \A j \in at : i <= j]

Returns(r)     == result' = r /\ UNCHANGED <<own, proto>>
Becomes(o, n, p) == own' = [own EXCEPT ![o][n] = p] /\ result' = "ok" /\ UNCHANGED proto

Default(x, d) == IF x = Absent THEN d ELSE x

(* 8.12.3 [[Get]].                                                         *)
Get(o, n) ==
    LET h == Holder(o, n)
        p == own[h][n]
    IN  Returns(IF h = Null THEN Undefined
                ELSE IF IsData(p) THEN p.value ELSE p.get)

(* 8.12.5 [[Put]].                                                         *)
Put(o, n, v) ==
    LET h == Holder(o, n)
        p == own[h][n]
    IN  IF h = Null
        THEN Becomes(o, n, [value |-> v, writable |-> TRUE,
                            get |-> Absent, set |-> Absent,
                            enumerable |-> TRUE, configurable |-> TRUE])
        ELSE IF IsAccessor(p)
        THEN Returns(IF p.set = Undefined THEN "TypeError" ELSE p.set)
        ELSE IF ~p.writable THEN Returns("TypeError")
        ELSE IF h = o THEN Becomes(o, n, [p EXCEPT !.value = v])
        ELSE Becomes(o, n, [value |-> v, writable |-> TRUE,
                            get |-> Absent, set |-> Absent,
                            enumerable |-> TRUE, configurable |-> TRUE])

(* 8.12.7 [[Delete]].                                                      *)
Delete(o, n) ==
    IF own[o][n] = None THEN Returns("ok")
    ELSE IF own[o][n].configurable THEN Becomes(o, n, None)
    ELSE Returns("TypeError")

(* What a new property that d describes is.                                *)
Complete(d) ==
    IF IsAccessor(d)
    THEN [value |-> Absent, writable |-> Absent,
          get |-> Default(d.get, Undefined), set |-> Default(d.set, Undefined),
          enumerable |-> Default(d.enumerable, FALSE),
          configurable |-> Default(d.configurable, FALSE)]
    ELSE [value |-> Default(d.value, Undefined),
          writable |-> Default(d.writable, FALSE),
          get |-> Absent, set |-> Absent,
          enumerable |-> Default(d.enumerable, FALSE),
          configurable |-> Default(d.configurable, FALSE)]

(* 8.12.9 [[DefineOwnProperty]], steps 7 to 11: may d be applied to p?     *)
Allowed(p, d) ==
    \/ p.configurable
    \/ /\ d.configurable # TRUE
       /\ d.enumerable \in {Absent, p.enumerable}
       /\ IsData(d) => /\ IsData(p)
                       /\ \/ p.writable
                          \/ d.writable # TRUE /\ d.value \in {Absent, p.value}
       /\ IsAccessor(d) => /\ IsAccessor(p)
                           /\ d.get \in {Absent, p.get}
                           /\ d.set \in {Absent, p.set}

(* Step 12, and step 9 when a data property becomes an accessor or back.   *)
Merge(p, d) ==
    LET converted == (IsData(d) /\ IsAccessor(p)) \/ (IsAccessor(d) /\ IsData(p))
        attributes == [d EXCEPT !.enumerable = Default(@, p.enumerable),
                                !.configurable = Default(@, p.configurable)]
    IN  IF converted THEN Complete(attributes)
        ELSE [f \in DOMAIN p |-> Default(d[f], p[f])]

Define(o, n, d) ==
    IF IsData(d) /\ IsAccessor(d) THEN Returns("TypeError")
    ELSE IF own[o][n] = None THEN Becomes(o, n, Complete(d))
    ELSE IF Allowed(own[o][n], d) THEN Becomes(o, n, Merge(own[o][n], d))
    ELSE Returns("TypeError")

(* Assignment to __proto__.                                                *)
SetPrototype(o, p) ==
    IF p # Null /\ \E i \in DOMAIN Chain(p) : Chain(p)[i] = o
    THEN Returns("TypeError")
    ELSE proto' = [proto EXCEPT ![o] = p] /\ result' = "ok" /\ UNCHANGED own

Next ==
    \E o \in Objects :
        \/ \E n \in Names :
              \/ Get(o, n)
              \/ \E v \in Data : Put(o, n, v)
              \/ Delete(o, n)
              \/ \E d \in Descriptors : Define(o, n, d)
        \/ \E p \in Objects \cup {Null} : SetPrototype(o, p)

=============================================================================
