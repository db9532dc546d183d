----------------------------- MODULE MCObjects -----------------------------
(***************************************************************************)
(* Three objects and one name for TLC.  "base" stands for a prototype of   *)
(* the language: it has a shared method and nothing else.                  *)
(***************************************************************************)
EXTENDS Objects

CONSTANTS a1, a2, base, v1, f1

AllObjects == {a1, a2, base}
TwoObjects == {a1, base}

Method == Property(v1, TRUE, Absent, Absent, FALSE, TRUE)

SharedBy(objects) ==
    [x \in objects |-> [n \in Names |-> IF x = base THEN Method ELSE None]]
SharedOfAll == SharedBy(AllObjects)
SharedOfTwo == SharedBy(TwoObjects)

PrototypeOfAll == [x \in AllObjects |-> IF x = base THEN Null ELSE base]
PrototypeOfTwo == [x \in TwoObjects |-> IF x = base THEN Null ELSE base]

(* Descriptors of each kind: generic, data, accessor, and one that mixes   *)
(* them; and the attributes that go with them.                             *)
Fields(val, w, g, s) == [value |-> val, writable |-> w, get |-> g, set |-> s]

Kinds == {Fields(Absent, Absent, Absent, Absent), Fields(v1, Absent, Absent, Absent),
          Fields(Absent, FALSE, Absent, Absent), Fields(v1, TRUE, Absent, Absent),
          Fields(Absent, Absent, f1, Absent), Fields(Absent, Absent, Absent, f1),
          Fields(v1, Absent, f1, Absent)}

With(kinds, attributes) ==
    {[value |-> k.value, writable |-> k.writable, get |-> k.get, set |-> k.set,
      enumerable |-> a[1], configurable |-> a[2]] : k \in kinds, a \in attributes}

FewDescriptors == With(Kinds, {<<Absent, Absent>>, <<TRUE, Absent>>})
SomeDescriptors ==
    With(Kinds, {<<Absent, Absent>>, <<TRUE, TRUE>>, <<Absent, FALSE>>})

=============================================================================
