--------------------------- MODULE MCInterpreter ---------------------------
(* Programs for Interpreter: try statements nested in each other's parts,  *)
(* in two loops, and calls of a function that tries, returns or throws.    *)
EXTENDS Interpreter, Generator

Leaves(p) == {Step(p), Throw(p), Return(p), Break(""), Continue("")}
Outs(p)   == Leaves(p) \cup {Break("a"), Continue("a")}

Tries(bodies, catches, finallys) ==
    {Try(b, c, f) : b \in bodies, c \in catches, f \in finallys}
Legal(s) == s.catch # None \/ s.finally # None
TriesOf(L(_)) ==
    {s \in Tries(L(1), L(2) \cup {None}, L(3) \cup {None}) : Legal(s)}

Shallow == TriesOf(Leaves)
Nested ==
    Tries(Shallow, Leaves(4) \cup {None}, Leaves(5) \cup {None})
        \cup Tries({Throw(4), Return(4)}, Shallow, Leaves(5) \cup {None})
        \cup Tries(Leaves(4), Leaves(5) \cup {None}, Shallow)

(* for (..) { try .. }, and a: for (..) { for (..) { try .. } step }       *)
InOneLoop  == {Both(For("a", s), Step(9)) : s \in {n \in Nested : Legal(n)}}
InTwoLoops == {For("a", Both(For("b", s), Step(8))) : s \in TriesOf(Outs)}
InABlock   == {Both(Block("a", Both(s, Step(8))), Step(9)) :
                  s \in TriesOf(LAMBDA p : {Step(p), Throw(p), Return(p), Break("a")})}

(* for (..) { step; try ..; step }, which does something else the second time.   *)
Once(p)    == {Step(p), Return(p), If(2, Throw(p)), If(2, Return(p)), If(2, Break("")),
               If(2, Continue(""))}
Varying    == {Both(For("a", Both(Both(Step(7), s), Step(8))), Step(9)) : s \in TriesOf(Once)}

Ending(p)  == {Step(p), Throw(p), Return(p)}
Callees    == Ending(1) \cup TriesOf(Ending)
Callers    ==
    {Try(Both(Call(how, arg), Step(6)), c, f) :
        how \in {"lambda", "native", "apply", "method"}, arg \in {None, Throw(5), Call("lambda", None)},
        c \in {None, Step(7), Return(7)}, f \in {None, Step(8), Throw(8)}}

MCPrograms ==
    {<<s, Step(1)>> : s \in InOneLoop \cup InTwoLoops \cup InABlock \cup Varying}
        \cup {<<Both(s, Step(9)), f>> : s \in {c \in Callers : Legal(c)}, f \in Callees}

(* try { try .. } catch { step }, in a loop.                               *)
NestedPrograms ==
    {<<Both(For("a", s), Step(9)), Step(1)>> : s \in Tries(Shallow, {Step(4)}, {None})}

(* The code that is generated for two functions, and what they shall do.   *)
Generated(p) == [code |-> <<Generate(p[1]), Generate(p[2])>>,
                 meant |-> Run(p[1], p[2], <<>>, FALSE)]

=============================================================================
