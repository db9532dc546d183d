------------------------------ MODULE Programs ------------------------------
(***************************************************************************)
(* The texts that the parser is given: the text of every tree that grows   *)
(* in a few steps, with line ends put in and semicolons left out, and      *)
(* every text over a small alphabet that it does not give up before its    *)
(* end.                                                                    *)
(***************************************************************************)
EXTENDS Parser
LOCAL INSTANCE SequencesExt

CONSTANTS Alphabets,      \* sets of tokens, a text is written in one of them
          MaxTokens,      \* the longest of these texts
          MaxSteps,       \* the steps that a tree grows
          Operators       \* the operators of a step but the first

VARIABLES alphabet,       \* the tokens of the text, {} for the text of a tree
          tree,           \* that tree: a list of statements
          steps           \* the steps it has grown

vars == <<text, alphabet, tree, steps>>

A == Atom("a")  B == Atom("b")  F == Atom("f")  X == Atom("x")  Y == Atom("y")

Parameters1 == Node("parameters", <<A>>)
Parameters2 == Node("parameters", <<A, Node("...", <<B>>)>>)
NoParameters == Node("parameters", <<>>)
Returns(e) == Node("body", <<Node("return", <<e>>)>>)
Does(s)    == Node("body", <<s, ReturnNothing>>)

RECURSIVE Deep(_), Words(_), Callee(_)

(* Functions in functions, and the labels of a tree.                       *)
Deep(t) ==
    LET inner == {Deep(t.of[i]) : i \in DOMAIN t.of}
        most  == IF inner = {} THEN 0 ELSE CHOOSE n \in inner : \A m \in inner : m <= n
    IN  IF t.op = "body" THEN most + 1 ELSE most

Words(t) == {t.op} \union UNION {Words(t.of[i]) : i \in DOMAIN t.of}

(* What stands in front of the properties.                                 *)
Callee(t) == IF t.op \in {".", "index", "tag"} THEN Callee(t.of[1]) ELSE t.op

(* "new" takes a call, or a template, that follows its callee for its own: *)
(* these texts mean something else to the parser.                          *)
TakenByNew(t) ==
    \/ t.op \in {".", "index"} /\ Callee(t) = "new"
    \/ t.op \in {".", "index", "tag"} /\ "tag" \in Words(t)

BinaryOps == IF steps = 0 THEN UNION {Levels[n] : n \in DOMAIN Levels} ELSE Operators

(* The expressions around an expression.                                   *)
Around(e) ==
    {Node(op, <<e, B>>) : op \in BinaryOps \union {"**"}}
    \union {Node(op, <<B, e>>) : op \in BinaryOps \union {"**", "=", "+=", "index"}}
    \union {Node(op, <<e>>) : op \in IF IsNumber(e) THEN {"!", "typeof"} ELSE UnaryOps \ IF e.op \in Names THEN {"delete"} ELSE {}}
    \union (IF IsLvalue(e) THEN {Node(op, <<e>>) : op \in {"++", "post++", "post--"}} \union {Node("=", <<e, B>>)} ELSE {})
    \union {Node("?", <<e, A, B>>), Node("?", <<A, e, B>>), Node("?", <<A, B, e>>)}
    \union {Node("call", <<e>>), Node("call", <<e, A, B>>), Node("call", <<F, e>>), Node("new", <<F, A, e>>)}
    \union (IF TakenByNew(e) THEN {} ELSE {Node("new", <<e>>), Node("new", <<e, A>>)})
    \union {Node(".", <<e, X>>), Node(".", <<e, Atom("if")>>), Node("index", <<e, A>>)}
    \union {Node("array", <<e>>), Node("array", <<Nil, e>>), Node("array", <<e, Nil>>)}
    \union {Node("object", <<Node(":", <<X, e>>)>>),
            Node("object", <<Node(":", <<A, A>>), Node(":", <<Node("computed", <<e>>), B>>)>>),
            Node("object", <<Node(":", <<Atom("__proto__"), e>>), Node("method", <<Atom("get"), NoParameters, Returns(e)>>)>>),
            Node("object", <<Node("get", <<Atom("if"), NoParameters, Returns(e)>>), Node("set", <<Atom("1"), Parameters1, Does(e)>>)>>)}
    \union {Node("grave", <<e>>), Node("tag", <<e>>), Node("tag", <<F, B, e>>)}
    \union {Node("lambda", <<F, Parameters2, Returns(e)>>), Node("lambda", <<Nil, NoParameters, Does(e)>>),
            Node("=>", <<Parameters1, Returns(e)>>), Node("=>", <<Parameters2, Does(e)>>)}

Block2(s, t) == Node("block", SelectSeq(<<s, t>>, LAMBDA u : u # Nil))

(* The statements of an expression.  A "for" that does not declare its     *)
(* variable takes "in" for the operator, with its level, and only there.   *)
Statements(e) ==
    {Node("var", <<Node("=", <<A, Nil>>), Node("=", <<B, e>>)>>),
     Node("if", <<e, A>>), Node("while", <<e, Nil>>), Node("do", <<A, e>>), Node("throw", <<e>>),
     Node("for", <<Nil, e, Nil, A>>), Node("for", <<A, Nil, e, Nil>>),
     Node("for", <<Node("var", <<Node("=", <<A, e>>)>>), Nil, Nil, A>>),
     Node("for var in", <<A, e, B>>),
     Node("switch", <<e, Node("case", <<A, B>>), Node("default", <<Nil>>)>>),
     Node("switch", <<A, Node("default", <<Nil, e>>), Node("case", <<e>>)>>),
     Node("try", <<Node("block", <<e>>), X, Node("block", <<>>), Nil>>),
     Node("try", <<Node("block", <<>>), Nil, Nil, Node("block", <<e>>)>>),
     Node("function", <<F, Parameters1, Returns(e)>>)}
    \union (IF e.op = "in" THEN {} ELSE {Node("for", <<e, Nil, Nil, A>>)})
    \union (IF Level(e) <= 2 + LevelOf("in") THEN {} ELSE {Node("for in", <<A, e, B>>)})

(* "else" would go to an "if" at the end of the statement before it.       *)
RECURSIVE LastPart(_)
LastPart(s) ==
    IF s.op \in {"while", "for", "for in", "for var in", "label"} \/ (s.op = "if" /\ Len(s.of) = 3)
    THEN LastPart(Last(s.of)) ELSE s.op

(* The statements around a statement.  An empty one leaves no trace in a   *)
(* list; a function cannot be all there is in a loop; and the parser wants *)
(* no semicolon between "do" and a word that goes on with the statement.   *)
Loops(s) ==
    {Node("if", <<A, s>>), Node("if", <<A, B, s>>), Node("while", <<A, s>>), Node("for", <<Nil, Nil, Nil, s>>), Node("for var in", <<A, B, s>>)}
    \union (IF LastPart(s) = "do" THEN {} ELSE {Node("do", <<s, B>>)})
    \union (IF LastPart(s) \in {"do", "if"} THEN {} ELSE {Node("if", <<A, s, B>>)})

Lists(s) ==
    LET l == SelectSeq(<<s>>, LAMBDA t : t # Nil) IN
    {Block2(s, B), Block2(B, s), Node("try", <<Node("block", l), X, Node("block", l), Node("block", <<>>)>>),
     Node("switch", <<A, Node("case", <<A>> \o l), Node("default", <<Nil, B>>)>>)}
    \union (IF l = <<>> THEN {} ELSE {Node("function", <<F, NoParameters, Does(s)>>)})

(* The parser knows the label of another function, and keeps one of two    *)
(* labels of a statement.                                                  *)
Labelled(s) ==
    IF s \in {Nil} \/ s.op = "label" THEN {}
    ELSE {Node("label", <<l, s>>) : l \in {m \in {X, Y} : ~ \E t \in {s} : m.op \in Words(t)}}
         \union (IF "x" \in Words(s) THEN {}
                 ELSE {Node("label", <<X, Node("while", <<A, Block2(s, Node("break", <<X>>))>>)>>),
                       Node("label", <<X, Node("do", <<Block2(s, Node("continue", <<X>>)), A>>)>>)})

IsStatement(t) ==
    t.op \in {"", "block", "var", "if", "while", "do", "for", "for in", "for var in", "switch", "try", "throw", "label", "function"}

Next1(t) ==
    IF ~IsStatement(t) THEN Around(t) \union Statements(t) \union Labelled(t)
    ELSE Lists(t) \union Labelled(t) \union (IF t.op = "function" THEN {} ELSE Loops(t))

Program(s) == Node("list", SelectSeq(<<s>>, LAMBDA t : t # Nil))

-----------------------------------------------------------------------------

NoTree == Node("none", <<>>)

Init ==
    \/ /\ alphabet = {}
       /\ \/ tree = Program(A) /\ steps = 0
          \/ tree \in {Program(t) : t \in {Atom("1"), Atom("-1"), Atom("'s'"), Atom("this"), Nil}} /\ steps = 1
       /\ text = TextOf(tree)
    \/ alphabet \in Alphabets /\ tree = NoTree /\ text = <<>> /\ steps = 0

Plain == tree # NoTree /\ text = TextOf(tree)

(* The tree becomes a part of a larger one.                                *)
Grow ==
    /\ Plain /\ steps < MaxSteps
    /\ \E s \in Next1(IF tree.of = <<>> THEN Nil ELSE tree.of[1]) :
           tree' = Program(s) /\ text' = TextOf(Program(s))
    /\ steps' = steps + 1
    /\ UNCHANGED alphabet

(* Another statement before or after the one of the tree.                  *)
Extend ==
    /\ Plain /\ Len(tree.of) = 1 /\ steps < MaxSteps
    /\ \E of \in {<<B>> \o tree.of, tree.of \o <<B>>, tree.of \o <<Node("++", <<B>>)>>} :
           tree' = Node("list", of) /\ text' = TextOf(Node("list", of))
    /\ UNCHANGED <<alphabet, steps>>

(* A line ends before a token: not where the standard forbids it, before a *)
(* postfix operator, after a word that may stand alone and before "=>";    *)
(* and not before an arrow function, nor after a property that stands for  *)
(* itself, where the parser does not accept it.                            *)
BreakLine ==
    /\ Plain /\ steps < MaxSteps
    /\ \E i \in 2 .. Len(text) :
        /\ text[i] \in {"++", "--"} => text[i - 1] \notin Names \union {")", "]"}
        /\ text[i - 1] \notin {"return", "break", "continue", "throw"}
        /\ text[i] # "=>"
        /\ "=>" \in Range(text) => text[i] \notin Names \union {"("}
        /\ i > 2 => ~(text[i] \in {",", "}"} /\ text[i - 1] \in Names /\ text[i - 2] \in {"{", ","})
        /\ "grave" \notin Range(text)
        /\ text' = InsertAt(text, i, LineEnd)
    /\ UNCHANGED <<alphabet, tree, steps>>

(* A line end takes the place of a semicolon, when what follows cannot     *)
(* belong to the statement.                                                *)
Openers ==
    Names \union Numbers \union
    {"{", "if", "while", "do", "for", "var", "function", "try", "switch", "throw", "break", "continue", "else",
     "case", "default", "return", "++"}

LeftOut(draft) ==
    \E i \in 1 .. Len(draft) - 1 :
        /\ draft[i] = Soft /\ draft[i + 1] \in Openers
        /\ text' = Settled([draft EXCEPT ![i] = LineEnd])

LeaveOut ==
    /\ Plain
    /\ "=>" \notin Range(text)
    /\ LeftOut(Draft(tree))
    /\ UNCHANGED <<alphabet, tree, steps>>

(* The text gets another token, as long as the parser wants more.          *)
WantsMore(r) == r.ok \/ r.seen > Len(text)

Write ==
    /\ alphabet # {} /\ Len(text) < MaxTokens
    /\ WantsMore(Parse)
    /\ \E token \in alphabet : text' = Append(text, token)
    /\ UNCHANGED <<alphabet, tree, steps>>

Next == Grow \/ Extend \/ BreakLine \/ LeaveOut \/ Write

Spec == Init /\ [][Next]_vars

-----------------------------------------------------------------------------

WithoutLast(s) == Settled([i \in DOMAIN s |-> IF s[i] = ";" THEN Soft ELSE s[i]])

Bare(s) == SelectSeq(s, LAMBDA t : t \notin {"(", ")"})

SameText(again, given) ==
    \/ again = given
    \/ Len(again) < Len(given)
    \/ SubSeq(again, 1, 2) = <<"(", "{">> /\ Len(again) = Len(given) /\ Bare(again) = Bare(given)
    \/ "=>" \in alphabet

RightlyRead(r) ==
    IF tree # NoTree
    THEN IF Deep(tree) > MaxNesting THEN ~r.ok ELSE r.ok /\ r.node = tree
    ELSE r.ok => SameText(WithoutLast(TextOf(r.node)), WithoutLast(text))

(* The parser reads the text of every tree as that tree, whatever lines it *)
(* is put on, and refuses only functions that are too deep in each other.  *)
(* A text that it accepts is, when nothing in it can be left out, the text *)
(* of the tree that it makes of it (an object at the start may have its    *)
(* parentheses around more or less); a tree with a longer text comes only  *)
(* from an arrow function that is taken for an operand.                    *)
ParserAsGrammar == RightlyRead(Parse)

=============================================================================
