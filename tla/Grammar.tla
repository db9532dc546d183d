------------------------------ MODULE Grammar -------------------------------
(***************************************************************************)
(* Syntax trees of JavaScript and the texts they stand for.  A node has an *)
(* operator and its parts; a name, a literal or a word is a node without   *)
(* parts, Nil stands for a part that is left out.  TextOf gives the text of *)
(* a tree with as few parentheses as the levels of the standard's grammar  *)
(* allow, and with every semicolon but the last one of a block.  Nothing   *)
(* here is taken from the parser, which has to read these texts back.      *)
(***************************************************************************)
EXTENDS Integers, Sequences, FiniteSets
LOCAL INSTANCE SequencesExt

Node(op, of) == [op |-> op, of |-> of]
Atom(token)  == Node(token, <<>>)
Nil          == Atom("")

Names    == {"a", "b", "f", "x", "y", "get", "set", "__proto__"}
Numbers  == {"1", "2"}
Strings  == {"'s'", "'__proto__'"}

(* The binary operators, from the loosest to the tightest.                 *)
BinaryLevels ==
    << {"||"}, {"&&"}, {"|"}, {"^"}, {"&"}, {"==", "!=", "===", "!=="},
       {"<", "<=", ">", ">=", "in", "instanceof"}, {"<<", ">>", ">>>"}, {"+", "-"}, {"*", "/", "%"} >>

AssignOps == {"=", "+=", "-=", "*=", "**=", "/=", "%=", "<<=", ">>=", ">>>=", "&=", "^=", "|="}
UnaryOps  == {"+", "-", "!", "~", "typeof", "void", "delete"}
Negative  == [n \in Numbers |-> IF n = "1" THEN "-1" ELSE "-2"]

Comma == 0      Assign == 1     Cond == 2       Power == 13     Prefix == 14
Update == 15    CallLevel == 16 Member == 17    Primary == 18

LevelOf(op) == CHOOSE n \in 1 .. Len(BinaryLevels) : op \in BinaryLevels[n]

IsBinary(t) == Len(t.of) = 2 /\ \E n \in 1 .. Len(BinaryLevels) : t.op \in BinaryLevels[n]

RECURSIVE Level(_)
Level(t) ==
    IF t.op = "," THEN Comma
    ELSE IF t.op \in AssignOps \union {"=>"} THEN Assign
    ELSE IF t.op = "?" THEN Cond
    ELSE IF IsBinary(t) THEN 2 + LevelOf(t.op)
    ELSE IF t.op = "**" THEN Power
    ELSE IF (Len(t.of) = 1 /\ t.op \in UnaryOps) \/ t.op \in {Negative[n] : n \in Numbers} THEN Prefix
    ELSE IF t.op \in {"++", "--", "post++", "post--"} THEN Update
    ELSE IF t.op = "call" THEN CallLevel
    ELSE IF t.op = "new" THEN Member
    ELSE IF t.op \in {".", "index", "tag"} THEN IF Level(t.of[1]) = CallLevel THEN CallLevel ELSE Member
    ELSE Primary

(* The parts of a list, put together with commas.                          *)
Listed(texts) ==
    FoldLeft(LAMBDA all, i : all \o (IF i = 1 THEN <<>> ELSE <<",">>) \o texts[i], <<>>, [i \in DOMAIN texts |-> i])

Parenthesized(text) == <<"(">> \o text \o <<")">>

(* The text of an expression or a statement in its place.                  *)
RECURSIVE Text(_, _)
ExprText(t) == Text("expression", t)
StmtText(t) == Text("statement", t)

Within(t, level) == IF Level(t) < level THEN Parenthesized(ExprText(t)) ELSE ExprText(t)

(* An expression that may not begin like a block or a declaration.         *)
Guarded(t, level, words) ==
    LET text == Within(t, level) IN IF Head(text) \in words THEN Parenthesized(text) ELSE text

Operands(ts) == Listed([i \in DOMAIN ts |-> Within(ts[i], Assign)])

(* The end of a statement: a semicolon that may go before the end of a     *)
(* block or of the text.                                                   *)
Soft == "; or }"

Settled(text) ==
    FoldLeft(LAMBDA all, i :
                 IF text[i] # Soft THEN Append(all, text[i])
                 ELSE IF i = Len(text) \/ text[i + 1] = "}" THEN all ELSE Append(all, ";"),
             <<>>, [i \in DOMAIN text |-> i])

Block(ts) == <<"{">> \o FlattenSeq([i \in DOMAIN ts |-> StmtText(ts[i])]) \o <<"}">>

ReturnNothing == Node("return", <<Nil>>)

(* A function returns at its end, and that is not written down.            *)
Body(b) ==
    LET n == Len(b.of) IN Block(IF b.of[n] = ReturnNothing THEN SubSeq(b.of, 1, n - 1) ELSE b.of)

Parameters(t) == Listed([i \in DOMAIN t.of |-> IF t.of[i].op = "..." THEN <<"...", t.of[i].of[1].op>> ELSE <<t.of[i].op>>])

Lambda(t) == Parenthesized(Parameters(t.of[2])) \o Body(t.of[3])

Key(k) == IF k.op = "computed" THEN <<"[">> \o Within(k.of[1], Assign) \o <<"]">> ELSE <<k.op>>

PropertyText(p) ==
    IF p.op \in {"get", "set"} THEN <<p.op>> \o Key(p.of[1]) \o Lambda(p)
    ELSE IF p.op = "method" THEN Key(p.of[1]) \o Lambda(p)
    ELSE IF p.of[1] = p.of[2] /\ p.of[1].op \in Names THEN Key(p.of[1])
    ELSE Key(p.of[1]) \o <<":">> \o Within(p.of[2], Assign)

ItemsText(ts) ==
    Listed([i \in DOMAIN ts |-> IF ts[i] = Nil THEN <<>> ELSE Within(ts[i], Assign)])
        \o (IF ts # <<>> /\ Last(ts) = Nil THEN <<",">> ELSE <<>>)

TemplateText(ts) ==
    <<"grave">> \o FlattenSeq([i \in DOMAIN ts |-> <<"${">> \o ExprText(ts[i]) \o <<"}">>]) \o <<"grave">>

Expression(t) ==
    LET op == t.op  of == t.of  level == Level(t) IN
    IF of = <<>> /\ op \notin {"object", "array", "grave"}
        THEN IF \E n \in Numbers : op = Negative[n] THEN <<"-", CHOOSE n \in Numbers : op = Negative[n]>> ELSE <<op>>
    ELSE IF op = ","             THEN Within(of[1], Comma) \o <<",">> \o Within(of[2], Assign)
    ELSE IF op \in AssignOps     THEN Within(of[1], CallLevel) \o <<op>> \o Within(of[2], Assign)
    ELSE IF op = "?"             THEN Within(of[1], Cond + 1) \o <<"?">> \o Within(of[2], Assign) \o <<":">> \o Within(of[3], Assign)
    ELSE IF op = "**"            THEN Within(of[1], Update) \o <<op>> \o Within(of[2], Power)
    ELSE IF IsBinary(t)          THEN Within(of[1], level) \o <<op>> \o Within(of[2], level + 1)
    ELSE IF op \in {"++", "--"}  THEN <<op>> \o Within(of[1], CallLevel)
    ELSE IF op = "post++"        THEN Within(of[1], CallLevel) \o <<"++">>
    ELSE IF op = "post--"        THEN Within(of[1], CallLevel) \o <<"--">>
    ELSE IF op \in UnaryOps      THEN <<op>> \o Within(of[1], Prefix)
    ELSE IF op = "call"          THEN Within(of[1], CallLevel) \o Parenthesized(Operands(Tail(of)))
    ELSE IF op = "new"           THEN <<"new">> \o Within(of[1], Member) \o Parenthesized(Operands(Tail(of)))
    ELSE IF op = "."             THEN Within(of[1], CallLevel) \o <<".", of[2].op>>
    ELSE IF op = "index"         THEN Within(of[1], CallLevel) \o <<"[">> \o ExprText(of[2]) \o <<"]">>
    ELSE IF op = "tag"           THEN Within(of[1], CallLevel) \o TemplateText(Tail(of))
    ELSE IF op = "grave"             THEN TemplateText(of)
    ELSE IF op = "array"         THEN <<"[">> \o ItemsText(of) \o <<"]">>
    ELSE IF op = "object"        THEN <<"{">> \o Listed([i \in DOMAIN of |-> PropertyText(of[i])]) \o <<"}">>
    ELSE IF op = "lambda"        THEN <<"function">> \o (IF of[1] = Nil THEN <<>> ELSE <<of[1].op>>) \o Lambda(t)
    ELSE (IF Len(of[1].of) = 1 /\ of[1].of[1].op # "..." THEN Parameters(of[1]) ELSE Parenthesized(Parameters(of[1])))
            \o <<"=>">>
            \o (IF Len(of[2].of) = 1 /\ of[2].of[1].op = "return" /\ of[2].of[1] # ReturnNothing
                THEN Guarded(of[2].of[1].of[1], Assign, {"{"}) ELSE Body(of[2]))

(* Nothing between the semicolons of a "for", or an expression there.      *)
Part(t) == IF t = Nil THEN <<>> ELSE ExprText(t)

Declaration(d) == ExprText(d.of[1]) \o (IF d.of[2] = Nil THEN <<>> ELSE <<"=">> \o Within(d.of[2], Assign))

Declarations(t) == <<"var">> \o Listed([i \in DOMAIN t.of |-> Declaration(t.of[i])])

(* "in" in the head of a "for" belongs to the loop, unless it is enclosed. *)
Opened(t) == IF t.op = "var" THEN Declarations(t)
             ELSE IF \E i \in DOMAIN Part(t) : Part(t)[i] = "in" THEN Parenthesized(Part(t)) ELSE Part(t)

Clause(c) ==
    (IF c.op = "case" THEN <<"case">> \o ExprText(c.of[1]) ELSE <<"default">>) \o <<":">>
        \o FlattenSeq([i \in DOMAIN c.of |-> IF i = 1 THEN <<>> ELSE StmtText(c.of[i])])

Printed(t) ==
    LET op == t.op  of == t.of IN
    IF t = Nil THEN <<";">>
    ELSE IF op = "block"  THEN Block(of)
    ELSE IF op = "var"    THEN Declarations(t) \o <<Soft>>
    ELSE IF op = "if"     THEN <<"if">> \o Parenthesized(ExprText(of[1])) \o StmtText(of[2])
                                  \o (IF Len(of) = 3 THEN <<"else">> \o StmtText(of[3]) ELSE <<>>)
    ELSE IF op = "while"  THEN <<"while">> \o Parenthesized(ExprText(of[1])) \o StmtText(of[2])
    ELSE IF op = "do"     THEN <<"do">> \o StmtText(of[1]) \o <<"while">> \o Parenthesized(ExprText(of[2])) \o <<Soft>>
    ELSE IF op = "for"    THEN <<"for", "(">> \o Opened(of[1]) \o <<";">> \o Part(of[2]) \o <<";">> \o Part(of[3])
                                  \o <<")">> \o StmtText(of[4])
    ELSE IF op = "for in" THEN <<"for", "(">> \o ExprText(of[1]) \o <<"in">> \o ExprText(of[2]) \o <<")">> \o StmtText(of[3])
    ELSE IF op = "for var in"
        THEN <<"for", "(", "var">> \o ExprText(of[1]) \o <<"in">> \o ExprText(of[2]) \o <<")">> \o StmtText(of[3])
    ELSE IF op = "switch" THEN <<"switch">> \o Parenthesized(ExprText(of[1]))
                                  \o <<"{">> \o FlattenSeq([i \in DOMAIN Tail(of) |-> Clause(Tail(of)[i])]) \o <<"}">>
    ELSE IF op = "try"    THEN <<"try">> \o Block(of[1].of)
                                  \o (IF of[2] = Nil THEN <<>> ELSE <<"catch", "(", of[2].op, ")">> \o Block(of[3].of))
                                  \o (IF of[4] = Nil THEN <<>> ELSE <<"finally">> \o Block(of[4].of))
    ELSE IF op = "label"  THEN <<of[1].op, ":">> \o StmtText(of[2])
    ELSE IF op \in {"break", "continue", "return", "throw"}
        THEN <<op>> \o (IF of[1] = Nil THEN <<>> ELSE ExprText(of[1])) \o <<Soft>>
    ELSE IF op = "function" THEN <<"function", of[1].op>> \o Lambda(t)
    ELSE Guarded(t, Comma, {"{", "function"}) \o <<Soft>>

Text(sort, t) == IF sort = "expression" THEN Expression(t) ELSE Printed(t)

(* The text of a list of statements, before the semicolons are settled.    *)
Draft(program)  == FlattenSeq([i \in DOMAIN program.of |-> StmtText(program.of[i])])
TextOf(program) == Settled(Draft(program))

=============================================================================
