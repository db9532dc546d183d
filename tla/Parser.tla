------------------------------- MODULE Parser -------------------------------
(***************************************************************************)
(* The parser (njs_parser.c, njs_parser_expression.c,                      *)
(* njs_parser_terminal.c) with the token queue of the lexer.  It goes down *)
(* the levels of expressions one token at a time; the tree it builds, its  *)
(* place in the text and what it remembers of the tokens are a record that *)
(* every operator takes and returns.                                       *)
(***************************************************************************)
EXTENDS Grammar
LOCAL INSTANCE SequencesExt
LOCAL INSTANCE FiniteSetsExt

CONSTANT MaxNesting       \* functions in functions: NJS_MAX_NESTING

VARIABLE text             \* the tokens that the parser reads

End     == "end of text"
LineEnd == "\n"

Keywords ==
    {"null", "true", "this", "eval", "in", "typeof", "instanceof", "void", "new", "delete", "var", "if", "else",
     "while", "do", "for", "break", "continue", "switch", "case", "default", "function", "return", "try",
     "catch", "finally", "throw"}

References == Names \union {"this", "null", "eval"}
Literals   == Numbers \union Strings

At(i) == IF i > Len(text) THEN End ELSE text[i]

(* The token after the one at i.                                           *)
After(i) == Min({j \in i + 1 .. Len(text) + 1 : At(j) # LineEnd} \union {Len(text) + 1})

Token(q) == IF ~q.ok THEN "none" ELSE IF q.semicolon THEN ";" ELSE At(q.at)

LineBefore(q) == q.at > 1 /\ At(q.at - 1) = LineEnd

Failed(q) == [q EXCEPT !.ok = FALSE]

(* The tokens up to "to" are taken from the lexer or looked at.  Names are *)
(* looked up as keywords each time, a keyword only when it is first read:  *)
(* q.keyword tells of the last look-up, whatever tokens came after.        *)
Lexed(q, to) ==
    LET words == {i \in q.at + 1 .. to : At(i) \in Names \/ (At(i) \in Keywords /\ i > q.seen)}
    IN  [q EXCEPT !.seen = Max({@, to}),
                  !.keyword = IF words = {} THEN @ ELSE At(Max(words)) \in Keywords]

Advanced(q, to) == [Lexed(q, to) EXCEPT !.at = to]

(* The next token; after a semicolon that the parser put in, the token     *)
(* that it has put back.                                                   *)
Advance(q) ==
    IF ~q.ok THEN q
    ELSE IF q.semicolon THEN [q EXCEPT !.semicolon = FALSE]
    ELSE Advanced(q, After(q.at))

(* The next token, which may be the end of the line.                       *)
AdvanceInLine(q) == IF q.ok THEN Advanced(q, q.at + 1) ELSE q

Match(q, token) == IF Token(q) = token THEN Advance(q) ELSE Failed(q)

Made(q, op, of) == [q EXCEPT !.node = Node(op, of)]

IsLvalue(t) == (t.of = <<>> /\ t.op \in Names) \/ t.op \in {".", "index"}

(* The labels of a scope are gone with it.                                 *)
ScopeEnd(q, begin) == [q EXCEPT !.labels = begin.labels, !.nesting = begin.nesting]

-----------------------------------------------------------------------------
(* Expressions.                                                            *)

RECURSIVE Parsed(_, _), BinaryRest(_, _), AssignmentRest(_), ConditionalRest(_), Exponential(_), Property(_),
          CallExpressionRest(_), Arguments(_, _), New(_), Template(_, _), PeekParameters(_, _), LambdaArgument(_, _, _),
          ArrayItems(_, _), ObjectProperties(_, _, _), Chain(_, _, _), SkipSemicolons(_), SwitchBody(_, _),
          VarStatement(_, _, _), Binary(_, _), Climb(_, _, _)

Levels == <<{","}>> \o BinaryLevels

Operand(q, level) == IF level = 1 THEN Parsed("assignment", q) ELSE Binary(q, level + 1)

(* Operators of one level belong together from the left.                   *)
BinaryOf(right, q, level) == BinaryRest(Made(right, Token(q), <<q.node, right.node>>), level)

BinaryRest(q, level) ==
    IF Token(q) \notin Levels[level] THEN q ELSE BinaryOf(Operand(Advance(q), level), q, level)

(* From the tightest level to the one given.                               *)
Climb(q, level, to) == IF ~q.ok \/ level < to THEN q ELSE Climb(BinaryRest(q, level), level - 1, to)

Binary(q, level) == Climb(Exponential(q), Len(Levels), level)

FullExpression(q) == BinaryRest(Parsed("assignment", q), 1)

AssignmentRest(q) ==
    IF Token(q) \notin AssignOps THEN q
    ELSE IF ~IsLvalue(q.node) THEN Failed(q)
    ELSE LET right == Parsed("assignment", Advance(q))
         IN  AssignmentRest(Made(right, Token(q), <<q.node, right.node>>))

ConditionalEnd(no, yes, q) == ConditionalRest(Made(no, "?", <<q.node, yes.node, no.node>>))

ConditionalMiddle(yes, q) == ConditionalEnd(Parsed("assignment", Match(yes, ":")), yes, q)

ConditionalRest(q) ==
    IF Token(q) # "?" THEN q ELSE ConditionalMiddle(Parsed("assignment", Advance(q)), q)

Assignment(q) == AssignmentRest(ConditionalRest(Binary(q, 2)))

(* The operator in front of a number becomes part of it.                   *)
Signed(r, sign) ==
    LET n == r.node.op IN
    IF sign = "+" THEN r
    ELSE [r EXCEPT !.node = Atom(IF n \in Numbers THEN Negative[n] ELSE CHOOSE m \in Numbers : Negative[m] = n)]

IsNumber(t) == t.of = <<>> /\ t.op \in Numbers \union {Negative[n] : n \in Numbers}

(* A mistake that is easily made: "**" takes the unary expression for its  *)
(* base.                                                                   *)
UnaryUnchecked(r, op) ==                                         \* mutant
    IF op \in {"+", "-"} /\ IsNumber(r.node) THEN Signed(r, op)
    ELSE IF op = "delete" /\ r.node.of = <<>> /\ r.node.op \in Names THEN Failed(r)
    ELSE Made(r, op, <<r.node>>)

(* A unary operator and "**" do not mix without parentheses.               *)
UnaryChecked(r, op) ==
    IF Token(r) = "**" THEN Failed(r)
    ELSE IF op \in {"+", "-"} /\ IsNumber(r.node) THEN Signed(r, op)
    ELSE IF op = "delete" /\ r.node.of = <<>> /\ r.node.op \in Names THEN Failed(r)
    ELSE Made(r, op, <<r.node>>)

UnaryOf(r, op) == IF r.ok THEN UnaryChecked(r, op) ELSE r

CallExpression(q) == CallExpressionRest(IF Token(q) = "new" THEN New(q) ELSE Parsed("terminal", q))

IncDec(r, op) == IF r.ok /\ IsLvalue(r.node) THEN Made(r, op, <<r.node>>) ELSE Failed(r)

PrefixExpression(q) == IncDec(Parsed("call", Advance(q)), Token(q))

(* An operator on a line of its own belongs to what follows: the parser    *)
(* puts it back and goes on with a semicolon.                              *)
PostIncDec(r) ==
    IF Token(r) \notin {"++", "--"} THEN r
    ELSE IF LineBefore(r) THEN [r EXCEPT !.semicolon = TRUE]
    ELSE IF ~IsLvalue(r.node) THEN Failed(r)
    ELSE Advance(Made(r, IF Token(r) = "++" THEN "post++" ELSE "post--", <<r.node>>))

PostfixExpression(q) == PostIncDec(Parsed("call", q))

Unary(q) ==
    IF Token(q) \in UnaryOps THEN UnaryOf(Parsed("unary", Advance(q)), Token(q))
    ELSE IF Token(q) \in {"++", "--"} THEN PrefixExpression(q)
    ELSE PostfixExpression(q)

ExponentialRest(base) ==
    IF Token(base) # "**" THEN base
    ELSE LET power == Exponential(Advance(base)) IN Made(power, "**", <<base.node, power.node>>)

Exponential(q) == ExponentialRest(Parsed("unary", q))

(* Properties: after a dot there must be a name or some keyword, or just   *)
(* anything when the last word that was read is a keyword.                 *)
PropertyName(n, q) ==
    IF Token(n) \notin Names /\ ~n.keyword THEN Failed(n)
    ELSE Property(Advance(Made(n, ".", <<q.node, Atom(Token(n))>>)))

PropertyBrackets(e, q) == Property(Match(Made(e, "index", <<q.node, e.node>>), "]"))

Property(q) ==
    CASE Token(q) = "." -> PropertyName(Advance(q), q)
      [] Token(q) = "[" -> PropertyBrackets(Parsed("expression", Advance(q)), q)
      [] OTHER -> q

ArgumentEnd(e, list) ==
    IF Token(e) = "," THEN Arguments(e, Append(list, e.node))
    ELSE Match(Made(e, "arguments", Append(list, e.node)), ")")

Argument(n, list) ==
    IF Token(n) = ")" THEN Advance(Made(n, "arguments", list)) ELSE ArgumentEnd(Parsed("assignment", n), list)

Arguments(q, list) == Argument(Advance(q), list)

(* The parts of a template are read as raw text, up to "${" or the end.    *)
TemplatePart(e, list) == IF Token(e) = "}" THEN Template(e, Append(list, e.node)) ELSE Failed(e)

TemplateFrom(q, list) ==
    IF text[q.at] = "grave" THEN Advance(Made(q, "grave", list))
    ELSE TemplatePart(Parsed("expression", Advance(q)), list)

Template(q, list) ==
    LET stops == {i \in q.at + 1 .. Len(text) : text[i] \in {"grave", "${"}}
    IN  IF ~q.ok THEN q
        ELSE IF stops = {} THEN Failed([q EXCEPT !.seen = Len(text) + 1])
        ELSE TemplateFrom([q EXCEPT !.at = Min(stops), !.seen = Max({@, Min(stops)})], list)

CallOf(args, op, q) == Made(args, op, <<q.node>> \o args.node.of)

Call(q, op) ==
    CASE Token(q) = "(" -> CallOf(Arguments(q, <<>>), op, q)
      [] Token(q) = "grave" -> CallOf(Parsed("template", q), IF op = "new" THEN "new tag" ELSE "tag", q)
      [] OTHER -> IF q.ok THEN Made(q, op, <<q.node>>) ELSE q

CallRest(r) == IF Token(r) \in {"(", "grave"} THEN CallExpressionRest(Call(r, "call")) ELSE r

CallExpressionRest(q) == CallRest(Property(q))

NewCallee(n) == IF Token(n) = "new" THEN New(n) ELSE Property(Parsed("terminal", n))

New(q) == Call(NewCallee(Advance(q)), "new")

-----------------------------------------------------------------------------
(* Terminals and functions.                                                *)

(* Looks ahead from the token after "(": the parameters of an arrow        *)
(* function up to ")", or the token that cannot be one of them.            *)
PeekParameters(i, rest) ==
    LET n == IF At(i) = "..." THEN After(i) ELSE i
        m == After(n)
    IN  CASE At(i) = ")" -> [last |-> i, closed |-> TRUE]
          [] At(i) # ")" /\ rest -> [last |-> i, closed |-> FALSE]
          [] At(i) # ")" /\ ~rest /\ At(n) \notin Names -> [last |-> n, closed |-> FALSE]
          [] OTHER -> PeekParameters(IF At(m) = "," THEN After(m) ELSE m, At(i) = "...")

Peeked(q) == IF Token(q) = "(" THEN PeekParameters(After(q.at), FALSE) ELSE [last |-> q.at, closed |-> TRUE]

(* No line end may come before "=>": the code looks at the token before    *)
(* the first one of the function instead.                                  *)
IsArrow(q) ==
    /\ Token(q) \in {"("} \union Names
    /\ Peeked(q).closed
    /\ At(After(Peeked(q).last)) = "=>"
    /\ ~LineBefore(q)

(* What the look ahead leaves behind.                                      *)
MatchArrow(q) ==
    IF Token(q) \in {"("} \union Names
    THEN Lexed(q, IF Peeked(q).closed THEN After(Peeked(q).last) ELSE Peeked(q).last) ELSE q

AfterComma(q) == IF Token(q) = "," THEN Advance(q) ELSE q

ArgumentName(n, list, rest, dots) ==
    IF rest \/ Token(n) \notin Names \/ Atom(Token(n)) \in Range(list) THEN Failed(n)
    ELSE LambdaArgument(AfterComma(Advance(n)),
                        Append(list, IF dots THEN Node("...", <<Atom(Token(n))>>) ELSE Atom(Token(n))), dots)

LambdaArgument(q, list, rest) ==
    IF Token(q) = ")" THEN Advance(Made(q, "parameters", list))
    ELSE IF Token(q) = "..." THEN ArgumentName(Advance(q), list, rest, TRUE)
    ELSE ArgumentName(q, list, rest, FALSE)

LambdaArguments(q) == LambdaArgument(Match(q, "("), <<>>, FALSE)

(* Too many functions in each other are refused.                           *)
FunctionScope(q) == IF q.nesting < MaxNesting THEN [q EXCEPT !.nesting = @ + 1] ELSE Failed(q)

(* A function that does not end with "return" gets one.                    *)
WithReturn(list) ==
    IF list # <<>> /\ Last(list).op = "return" THEN list ELSE Append(list, ReturnNothing)

BodyOf(b) == Made(Advance(b), "body", WithReturn(b.node.of))

LambdaBody(q) == BodyOf(Chain(Match(q, "{"), <<>>, TRUE))

LambdaOf(b, p, q) == ScopeEnd(Made(b, "lambda", <<p.node, b.node>>), q)

LambdaFrom(p, q) == LambdaOf(Parsed("body", p), p, q)

FunctionLambda(q) == LambdaFrom(LambdaArguments(FunctionScope(q)), q)

FunctionOf(l, op, name) == Made(l, op, <<name>> \o l.node.of)

FunctionNamed(n) ==
    IF Token(n) \in Names THEN FunctionOf(Parsed("lambda", Advance(n)), "lambda", Atom(Token(n)))
    ELSE FunctionOf(Parsed("lambda", n), "lambda", Nil)

FunctionExpression(q) == FunctionNamed(Advance(q))

ArrowBody(b, p, q) == ScopeEnd(Made(b, "=>", <<p.node, b.node>>), q)

Returned(e) == Made(e, "body", <<Node("return", <<e.node>>)>>)

ArrowFrom(a, p, q) ==
    ArrowBody(IF Token(a) = "{" THEN Parsed("body", a) ELSE Returned(Parsed("assignment", a)), p, q)

ArrowParameters(p, q) == ArrowFrom(Match(IF LineBefore(p) THEN Failed(p) ELSE p, "=>"), p, q)

ArrowExpression(q) ==
    LET s == FunctionScope(q)
    IN  ArrowParameters(IF Token(s) = "(" THEN LambdaArguments(s)
                        ELSE Advance(Made(s, "parameters", <<Atom(Token(s))>>)), q)

ArrayItemEnd(e, list) ==
    IF Token(e) = "," THEN ArrayItems(e, Append(list, e.node))
    ELSE Match(Made(e, "array", Append(list, e.node)), "]")

ArrayItem(n, list) ==
    CASE Token(n) = "]" -> Advance(Made(n, "array", list))
      [] Token(n) = "," -> ArrayItems(n, Append(list, Nil))
      [] OTHER -> ArrayItemEnd(Parsed("assignment", n), list)

ArrayItems(q, list) == ArrayItem(Advance(q), list)

(* The name of a property: the key, what follows it, and whether it is a   *)
(* word that can stand for itself.  After "get" or "set" comes another     *)
(* name, or that was the name.                                             *)
KeyFrom(k, first, named, accessor) ==
    LET key(r, t, a) == [after |-> r, key |-> t, named |-> named, accessor |-> a]
        literal(r)   == key(r, r.node, accessor)
        computed(r)  == key(r, Node("computed", <<r.node>>), accessor)
    IN  IF Token(k) = "[" THEN computed(Match(Parsed("assignment", Advance(k)), "]"))
        ELSE IF Token(k) \in Literals THEN literal(Parsed("terminal", k))
        ELSE IF Token(k) = "}" THEN key(k, Atom(Token(first)), "")
        ELSE IF Token(k) \in Names \/ k.keyword THEN key(Advance(k), Atom(Token(k)), accessor)
        ELSE key(IF named THEN k ELSE Failed(k), Atom(Token(first)), "")

PropertyKey(first) ==
    IF Token(first) \in {"get", "set"} THEN KeyFrom(Advance(first), first, TRUE, Token(first))
    ELSE KeyFrom(first, first, Token(first) \in Names \/ first.keyword, "")

IsProto(key) == key \in {Atom("__proto__"), Atom("'__proto__'")}

(* One property: its node, or a failure.                                   *)
AccessorOf(l, k) ==
    IF l.ok /\ Len(l.node.of[1].of) = (IF k.accessor = "get" THEN 0 ELSE 1)
    THEN FunctionOf(l, k.accessor, k.key) ELSE Failed(l)

ValueOf(e, k) == Made(e, ":", <<k.key, e.node>>)

PropertyOf(q, k, protos) ==
    IF k.accessor # "" THEN AccessorOf(Parsed("lambda", q), k)
    ELSE IF Token(q) \in {",", "}"}
        THEN IF k.named /\ At(q.at - 1) \in References \ {"this"}
             THEN Made(q, ":", <<k.key, k.key>>) ELSE Failed(q)
    ELSE IF Token(q) = ":"
        THEN IF IsProto(k.key) /\ protos > 0 THEN Failed(q) ELSE ValueOf(Parsed("assignment", Advance(q)), k)
    ELSE IF Token(q) = "(" THEN FunctionOf(Parsed("lambda", q), "method", k.key)
    ELSE Failed(q)

PropertyEnd(p, k, list, protos) ==
    IF Token(p) = ","
    THEN ObjectProperties(p, Append(list, p.node),
                          IF Token(k.after) = ":" /\ IsProto(k.key) THEN protos + 1 ELSE protos)
    ELSE Match(Made(p, "object", Append(list, p.node)), "}")

PropertyFrom(k, list, protos) == PropertyEnd(PropertyOf(k.after, k, protos), k, list, protos)

ObjectFrom(first, list, protos) ==
    IF Token(first) = "}" THEN Advance(Made(first, "object", list))
    ELSE PropertyFrom(PropertyKey(first), list, protos)

ObjectProperties(q, list, protos) == ObjectFrom(Advance(q), list, protos)

TerminalOf(m, t) ==
    IF t = "(" THEN Match(Parsed("expression", Advance(m)), ")")
    ELSE IF t = "function" THEN FunctionExpression(m)
    ELSE IF t = "{" THEN ObjectProperties(m, <<>>, 0)
    ELSE IF t = "[" THEN ArrayItems(m, <<>>)
    ELSE IF t = "grave" THEN Parsed("template", m)
    ELSE IF t \in Literals \union {"true"} \union References THEN Advance(Made(m, t, <<>>))
    ELSE Failed(m)

Terminal(q) ==
    IF IsArrow(q) THEN ArrowExpression(MatchArrow(q)) ELSE TerminalOf(MatchArrow(q), Token(q))

-----------------------------------------------------------------------------
(* Statements.                                                             *)

SkipSemicolons(q) == IF Token(q) = ";" THEN SkipSemicolons(Advance(q)) ELSE q

(* Statements up to "}", or to the end at the top.  In a block or a switch *)
(* the list hangs on parser->node, which an empty statement with a label   *)
(* clears.                                                                 *)
Linked(s, list, top) ==
    IF s.node = Nil THEN Chain(s, IF top THEN list ELSE <<>>, top)
    ELSE Chain(SkipSemicolons(s), Append(list, s.node), top)

Chain(q, list, top) ==
    IF Token(q) \in {"}", "none"} \/ (q.nesting = 0 /\ top /\ Token(q) = End) THEN Made(q, "list", list)
    ELSE Linked(Parsed("statement", q), list, top)

BlockOf(b, q) == ScopeEnd(Advance(Made(b, "block", b.node.of)), q)

BlockStatement(q) == BlockOf(Chain(Advance(q), <<>>, FALSE), q)

Grouping(q) == Match(Parsed("expression", Match(Advance(q), "(")), ")")

(* The statement of an "if" or of a loop is not a function declaration.    *)
SubStatement(q) == IF Token(q) = "function" THEN Failed(q) ELSE Parsed("statement", q)

DeclarationOf(n) ==
    IF Token(n) \in Names THEN FunctionOf(Parsed("lambda", Advance(n)), "function", Atom(Token(n))) ELSE Failed(n)

FunctionDeclaration(q) == DeclarationOf(Advance(q))

(* A statement with the parts that come before it.                         *)
With(s, op, of) == Made(s, op, Append(of, s.node))

Else(s, of) ==
    IF Token(s) = "else" THEN With(Parsed("substatement", Advance(s)), "if", Append(of, s.node)) ELSE With(s, "if", of)

IfOf(c) == Else(Parsed("substatement", c), <<c.node>>)

IfStatement(q) == IfOf(Grouping(q))

Case(e, clauses) == SwitchBody(Match(e, ":"), Append(clauses, Node("case", <<e.node>>)))

Cased(s, clauses, n) ==
    IF s.node # Nil THEN SwitchBody(SkipSemicolons(s), [clauses EXCEPT ![n].of = Append(@, s.node)])
    ELSE SwitchBody(s, [clauses EXCEPT ![n].of = IF clauses[n].op = "case" THEN SubSeq(@, 1, 1) ELSE <<Nil>>])

SwitchBody(q, clauses) ==
    IF Token(q) = "}" THEN Advance(Made(q, "switch", clauses))
    ELSE IF Token(q) = "case" THEN Case(Parsed("expression", Advance(q)), clauses)
    ELSE IF Token(q) = "default"
        THEN IF \E i \in DOMAIN clauses : clauses[i].op = "default" THEN Failed(q)
             ELSE SwitchBody(Match(Advance(q), ":"), Append(clauses, Node("default", <<Nil>>)))
    ELSE IF ~q.ok \/ clauses = <<>> THEN Failed(q)
    ELSE Cased(Parsed("statement", q), clauses, Len(clauses))

SwitchOf(b, v) == IF b.ok THEN Made(b, "switch", <<v.node>> \o b.node.of) ELSE b

SwitchFrom(v) == SwitchOf(SwitchBody(Match(v, "{"), <<>>), v)

SwitchStatement(q) == SwitchFrom(Grouping(q))

WhileOf(c) == With(Parsed("substatement", c), "while", <<c.node>>)

WhileStatement(q) == WhileOf(Grouping(q))

DoWhileOf(s) == IF Token(s) = "while" THEN With(Grouping(s), "do", <<s.node>>) ELSE Failed(s)

DoWhileStatement(q) == DoWhileOf(Parsed("substatement", Advance(q)))

(* What is between "in" and the end of the loop.                           *)
VarInOf(e, name) == With(Parsed("substatement", Match(e, ")")), "for var in", <<name, e.node>>)

VarInStatement(q, name) == VarInOf(Parsed("expression", Advance(q)), name)

VarNext(d) == IF Token(d) = "," THEN VarStatement(d, d.node.of, FALSE) ELSE d

VarValue(e, name, list) == VarNext(Made(e, "var", Append(list, Node("=", <<name, e.node>>))))

VarName(m, name, list, in) ==
    IF in /\ Token(m) = "in" THEN VarInStatement(m, name)
    ELSE IF Token(m) = "=" THEN VarValue(Parsed("assignment", Advance(m)), name, list)
    ELSE VarNext(Made(m, "var", Append(list, Node("=", <<name, Nil>>))))

VarFrom(n, list, in) ==
    IF Token(n) \notin Names THEN Failed(n) ELSE VarName(Advance(n), Atom(Token(n)), list, in)

VarStatement(q, list, in) == VarFrom(Advance(q), list, in)

ForInStatement(q) ==
    IF q.node.of[1].of = <<>> /\ q.node.of[1].op \in Names
    THEN With(Parsed("substatement", Match(q, ")")), "for in", q.node.of) ELSE Failed(q)

(* The parts of the head, each up to its end.                              *)
ForPart(q, end) == IF Token(q) = end THEN Made(q, "", <<>>) ELSE Parsed("expression", q)

ForUpdate(u, of) == With(Parsed("substatement", Match(u, ")")), "for", Append(of, u.node))

ForCondition(c, of) == ForUpdate(ForPart(Match(c, ";"), ")"), Append(of, c.node))

ForInit(i) ==
    IF ~i.ok \/ i.node.op = "for var in" THEN i
    ELSE IF i.node.op = "in" THEN ForInStatement(i)
    ELSE ForCondition(ForPart(Match(i, ";"), ";"), <<i.node>>)

ForFrom(p) == ForInit(IF Token(p) = "var" THEN VarStatement(p, <<>>, TRUE) ELSE ForPart(p, ";"))

ForStatement(q) == ForFrom(Match(Advance(q), "("))

TryOf(n) == IF Token(n) = "{" THEN Parsed("block", n) ELSE Failed(n)

TryBlock(q) == TryOf(Advance(q))

Finally(c, of, caught) ==
    IF Token(c) = "finally" THEN With(TryBlock(c), "try", of)
    ELSE IF caught THEN Made(c, "try", Append(of, Nil)) ELSE Failed(c)

Caught(c, of) == Finally(c, Append(of, c.node), TRUE)

CatchName(n, end, t) ==
    IF Token(n) \notin Names THEN Failed(n)
    ELSE IF Token(end) # ")" THEN Failed(end)
    ELSE Caught(TryBlock(end), <<t.node, Atom(Token(n))>>)

CatchFrom(n, t) == CatchName(n, Advance(n), t)

Tried(t) ==
    IF Token(t) = "catch" THEN CatchFrom(Match(Advance(t), "("), t)
    ELSE Finally(t, <<t.node, Nil, Nil>>, FALSE)

TryStatement(q) == Tried(TryBlock(q))

ReturnOf(e) == Made(e, "return", <<e.node>>)

ReturnFrom(n) ==
    IF Token(n) = LineEnd THEN Advance(Made(n, "return", <<Nil>>))
    ELSE IF Token(n) \in {";", "}", End} THEN Made(n, "return", <<Nil>>)
    ELSE ReturnOf(Parsed("expression", n))

ReturnStatement(q) == IF q.nesting = 0 THEN Failed(q) ELSE ReturnFrom(AdvanceInLine(q))

ThrowOf(e) == Made(e, "throw", <<e.node>>)

ThrowFrom(n) == IF Token(n) = LineEnd THEN Failed(n) ELSE ThrowOf(Parsed("expression", n))

ThrowStatement(q) == ThrowFrom(AdvanceInLine(q))

BreakFrom(n, t, op, labels) ==
    CASE t = LineEnd -> Advance(Made(n, op, <<Nil>>))
      [] t \in labels -> Advance(Made(n, op, <<Atom(t)>>))
      [] t \in {";", "}", End} -> Made(n, op, <<Nil>>)
      [] OTHER -> Failed(n)

BreakStatement(q) == LET n == AdvanceInLine(q) IN BreakFrom(n, Token(n), Token(q), q.labels)

(* The label stays declared when the statement is empty; an inner label is *)
(* replaced by the outer one.  A node has one name, which is what a break  *)
(* or a continue goes to: a label takes its place.                         *)
Inner(t) == IF t.op = "label" THEN t.of[2] ELSE t

Named(s, x) ==
    IF s.node.op \in {"break", "continue"} THEN Made(s, s.node.op, <<Atom(x)>>)
    ELSE Made(s, "label", <<Atom(x), Inner(s.node)>>)

LabelledOf(s, x) ==
    IF ~s.ok \/ s.node = Nil THEN s ELSE [Named(s, x) EXCEPT !.labels = @ \ {x}]

LabelledFrom(n, x) == LabelledOf(Parsed("statement", [n EXCEPT !.labels = @ \union {x}]), x)

LabelledStatement(q) ==
    IF Token(q) \in q.labels THEN Failed(q) ELSE LabelledFrom(Match(Advance(q), ":"), Token(q))

(* A semicolon, the end of the block, or the end of the line.              *)
Terminated(q) ==
    CASE Token(q) = ";" -> Advance(q)
      [] Token(q) \in {"}", End} -> q
      [] OTHER -> IF LineBefore(q) THEN q ELSE Failed(q)

Statement(p) ==
    LET q == [p EXCEPT !.node = Nil]
        t == Token(q)
    IN  CASE t = "function" -> FunctionDeclaration(q)
          [] t = "if"       -> IfStatement(q)
          [] t = "switch"   -> SwitchStatement(q)
          [] t = "while"    -> WhileStatement(q)
          [] t = "do"       -> DoWhileStatement(q)
          [] t = "for"      -> ForStatement(q)
          [] t = "try"      -> TryStatement(q)
          [] t = ";"        -> Advance(q)
          [] t = "{"        -> Parsed("block", q)
          [] t = "var"      -> Terminated(VarStatement(q, <<>>, FALSE))
          [] t = "return"   -> Terminated(ReturnStatement(q))
          [] t = "throw"    -> Terminated(ThrowStatement(q))
          [] t \in {"break", "continue"} -> Terminated(BreakStatement(q))
          [] OTHER -> IF t \in Names /\ At(After(q.at)) = ":" THEN LabelledStatement(Lexed(q, After(q.at)))
                      ELSE Terminated(Parsed("expression", IF t \in Names THEN Lexed(q, After(q.at)) ELSE q))

(* The rule for what comes next in the text.                               *)
Parsed(rule, q) ==
    CASE rule = "assignment"   -> Assignment(q)
      [] rule = "expression"   -> FullExpression(q)
      [] rule = "terminal"     -> Terminal(q)
      [] rule = "unary"        -> Unary(q)
      [] rule = "lambda"       -> FunctionLambda(q)
      [] rule = "body"         -> LambdaBody(q)
      [] rule = "statement"    -> Statement(q)
      [] rule = "substatement" -> SubStatement(q)
      [] rule = "block"        -> BlockStatement(q)
      [] rule = "template"     -> Template(q, <<>>)
      [] rule = "call"         -> CallExpression(q)

Start == [ok |-> TRUE, at |-> 0, seen |-> 0, semicolon |-> FALSE, keyword |-> FALSE,
          labels |-> {}, nesting |-> 0, node |-> Nil]

(* The whole text is a list of statements.                                 *)
Parsing(r) == IF Token(r) = End THEN r ELSE Failed(r)

Parse == Parsing(Chain(Advance(Start), <<>>, TRUE))

=============================================================================
