----------------------------- MODULE MCLibrary ------------------------------
(***************************************************************************)
(* Strings, JSON, dates and the parser for TLC.  They do not touch each    *)
(* other, so each behaviour is one of them; the variables of the others    *)
(* stay as they were at the start.                                         *)
(***************************************************************************)
EXTENDS Integers, Sequences

CONSTANTS Undefined, NaN, Throws

VARIABLES part,
          this, agrees, sound,                               \* strings
          text, string, same,                                \* JSON texts
          walk, heap, args, stack, out, calls, changes, result,       \* JSON walks
          zone, time, steps, right, utcRight,                \* dates
          tokens, alphabet, tree, grown                      \* programs

stringVars  == <<this, agrees, sound>>
textVars    == <<text, string, same>>
walkVars    == <<walk, heap, args, stack, out, calls, changes, result>>
dateVars    == <<zone, time, steps, right, utcRight>>
programVars == <<tokens, alphabet, tree, grown>>

(* Characters of one, two and three bytes: "a", a space, the Kelvin sign,  *)
(* whose lower case is shorter, and what stands for something in words,    *)
(* templates and URIs.  An offset map has a place for every other one.     *)
String == INSTANCE Strings WITH
    Texts <- {<<>>, <<160, 97>>, <<32, 97, 8490, 160>>, <<160, 97, 97, 160, 97>>, <<97, 97, 160, 97, 32>>,
              <<97, 160, 97, 8490>>, <<97, 98, 97, 98, 97>>},
    Octets <- {<<255>>, <<97, 194>>, <<194, 160, 97>>, <<97, 97>>},
    Words <- {<<>>, <<97>>, <<97, 160>>, <<8490, 8490>>},
    Positions <- {-2, 0, 1, 3, 60},
    Patterns <- {<<<<97>>>>, <<<<160>>, <<97>>>>, <<<<>>>>, <<<<97>>, <<>>>>, <<<<-1>>>>},
    Templates <- {<<120>>, <<36, 38, 36>>, <<36, 36, 36, 96>>, <<36, 39, 36, 49>>, <<>>},
    Escaped <- {<<37, 52, 49>>, <<37, 67, 51, 37, 65, 57>>, <<233, 37, 52, 49>>, <<37, 52>>, <<37, 50, 51, 97>>,
                <<37, 67, 51, 37, 65, 57, 37, 67, 51, 37, 65, 57, 37, 67, 51, 37, 65, 57>>, <<37, 71, 48>>, <<97>>,
                <<37, 56, 48>>},
    Stride <- 2, MaxSize <- 40, Longest <- 8

(* Pieces of JSON strings: characters, a byte that is none, escapes, the   *)
(* halves of a surrogate pair, and what ends or spoils a string.           *)
Piece(bytes, is, of) == [src |-> bytes, is |-> is, of |-> of]

Text == INSTANCE JsonText WITH
    agrees <- same,
    MaxDepth <- 3, Chunk <- 9, MinSize <- 8, Short <- 4, Long <- 7, MaxPieces <- 3,
    Pieces <- {Piece(<<97>>, "char", <<97>>), Piece(<<195, 169>>, "char", <<195, 169>>), Piece(<<255>>, "char", <<255>>),
               Piece(<<92, 110>>, "char", <<10>>), Piece(<<92, 34>>, "char", <<34>>),
               Piece(<<92, 117, 48, 48, 52, 97>>, "unit", 74), Piece(<<92, 117, 50, 48, 65, 67>>, "unit", 8364),
               Piece(<<92, 117, 68, 56, 51, 68>>, "unit", 55357), Piece(<<92, 117, 100, 101, 48, 48>>, "unit", 56832),
               Piece(<<92, 117, 48, 48, 49, 102>>, "unit", 31), Piece(<<34>>, "quote", <<>>), Piece(<<10>>, "bad", <<>>),
               Piece(<<92, 120>>, "bad", <<>>), Piece(<<92, 117, 48, 48, 103>>, "bad", <<>>)}

(* Three objects that refer to each other, also in circles.                *)
Prim(t) == [t |-> t, id |-> 0]
Ref(n)  == [t |-> "object", id |-> n]
Arr(vs) == [kind |-> "array", cells |-> [i \in DOMAIN vs |-> [key |-> i, value |-> vs[i]]], beyond |-> <<>>, toJson |-> "none"]
Obj(ks, vs) == [kind |-> "object", cells |-> [i \in DOMAIN vs |-> [key |-> ks[i], value |-> vs[i]]], beyond |-> <<>>, toJson |-> "none"]

FirstObjects ==
    {Arr(<<x, y>>) : x \in {Prim("number"), Prim("undefined"), Ref(2)}, y \in {Prim("function"), Ref(2), Ref(3)}}
    \cup {Obj(<<"a", "b">>, <<x, y>>) : x \in {Prim("null"), Prim("undefined"), Ref(2)}, y \in {Prim("function"), Ref(2), Ref(3)}}
    \cup {Arr(<<>>), Obj(<<>>, <<>>), Obj(<<"b">>, <<Ref(2)>>)}

SecondObjects ==
    {Arr(<<>>), Obj(<<>>, <<>>), Obj(<<"a">>, <<Ref(3)>>), Arr(<<Prim("invalid"), Ref(3)>>), Arr(<<Ref(3), Prim("null")>>),
     Obj(<<"b", "a">>, <<Prim("string"), Ref(1)>>),
     [Arr(<<Ref(3)>>) EXCEPT !.toJson = "undefined"], [Obj(<<"b">>, <<Ref(3)>>) EXCEPT !.toJson = "number"]}

ThirdObjects ==
    {Arr(<<>>), Arr(<<Prim("number")>>), Obj(<<"a", "b">>, <<Prim("null"), Prim("number")>>), Arr(<<Ref(2)>>)}

Listed(t, name) == [t |-> t, name |-> name]

Walk == INSTANCE Json WITH
    MaxDepth <- 4, MaxCells <- 3, MaxChanges <- 2, Spaces <- {0, 2}, Heaps <- {<<x, y, z>> : x \in FirstObjects, y \in SecondObjects, z \in ThirdObjects},
    Replacers <- {[kind |-> "none"], [kind |-> "list", list |-> <<Listed("string", "b"), Listed("other", "a"), Listed("string", "b")>>]}
                 \cup {[kind |-> "function", name |-> n] : n \in {"same", "drop", "function", "object"}}

(* New Zealand's Chatham Islands, as they were from 2008 on with the year  *)
(* turned round, and New York in 2019; times at the limits, around the     *)
(* year 0 and leap days.                                                   *)
Date == INSTANCE Dates WITH
    agrees <- right, utcAgrees <- utcRight, MaxSteps <- 1,
    Zones <- {[standard |-> -765, summer |-> -825, from |-> <<14000, 50400000>>, to |-> <<14180, 50400000>>],
              [standard |-> 300, summer |-> 240, from |-> <<17965, 25200000>>, to |-> <<18203, 21600000>>]},
    Times <- {<<0, 0>>, <<-1, 86399999>>, <<100000000, 0>>, <<-100000000, 0>>, <<100000000, 1>>, <<10956, 5>>,
              <<11016, 37325625>>, <<17965, 25199999>>, <<-719528, 3723004>>, <<2932896, 86399999>>},
    Years <- {-1, 0, 99, 1900, 2000, 2019, 275760}, Numbers <- {-1, 0, 1, 30, NaN, Throws}

Program == INSTANCE Programs WITH
    text <- tokens, steps <- grown, MaxNesting <- 1, MaxTokens <- 5, MaxSteps <- 2,
    Operators <- {",", "||", "&&", "===", "in", "-", "%"},
    Alphabets <- {{"a", "1", "(", ")", "+", "*", "**", "-", "="}, {"a", "(", ")", "=>", ",", "{", "}", "..."},
                  {"a", "?", ":", ",", "[", "]", "."}, {"a", "if", "else", "(", ")", ";", "{", "}"},
                  {"{", "}", "a", "get", ":", ",", "(", ")"}, {"a", "typeof", "!", "++", "+", "==", "in"},
                  {"a", "for", "var", "in", "(", ")", ";"}, {"a", "x", ":", "while", "do", "break", "(", ")", ";"}}

Init ==
    /\ part \in {"strings", "texts", "walks", "dates", "programs"}
    /\ IF part = "strings"  THEN String!Init  ELSE this = 0 /\ agrees = 0 /\ sound = 0
    /\ IF part = "texts"    THEN Text!Init    ELSE text = 0 /\ string = 0 /\ same = 0
    /\ IF part = "walks"    THEN Walk!Init
       ELSE walk = 0 /\ heap = 0 /\ args = 0 /\ stack = 0 /\ out = 0 /\ calls = 0 /\ changes = 0 /\ result = 0
    /\ IF part = "dates"    THEN Date!Init    ELSE zone = 0 /\ time = 0 /\ steps = 0 /\ right = 0 /\ utcRight = 0
    /\ IF part = "programs" THEN Program!Init ELSE tokens = 0 /\ alphabet = 0 /\ tree = 0 /\ grown = 0

Next ==
    /\ UNCHANGED part
    /\ \/ part = "strings" /\ String!Next /\ UNCHANGED <<textVars, walkVars, dateVars, programVars>>
       \/ part = "texts" /\ Text!Next /\ UNCHANGED <<stringVars, walkVars, dateVars, programVars>>
       \/ part = "walks" /\ Walk!Next /\ UNCHANGED <<stringVars, textVars, dateVars, programVars>>
       \/ part = "dates" /\ Date!Next /\ UNCHANGED <<stringVars, textVars, walkVars, programVars>>
       \/ part = "programs" /\ Program!Next /\ UNCHANGED <<stringVars, textVars, walkVars, dateVars>>

Spec == Init /\ [][Next]_<<part, stringVars, textVars, walkVars, dateVars, programVars>>

(* The invariants that the modules state, each of its own behaviours.      *)
StringsAsStandard  == part = "strings"  => String!StringsAsStandard
JsonTextAsStandard == part = "texts"    => Text!JsonTextAsStandard
JsonWalksComplete  == part = "walks"    => Walk!JsonWalksComplete
DatesAsStandard    == part = "dates"    => Date!DatesAsStandard
ParserAsGrammar    == part = "programs" => Program!ParserAsGrammar

(* What njs_unit_test.c says of the UTC setters (it runs in UTC only).     *)
UtcSettersKeepUtcFields == part = "dates" => Date!UtcSettersKeepUtcFields

=============================================================================
