------------------------------ MODULE JsonText ------------------------------
(***************************************************************************)
(* njs_json.c, the text side: the recursive parser of JSON.parse(), the    *)
(* strings of JSON with their escapes, and the quoted strings that         *)
(* JSON.stringify() puts in its chain of buffers.  A text is a sequence of *)
(* tokens, a string its bytes.  A behaviour writes a text token by token,  *)
(* or a string piece by piece, and looks at both after every step.         *)
(***************************************************************************)
EXTENDS Utf8, TLC

CONSTANTS MaxDepth,    \* NJS_JSON_MAX_DEPTH
          Chunk,       \* bytes reserved for a string at a time, 64 in the code
          MinSize,     \* NJS_JSON_BUF_MIN_SIZE
          Pieces,      \* pieces of strings: bytes and what they stand for
          Short,       \* bound: tokens of a text
          Long,        \* bound: tokens of a text that may still become one
          MaxPieces    \* bound: pieces of a string

VARIABLES text,        \* tokens
          string,      \* pieces
          agrees       \* the last answer was what it should be

vars == <<text, string, agrees>>

-----------------------------------------------------------------------------
(* Values and the parser.  "n" is a number, "l" true, false or null, "a"   *)
(* and "b" are strings; "x" is anything else.                              *)
Atoms == {"n", "l", "a", "b"}
Names == {"a", "b"}
Tokens == Atoms \cup {"{", "}", "[", "]", ":", ",", " ", "x"}

Atom(token)     == [kind |-> token, of |-> <<>>]
Array(elements) == [kind |-> "array", of |-> elements]
Object(members) == [kind |-> "object", of |-> members]

Parsed(value, p) == [ok |-> TRUE, value |-> value, p |-> p]
Failed(p)        == [ok |-> FALSE, value |-> Atom("x"), p |-> p]

(* njs_json_skip_space().                                                  *)
SkipSpace(t, p) == Min({q \in p..Len(t) : t[q] # " "} \cup {Len(t) + 1})

(* njs_json_parse_value(), njs_json_parse_object(), njs_json_parse_array():*)
(* the loops of the last two start behind a bracket or a comma.            *)
RECURSIVE ParseValue(_, _, _), ParseObject(_, _, _, _), ParseArray(_, _, _, _)
ParseValue(t, p, depth) ==
    CASE t[p] = "{"     -> IF depth = 1 THEN Failed(p) ELSE ParseObject(t, p, depth - 1, <<>>)
      [] t[p] = "["     -> IF depth = 1 THEN Failed(p) ELSE ParseArray(t, p, depth - 1, <<>>)
      [] t[p] \in Atoms -> Parsed(Atom(t[p]), p + 1)
      [] OTHER          -> Failed(p)

ParseObject(t, p, depth, members) ==
    LET end   == Len(t) + 1
        name  == SkipSpace(t, p + 1)
        colon == SkipSpace(t, name + 1)
        value == SkipSpace(t, colon + 1)
        r     == ParseValue(t, value, depth)
        next  == SkipSpace(t, r.p)
        with  == (t[name] :> r.value) @@ members       \* the last one of a name counts
    IN  IF name = end THEN Failed(end)
        ELSE IF t[name] = "}" /\ members = <<>> THEN Parsed(Object(members), name + 1)
        ELSE IF t[name] \notin Names THEN Failed(name)
        ELSE IF colon = end \/ t[colon] # ":" THEN Failed(colon)
        ELSE IF value = end THEN Failed(end)
        ELSE IF ~r.ok THEN r
        ELSE IF next = end THEN Failed(end)
        ELSE IF t[next] = "}" THEN Parsed(Object(with), next + 1)
        ELSE IF t[next] = "," THEN ParseObject(t, next, depth, with)
        ELSE Failed(next)

ParseArray(t, p, depth, elements) ==
    LET end  == Len(t) + 1
        elem == SkipSpace(t, p + 1)
        r    == ParseValue(t, elem, depth)
        next == SkipSpace(t, r.p)
        with == Append(elements, r.value)
    IN  IF elem = end THEN Failed(end)
        ELSE IF t[elem] = "]" THEN (IF elements = <<>> THEN Parsed(Array(elements), elem + 1) ELSE Failed(elem))
        ELSE IF ~r.ok THEN r
        ELSE IF next = end THEN Failed(end)
        ELSE IF t[next] = "]" THEN Parsed(Array(with), next + 1)
        ELSE IF t[next] = "," THEN ParseArray(t, next, depth, with)
        ELSE Failed(next)

(* njs_json_parse() of a text: nothing but space is behind the value.      *)
ToEnd(t, r) == IF ~r.ok \/ SkipSpace(t, r.p) > Len(t) THEN r ELSE Failed(SkipSpace(t, r.p))

Parse(t) ==
    LET start == SkipSpace(t, 1)
    IN  IF start > Len(t) THEN Failed(start) ELSE ToEnd(t, ParseValue(t, start, MaxDepth))

(* The grammar of JSON: the values that a text stands for, whatever its    *)
(* order of reading; members of the same name are in order.                *)
Trim(t) ==
    LET ink == {i \in DOMAIN t : t[i] # " "}
    IN  IF ink = {} THEN <<>> ELSE SubSeq(t, Min(ink), Max(ink))

Splits(t, token) == {<<SubSeq(t, 1, i - 1), SubSeq(t, i + 1, Len(t))>> : i \in {k \in DOMAIN t : t[k] = token}}

RECURSIVE Means(_), Lists(_), Members(_)
Means(text1) ==
    LET t     == Trim(text1)
        inner == SubSeq(t, 2, Len(t) - 1)
    IN  IF Len(t) = 1 THEN {Atom(a) : a \in Atoms \cap {t[1]}}
        ELSE IF Len(t) = 0 THEN {}
        ELSE IF t[1] = "[" /\ Last(t) = "]" THEN {Array(e) : e \in Lists(inner)}
        ELSE IF t[1] = "{" /\ Last(t) = "}" THEN {Object(m) : m \in Members(inner)}
        ELSE {}

Lists(t) ==
    (IF Trim(t) = <<>> THEN {<<>>} ELSE {<<v>> : v \in Means(t)})
    \cup UNION {{<<v>> \o e : v \in Means(s[1]), e \in Lists(s[2]) \ {<<>>}} : s \in Splits(t, ",")}

Members(t) ==
    LET Named(s) == IF Trim(s[1]) \in {<<n>> : n \in Names}
                    THEN {Trim(s[1])[1] :> v : v \in Means(s[2])} ELSE {}
    IN  (IF Trim(t) = <<>> THEN {<<>>} ELSE UNION {Named(s) : s \in Splits(t, ":")})
        \cup UNION {{m @@ f : f \in UNION {Named(c) : c \in Splits(s[1], ":")}, m \in Members(s[2]) \ {<<>>}} :
                       s \in Splits(t, ",")}

RECURSIVE Depth(_)
Depth(v) ==
    IF v.kind \in Atoms THEN 0
    ELSE 1 + Max({0} \cup {Depth(v.of[k]) : k \in DOMAIN v.of})

Accepted(r) == IF r.ok THEN {r.value} ELSE {}
Standard(t) == {v \in Means(t) : Depth(v) < MaxDepth}

-----------------------------------------------------------------------------
(* Strings: njs_json_parse_string() behind the quote.                      *)
Quote  == 34
Escape == 92
Letter == [n |-> 110, r |-> 114, t |-> 116, b |-> 98, f |-> 102, u |-> 117]
ControlOf(c) == CASE c = Letter.n -> 10 [] c = Letter.r -> 13 [] c = Letter.t -> 9 [] c = Letter.b -> 8
                  [] c = Letter.f -> 12 [] OTHER -> c
Simple == {Quote, Escape, 47, Letter.n, Letter.r, Letter.t, Letter.b, Letter.f}
IsHex(c) == c \in (48..57) \cup (65..70) \cup (97..102)

(* The scan: where the closing quote is, and how many bytes fewer it will  *)
(* take; Len(b) where the string ends too early, -1 where it is wrong.     *)
usual    == 0
escape   == 1
encoded1 == 2
encoded4 == 5

RECURSIVE Scan(_, _, _, _)
Scan(b, p, state, surplus) ==
    LET c == b[p + 1]
    IN  IF p = Len(b) THEN [last |-> p, surplus |-> 0]
        ELSE IF state = usual THEN
            (IF c = Quote THEN [last |-> p, surplus |-> surplus]
             ELSE IF c = Escape THEN Scan(b, p + 1, escape, surplus)
             ELSE IF c >= 32 THEN Scan(b, p + 1, usual, surplus)
             ELSE [last |-> -1, surplus |-> 0])
        ELSE IF state = escape THEN
            (IF c \in Simple THEN Scan(b, p + 1, usual, surplus + 1)
             ELSE IF c = Letter.u THEN Scan(b, p + 1, encoded1, surplus + 3)
             ELSE [last |-> -1, surplus |-> 0])
        ELSE IF ~IsHex(c) THEN [last |-> -1, surplus |-> 0]
        ELSE Scan(b, p + 1, IF state = encoded4 THEN usual ELSE state + 1, surplus)

(* njs_json_unicode(): a digit is a byte with the bit of lower case set.   *)
HexDigit(c) ==
    LET low == (IF (c \div 32) % 2 = 1 THEN c ELSE c + 32) - 48
    IN  IF low > 9 THEN low - 39 ELSE low
Unicode(b, p) == FoldLeft(LAMBDA u, i : u * 16 + HexDigit(b[p + i]), 0, <<1, 2, 3, 4>>)

High(u) == u \in 55296..56319
Low(u)  == u \in 56320..57343
SurrogatePair(high, low) == 65536 + (high - 55296) * 1024 + (low - 56320)

(* The copy without escapes, up to the closing quote.                      *)
RECURSIVE Unescape(_, _, _)
UnescapeUnicode(b, p, last) ==
    LET u    == Unicode(b, p)
        pair == b[p + 5] = Escape /\ b[p + 6] = Letter.u
        low  == Unicode(b, p + 6)
        Bad  == Encode(Replacement)
    IN  IF ~High(u) /\ ~Low(u) THEN Encode(u) \o Unescape(b, p + 4, last)
        ELSE IF Low(u) \/ ~pair THEN Bad \o Unescape(b, p + 4, last)
        ELSE (IF Low(low) THEN Encode(SurrogatePair(u, low))
              ELSE IF High(low) THEN Bad \o Bad
              ELSE Bad \o Encode(low)) \o Unescape(b, p + 10, last)

Unescape(b, p, last) ==
    IF p >= last THEN <<>>
    ELSE IF b[p + 1] # Escape THEN <<b[p + 1]>> \o Unescape(b, p + 1, last)
    ELSE IF b[p + 2] \in Simple THEN <<ControlOf(b[p + 2])>> \o Unescape(b, p + 2, last)
    ELSE UnescapeUnicode(b, p + 2, last)

(* The string and the number of characters it is made with, which is 0 for *)
(* bytes that are not UTF-8.  What is written fits what was allocated.     *)
StringOf(bytes, size) ==
    [ok |-> TRUE, bytes |-> bytes, length |-> IF IsValid(bytes) THEN Length(bytes) ELSE 0, fits |-> Len(bytes) <= size]

ParseString(b) ==
    LET s == Scan(b, 0, usual, 0)
    IN  IF s.last \in 0..Len(b) - 1 THEN StringOf(Unescape(b, 0, s.last), s.last - s.surplus)
        ELSE [ok |-> FALSE, bytes |-> <<>>, length |-> 0, fits |-> TRUE]

(* What the pieces of a string stand for: characters, halves of pairs, the *)
(* quote at the end, or what may not be in a string.  Of two first halves  *)
(* the code takes the second one for a wrong second half.                  *)
RECURSIVE Halves(_)
Halves(units) ==
    IF units = <<>> THEN <<>>
    ELSE LET rest == SubSeq(units, 3, Len(units))
         IN  IF Len(units) > 1 /\ High(units[1]) /\ Low(units[2])
             THEN Encode(SurrogatePair(units[1], units[2])) \o Halves(rest)
             ELSE IF Len(units) > 1 /\ High(units[1]) /\ High(units[2])
             THEN Encode(Replacement) \o Encode(Replacement) \o Halves(rest)
             ELSE (IF High(units[1]) \/ Low(units[1]) THEN Encode(Replacement) ELSE Encode(units[1]))
                  \o Halves(Tail(units))

(* A piece: [src, is, of], of what is before the first quote.  Characters  *)
(* that are not escaped stand apart from the halves next to them.          *)
Body(pieces) ==
    LET quotes == {i \in DOMAIN pieces : pieces[i].is = "quote"}
    IN  IF quotes = {} THEN pieces ELSE SubSeq(pieces, 1, Min(quotes) - 1)

RECURSIVE Stands(_, _)
Stands(pieces, units) ==
    IF pieces = <<>> THEN Halves(units)
    ELSE IF pieces[1].is = "unit" THEN Stands(Tail(pieces), Append(units, pieces[1].of))
    ELSE Halves(units) \o pieces[1].of \o Stands(Tail(pieces), <<>>)

AsWritten(r, pieces) ==
    LET ok == /\ \E i \in DOMAIN pieces : pieces[i].is = "quote"
              /\ \A i \in DOMAIN Body(pieces) : Body(pieces)[i].is # "bad"
    IN  /\ r.ok = ok /\ r.fits
        /\ ok => r.bytes = Stands(Body(pieces), <<>>)

-----------------------------------------------------------------------------
(* njs_json_buf_reserve(), njs_json_buf_append() and njs_json_buf_pullup():*)
(* a chain of nodes, each with a size and what was written into it.        *)
Reserve(chain, size) ==
    IF chain # <<>> /\ Last(chain).size - Len(Last(chain).data) >= size THEN chain
    ELSE Append(chain, [size |-> Max({size, MinSize}), data |-> <<>>])

Write(chain, bytes)     == [chain EXCEPT ![Len(chain)].data = @ \o bytes]
BufAppend(chain, bytes) == IF bytes = <<>> THEN chain ELSE Write(Reserve(chain, Len(bytes)), bytes)
Pullup(chain)           == FlattenSeq([i \in DOMAIN chain |-> chain[i].data])

(* njs_json_append_string(): an escape, then what needs none, while more   *)
(* than Longest bytes are left of the Chunk that was reserved.             *)
LongestOfUtf8 == 4                                       \* mutant
Longest    == 6
HexUpper(d) == IF d < 10 THEN 48 + d ELSE 55 + d
MustEscape(c, quote) == c < 32 \/ c = Escape \/ (c = Quote /\ quote = Quote)

Escaped(c) ==
    <<Escape>> \o IF \E l \in Simple \ {47} : ControlOf(l) = c
                  THEN <<CHOOSE l \in Simple \ {47} : ControlOf(l) = c>>
                  ELSE <<Letter.u, 48, 48, HexUpper(c \div 16), HexUpper(c % 16)>>

RECURSIVE Plain(_, _, _, _)
Plain(b, p, room, quote) ==
    IF p >= Len(b) \/ room <= Longest \/ MustEscape(b[p + 1], quote) THEN <<>>
    ELSE LET next == IF IsValid(b) THEN NextChar(b, p) ELSE p + 1
         IN  Cut(b, p, next) \o Plain(b, next, room - (next - p), quote)

RECURSIVE Quoted(_, _, _, _, _)
AddPlain(chain, b, p, room, quote, plain) ==
    LET left == room - Len(plain)
        made == Write(chain, plain)
    IN  IF left <= Longest THEN Quoted(Reserve(made, Chunk), b, p + Len(plain), Chunk, quote)
        ELSE Quoted(made, b, p + Len(plain), left, quote)

AddEscaped(chain, b, p, room, quote, first) ==
    AddPlain(Write(chain, first), b, p, room - Len(first), quote, Plain(b, p, room - Len(first), quote))

Quoted(chain, b, p, room, quote) ==
    IF p >= Len(b) THEN BufAppend(chain, <<quote>>)
    ELSE IF MustEscape(b[p + 1], quote) THEN AddEscaped(chain, b, p + 1, room, quote, Escaped(b[p + 1]))
    ELSE AddPlain(chain, b, p, room, quote, Plain(b, p, room, quote))

AppendString(chain, b, quote) ==
    Quoted(Write(Reserve(chain, Chunk), <<quote>>), b, 0, Chunk - 1, quote)

(* What is quoted is within the nodes, has no control characters, and is   *)
(* parsed as the string it was.                                            *)
AsRead(r, b) == r.ok /\ r.bytes = b

Readable(chain, out, b) ==
    /\ \A i \in DOMAIN chain : Len(chain[i].data) <= chain[i].size
    /\ \A i \in DOMAIN out : out[i] >= 32
    /\ AsRead(ParseString(SubSeq(out, 3, Len(out))), b)

WellQuoted(chain, b) == Readable(chain, Pullup(chain), b)
QuotedAsRead(b)      == WellQuoted(AppendString(BufAppend(<<>>, <<91>>), b, Quote), b)

-----------------------------------------------------------------------------
Init == text = <<>> /\ string = <<>> /\ agrees = TRUE

(* A text that already failed before its end is not continued for long.    *)
Read == \E token \in Tokens :
    LET t == Append(text, token)
    IN  /\ string = <<>>
        /\ Len(text) < Short \/ (Len(text) < Long /\ Parse(text).p > Len(text))
        /\ text' = t
        /\ agrees' = (Accepted(Parse(t)) = Standard(t))
        /\ UNCHANGED string

SpelledRight(s, b) == AsWritten(ParseString(b), s) /\ \A c \in {b, ParseString(b).bytes} : QuotedAsRead(c)

Spell == \E piece \in Pieces :
    LET s == Append(string, piece)
    IN  /\ text = <<>> /\ Len(string) < MaxPieces
        /\ string' = s
        /\ agrees' = SpelledRight(s, FlattenSeq([i \in DOMAIN s |-> s[i].src]))
        /\ UNCHANGED text

Next == Read \/ Spell
Spec == Init /\ [][Next]_vars

(* JSON.parse() takes the texts of the grammar that are not nested deeper  *)
(* than MaxDepth - 1, and no other, for the value they stand for; strings  *)
(* with escapes fit the memory that was allocated for them; and what       *)
(* JSON.stringify() quotes stays in its buffers and reads as it was.       *)
JsonTextAsStandard == agrees

=============================================================================
