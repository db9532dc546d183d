------------------------------- MODULE Strings -------------------------------
(***************************************************************************)
(* njs_string.c.  A string is bytes and a length: 0 for a byte string, the *)
(* number of characters when the bytes are UTF-8, the size when they are   *)
(* ASCII.  A UTF-8 string longer than Stride characters has room for a map *)
(* of the offsets of every Stride-th character, filled in by the method    *)
(* that needs it first.  An action calls one method of this string and     *)
(* compares the answer with what ECMAScript says of the sequence of its    *)
(* characters (of its bytes, when it is a byte string).                    *)
(***************************************************************************)
EXTENDS Utf8

CONSTANTS Texts,       \* characters of strings
          Octets,      \* bytes of byte strings
          Words,       \* characters of arguments
          Positions,   \* positions and counts
          Patterns,    \* regular expressions: alternatives, tried in order
          Templates,   \* replacements with "$"
          Escaped,     \* arguments of decodeURI()
          Stride,      \* NJS_STRING_MAP_STRIDE
          MaxSize,     \* NJS_STRING_MAX_LENGTH
          Longest,     \* bound: bytes of a string that a conversion makes
          Undefined

VARIABLES this,        \* the string
          agrees,      \* the last answer was what it should be
          sound        \* the last string that was made is as njs_string.h says

vars == <<this, agrees, sound>>

AtMost(a, b)  == IF a < b THEN a ELSE b
AtLeast(a, b) == IF a > b THEN a ELSE b

-----------------------------------------------------------------------------
(* Representation.                                                         *)

(* njs_string_alloc() and njs_string_new().                                *)
Str(bytes, length) ==
    [bytes |-> bytes, length |-> length,
     map |-> IF length # Len(bytes) /\ length > Stride
             THEN [k \in 1..((length - 1) \div Stride) |-> 0] ELSE <<>>]

Text(chars) == Str(EncodeAll(chars), Len(chars))
Size(s)     == Len(s.bytes)
Units(s)    == IF s.length = 0 THEN Size(s) ELSE s.length       \* njs_string_prop()
IsUtf8(s)   == s.length \notin {0, Size(s)}
IsByte(s)   == s.length = 0 /\ s.bytes # <<>>
IsAscii(s)  == \A i \in DOMAIN s.bytes : s.bytes[i] < 128

(* njs_string_offset_map_init().                                           *)
OffsetMap(bytes) == [k \in 1..((Length(bytes) - 1) \div Stride) |-> Walk(bytes, 0, k * Stride)]

Mapped(s) == IF s.map # <<>> /\ s.map[1] = 0 THEN [s EXCEPT !.map = OffsetMap(s.bytes)] ELSE s

(* njs_string_offset(), which wants an index below the length: from the    *)
(* end of a string whose length Stride divides it looks behind the map.    *)
OutsideMap(s, index) == IsUtf8(s) /\ index >= Stride /\ index \div Stride > Len(s.map)

Offset(s, index) ==
    IF index < Stride THEN Walk(s.bytes, 0, index)
    ELSE Walk(s.bytes, Mapped(s).map[index \div Stride], index % Stride)

(* The string after its offsets from an index were asked for.              *)
Asked(s, index) == IF IsUtf8(s) /\ index >= Stride THEN Mapped(s) ELSE s

(* njs_string_index(): the index of the character at an offset.            *)
RECURSIVE Steps(_, _, _)
Steps(bytes, from, to) == IF from >= to THEN 0 ELSE 1 + Steps(bytes, NextChar(bytes, from), to)

Index(s, offset) ==
    LET map    == Mapped(s).map
        passed == {k \in DOMAIN map : k * Stride < s.length /\ map[k] <= offset}
    IN  IF Size(s) = s.length THEN offset
        ELSE IF passed = {} THEN Steps(s.bytes, 0, offset)
        ELSE Max(passed) * Stride + Steps(s.bytes, map[Max(passed)], offset)

(* What njs_string.h says of a string: length and map are those of bytes.  *)
Sound(s) ==
    /\ s.length # 0 => s.length = Length(s.bytes)
    /\ Len(s.map) = IF IsUtf8(s) /\ s.length > Stride THEN (s.length - 1) \div Stride ELSE 0
    /\ s.map # <<>> /\ s.map[1] # 0 => s.map = OffsetMap(s.bytes)

(* What ECMAScript sees: characters, or bytes.                             *)
Content(byte, text) == [byte |-> byte \/ text = <<>>, text |-> text]
Meaning(s) ==
    IF s.length = 0 \/ ~IsValid(s.bytes) THEN Content(TRUE, s.bytes) ELSE Content(FALSE, CharsFrom(s.bytes, 0))
Chars(s) == Meaning(s).text

(* The string of a part of a string, as njs_string_calc_length() counts.   *)
Part(s, from, to) ==
    LET bytes == Cut(s.bytes, from, to)
    IN  Str(bytes, IF s.length = 0 THEN 0 ELSE IF ~IsUtf8(s) THEN Len(bytes) ELSE AtLeast(Length(bytes), 0))

-----------------------------------------------------------------------------
(* Parts of strings.                                                       *)

(* njs_string_slice(), of a string that counts so many units.              *)
SliceStep(s, start, length, units) ==
    IF Size(s) = units THEN Str(Cut(s.bytes, start, start + length), IF s.length = 0 THEN 0 ELSE length)
    ELSE IF start >= units THEN Str(<<>>, 0)
    ELSE LET from == Offset(s, start)
             to   == Walk(s.bytes, from, length)
         IN  Str(Cut(s.bytes, from, to), Steps(s.bytes, from, to))

(* njs_string_slice_args(): where a slice starts and how long it is.       *)
SliceArgs(units, a, b) ==
    LET first == IF a = Undefined THEN 0 ELSE IF a < 0 THEN AtLeast(a + units, 0) ELSE a
        last  == IF b = Undefined THEN units ELSE IF b < 0 THEN b + units ELSE b
    IN  IF first >= units THEN [start |-> 0, length |-> 0]
        ELSE IF last > units THEN [start |-> first, length |-> units - first]
        ELSE IF last < first THEN [start |-> 0, length |-> 0]
        ELSE [start |-> first, length |-> last - first]

SliceOf(s, a, b) ==
    LET arg == SliceArgs(Units(s), a, b) IN SliceStep(s, arg.start, arg.length, Units(s))

(* njs_string_prototype_substring() and njs_string_prototype_substr(), by  *)
(* the arguments given: njs_value_to_integer() makes 0 of an undefined one,*)
(* which a missing one is not.                                             *)
ToInteger(v)          == IF v = Undefined THEN 0 ELSE v
Given(args, i, default) == IF Len(args) < i THEN default ELSE ToInteger(args[i])

Substring(s, args) ==
    LET Bound(p) == IF p < 0 THEN 0 ELSE AtMost(p, Units(s))
        start    == Bound(Given(args, 1, 0))
        end      == Bound(Given(args, 2, Units(s)))
    IN  SliceStep(s, AtMost(start, end), IF end < start THEN start - end ELSE end - start, Units(s))

Substr(s, args) ==
    LET asked == Given(args, 1, 0)
        start == IF asked < 0 THEN AtLeast(asked + Units(s), 0) ELSE asked
        rest  == Units(s) - start
    IN  IF asked >= Units(s) THEN SliceStep(s, 0, 0, Units(s))
        ELSE SliceStep(s, start, LET n == Given(args, 2, rest) IN IF n < 0 THEN 0 ELSE AtMost(n, rest), Units(s))

CharAt(s, p) ==
    IF p < 0 \/ p >= Units(s) THEN SliceStep(s, 0, 0, Units(s)) ELSE SliceStep(s, p, 1, Units(s))

CharCodeAt(s, p) ==
    IF p < 0 \/ p >= Units(s) THEN Undefined
    ELSE IF IsUtf8(s) THEN Decode(s.bytes, Offset(s, p)).char ELSE s.bytes[p + 1]

(* njs_string_prototype_from_utf8() and the other conversions; Undefined   *)
(* stands for null.                                                        *)
Counted(bytes) == IF IsValid(bytes) THEN Str(bytes, Length(bytes)) ELSE Undefined
Narrowed(chars) == IF \E i \in DOMAIN chars : chars[i] > 255 THEN Undefined ELSE Str(chars, 0)

FromUtf8(s, a, b) == IF s.length # 0 THEN SliceOf(s, a, b) ELSE Counted(SliceOf(s, a, b).bytes)

ToUtf8(s, a, b) == SliceOf([s EXCEPT !.length = 0], a, b)

FromBytes(s, a, b) ==
    IF s.length # 0 THEN SliceOf(s, a, b) ELSE Text(SliceOf(s, a, b).bytes)

ToBytes(s, a, b) ==
    IF s.length = 0 THEN SliceOf(s, a, b) ELSE Narrowed(CharsFrom(SliceOf(s, a, b).bytes, 0))

(* njs_string_validate(): -1, or the string with its length and a map.     *)
Validated(s) ==
    IF s.length # 0 \/ s.bytes = <<>> THEN s
    ELSE Counted(s.bytes)

-----------------------------------------------------------------------------
(* Searches.  Where a match may start: at every byte, or, in a UTF-8       *)
(* string, at every character.                                             *)
Starts(s)    == {p \in 0..Size(s) : ~IsUtf8(s) \/ p = Size(s) \/ ~Continues(s.bytes[p + 1])}
MatchesAt(s, w, p) == p + Size(w) <= Size(s) /\ Cut(s.bytes, p, p + Size(w)) = w.bytes

(* njs_string_prototype_index_of(): the answers that are possible.         *)
IndexOf(s, w, asked) ==
    LET index == IF asked = Undefined THEN 0 ELSE AtLeast(asked, 0)
        from  == IF IsUtf8(s) THEN Offset(s, index) ELSE index
        hits  == {p \in Starts(s) : p >= from /\ MatchesAt(s, w, p)}
    IN  IF Units(s) - index < Units(w) THEN {IF w.bytes = <<>> THEN Units(s) ELSE -1}
        ELSE IF OutsideMap(s, index) THEN {index, -1}
        ELSE IF hits = {} THEN {-1}
        ELSE {index + IF IsUtf8(s) THEN Steps(s.bytes, from, Min(hits)) ELSE Min(hits) - from}

(* njs_string_prototype_last_index_of(): the search starts no later than   *)
(* the argument still fits, which is before the string when it has more    *)
(* bytes than the string.                                                  *)
LastIndexOf(s, w, asked) ==
    LET index == IF asked = Undefined THEN Units(s) ELSE AtLeast(asked, 0)
        fits  == Size(s) - Size(w)
        from  == IF IsUtf8(s) THEN Offset(s, AtMost(index, Units(s) - 1)) ELSE AtMost(index, Units(s) - 1)
        hits  == {p \in Starts(s) : p <= from /\ MatchesAt(s, w, p)}
    IN  IF Units(s) < Units(w) THEN {-1}
        ELSE IF w.bytes = <<>> THEN {AtMost(index, Units(s))}
        ELSE IF fits < 0 THEN fits - 1..-1
        ELSE IF hits = {} THEN {-1}
        ELSE {IF IsUtf8(s) THEN Steps(s.bytes, 0, Max(hits)) ELSE Max(hits)}

(* njs_string_prototype_includes(), which looks at every byte.             *)
Includes(s, w, asked) ==
    LET index == IF asked = Undefined THEN 0 ELSE AtLeast(asked, 0)
        from  == IF IsUtf8(s) THEN Offset(s, index) ELSE index
    IN  \/ w.bytes = <<>>
        \/ Units(s) - index >= Units(w) /\ \E p \in from..Size(s) : MatchesAt(s, w, p)

(* njs_string_starts_or_ends_with().                                       *)
StartsOrEndsWith(s, w, asked, starts) ==
    LET length == Units(s)
        index  == IF starts THEN (IF asked = Undefined THEN 0 ELSE AtLeast(asked, 0))
                  ELSE (IF asked = Undefined \/ asked < 0 \/ asked > length THEN length ELSE asked) - Units(w)
    IN  \/ w.bytes = <<>>
        \/ /\ IF starts THEN length - index >= Units(w) ELSE index >= 0
           /\ MatchesAt(s, w, IF IsUtf8(s) THEN Offset(s, index) ELSE index)

-----------------------------------------------------------------------------
(* Other strings of the same characters.                                   *)

(* njs_string_prototype_to_lower_case(), njs_string_prototype_to_upper_case() *)
Folded(s, Fold(_)) ==
    IF IsUtf8(s) THEN Text([i \in 1..s.length |-> Fold(CharsFrom(s.bytes, 0)[i])])
    ELSE Str([i \in DOMAIN s.bytes |-> IF s.bytes[i] < 128 THEN Fold(s.bytes[i]) ELSE s.bytes[i]], s.length)

(* njs_string_trim(): the white space is counted from both ends.           *)
CharOf(s, p) == IF IsUtf8(s) THEN Decode(s.bytes, p).char ELSE s.bytes[p + 1]

RECURSIVE SkipSpace(_, _)
SkipSpace(s, p) ==
    IF p = Size(s) \/ CharOf(s, p) \notin WhiteSpace THEN p
    ELSE SkipSpace(s, IF IsUtf8(s) THEN NextChar(s.bytes, p) ELSE p + 1)

RECURSIVE SkipSpaceBack(_, _, _)
SkipSpaceBack(s, start, p) ==
    LET prev == IF IsUtf8(s) THEN PrevChar(s.bytes, p) ELSE p - 1
    IN  IF p = start \/ CharOf(s, prev) \notin WhiteSpace THEN p ELSE SkipSpaceBack(s, start, prev)

Trim(s, atStart, atEnd) ==
    LET start == IF atStart THEN SkipSpace(s, 0) ELSE 0
        end   == IF atEnd THEN SkipSpaceBack(s, start, Size(s)) ELSE Size(s)
        trim  == IF IsUtf8(s) THEN Steps(s.bytes, 0, start) + Steps(s.bytes, end, Size(s))
                 ELSE start + Size(s) - end
    IN  IF trim = 0 THEN s
        ELSE IF start = end THEN Str(<<>>, 0)
        ELSE Str(Cut(s.bytes, start, end), IF s.length = 0 THEN 0 ELSE s.length - trim)

Times(bytes, n) == FlattenSeq([i \in 1..n |-> bytes])

(* njs_string_prototype_repeat(); Undefined stands for RangeError.         *)
Repeat(s, n) ==
    IF n < 0 \/ n >= (IF Size(s) > 1 THEN MaxSize \div Size(s) ELSE MaxSize) THEN Undefined
    ELSE IF s.bytes = <<>> THEN Str(<<>>, 0)
    ELSE Str(Times(s.bytes, n), s.length * n)

(* njs_string_prototype_pad().  The new length is stored, in a byte string *)
(* too.                                                                    *)
PadWithRest(s, n, pad, rest, atStart) ==
    LET padding == Times(pad.bytes, rest \div Units(pad))
                   \o Cut(pad.bytes, 0, IF IsUtf8(pad) THEN Offset(pad, rest % Units(pad)) ELSE rest % Units(pad))
    IN  IF n <= Units(s) \/ pad.bytes = <<>> THEN s
        ELSE IF n >= MaxSize THEN Undefined
        ELSE Str(IF atStart THEN padding \o s.bytes ELSE s.bytes \o padding, n)
PadBySize(s, n, pad, atStart) == PadWithRest(s, n, pad, AtLeast(n - Size(s), 0), atStart)   \* mutant
Pad(s, n, pad, atStart)       == PadWithRest(s, n, pad, n - Units(s), atStart)

(* njs_string_prototype_concat().                                          *)
Concat(s, w) ==
    Str(s.bytes \o w.bytes, IF IsByte(s) \/ IsByte(w) THEN 0 ELSE s.length + w.length)

-----------------------------------------------------------------------------
(* Regular expressions, of which PCRE finds the first match: the offsets   *)
(* where it starts and ends, from the place the search starts at.          *)
(* A pattern has words as its alternatives, or "$", which matches nothing, *)
(* at the end.                                                             *)
NoMatch   == <<>>
EndOfText == <<-1>>

Find(pattern, s, start) ==
    LET Alt(p) == {i \in DOMAIN pattern : IF pattern[i] = EndOfText THEN p = Size(s) ELSE MatchesAt(s, Text(pattern[i]), p)}
        hits   == {p \in Starts(s) : p >= start /\ Alt(p) # {}}
    IN  IF hits = {} THEN NoMatch
        ELSE LET p    == Min(hits)
                 word == pattern[Min(Alt(p))]
             IN  <<p - start, p - start + IF word = EndOfText THEN 0 ELSE Len(EncodeAll(word))>>

CanBeEmpty(pattern) == \E i \in DOMAIN pattern : pattern[i] \in {<<>>, EndOfText}
After(s, p)         == IF IsByte(s) THEN p + 1 ELSE NextChar(s.bytes, p)

(* njs_string_prototype_search().                                          *)
Search(s, pattern) ==
    LET m == Find(pattern, s, 0) IN IF m = NoMatch THEN -1 ELSE Index(s, m[1])

(* njs_string_match_multiple(): the loop from an offset.                   *)
RECURSIVE MatchMultiple(_, _, _)
MatchMultiple(s, pattern, p) ==
    LET m == Find(pattern, s, p)
    IN  IF p > Size(s) \/ m = NoMatch THEN <<>>
        ELSE IF m[2] = 0
             THEN <<Str(<<>>, 0)>> \o MatchMultiple(s, pattern, IF p < Size(s) THEN After(s, p) ELSE p + 1)
        ELSE <<Part(s, p + m[1], p + m[2])>> \o MatchMultiple(s, pattern, p + m[2])

(* njs_string_prototype_split(), by what Sep finds from an offset.  An     *)
(* empty separator stands after the next character; at the end of the      *)
(* string it takes in a byte behind the string.                            *)
RECURSIVE SplitFrom(_, _, _, _)
SplitFrom(s, Sep(_), start, limit) ==
    LET m     == Sep(start)
        end   == Size(s)
        empty == m # NoMatch /\ m[1] = m[2]
        p     == IF m = NoMatch THEN end
                 ELSE IF ~empty THEN start + m[1]
                 ELSE IF start + m[1] = end THEN end + 1 ELSE After(s, start + m[1])
        next  == IF m = NoMatch THEN end + 1 ELSE IF empty THEN p ELSE start + m[2]
        piece == IF p > end THEN Str(Cut(s.bytes, start, end) \o <<0>>, 0) ELSE Part(s, start, p)
    IN  <<piece>> \o IF limit = 1 \/ p >= end THEN <<>> ELSE SplitFrom(s, Sep, next, limit - 1)

Split(s, pattern, limit) ==
    LET Sep(start) == Find(pattern, s, start)
    IN  IF limit = 0 THEN <<>>
        ELSE IF s.bytes = <<>> THEN <<s>>
        ELSE SplitFrom(s, Sep, 0, limit)

SplitBy(s, w, limit) ==
    LET Sep(start) == LET hits == {p \in start..Size(s) : MatchesAt(s, w, p)}
                      IN  IF hits = {} THEN NoMatch ELSE <<Min(hits) - start, Min(hits) + Size(w) - start>>
    IN  IF limit = 0 THEN <<>>
        ELSE IF s.bytes = <<>> \/ Size(s) < Size(w) THEN <<s>>
        ELSE SplitFrom(s, Sep, 0, limit)

-----------------------------------------------------------------------------
(* Replacement.                                                            *)

(* njs_string_replace_join().                                              *)
Join(parts) ==
    LET lengths == [i \in DOMAIN parts |-> Length(parts[i])]
    IN  Str(FlattenSeq(parts),
            IF \E i \in DOMAIN parts : lengths[i] < 0 THEN 0
            ELSE FoldLeft(LAMBDA a, b : a + b, 0, lengths))

(* njs_string_replace_parse() of a replacement without captures: copies,   *)
(* and the characters ` & ' that followed a dollar.                        *)
Dollar == 36
Specials == {96, 38, 39}

RECURSIVE Parse(_)
Parse(t) ==
    LET Copy(from, to) == <<[type |-> 0, bytes |-> Cut(t, from, to)]>> \o Parse(Cut(t, to, Len(t)))
        digits == IF Len(t) > 2 /\ t[3] \in 48..57 THEN 3 ELSE 2
    IN  IF t = <<>> THEN <<>>
        ELSE IF t[1] # Dollar \/ Len(t) = 1 THEN Copy(0, 1)
        ELSE IF t[2] = Dollar THEN Copy(1, 2)
        ELSE IF t[2] \in 49..57 THEN Copy(0, digits)
        ELSE IF t[2] \in Specials THEN <<[type |-> t[2], bytes |-> <<>>]>> \o Parse(Cut(t, 2, Len(t)))
        ELSE Copy(0, 2)

(* njs_string_replace_substitute(): the parts in place of what was found   *)
(* from an offset of the string to another, of a search begun at start.    *)
Substituted(s, parts, from, end) ==
    [i \in DOMAIN parts |->
        CASE parts[i].type = 0  -> parts[i].bytes
          [] parts[i].type = 96 -> Cut(s.bytes, 0, from)
          [] parts[i].type = 39 -> Cut(s.bytes, end, Size(s))
          [] parts[i].type = 38 -> Cut(s.bytes, from, end)]

Substitute(s, template, start, m) ==
    LET end == IF m[2] = 0 /\ start < Size(s) THEN NextChar(s.bytes, start) ELSE start + m[2]
    IN  Substituted(s, Parse(template), start + m[1], end)

(* What stands for a match: the parts of a template, or a literal or a     *)
(* function's answer as it is.                                             *)
ReplacedBy(s, t, by, start, m) == IF by = "template" THEN Substitute(s, t, start, m) ELSE <<t>>

(* njs_string_replace_regexp() and njs_string_replace_regexp_function().   *)
(* A character behind a match that ends where its search began is a part   *)
(* of its own, which a template replaces too.  The answer of a function    *)
(* takes the place of what stands before any empty match, and the part for *)
(* the match itself is then set only if the search began there.            *)
Unset == <<-1>>

RECURSIVE ReplaceRegexp(_, _, _, _, _, _)
ReplaceRest(s, pattern, global, t, by, p) ==
    IF global THEN ReplaceRegexp(s, pattern, global, t, by, p) ELSE <<Cut(s.bytes, p, Size(s))>>

ReplaceFound(s, pattern, global, t, by, start, m) ==
    LET next == IF m[2] # 0 THEN start + m[2] ELSE IF by = "template" THEN NextChar(s.bytes, start) ELSE After(s, start)
        kept == IF m[2] # 0 \/ by = "template" THEN <<>> ELSE <<Cut(s.bytes, start, next)>>
    IN  (IF by = "function" /\ m[1] = m[2] THEN (IF m[2] = 0 THEN <<t>> ELSE <<t, Unset>>)
         ELSE (IF m[2] = 0 THEN <<>> ELSE <<Cut(s.bytes, start, start + m[1])>>) \o ReplacedBy(s, t, by, start, m))
        \o IF m[2] = 0 /\ start = Size(s) THEN <<>> ELSE kept \o ReplaceRest(s, pattern, global, t, by, next)

ReplaceRegexp(s, pattern, global, t, by, start) ==
    IF start > Size(s) THEN <<>>
    ELSE IF Find(pattern, s, start) = NoMatch THEN <<Cut(s.bytes, start, Size(s))>>
    ELSE ReplaceFound(s, pattern, global, t, by, start, Find(pattern, s, start))

(* The arguments of the calls of a replacement function: the offset and    *)
(* the whole string, with the length of what was still to be searched.     *)
RECURSIVE Calls(_, _, _, _)
CallFor(s, pattern, global, start, m) ==
    LET next == IF m[2] = 0 THEN (IF start < Size(s) THEN After(s, start) ELSE start + 1) ELSE start + m[2]
    IN  <<[offset |-> m[1], whole |-> Str(s.bytes, Part(s, start, Size(s)).length)]>>
        \o IF global THEN Calls(s, pattern, global, next) ELSE <<>>

Calls(s, pattern, global, start) ==
    IF start > Size(s) \/ Find(pattern, s, start) = NoMatch THEN <<>>
    ELSE CallFor(s, pattern, global, start, Find(pattern, s, start))

(* njs_string_prototype_replace() by a search string: the first place it   *)
(* is at.                                                                  *)
ReplaceSearch(s, w, t, by) ==
    LET hits == {p \in Starts(s) : MatchesAt(s, w, p)}
        m    == <<Min(hits), Min(hits) + Size(w)>>
        rest == IF by = "template" /\ m[2] = 0 THEN NextChar(s.bytes, 0) ELSE m[2]
    IN  IF s.bytes = <<>> \/ hits = {} THEN s
        ELSE Join(<<Cut(s.bytes, 0, m[1])>> \o ReplacedBy(s, t, by, 0, m) \o <<Cut(s.bytes, rest, Size(s))>>)

-----------------------------------------------------------------------------
(* Encodings.                                                              *)
Hex(d)    == IF d < 10 THEN 48 + d ELSE 97 + d - 10
HexUp(d)  == IF d < 10 THEN 48 + d ELSE 65 + d - 10
HexOf(c)  == IF c \in 48..57 THEN c - 48 ELSE IF c \in 65..70 THEN c - 55 ELSE IF c \in 97..102 THEN c - 87 ELSE -1

(* njs_string_hex() and njs_string_decode_hex().                           *)
ToHex(bytes) == FlattenSeq([i \in DOMAIN bytes |-> <<Hex(bytes[i] \div 16), Hex(bytes[i] % 16)>>])

RECURSIVE DecodeHex(_)
DecodeHex(src) ==
    IF Len(src) < 2 \/ HexOf(src[1]) < 0 \/ HexOf(src[2]) < 0 THEN <<>>
    ELSE <<HexOf(src[1]) * 16 + HexOf(src[2])>> \o DecodeHex(Cut(src, 2, Len(src)))

(* njs_encode_base64_core() and njs_decode_base64_core().                  *)
Basis(d, url) ==
    IF d < 26 THEN 65 + d ELSE IF d < 52 THEN 71 + d ELSE IF d < 62 THEN d - 4
    ELSE IF d = 62 THEN (IF url THEN 45 ELSE 43) ELSE (IF url THEN 95 ELSE 47)
Digit(c, url) == IF \E d \in 0..63 : Basis(d, url) = c THEN CHOOSE d \in 0..63 : Basis(d, url) = c ELSE 77

RECURSIVE ToBase64(_, _)
ToBase64(b, url) ==
    LET B(d) == Basis(d, url)
        high == B(b[1] \div 4)
    IN  CASE b = <<>>   -> <<>>
          [] Len(b) = 1 -> <<high, B((b[1] % 4) * 16)>> \o (IF url THEN <<>> ELSE <<61, 61>>)
          [] Len(b) = 2 -> <<high, B((b[1] % 4) * 16 + (b[2] \div 16)), B((b[2] % 16) * 4)>>
                           \o (IF url THEN <<>> ELSE <<61>>)
          [] OTHER      -> <<high, B((b[1] % 4) * 16 + (b[2] \div 16)),
                             B((b[2] % 16) * 4 + (b[3] \div 64)), B(b[3] % 64)>>
                           \o ToBase64(Cut(b, 3, Len(b)), url)

RECURSIVE FromDigits(_)
FromDigits(d) ==
    IF Len(d) < 2 THEN <<>>
    ELSE <<(d[1] * 4 + (d[2] \div 16)) % 256>>
         \o (IF Len(d) > 2 THEN <<(d[2] * 16 + (d[3] \div 4)) % 256>> ELSE <<>>)
         \o (IF Len(d) > 3 THEN <<(d[3] * 64 + d[4]) % 256>> \o FromDigits(Cut(d, 4, Len(d))) ELSE <<>>)

DecodeBase64(src, url) ==
    LET bad == {i \in DOMAIN src : Digit(src[i], url) = 77}
        len == IF bad = {} THEN Len(src) ELSE Min(bad) - 1
    IN  FromDigits([i \in 1..(IF len % 4 = 1 THEN len - 1 ELSE len) |-> Digit(src[i], url)])

(* njs_string_encode(): what the bitmaps of encodeURI() and of             *)
(* encodeURIComponent() leave as it is.                                    *)
Unescaped(component) ==
    (48..57) \cup (65..90) \cup (97..122) \cup {45, 95, 46, 33, 126, 42, 39, 40, 41}
    \cup (IF component THEN {} ELSE {59, 47, 63, 58, 64, 38, 61, 43, 36, 44, 35})

EncodeUri(s, component) ==
    LET Of(b) == IF b \in Unescaped(component) THEN <<b>> ELSE <<37, HexUp(b \div 16), HexUp(b % 16)>>
        bytes == FlattenSeq([i \in DOMAIN s.bytes |-> Of(s.bytes[i])])
    IN  IF bytes = s.bytes THEN s ELSE Str(bytes, Len(bytes))

(* njs_string_decode(): the result is allocated as ASCII, and its length   *)
(* is counted when a byte that was escaped is not.  Undefined: URIError.   *)
Reserved(component) == IF component THEN {} ELSE {59, 47, 63, 58, 64, 38, 61, 43, 36, 44, 35}

RECURSIVE Unescape(_, _)
Unescape(src, kept) ==
    LET Byte == HexOf(src[2]) * 16 + HexOf(src[3])
    IN  IF src = <<>> THEN [ok |-> TRUE, bytes |-> <<>>, high |-> FALSE]
        ELSE IF src[1] # 37
             THEN LET r == Unescape(Cut(src, 1, Len(src)), kept) IN [r EXCEPT !.bytes = <<src[1]>> \o @]
        ELSE IF Len(src) < 3 \/ HexOf(src[2]) < 0 \/ HexOf(src[3]) < 0
             THEN [ok |-> FALSE, bytes |-> <<>>, high |-> FALSE]
        ELSE LET r == Unescape(Cut(src, 3, Len(src)), kept)
             IN  [r EXCEPT !.bytes = (IF Byte \in kept THEN Cut(src, 0, 3) ELSE <<Byte>>) \o @,
                           !.high = @ \/ Byte >= 128]

DecodeUri(s, component) ==
    LET r == Unescape(s.bytes, Reserved(component))
        n == Len(r.bytes)
    IN  IF ~r.ok THEN Undefined
        ELSE IF n = Size(s) THEN s
        ELSE [Str(r.bytes, n) EXCEPT !.length = IF r.high THEN AtLeast(Length(r.bytes), 0) ELSE n]

(* njs_string_from_char_code() and njs_string_from_code_point().           *)
FromCharCode(codes)  == Text([i \in DOMAIN codes |-> codes[i] % 65536])
FromCodePoint(codes) ==
    IF \E i \in DOMAIN codes : codes[i] \notin 0..MaxChar THEN Undefined ELSE Text(codes)

(* njs_string_bytes_from_array().                                          *)
BytesFrom(numbers) == Str([i \in DOMAIN numbers |-> numbers[i] % 256], 0)

(* njs_string_cmp() and njs_string_eq().                                   *)
RECURSIVE Compare(_, _)
Compare(a, b) ==
    IF a = <<>> \/ b = <<>> THEN Len(a) - Len(b)
    ELSE IF a[1] # b[1] THEN a[1] - b[1] ELSE Compare(Cut(a, 1, Len(a)), Cut(b, 1, Len(b)))

Equal(s, w) ==
    Size(s) = Size(w) /\ (s.length = 0 \/ w.length = 0 \/ s.length = w.length) /\ s.bytes = w.bytes

-----------------------------------------------------------------------------
(* ECMAScript, on sequences of characters (of bytes, for a byte string).   *)

(* An argument in the units of the string it is an argument of; a string   *)
(* of bytes that are not ASCII is not compared with one of characters.     *)
As(s, w)         == IF s.length = 0 THEN w.bytes ELSE Chars(w)
Comparable(s, w) ==
    \/ s.length = 0 /\ w.length = 0
    \/ ~IsByte(s) /\ ~IsByte(w)
    \/ IsAscii(s) /\ IsAscii(w)

From(text, p, default) ==
    IF p = Undefined THEN default ELSE IF p < 0 THEN AtLeast(p + Len(text), 0) ELSE AtMost(p, Len(text))

StdSlice(text, a, b) == Cut(text, From(text, a, 0), From(text, b, Len(text)))

(* Where a text is in another.                                             *)
Places(text, word)    == {p \in 0..Len(text) : p + Len(word) <= Len(text) /\ Cut(text, p, p + Len(word)) = word}
FirstPlace(places)    == IF places = {} THEN -1 ELSE Min(places)

(* What a regular expression matches from a place on, and all its matches. *)
StdFind(text, alternatives, from) ==
    LET At(word)    == IF word = EndOfText THEN {Len(text)} ELSE Places(text, word)
        Width(word) == IF word = EndOfText THEN 0 ELSE Len(word)
        at   == [i \in DOMAIN alternatives |-> {p \in At(alternatives[i]) : p >= from}]
        hits == UNION {at[i] : i \in DOMAIN alternatives}
    IN  IF hits = {} THEN NoMatch
        ELSE <<Min(hits), Min(hits) + Width(alternatives[Min({i \in DOMAIN alternatives : Min(hits) \in at[i]})])>>

RECURSIVE StdMatches(_, _, _)
StdMatches(text, alternatives, from) ==
    LET After1(m) == <<m>> \o StdMatches(text, alternatives, IF m[1] = m[2] THEN m[2] + 1 ELSE m[2])
        first     == StdFind(text, alternatives, from)
    IN  IF first = NoMatch THEN <<>> ELSE After1(first)

(* The pieces between separators that are not empty, and all characters    *)
(* between empty ones.                                                     *)
Between(text, matches) ==
    [i \in 1..Len(matches) + 1 |-> Cut(text, IF i = 1 THEN 0 ELSE matches[i - 1][2],
                                             IF i > Len(matches) THEN Len(text) ELSE matches[i][1])]

StdSplit(text, alternatives) ==
    IF <<>> \in Range(alternatives) THEN [i \in DOMAIN text |-> <<text[i]>>]
    ELSE Between(text, StdMatches(text, alternatives, 0))

(* GetSubstitution() of a template without captures.                       *)
RECURSIVE StdExpand(_, _, _)
StdExpand(t, text, m) ==
    LET special == Len(t) > 1 /\ t[1] = Dollar /\ t[2] \in Specials \cup {Dollar}
        rest    == StdExpand(Cut(t, IF special THEN 2 ELSE 1, Len(t)), text, m)
    IN  IF t = <<>> THEN <<>>
        ELSE IF ~special THEN <<t[1]>> \o rest
        ELSE (CASE t[2] = Dollar -> <<Dollar>>
                [] t[2] = 96     -> Cut(text, 0, m[1])
                [] t[2] = 39     -> Cut(text, m[2], Len(text))
                [] t[2] = 38     -> Cut(text, m[1], m[2])) \o rest

StdReplace(text, matches, By(_)) ==
    LET n == Len(matches)
        Gap(i) == Cut(text, IF i = 1 THEN 0 ELSE matches[i - 1][2], matches[i][1])
    IN  IF n = 0 THEN text
        ELSE FlattenSeq([i \in 1..n |-> Gap(i) \o By(matches[i])]) \o Cut(text, matches[n][2], Len(text))

-----------------------------------------------------------------------------
(* The methods.  Strings that may come in are sound.                       *)
Arguments == {Text(w) : w \in Words} \cup {Str(o, 0) : o \in Octets}
MaybePositions == Positions \cup {Undefined}

Init ==
    /\ this \in {Text(t) : t \in Texts} \cup {Str(o, 0) : o \in Octets}
    /\ agrees = TRUE /\ sound = TRUE

(* A string that is what it should be; Undefined is null or an error.      *)
Same(made, standard) ==
    IF standard = Undefined THEN made = Undefined
    ELSE made # Undefined /\ Sound(made) /\ Meaning(made) = standard

Answer(next, ok, made) ==
    /\ this' = next
    /\ agrees' = ok
    /\ sound' = \A s \in made \ {Undefined} : Sound(s)

Made(next, made, standard) == Answer(next, Same(made, standard), {made})

Byte == IsByte(this)
Std(text) == Content(Byte, text)

Slice == \E a, b \in MaybePositions :
    Made(Asked(this, SliceArgs(Units(this), a, b).start), SliceOf(this, a, b), Std(StdSlice(Chars(this), a, b)))

(* An undefined second argument is the end of the string in ECMAScript; it *)
(* is 0 here.                                                              *)
ArgumentLists == {<<>>} \cup {<<a>> : a \in MaybePositions} \cup {<<a, b>> : a, b \in MaybePositions}

SubstringOf == \E args \in ArgumentLists :
    LET Bound(p) == AtMost(AtLeast(p, 0), Len(Chars(this)))
        from     == Bound(Given(args, 1, 0))
        to       == Bound(Given(args, 2, Len(Chars(this))))
    IN  Made(Asked(this, AtMost(from, to)), Substring(this, args), Std(Cut(Chars(this), AtMost(from, to), AtLeast(from, to))))

SubstrOf == \E args \in ArgumentLists :
    LET from == From(Chars(this), Given(args, 1, 0), 0)
        to   == AtMost(Len(Chars(this)), from + AtLeast(Given(args, 2, Len(Chars(this))), 0))
    IN  Made(this, Substr(this, args), Std(Cut(Chars(this), from, to)))

Char == \E p \in Positions :
    LET inside == p \in 0..Len(Chars(this)) - 1
    IN  Answer(IF inside THEN Asked(this, p) ELSE this,
               /\ Same(CharAt(this, p), Std(IF inside THEN <<Chars(this)[p + 1]>> ELSE <<>>))
               /\ CharCodeAt(this, p) = IF inside THEN Chars(this)[p + 1] ELSE Undefined
               /\ Units(this) = Len(Chars(this)),
               {CharAt(this, p)})

(* The conversions of a whole string are its new value.                    *)
Convert == \E a \in MaybePositions :
    LET part == StdSlice(Chars(this), a, Undefined)
        raw  == StdSlice(this.bytes, a, Undefined)
        asCharacters == FromUtf8(this, a, Undefined)
        asBytes      == ToBytes(this, a, Undefined)
        wide         == \E i \in DOMAIN part : part[i] > 255
    IN  \E whole \in {asCharacters, ToUtf8(this, a, Undefined), FromBytes(this, a, Undefined), asBytes} \ {Undefined} :
            Size(whole) <= Longest /\ Answer(IF a = Undefined THEN whole ELSE Asked(this, SliceArgs(Units(this), a, Undefined).start),
                   /\ Same(asCharacters, IF ~Byte THEN Content(FALSE, part)
                                         ELSE IF IsValid(raw) THEN Content(FALSE, CharsFrom(raw, 0)) ELSE Undefined)
                   /\ Same(ToUtf8(this, a, Undefined), Content(TRUE, raw))
                   /\ Same(FromBytes(this, a, Undefined), Content(FALSE, part))
                   /\ Same(asBytes, IF ~Byte /\ wide THEN Undefined ELSE Content(TRUE, part)),
                   {whole})

Validate ==
    LET s == Validated(this)
    IN  Made(IF s = Undefined THEN this ELSE s, s,
             IF IsValid(this.bytes) THEN Content(FALSE, CharsFrom(this.bytes, 0)) ELSE Undefined)

(* The places of a word.  lastIndexOf() of a word that has more bytes than *)
(* the string and no more characters departs from ECMAScript; indexOf() of *)
(* an empty word behind the map may.                                       *)
Find1 == \E w \in Arguments, p \in MaybePositions :
    LET text  == Chars(this)
        word  == As(this, w)
        at    == Places(text, word)
        index == IF p = Undefined THEN 0 ELSE AtLeast(p, 0)
        first == IF word = <<>> THEN AtMost(index, Len(text)) ELSE FirstPlace({q \in at : q >= index})
        upTo  == {q \in at : p = Undefined \/ q <= index}
        final == IF upTo = {} THEN -1 ELSE Max(upTo)
        end   == IF p = Undefined \/ p \notin 0..Len(text) THEN Len(text) ELSE p
    IN  /\ Comparable(this, w)
        /\ Answer(IF index < Len(text) THEN Asked(this, index) ELSE this,
                  /\ OutsideMap(this, index) \/ IndexOf(this, w, p) = {first}
                  /\ (Size(w) > Size(this) /\ Units(w) <= Units(this)) \/ LastIndexOf(this, w, p) = {final}
                  /\ Includes(this, w, p) = (first # -1)
                  /\ StartsOrEndsWith(this, w, p, TRUE) = (word = <<>> \/ index \in at)
                  /\ StartsOrEndsWith(this, w, p, FALSE) = (word = <<>> \/ end - Len(word) \in at),
                  {})

Case ==
    LET Std1(Fold(_)) == [i \in DOMAIN Chars(this) |->
                             IF Byte /\ Chars(this)[i] > 127 THEN Chars(this)[i] ELSE Fold(Chars(this)[i])]
    IN  \/ Made(this, Folded(this, Lower), Std(Std1(Lower)))
        \/ Made(this, Folded(this, Upper), Std(Std1(Upper)))

TrimEnds == \E atStart, atEnd \in BOOLEAN :
    LET text == Chars(this)
        ink  == {i \in DOMAIN text : text[i] \notin WhiteSpace}
        from == IF ~atStart THEN 1 ELSE IF ink = {} THEN Len(text) + 1 ELSE Min(ink)
        to   == IF ~atEnd THEN Len(text) ELSE IF ink = {} THEN 0 ELSE Max(ink)
    IN  Made(this, Trim(this, atStart, atEnd), Std(SubSeq(text, from, to)))

RepeatTimes == \E n \in Positions :
    Made(this, Repeat(this, n),
         IF n < 0 \/ n >= (IF Size(this) > 1 THEN MaxSize \div Size(this) ELSE MaxSize) THEN Undefined
         ELSE Std(Times(Chars(this), n)))

(* padStart() and padEnd() give a length to byte strings too.              *)
PadTo == \E n \in Positions, w \in Arguments, atStart \in BOOLEAN :
    LET text == Chars(this)
        word == Chars(w)
        fill == [i \in 1..AtLeast(n - Len(text), 0) |-> word[((i - 1) % Len(word)) + 1]]
        made == Pad(this, n, w, atStart)
    IN  Answer(this,
               \/ IsByte(this) \/ IsByte(w)
               \/ Same(made, IF n <= Len(text) \/ word = <<>> THEN Std(text)
                             ELSE IF n >= MaxSize THEN Undefined
                             ELSE Content(FALSE, IF atStart THEN fill \o text ELSE text \o fill)),
               {made})

Append1 == \E w \in Arguments :
    LET mixed == IsByte(this) \/ IsByte(w)
    IN  /\ Size(this) + Size(w) < MaxSize
        /\ Answer(this,
                  /\ Same(Concat(this, w), IF mixed THEN Content(TRUE, this.bytes \o w.bytes)
                                           ELSE Content(FALSE, Chars(this) \o Chars(w)))
                  /\ ~mixed => (Compare(this.bytes, w.bytes) < 0) = (Compare(Chars(this), Chars(w)) < 0)
                  /\ Equal(this, w) = (this.bytes = w.bytes),
                  {Concat(this, w)})

(* Regular expressions.  search() counts the bytes of a byte string as     *)
(* characters, match() gives an empty array for null, and split() by what  *)
(* matches the empty string and others cuts in the wrong places; a global  *)
(* match finds "$" twice.                                                  *)
Alternatives(pattern) ==
    [i \in DOMAIN pattern |-> IF pattern[i] = EndOfText THEN EndOfText ELSE As(this, Text(pattern[i]))]

Pieces(made, standard, limit) ==
    /\ Len(made) = AtMost(limit, Len(standard))
    /\ \A i \in DOMAIN made : Same(made[i], Std(standard[i]))

Matched(text, matches) == [i \in DOMAIN matches |-> Cut(text, matches[i][1], matches[i][2])]

Match == \E pattern \in Patterns :
    LET found == StdFind(Chars(this), Alternatives(pattern), 0)
        all   == Matched(Chars(this), StdMatches(Chars(this), Alternatives(pattern), 0))
    IN  Answer(IF found = NoMatch \/ this.length < Stride THEN this ELSE Mapped(this),
               /\ (Byte /\ ~IsAscii(this)) \/ Search(this, pattern) = (IF found = NoMatch THEN -1 ELSE found[1])
               /\ EndOfText \in Range(pattern) \/ Pieces(MatchMultiple(this, pattern, 0), all, Len(this.bytes) + 1),
               Range(MatchMultiple(this, pattern, 0)))

SplitWith == \E limit \in {0, 1, 2, 100} :
    \/ \E pattern \in Patterns :
         /\ CanBeEmpty(pattern) => pattern = <<<<>>>>
         /\ Answer(this, this.bytes = <<>> \/ Pieces(Split(this, pattern, limit), StdSplit(Chars(this), Alternatives(pattern)), limit),
                   Range(Split(this, pattern, limit)))
    \/ \E w \in Arguments :
         /\ Comparable(this, w)
         /\ Answer(this, this.bytes = <<>> \/ Pieces(SplitBy(this, w, limit), StdSplit(Chars(this), <<As(this, w)>>), limit),
                   Range(SplitBy(this, w, limit)))

(* Replacement keeps the bytes of a byte string, and its kind only when    *)
(* they are not UTF-8.  An empty match and a template lose a character;    *)
(* "$" is found twice in a global search, and a function's answer for it   *)
(* leaves a part unset; nothing is replaced in the empty string.           *)
Bytes(text) == IF Byte THEN text ELSE EncodeAll(text)

Replaced(made, standard, loose) ==
    Answer(this, Sound(made) /\ (this.bytes = <<>> \/ loose \/ made.bytes = Bytes(standard)), {made})

First(matches, global) == IF global THEN matches ELSE Cut(matches, 0, AtMost(1, Len(matches)))
Empty(matches)         == \E i \in DOMAIN matches : matches[i][1] = matches[i][2]

(* A replacement is a template when there is a dollar in it.               *)
Kinds(t) == {"function", IF Dollar \in Range(t) THEN "template" ELSE "literal"}

ReplaceBy == \E pattern \in Patterns, global \in BOOLEAN, t \in Templates : \E by \in Kinds(t) :
    LET matches  == First(StdMatches(Chars(this), Alternatives(pattern), 0), global)
        parts    == ReplaceRegexp(this, pattern, global, t, by, 0)
        StdBy(m) == IF by = "template" THEN StdExpand(t, Chars(this), m) ELSE t
    IN  IF this.bytes = <<>> \/ Find(pattern, this, 0) = NoMatch THEN Replaced(this, Chars(this), FALSE)
        ELSE IF Unset \in Range(parts) THEN Answer(this, EndOfText \in Range(pattern) /\ by = "function", {})
        ELSE Replaced(Join(parts), StdReplace(Chars(this), matches, StdBy),
                      \/ by = "template" /\ Empty(matches)
                      \/ EndOfText \in Range(pattern) /\ global)

(* A replacement function gets offsets in bytes that count from the end of *)
(* the last match, and a whole string with the length of what is left.     *)
ReplaceByFunction == \E pattern \in Patterns, global \in BOOLEAN :
    LET found == StdFind(Chars(this), Alternatives(pattern), 0)
        AsFound(calls) ==
            Answer(this,
                   /\ (calls = <<>>) = (found = NoMatch)
                   /\ calls # <<>> /\ ~IsUtf8(this) =>
                          calls[1].offset = found[1] /\ calls[1].whole.bytes = this.bytes,
                   {calls[i].whole : i \in DOMAIN calls})
    IN  this.bytes # <<>> /\ AsFound(Calls(this, pattern, global, 0))

(* By a word.                                                              *)
ReplaceWord == \E w \in Arguments, t \in Templates : \E by \in Kinds(t) :
    LET word  == As(this, w)
        at    == Places(Chars(this), word)
        match == IF at = {} THEN <<>> ELSE <<<<Min(at), Min(at) + Len(word)>>>>
        StdBy(m) == IF by = "template" THEN StdExpand(t, Chars(this), m) ELSE t
    IN  /\ Comparable(this, w)
        /\ Replaced(ReplaceSearch(this, w, t, by), StdReplace(Chars(this), match, StdBy), by = "template" /\ word = <<>>)

(* Encodings: what was encoded is what decoding gives; what is no UTF-8    *)
(* can still be decoded and printed.                                       *)
Encodings ==
    LET b == this.bytes
        Digits64(url) == {Basis(d, url) : d \in 0..63} \cup (IF url THEN {} ELSE {61})
        Back64(url)   == /\ DecodeBase64(ToBase64(b, url), url) = b
                         /\ Range(ToBase64(b, url)) \subseteq Digits64(url)
                         /\ url \/ Len(ToBase64(b, url)) = 4 * ((Len(b) + 2) \div 3)
    IN  Answer(this,
               /\ DecodeHex(ToHex(b)) = b /\ Len(ToHex(b)) = 2 * Len(b)
               /\ \A url \in BOOLEAN : Back64(url)
               /\ \A component \in BOOLEAN :
                      /\ IsAscii(EncodeUri(this, component))
                      /\ component => LET back == DecodeUri(EncodeUri(this, TRUE), TRUE)
                                      IN  back # Undefined /\ back.bytes = b
               /\ BytesFrom([i \in DOMAIN b |-> b[i] - 256 * i]).bytes = b
               /\ IsValid(b) => SafeChars(b, 0) = CharsFrom(b, 0) /\ CaseCompare(b, Folded(this, Upper).bytes) = 0
               /\ SafeSize(b) = Len(b) \/ ~IsValid(b)
               /\ Same(FromCodePoint(Chars(this)), Content(FALSE, Chars(this)))
               /\ Same(FromCharCode(Chars(this)), Content(FALSE, [i \in DOMAIN Chars(this) |-> Chars(this)[i] % 65536])),
               {EncodeUri(this, TRUE), EncodeUri(this, FALSE)})

(* decodeURI(): a string that was not ASCII, and a decoded string that     *)
(* needs a map, come out with a length or a map that is wrong.             *)
RECURSIVE StdUnescape(_, _)
StdUnescape(t, kept) ==
    LET ok == Len(t) > 2 /\ HexOf(t[2]) >= 0 /\ HexOf(t[3]) >= 0
        b  == HexOf(t[2]) * 16 + HexOf(t[3])
    IN  IF t = <<>> THEN <<>>
        ELSE IF t[1] = 37 /\ ~ok THEN <<Undefined>>
        ELSE (IF t[1] # 37 THEN <<t[1]>> ELSE IF b \in kept THEN SubSeq(t, 1, 3) ELSE <<b>>)
             \o StdUnescape(SubSeq(t, IF t[1] = 37 THEN 4 ELSE 2, Len(t)), kept)

Decoding == \E e \in Escaped, component \in BOOLEAN :
    LET s     == Text(e)
        made  == DecodeUri(s, component)
        bytes == StdUnescape(s.bytes, Reserved(component))
    IN  Answer(this,
               IF Undefined \in Range(bytes) THEN made = Undefined
               ELSE /\ made # Undefined /\ made.bytes = bytes
                    /\ Sound(made) \/ IsUtf8(s) \/ made.length > Stride,
               {made})

Next ==
    \/ Slice \/ SubstringOf \/ SubstrOf \/ Char \/ Convert \/ Validate \/ Find1 \/ Case \/ TrimEnds
    \/ RepeatTimes \/ PadTo \/ Append1 \/ Match \/ SplitWith \/ ReplaceBy \/ ReplaceByFunction
    \/ ReplaceWord \/ Encodings \/ Decoding

Spec == Init /\ [][Next]_vars

(* The methods of strings answer what ECMAScript says they do, whichever   *)
(* of the three kinds a string is of and whether its map is there yet, and *)
(* the strings they make are sound (except as the actions say).            *)
StringsAsStandard == agrees /\ Sound(this)

(* "If byte sequence is valid UTF-8 string then its length is stored in    *)
(* the UTF-8 length field.  Otherwise, the length field is zero."          *)
(* (njs_string.h): so for every string that a method makes.                *)
LengthsAsDocumented == sound

=============================================================================
