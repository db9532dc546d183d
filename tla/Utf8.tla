-------------------------------- MODULE Utf8 --------------------------------
(***************************************************************************)
(* njs_utf8.c: the conversion between characters and their bytes.  Bytes   *)
(* are numbers; a position in them counts from 0, as in C.                 *)
(***************************************************************************)
EXTENDS Integers, Sequences, FiniteSets, SequencesExt

Replacement == 65533            \* NJS_UTF8_REPLACEMENT
NoChar      == -1               \* 0xFFFFFFFF
MaxChar     == 1114111

Continues(byte) == byte \in 128..191

(* The bytes from one position up to another.                              *)
Cut(bytes, from, to) == SubSeq(bytes, from + 1, to)

(* njs_utf8_encode().                                                      *)
Bits(u, shift) == 128 + ((u \div shift) % 64)

Encode(u) ==
    CASE u < 128             -> <<u>>
      [] u \in 128..2047     -> <<192 + (u \div 64), Bits(u, 1)>>
      [] u \in 2048..65535   -> <<224 + (u \div 4096), Bits(u, 64), Bits(u, 1)>>
      [] u \in 65536..MaxChar -> <<240 + (u \div 262144), Bits(u, 4096), Bits(u, 64), Bits(u, 1)>>

EncodeAll(text) == FlattenSeq([i \in DOMAIN text |-> Encode(text[i])])

(* How many bytes follow a first byte, 0 when none can; the largest        *)
(* character that is overlong in so many; the bits of the first byte.      *)
Following(byte) == CASE byte \in 194..223 -> 1 [] byte \in 224..239 -> 2 [] byte \in 240..244 -> 3 [] OTHER -> 0
Overlong(n) == <<127, 2047, 65535>>[n]
FirstBits(byte, n) == byte % <<32, 16, 8>>[n]

RECURSIVE Gather(_, _, _)
Gather(u, bytes, n) == IF n = 0 THEN u ELSE Gather(u * 64 + (bytes[1] % 64), SubSeq(bytes, 2, Len(bytes)), n - 1)

Found(char, next) == [char |-> char, next |-> next]

(* The n bytes behind a first one make a character with it.                *)
Continued(bytes, at, n) == at + 1 + n <= Len(bytes) /\ \A i \in at + 2..at + 1 + n : Continues(bytes[i])
Gathered(bytes, at, n)  == Gather(FirstBits(bytes[at + 1], n), Cut(bytes, at + 1, at + 1 + n), n)
Allowed(u, n)           == Overlong(n) < u /\ u <= MaxChar

(* njs_utf8_decode(): the character at a position and the position after   *)
(* it, which does not move when there is none.                             *)
DecodeLong(bytes, at, n) ==
    IF n > 0 /\ Continued(bytes, at, n) /\ Allowed(Gathered(bytes, at, n), n)
    THEN Found(Gathered(bytes, at, n), at + 1 + n) ELSE Found(NoChar, at)

Decode(bytes, at) ==
    IF bytes[at + 1] < 128 THEN Found(bytes[at + 1], at + 1) ELSE DecodeLong(bytes, at, Following(bytes[at + 1]))

(* njs_utf8_safe_decode(): what is not a character is replaced, up to the  *)
(* first byte that does not continue it.                                   *)
SafeDecodeLong(bytes, at, n) ==
    LET run == CHOOSE k \in 0..n : Continued(bytes, at, k) /\ (k = n \/ ~Continued(bytes, at, k + 1))
    IN  Found(IF n > 0 /\ Continued(bytes, at, n) /\ Allowed(Gathered(bytes, at, n), n)
              THEN Gathered(bytes, at, n) ELSE Replacement, at + 1 + run)

SafeDecode(bytes, at) ==
    IF bytes[at + 1] < 128 THEN Found(bytes[at + 1], at + 1) ELSE SafeDecodeLong(bytes, at, Following(bytes[at + 1]))

(* The characters of some bytes by njs_utf8_safe_decode(), and the bytes   *)
(* that njs_utf8_safe_length() counts for them.                            *)
RECURSIVE SafeChars(_, _)
SafeChars(bytes, at) ==
    IF at >= Len(bytes) THEN <<>>
    ELSE LET d == SafeDecode(bytes, at) IN <<d.char>> \o SafeChars(bytes, d.next)

SafeSize(bytes) == Len(EncodeAll(SafeChars(bytes, 0)))

(* njs_utf8_length(): the number of characters, -1 for bytes that are not  *)
(* UTF-8.  njs_utf8_is_valid().                                            *)
RECURSIVE CountFrom(_, _, _)
CountFrom(bytes, d, n) ==
    IF d.char = NoChar THEN -1
    ELSE IF d.next = Len(bytes) THEN n ELSE CountFrom(bytes, Decode(bytes, d.next), n + 1)

Length(bytes)  == IF bytes = <<>> THEN 0 ELSE CountFrom(bytes, Decode(bytes, 0), 1)
IsValid(bytes) == Length(bytes) >= 0

RECURSIVE CharsFrom(_, _)
CharsFrom(bytes, at) ==
    IF at >= Len(bytes) THEN <<>>
    ELSE LET d == Decode(bytes, at) IN <<d.char>> \o CharsFrom(bytes, d.next)

(* njs_utf8_next() and njs_utf8_prev() of valid bytes.                     *)
NextChar(bytes, at) ==
    IF bytes[at + 1] < 128 THEN at + 1
    ELSE CHOOSE p \in at + 1..Len(bytes) :
            /\ p = Len(bytes) \/ ~Continues(bytes[p + 1])
            /\ \A i \in at + 2..p : Continues(bytes[i])

PrevChar(bytes, at) ==
    CHOOSE p \in 0..at - 1 : ~Continues(bytes[p + 1]) /\ \A i \in p + 2..at : Continues(bytes[i])

(* The position after n characters, or the end.                            *)
RECURSIVE Walk(_, _, _)
Walk(bytes, at, n) == IF n = 0 \/ at >= Len(bytes) THEN at ELSE Walk(bytes, NextChar(bytes, at), n - 1)

(* njs_utf8_lower_case() and njs_utf8_upper_case() of the characters that  *)
(* the instances use; the generated tables njs_unicode_*_case.h have the   *)
(* others.  The Kelvin sign 8490 folds to a letter of one byte.            *)
Lower(u) == IF u \in 65..90 THEN u + 32 ELSE IF u = 201 THEN 233 ELSE IF u = 8490 THEN 107 ELSE u
Upper(u) == IF u \in 97..122 THEN u - 32 ELSE IF u = 233 THEN 201 ELSE u

(* njs_utf8_casecmp(): difference of the first characters that differ.     *)
RECURSIVE CaseCompare(_, _)
CaseCompare(one, two) ==
    IF one = <<>> \/ two = <<>> THEN 0
    ELSE LET a == Decode(one, 0)
             b == Decode(two, 0)
         IN  IF a.char = NoChar \/ b.char = NoChar THEN NoChar
             ELSE IF Lower(a.char) # Lower(b.char) THEN Lower(a.char) - Lower(b.char)
             ELSE CaseCompare(Cut(one, a.next, Len(one)), Cut(two, b.next, Len(two)))

(* njs_utf8_is_whitespace(), of which njs_is_whitespace() has the bytes.   *)
WhiteSpace == {9, 10, 11, 12, 13, 32, 160, 5760, 8192, 8193, 8194, 8195, 8196, 8197, 8198, 8199,
               8200, 8201, 8202, 8232, 8233, 8239, 8287, 12288, 65279}
=============================================================================
