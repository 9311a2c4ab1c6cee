-------------------------------- MODULE Utf8 --------------------------------
(***************************************************************************)
(* The UTF-8 part of string.c: characters to and from bytes, and strings   *)
(* to and from the text between the quotes of a JSON string.  A piece of   *)
(* that text is a character as it is, a backslash with a letter, or a      *)
(* backslash, "u" and four digits, here their number.                      *)
(***************************************************************************)
EXTENDS Integers, Sequences

Replacement == 65533   \* U+FFFD

\* utf8d: the class of a byte, and for each state the next one by class
Class(b) ==
  CASE b < 128 -> 0              [] b \in 128 .. 143 -> 1  [] b \in 144 .. 159 -> 9
    [] b \in 160 .. 191 -> 7     [] b \in {192, 193} -> 8  [] b \in 194 .. 223 -> 2
    [] b = 224 -> 10             [] b = 237 -> 4           [] b \in 225 .. 239 -> 3
    [] b = 240 -> 11             [] b \in 241 .. 243 -> 6  [] b = 244 -> 5
    [] OTHER -> 8

Row(state) ==
  CASE state = 0  -> <<0, 12, 24, 36, 60, 96, 84, 12, 12, 12, 48, 72>>
    [] state = 24 -> <<12, 0, 12, 12, 12, 12, 12, 0, 12, 0, 12, 12>>
    [] state = 36 -> <<12, 24, 12, 12, 12, 12, 12, 24, 12, 24, 12, 12>>
    [] state = 48 -> <<12, 12, 12, 12, 12, 12, 12, 24, 12, 12, 12, 12>>
    [] state = 60 -> <<12, 24, 12, 12, 12, 12, 12, 12, 12, 24, 12, 12>>
    [] state = 72 -> <<12, 12, 12, 12, 12, 12, 12, 36, 12, 36, 12, 12>>
    [] state = 84 -> <<12, 36, 12, 12, 12, 12, 12, 36, 12, 36, 12, 12>>
    [] state = 96 -> <<12, 36, 12, 12, 12, 12, 12, 12, 12, 12, 12, 12>>
    [] OTHER -> [class \in 1 .. 12 |-> 12]

\* string_utf8_decode_code()
DecodeCode(s, b) ==
  [state |-> Row(s.state)[Class(b) + 1],
   code |-> IF s.state # 0 THEN 64 * s.code + (b % 64)
            ELSE IF Class(b) > 8 THEN 0 ELSE b % 2 ^ (8 - Class(b))]

\* string_utf8_get(): the first character of the bytes and the bytes it takes;
\* what is not well-formed ends with the byte that shows it
Get(bytes) ==
  LET after[n \in 0 .. Len(bytes)] ==
        IF n = 0 THEN [state |-> 0, code |-> 0] ELSE DecodeCode(after[n - 1], bytes[n])
      ends(n) == after[n].state \in {0, 12} \/ n = Len(bytes)
      n == CHOOSE n \in 1 .. Len(bytes) : ends(n) /\ \A m \in 1 .. n - 1 : ~ ends(m)
  IN [code |-> IF after[n].state = 0 THEN after[n].code ELSE Replacement, used |-> n]

\* Mutant of Length: U+0800 gets two bytes.
LengthLate(code) == IF code < 128 THEN 1 ELSE IF code <= 2048 THEN 2 ELSE IF code < 65536 THEN 3 ELSE 4

Length(code) == IF code < 128 THEN 1 ELSE IF code < 2048 THEN 2 ELSE IF code < 65536 THEN 3 ELSE 4

\* string_utf8_put()
Put(code) ==
  LET n == Length(code)
      lead == <<0, 192, 224, 240>>[n]
  IN [i \in 1 .. n |-> IF i = 1 THEN lead + code \div 64 ^ (n - 1)
                       ELSE 128 + ((code \div 64 ^ (n - i)) % 64)]

-----------------------------------------------------------------------------
(* Strings in JSON text *)

Plain(c) == [kind |-> "plain", code |-> c]
Escape(c) == [kind |-> "escape", code |-> c]   \* c is what the letter stands for
Hex(w) == [kind |-> "hex", code |-> w]

\* string_utf8_regular()
Regular(c) == c \notin {34, 92} /\ c >= 32 /\ c < 128

\* string_utf8_put_encoded()
PutEncoded(c) ==
  IF c < 65536 THEN <<Hex(c)>>
  ELSE <<Hex(55296 + (c - 65536) \div 1024), Hex(56320 + (c % 1024))>>

\* string_utf8_encode() of one character of a well-formed string
EncodeOne(c, ascii) ==
  IF Regular(c) THEN <<Plain(c)>>
  ELSE IF c >= 128 THEN IF ascii THEN PutEncoded(c) ELSE <<Plain(c)>>
  ELSE IF c \in {34, 92, 12, 10, 13, 9} THEN <<Escape(c)>> ELSE <<Hex(c)>>

Encode(string, ascii) ==
  LET text[n \in 0 .. Len(string)] ==
        IF n = 0 THEN <<>> ELSE text[n - 1] \o EncodeOne(string[n], ascii)
  IN text[Len(string)]

\* Mutant of PairCode: the offset of the pairs is forgotten.
PairCodePlain(w1, w2) == (w1 % 1024) * 1024 + (w2 % 1024)

\* The character of two surrogates: the offset is or'ed, not added
PairCode(w1, w2) ==
  LET bits == (w1 % 1024) * 1024 + (w2 % 1024) IN
  IF (bits \div 65536) % 2 = 1 THEN bits ELSE bits + 65536

\* string_utf8_get_encoded(): the character and the number of pieces it takes,
\* none if it is half of a pair
GetEncoded(text, i) ==
  LET High(w) == w \in 55296 .. 56319
      Low(w) == w \in 56320 .. 57343
      w1 == text[i].code
  IN IF Low(w1) THEN [code |-> 0, used |-> 0]
     ELSE IF ~ High(w1) THEN [code |-> w1, used |-> 1]
     ELSE IF i < Len(text) /\ text[i + 1].kind = "hex" /\ Low(text[i + 1].code)
          THEN [code |-> PairCode(w1, text[i + 1].code), used |-> 2]
          ELSE [code |-> 0, used |-> 0]

\* string_utf8_decode(): the string, up to what cannot be decoded; half of a pair
\* leaves U+0000 there
Decode(text) ==
  LET one(i) == CASE text[i].kind = "plain" /\ (Regular(text[i].code) \/ text[i].code >= 128)
                       -> [code |-> text[i].code, used |-> 1]
                  [] text[i].kind = "escape" /\ text[i].code \in {34, 92, 47, 8, 12, 10, 13, 9}
                       -> [code |-> text[i].code, used |-> 1]
                  [] text[i].kind = "hex" -> GetEncoded(text, i)
                  [] OTHER -> [code |-> 0, used |-> 0]
      from[n \in 0 .. Len(text)] ==   \* decoded from the last n pieces
        IF n = 0 THEN <<>>
        ELSE LET g == one(Len(text) + 1 - n) IN
             IF g.used > 0 THEN <<g.code>> \o from[n - g.used]
             ELSE IF text[Len(text) + 1 - n].kind = "hex" THEN <<g.code>> ELSE <<>>
  IN from[Len(text)]
=============================================================================
