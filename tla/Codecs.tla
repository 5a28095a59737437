------------------------------- MODULE Codecs -------------------------------
(***************************************************************************)
(* The codecs of common/base64.cpp and common/url_utils.cpp.  Characters   *)
(* and bytes are numbers; a character of base64 is its place in            *)
(* base64_chars.                                                           *)
(***************************************************************************)
EXTENDS Integers, SequencesExt

Pad == 64    \* '='

Pieces(s, n) == [k \in 1 .. (Len(s) + n - 1) \div n |->
                  SubSeq(s, n * (k - 1) + 1, IF n * k < Len(s) THEN n * k ELSE Len(s))]
Padded(s, n, c) == [i \in 1 .. n |-> IF i <= Len(s) THEN s[i] ELSE c]

Sextets(a) == << a[1] \div 4, (a[1] % 4) * 16 + (a[2] \div 16),
                 (a[2] % 16) * 4 + (a[3] \div 64), a[3] % 64 >>
base64_encode(s) ==
  LET code(p) == Padded(SubSeq(Sextets(Padded(p, 3, 0)), 1, Len(p) + 1), 4, Pad)
  IN FlattenSeq([k \in DOMAIN Pieces(s, 3) |-> code(Pieces(s, 3)[k])])

(* Decoding ends at the first '='.  What is missing of the last piece is   *)
(* looked up as NUL, which base64_chars does not hold: 255.                *)
NotFound == 255
Octets(a) == << (a[1] * 4 + ((a[2] \div 16) % 4)) % 256,
                (a[2] % 16) * 16 + ((a[3] \div 4) % 16),
                ((a[3] % 4) * 64 + a[4]) % 256 >>
base64_decode(s) ==
  LET end     == SelectInSeq(s, LAMBDA c : c = Pad)
      text    == IF end = 0 THEN s ELSE SubSeq(s, 1, end - 1)
      octets(p) == SubSeq(Octets(Padded(p, 4, NotFound)), 1, Len(p) - 1)
  IN FlattenSeq([k \in DOMAIN Pieces(text, 4) |-> octets(Pieces(text, 4)[k])])

----------------------------------------------------------------------------
Percent  == 37
Digits   == 48 .. 57
Upper    == 65 .. 90
Lower    == 97 .. 122
SAFE     == Digits \union Upper \union Lower
SafeGbk  == SAFE \union {46, 47}             \* and '.', '/'

HexDigit(n) == IF n < 10 THEN 48 + n ELSE 55 + n
HexValue(c) == IF c \in Digits THEN c - 48
               ELSE IF c \in 65 .. 70 THEN c - 55
               ELSE IF c \in 97 .. 102 THEN c - 87 ELSE -1

Escaped(s, safe) ==
  FlattenSeq([i \in DOMAIN s |-> IF s[i] \in safe THEN <<s[i]>>
                                 ELSE <<Percent, HexDigit(s[i] \div 16), HexDigit(s[i] % 16)>>])
uri_encode(s)     == Escaped(s, SAFE)
url_encode_gbk(s) == Escaped(s, SafeGbk)

(* A '%' is decoded only if two hexadecimal characters follow it; in the   *)
(* last two places it never is.                                            *)
RECURSIVE DecodedShort(_), uri_decode(_)
DecodedShort(s) ==                   \* mutant: the last decodable '%' is one place earlier
  IF s = <<>> THEN <<>>
  ELSE IF Len(s) > 3 /\ s[1] = Percent /\ HexValue(s[2]) # -1 /\ HexValue(s[3]) # -1
  THEN <<HexValue(s[2]) * 16 + HexValue(s[3])>> \o DecodedShort(SubSeq(s, 4, Len(s)))
  ELSE <<s[1]>> \o DecodedShort(Tail(s))
uri_decode(s) ==
  IF s = <<>> THEN <<>>
  ELSE IF Len(s) > 2 /\ s[1] = Percent /\ HexValue(s[2]) # -1 /\ HexValue(s[3]) # -1
  THEN <<HexValue(s[2]) * 16 + HexValue(s[3])>> \o uri_decode(SubSeq(s, 4, Len(s)))
  ELSE <<s[1]>> \o uri_decode(Tail(s))

(* Here every '%' takes the two characters behind it, hexadecimal or not.  *)
(* Defined only where there are two: the code reads on behind the string.  *)
RECURSIVE url_decode_gbk(_)
url_decode_gbk(s) ==
  IF s = <<>> THEN <<>>
  ELSE IF s[1] = Percent
  THEN <<(HexValue(s[2]) * 16 + HexValue(s[3])) % 256>> \o url_decode_gbk(SubSeq(s, 4, Len(s)))
  ELSE <<s[1]>> \o url_decode_gbk(Tail(s))

============================================================================
