----------------------------- MODULE Utilities -----------------------------
(***************************************************************************)
(* The input of Streams at its end, as a whole, given to the functions     *)
(* that take it at once: the codecs and the functions on text.             *)
(***************************************************************************)
EXTENDS Streams, Codecs, TextUtils

(* What is encoded is decoded, by the other URL decoder too.               *)
Inverses ==
  /\ base64_decode(base64_encode(input)) = input
  /\ \A text \in {uri_encode(input), url_encode_gbk(input)} :
       uri_decode(text) = input /\ url_decode_gbk(text) = input

(* str_join loses leading empty strings, split_multi the last field.       *)
RECURSIVE WithoutLeading(_, _)
WithoutLeading(s, c) == IF s # <<>> /\ Head(s) = c THEN WithoutLeading(Tail(s), c) ELSE s
PiecesJoin ==
  LET tokens == str_split(input, {Comma}, FALSE) IN
  /\ str_join(tokens, Comma) = WithoutLeading(input, Comma)
  /\ split_multi(input, {Comma}) = Front(tokens)
  /\ str_split_set(input, {Comma}) = {t \in Range(tokens) : t # <<>>}
  /\ LET once == FoldLeft(str_unique_add, <<>>, tokens)
     IN IsInjective(once) /\ Range(once) = Range(tokens)

(* Both ways of reading lines give the same text, but for blank lines and  *)
(* the blanks around a line.                                               *)
LinesJoin ==
  Nul \notin Range(input) =>
    ReadLines(input) = SelectSeq([k \in DOMAIN QuickLines(input) |-> Trim(QuickLines(input)[k])],
                                 LAMBDA line : line # <<>>)

(* The first n characters are n characters.                                *)
PrefixesCount ==
  \A n \in 1 .. Len(input) :
    LET size == cacu_utf8_len_raw(input, n) IN
    IF cacu_utf8_len(input) >= n THEN cacu_utf8_len(SubSeq(input, 1, size)) = n
    ELSE size = Len(input)

Number == FoldLeft(LAMBDA n, b : 256 * n + b, 0, input)
NumberReads ==
  LET digits == SelectSeq(format_number(Number), LAMBDA c : c # Comma) IN
  Len(input) <= 3 => /\ FoldLeft(LAMBDA n, c : 10 * n + c - 48, 0, digits) = Number
                     /\ digits # <<>> => digits[1] # 48

ConversionsInvert ==
  Finished => Inverses /\ PiecesJoin /\ LinesJoin /\ PrefixesCount /\ NumberReads
============================================================================
