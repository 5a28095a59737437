----------------------------- MODULE TextUtils -----------------------------
(***************************************************************************)
(* The functions on text of common/string_utils.cpp, and how the two ways  *)
(* of reading a file by lines (common/file_utils.cpp) cut its content.     *)
(* Characters are numbers.  boost::split and boost::trim are external.     *)
(***************************************************************************)
EXTENDS Integers, SequencesExt

Newline == 10
Comma   == 44
Blanks  == (9 .. 13) \union {32}
Nul     == 0

----------------------------------------------------------------------------
(* Splitting and joining *)

(* boost::split: n delimiters make n + 1 tokens; with compress, adjacent   *)
(* delimiters count as one.                                                *)
str_split(str, delim, compress) ==
  LET step(acc, i) ==
        IF str[i] \notin delim THEN [acc EXCEPT ![Len(acc)] = Append(@, str[i])]
        ELSE IF compress /\ i > 1 /\ str[IF i > 1 THEN i - 1 ELSE i] \in delim THEN acc
        ELSE Append(acc, <<>>)
  IN FoldLeft(step, << <<>> >>, [i \in DOMAIN str |-> i])

(* The other forms of str_split leave empty tokens out.                    *)
str_split_set(str, delim) ==
  {token \in Range(str_split(str, delim, TRUE)) : token # <<>>}

(* The delimiter is left out as long as nothing has been written.          *)
str_join(strs, delim) ==
  FoldLeft(LAMBDA dst, s : IF dst = <<>> THEN s ELSE dst \o <<delim>> \o s, <<>>, strs)

(* A field is added where a separator is found, so not the last one.       *)
RECURSIVE SplitFrom(_, _)
SplitFrom(src, separator) ==
  LET index == SelectInSeq(src, LAMBDA c : c \in separator)
  IN IF index = 0 THEN <<>>
     ELSE <<SubSeq(src, 1, index - 1)>> \o SplitFrom(SubSeq(src, index + 1, Len(src)), separator)
split_multi(src, separator) == SplitFrom(src, separator)

str_unique_add(strs, str) == IF str \in Range(strs) THEN strs ELSE Append(strs, str)

----------------------------------------------------------------------------
(* Lines *)

RECURSIVE TrimLeft(_)
TrimLeft(s) == IF s # <<>> /\ Head(s) \in Blanks THEN TrimLeft(Tail(s)) ELSE s
Trim(s)     == Reverse(TrimLeft(Reverse(TrimLeft(s))))

(* file_read: what stands before the first NUL, without empty lines.       *)
ReadLines(content) ==
  LET cut  == SelectInSeq(content, LAMBDA c : c = Nul)
      text == IF cut = 0 THEN content ELSE SubSeq(content, 1, cut - 1)
      trimmed == [k \in DOMAIN str_split(text, {Newline}, TRUE) |->
                    Trim(str_split(text, {Newline}, TRUE)[k])]
  IN SelectSeq(trimmed, LAMBDA line : line # <<>>)

(* file_read_quick: a line as it is, the last one only if it is not empty. *)
QuickLines(content) ==
  LET tokens == str_split(content, {Newline}, FALSE)
  IN IF Last(tokens) = <<>> THEN Front(tokens) ELSE tokens

----------------------------------------------------------------------------
(* Characters of UTF-8 *)

(* The bytes the first byte of a character announces; 0 for none.          *)
CharSize(c) == CASE c < 128 -> 1
                 [] c \in 192 .. 223 -> 2
                 [] c \in 224 .. 239 -> 3
                 [] c \in 240 .. 247 -> 4
                 [] c \in 248 .. 251 -> 5
                 [] c \in 252 .. 253 -> 6
                 [] OTHER -> 0

(* Both stop at a byte that begins no character and at one that is cut.    *)
Whole(text) == text # <<>> /\ CharSize(Head(text)) \in 1 .. Len(text)
Behind(text) == SubSeq(text, CharSize(Head(text)) + 1, Len(text))

RECURSIVE cacu_utf8_len(_), PrefixSize(_, _)
cacu_utf8_len(text) == IF Whole(text) THEN 1 + cacu_utf8_len(Behind(text)) ELSE 0

(* The bytes of the first char_len characters: at least one is taken, and  *)
(* where counting stops early everything is.                               *)
PrefixSize(text, char_len) ==
  IF ~Whole(text) THEN Len(text)
  ELSE CharSize(Head(text)) + (IF char_len <= 1 THEN 0 ELSE PrefixSize(Behind(text), char_len - 1))
cacu_utf8_len_raw(text, char_len) == PrefixSize(text, char_len)

----------------------------------------------------------------------------
(* format_number: the decimal digits of each group of three; the first     *)
(* group without leading zeros, and nothing at all for 0.                  *)
RECURSIVE Groups(_), Decimal(_)
Groups(num) == IF num = 0 THEN <<>> ELSE Append(Groups(num \div 1000), num % 1000)
Decimal(n)  == IF n < 10 THEN <<48 + n>> ELSE Append(Decimal(n \div 10), 48 + (n % 10))
ThreeDigits(n) == <<48 + (n \div 100), 48 + ((n \div 10) % 10), 48 + (n % 10)>>
format_number(num) ==
  LET digit == Groups(num)
  IN FlattenSeq([k \in DOMAIN digit |-> IF k = 1 THEN Decimal(digit[k])
                                        ELSE <<Comma>> \o ThreeDigits(digit[k])])
============================================================================
