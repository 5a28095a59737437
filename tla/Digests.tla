------------------------------ MODULE Digests ------------------------------
(***************************************************************************)
(* The hash functions of common/murmurhash2.cc and common/hash_utils.cc    *)
(* with their own constants and widths.  A word is the sequence of its     *)
(* bytes, lowest first, as a little-endian machine keeps it; the length of *)
(* the sequence is its width, and arithmetic is modulo 2^width.            *)
(***************************************************************************)
EXTENDS Bytes, SequencesExt

(* Column sums to bytes, with the carries; the last carry is lost.         *)
Carry(acc, s) == [out   |-> Append(acc.out, (s + acc.carry) % 256),
                  carry |-> (s + acc.carry) \div 256]
Carried(columns) == FoldLeft(Carry, [out |-> <<>>, carry |-> 0], columns).out

Plus(x, y)  == Carried([i \in DOMAIN x |-> x[i] + y[i]])
Times(x, y) == Carried([i \in DOMAIN x |-> FoldLeft(+, 0, [j \in 1 .. i |-> x[j] * y[i + 1 - j]])])
Exor(x, y)  == [i \in DOMAIN x |-> Xor(x[i], y[i])]
At(x, i)    == IF i \in DOMAIN x THEN x[i] ELSE 0
ShiftRight(x, n) ==
  [i \in DOMAIN x |-> LET low == At(x, i + n \div 8)  high == At(x, i + n \div 8 + 1)
                      IN (low \div 2 ^ (n % 8)) + ((high * 2 ^ (8 - (n % 8))) % 256)]
(* By whole bytes, as in the aligned version.                              *)
ShiftLeft(x, bytes) == [i \in DOMAIN x |-> At(x, i - bytes)]

Wide(data, width) == [i \in 1 .. width |-> At(data, i)]
FromInt(n, width) ==                                       \* of a length
  Wide(<<n % 256, (n \div 256) % 256, (n \div 65536) % 256, (n \div 16777216) % 256>>, width)

(* The whole words of data, and the bytes behind them as one word.         *)
Words(data, width) == [k \in 1 .. Len(data) \div width |-> SubSeq(data, width * (k - 1) + 1, width * k)]
Rest(data, width)  == SubSeq(data, width * (Len(data) \div width) + 1, Len(data))

M32 == <<149, 233, 209, 91>>                          \* 0x5bd1e995
M64 == <<149, 233, 209, 91, 147, 167, 164, 198>>      \* 0xc6a4a7935bd1e995
MHash == <<147, 167, 164, 198>>                       \* 0xc6a4a793

Scrambled(k, m, r) == LET a == Times(k, m) IN Times(Exor(a, ShiftRight(a, r)), m)
Mix(h, k) == Exor(Times(h, M32), Scrambled(k, M32, 24))
Final(h) == LET a == Times(Exor(h, ShiftRight(h, 13)), M32) IN Exor(a, ShiftRight(a, 15))

RestTooShort(h, rest) ==              \* mutant: a rest of one byte is taken for none
  IF Len(rest) < 2 THEN h ELSE Times(Exor(h, Wide(rest, 4)), M32)

(* The switch over the last bytes: they are mixed in only if there are any.*)
MixRest(h, rest) == IF rest = <<>> THEN h ELSE Times(Exor(h, Wide(rest, 4)), M32)

MurmurHash2(key, seed) ==
  LET h == FoldLeft(Mix, Exor(seed, FromInt(Len(key), 4)), Words(key, 4))
  IN Final(MixRest(h, Rest(key, 4)))

(* Each word is put together from its bytes.                               *)
MurmurHashNeutral2(key, seed) ==
  LET byte(k, b) == ShiftLeft(Wide(<<key[4 * (k - 1) + b]>>, 4), b - 1)
      word(k) == Exor(Exor(Exor(byte(k, 1), byte(k, 2)), byte(k, 3)), byte(k, 4))
      h == FoldLeft(Mix, Exor(seed, FromInt(Len(key), 4)), [k \in 1 .. Len(key) \div 4 |-> word(k)])
  IN Final(MixRest(h, Rest(key, 4)))

(* Only aligned words are read.  t keeps the upper bytes of the one before;*)
(* align is the address modulo 4.                                          *)
Joined(t, d, align) == Exor(ShiftLeft(t, -align), ShiftLeft(d, 4 - align))

AlignedLoop(h, t, data, align) ==
  LET ts    == <<t>> \o Words(data, 4)
      mixed == FoldLeft(Mix, h, [k \in DOMAIN Words(data, 4) |-> Joined(ts[k], ts[k + 1], align)])
      rest  == Rest(data, 4)
  IN IF Len(rest) >= align
     THEN MixRest(Mix(mixed, Joined(Last(ts), Wide(SubSeq(rest, 1, align), 4), align)),
                  SubSeq(rest, align + 1, Len(rest)))
     ELSE Times(Exor(mixed, Joined(Last(ts), Wide(rest, 4), align)), M32)

MurmurHashAligned2(key, align, seed) ==
  IF align = 0 \/ Len(key) < 4 THEN MurmurHash2(key, seed)
  ELSE Final(AlignedLoop(Exor(seed, FromInt(Len(key), 4)),
                         ShiftLeft(Wide(SubSeq(key, 1, 4 - align), 4), align),
                         SubSeq(key, 5 - align, Len(key)), align))

(* 64 bits at a time: the word is mixed in before the multiplication.      *)
Mix64(h, k) == Times(Exor(h, Scrambled(k, M64, 47)), M64)
MixRest64(h, rest) == IF rest = <<>> THEN h ELSE Times(Exor(h, Wide(rest, 8)), M64)
Final64(h) == LET a == Times(Exor(h, ShiftRight(h, 47)), M64) IN Exor(a, ShiftRight(a, 47))

MurmurHash2_64A(key, seed) ==
  LET h == FoldLeft(Mix64, Exor(seed, Times(FromInt(Len(key), 8), M64)), Words(key, 8))
  IN Final64(MixRest64(h, Rest(key, 8)))

(* Two halves that take words in turns, and are mixed into each other.     *)
OddWords(words)  == [k \in 1 .. (Len(words) + 1) \div 2 |-> words[2 * k - 1]]
EvenWords(words) == [k \in 1 .. Len(words) \div 2 |-> words[2 * k]]
Cross(a, b, n)   == Times(Exor(a, ShiftRight(b, n)), M32)
Crossed(h1, h2) ==
  LET h1a == Cross(h1, h2, 18)   h2a == Cross(h2, h1a, 22)
      h1b == Cross(h1a, h2a, 17) h2b == Cross(h2a, h1b, 19)
  IN h2b \o h1b

MurmurHash2_64B(key, seed) ==
  LET words == Words(key, 4)
      h1 == FoldLeft(Mix, Exor(SubSeq(seed, 1, 4), FromInt(Len(key), 4)), OddWords(words))
      h2 == FoldLeft(Mix, SubSeq(seed, 5, 8), EvenWords(words))
  IN Crossed(h1, MixRest(h2, Rest(key, 4)))

MurmurHash2A(key, seed) ==
  LET h == FoldLeft(Mix, seed, Words(key, 4))
  IN Final(Mix(Mix(h, Wide(Rest(key, 4), 4)), FromInt(Len(key), 4)))

(* Hash of hash_utils.cc, and HashM.                                       *)
HashStep(h, w, r) == LET a == Times(Plus(h, w), MHash) IN Exor(a, ShiftRight(a, r))
HashWord(h, w)    == HashStep(h, w, 16)
HashRest(h, rest) == IF rest = <<>> THEN h ELSE HashStep(h, Wide(rest, 4), 24)
Hash(data, seed) ==
  LET h == FoldLeft(HashWord, Exor(seed, Times(FromInt(Len(data), 4), MHash)), Words(data, 4))
  IN HashRest(h, Rest(data, 4))
HashM(str) == MurmurHash2_64A(str, FromInt(Len(str), 8))

----------------------------------------------------------------------------
(* CMurmurHash2A: the hasher that is fed piece by piece *)

Begun(seed) == [hash |-> seed, tail |-> Wide(<<>>, 4), count |-> 0, size |-> 0]

TakeByte(h, byte) ==
  LET tail == Exor(h.tail, ShiftLeft(Wide(<<byte>>, 4), h.count))
  IN IF h.count = 3 THEN [h EXCEPT !.hash = Mix(@, tail), !.tail = Wide(<<>>, 4), !.count = 0]
     ELSE [h EXCEPT !.tail = tail, !.count = @ + 1]

(* MixTail takes bytes one by one while a word is incomplete, or when less *)
(* than a word is left.                                                    *)
MixTail(h, data) ==
  LET taken == Min({n \in 0 .. Len(data) :
                      n = Len(data) \/ (Len(data) - n >= 4 /\ (h.count + n) % 4 = 0)})
  IN [hasher |-> FoldLeft(TakeByte, h, SubSeq(data, 1, taken)),
      data   |-> SubSeq(data, taken + 1, Len(data))]

AddUnjoined(h, data) ==                \* mutant: an incomplete word is not filled up first
  LET mixed == [h EXCEPT !.size = @ + Len(data), !.hash = FoldLeft(Mix, @, Words(data, 4))]
  IN MixTail(mixed, Rest(data, 4)).hasher

Add(h, data) ==
  LET first == MixTail([h EXCEPT !.size = @ + Len(data)], data)
      mixed == [first.hasher EXCEPT !.hash = FoldLeft(Mix, @, Words(first.data, 4))]
  IN MixTail(mixed, Rest(first.data, 4)).hasher

End(h) == Final(Mix(Mix(h.hash, h.tail), FromInt(h.size, 4)))
============================================================================
