----------------------------- MODULE Vocabulary -----------------------------
(***************************************************************************)
(* From a vocabulary file to a tokenizer and back from token ids to bytes: *)
(* data_gym_to_mergeable_bpe_ranks in its two forms and the constructor,   *)
(* destructor and decode_bytes of CoreBPE (token/core_bpe.cpp), and        *)
(* QwenToken, which puts them together (token/qwen_token.cpp).             *)
(*                                                                         *)
(* The files write a byte as a printable character: a string of a file is  *)
(* a sequence of code points, in which Bad stands for bytes decode_utf8    *)
(* stops at.  The order in which encode merges bytes is module BpeMerge;   *)
(* here an encode may cut its text into tokens in any way.                 *)
(***************************************************************************)
EXTENDS Integers, SequencesExt

CONSTANTS NumBytes,    \* how many bytes there are: 256
          Printable,   \* the bytes u_isprint and u_isgraph accept
          Files,       \* the tokenizer files, see TokenizerFile
          Bad,         \* a malformed UTF-8 sequence
          EndOfText,   \* "<|endoftext|>" and "<|startoftext|>", as strings of a file
          Slots,       \* 0 .. MAX_NUM_THREADS - 1
          Ids,         \* bound: the token ids a model may answer with
          MaxItems     \* bound: tokens of one encoded text

Bytes == 0 .. NumBytes - 1

ASSUME BytesAssumption ==
  NumBytes \in Nat \ {0} /\ Printable \subseteq Bytes /\ MaxItems \in Nat

(* A file is a record: its form, "tokenizer.json" or "vocab.bpe" (together *)
(* with encoder.json); parses and pattern tell whether the json parses and *)
(* holds a pattern; merges, each the sequence of its fields; vocab, the    *)
(* members <<key, id>> in their order; added, records [id, content] of the *)
(* added tokens, with id -1 where the file has none.                       *)
Character == Nat \union {Bad}

(* Nothing is assumed of what a file writes, only that it writes it in     *)
(* lists of strings.                                                       *)
ASSUME FilesAssumption ==
  \A f \in Files : /\ f.merges \in Seq(Seq(Seq(Character)))
                   /\ f.added \in Seq([id : Int, content : Seq(Bytes)])

VARIABLES
  file,        \* the file QwenToken is constructed from
  vphase,      \* "load", "added", "construct", "ready", "encoded", "decoded",
               \* "refused" (no tokenizer: an exception), "thrown" (by a call),
               \* "undefined" (behaviour), "stuck" (in a call) or "destroyed"
  ranks,       \* bpe_ranks, mergeable_ranks, _encoder
  added,       \* entries of added_tokens still to read
  specials,    \* special_tokens, _special_tokens_encoder
  decoder,     \* _decoder
  specialDecoder,  \* _special_tokens_decoder
  items,       \* the tokens the last encode cut its text into
  ids,         \* their ids: what encode returned
  text,        \* what decode returned for them
  tls          \* per-slot copies of the compiled patterns that are allocated;
               \* "empty" marks those of special tokens that match nothing too

vvars == <<file, vphase, ranks, added, specials, decoder, specialDecoder,
           items, ids, text, tls>>

(* rank_to_intbyte: the printable bytes, then the others, both ascending;  *)
(* a byte has the rank of its place.                                       *)
Others      == Bytes \ Printable
Below(S, b) == Cardinality({c \in S : c < b})
ByteRank(b) == IF b \in Printable THEN Below(Printable, b)
                                  ELSE Cardinality(Printable) + Below(Others, b)

(* data_gym_byte_to_byte; its operator[] answers 0 for what is not in it.  *)
CodePoint(b) == IF b \in Printable THEN b
                ELSE NumBytes + Below(Others, b)
ByteOf(c) == IF \E b \in Bytes : CodePoint(b) = c
             THEN CHOOSE b \in Bytes : CodePoint(b) = c
             ELSE 0

(* decode_utf8 stops at the first malformed sequence.                      *)
WellFormed(s) == IF Contains(s, Bad) THEN SubSeq(s, 1, SelectInSeq(s, LAMBDA c : c = Bad) - 1)
                                     ELSE s
DecodeDataGym(s) == [k \in DOMAIN WellFormed(s) |-> ByteOf(s[k])]

(* Assignment through operator[] of a map.                                 *)
Assign(f, key, value) == [x \in DOMAIN f \union {key} |-> IF x = key THEN value ELSE f[x]]

PrintableRanks  == [s \in {<<b>> : b \in Printable} |-> ByteRank(s[1])]  \* mutant
SingleByteRanks == [s \in {<<b>> : b \in Bytes} |-> ByteRank(s[1])]

(* What is not two fields is skipped, and the first line of vocab.bpe is.  *)
Lines(f)  == IF f.form = "vocab.bpe" THEN SubSeq(f.merges, 2, Len(f.merges)) ELSE f.merges
Merges(f) == FlattenSeq([k \in DOMAIN Lines(f) |->
                           IF Len(Lines(f)[k]) = 2 THEN <<Lines(f)[k]>> ELSE <<>>])

MergedBytes(f) == LET ms == Merges(f)
                  IN  [k \in DOMAIN ms |-> DecodeDataGym(ms[k][1]) \o DecodeDataGym(ms[k][2])]

(* Every merge takes the next rank, also one whose bytes have a rank.      *)
MergedRanks(f) ==
  LET bytes == MergedBytes(f)
      r[k \in 0 .. Len(bytes)] == IF k = 0 THEN SingleByteRanks
                                  ELSE Assign(r[k - 1], bytes[k], NumBytes + k - 1)
  IN  r[Len(bytes)]

(* encoder_json_loaded.                                                    *)
Dropped(f) == IF f.form = "vocab.bpe" THEN {DecodeDataGym(s) : s \in EndOfText} ELSE {}
VocabRanks(f) ==
  LET v[k \in 0 .. Len(f.vocab)] ==
        IF k = 0 THEN <<>> ELSE Assign(v[k - 1], DecodeDataGym(f.vocab[k][1]), f.vocab[k][2])
      all == v[Len(f.vocab)]
  IN  [s \in DOMAIN all \ Dropped(f) |-> all[s]]

Incomplete == \/ ~file.parses
              \/ /\ file.form = "tokenizer.json"
                 /\ ~file.pattern \/ Merges(file) = <<>> \/ file.vocab = <<>>
Accepted   == ~Incomplete /\ MergedRanks(file) = VocabRanks(file)

VocabularyInit ==
  /\ file \in Files
  /\ vphase = "load"
  /\ ranks = <<>> /\ specials = <<>> /\ decoder = <<>> /\ specialDecoder = <<>>
  /\ added = <<>> /\ items = <<>> /\ ids = <<>> /\ text = <<>>
  /\ tls = {}

LoadRanks ==
  /\ vphase = "load"
  /\ IF Accepted
     THEN ranks' = MergedRanks(file) /\ added' = file.added /\ vphase' = "added"
     ELSE vphase' = "refused" /\ UNCHANGED <<ranks, added>>
  /\ UNCHANGED <<file, specials, decoder, specialDecoder, items, ids, text, tls>>

(* QwenToken takes every added token that has an id, special or not.       *)
AddToken ==
  /\ vphase = "added"
  /\ added # <<>>
  /\ specials' = IF added[1].id = -1 THEN specials
                 ELSE Assign(specials, added[1].content, added[1].id)
  /\ added' = Tail(added)
  /\ UNCHANGED <<file, vphase, ranks, decoder, specialDecoder, items, ids, text, tls>>

AddedAll == /\ vphase = "added"
            /\ added = <<>>
            /\ vphase' = "construct"
            /\ UNCHANGED <<file, ranks, added, specials, decoder, specialDecoder,
                           items, ids, text, tls>>

(* Maps from ids back; of the keys with one id the last one visited stays, *)
(* and the order of an unordered_map is any order.                         *)
Inverses(f) == {g \in [Range(f) -> DOMAIN f] : \A i \in DOMAIN g : f[g[i]] = i}
SlotCopies(kind) == {<<kind, k>> : k \in Slots}

(* special_pattern joins the special tokens with "|", and is compiled only  *)
(* if something is in it: with no special token but an empty one there is  *)
(* no regex.  An empty token becomes an alternative that matches anywhere, *)
(* unless it comes first: nothing is put between "" and the next token.    *)
NoSpecials          == specials = <<>>  \* mutant
SpecialPatternEmpty == DOMAIN specials \subseteq {<<>>}
SpecialCopies ==
  IF SpecialPatternEmpty THEN {{}}
  ELSE {SlotCopies("special")}
       \union (IF <<>> \in DOMAIN specials
               THEN {SlotCopies("special") \union SlotCopies("empty")} ELSE {})

Construct ==
  /\ vphase = "construct"
  /\ \E copies \in SpecialCopies : tls' = SlotCopies("pattern") \union copies
  /\ decoder' \in Inverses(ranks)
  /\ specialDecoder' \in Inverses(specials)
  /\ vphase' = "ready"
  /\ UNCHANGED <<file, ranks, added, specials, items, ids, text>>

(* The alternation of the special tokens may be too large to compile; the  *)
(* copies of the pattern made before stay allocated: no destructor runs.   *)
ConstructThrows ==
  /\ vphase = "construct"
  /\ ~SpecialPatternEmpty
  /\ tls' = SlotCopies("pattern")
  /\ vphase' = "refused"
  /\ UNCHANGED <<file, ranks, added, specials, decoder, specialDecoder, items, ids, text>>

(* Any text of known tokens, cut in any way.                               *)
Item(s, special) == [bytes |-> s, special |-> special]
Tokens  == {Item(s, FALSE) : s \in DOMAIN ranks \ {<<>>}}
           \union {Item(s, TRUE) : s \in DOMAIN specials \ {<<>>}}
IdOf(t) == IF t.special THEN specials[t.bytes] ELSE ranks[t.bytes]

Encode ==
  /\ vphase = "ready"
  /\ \A k \in Slots : <<"special", k>> \in tls /\ <<"empty", k>> \notin tls
  /\ \E n \in 1 .. MaxItems : items' \in [1 .. n -> Tokens]
  /\ ids' = [k \in DOMAIN items' |-> IdOf(items'[k])]
  /\ vphase' = "encoded"
  /\ UNCHANGED <<file, ranks, added, specials, decoder, specialDecoder, text, tls>>

(* _encode_native indexes _special_regex_tls, which is empty when the      *)
(* joined pattern was.                                                     *)
EncodeUndefined ==
  /\ vphase = "ready"
  /\ \E k \in Slots : <<"special", k>> \notin tls
  /\ vphase' = "undefined"
  /\ UNCHANGED <<file, ranks, added, specials, decoder, specialDecoder, items, ids, text, tls>>

(* encode allows every special token, so that a match of the empty one is  *)
(* taken, again and again at one place: start is set to its end.           *)
EncodeRepeats ==
  /\ vphase = "ready"
  /\ \E k \in Slots : <<"empty", k>> \in tls
  /\ vphase' = "stuck"
  /\ UNCHANGED <<file, ranks, added, specials, decoder, specialDecoder, items, ids, text, tls>>

(* decode_bytes: the ordinary tokens are looked up first.                  *)
Decodable(i)  == i \in DOMAIN decoder \union DOMAIN specialDecoder
SpecialsFirst(i) == IF i \in DOMAIN specialDecoder THEN specialDecoder[i] ELSE decoder[i]  \* mutant
BytesOf(i)    == IF i \in DOMAIN decoder THEN decoder[i] ELSE specialDecoder[i]

Decode ==
  /\ vphase = "encoded"
  /\ \A k \in DOMAIN ids : Decodable(ids[k])
  /\ text' = FlattenSeq([k \in DOMAIN ids |-> BytesOf(ids[k])])
  /\ vphase' = "decoded"
  /\ UNCHANGED <<file, ranks, added, specials, decoder, specialDecoder, items, ids, tls>>

(* A model may answer with an id of no token: its embedding has more rows  *)
(* than the vocabulary has tokens.                                         *)
DecodeThrows ==
  /\ vphase = "encoded"
  /\ \E i \in Ids : ~Decodable(i) /\ ids' = Append(ids, i)
  /\ vphase' = "thrown"
  /\ UNCHANGED <<file, ranks, added, specials, decoder, specialDecoder, items, text, tls>>

(* The tokenizer keeps nothing of a call.                                  *)
NextCall == /\ vphase \in {"decoded", "thrown"}
            /\ vphase' = "ready"
            /\ items' = <<>> /\ ids' = <<>> /\ text' = <<>>
            /\ UNCHANGED <<file, ranks, added, specials, decoder, specialDecoder, tls>>

Destroy == /\ vphase = "ready"
           /\ tls' = {}
           /\ vphase' = "destroyed"
           /\ UNCHANGED <<file, ranks, added, specials, decoder, specialDecoder,
                          items, ids, text>>

VocabularyNext == \/ LoadRanks \/ AddToken \/ AddedAll \/ Construct \/ ConstructThrows
                  \/ Encode \/ EncodeUndefined \/ EncodeRepeats \/ Decode \/ DecodeThrows
                  \/ NextCall \/ Destroy

----------------------------------------------------------------------------
(* Properties *)

VocabularyTypeOK ==
  /\ vphase \in {"idle", "load", "added", "construct", "ready", "encoded", "decoded",
                 "refused", "thrown", "undefined", "stuck", "destroyed"}
  /\ Range(ranks) \subseteq Nat
  /\ \A s \in DOMAIN ranks \union DOMAIN specials : s \in Seq(Bytes)
  /\ IsSuffix(added, file.added)
  /\ Len(ids) = Len(items) \/ vphase = "thrown"
  /\ vphase \in {"encoded", "decoded"} => text = <<>> \/ vphase = "decoded"

Built == vphase \in {"ready", "encoded", "decoded", "thrown"}

LastMerge(s) == Max({k \in DOMAIN MergedBytes(file) : MergedBytes(file)[k] = s})

(* The contents of the added tokens that QwenToken takes.                  *)
TakenContents == {file.added[k].content : k \in {j \in DOMAIN file.added : file.added[j].id # -1}}

(* Whatever the file holds, malformed strings and unmapped characters      *)
(* included: once it is accepted every single byte is a token, so that     *)
(* encode can neither drop a byte nor throw on a piece, no two tokens      *)
(* share an id, and later merges have higher ranks as the merge loop       *)
(* needs.  Each slot an encode may get has its patterns as soon as one     *)
(* added token is not empty: encode is undefined (core_bpe.cpp 885) only   *)
(* for a file that adds nothing but empty ones, and repeats itself (1015)  *)
(* only for one that adds an empty one beside others.                      *)
UsableWhenAccepted ==
  /\ Built =>
       /\ \A b \in Bytes : <<b>> \in DOMAIN ranks
       /\ IsInjective(ranks)
       /\ \A s, t \in Range(MergedBytes(file)) :
            LastMerge(s) < LastMerge(t) => ranks[s] < ranks[t]
       /\ TakenContents \subseteq {<<>>} \/ SlotCopies("pattern") \union SlotCopies("special") \subseteq tls
  /\ vphase = "undefined" => TakenContents \subseteq {<<>>}
  /\ vphase = "stuck" => <<>> \in TakenContents /\ TakenContents # {<<>>}

(* What encode makes of a text, decode turns back into it, although an id  *)
(* of an added token is nowhere checked against the ranks or the other     *)
(* added tokens (tiktoken.cpp 41-43): one that takes the id of an ordinary *)
(* token never hides it, only itself.                                      *)
Ambiguous(t) == /\ t.special
                /\ \/ IdOf(t) \in Range(ranks)
                   \/ \E s \in DOMAIN specials \ {t.bytes} : specials[s] = IdOf(t)
RoundTrip ==
  vphase = "decoded" /\ (\A k \in DOMAIN items : ~Ambiguous(items[k])) =>
    text = FlattenSeq([k \in DOMAIN items |-> items[k].bytes])
============================================================================
