------------------------------ MODULE Streams ------------------------------
(***************************************************************************)
(* One input, handed piece by piece to the incremental hasher and to RC4,  *)
(* as a caller does that receives it in blocks.                            *)
(***************************************************************************)
EXTENDS Digests, Rc4

CONSTANTS Inputs,      \* byte sequences
          Seeds,       \* of 32 bits
          LongSeeds,   \* of 64 bits
          OtherBytes,  \* what a byte of an input may be changed to
          Key          \* of RC4

ASSUME InputsAssumption == /\ Inputs \subseteq Seq(Byte)
                           /\ Seeds \subseteq [1 .. 4 -> Byte]
                           /\ LongSeeds \subseteq [1 .. 8 -> Byte]
                           /\ OtherBytes \subseteq Byte
                           /\ Key \in Seq(Byte) \ {<<>>}

VARIABLES
  input, seed,
  done,       \* bytes handed over
  hasher,     \* CMurmurHash2A
  cipher,     \* RC4KEY
  sent,       \* what RC4 has made of the bytes
  digest      \* of End, NoDigest before

streamVars == <<input, seed, done, hasher, cipher, sent, digest>>

NoDigest == <<>>

StreamBegin ==
  /\ input \in Inputs /\ seed \in Seeds
  /\ done = 0
  /\ hasher = Begun(seed)
  /\ cipher = _rc4Init(Key)
  /\ sent = <<>>
  /\ digest = NoDigest

Hand(n) ==
  /\ digest = NoDigest
  /\ LET piece == SubSeq(input, done + 1, done + n)  result == _rc4(cipher, piece)
     IN /\ hasher' = Add(hasher, piece)
        /\ cipher' = result.key
        /\ sent' = sent \o result.out
  /\ done' = done + n
  /\ UNCHANGED <<input, seed, digest>>

Finish ==
  /\ digest = NoDigest /\ done = Len(input)
  /\ digest' = End(hasher)
  /\ UNCHANGED <<input, seed, done, hasher, cipher, sent>>

StreamNext == (\E n \in 1 .. Len(input) - done : Hand(n)) \/ Finish
StreamSpec == StreamBegin /\ [][StreamNext]_streamVars

----------------------------------------------------------------------------
Finished == digest # NoDigest
Handed   == SubSeq(input, 1, done)

(* However the input is cut, and wherever it lies in memory:               *)
(* murmurhash2.cc 245-259: the incremental hasher gives the hash of the    *)
(* whole; 336 and 386: the neutral and the aligned version give that of    *)
(* MurmurHash2, for any address modulo 4.  crypt_utils.cpp: RC4 makes of   *)
(* the pieces what it makes of the whole, and undoes it at once.           *)
StreamsAgree ==
  /\ sent = _rc4Full(Key, Handed) /\ _rc4Full(Key, sent) = Handed
  /\ Finished =>
       /\ digest = MurmurHash2A(input, seed)
       /\ MurmurHashNeutral2(input, seed) = MurmurHash2(input, seed)
       /\ \A align \in 0 .. 3 : MurmurHashAligned2(input, align, seed) = MurmurHash2(input, seed)

(* No byte is left out: inputs that differ in one byte differ in every     *)
(* hash of murmurhash2.cc and hash_utils.cc, whatever the seed and however *)
(* the byte differs.                                                       *)
Changed(k, b)  == [input EXCEPT ![k] = b]
AllHashes(s, long) == << MurmurHash2(s, seed), MurmurHash2A(s, seed), Hash(s, seed), HashM(s),
                      MurmurHash2_64A(s, long), MurmurHash2_64B(s, long) >>
Differ(x, y) == \A n \in DOMAIN x : x[n] # y[n]
EveryByteTells ==
  Finished => \A long \in LongSeeds :
                LET all == AllHashes(input, long)
                IN \A k \in DOMAIN input : \A b \in OtherBytes \ {input[k]} :
                     Differ(all, AllHashes(Changed(k, b), long))
============================================================================
