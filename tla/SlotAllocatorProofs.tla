------------------------ MODULE SlotAllocatorProofs ------------------------
(***************************************************************************)
(* The slot allocator of token/core_bpe.cpp and its client, RunMulti, for  *)
(* any number of threads, of words, of bits per word and of lines.  Four   *)
(* parts: the allocator is typed, keeps an exact bitmap, excludes and      *)
(* races nowhere; it refuses only in a crowd; it implements                *)
(* SlotPool; and the workers of RunMulti use it as it may be used and      *)
(* account for every line.                                                 *)
(***************************************************************************)
EXTENDS SlotHistory, EncodeWorkers, SlotRelaxed, FiniteSetTheorems, TLAPS

(* Slot numbers are pairs of a word and a bit.                             *)
LEMMA SlotNumbers ==
  /\ \A w \in Word, b \in Bit : /\ SlotOf(w, b) \in Slot
                                /\ WordOf(SlotOf(w, b)) = w
                                /\ BitOf(SlotOf(w, b)) = b
  /\ \A s \in Slot : /\ WordOf(s) \in Word
                     /\ BitOf(s) \in Bit
                     /\ SlotOf(WordOf(s), BitOf(s)) = s
<1> USE SizesAssumption
<1>1. ASSUME NEW w \in Word, NEW b \in Bit
      PROVE  /\ SlotOf(w, b) \in Slot
             /\ WordOf(SlotOf(w, b)) = w
             /\ BitOf(SlotOf(w, b)) = b
  <2>1. /\ w \in Nat /\ b \in Nat /\ w <= NumWords - 1 /\ b <= WordBits - 1
        /\ WordBits \in Nat /\ WordBits >= 1 /\ NumWords \in Nat
    BY DEF Word, Bit
  <2>2. w * WordBits \in Nat
    BY <2>1
  <2>3. w * WordBits <= (NumWords - 1) * WordBits
    BY <2>1
  <2>4. (NumWords - 1) * WordBits = NumWords * WordBits - WordBits
    BY <2>1
  <2>5. w * WordBits + b <= NumWords * WordBits - 1
    BY <2>1, <2>2, <2>3, <2>4
  <2>6. SlotOf(w, b) \in Slot
    BY <2>1, <2>2, <2>5 DEF SlotOf, Slot, NumSlots
  <2>7. (w * WordBits + b) \div WordBits = w
    BY <2>1, <2>2
  <2>8. (w * WordBits + b) % WordBits = b
    BY <2>1, <2>2, <2>7
  <2> QED
    BY <2>6, <2>7, <2>8 DEF SlotOf, WordOf, BitOf
<1>2. ASSUME NEW s \in Slot
      PROVE  /\ WordOf(s) \in Word
             /\ BitOf(s) \in Bit
             /\ SlotOf(WordOf(s), BitOf(s)) = s
  <2>1. /\ s \in Nat /\ s <= NumWords * WordBits - 1
        /\ WordBits \in Nat /\ WordBits >= 1 /\ NumWords \in Nat
    BY DEF Slot, NumSlots
  <2>2. /\ s \div WordBits \in Nat
        /\ s % WordBits \in 0 .. WordBits - 1
        /\ s = (s \div WordBits) * WordBits + (s % WordBits)
    BY <2>1
  <2>3. s \div WordBits <= NumWords - 1
    <3> SUFFICES ASSUME s \div WordBits >= NumWords PROVE FALSE
      BY <2>1, <2>2
    <3>1. (s \div WordBits) * WordBits >= NumWords * WordBits
      BY <2>1, <2>2
    <3> QED
      BY <2>1, <2>2, <3>1
  <2> QED
    BY <2>1, <2>2, <2>3 DEF SlotOf, WordOf, BitOf, Word, Bit
<1> QED
  BY <1>1, <1>2

----------------------------------------------------------------------------
(* Every variable keeps its type, and a thread owns a slot exactly while   *)
(* it encodes.                                                             *)
LEMMA TypeInductive ==
  /\ Init => TypeOK
  /\ TypeOK /\ [Next]_vars => TypeOK'
<1> USE DEF TypeOK, Phase
<1>1. Init => TypeOK
  BY SizesAssumption DEF Init, Word, Slot, NoSlot
<1>2. ASSUME TypeOK, [Next]_vars PROVE TypeOK'
  <2>1. CASE UNCHANGED vars
    BY <1>2, <2>1 DEF vars
  <2>2. ASSUME NEW t \in Threads, Step(t) PROVE TypeOK'
    <3>1. CASE Call(t)
      BY <1>2, <3>1 DEF Call
    <3>2. CASE Load(t)
      BY <1>2, <3>2 DEF Load
    <3>3. CASE NextWord(t)
      <4>1. word[t] + 1 \in Word
        BY <1>2, <3>3, SizesAssumption DEF NextWord, Word
      <4> QED
        BY <1>2, <3>3, <4>1 DEF NextWord
    <3>4. CASE Refuse(t)
      BY <1>2, <3>4, SizesAssumption DEF Refuse, Return, Word
    <3>5. CASE CasSuccess(t)
      <4>1. PICK b \in Bit : /\ IsLowestZero(b, old[t])
                             /\ Claim(t, b)
                             /\ slot' = [slot EXCEPT ![t] = SlotOf(word[t], b)]
        BY <3>5 DEF CasSuccess
      <4>2. SlotOf(word[t], b) \in Slot /\ SlotOf(word[t], b) # NoSlot
        BY <1>2, SlotNumbers, SizesAssumption DEF Slot, NoSlot, NumSlots
      <4>3. 0 \in Word
        BY SizesAssumption DEF Word
      <4>4. /\ bitmap' \in [Word -> SUBSET Bit]
            /\ published' \in [Word -> SUBSET Slot]
            /\ seen' \in [Threads -> SUBSET Slot]
        BY <1>2, <4>1 DEF Claim
      <4>5. /\ pc' \in [Threads -> Phase]
            /\ word' \in [Threads -> Word]
            /\ old' \in [Threads -> SUBSET Bit]
            /\ leaked' \in SUBSET Slot
        BY <1>2, <3>5, <4>3 DEF CasSuccess, Return
      <4>6. /\ slot' \in [Threads -> Slot \union {NoSlot}]
            /\ \A u \in Threads : pc'[u] = "encode" <=> slot'[u] # NoSlot
        BY <1>2, <3>5, <4>1, <4>2 DEF CasSuccess, Return
      <4> QED
        BY <4>4, <4>5, <4>6
    <3>6. CASE CasFail(t)
      BY <1>2, <3>6 DEF CasFail
    <3>7. CASE Match(t)
      BY <1>2, <3>7 DEF Match
    <3>8. CASE Release(t)
      BY <1>2, <3>8 DEF Release, ClearBit
    <3>9. CASE Throw(t)
      BY <1>2, <3>9 DEF Throw
    <3> QED
      BY <2>2, <3>1, <3>2, <3>3, <3>4, <3>5, <3>6, <3>7, <3>8, <3>9 DEF Step
  <2> QED
    BY <1>2, <2>1, <2>2 DEF Next
<1> QED
  BY <1>1, <1>2

(* The typing invariant, for every number of threads, words and bits.      *)
THEOREM TypeCorrect == Spec => []TypeOK
  BY TypeInductive, PTL DEF Spec

----------------------------------------------------------------------------
(* What claiming and releasing do to the set of taken slots.               *)
LEMMA ClaimTakes ==
  ASSUME TypeOK, NEW t \in Threads, NEW b \in Bit,
         IsLowestZero(b, old[t]), Claim(t, b)
  PROVE  /\ Taken' = Taken \union {SlotOf(word[t], b)}
         /\ SlotOf(word[t], b) \in Slot \ Taken
<1> DEFINE w == word[t]
           n == SlotOf(w, b)
<1>1. w \in Word /\ n \in Slot /\ WordOf(n) = w /\ BitOf(n) = b
  BY SlotNumbers DEF TypeOK
<1>2. /\ \A v \in Word : bitmap'[v] = IF v = w THEN bitmap[v] \union {b} ELSE bitmap[v]
      /\ b \notin bitmap[w]
  BY <1>1 DEF Claim, IsLowestZero, TypeOK
<1>3. ASSUME NEW s \in Slot PROVE s \in Taken' <=> s \in Taken \/ s = n
  <2>1. WordOf(s) \in Word /\ (s = n <=> WordOf(s) = w /\ BitOf(s) = b)
    BY <1>1, SlotNumbers
  <2> QED
    BY <1>2, <2>1 DEF Taken
<1> QED
  BY <1>1, <1>2, <1>3 DEF Taken

LEMMA ReleaseFrees ==
  ASSUME TypeOK, NEW t \in Threads, Release(t)
  PROVE  /\ slot[t] \in Slot
         /\ Taken' = Taken \ {slot[t]}
<1> DEFINE n == slot[t]
<1>1. n \in Slot /\ WordOf(n) \in Word /\ BitOf(n) \in Bit
  BY SlotNumbers DEF Release, TypeOK
<1>2. \A v \in Word : bitmap'[v] = IF v = WordOf(n) THEN bitmap[v] \ {BitOf(n)}
                                                     ELSE bitmap[v]
  BY <1>1 DEF Release, ClearBit, TypeOK
<1>3. ASSUME NEW s \in Slot PROVE s \in Taken' <=> s \in Taken /\ s # n
  <2>1. WordOf(s) \in Word /\ (s = n <=> WordOf(s) = WordOf(n) /\ BitOf(s) = BitOf(n))
    BY <1>1, SlotNumbers
  <2> QED
    BY <1>2, <2>1 DEF Taken
<1> QED
  BY <1>1, <1>3 DEF Taken

----------------------------------------------------------------------------
(* A free slot is safe to claim: whoever reads its bit as 0 and wins the   *)
(* exchange is ordered after its last user.  This is what makes            *)
(* ScratchRaceFree inductive; the exactness of the bitmap makes            *)
(* SlotExclusive inductive.                                                *)
FreePublished == \A s \in Slot \ Taken : s \in published[WordOf(s)]

SlotInv == /\ TypeOK
           /\ SlotExclusive
           /\ BitmapExact
           /\ ScratchRaceFree
           /\ FreePublished

(* Steps that touch neither bitmap nor ownership nor ordering.             *)
LEMMA QuietStep ==
  ASSUME SlotInv, TypeOK', Encoding' = Encoding,
         UNCHANGED <<bitmap, published, slot, seen, leaked>>
  PROVE  SlotInv'
<1>1. Taken' = Taken
  BY DEF Taken
<1> QED
  BY <1>1 DEF SlotInv, SlotExclusive, BitmapExact, ScratchRaceFree, FreePublished

LEMMA CasSuccessStep ==
  ASSUME SlotInv, TypeOK', NEW t \in Threads, CasSuccess(t)
  PROVE  SlotInv'
<1> USE DEF SlotInv
<1>1. PICK b \in Bit : /\ IsLowestZero(b, old[t])
                       /\ Claim(t, b)
                       /\ slot' = [slot EXCEPT ![t] = SlotOf(word[t], b)]
  BY DEF CasSuccess
<1> DEFINE n == SlotOf(word[t], b)
<1>2. Taken' = Taken \union {n} /\ n \in Slot \ Taken
  BY <1>1, ClaimTakes
<1>3. Encoding' = Encoding \union {t} /\ t \notin Encoding /\ leaked' = leaked
  BY DEF CasSuccess, Return, Encoding, TypeOK
<1>4. /\ slot'[t] = n
      /\ \A u \in Encoding : slot'[u] = slot[u]
  BY <1>1, <1>3 DEF TypeOK, Encoding
<1>5. \A u \in Encoding : slot[u] # n
  BY <1>2 DEF BitmapExact
<1>6. SlotExclusive'
  BY <1>3, <1>4, <1>5 DEF SlotExclusive
<1>7. BitmapExact'
  <2>1. {slot'[u] : u \in Encoding'} = {slot[u] : u \in Encoding} \union {n}
    BY <1>3, <1>4
  <2>2. n \notin leaked
    BY <1>2 DEF BitmapExact
  <2> QED
    BY <1>2, <1>3, <1>4, <2>1, <2>2 DEF BitmapExact
<1>8. ScratchRaceFree'
  <2>1. n \in published[word[t]]
    BY <1>2, SlotNumbers DEF FreePublished, TypeOK
  <2>2. \A u \in Threads : seen'[u] = IF u = t THEN seen[u] \union published[word[t]]
                                               ELSE seen[u]
    BY <1>1 DEF Claim, TypeOK
  <2> QED
    BY <1>3, <1>4, <2>1, <2>2, ZenonT(60) DEF ScratchRaceFree, Encoding
<1>9. FreePublished'
  BY <1>1, <1>2 DEF FreePublished, Claim
<1> QED
  BY <1>6, <1>7, <1>8, <1>9

LEMMA MatchStep ==
  ASSUME SlotInv, TypeOK', NEW t \in Threads, Match(t)
  PROVE  SlotInv'
<1> USE DEF SlotInv
<1>1. Taken' = Taken /\ Encoding' = Encoding /\ t \in Encoding
  BY DEF Match, Taken, Encoding
<1>2. SlotExclusive' /\ BitmapExact'
  BY <1>1 DEF Match, SlotExclusive, BitmapExact
<1>3. ASSUME NEW u \in Encoding PROVE slot'[u] \in seen'[u]
  <2>1. slot[u] \in seen[u] /\ slot' = slot /\ u \in Threads
    BY DEF Match, ScratchRaceFree, Encoding
  <2>2. CASE u = t
    BY <2>1, <2>2 DEF Match
  <2>3. CASE u # t
    <3>1. slot[u] # slot[t]
      BY <1>1, <2>3 DEF SlotExclusive
    <3> QED
      BY <2>1, <2>3, <3>1 DEF Match
  <2> QED
    BY <2>2, <2>3
<1>4. ASSUME NEW s \in Slot \ Taken PROVE s \in published'[WordOf(s)]
  <2>1. s # slot[t]
    BY <1>1, <1>4 DEF BitmapExact
  <2>2. WordOf(s) \in Word
    BY SlotNumbers
  <2> QED
    BY <2>1, <2>2 DEF Match, FreePublished
<1> QED
  BY <1>1, <1>2, <1>3, <1>4 DEF ScratchRaceFree, FreePublished

LEMMA ReleaseStep ==
  ASSUME SlotInv, TypeOK', NEW t \in Threads, Release(t)
  PROVE  SlotInv'
<1> USE DEF SlotInv
<1> DEFINE n == slot[t]
<1>1. n \in Slot /\ Taken' = Taken \ {n}
  BY ReleaseFrees
<1>2. /\ t \in Encoding /\ Encoding' = Encoding \ {t} /\ leaked' = leaked
      /\ \A u \in Encoding' : slot'[u] = slot[u] /\ seen'[u] = seen[u]
  BY DEF Release, Encoding, TypeOK
<1>3. \A u \in Encoding' : slot[u] # n
  BY <1>2 DEF SlotExclusive
<1>4. SlotExclusive'
  BY <1>2 DEF SlotExclusive
<1>5. BitmapExact'
  <2>1. n \notin leaked
    BY <1>2 DEF BitmapExact
  <2>2. {slot'[u] : u \in Encoding'} = {slot[u] : u \in Encoding} \ {n}
    BY <1>2, <1>3
  <2> QED
    BY <1>1, <1>2, <2>1, <2>2 DEF BitmapExact
<1>6. ScratchRaceFree'
  BY <1>2 DEF ScratchRaceFree
<1>7. FreePublished'
  <2>1. /\ WordOf(n) \in Word
        /\ \A w \in Word : published'[w] = IF w = WordOf(n) THEN published[w] \union seen[t]
                                                           ELSE published[w]
    BY <1>1, SlotNumbers DEF Release, ClearBit, TypeOK
  <2>2. n \in seen[t]
    BY <1>2 DEF ScratchRaceFree
  <2>3. \A s \in Slot : WordOf(s) \in Word
    BY SlotNumbers
  <2> QED
    BY <1>1, <2>1, <2>2, <2>3 DEF FreePublished
<1> QED
  BY <1>4, <1>5, <1>6, <1>7

LEMMA ThrowStep ==
  ASSUME SlotInv, TypeOK', NEW t \in Threads, Throw(t)
  PROVE  SlotInv'
<1> USE DEF SlotInv
<1>1. /\ t \in Encoding /\ Encoding' = Encoding \ {t}
      /\ leaked' = leaked \union {slot[t]}
      /\ \A u \in Encoding' : slot'[u] = slot[u] /\ seen'[u] = seen[u]
  BY DEF Throw, Encoding, TypeOK
<1>2. Taken' = Taken /\ published' = published
  BY DEF Throw, Taken
<1>3. SlotExclusive' /\ ScratchRaceFree' /\ FreePublished'
  BY <1>1, <1>2 DEF SlotExclusive, ScratchRaceFree, FreePublished
<1>4. BitmapExact'
  <2>1. \A u \in Encoding' : slot[u] # slot[t]
    BY <1>1 DEF SlotExclusive
  <2>2. {slot'[u] : u \in Encoding'} \union {slot[t]} = {slot[u] : u \in Encoding}
    BY <1>1
  <2> QED
    BY <1>1, <1>2, <2>1, <2>2 DEF BitmapExact
<1> QED
  BY <1>3, <1>4

LEMMA SlotInvInductive ==
  /\ Init => SlotInv
  /\ SlotInv /\ [Next]_vars => SlotInv'
<1>1. ASSUME Init PROVE SlotInv
  <2>1. TypeOK
    BY <1>1, TypeInductive
  <2>2. Encoding = {} /\ Taken = {} /\ leaked = {}
    BY <1>1, SlotNumbers DEF Init, Encoding, Taken
  <2>3. FreePublished
    BY <1>1, SlotNumbers DEF Init, FreePublished
  <2> QED
    BY <2>1, <2>2, <2>3 DEF SlotInv, SlotExclusive, BitmapExact, ScratchRaceFree
<1>2. ASSUME SlotInv, [Next]_vars PROVE SlotInv'
  <2>1. TypeOK'
    BY <1>2, TypeInductive DEF SlotInv
  <2>2. CASE UNCHANGED vars
    BY <1>2, <2>1, <2>2, QuietStep DEF vars, Encoding
  <2>3. ASSUME NEW t \in Threads, Step(t) PROVE SlotInv'
    <3> USE <1>2, <2>1
    <3>1. CASE Call(t) \/ Load(t) \/ NextWord(t) \/ Refuse(t) \/ CasFail(t)
      <4>1. UNCHANGED <<bitmap, published, slot, seen, leaked>>
        BY <3>1 DEF Call, Load, NextWord, Refuse, CasFail
      <4>2. Encoding' = Encoding
        BY <3>1 DEF SlotInv, TypeOK, Encoding, Call, Load, NextWord, Refuse, Return, CasFail
      <4> QED
        BY <4>1, <4>2, QuietStep
    <3>2. CASE CasSuccess(t)
      BY <3>2, CasSuccessStep
    <3>3. CASE Match(t)
      BY <3>3, MatchStep
    <3>4. CASE Release(t)
      BY <3>4, ReleaseStep
    <3>5. CASE Throw(t)
      BY <3>5, ThrowStep
    <3> QED
      BY <2>3, <3>1, <3>2, <3>3, <3>4, <3>5 DEF Step
  <2> QED
    BY <1>2, <2>2, <2>3 DEF Next
<1> QED
  BY <1>1, <1>2

(* Hence every state of the allocator satisfies the invariant.             *)
LEMMA SlotInvHolds == Spec => []SlotInv
  BY SlotInvInductive, PTL DEF Spec

(* Two encodes never share a scratch area: allocate hands a bit that is    *)
(* set to nobody, for any number of threads, words and bits.               *)
THEOREM SlotSafety == Spec => []SlotExclusive
<1>1. SlotInv => SlotExclusive
  BY DEF SlotInv
<1> QED
  BY <1>1, SlotInvHolds, PTL

(* The bitmap says exactly which slots are owned or lost: no claim of      *)
(* allocate is overwritten and no fetch_and of release is lost.            *)
THEOREM BitmapAlwaysExact == Spec => []BitmapExact
<1>1. SlotInv => BitmapExact
  BY DEF SlotInv
<1> QED
  BY <1>1, SlotInvHolds, PTL

(* No scratch area is written by two threads without an acquire/release    *)
(* edge of its word between them.                                          *)
THEOREM NoScratchRace == Spec => []ScratchRaceFree
<1>1. SlotInv => ScratchRaceFree
  BY DEF SlotInv
<1> QED
  BY <1>1, SlotInvHolds, PTL

(* A step that frees a slot is its owner's release.                        *)
LEMMA OwnerFreesStep ==
  ASSUME SlotInv, [Next]_vars
  PROVE  [\A s \in Taken \ Taken' :
            \E t \in Encoding : /\ slot[t] = s
                                /\ t \notin Encoding'
                                /\ Taken' = Taken \ {s}]_vars
<1> DEFINE A == \A s \in Taken \ Taken' :
                  \E t \in Encoding : /\ slot[t] = s
                                      /\ t \notin Encoding'
                                      /\ Taken' = Taken \ {s}
<1>1. CASE UNCHANGED vars
  BY <1>1
<1>2. ASSUME NEW t \in Threads, Step(t) PROVE A
  <2>1. CASE Release(t)
    <3>1. Taken' = Taken \ {slot[t]}
      BY <2>1, ReleaseFrees DEF SlotInv
    <3>2. t \in Encoding \ Encoding'
      BY <2>1 DEF Release, Encoding, SlotInv, TypeOK
    <3> QED
      BY <3>1, <3>2
  <2>2. CASE CasSuccess(t)
    <3>1. PICK b \in Bit : IsLowestZero(b, old[t]) /\ Claim(t, b)
      BY <2>2 DEF CasSuccess
    <3>2. Taken \subseteq Taken'
      BY <3>1, ClaimTakes DEF SlotInv
    <3> QED
      BY <3>2
  <2>3. CASE ~Release(t) /\ ~CasSuccess(t)
    <3>1. Taken' = Taken
      BY <1>2, <2>3 DEF Taken, Step, Call, Load, NextWord, Refuse, CasFail, Match, Throw
    <3> QED
      BY <3>1
  <2> QED
    BY <2>1, <2>2, <2>3
<1> QED
  BY <1>1, <1>2 DEF Next

(* Only the owner of a slot frees it, when its encode returns.             *)
THEOREM OwnerFrees == Spec => OnlyOwnerFrees
  BY OwnerFreesStep, SlotInvInductive, PTL DEF Spec, OnlyOwnerFrees

----------------------------------------------------------------------------
(***************************************************************************)
(* SlotAllocator refuses an encode only if at one moment of its call the   *)
(* encodes in progress and the lost slots were more than the slots, for    *)
(* any number of threads, words and bits.                                  *)
(*                                                                         *)
(* A thread has passed word w once its snapshot of w showed no free bit.   *)
(* At that moment the WordBits slots of w were taken, and the thread had   *)
(* passed all words before w for the same reason.  So the slots taken in   *)
(* words from w on and the threads searching from w on together leave w    *)
(* whole words of slots to the remaining encodes and lost slots.  That is  *)
(* argued for one thread, the watcher: whoever rises later to a level that *)
(* the watcher has reached does so while the watcher is in its call.       *)
(***************************************************************************)

Level == 1 .. NumWords

(* The word a search has come to; NumWords when no word is left.           *)
Reached(t) == IF pc[t] = "cas" /\ Full(old[t]) THEN word[t] + 1 ELSE word[t]

Searching        == {t \in Threads : pc[t] \in {"load", "cas"}}
SearchingFrom(j) == {t \in Searching : Reached(t) >= j}
TakenFrom(j)     == {s \in Taken : WordOf(s) >= j}
InUse(j)         == Cardinality(TakenFrom(j)) + Cardinality(SearchingFrom(j))

(* A search starts at word 0.                                              *)
StartsAtZero == \A t \in Threads \ Searching : word[t] = 0 /\ old[t] = {}

(* A watcher v at level j or beyond leaves j words to the others, of the B *)
(* slots and searches there were at most during its call.                  *)
Within(v, B) == \A j \in Level : v \in SearchingFrom(j) => InUse(j) + j * WordBits <= B

Searches(v, B) == /\ SlotInv /\ StartsAtZero /\ Within(v, B)
                  /\ Cardinality(Taken) + Cardinality(Searching) <= B

CrowdInv == /\ SlotInv /\ StartsAtZero
            /\ crowd \in [Threads -> Nat]
            /\ \A t \in Searching : Pressure <= crowd[t]
            /\ \A t \in Threads : Within(t, crowd[t])

----------------------------------------------------------------------------
(* Counting.                                                               *)
SlotsOfWord(w) == {s \in Slot : WordOf(s) = w}

LEMMA FiniteSlots == IsFiniteSet(Slot)
<1>1. NumSlots - 1 \in Int
  BY SizesAssumption DEF NumSlots
<1> QED
  BY <1>1, FS_Interval DEF Slot

LEMMA CountSubset ==
  ASSUME NEW S \in (SUBSET Slot) \union (SUBSET Threads), NEW T \in SUBSET S
  PROVE  /\ IsFiniteSet(S) /\ Cardinality(S) \in Nat
         /\ IsFiniteSet(T) /\ Cardinality(T) \in Nat
         /\ Cardinality(T) <= Cardinality(S)
<1>1. IsFiniteSet(S)
  BY FiniteSlots, ThreadsAssumption, FS_Subset
<1>2. IsFiniteSet(T) /\ Cardinality(T) <= Cardinality(S)
  BY <1>1, FS_Subset
<1> QED
  BY <1>1, <1>2, FS_CardinalityType

(* Every word has WordBits slots.                                          *)
LEMMA CountSlotsOfWord ==
  ASSUME NEW w \in Word
  PROVE  Cardinality(SlotsOfWord(w)) = WordBits
<1> DEFINE low  == w * WordBits
           high == w * WordBits + (WordBits - 1)
<1>1. /\ w \in Nat /\ WordBits \in Nat /\ WordBits >= 1
      /\ low \in Nat /\ high \in Nat
  BY SizesAssumption DEF Word
<1>2. ASSUME NEW s \in low .. high PROVE s \in SlotsOfWord(w)
  <2>1. s - low \in Bit /\ s = SlotOf(w, s - low)
    BY <1>1 DEF Bit, SlotOf
  <2> QED
    BY <2>1, SlotNumbers DEF SlotsOfWord
<1>3. ASSUME NEW s \in SlotsOfWord(w) PROVE s \in low .. high
  <2>1. s = SlotOf(w, BitOf(s)) /\ BitOf(s) \in Bit
    BY SlotNumbers DEF SlotsOfWord
  <2>2. s = low + BitOf(s) /\ BitOf(s) \in 0 .. WordBits - 1
    BY <2>1 DEF SlotOf, Bit
  <2> HIDE DEF low
  <2>3. low + BitOf(s) \in low .. low + (WordBits - 1)
    BY <1>1, <2>2
  <2> QED
    BY <2>2, <2>3 DEF low
<1>4. SlotsOfWord(w) = low .. high
  BY <1>2, <1>3
<1>5. high - low + 1 = WordBits /\ ~(low > high)
  BY <1>1
<1> QED
  BY <1>1, <1>4, <1>5, FS_Interval

(* All in all there are no more slots taken and searches going on than     *)
(* threads inside encode and lost slots.                                   *)
LEMMA InUseBounded ==
  ASSUME SlotInv, NEW S \in SUBSET Threads, Encoding \union Searching \subseteq S
  PROVE  Cardinality(Taken) + Cardinality(Searching) <= Cardinality(S) + Cardinality(leaked)
<1> DEFINE Owned == {slot[t] : t \in Encoding}
           f     == [t \in Encoding |-> slot[t]]
<1>1. /\ Encoding \in SUBSET Threads /\ Searching \in SUBSET Threads
      /\ Encoding \intersect Searching = {}
  BY DEF Encoding, Searching
<1>2. Taken = Owned \union leaked /\ leaked \in SUBSET Slot /\ Owned \in SUBSET Slot
  BY DEF SlotInv, BitmapExact, TypeOK, Taken
<1>3. /\ IsFiniteSet(Encoding) /\ Cardinality(Encoding) \in Nat
      /\ IsFiniteSet(Searching) /\ Cardinality(Searching) \in Nat
      /\ IsFiniteSet(leaked) /\ Cardinality(leaked) \in Nat
      /\ IsFiniteSet(Owned) /\ Cardinality(Owned) \in Nat
      /\ IsFiniteSet(S) /\ Cardinality(S) \in Nat
  BY <1>1, <1>2, CountSubset
<1>4. Cardinality(Owned) <= Cardinality(Encoding)
  <2>1. f \in Surjection(Encoding, Owned)
    BY DEF Surjection
  <2> QED
    BY <1>3, <2>1, FS_Surjection
<1>5. Cardinality(Taken) <= Cardinality(Owned) + Cardinality(leaked)
  <2>1. Cardinality(Taken) = Cardinality(Owned) + Cardinality(leaked)
                               - Cardinality(Owned \intersect leaked)
    BY <1>2, <1>3, FS_Union
  <2>2. Cardinality(Owned \intersect leaked) \in Nat
    BY <1>2, CountSubset
  <2> QED
    BY <1>3, <2>1, <2>2
<1>6. Cardinality(Encoding) + Cardinality(Searching) <= Cardinality(S)
  <2>1. Cardinality(Encoding \union Searching) = Cardinality(Encoding) + Cardinality(Searching)
                                                  - Cardinality({})
    BY <1>1, <1>3, FS_Union
  <2>2. Cardinality(Encoding \union Searching) <= Cardinality(S)
    BY <1>3, FS_Subset
  <2> QED
    BY <1>3, <2>1, <2>2, FS_EmptySet
<1>7. Cardinality(Taken) \in Nat
  BY CountSubset DEF Taken
<1> QED
  BY <1>3, <1>4, <1>5, <1>6, <1>7

(* Whoever holds or looks for a slot is inside encode.                     *)
LEMMA PressureBound ==
  ASSUME SlotInv
  PROVE  Pressure \in Nat /\ Cardinality(Taken) + Cardinality(Searching) <= Pressure
<1>1. InProgress \in SUBSET Threads /\ Encoding \union Searching \subseteq InProgress
  BY DEF Encoding, Searching, InProgress
<1>2. leaked \in SUBSET Slot
  BY DEF SlotInv, TypeOK
<1>3. Cardinality(InProgress) \in Nat /\ Cardinality(leaked) \in Nat
  BY <1>1, <1>2, CountSubset
<1> QED
  BY <1>1, <1>3, InUseBounded DEF Pressure

----------------------------------------------------------------------------
(* A thread that finds its word full may pass it: the invariant has room   *)
(* for one more search beyond the word.                                    *)
LEMMA MayPass ==
  ASSUME NEW B \in Nat, NEW v \in Threads, SlotInv, Within(v, B),
         Cardinality(Taken) + Cardinality(Searching) <= B, NEW t \in Searching,
         Reached(t) = word[t], Full(bitmap[word[t]]), v \in SearchingFrom(word[t])
  PROVE  InUse(word[t] + 1) + 1 + (word[t] + 1) * WordBits <= B
<1> DEFINE w == word[t]
<1>1. /\ w \in Word /\ w \in Nat /\ WordBits \in Nat /\ NumWords \in Nat /\ w <= NumWords - 1
      /\ (w + 1) * WordBits = w * WordBits + WordBits /\ w * WordBits \in Nat
  BY SizesAssumption DEF SlotInv, TypeOK, Searching, Word
<1>2. /\ TakenFrom(w) \in SUBSET Slot /\ TakenFrom(w + 1) \in SUBSET Slot
      /\ SearchingFrom(w) \in SUBSET Threads /\ SearchingFrom(w + 1) \in SUBSET Threads
      /\ SlotsOfWord(w) \in SUBSET Slot
  BY DEF TakenFrom, Taken, SearchingFrom, Searching, SlotsOfWord
<1>3. /\ IsFiniteSet(TakenFrom(w + 1)) /\ Cardinality(TakenFrom(w + 1)) \in Nat
      /\ IsFiniteSet(SlotsOfWord(w)) /\ Cardinality(SlotsOfWord(w)) \in Nat
      /\ IsFiniteSet(SearchingFrom(w + 1)) /\ Cardinality(SearchingFrom(w + 1)) \in Nat
      /\ Cardinality(SearchingFrom(w)) \in Nat /\ Cardinality(TakenFrom(w)) \in Nat
  BY <1>2, CountSubset
<1>4. t \in SearchingFrom(w) /\ t \notin SearchingFrom(w + 1)
  BY <1>1 DEF SearchingFrom
<1>5. InUse(w) + w * WordBits <= B
  <2>1. CASE w = 0
    <3>1. /\ TakenFrom(w) \in SUBSET Taken /\ Taken \in SUBSET Slot
          /\ SearchingFrom(w) \in SUBSET Searching /\ Searching \in SUBSET Threads
      BY DEF TakenFrom, SearchingFrom, Taken, Searching
    <3>2. /\ Cardinality(TakenFrom(w)) <= Cardinality(Taken) /\ Cardinality(Taken) \in Nat
          /\ Cardinality(SearchingFrom(w)) <= Cardinality(Searching)
          /\ Cardinality(Searching) \in Nat
      BY <3>1, CountSubset
    <3>4. w * WordBits = 0
      BY <2>1, <1>1
    <3> QED
      BY <1>3, <3>2, <3>4 DEF InUse
  <2>2. CASE w # 0
    <3>1. w \in Level /\ v \in SearchingFrom(w)
      BY <1>1, <2>2 DEF Level
    <3> HIDE DEF w
    <3> QED
      BY <3>1 DEF Within
  <2> QED
    BY <2>1, <2>2
<1>6. Cardinality(TakenFrom(w)) = Cardinality(TakenFrom(w + 1)) + WordBits
  <2>1. TakenFrom(w) = TakenFrom(w + 1) \union SlotsOfWord(w)
    <3>1. ASSUME NEW s \in SlotsOfWord(w) PROVE s \in TakenFrom(w)
      BY <1>1, SlotNumbers DEF SlotsOfWord, Taken, TakenFrom, Full
    <3>2. ASSUME NEW s \in Taken PROVE WordOf(s) >= w <=> WordOf(s) >= w + 1 \/ WordOf(s) = w
      BY <1>1, SlotNumbers DEF Taken, Word
    <3> QED
      BY <3>1, <3>2 DEF TakenFrom, SlotsOfWord, Taken
  <2>2. TakenFrom(w + 1) \intersect SlotsOfWord(w) = {}
    BY <1>1 DEF TakenFrom, SlotsOfWord
  <2>3. Cardinality(TakenFrom(w)) = Cardinality(TakenFrom(w + 1)) + Cardinality(SlotsOfWord(w))
                                      - Cardinality({})
    BY <1>3, <2>1, <2>2, FS_Union
  <2>4. Cardinality(SlotsOfWord(w)) = WordBits /\ Cardinality({}) = 0
    BY <1>1, CountSlotsOfWord, FS_EmptySet
  <2> HIDE DEF w
  <2> QED
    BY <1>1, <1>3, <2>3, <2>4
<1>7. Cardinality(SearchingFrom(w + 1)) + 1 <= Cardinality(SearchingFrom(w))
  <2>1. SearchingFrom(w + 1) \union {t} \in SUBSET SearchingFrom(w)
    BY <1>1, <1>4 DEF SearchingFrom, Reached, Searching, SlotInv, TypeOK, Word
  <2>2. Cardinality(SearchingFrom(w + 1) \union {t}) = Cardinality(SearchingFrom(w + 1)) + 1
    BY <1>3, <1>4, FS_AddElement
  <2> QED
    BY <1>2, <2>1, <2>2, CountSubset
<1> HIDE DEF w
<1>9. InUse(w + 1) + 1 + (w + 1) * WordBits <= B
  BY <1>1, <1>3, <1>5, <1>6, <1>7 DEF InUse
<1> QED
  BY <1>9 DEF w

----------------------------------------------------------------------------
(* Sizes are numbers.                                                      *)
LEMMA Sizes ==
  ASSUME TypeOK
  PROVE  \A j \in Level : /\ InUse(j) \in Nat
                          /\ Cardinality(SearchingFrom(j)) \in Nat
                          /\ Cardinality(TakenFrom(j)) \in Nat
<1>3. ASSUME NEW j \in Level
      PROVE  TakenFrom(j) \in SUBSET Slot /\ SearchingFrom(j) \in SUBSET Threads
  BY DEF TakenFrom, Taken, SearchingFrom, Searching
<1>4. ASSUME NEW j \in Level
      PROVE  Cardinality(TakenFrom(j)) \in Nat /\ Cardinality(SearchingFrom(j)) \in Nat
  BY <1>3, CountSubset
<1> QED
  BY <1>4 DEF InUse

(* A step keeps the levels bounded if nobody rises and no new slot of a    *)
(* reached level is taken.                                                 *)
LEMMA NotMore ==
  ASSUME TypeOK, TypeOK', NEW B \in Nat, NEW v \in Threads, Within(v, B),
         NEW j \in Level,
         SearchingFrom(j)' \subseteq SearchingFrom(j),
         TakenFrom(j)' \subseteq TakenFrom(j)
  PROVE  v \in SearchingFrom(j)' => InUse(j)' + j * WordBits <= B
<1>1. /\ SearchingFrom(j) \in SUBSET Threads /\ TakenFrom(j) \in SUBSET Slot
  BY DEF SearchingFrom, Searching, TakenFrom, Taken, TypeOK
<1>2. /\ Cardinality(SearchingFrom(j)') <= Cardinality(SearchingFrom(j))
      /\ Cardinality(SearchingFrom(j)') \in Nat /\ Cardinality(SearchingFrom(j)) \in Nat
  BY <1>1, CountSubset
<1>3. /\ Cardinality(TakenFrom(j)') <= Cardinality(TakenFrom(j))
      /\ Cardinality(TakenFrom(j)') \in Nat /\ Cardinality(TakenFrom(j)) \in Nat
  BY <1>1, CountSubset
<1>4. j * WordBits \in Int
  BY SizesAssumption DEF Level
<1>5. v \in SearchingFrom(j)' =>
        Cardinality(TakenFrom(j)) + Cardinality(SearchingFrom(j)) + j * WordBits <= B
  BY DEF Within, InUse
<1>6. InUse(j)' = Cardinality(TakenFrom(j)') + Cardinality(SearchingFrom(j)')
  BY DEF InUse
<1> QED
  BY <1>2, <1>3, <1>4, <1>5, <1>6

(* The thread looks at its word and finds it full, or not.                 *)
LEMMA LookStep ==
  ASSUME NEW B \in Nat, NEW v \in Threads, Searches(v, B), TypeOK', NEW t \in Threads,
         Load(t) \/ CasFail(t)
  PROVE  Within(v, B)'
<1> USE DEF Searches, SlotInv
<1> DEFINE w == word[t]
<1>1. /\ t \in Searching /\ Reached(t) = w /\ Searching' = Searching
      /\ \A u \in Threads \ {t} : Reached(u)' = Reached(u)
      /\ Reached(t)' = IF Full(bitmap[w]) THEN w + 1 ELSE w
  BY DEF Load, CasFail, Searching, Reached, TypeOK, Full
<1>2. Taken' = Taken /\ leaked' = leaked
  BY DEF Load, CasFail, Taken
<1>3. \A j \in Level : TakenFrom(j)' = TakenFrom(j)
  BY <1>2 DEF TakenFrom
<1>4. w \in Int /\ NumWords \in Int /\ WordBits \in Int
  BY SizesAssumption DEF TypeOK, Word
<1>5. ASSUME NEW j \in Level, v \in SearchingFrom(j)'
      PROVE  InUse(j)' + j * WordBits <= B
  <2>1. CASE Full(bitmap[w]) /\ j = w + 1
    <3>0. v \in SearchingFrom(w)
      <4>1. v \in Searching /\ Reached(v)' >= w + 1
        BY <1>1, <1>5, <2>1 DEF SearchingFrom
      <4>2. CASE v = t
        BY <1>1, <1>4, <4>2 DEF SearchingFrom
      <4>3. CASE v # t
        <5>1. Reached(v) \in Int /\ Reached(v) >= w + 1
          BY <1>1, <4>1, <4>3 DEF Reached, TypeOK, Word
        <5> QED
          BY <1>4, <4>1, <5>1 DEF SearchingFrom
      <4> QED
        BY <4>2, <4>3
    <3>1. InUse(w + 1) + 1 + (w + 1) * WordBits <= B
      BY <1>1, <2>1, <3>0, MayPass
    <3>2. SearchingFrom(j)' \subseteq SearchingFrom(j) \union {t} /\ t \notin SearchingFrom(j)
      BY <1>1, <1>4, <2>1 DEF SearchingFrom, Searching
    <3>3. SearchingFrom(j) \in SUBSET Threads /\ SearchingFrom(j) \union {t} \in SUBSET Threads
      BY DEF SearchingFrom, Searching
    <3>4. /\ Cardinality(SearchingFrom(j)') <= Cardinality(SearchingFrom(j) \union {t})
          /\ Cardinality(SearchingFrom(j)') \in Nat
          /\ IsFiniteSet(SearchingFrom(j)) /\ Cardinality(SearchingFrom(j)) \in Nat
      BY <3>2, <3>3, CountSubset
    <3>5. Cardinality(SearchingFrom(j) \union {t}) = Cardinality(SearchingFrom(j)) + 1
      BY <3>2, <3>4, FS_AddElement
    <3>6. Cardinality(TakenFrom(j)) \in Nat
      BY Sizes
    <3>7. /\ Cardinality(TakenFrom(j)) + Cardinality(SearchingFrom(j)) + 1 + j * WordBits <= B
          /\ j * WordBits \in Int
      BY <1>4, <2>1, <3>1 DEF InUse
    <3>8. InUse(j)' = Cardinality(TakenFrom(j)) + Cardinality(SearchingFrom(j)')
      BY <1>2, <1>3 DEF InUse
    <3> QED
      BY <3>4, <3>5, <3>6, <3>7, <3>8
  <2>2. CASE ~(Full(bitmap[w]) /\ j = w + 1)
    <3>1. j \in Int
      BY DEF Level
    <3>2. SearchingFrom(j)' \subseteq SearchingFrom(j)
      <4>1. ASSUME NEW u \in Searching, Reached(u)' >= j PROVE Reached(u) >= j
        BY <1>1, <1>4, <2>2, <3>1, <4>1 DEF Searching
      <4> QED
        BY <1>1, <4>1 DEF SearchingFrom
    <3> QED
      BY <1>2, <1>3, <1>5, <3>2, NotMore
  <2> QED
    BY <2>1, <2>2
<1> QED
  BY <1>5 DEF Within

(* A claim turns a search at a word into a slot of that word.              *)
LEMMA ClaimStep ==
  ASSUME NEW B \in Nat, NEW v \in Threads, Searches(v, B), TypeOK', NEW t \in Threads,
         CasSuccess(t)
  PROVE  Within(v, B)'
<1> USE DEF Searches, SlotInv
<1> DEFINE w == word[t]
<1>1. PICK b \in Bit : IsLowestZero(b, old[t]) /\ Claim(t, b)
  BY DEF CasSuccess
<1> DEFINE n == SlotOf(w, b)
<1>2. /\ Taken' = Taken \union {n} /\ n \in Slot \ Taken /\ leaked' = leaked
      /\ WordOf(n) = w /\ w \in Int
  BY <1>1, ClaimTakes, SlotNumbers, SizesAssumption DEF CasSuccess, TypeOK, Word
<1>3. /\ t \in Searching /\ Searching' = Searching \ {t} /\ Reached(t) = w
      /\ \A u \in Threads \ {t} : Reached(u)' = Reached(u)
  BY <1>1 DEF CasSuccess, Return, Searching, Reached, Full, IsLowestZero, TypeOK
<1> HIDE DEF w, n
<1>4. ASSUME NEW j \in Level
      PROVE  v \in SearchingFrom(j)' => InUse(j)' + j * WordBits <= B
  <2>1. CASE w >= j
    <3>1. /\ TakenFrom(j)' = TakenFrom(j) \union {n} /\ n \notin TakenFrom(j)
          /\ TakenFrom(j) \in SUBSET Slot
      BY <1>2, <2>1 DEF TakenFrom, Taken
    <3>2. /\ SearchingFrom(j)' = SearchingFrom(j) \ {t} /\ t \in SearchingFrom(j)
          /\ SearchingFrom(j) \in SUBSET Threads
      BY <1>3, <2>1 DEF SearchingFrom, Searching
    <3>3. /\ IsFiniteSet(TakenFrom(j)) /\ Cardinality(TakenFrom(j)) \in Nat
          /\ IsFiniteSet(SearchingFrom(j)) /\ Cardinality(SearchingFrom(j)) \in Nat
      BY <3>1, <3>2, CountSubset
    <3>4. Cardinality(TakenFrom(j)') = Cardinality(TakenFrom(j)) + 1
      BY <3>1, <3>3, FS_AddElement
    <3>5. Cardinality(SearchingFrom(j)') = Cardinality(SearchingFrom(j)) - 1
      BY <3>2, <3>3, FS_RemoveElement
    <3>6. InUse(j)' = InUse(j)
      BY <3>3, <3>4, <3>5 DEF InUse
    <3> QED
      BY <3>2, <3>6 DEF Within
  <2>2. CASE ~(w >= j)
    <3>1. TakenFrom(j)' = TakenFrom(j) /\ SearchingFrom(j)' = SearchingFrom(j)
      BY <1>2, <1>3, <2>2 DEF TakenFrom, SearchingFrom, Searching
    <3> QED
      BY <1>2, <3>1, NotMore
  <2> QED
    BY <2>1, <2>2
<1> QED
  BY <1>4 DEF Within

(* The other steps take no slot, and nobody rises.                         *)
LEMMA OtherStep ==
  ASSUME NEW B \in Nat, NEW v \in Threads, Searches(v, B), TypeOK', NEW t \in Threads,
         \/ Call(t) \/ NextWord(t) \/ Refuse(t) \/ Match(t) \/ Release(t) \/ Throw(t)
  PROVE  Within(v, B)'
<1> USE DEF Searches, SlotInv
<1>1. Taken' \subseteq Taken /\ leaked \subseteq leaked'
  <2>1. CASE Release(t)
    BY <2>1, ReleaseFrees DEF Release
  <2>2. CASE ~Release(t)
    BY <2>2 DEF Taken, Call, NextWord, Refuse, Match, Throw
  <2> QED
    BY <2>1, <2>2
<1>2. ASSUME NEW u \in Searching' 
      PROVE  \/ Reached(u)' = 0
             \/ u \in Searching /\ Reached(u)' = Reached(u)
  <2>1. CASE u = t
    BY <2>1 DEF Searching, Reached, Full, StartsAtZero, TypeOK,
                Call, NextWord, Refuse, Return, Match, Release, Throw
  <2>2. CASE u # t
    BY <2>2 DEF Searching, Reached, Full, TypeOK,
                Call, NextWord, Refuse, Return, Match, Release, Throw
  <2> QED
    BY <2>1, <2>2
<1>3. ASSUME NEW j \in Level
      PROVE  v \in SearchingFrom(j)' => InUse(j)' + j * WordBits <= B
  <2>1. ~(0 >= j)
    BY DEF Level
  <2>2. TakenFrom(j)' \subseteq TakenFrom(j) /\ SearchingFrom(j)' \subseteq SearchingFrom(j)
    BY <1>1, <1>2, <2>1 DEF TakenFrom, SearchingFrom
  <2> QED
    BY <1>1, <2>2, NotMore
<1> QED
  BY <1>3 DEF Within

(* Every step keeps the levels of a watcher within the same bound.         *)
LEMMA LevelsStep ==
  ASSUME NEW B \in Nat, NEW v \in Threads, Searches(v, B), TypeOK', NEW t \in Threads,
         Step(t)
  PROVE  Within(v, B)'
  BY LookStep, ClaimStep, OtherStep DEF Step

(* allocate's locals start anew with every call.                           *)
LEMMA StartsAtZeroStep ==
  ASSUME SlotInv, StartsAtZero, NEW t \in Threads, Step(t)
  PROVE  StartsAtZero'
  BY DEF SlotInv, TypeOK, StartsAtZero, Searching, Step, Call, Load, NextWord,
         Refuse, Return, CasSuccess, CasFail, Match, Release, Throw

(* Who refuses has every slot against it: more slots and searches than     *)
(* there are slots.                                                        *)
LEMMA RefuserSurrounded ==
  ASSUME NEW B \in Nat, NEW t \in Threads, Searches(t, B), Refuse(t)
  PROVE  B > NumSlots
<1>1. /\ NumWords \in Level /\ NumWords \in Nat /\ WordBits \in Nat
      /\ NumWords * WordBits \in Nat
  BY SizesAssumption DEF Level
<1>2. t \in SearchingFrom(NumWords) /\ SearchingFrom(NumWords) \in SUBSET Threads
  BY <1>1 DEF Refuse, SearchingFrom, Searching, Reached
<1>3. Cardinality(SearchingFrom(NumWords)) >= 1
  BY <1>2, CountSubset, FS_EmptySet
<1>4. InUse(NumWords) + NumWords * WordBits <= B
  BY <1>1, <1>2 DEF Searches, Within
<1>5. /\ Cardinality(TakenFrom(NumWords)) \in Nat
      /\ Cardinality(SearchingFrom(NumWords)) \in Nat
  BY <1>1, Sizes DEF Searches, SlotInv
<1>6. B > NumWords * WordBits
  BY <1>1, <1>3, <1>4, <1>5 DEF InUse
<1> QED
  BY <1>6 DEF NumSlots

(* What a call has seen of the crowd only grows while it allocates.        *)
LEMMA CrowdGrows ==
  ASSUME CrowdInv, SlotInv', Observe
  PROVE  /\ crowd' \in [Threads -> Nat]
         /\ \A t \in Searching' : Pressure' <= crowd'[t] /\ crowd[t] <= crowd'[t]
<1>1. Pressure' \in Nat
  <2>1. InProgress' \in SUBSET Threads /\ leaked' \in SUBSET Slot
    BY DEF InProgress, SlotInv, TypeOK
  <2>2. Cardinality(InProgress') \in Nat /\ Cardinality(leaked') \in Nat
    BY <2>1, CountSubset
  <2> QED
    BY <2>2 DEF Pressure
<1>2. crowd \in [Threads -> Nat]
  BY DEF CrowdInv
<1>3. \A t \in Threads : t \in Searching' <=> Allocating(t)'
  BY DEF Searching, Allocating
<1>4. Searching' \subseteq Threads
  BY DEF Searching
<1> QED
  BY <1>1, <1>2, <1>3, <1>4 DEF Observe

(* A step keeps what every watcher knows; one that only starts its call is *)
(* at word 0.                                                              *)
LEMMA CrowdStep ==
  ASSUME CrowdInv, SlotInv', StartsAtZero', NEW t \in Threads, Step(t), Observe
  PROVE  \A v \in Threads : Within(v, crowd[v])'
<1> USE DEF CrowdInv
<1>1. TypeOK /\ TypeOK'
  BY DEF SlotInv
<1> TAKE v \in Threads
<1>2. CASE v \notin Searching'
  BY <1>2 DEF Within, SearchingFrom
<1>3. CASE v \in Searching' /\ v \notin Searching
  <2>1. pc'[v] = "load" /\ word'[v] = 0
    <3>1. pc[v] \notin {"load", "cas"} /\ pc'[v] \in {"load", "cas"} /\ word[v] = 0
      BY <1>3 DEF Searching, StartsAtZero
    <3> QED
      BY <1>1, <3>1 DEF Step, Call, Load, NextWord, Refuse, Return, CasSuccess, CasFail, Match,
                        Release, Throw, TypeOK
  <2>2. Reached(v)' = 0
    BY <2>1 DEF Reached
  <2>3. \A j \in Level : ~(0 >= j)
    BY DEF Level
  <2> QED
    BY <2>2, <2>3 DEF Within, SearchingFrom
<1>4. CASE v \in Searching' /\ v \in Searching
  <2> PICK B \in Nat, C \in Nat : B = crowd[v] /\ C = crowd'[v] /\ B <= C
    BY <1>4, CrowdGrows
  <2>1. Searches(v, B)
    <3>1. Cardinality(Taken) + Cardinality(Searching) <= Pressure /\ Pressure \in Nat
      BY PressureBound
    <3>2. Pressure <= B
      BY <1>4
    <3>3. Cardinality(Taken) \in Nat /\ Cardinality(Searching) \in Nat
      <4>1. Taken \in SUBSET Slot /\ Searching \in SUBSET Threads
        BY DEF Taken, Searching
      <4> QED
        BY <4>1, CountSubset
    <3>4. Cardinality(Taken) + Cardinality(Searching) <= B
      BY <3>1, <3>2, <3>3
    <3> QED
      BY <3>4 DEF Searches
  <2>2. Within(v, B)'
    BY <1>1, <2>1, LevelsStep
  <2>3. ASSUME NEW j \in Level, v \in SearchingFrom(j)'
        PROVE  InUse(j)' + j * WordBits <= C
    <3>1. InUse(j)' + j * WordBits <= B
      BY <2>2, <2>3 DEF Within
    <3>2. InUse(j)' \in Nat
      <4>1. TakenFrom(j)' \in SUBSET Slot /\ SearchingFrom(j)' \in SUBSET Threads
        BY DEF TakenFrom, Taken, SearchingFrom, Searching
      <4>2. Cardinality(TakenFrom(j)') \in Nat /\ Cardinality(SearchingFrom(j)') \in Nat
        BY <4>1, CountSubset
      <4> QED
        BY <4>2 DEF InUse
    <3>3. j * WordBits \in Int
      BY SizesAssumption DEF Level
    <3> QED
      BY <3>1, <3>2, <3>3
  <2> QED
    BY <2>3 DEF Within
<1> QED
  BY <1>2, <1>3, <1>4

(* The crowd a call has seen bounds what it finds taken.                   *)
LEMMA CrowdInductive ==
  /\ HistInit => CrowdInv
  /\ CrowdInv /\ [HistNext]_histVars => CrowdInv'
<1>1. ASSUME HistInit PROVE CrowdInv
  <2>1. SlotInv
    BY <1>1, SlotInvInductive DEF HistInit
  <2>2. StartsAtZero /\ Searching = {} /\ crowd \in [Threads -> Nat]
    BY <1>1 DEF HistInit, Init, StartsAtZero, Searching
  <2>3. \A t \in Threads : Within(t, crowd[t])
    BY <2>2 DEF Within, SearchingFrom
  <2> QED
    BY <2>1, <2>2, <2>3 DEF CrowdInv
<1>2. ASSUME CrowdInv, [HistNext]_histVars PROVE CrowdInv'
  <2>1. SlotInv'
    BY <1>2, SlotInvInductive DEF CrowdInv, HistNext, histVars, vars
  <2>2. CASE UNCHANGED histVars
    <3>1. UNCHANGED vars /\ crowd' = crowd
      BY <2>2 DEF histVars
    <3>2. StartsAtZero' /\ Searching' = Searching /\ Pressure' = Pressure
      BY <1>2, <3>1 DEF vars, CrowdInv, StartsAtZero, Searching, Pressure, InProgress
    <3>3. ASSUME NEW t \in Threads PROVE Within(t, crowd[t])'
      BY <1>2, <3>1 DEF vars, CrowdInv, Within, SearchingFrom, Searching, Reached, InUse,
                        TakenFrom, Taken
    <3> QED
      BY <1>2, <2>1, <3>1, <3>2, <3>3 DEF CrowdInv
  <2>3. ASSUME HistNext, NEW t \in Threads, Step(t) PROVE CrowdInv'
    <3>1. StartsAtZero'
      BY <1>2, <2>3, StartsAtZeroStep DEF CrowdInv
    <3>2. \A v \in Threads : Within(v, crowd[v])'
      BY <1>2, <2>1, <2>3, <3>1, CrowdStep DEF HistNext
    <3> QED
      BY <1>2, <2>1, <2>3, <3>1, <3>2, CrowdGrows DEF CrowdInv, HistNext
  <2> QED
    BY <1>2, <2>2, <2>3 DEF HistNext, Next
<1> QED
  BY <1>1, <1>2

(* allocate refuses only if at one moment of the call the encodes in       *)
(* progress and the lost slots were more than the slots, whatever the      *)
(* interleaving of its two-word search (core_bpe.cpp 45-75).               *)
THEOREM RefusalCrowded == HistSpec => RefusedOnlyWhenCrowded
<1> DEFINE A == \A t \in Threads : Refused(t) => crowd[t] > NumSlots
<1>1. ASSUME CrowdInv, [HistNext]_histVars PROVE [A]_histVars
  <2>1. ASSUME NEW t \in Threads, Refused(t), ~UNCHANGED histVars
        PROVE  crowd[t] > NumSlots
    <3>1. PICK u \in Threads : Step(u)
      BY <1>1, <2>1 DEF HistNext, Next
    <3>2. Refuse(t)
      BY <1>1, <2>1, <3>1 DEF Refused, Step, Call, Load, NextWord, Refuse, Return, CasSuccess,
                              CasFail, Match, Release, Throw, CrowdInv, SlotInv, TypeOK
    <3> PICK B \in Nat : B = crowd[t]
      BY <1>1 DEF CrowdInv
    <3>3. Searches(t, B)
      <4>1. t \in Searching /\ Pressure <= B
        BY <1>1, <3>2 DEF Refuse, Searching, CrowdInv
      <4>2. Cardinality(Taken) + Cardinality(Searching) <= Pressure /\ Pressure \in Nat
        BY <1>1, PressureBound DEF CrowdInv
      <4>3. Cardinality(Taken) \in Nat /\ Cardinality(Searching) \in Nat
        <5>1. Taken \in SUBSET Slot /\ Searching \in SUBSET Threads
          BY DEF Taken, Searching
        <5> QED
          BY <5>1, CountSubset
      <4>4. Cardinality(Taken) + Cardinality(Searching) <= B
        BY <4>1, <4>2, <4>3
      <4> QED
        BY <1>1, <4>4 DEF CrowdInv, Searches
    <3> QED
      BY <3>2, <3>3, RefuserSurrounded
  <2> QED
    BY <2>1
<1> QED
  BY <1>1, CrowdInductive, PTL DEF HistSpec, RefusedOnlyWhenCrowded

----------------------------------------------------------------------------
(***************************************************************************)
(* SlotAllocator implements SlotPool for any number of threads, words and  *)
(* bits: slots are granted exclusively, and allocate (core_bpe.cpp 45-71)  *)
(* returns -1 only when each slot was taken at some moment of the call,    *)
(* although it never looks at two words at once.  The invariant follows    *)
(* the scan: what lies behind it was busy when it passed.                  *)
(***************************************************************************)

(* A call of allocate starts at word 0.                                    *)
WordIdle == \A t \in Threads : ~Allocating(t) => word[t] = 0

(* What a call of allocate has been through: nothing outside a call; all   *)
(* that is taken now; every slot of the words it went past; and every bit  *)
(* of the snapshot it holds.                                               *)
SeenTyped   == busySeen \in [Threads -> SUBSET Slot]
SeenOutside == \A t \in Threads : ~Allocating(t) => busySeen[t] = {}
SeenTaken   == \A t \in Threads : Allocating(t) => Taken \subseteq busySeen[t]
SeenPassed  == \A t \in Threads : Allocating(t) =>
                 \A w \in Word, b \in Bit : w < word[t] => SlotOf(w, b) \in busySeen[t]
SeenOld     == \A t \in Threads : pc[t] = "cas" =>
                 \A b \in old[t] : SlotOf(word[t], b) \in busySeen[t]

SeenInv == /\ SlotInv /\ WordIdle
           /\ SeenTyped /\ SeenOutside /\ SeenTaken /\ SeenPassed /\ SeenOld

----------------------------------------------------------------------------
(* A taken bit is a taken slot.                                            *)
LEMMA TakenBits ==
  ASSUME TypeOK
  PROVE  /\ Taken \subseteq Slot
         /\ \A w \in Word : \A b \in bitmap[w] : SlotOf(w, b) \in Taken
<1>1. ASSUME NEW w \in Word, NEW b \in bitmap[w] PROVE SlotOf(w, b) \in Taken
  <2>1. b \in Bit
    BY DEF TypeOK
  <2>2. SlotOf(w, b) \in Slot /\ WordOf(SlotOf(w, b)) = w /\ BitOf(SlotOf(w, b)) = b
    BY <2>1, SlotNumbers
  <2> QED
    BY <2>2 DEF Taken
<1> QED
  BY <1>1 DEF Taken

(* Before the first call nothing was seen and nothing is taken.            *)
LEMMA SeenInit == HistInit => SeenInv
<1> SUFFICES ASSUME HistInit PROVE SeenInv
  OBVIOUS
<1>1. SlotInv /\ pc = [t \in Threads |-> "idle"] /\ busySeen = [t \in Threads |-> {}]
      /\ word = [t \in Threads |-> 0]
  BY SlotInvInductive DEF HistInit, Init
<1> QED
  BY <1>1 DEF SeenInv, WordIdle, SeenTyped, SeenOutside, SeenTaken, SeenPassed, SeenOld, Allocating

(* Whatever the step, the calls in progress after it have seen what is     *)
(* taken then, and keep what they saw.                                     *)
LEMMA SeenGrows ==
  ASSUME SeenInv, SlotInv', Observe
  PROVE  /\ SeenTyped' /\ SeenOutside' /\ SeenTaken'
         /\ \A t \in Threads : Allocating(t)' => busySeen[t] \subseteq busySeen'[t]
<1>1. Taken' \subseteq Slot
  BY DEF Taken
<1>2. busySeen' = [t \in Threads |-> IF Allocating(t)' THEN busySeen[t] \union Taken' ELSE {}]
  BY DEF Observe
<1>3. busySeen \in [Threads -> SUBSET Slot]
  BY DEF SeenInv, SeenTyped
<1> QED
  BY <1>1, <1>2, <1>3 DEF SeenTyped, SeenOutside, SeenTaken

(* The scan of the thread that steps; the others keep word, old and pc.    *)
LEMMA SeenStep ==
  ASSUME SeenInv, SlotInv', NEW t \in Threads, Step(t), Observe
  PROVE  WordIdle' /\ SeenPassed' /\ SeenOld'
<1> USE DEF SeenInv, SlotInv
<1>1. TypeOK /\ TypeOK'
  OBVIOUS
<1>2. \A u \in Threads : Allocating(u)' => busySeen[u] \subseteq busySeen'[u] /\ Taken' \subseteq busySeen'[u]
  BY SeenGrows DEF SeenTaken
<1>3. \A u \in Threads : u # t => pc'[u] = pc[u] /\ word'[u] = word[u] /\ old'[u] = old[u]
  BY <1>1 DEF Step, Call, Load, NextWord, Refuse, Return, CasSuccess, CasFail, Match, Release, Throw,
              TypeOK
<1>4. ASSUME NEW u \in Threads, u # t, Allocating(u)'
      PROVE  /\ \A w \in Word, b \in Bit : w < word'[u] => SlotOf(w, b) \in busySeen'[u]
             /\ pc'[u] = "cas" => \A b \in old'[u] : SlotOf(word'[u], b) \in busySeen'[u]
  <2>1. Allocating(u) /\ pc'[u] = pc[u] /\ word'[u] = word[u] /\ old'[u] = old[u]
    BY <1>3, <1>4 DEF Allocating
  <2> QED
    BY <1>2, <1>4, <2>1 DEF SeenPassed, SeenOld
<1>5. ASSUME Allocating(t)'
      PROVE  /\ \A w \in Word, b \in Bit : w < word'[t] => SlotOf(w, b) \in busySeen'[t]
             /\ pc'[t] = "cas" => \A b \in old'[t] : SlotOf(word'[t], b) \in busySeen'[t]
  <2>1. busySeen[t] \subseteq busySeen'[t] /\ Taken' \subseteq busySeen'[t]
    BY <1>2, <1>5
  <2>2. CASE Call(t)
    <3>1. word'[t] = word[t] /\ pc'[t] = "load" /\ pc[t] = "idle"
      BY <2>2, <1>1 DEF Call, TypeOK
    <3>2. word[t] = 0
      BY <3>1 DEF WordIdle, Allocating
    <3> QED
      BY <3>1, <3>2 DEF Word
  <2>3. CASE Load(t) \/ CasFail(t)
    <3>1. /\ Allocating(t) /\ word'[t] = word[t] /\ word[t] \in Word
          /\ old'[t] = bitmap[word[t]] /\ bitmap' = bitmap
      BY <2>3, <1>1 DEF Load, CasFail, TypeOK, Allocating
    <3>2. \A b \in old'[t] : SlotOf(word'[t], b) \in Taken'
      BY <3>1, <1>1, TakenBits DEF Taken
    <3> QED
      BY <2>1, <3>1, <3>2 DEF SeenPassed
  <2>4. CASE NextWord(t)
    <3>1. /\ pc[t] = "cas" /\ pc'[t] = "load" /\ old[t] = Bit
          /\ word'[t] = word[t] + 1 /\ word[t] \in Word
      BY <2>4, <1>1 DEF NextWord, Full, TypeOK
    <3>2. ASSUME NEW w \in Word, NEW b \in Bit, w < word'[t]
          PROVE  SlotOf(w, b) \in busySeen[t]
      <4>1. CASE w < word[t]
        BY <3>1, <4>1 DEF SeenPassed, Allocating
      <4>2. CASE w = word[t]
        BY <3>1, <4>2 DEF SeenOld
      <4>3. w < word[t] \/ w = word[t]
        BY <3>1, <3>2 DEF Word
      <4> QED
        BY <4>1, <4>2, <4>3
    <3> QED
      BY <2>1, <3>1, <3>2
  <2>5. CASE Refuse(t) \/ CasSuccess(t) \/ Match(t) \/ Release(t) \/ Throw(t)
    <3>1. ~Allocating(t)'
      BY <2>5, <1>1 DEF Refuse, CasSuccess, Return, Match, Release, Throw, Allocating, TypeOK
    <3> QED
      BY <1>5, <3>1
  <2> QED
    BY <2>2, <2>3, <2>4, <2>5 DEF Step
<1>6. SeenPassed'
  BY <1>4, <1>5 DEF SeenPassed
<1>7. SeenOld'
  BY <1>4, <1>5 DEF SeenOld, Allocating
<1>8. WordIdle'
  <2>1. ASSUME ~Allocating(t)' PROVE word'[t] = 0
    <3>1. CASE Call(t) \/ Load(t) \/ NextWord(t) \/ CasFail(t)
      BY <2>1, <3>1, <1>1 DEF Call, Load, NextWord, CasFail, Allocating, TypeOK
    <3>2. CASE Refuse(t) \/ CasSuccess(t)
      BY <3>2, <1>1 DEF Refuse, CasSuccess, Return, TypeOK
    <3>3. CASE Match(t) \/ Release(t) \/ Throw(t)
      <4>1. word'[t] = word[t] /\ pc[t] = "encode"
        BY <3>3 DEF Match, Release, Throw
      <4> QED
        BY <4>1 DEF WordIdle, Allocating
    <3> QED
      BY <3>1, <3>2, <3>3 DEF Step
  <2> QED
    BY <2>1, <1>3 DEF WordIdle, Allocating
<1> QED
  BY <1>6, <1>7, <1>8

(* A step of one thread, or none.                                          *)
LEMMA SeenInvInductive == SeenInv /\ [HistNext]_histVars => SeenInv'
<1> SUFFICES ASSUME SeenInv, [HistNext]_histVars PROVE SeenInv'
  OBVIOUS
<1>1. SlotInv'
  BY SlotInvInductive DEF SeenInv, HistNext, histVars, vars
<1>2. CASE HistNext
  <2>1. PICK t \in Threads : Step(t)
    BY <1>2 DEF HistNext, Next
  <2> QED
    BY <1>1, <1>2, <2>1, SeenGrows, SeenStep DEF HistNext, SeenInv
<1>3. CASE UNCHANGED histVars
  <2>1. Taken' = Taken
    BY <1>3 DEF histVars, vars, Taken
  <2> QED
    BY <1>1, <1>3, <2>1 DEF SeenInv, histVars, vars, WordIdle, SeenTyped, SeenOutside, SeenTaken,
                            SeenPassed, SeenOld, Allocating
<1> QED
  BY <1>2, <1>3

(* Hence every state of the allocator satisfies it.                        *)
LEMMA SeenInvHolds == HistSpec => []SeenInv
  BY SeenInit, SeenInvInductive, PTL DEF HistSpec

----------------------------------------------------------------------------
(* What the pool calls busy is what the bitmap shows as taken.             *)
LEMMA PoolBusy == BitmapExact => Pool!Busy = Taken
<1>1. {u \in Threads : phaseBar[u] = "using"} = Encoding
  BY DEF phaseBar, Encoding, Allocating
<1> QED
  BY <1>1 DEF Pool!Busy, BitmapExact

(* Every call in progress notices what is busy after the step.             *)
LEMMA PoolNotices == SlotInv' /\ Observe => Pool!Notice
<1> SUFFICES ASSUME SlotInv', Observe PROVE Pool!Notice
  OBVIOUS
<1>1. Pool!Busy' = Taken'
  <2>1. {u \in Threads : phaseBar'[u] = "using"} = Encoding'
    BY DEF phaseBar, Encoding, Allocating
  <2> QED
    BY <2>1 DEF Pool!Busy, SlotInv, BitmapExact
<1>2. \A t \in Threads : phaseBar'[t] = "asking" <=> Allocating(t)'
  BY DEF phaseBar
<1> QED
  BY <1>1, <1>2 DEF Pool!Notice, Observe

(* A step that changes neither the bitmap nor who allocates or encodes is  *)
(* one the pool does not see: what is taken had been noticed already.      *)
LEMMA PoolStutters ==
  ASSUME SeenInv, SlotInv', Observe,
         UNCHANGED <<bitmap, slot, leaked>>,
         \A t \in Threads : Allocating(t)' <=> Allocating(t),
         \A t \in Threads : pc'[t] = "encode" <=> pc[t] = "encode"
  PROVE  UNCHANGED Pool!vars
<1>1. Taken' = Taken
  BY DEF Taken
<1>2. phaseBar' = phaseBar
  BY DEF phaseBar
<1>3. ASSUME NEW t \in Threads PROVE busySeen'[t] = busySeen[t]
  <2>1. busySeen'[t] = IF Allocating(t)' THEN busySeen[t] \union Taken' ELSE {}
    BY DEF Observe
  <2> QED
    BY <2>1, <1>1 DEF SeenInv, SeenTaken, SeenOutside
<1>4. busySeen' = busySeen
  <2>1. busySeen' = [t \in Threads |-> busySeen'[t]] /\ busySeen = [t \in Threads |-> busySeen[t]]
    BY DEF Observe, SeenInv, SeenTyped
  <2> QED
    BY <2>1, <1>3
<1> QED
  BY <1>2, <1>4 DEF Pool!vars

(* allocate returns -1 only after every slot was seen busy.                *)
LEMMA RefusedAfterAllBusy ==
  ASSUME SeenInv, NEW t \in Threads, Refuse(t)
  PROVE  busySeen[t] = Slot
<1>1. /\ pc[t] = "cas" /\ Allocating(t) /\ old[t] = Bit /\ word[t] = NumWords - 1
      /\ busySeen[t] \subseteq Slot
  BY SizesAssumption DEF Refuse, Full, Allocating, SeenInv, SeenTyped, SlotInv, TypeOK, Word
<1>2. ASSUME NEW s \in Slot PROVE s \in busySeen[t]
  <2>1. WordOf(s) \in Word /\ BitOf(s) \in Bit /\ s = SlotOf(WordOf(s), BitOf(s))
    BY SlotNumbers
  <2>2. WordOf(s) < word[t] \/ WordOf(s) = word[t]
    BY <1>1, <2>1, SizesAssumption DEF Word
  <2> QED
    BY <1>1, <2>1, <2>2 DEF SeenInv, SeenPassed, SeenOld
<1> QED
  BY <1>1, <1>2

(* The tokenizer starts with every slot free, as the pool does.            *)
LEMMA PoolInit == HistInit => Pool!Init
<1> SUFFICES ASSUME HistInit PROVE Pool!Init
  OBVIOUS
<1>1. phaseBar = [t \in Threads |-> "idle"]
  BY DEF HistInit, Init, phaseBar, Allocating
<1> QED
  BY <1>1 DEF HistInit, Init, Pool!Init

(* Every step of a thread is one operation of the pool, or a stutter.      *)
LEMMA PoolStep == SeenInv /\ SeenInv' /\ [HistNext]_histVars => [Pool!Next]_(Pool!vars)
<1> SUFFICES ASSUME SeenInv, SeenInv', [HistNext]_histVars PROVE [Pool!Next]_(Pool!vars)
  OBVIOUS
<1>1. CASE UNCHANGED histVars
  BY <1>1 DEF histVars, vars, Pool!vars, phaseBar, Allocating
<1>2. ASSUME HistNext, NEW t \in Threads, Step(t) PROVE [Pool!Next]_(Pool!vars)
  <2> USE DEF SeenInv
  <2>1. /\ TypeOK /\ TypeOK' /\ SlotInv /\ SlotInv' /\ Observe /\ Pool!Notice
        /\ Pool!Busy = Taken
    BY <1>2, PoolNotices, PoolBusy DEF SlotInv, HistNext
  <2>2. CASE Load(t) \/ NextWord(t) \/ CasFail(t) \/ Match(t)
    <3>1. UNCHANGED <<bitmap, slot, leaked>>
      BY <2>2 DEF Load, NextWord, CasFail, Match
    <3>2. /\ \A u \in Threads : Allocating(u)' <=> Allocating(u)
          /\ \A u \in Threads : pc'[u] = "encode" <=> pc[u] = "encode"
      BY <2>1, <2>2 DEF Load, NextWord, CasFail, Match, Allocating, TypeOK
    <3> QED
      BY <2>1, <3>1, <3>2, PoolStutters
  <2>3. CASE Call(t)
    <3>1. phaseBar[t] = "idle" /\ phaseBar' = [phaseBar EXCEPT ![t] = "asking"]
      BY <2>1, <2>3 DEF Call, phaseBar, Allocating, TypeOK
    <3>2. Pool!Ask(t)
      BY <2>1, <2>3, <3>1 DEF Pool!Ask, Call
    <3> QED
      BY <3>2 DEF Pool!Next
  <2>4. CASE Refuse(t)
    <3>1. phaseBar[t] = "asking" /\ phaseBar' = [phaseBar EXCEPT ![t] = "idle"]
      BY <2>1, <2>4 DEF Refuse, Return, phaseBar, Allocating, TypeOK
    <3>2. Pool!Refuse(t)
      BY <2>1, <2>4, <3>1, RefusedAfterAllBusy DEF Pool!Refuse, Refuse
    <3> QED
      BY <3>2 DEF Pool!Next
  <2>5. CASE CasSuccess(t)
    <3>1. phaseBar[t] = "asking" /\ phaseBar' = [phaseBar EXCEPT ![t] = "using"]
      BY <2>1, <2>5 DEF CasSuccess, Return, phaseBar, Allocating, TypeOK
    <3>2. PICK b \in Bit : /\ IsLowestZero(b, old[t]) /\ Claim(t, b)
                           /\ slot' = [slot EXCEPT ![t] = SlotOf(word[t], b)]
      BY <2>5 DEF CasSuccess
    <3>3. SlotOf(word[t], b) \in Slot \ Taken
      BY <2>1, <3>2, ClaimTakes
    <3>4. Pool!Grant(t)
      BY <2>1, <2>5, <3>1, <3>2, <3>3 DEF Pool!Grant, CasSuccess
    <3> QED
      BY <3>4 DEF Pool!Next
  <2>6. CASE Release(t) \/ Throw(t)
    <3>1. phaseBar[t] = "using" /\ phaseBar' = [phaseBar EXCEPT ![t] = "idle"]
      BY <2>1, <2>6 DEF Release, Throw, phaseBar, Allocating, TypeOK
    <3>2. Release(t) => Pool!GiveBack(t)
      BY <2>1, <3>1 DEF Pool!GiveBack, Release
    <3>3. Throw(t) => Pool!Lose(t)
      BY <2>1, <3>1 DEF Pool!Lose, Throw
    <3> QED
      BY <2>6, <3>2, <3>3 DEF Pool!Next
  <2> QED
    BY <1>2, <2>2, <2>3, <2>4, <2>5, <2>6 DEF Step
<1> QED
  BY <1>1, <1>2 DEF HistNext, Next

(* For any number of threads, words and bits the bitmap of two words keeps *)
(* the promise of the pool.                                                *)
THEOREM AllocatorImplementsPool == HistSpec => ImplementsPool
  BY PoolInit, PoolStep, SeenInvHolds, PTL DEF HistSpec, ImplementsPool, Pool!Spec

----------------------------------------------------------------------------
(***************************************************************************)
(* RunMulti (token/test_token.cpp 93-115) for any number of workers and    *)
(* lines: the workers use the slot allocator as it may be used, every line *)
(* is taken exactly once, and when they have ended none is left out unless *)
(* all of them failed.                                                     *)
(***************************************************************************)

Thrown == {l \in Line : result[l] = "thrown"}

WorkersTyped == /\ TypeOK
                /\ nextIndex \in Nat
                /\ working \subseteq Threads
                /\ line \in [Threads -> Line \union {NoLine}]
                /\ result \in [Line -> {"none", "tokens", "empty", "thrown"}]

(* Who has a line is still working, and next_index is past the line.       *)
BusyInside == \A t \in Busy : t \in working /\ line[t] < nextIndex

(* While there are lines, only an exception ends a worker.                 *)
ThrownCounted ==
  nextIndex < NumLines => Cardinality(Thrown) + Cardinality(working) = Cardinality(Threads)

WorkersInv == WorkersTyped /\ LinesAccounted /\ BusyInside /\ ThrownCounted

----------------------------------------------------------------------------
(* The sets that are counted are finite.                                   *)
LEMMA WorkersFinite ==
  ASSUME WorkersTyped
  PROVE  /\ IsFiniteSet(Thrown) /\ Cardinality(Thrown) \in Nat
         /\ IsFiniteSet(working) /\ Cardinality(working) \in Nat
         /\ Cardinality(Threads) \in Nat
<1>1. NumLines - 1 \in Int
  BY LinesAssumption
<1>2. IsFiniteSet(Line)
  BY <1>1, FS_Interval DEF Line
<1>3. IsFiniteSet(Thrown) /\ IsFiniteSet(working)
  BY <1>2, ThreadsAssumption, FS_Subset DEF Thrown, WorkersTyped
<1> QED
  BY <1>3, ThreadsAssumption, FS_CardinalityType

(* NoLine is not a line.                                                   *)
LEMMA NoLineIsNone == NoLine \notin Line /\ \A l \in Line : l \in Int /\ 0 <= l /\ l < NumLines
BY LinesAssumption DEF NoLine, Line

(* At the start no line is taken, and every worker is idle.                *)
LEMMA WorkersStart == WorkersInit => WorkersInv
<1> SUFFICES ASSUME WorkersInit PROVE WorkersInv
  OBVIOUS
<1>1. TypeOK
  BY TypeInductive DEF WorkersInit
<1>2. Busy = {} /\ Thrown = {} /\ working = Threads /\ nextIndex = 0
  BY DEF WorkersInit, Busy, Thrown
<1>3. WorkersTyped
  BY <1>1 DEF WorkersInit, WorkersTyped
<1>4. LinesAccounted
  <2>1. \A l \in Line : result[l] = "none" /\ l >= nextIndex
    BY NoLineIsNone DEF WorkersInit
  <2>2. \A t \in Threads : pc[t] = "idle"
    BY DEF WorkersInit, Init
  <2> QED
    BY <1>2, <2>1, <2>2 DEF LinesAccounted
<1>5. ThrownCounted
  <2>1. Cardinality({}) = 0 /\ Cardinality(Threads) \in Nat
    BY <1>3, WorkersFinite, FS_EmptySet
  <2> QED
    BY <1>2, <2>1 DEF ThrownCounted
<1> QED
  BY <1>2, <1>3, <1>4, <1>5 DEF WorkersInv, BusyInside

(* Every step of the workers is a step of the allocator, or none.          *)
LEMMA WorkersUseAllocator == [WorkersNext]_allVars => [Next]_vars
<1>1. ASSUME NEW t \in Threads, WorkerStep(t) PROVE [Next]_vars
  BY <1>1 DEF WorkerStep, TakeLine, Leave, Inside, Encoded, Emptied, Failed, Step, Next
<1> QED
  BY <1>1 DEF WorkersNext, Joined, allVars

(* A line is taken: the next one, which nobody has.                        *)
LEMMA TakeLineStep ==
  ASSUME WorkersInv, TypeOK', NEW t \in Threads, TakeLine(t)
  PROVE  WorkersInv'
<1> USE DEF WorkersInv
<1>1. /\ t \in working /\ nextIndex < NumLines /\ nextIndex \in Nat /\ pc[t] = "idle"
      /\ pc' = [pc EXCEPT ![t] = "load"] /\ line' = [line EXCEPT ![t] = nextIndex]
      /\ nextIndex' = nextIndex + 1 /\ working' = working /\ result' = result
      /\ nextIndex \in Line
  BY LinesAssumption DEF TakeLine, Call, WorkersTyped, Line
<1>2. /\ line'[t] = nextIndex /\ pc'[t] = "load"
      /\ \A u \in Threads : u # t => line'[u] = line[u] /\ pc'[u] = pc[u]
  BY <1>1 DEF WorkersTyped, TypeOK
<1>3. t \notin Busy
  BY <1>1 DEF LinesAccounted
<1>4. Busy' = Busy \union {t}
  BY <1>1, <1>2, NoLineIsNone DEF Busy
<1>5. WorkersTyped'
  BY <1>1 DEF WorkersTyped
<1>6. \A u \in Busy : line'[u] = line[u] /\ line[u] \in Line /\ line[u] < nextIndex /\ line[u] # nextIndex
  BY <1>2, <1>3, NoLineIsNone, <1>1 DEF Busy, BusyInside, WorkersTyped
<1>7. LinesAccounted'
  <2>1. \A u, v \in Busy' : u # v => line'[u] # line'[v]
    BY <1>2, <1>4, <1>6 DEF LinesAccounted
  <2>2. ASSUME NEW l \in Line
        PROVE result'[l] = "none" <=> l >= nextIndex' \/ \E u \in Busy' : line'[u] = l
    <3>1. l >= nextIndex <=> (l >= nextIndex' \/ l = nextIndex)
      BY <1>1, NoLineIsNone
    <3>2. (\E u \in Busy' : line'[u] = l) <=> (l = nextIndex \/ \E u \in Busy : line[u] = l)
      BY <1>2, <1>4, <1>6
    <3>3. result[l] = "none" <=> (l >= nextIndex \/ \E u \in Busy : line[u] = l)
      BY DEF LinesAccounted
    <3>4. result' = result
      BY <1>1
    <3> HIDE DEF WorkersInv
    <3> QED
      BY <3>1, <3>2, <3>3, <3>4, Zenon
  <2>3. \A u \in Threads : u \in Busy' <=> pc'[u] # "idle"
    BY <1>2, <1>4 DEF LinesAccounted
  <2> QED
    BY <2>1, <2>2, <2>3 DEF LinesAccounted
<1>8. BusyInside'
  <2>1. line'[t] < nextIndex + 1
    BY <1>1, <1>2
  <2>2. \A u \in Busy : line[u] < nextIndex + 1
    <3> TAKE u \in Busy
    <3>1. line[u] \in Int /\ line[u] < nextIndex /\ nextIndex \in Int
      BY <1>1, <1>6, NoLineIsNone
    <3> HIDE DEF WorkersInv
    <3> QED
      BY <3>1
  <2> QED
    BY <1>1, <1>4, <1>6, <2>1, <2>2 DEF BusyInside
<1>9. ThrownCounted'
  BY <1>1, LinesAssumption DEF ThrownCounted, Thrown
<1> QED
  BY <1>5, <1>7, <1>8, <1>9

(* No line is left: the worker ends, and no more is claimed of the others. *)
LEMMA LeaveStep ==
  ASSUME WorkersInv, TypeOK', NEW t \in Threads, Leave(t)
  PROVE  WorkersInv'
<1> USE DEF WorkersInv
<1>1. /\ pc[t] = "idle" /\ nextIndex >= NumLines /\ nextIndex \in Nat
      /\ nextIndex' = nextIndex + 1 /\ working' = working \ {t} /\ UNCHANGED <<pc, line, result>>
  BY DEF Leave, vars, WorkersTyped
<1>2. Busy' = Busy /\ t \notin Busy
  BY <1>1 DEF Busy, LinesAccounted
<1>3. WorkersTyped'
  BY <1>1 DEF WorkersTyped
<1>4. \A l \in Line : ~(l >= nextIndex) /\ ~(l >= nextIndex + 1)
  BY <1>1, NoLineIsNone, LinesAssumption
<1>5. LinesAccounted'
  BY <1>1, <1>2, <1>4 DEF LinesAccounted
<1>6. BusyInside'
  <2>1. \A u \in Busy : line[u] < nextIndex + 1
    BY <1>1, NoLineIsNone DEF BusyInside, Busy, WorkersTyped
  <2> QED
    BY <1>1, <1>2, <2>1 DEF BusyInside
<1>7. ThrownCounted'
  BY <1>1, LinesAssumption DEF ThrownCounted
<1> QED
  BY <1>3, <1>5, <1>6, <1>7

(* A call of encode ends: its line has a result, and the worker is idle.   *)
LEMMA FinishStep ==
  ASSUME WorkersInv, TypeOK', NEW t \in Threads, NEW how \in {"tokens", "empty", "thrown"},
         Finish(t, how), pc[t] # "idle", pc' = [pc EXCEPT ![t] = "idle"],
         \/ working' = working /\ how # "thrown"
         \/ working' = working \ {t} /\ how = "thrown"
  PROVE  WorkersInv'
<1> USE DEF WorkersInv
<1> PICK k : k = line[t]
  OBVIOUS
<1>1. t \in Busy /\ k \in Line /\ k < nextIndex /\ t \in working /\ result[k] = "none"
  BY NoLineIsNone DEF LinesAccounted, Busy, BusyInside, WorkersTyped
<1>2. /\ result' = [result EXCEPT ![k] = how] /\ line' = [line EXCEPT ![t] = NoLine]
      /\ nextIndex' = nextIndex
  BY DEF Finish
<1>3. /\ line'[t] = NoLine /\ pc'[t] = "idle"
      /\ \A u \in Threads : u # t => line'[u] = line[u] /\ pc'[u] = pc[u]
      /\ result'[k] = how /\ \A l \in Line : l # k => result'[l] = result[l]
  BY <1>1, <1>2 DEF WorkersTyped, TypeOK
<1>4. Busy' = Busy \ {t}
  BY <1>3 DEF Busy
<1>5. WorkersTyped'
  BY <1>1, <1>2 DEF WorkersTyped
<1>6. \A u \in Busy' : u \in Threads /\ u # t /\ u \in Busy /\ line'[u] = line[u]
  BY <1>3, <1>4 DEF Busy
<1>7. LinesAccounted'
  <2>1. \A u, v \in Busy' : u # v => line'[u] # line'[v]
    BY <1>6 DEF LinesAccounted
  <2>2. ASSUME NEW l \in Line
        PROVE result'[l] = "none" <=> l >= nextIndex' \/ \E u \in Busy' : line'[u] = l
    <3>1. CASE l = k
      <4>1. ~(l >= nextIndex)
        BY <3>1, <1>1, NoLineIsNone DEF WorkersTyped
      <4>2. \A u \in Busy' : line'[u] # k
        BY <1>1, <1>6 DEF LinesAccounted
      <4> QED
        BY <3>1, <4>1, <4>2, <1>2, <1>3
    <3>2. CASE l # k
      <4>1. (\E u \in Busy' : line'[u] = l) <=> \E u \in Busy : line[u] = l
        BY <3>2, <1>4, <1>6
      <4> QED
        BY <3>2, <4>1, <1>2, <1>3 DEF LinesAccounted
    <3> QED
      BY <3>1, <3>2
  <2>3. \A u \in Threads : u \in Busy' <=> pc'[u] # "idle"
    BY <1>3, <1>4 DEF LinesAccounted
  <2> QED
    BY <2>1, <2>2, <2>3 DEF LinesAccounted
<1>8. BusyInside'
  BY <1>2, <1>6 DEF BusyInside
<1>9. ThrownCounted'
  <2>1. CASE how # "thrown"
    <3>1. Thrown' = Thrown /\ working' = working
      BY <2>1, <1>1, <1>3 DEF Thrown
    <3> QED
      BY <3>1, <1>2 DEF ThrownCounted
  <2>2. CASE how = "thrown"
    <3>1. Thrown' = Thrown \union {k} /\ k \notin Thrown /\ working' = working \ {t}
      BY <2>2, <1>1, <1>3 DEF Thrown
    <3>2. Cardinality(Thrown') = Cardinality(Thrown) + 1
      BY <3>1, WorkersFinite, FS_AddElement
    <3>3. Cardinality(working') = Cardinality(working) - 1
      BY <3>1, <1>1, WorkersFinite, FS_RemoveElement
    <3>4. (Cardinality(Thrown) + 1) + (Cardinality(working) - 1)
             = Cardinality(Thrown) + Cardinality(working)
      BY WorkersFinite
    <3> QED
      BY <3>2, <3>3, <3>4, <1>2 DEF ThrownCounted
  <2> QED
    BY <2>1, <2>2
<1> QED
  BY <1>5, <1>7, <1>8, <1>9

(* Inside encode a worker keeps its line.                                  *)
LEMMA InsideStep ==
  ASSUME WorkersInv, TypeOK', NEW t \in Threads, Inside(t)
  PROVE  WorkersInv'
<1> USE DEF WorkersInv
<1>1. UNCHANGED <<nextIndex, working, line, result>>
  BY DEF Inside, workerVars
<1>2. \A u \in Threads : pc'[u] # "idle" <=> pc[u] # "idle"
  BY DEF Inside, Load, NextWord, CasSuccess, Return, CasFail, Match, WorkersTyped, TypeOK
<1>3. Busy' = Busy /\ Thrown' = Thrown
  BY <1>1 DEF Busy, Thrown
<1> QED
  BY <1>1, <1>2, <1>3 DEF WorkersTyped, LinesAccounted, BusyInside, ThrownCounted

(* Every step of the workers keeps the lines accounted for.                *)
LEMMA WorkersInvInductive == WorkersInv /\ [WorkersNext]_allVars => WorkersInv'
<1> SUFFICES ASSUME WorkersInv, [WorkersNext]_allVars PROVE WorkersInv'
  OBVIOUS
<1>1. TypeOK'
  BY WorkersUseAllocator, TypeInductive DEF WorkersInv, WorkersTyped
<1>2. CASE UNCHANGED allVars \/ Joined
  <2>1. UNCHANGED <<nextIndex, working, line, result, pc>>
    BY <1>2 DEF allVars, Joined, vars, workerVars
  <2> QED
    BY <1>1, <2>1 DEF WorkersInv, WorkersTyped, LinesAccounted, BusyInside, ThrownCounted, Busy, Thrown
<1>3. ASSUME NEW t \in Threads, Encoded(t) \/ Emptied(t) \/ Failed(t) PROVE WorkersInv'
  <2>1. CASE Encoded(t)
    <3>1. /\ Finish(t, "tokens") /\ pc[t] # "idle" /\ pc' = [pc EXCEPT ![t] = "idle"]
          /\ working' = working
      BY <2>1 DEF Encoded, Release
    <3> QED
      BY <3>1, <1>1, FinishStep
  <2>2. CASE Emptied(t)
    <3>1. /\ Finish(t, "empty") /\ pc[t] # "idle" /\ pc' = [pc EXCEPT ![t] = "idle"]
          /\ working' = working
      BY <2>2 DEF Emptied, Refuse, Return
    <3> QED
      BY <3>1, <1>1, FinishStep
  <2>3. CASE Failed(t)
    <3>1. /\ Finish(t, "thrown") /\ pc[t] # "idle" /\ pc' = [pc EXCEPT ![t] = "idle"]
          /\ working' = working \ {t}
      BY <2>3 DEF Failed, Throw
    <3> QED
      BY <3>1, <1>1, FinishStep
  <2> QED
    BY <1>3, <2>1, <2>2, <2>3
<1> QED
  BY <1>1, <1>2, <1>3, TakeLineStep, LeaveStep, InsideStep DEF WorkersNext, WorkerStep

(* So the lines are accounted for in every state.                          *)
LEMMA WorkersInvHolds == WorkersSpec => []WorkersInv
  BY WorkersStart, WorkersInvInductive, PTL DEF WorkersSpec

----------------------------------------------------------------------------
(* The workers are threads the allocator is specified for: whatever is     *)
(* proved of it holds for them.                                            *)
THEOREM WorkersRefineAllocator == WorkersSpec => Spec
<1>1. WorkersInit => Init
  BY DEF WorkersInit
<1> QED
  BY <1>1, WorkersUseAllocator, PTL DEF WorkersSpec, Spec

(* Every line is taken exactly once, for any number of workers and lines.  *)
THEOREM LinesAlwaysAccounted == WorkersSpec => []LinesAccounted
<1>1. WorkersInv => LinesAccounted
  BY DEF WorkersInv
<1> QED
  BY <1>1, WorkersInvHolds, PTL

(* When all workers have ended, every line has a result, unless an         *)
(* exception ended every one of them.                                      *)
THEOREM NoLineLeftOut == WorkersSpec => []NothingLeftOut
<1>1. ASSUME WorkersInv, working = {} PROVE NothingLeftOut
  <2> USE <1>1 DEF WorkersInv
  <2>1. CASE nextIndex < NumLines
    <3>1. Cardinality(working) = 0 /\ Cardinality(Thrown) \in Nat
      BY WorkersFinite, FS_EmptySet
    <3> QED
      BY <2>1, <3>1 DEF ThrownCounted, NothingLeftOut, Thrown
  <2>2. CASE ~(nextIndex < NumLines)
    <3>1. Busy = {}
      BY DEF BusyInside
    <3>2. \A l \in Line : ~(l >= nextIndex)
      BY <2>2, NoLineIsNone, LinesAssumption DEF WorkersTyped
    <3> QED
      BY <3>1, <3>2 DEF LinesAccounted, NothingLeftOut
  <2> QED
    BY <2>1, <2>2
<1>2. WorkersInv => NothingLeftOut
  BY <1>1 DEF NothingLeftOut
<1> QED
  BY <1>2, WorkersInvHolds, PTL

----------------------------------------------------------------------------
(***************************************************************************)
(* A line comes back empty only when the workers outnumber the slots, for  *)
(* any number of workers, lines, words and bits.  A worker loses a slot    *)
(* only by ending: the slots lost and the workers left are never more than *)
(* the threads, so what a watcher finds in use stays within the number of  *)
(* threads however many encodes have thrown.                               *)
(***************************************************************************)

LostMadeUp == Cardinality(leaked) + Cardinality(working) <= Cardinality(Threads)

WorkersScarcityInv ==
  /\ WorkersInv /\ SlotInv /\ StartsAtZero /\ LostMadeUp
  /\ \A v \in Threads : Within(v, Cardinality(Threads))
  /\ EmptiedOnlyWhenScarce

(* Slots taken and searches going on are at most as many as the threads.   *)
LEMMA WorkersSearch ==
  ASSUME WorkersScarcityInv, NEW B \in Nat, B = Cardinality(Threads)
  PROVE  \A v \in Threads : Searches(v, B)
<1> USE DEF WorkersScarcityInv
<1>1. working \in SUBSET Threads
  BY DEF WorkersInv, WorkersTyped
<1>2. Encoding \union Searching \subseteq working
  BY DEF WorkersInv, LinesAccounted, BusyInside, Encoding, Searching
<1>3. Cardinality(Taken) + Cardinality(Searching) <= Cardinality(working) + Cardinality(leaked)
  BY <1>1, <1>2, InUseBounded
<1>4. leaked \in SUBSET Slot /\ Taken \in SUBSET Slot /\ Searching \in SUBSET Threads
  BY DEF SlotInv, TypeOK, Taken, Searching
<1>5. /\ Cardinality(leaked) \in Nat /\ Cardinality(working) \in Nat
      /\ Cardinality(Taken) \in Nat /\ Cardinality(Searching) \in Nat
  BY <1>1, <1>4, CountSubset
<1>6. Cardinality(Taken) + Cardinality(Searching) <= B
  BY <1>3, <1>5 DEF LostMadeUp
<1> QED
  BY <1>6 DEF Searches

(* The exception that loses a slot ends its worker.                        *)
LEMMA LostMadeUpStep ==
  ASSUME WorkersScarcityInv, WorkersInv', SlotInv', NEW t \in Threads, WorkerStep(t)
  PROVE  LostMadeUp'
<1> USE DEF WorkersScarcityInv
<1>1. /\ leaked \in SUBSET Slot /\ leaked' \in SUBSET Slot
      /\ working \in SUBSET Threads /\ working' \in SUBSET Threads
  BY DEF SlotInv, TypeOK, WorkersInv, WorkersTyped
<1>2. /\ IsFiniteSet(leaked) /\ Cardinality(leaked) \in Nat /\ Cardinality(leaked') \in Nat
      /\ IsFiniteSet(working) /\ Cardinality(working) \in Nat /\ Cardinality(working') \in Nat
      /\ Cardinality(Threads) \in Nat
  BY <1>1, CountSubset, ThreadsAssumption, FS_CardinalityType
<1>3. CASE Failed(t)
  <2>1. leaked' = leaked \union {slot[t]} /\ working' = working \ {t}
    BY <1>3 DEF Failed, Throw
  <2>2. t \in working
    BY <1>3 DEF Failed, Throw, WorkersInv, LinesAccounted, BusyInside
  <2>3. Cardinality(working') = Cardinality(working) - 1
    BY <1>2, <2>1, <2>2, FS_RemoveElement
  <2>4. Cardinality(leaked') <= Cardinality(leaked) + 1
    <3>1. \/ Cardinality(leaked') = Cardinality(leaked)
          \/ Cardinality(leaked') = Cardinality(leaked) + 1
      BY <1>2, <2>1, FS_AddElement
    <3> QED
      BY <1>2, <3>1
  <2> QED
    BY <1>2, <2>3, <2>4 DEF LostMadeUp
<1>4. CASE ~Failed(t)
  <2>1. leaked' = leaked /\ working' \subseteq working
    BY <1>4 DEF WorkerStep, TakeLine, Leave, Inside, Encoded, Emptied, Call, Load, NextWord,
                CasSuccess, CasFail, Match, Refuse, Release, vars, workerVars
  <2>2. Cardinality(working') <= Cardinality(working)
    BY <1>1, <2>1, CountSubset
  <2> QED
    BY <1>2, <2>1, <2>2 DEF LostMadeUp
<1> QED
  BY <1>3, <1>4

(* A line is emptied by a refusal, and whoever is refused is surrounded.   *)
LEMMA EmptiedStep ==
  ASSUME WorkersScarcityInv, NEW t \in Threads, WorkerStep(t)
  PROVE  EmptiedOnlyWhenScarce'
<1> USE DEF WorkersScarcityInv
<1>1. CASE Emptied(t)
  <2> PICK B \in Nat : B = Cardinality(Threads)
    BY ThreadsAssumption, FS_CardinalityType
  <2>1. B > NumSlots
    BY <1>1, WorkersSearch, RefuserSurrounded DEF Emptied
  <2> QED
    BY <2>1 DEF EmptiedOnlyWhenScarce
<1>2. CASE ~Emptied(t)
  <2>1. \A l \in Line : result'[l] = "empty" => result[l] = "empty"
    BY <1>2 DEF WorkerStep, TakeLine, Leave, Inside, Encoded, Failed, Finish, workerVars,
                WorkersInv, WorkersTyped
  <2> QED
    BY <2>1 DEF EmptiedOnlyWhenScarce
<1> QED
  BY <1>1, <1>2

(* At the start nobody searches, and no slot is lost.                      *)
LEMMA WorkersScarcityStart == WorkersInit => WorkersScarcityInv
<1> SUFFICES ASSUME WorkersInit PROVE WorkersScarcityInv
  OBVIOUS
<1>1. WorkersInv /\ SlotInv
  BY WorkersStart, SlotInvInductive DEF WorkersInit
<1>2. StartsAtZero /\ Searching = {} /\ leaked = {} /\ working = Threads
  BY DEF WorkersInit, Init, StartsAtZero, Searching
<1>3. LostMadeUp
  BY <1>2, ThreadsAssumption, FS_EmptySet, FS_CardinalityType DEF LostMadeUp
<1>4. \A v \in Threads : Within(v, Cardinality(Threads))
  BY <1>2 DEF Within, SearchingFrom
<1>5. EmptiedOnlyWhenScarce
  BY DEF WorkersInit, EmptiedOnlyWhenScarce
<1> QED
  BY <1>1, <1>2, <1>3, <1>4, <1>5 DEF WorkersScarcityInv

(* Every step of the workers keeps the bound.                              *)
LEMMA WorkersScarcityInductive ==
  WorkersScarcityInv /\ [WorkersNext]_allVars => WorkersScarcityInv'
<1> SUFFICES ASSUME WorkersScarcityInv, [WorkersNext]_allVars PROVE WorkersScarcityInv'
  OBVIOUS
<1>1. WorkersInv' /\ SlotInv' /\ TypeOK'
  BY WorkersInvInductive, WorkersUseAllocator, SlotInvInductive DEF WorkersScarcityInv, SlotInv
<1>2. ASSUME UNCHANGED vars
      PROVE  StartsAtZero' /\ \A v \in Threads : Within(v, Cardinality(Threads))'
  BY <1>2 DEF vars, WorkersScarcityInv, StartsAtZero, Within, SearchingFrom, Searching,
              Reached, InUse, TakenFrom, Taken
<1>3. ASSUME NEW t \in Threads, Step(t)
      PROVE  StartsAtZero' /\ \A v \in Threads : Within(v, Cardinality(Threads))'
  <2> PICK B \in Nat : B = Cardinality(Threads)
    BY ThreadsAssumption, FS_CardinalityType
  <2>1. \A v \in Threads : Within(v, B)'
    BY <1>1, <1>3, WorkersSearch, LevelsStep
  <2>2. StartsAtZero'
    BY <1>3, StartsAtZeroStep DEF WorkersScarcityInv
  <2> QED
    BY <2>1, <2>2 DEF Within
<1>4. StartsAtZero' /\ \A v \in Threads : Within(v, Cardinality(Threads))'
  BY <1>2, <1>3, WorkersUseAllocator DEF Next
<1>5. LostMadeUp' /\ EmptiedOnlyWhenScarce'
  <2>1. CASE UNCHANGED allVars \/ Joined
    BY <2>1 DEF allVars, Joined, vars, workerVars, WorkersScarcityInv, LostMadeUp,
                EmptiedOnlyWhenScarce
  <2>2. ASSUME NEW t \in Threads, WorkerStep(t) PROVE LostMadeUp' /\ EmptiedOnlyWhenScarce'
    BY <1>1, <2>2, LostMadeUpStep, EmptiedStep
  <2> QED
    BY <2>1, <2>2 DEF WorkersNext
<1> QED
  BY <1>1, <1>4, <1>5 DEF WorkersScarcityInv

(* RunMulti gets an empty line back only when more threads encode than     *)
(* there are slots, even after exceptions have lost some of them.          *)
THEOREM EmptiedWhenScarce == WorkersSpec => []EmptiedOnlyWhenScarce
<1>1. WorkersScarcityInv => EmptiedOnlyWhenScarce
  BY DEF WorkersScarcityInv
<1> QED
  BY <1>1, WorkersScarcityStart, WorkersScarcityInductive, PTL DEF WorkersSpec

----------------------------------------------------------------------------
(***************************************************************************)
(* The allocator under relaxed loads.  A snapshot may be any value that    *)
(* the word has had since the thread last wrote it; the compare-exchange   *)
(* still succeeds only on the current one.  So the bitmap and the          *)
(* ownership of slots are as exact as before.                              *)
(*                                                                         *)
(* How scarce slots are when an encode is refused is seen at word 0.  Who  *)
(* may still read it as full has no slot there; when it was filled last,   *)
(* such threads and the WordBits slots of the word shared the threads and  *)
(* lost slots among them.  And whoever is beyond word 0 is such a thread:  *)
(* when a later word is filled too, its owners are on top of the WordBits. *)
(***************************************************************************)

Callers       == Cardinality(Threads) + Cardinality(leaked)
EncodingIn(w) == {t \in Encoding : WordOf(slot[t]) = w}
LostIn(w)     == {s \in leaked : WordOf(s) = w}

(* Threads that may pass word 0.                                           *)
MayPassFirst == {t \in Threads \ EncodingIn(0) : Bit \in may[t][0]}
Beyond       == {t \in Searching : word[t] > 0} \union {t \in Encoding : WordOf(slot[t]) > 0}

MayTyped    == may \in [Threads -> [Word -> SUBSET SUBSET Bit]]
OldWasRead  == \A t \in Threads : pc[t] = "cas" => old[t] \in may[t][word[t]]
BeyondFirst == Beyond \subseteq MayPassFirst
FirstFilled ==
  (\E t \in Threads : Bit \in may[t][0]) =>
    Cardinality(MayPassFirst) + WordBits <= Cardinality(Threads) + Cardinality(LostIn(0))
LaterFilled ==
  (\E t \in Threads, w \in Word \ {0} : Bit \in may[t][w]) => Callers >= 2 * WordBits

RelaxedInv == /\ SlotInv /\ StartsAtZero /\ MayTyped /\ OldWasRead /\ BeyondFirst
              /\ FirstFilled /\ LaterFilled

(* The sets that are counted are finite.                                   *)
LEMMA RelaxedCounts ==
  ASSUME TypeOK
  PROVE  /\ \A w \in Word : /\ IsFiniteSet(EncodingIn(w)) /\ Cardinality(EncodingIn(w)) \in Nat
                            /\ IsFiniteSet(LostIn(w)) /\ Cardinality(LostIn(w)) \in Nat
                            /\ EncodingIn(w) \in SUBSET Threads
         /\ IsFiniteSet(MayPassFirst) /\ Cardinality(MayPassFirst) \in Nat
         /\ IsFiniteSet(leaked) /\ Cardinality(leaked) \in Nat
         /\ IsFiniteSet(Threads) /\ Cardinality(Threads) \in Nat
         /\ WordBits \in Nat /\ WordBits >= 1 /\ 0 \in Word
<1>1. leaked \in SUBSET Slot /\ MayPassFirst \in SUBSET Threads
  BY DEF TypeOK, MayPassFirst
<1>2. \A w \in Word : EncodingIn(w) \in SUBSET Threads /\ LostIn(w) \in SUBSET leaked
  BY DEF EncodingIn, Encoding, LostIn
<1>3. WordBits \in Nat /\ WordBits >= 1 /\ 0 \in Word
  BY SizesAssumption DEF Word
<1>4. IsFiniteSet(Threads) /\ Cardinality(Threads) \in Nat
  BY ThreadsAssumption, FS_CardinalityType
<1>5. /\ IsFiniteSet(leaked) /\ Cardinality(leaked) \in Nat
      /\ \A w \in Word : IsFiniteSet(LostIn(w)) /\ Cardinality(LostIn(w)) \in Nat
  BY <1>1, <1>2, CountSubset
<1>6. /\ IsFiniteSet(MayPassFirst) /\ Cardinality(MayPassFirst) \in Nat
      /\ \A w \in Word : IsFiniteSet(EncodingIn(w)) /\ Cardinality(EncodingIn(w)) \in Nat
  BY <1>1, <1>2, CountSubset
<1> QED
  BY <1>2, <1>3, <1>4, <1>5, <1>6

(* A full word has WordBits owned and lost slots.                          *)
LEMMA FullWordCount ==
  ASSUME SlotInv, NEW w \in Word, Full(bitmap[w])
  PROVE  WordBits <= Cardinality(EncodingIn(w)) + Cardinality(LostIn(w))
<1> USE DEF SlotInv
<1> DEFINE A == {slot[u] : u \in EncodingIn(w)}
           B == LostIn(w)
<1>1. SlotsOfWord(w) \subseteq A \union B
  <2>1. ASSUME NEW s \in SlotsOfWord(w) PROVE s \in A \union B
    <3>1. s \in Taken /\ WordOf(s) = w
      BY SlotNumbers DEF SlotsOfWord, Taken, Full
    <3> QED
      BY <3>1 DEF BitmapExact, EncodingIn, LostIn
  <2> QED
    BY <2>1
<1>2. A \in SUBSET Slot /\ B \in SUBSET Slot
  BY DEF EncodingIn, Encoding, LostIn, TypeOK
<1>3. A \union B \in SUBSET Slot /\ A \intersect B \in SUBSET Slot
  BY <1>2
<1>4. /\ IsFiniteSet(A) /\ Cardinality(A) \in Nat /\ IsFiniteSet(B) /\ Cardinality(B) \in Nat
      /\ Cardinality(A \intersect B) \in Nat /\ Cardinality(A \union B) \in Nat
      /\ Cardinality(SlotsOfWord(w)) <= Cardinality(A \union B)
  <2>1. SlotsOfWord(w) \in SUBSET (A \union B)
    BY <1>1
  <2>2. IsFiniteSet(A) /\ Cardinality(A) \in Nat /\ IsFiniteSet(B) /\ Cardinality(B) \in Nat
    BY <1>2, CountSubset
  <2>3. /\ Cardinality(A \intersect B) \in Nat /\ Cardinality(A \union B) \in Nat
        /\ Cardinality(SlotsOfWord(w)) <= Cardinality(A \union B)
    BY <1>3, <2>1, CountSubset
  <2> QED
    BY <2>2, <2>3
<1>5. Cardinality(A \union B) = Cardinality(A) + Cardinality(B) - Cardinality(A \intersect B)
  BY <1>4, FS_Union
<1>6. Cardinality(A) <= Cardinality(EncodingIn(w)) /\ Cardinality(EncodingIn(w)) \in Nat
  <2>1. [u \in EncodingIn(w) |-> slot[u]] \in Surjection(EncodingIn(w), A)
    BY DEF Surjection
  <2>2. IsFiniteSet(EncodingIn(w)) /\ Cardinality(EncodingIn(w)) \in Nat
    BY RelaxedCounts
  <2> QED
    BY <1>4, <2>1, <2>2, FS_Surjection
<1>7. Cardinality(SlotsOfWord(w)) = WordBits /\ WordBits \in Nat
  BY CountSlotsOfWord, SizesAssumption
<1> HIDE DEF A, B
<1> QED
  BY <1>4, <1>5, <1>6, <1>7 DEF B

(* At the moment word 0 is full it is FirstFilled.                         *)
LEMMA FillFirst ==
  ASSUME SlotInv, Full(bitmap[0])
  PROVE  Cardinality(MayPassFirst) + WordBits <= Cardinality(Threads) + Cardinality(LostIn(0))
<1>1. TypeOK
  BY DEF SlotInv
<1>2. MayPassFirst \union EncodingIn(0) \in SUBSET Threads /\ MayPassFirst \intersect EncodingIn(0) = {}
  BY <1>1, RelaxedCounts DEF MayPassFirst
<1>3. /\ Cardinality(MayPassFirst \union EncodingIn(0))
           = Cardinality(MayPassFirst) + Cardinality(EncodingIn(0)) - Cardinality({})
      /\ Cardinality(MayPassFirst \union EncodingIn(0)) <= Cardinality(Threads)
  BY <1>1, <1>2, RelaxedCounts, FS_Union, FS_Subset
<1>4. WordBits <= Cardinality(EncodingIn(0)) + Cardinality(LostIn(0))
  BY <1>1, RelaxedCounts, FullWordCount
<1>5. /\ Cardinality(MayPassFirst) \in Nat /\ Cardinality(EncodingIn(0)) \in Nat
      /\ Cardinality(LostIn(0)) \in Nat /\ Cardinality(Threads) \in Nat /\ WordBits \in Nat
  BY <1>1, RelaxedCounts
<1> QED
  BY <1>3, <1>4, <1>5, FS_EmptySet

(* At the moment a later word is full, and a thread owns a slot of it, its *)
(* owners come on top of what word 0 held when they passed it.             *)
LEMMA FillLater ==
  ASSUME SlotInv, BeyondFirst, FirstFilled,
         NEW w \in Word, w # 0, Full(bitmap[w]), EncodingIn(w) # {}
  PROVE  Callers >= 2 * WordBits
<1>1. TypeOK
  BY DEF SlotInv
<1>2. EncodingIn(w) \in SUBSET MayPassFirst
  BY DEF BeyondFirst, Beyond, EncodingIn, Word
<1>3. Cardinality(EncodingIn(w)) <= Cardinality(MayPassFirst)
  BY <1>1, <1>2, RelaxedCounts, FS_Subset
<1>4. Cardinality(MayPassFirst) + WordBits <= Cardinality(Threads) + Cardinality(LostIn(0))
  BY <1>2 DEF FirstFilled, MayPassFirst
<1>5. WordBits <= Cardinality(EncodingIn(w)) + Cardinality(LostIn(w))
  BY FullWordCount
<1>6. Cardinality(LostIn(0)) + Cardinality(LostIn(w)) <= Cardinality(leaked)
  <2>1. LostIn(0) \intersect LostIn(w) = {} /\ LostIn(0) \union LostIn(w) \in SUBSET leaked
    BY DEF LostIn
  <2>2. /\ Cardinality(LostIn(0) \union LostIn(w))
             = Cardinality(LostIn(0)) + Cardinality(LostIn(w)) - Cardinality({})
        /\ Cardinality(LostIn(0) \union LostIn(w)) <= Cardinality(leaked)
    BY <1>1, <2>1, RelaxedCounts, FS_Union, FS_Subset
  <2> QED
    BY <1>1, <2>2, RelaxedCounts, FS_EmptySet
<1>7. /\ Cardinality(EncodingIn(w)) \in Nat /\ Cardinality(LostIn(w)) \in Nat
      /\ Cardinality(MayPassFirst) \in Nat /\ Cardinality(LostIn(0)) \in Nat
      /\ Cardinality(leaked) \in Nat /\ Cardinality(Threads) \in Nat /\ WordBits \in Nat
  BY <1>1, RelaxedCounts
<1> QED
  BY <1>3, <1>4, <1>5, <1>6, <1>7 DEF Callers

(* The same of the next state.                                             *)
FillsCount == /\ Full(bitmap[0]) => FirstFilled
              /\ \A w \in Word \ {0} : Full(bitmap[w]) /\ EncodingIn(w) # {} /\ BeyondFirst
                                       /\ FirstFilled => Callers >= 2 * WordBits
RoomCounts == /\ Callers \in Nat /\ Cardinality(LostIn(0)) \in Nat
              /\ IsFiniteSet(MayPassFirst) /\ Cardinality(MayPassFirst) \in Nat

LEMMA CountsAfter == SlotInv' => FillsCount' /\ RoomCounts'
<1>1. SlotInv => FillsCount
  BY FillFirst, FillLater DEF FillsCount, FirstFilled
<1>2. SlotInv => RoomCounts
  BY RelaxedCounts DEF SlotInv, RoomCounts, Callers
<1> QED
  BY <1>1, <1>2, PTL

(* A step after which nobody more may pass word 0, or read a later word as *)
(* full, and no lost slot is found again.                                  *)
LEMMA NoNewReader ==
  ASSUME RelaxedInv, SlotInv',
         MayPassFirst' \subseteq MayPassFirst,
         (\E t \in Threads : Bit \in may'[t][0]) => \E t \in Threads : Bit \in may[t][0],
         \A w \in Word \ {0} :
           (\E t \in Threads : Bit \in may'[t][w]) => \E t \in Threads : Bit \in may[t][w],
         leaked' = leaked
  PROVE  FirstFilled' /\ LaterFilled'
<1> USE DEF RelaxedInv
<1>1. LostIn(0)' = LostIn(0) /\ Callers' = Callers
  BY DEF LostIn, Callers
<1>2. Cardinality(MayPassFirst') <= Cardinality(MayPassFirst)
  BY RelaxedCounts, FS_Subset DEF SlotInv
<1>3. /\ Cardinality(MayPassFirst) \in Nat /\ Cardinality(MayPassFirst') \in Nat
      /\ Cardinality(LostIn(0)) \in Nat /\ Cardinality(Threads) \in Nat /\ WordBits \in Nat
  BY RelaxedCounts, CountsAfter DEF SlotInv, RoomCounts
<1>4. ASSUME \E t \in Threads : Bit \in may'[t][0]
      PROVE Cardinality(MayPassFirst') + WordBits <= Cardinality(Threads) + Cardinality(LostIn(0))
  BY <1>2, <1>3, <1>4 DEF FirstFilled
<1>5. FirstFilled'
  BY <1>1, <1>4 DEF FirstFilled
<1>6. LaterFilled'
  BY <1>1 DEF LaterFilled
<1> QED
  BY <1>5, <1>6

(* Whatever a thread reads, nothing but its snapshot changes.              *)
LEMMA ReadStep ==
  ASSUME RelaxedInv, NEW t \in Threads, RelaxedLoad(t) \/ RelaxedFail(t)
  PROVE  RelaxedInv'
<1> USE DEF RelaxedInv
<1>1. PICK bits \in may[t][word[t]] : old' = [old EXCEPT ![t] = bits]
  BY DEF RelaxedLoad, RelaxedFail, Read
<1>2. /\ UNCHANGED <<bitmap, published, word, slot, seen, leaked, may>>
      /\ pc' = [pc EXCEPT ![t] = "cas"] /\ pc[t] \in {"load", "cas"}
  BY DEF RelaxedLoad, RelaxedFail, Read, SlotInv, TypeOK
<1>3. bits \in SUBSET Bit
  BY <1>1 DEF MayTyped, SlotInv, TypeOK
<1>4. TypeOK'
  BY <1>1, <1>2, <1>3 DEF SlotInv, TypeOK, Phase
<1>5. Encoding' = Encoding /\ Searching' = Searching
  BY <1>2 DEF Encoding, Searching, SlotInv, TypeOK
<1>6. SlotInv'
  BY <1>2, <1>4, <1>5, QuietStep
<1>7. OldWasRead'
  BY <1>1, <1>2 DEF OldWasRead, SlotInv, TypeOK
<1>8. MayPassFirst' = MayPassFirst /\ Beyond' = Beyond /\ MayTyped'
  BY <1>2, <1>5 DEF MayPassFirst, EncodingIn, Beyond, MayTyped
<1>9. FirstFilled' /\ LaterFilled'
  BY <1>2, <1>6, <1>8, NoNewReader
<1>10. StartsAtZero'
  BY <1>1, <1>2, <1>5 DEF StartsAtZero, Searching, SlotInv, TypeOK
<1> QED
  BY <1>6, <1>7, <1>8, <1>9, <1>10 DEF BeyondFirst

(* A thread that loses its slot may pass the word from then on; the lost   *)
(* slot makes up for it.                                                   *)
LEMMA LoseStep ==
  ASSUME RelaxedInv, SlotInv', NEW t \in Threads, Throw(t), may' = may
  PROVE  FirstFilled' /\ LaterFilled'
<1> USE DEF RelaxedInv
<1>1. /\ t \in Encoding /\ slot[t] \in Slot /\ slot[t] \notin leaked
      /\ leaked' = leaked \union {slot[t]} /\ leaked \in SUBSET Slot
  BY DEF Throw, Encoding, SlotInv, TypeOK, BitmapExact
<1>2. /\ Encoding' = Encoding \ {t} /\ \A u \in Threads \ {t} : slot'[u] = slot[u]
  BY DEF Throw, Encoding, SlotInv, TypeOK
<1>3. /\ IsFiniteSet(MayPassFirst) /\ Cardinality(MayPassFirst) \in Nat
      /\ IsFiniteSet(LostIn(0)) /\ Cardinality(LostIn(0)) \in Nat
      /\ IsFiniteSet(leaked) /\ Cardinality(leaked) \in Nat
      /\ Cardinality(Threads) \in Nat /\ WordBits \in Nat /\ Cardinality(MayPassFirst') \in Nat
  BY RelaxedCounts, CountsAfter DEF SlotInv, RoomCounts
<1>4. LaterFilled'
  <2>1. Cardinality(leaked') = Cardinality(leaked) + 1
    BY <1>1, <1>3, FS_AddElement
  <2>2. Callers' >= Callers /\ Callers \in Nat /\ Callers' \in Nat
    BY <1>3, <2>1 DEF Callers
  <2> QED
    BY <1>3, <2>2 DEF LaterFilled
<1>5. FirstFilled'
  <2>1. CASE WordOf(slot[t]) = 0
    <3>1. LostIn(0)' = LostIn(0) \union {slot[t]} /\ slot[t] \notin LostIn(0)
      BY <1>1, <2>1 DEF LostIn
    <3>2. Cardinality(LostIn(0)') = Cardinality(LostIn(0)) + 1
      BY <1>3, <3>1, FS_AddElement
    <3>3. MayPassFirst' \subseteq MayPassFirst \union {t}
      BY <1>2 DEF MayPassFirst, EncodingIn, Encoding
    <3>4. t \notin MayPassFirst
      BY <1>1, <2>1 DEF MayPassFirst, EncodingIn
    <3>5. /\ Cardinality(MayPassFirst \union {t}) = Cardinality(MayPassFirst) + 1
          /\ IsFiniteSet(MayPassFirst \union {t})
      BY <1>3, <3>4, FS_AddElement
    <3>6. Cardinality(MayPassFirst') <= Cardinality(MayPassFirst) + 1
      BY <3>3, <3>5, FS_Subset
    <3>7. (\E u \in Threads : Bit \in may'[u][0]) =>
             Cardinality(MayPassFirst) + WordBits <= Cardinality(Threads) + Cardinality(LostIn(0))
      BY DEF FirstFilled
    <3> QED
      BY <1>3, <3>2, <3>6, <3>7 DEF FirstFilled
  <2>2. CASE WordOf(slot[t]) # 0
    <3>1. LostIn(0)' = LostIn(0)
      BY <1>1, <2>2 DEF LostIn
    <3>2. EncodingIn(0)' = EncodingIn(0)
      BY <1>2, <2>2 DEF EncodingIn, Encoding
    <3>3. MayPassFirst' = MayPassFirst
      BY <3>2 DEF MayPassFirst
    <3> QED
      BY <3>1, <3>3 DEF FirstFilled
  <2> QED
    BY <2>1, <2>2
<1> QED
  BY <1>4, <1>5

(* Steps that touch no atomic word.                                        *)
LEMMA LocalStep ==
  ASSUME RelaxedInv, SlotInv', NEW t \in Threads, Local(t)
  PROVE  RelaxedInv'
<1> USE DEF RelaxedInv
<1>1. may' = may /\ MayTyped'
  BY DEF Local, MayTyped
<1>2. OldWasRead'
  <2>1. ASSUME NEW u \in Threads, pc'[u] = "cas"
        PROVE  pc[u] = "cas" /\ old'[u] = old[u] /\ word'[u] = word[u]
    BY <2>1 DEF Local, Call, NextWord, Refuse, Return, Match, Throw, SlotInv, TypeOK
  <2> QED
    BY <1>1, <2>1 DEF OldWasRead
<1>3. ASSUME ~Throw(t)
      PROVE  /\ leaked' = leaked /\ slot' = slot /\ Encoding' = Encoding
             /\ MayPassFirst' = MayPassFirst
  <2>1. leaked' = leaked /\ slot' = slot /\ Encoding' = Encoding
    BY <1>3 DEF Local, Call, NextWord, Refuse, Return, Match, Encoding, SlotInv, TypeOK
  <2> QED
    BY <1>1, <2>1 DEF MayPassFirst, EncodingIn
<1>4. FirstFilled' /\ LaterFilled'
  <2>1. CASE Throw(t)
    BY <1>1, <2>1, LoseStep
  <2>2. CASE ~Throw(t)
    BY <1>1, <1>3, <2>2, NoNewReader
  <2> QED
    BY <2>1, <2>2
<1>5. BeyondFirst'
  <2>1. CASE Throw(t)
    <3>1. /\ Encoding' = Encoding \ {t} /\ Searching' = Searching /\ word' = word
          /\ \A u \in Threads \ {t} : slot'[u] = slot[u]
      BY <2>1 DEF Throw, Encoding, Searching, SlotInv, TypeOK
    <3>2. Beyond' \subseteq Beyond
      BY <3>1 DEF Beyond, Encoding
    <3>3. MayPassFirst \subseteq MayPassFirst'
      BY <1>1, <3>1 DEF MayPassFirst, EncodingIn, Encoding
    <3> QED
      BY <3>2, <3>3 DEF BeyondFirst
  <2>2. CASE NextWord(t)
    <3>1. /\ Full(old[t]) /\ pc[t] = "cas" /\ word[t] \in Word
          /\ Searching' = Searching /\ \A u \in Threads \ {t} : word'[u] = word[u]
      BY <2>2 DEF NextWord, Searching, SlotInv, TypeOK
    <3>2. slot' = slot /\ Encoding' = Encoding /\ MayPassFirst' = MayPassFirst
      BY <1>3, <2>2 DEF NextWord, Throw
    <3>3. t \in MayPassFirst
      <4>1. CASE word[t] = 0
        BY <3>1, <4>1 DEF OldWasRead, Full, MayPassFirst, EncodingIn, Encoding
      <4>2. CASE word[t] # 0
        BY <3>1, <4>2 DEF BeyondFirst, Beyond, Searching, Word
      <4> QED
        BY <4>1, <4>2
    <3>4. Beyond' \subseteq Beyond \union {t}
      BY <3>1, <3>2 DEF Beyond, Searching
    <3> QED
      BY <3>2, <3>3, <3>4 DEF BeyondFirst
  <2>3. CASE Call(t)
    <3>1. /\ Searching' = Searching \union {t} /\ word' = word /\ slot' = slot /\ Encoding' = Encoding
          /\ MayPassFirst' = MayPassFirst
      BY <1>3, <2>3 DEF Call, Searching, Throw, SlotInv, TypeOK
    <3>2. word[t] = 0
      BY <2>3 DEF Call, StartsAtZero, Searching
    <3> QED
      BY <3>1, <3>2 DEF BeyondFirst, Beyond
  <2>4. CASE Refuse(t) \/ Match(t)
    <3>1. /\ Searching' \subseteq Searching /\ slot' = slot /\ Encoding' = Encoding
          /\ MayPassFirst' = MayPassFirst /\ \A u \in Searching' : word'[u] = word[u]
      BY <1>3, <2>4 DEF Refuse, Return, Match, Searching, Throw, SlotInv, TypeOK
    <3> QED
      BY <3>1 DEF BeyondFirst, Beyond
  <2> QED
    BY <2>1, <2>2, <2>3, <2>4 DEF Local
<1>6. StartsAtZero'
  BY StartsAtZeroStep DEF Local, Step
<1> QED
  BY <1>1, <1>2, <1>4, <1>5, <1>6

(* A claim or a release: what t itself may read is what it wrote, and for  *)
(* the others the new value is added, which counts if it is a full word.   *)
LEMMA WriteStep ==
  ASSUME RelaxedInv, SlotInv', NEW t \in Threads, Write(t)
  PROVE  RelaxedInv'
<1> USE DEF RelaxedInv
<1>1. \A u \in Threads, w \in Word :
        may'[u][w] = IF bitmap'[w] = bitmap[w] THEN may[u][w]
                     ELSE {bitmap'[w]} \union (IF u = t THEN {} ELSE may[u][w])
  BY DEF Write, Written
<1>2. \A w \in Word : bitmap'[w] \in SUBSET Bit
  BY DEF SlotInv, TypeOK
<1>3. MayTyped'
  <2>1. ASSUME NEW u \in Threads, NEW w \in Word PROVE may'[u][w] \in SUBSET SUBSET Bit
    <3>1. may[u][w] \in SUBSET SUBSET Bit /\ bitmap'[w] \in SUBSET Bit
      BY <1>2 DEF MayTyped
    <3>2. \/ may'[u][w] = may[u][w]
          \/ may'[u][w] = {bitmap'[w]} \union {}
          \/ may'[u][w] = {bitmap'[w]} \union may[u][w]
      BY <1>1
    <3> QED
      BY <3>1, <3>2
  <2>2. may' = [u \in Threads |-> [w \in Word |-> may'[u][w]]]
    BY <1>1 DEF Write, Written
  <2> QED
    BY <2>1, <2>2 DEF MayTyped
<1>4. /\ leaked' = leaked
      /\ \A u \in Threads \ {t} : /\ slot'[u] = slot[u] /\ pc'[u] = pc[u]
                                  /\ old'[u] = old[u] /\ word'[u] = word[u]
      /\ pc'[t] \notin {"load", "cas"}
  BY DEF Write, CasSuccess, Return, Release, SlotInv, TypeOK
<1>5. OldWasRead'
  <2> SUFFICES ASSUME NEW u \in Threads, pc'[u] = "cas" PROVE old'[u] \in may'[u][word'[u]]
    BY DEF OldWasRead
  <2>1. /\ u # t /\ old'[u] = old[u] /\ word'[u] = word[u] /\ word[u] \in Word
        /\ old[u] \in may[u][word[u]]
    BY <1>4 DEF OldWasRead, SlotInv, TypeOK
  <2>2. \/ may'[u][word[u]] = may[u][word[u]]
        \/ may'[u][word[u]] = {bitmap'[word[u]]} \union may[u][word[u]]
    BY <1>1, <2>1
  <2> QED
    BY <2>1, <2>2
<1>6. StartsAtZero'
  BY StartsAtZeroStep DEF Write, Step
(* The word that t writes, and t's place in it before and after.           *)
<1>7. PICK v \in Word :
        /\ \A w \in Word \ {v} : bitmap'[w] = bitmap[w]
        /\ \/ /\ CasSuccess(t) /\ v = word[t] /\ WordOf(slot'[t]) = v /\ slot'[t] \in Slot
              /\ Encoding' = Encoding \union {t} /\ t \notin Encoding /\ t \in Searching
           \/ /\ Release(t) /\ WordOf(slot[t]) = v /\ Encoding' = Encoding \ {t} /\ t \in Encoding
              /\ bitmap'[v] # Bit
        /\ bitmap'[v] # bitmap[v]
  <2>1. CASE Release(t)
    <3>1. slot[t] \in Slot /\ t \in Encoding /\ slot[t] \in Taken
      BY <2>1, ReleaseFrees DEF Release, Encoding, SlotInv, BitmapExact
    <3>2. WordOf(slot[t]) \in Word /\ BitOf(slot[t]) \in Bit /\ BitOf(slot[t]) \in bitmap[WordOf(slot[t])]
      BY <3>1, SlotNumbers DEF Taken
    <3>3. bitmap' = [bitmap EXCEPT ![WordOf(slot[t])] = @ \ {BitOf(slot[t])}]
      BY <2>1 DEF Release, ClearBit
    <3>4. /\ \A w \in Word \ {WordOf(slot[t])} : bitmap'[w] = bitmap[w]
          /\ BitOf(slot[t]) \notin bitmap'[WordOf(slot[t])]
      BY <3>2, <3>3 DEF SlotInv, TypeOK
    <3>5. Encoding' = Encoding \ {t}
      BY <2>1 DEF Release, Encoding, SlotInv, TypeOK
    <3> QED
      BY <2>1, <3>1, <3>2, <3>4, <3>5
  <2>2. CASE CasSuccess(t)
    <3>1. PICK b \in Bit : /\ IsLowestZero(b, old[t]) /\ Claim(t, b)
                           /\ slot' = [slot EXCEPT ![t] = SlotOf(word[t], b)]
      BY <2>2 DEF CasSuccess
    <3>2. /\ word[t] \in Word /\ slot'[t] = SlotOf(word[t], b)
          /\ SlotOf(word[t], b) \in Slot /\ WordOf(SlotOf(word[t], b)) = word[t]
      BY <3>1, SlotNumbers DEF SlotInv, TypeOK
    <3>3. /\ \A w \in Word \ {word[t]} : bitmap'[w] = bitmap[w]
          /\ b \in bitmap'[word[t]] /\ b \notin bitmap[word[t]]
      BY <3>1, <3>2 DEF Claim, IsLowestZero, SlotInv, TypeOK
    <3>4. Encoding' = Encoding \union {t} /\ t \notin Encoding /\ t \in Searching
      BY <2>2 DEF CasSuccess, Return, Encoding, Searching, SlotInv, TypeOK
    <3> QED
      BY <2>2, <3>2, <3>3, <3>4
  <2> QED
    BY <2>1, <2>2 DEF Write
<1>8. \A w \in Word \ {v} : /\ \A u \in Threads : may'[u][w] = may[u][w]
                            /\ EncodingIn(w)' = EncodingIn(w)
  <2>1. ASSUME NEW w \in Word \ {v} PROVE EncodingIn(w)' = EncodingIn(w)
    BY <1>4, <1>7 DEF EncodingIn, Encoding
  <2> QED
    BY <1>1, <1>7, <2>1
<1>9. /\ may'[t][v] = {bitmap'[v]}
      /\ \A u \in Threads \ {t} : /\ may'[u][v] = {bitmap'[v]} \union may[u][v]
                                  /\ u \in EncodingIn(v)' <=> u \in EncodingIn(v)
  <2>1. ASSUME NEW u \in Threads \ {t} PROVE u \in EncodingIn(v)' <=> u \in EncodingIn(v)
    BY <1>4 DEF EncodingIn, Encoding
  <2> QED
    BY <1>1, <1>7, <2>1
<1>10. 0 \in Word
  BY SizesAssumption DEF Word
<1>11. BeyondFirst'
  <2>1. ASSUME NEW u \in Beyond', u # t PROVE u \in MayPassFirst'
    <3>1. u \in Beyond
      BY <1>4, <2>1 DEF Beyond, Searching, Encoding
    <3>2. u \in Threads /\ u \notin EncodingIn(0) /\ Bit \in may[u][0]
      BY <3>1 DEF BeyondFirst, MayPassFirst
    <3>3. Bit \in may'[u][0] /\ u \notin EncodingIn(0)'
      BY <1>8, <1>9, <1>10, <2>1, <3>2
    <3> QED
      BY <3>2, <3>3 DEF MayPassFirst
  <2>2. ASSUME t \in Beyond' PROVE t \in MayPassFirst'
    <3>1. t \in Encoding' /\ WordOf(slot'[t]) > 0
      BY <1>4, <2>2 DEF Beyond, Searching
    <3>2. CasSuccess(t) /\ v = word[t] /\ v > 0 /\ t \in Searching
      BY <1>7, <3>1
    <3>3. t \in MayPassFirst
      BY <3>2 DEF BeyondFirst, Beyond
    <3>4. Bit \in may'[t][0] /\ t \notin EncodingIn(0)'
      BY <1>8, <1>10, <3>2, <3>3 DEF MayPassFirst
    <3> QED
      BY <3>4 DEF MayPassFirst
  <2> QED
    BY <2>1, <2>2 DEF BeyondFirst
<1>12. FirstFilled'
  <2>1. CASE Full(bitmap'[0])
    BY <2>1, CountsAfter DEF FillsCount
  <2>2. CASE ~Full(bitmap'[0])
    <3>1. \A u \in Threads : Bit \in may'[u][0] => Bit \in may[u][0]
      <4>1. ASSUME NEW u \in Threads
            PROVE  \/ may'[u][0] = may[u][0]
                   \/ may'[u][0] = {bitmap'[0]} \union {}
                   \/ may'[u][0] = {bitmap'[0]} \union may[u][0]
        BY <1>1, <1>10
      <4> QED
        BY <2>2, <4>1 DEF Full
    <3>2. MayPassFirst' \subseteq MayPassFirst
      <4>1. ASSUME NEW u \in MayPassFirst' PROVE u \in MayPassFirst
        <5>1. u \in Threads /\ u \notin EncodingIn(0)' /\ Bit \in may'[u][0]
          BY <4>1 DEF MayPassFirst
        <5>2. u = t => v # 0
          BY <1>9, <2>2, <5>1 DEF Full
        <5>3. u \notin EncodingIn(0)
          BY <1>8, <1>9, <1>10, <5>1, <5>2
        <5> QED
          BY <3>1, <5>1, <5>3 DEF MayPassFirst
      <4> QED
        BY <4>1
    <3>3. /\ Cardinality(MayPassFirst') <= Cardinality(MayPassFirst)
          /\ Cardinality(MayPassFirst) \in Nat /\ Cardinality(MayPassFirst') \in Nat
          /\ Cardinality(LostIn(0)) \in Nat /\ Cardinality(Threads) \in Nat /\ WordBits \in Nat
      BY <3>2, RelaxedCounts, CountsAfter, FS_Subset DEF SlotInv, RoomCounts
    <3>4. LostIn(0)' = LostIn(0)
      BY <1>4 DEF LostIn
    <3> QED
      BY <3>1, <3>3, <3>4 DEF FirstFilled
  <2> QED
    BY <2>1, <2>2
<1>13. LaterFilled'
  <2> SUFFICES ASSUME NEW u \in Threads, NEW w \in Word \ {0}, Bit \in may'[u][w]
               PROVE  Callers' >= 2 * WordBits
    BY DEF LaterFilled
  <2>1. CASE Bit \in may[u][w]
    BY <1>4, <2>1 DEF LaterFilled, Callers
  <2>2. CASE Bit \notin may[u][w]
    <3>1. w = v /\ bitmap'[v] = Bit
      BY <1>8, <1>9, <2>2
    <3>2. t \in EncodingIn(v)'
      BY <1>7, <3>1 DEF EncodingIn
    <3> QED
      BY <1>11, <1>12, <3>1, <3>2, CountsAfter DEF FillsCount, Full
  <2> QED
    BY <2>1, <2>2
<1> QED
  BY <1>3, <1>5, <1>6, <1>11, <1>12, <1>13

LEMMA RelaxedInvInductive ==
  /\ RelaxedInit => RelaxedInv
  /\ RelaxedInv /\ [RelaxedNext]_relaxedVars => RelaxedInv'
<1>1. ASSUME RelaxedInit PROVE RelaxedInv
  <2>1. SlotInv
    BY <1>1, SlotInvInductive DEF RelaxedInit
  <2>2. MayTyped /\ OldWasRead /\ StartsAtZero /\ Beyond = {}
    BY <1>1 DEF RelaxedInit, Init, MayTyped, OldWasRead, StartsAtZero, Beyond, Searching, Encoding
  <2>3. \A u \in Threads, w \in Word : Bit \notin may[u][w]
    BY <1>1, SizesAssumption DEF RelaxedInit, Bit
  <2>4. 0 \in Word
    BY SizesAssumption DEF Word
  <2> QED
    BY <2>1, <2>2, <2>3, <2>4 DEF RelaxedInv, BeyondFirst, FirstFilled, LaterFilled
<1>2. ASSUME RelaxedInv, [RelaxedNext]_relaxedVars PROVE RelaxedInv'
  <2>1. CASE UNCHANGED relaxedVars
    <3>1. UNCHANGED vars /\ UNCHANGED may
      BY <2>1 DEF relaxedVars
    <3>2. SlotInv'
      BY <1>2, <3>1, SlotInvInductive DEF RelaxedInv
    <3> QED
      BY <1>2, <3>1, <3>2 DEF vars, RelaxedInv, StartsAtZero, Searching, MayTyped, OldWasRead,
                              BeyondFirst, Beyond, Encoding, MayPassFirst, EncodingIn,
                              FirstFilled, LaterFilled, LostIn, Callers
  <2>2. ASSUME NEW t \in Threads, RelaxedStep(t) PROVE RelaxedInv'
    <3>1. CASE RelaxedLoad(t) \/ RelaxedFail(t)
      BY <1>2, <3>1, ReadStep
    <3>2. CASE Write(t) \/ Local(t)
      <4>1. Next
        BY <3>2 DEF Next, Step, Write, Local
      <4>2. SlotInv'
        BY <1>2, <4>1, SlotInvInductive DEF RelaxedInv
      <4> QED
        BY <1>2, <3>2, <4>2, WriteStep, LocalStep
    <3> QED
      BY <2>2, <3>1, <3>2 DEF RelaxedStep
  <2> QED
    BY <1>2, <2>1, <2>2 DEF RelaxedNext
<1> QED
  BY <1>1, <1>2

(* Hence every state of the relaxed allocator satisfies the invariant.     *)
LEMMA RelaxedInvHolds == RelaxedSpec => []RelaxedInv
  BY RelaxedInvInductive, PTL DEF RelaxedSpec

(* Old or reordered snapshots let no two encodes share a scratch area.     *)
THEOREM RelaxedSlotSafety == RelaxedSpec => []SlotExclusive
<1>1. RelaxedInv => SlotExclusive
  BY DEF RelaxedInv, SlotInv
<1> QED
  BY <1>1, RelaxedInvHolds, PTL

(* Nor do they lose a claim or a release, or let an exception's slot go.   *)
THEOREM RelaxedBitmapExact == RelaxedSpec => []BitmapExact
<1>1. RelaxedInv => BitmapExact
  BY DEF RelaxedInv, SlotInv
<1> QED
  BY <1>1, RelaxedInvHolds, PTL

(* The acquire on success and the release are enough: the relaxed loads    *)
(* cause no race on a scratch area.                                        *)
THEOREM RelaxedNoScratchRace == RelaxedSpec => []ScratchRaceFree
<1>1. RelaxedInv => ScratchRaceFree
  BY DEF RelaxedInv, SlotInv
<1> QED
  BY <1>1, RelaxedInvHolds, PTL

(* With two words (the code's number) fewer threads than slots are never   *)
(* refused while no slot is lost, in whatever order the processor makes    *)
(* the loads.                                                              *)
THEOREM RelaxedRefusals == RelaxedSpec => RefusedOnlyNearScarce
<1> DEFINE A == \A t \in Threads : Refused(t) =>
                  LET callers == Cardinality(Threads) + Cardinality(leaked) IN
                  /\ callers > WordBits
                  /\ NumWords > 1 => callers >= 2 * WordBits
<1>1. ASSUME RelaxedInv, [RelaxedNext]_relaxedVars PROVE [A]_relaxedVars
  <2> USE <1>1 DEF RelaxedInv
  <2>1. CASE UNCHANGED relaxedVars
    BY <2>1
  <2>2. ASSUME RelaxedNext, NEW t \in Threads, Refused(t)
        PROVE  Callers > WordBits /\ (NumWords > 1 => Callers >= 2 * WordBits)
    <3> PICK u \in Threads : RelaxedStep(u)
      BY <2>2 DEF RelaxedNext
    <3>a. pc[t] = "cas" /\ pc'[t] = "idle"
      BY <2>2 DEF Refused
    <3>b. \A v \in Threads \ {u} : pc'[v] = pc[v]
      BY DEF RelaxedStep, RelaxedLoad, RelaxedFail, Write, Local, Call, NextWord, Refuse, Return,
             CasSuccess, Match, Release, Throw, SlotInv, TypeOK
    <3>c. u = t
      BY <3>a, <3>b
    <3>1. Refuse(t)
      BY <3>a, <3>c DEF RelaxedStep, RelaxedLoad, RelaxedFail, Write, Local, Call, NextWord,
                        Return, CasSuccess, Match, Release, Throw, SlotInv, TypeOK
    <3>2. /\ pc[t] = "cas" /\ Bit \in may[t][word[t]] /\ word[t] \in Word
          /\ word[t] + 1 = NumWords
      BY <3>1 DEF Refuse, OldWasRead, Full, SlotInv, TypeOK
    <3>3. t \in MayPassFirst
      <4>1. CASE word[t] = 0
        BY <3>2, <4>1 DEF MayPassFirst, EncodingIn, Encoding
      <4>2. CASE word[t] # 0
        BY <3>2, <4>2 DEF BeyondFirst, Beyond, Searching, Word
      <4> QED
        BY <4>1, <4>2
    <3>4. Cardinality(MayPassFirst) + WordBits <= Cardinality(Threads) + Cardinality(LostIn(0))
      BY <3>3 DEF FirstFilled, MayPassFirst
    <3>5. TypeOK
      BY DEF SlotInv
    <3>6. Cardinality(MayPassFirst) >= 1 /\ Cardinality(LostIn(0)) <= Cardinality(leaked)
      <4>1. {t} \subseteq MayPassFirst /\ LostIn(0) \subseteq leaked
        BY <3>3 DEF LostIn
      <4>2. Cardinality({t}) = 1
        BY FS_Singleton
      <4> QED
        BY <3>5, <4>1, <4>2, RelaxedCounts, FS_Subset
    <3>7. /\ Cardinality(MayPassFirst) \in Nat /\ Cardinality(LostIn(0)) \in Nat
          /\ Cardinality(leaked) \in Nat /\ Cardinality(Threads) \in Nat /\ WordBits \in Nat
      BY <3>5, RelaxedCounts
    <3>8. Callers > WordBits
      BY <3>4, <3>6, <3>7 DEF Callers
    <3>9. NumWords > 1 => Callers >= 2 * WordBits
      BY <3>2 DEF LaterFilled, Word
    <3> QED
      BY <3>8, <3>9
  <2>3. RelaxedNext => A
    BY <2>2 DEF Callers
  <2> QED
    BY <1>1, <2>1, <2>3
<1> QED
  BY <1>1, RelaxedInvHolds, PTL DEF RelaxedSpec, RefusedOnlyNearScarce

(* Only the owner of a slot frees it, whatever anybody has read.           *)
THEOREM RelaxedOwnerFrees == RelaxedSpec => OnlyOwnerFrees
<1> DEFINE A == \A s \in Taken \ Taken' :
                  \E t \in Encoding : /\ slot[t] = s
                                      /\ t \notin Encoding'
                                      /\ Taken' = Taken \ {s}
<1>1. ASSUME RelaxedInv, [RelaxedNext]_relaxedVars PROVE [A]_vars
  <2>1. CASE UNCHANGED bitmap
    BY <2>1 DEF Taken
  <2>2. CASE ~UNCHANGED bitmap
    <3>1. PICK t \in Threads : Write(t)
      BY <1>1, <2>2 DEF RelaxedNext, RelaxedStep, RelaxedLoad, RelaxedFail, Read, Local,
                        Call, NextWord, Refuse, Match, Throw, relaxedVars, vars
    <3>2. [Next]_vars
      BY <3>1 DEF Write, Next, Step
    <3> QED
      BY <1>1, <3>2, OwnerFreesStep DEF RelaxedInv
  <2> QED
    BY <2>1, <2>2
<1> QED
  BY <1>1, RelaxedInvHolds, PTL DEF RelaxedSpec, OnlyOwnerFrees
============================================================================
