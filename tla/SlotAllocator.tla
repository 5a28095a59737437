--------------------------- MODULE SlotAllocator ---------------------------
(***************************************************************************)
(* SlotAllocator::allocate and ::release (token/core_bpe.cpp 45-84) and    *)
(* the part of CoreBPE::_encode_native that brackets every encode with     *)
(* them.  A slot names one PCRE2 match-data scratch area of the tokenizer; *)
(* concurrent encodes are meant never to share one.                        *)
(*                                                                         *)
(* An atomic 64-bit word is the set of its 1 bits.  One action is one      *)
(* atomic access together with the thread-local code that leads to it.     *)
(* The memory_order arguments are modelled too: `seen` and `published`     *)
(* carry the happens-before edges that the acquire CAS and the release     *)
(* fetch_and create, as far as they matter for the scratch areas.          *)
(***************************************************************************)
EXTENDS Integers, FiniteSets

CONSTANTS Threads,    \* the threads that call encode
          NumWords,   \* NUM_WORDS = 2
          WordBits    \* bits of an atomic word = 64

ASSUME SizesAssumption == /\ NumWords \in Nat \ {0}
                          /\ WordBits \in Nat \ {0}
ASSUME ThreadsAssumption == IsFiniteSet(Threads)

Word     == 0 .. NumWords - 1
Bit      == 0 .. WordBits - 1
NumSlots == NumWords * WordBits
Slot     == 0 .. NumSlots - 1
NoSlot   == -1                       \* allocate's failure value

(* allocate returns SlotOf(word, bit); release recovers the two.           *)
SlotOf(w, b) == w * WordBits + b
WordOf(s)    == s \div WordBits
BitOf(s)     == s % WordBits

VARIABLES
  bitmap,     \* bitmap[w]: the 1 bits of bitmap_[w]
  published,  \* published[w]: slots whose last scratch write happens before
              \* any thread that acquires the current value of bitmap_[w]
  pc,         \* what each thread is about to do
  word,       \* allocate's loop variable
  old,        \* allocate's snapshot of bitmap_[word]
  slot,       \* _encode_native's slot_index
  seen,       \* seen[t]: slots whose last scratch write happens before t's
              \* next step
  leaked      \* history: slots whose encode ended by an exception

vars == <<bitmap, published, pc, word, old, slot, seen, leaked>>

(* "load": about to read bitmap_[word]; "cas": holds a snapshot;           *)
(* "encode": owns slot_index.                                              *)
Phase == {"idle", "load", "cas", "encode"}

Taken      == {s \in Slot : BitOf(s) \in bitmap[WordOf(s)]}
Encoding   == {t \in Threads : pc[t] = "encode"}
FullWhenAny(bits) == bits # {}       \* mutant: not free counts as full
Full(bits) == bits = Bit

(* __builtin_ctzll(~old): the lowest 0 bit.                                *)
IsLowestZero(b, bits) == /\ b \in Bit \ bits
                         /\ \A c \in Bit \ bits : b <= c

(* The constructor sets every bit to 0 and creates every scratch area      *)
(* before the tokenizer is shared with another thread.                     *)
Init == /\ bitmap    = [w \in Word |-> {}]
        /\ published = [w \in Word |-> Slot]
        /\ pc        = [t \in Threads |-> "idle"]
        /\ word      = [t \in Threads |-> 0]
        /\ old       = [t \in Threads |-> {}]
        /\ slot      = [t \in Threads |-> NoSlot]
        /\ seen      = [t \in Threads |-> Slot]
        /\ leaked    = {}

----------------------------------------------------------------------------
(* allocate() *)

Call(t) == /\ pc[t] = "idle"
           /\ pc' = [pc EXCEPT ![t] = "load"]
           /\ UNCHANGED <<bitmap, published, word, old, slot, seen, leaked>>

(* bitmap_[word].load(relaxed) of the current value: no happens-before     *)
(* edge.                                                                   *)
Load(t) == /\ pc[t] = "load"
           /\ old' = [old EXCEPT ![t] = bitmap[word[t]]]
           /\ pc'  = [pc EXCEPT ![t] = "cas"]
           /\ UNCHANGED <<bitmap, published, word, slot, seen, leaked>>

(* old == UINT64_MAX: go on to the next word.                              *)
NextWord(t) == /\ pc[t] = "cas"
               /\ Full(old[t])
               /\ word[t] + 1 < NumWords
               /\ word' = [word EXCEPT ![t] = @ + 1]
               /\ old'  = [old EXCEPT ![t] = {}]
               /\ pc'   = [pc EXCEPT ![t] = "load"]
               /\ UNCHANGED <<bitmap, published, slot, seen, leaked>>

(* allocate returns: its locals go out of scope.                           *)
Return(t, phase) == /\ pc'   = [pc EXCEPT ![t] = phase]
                    /\ word' = [word EXCEPT ![t] = 0]
                    /\ old'  = [old EXCEPT ![t] = {}]

RefuseEarly(t) ==         \* mutant: any full word ends the search
             /\ pc[t] = "cas"
             /\ Full(old[t])
             /\ Return(t, "idle")
             /\ UNCHANGED <<bitmap, published, slot, seen, leaked>>

(* The last word is full: allocate returns -1 and the encode an empty      *)
(* result.                                                                 *)
Refuse(t) == /\ pc[t] = "cas"
             /\ Full(old[t])
             /\ word[t] + 1 = NumWords
             /\ Return(t, "idle")
             /\ UNCHANGED <<bitmap, published, slot, seen, leaked>>

ClaimByStore(t, b) ==     \* mutant: a plain store instead of the CAS
  /\ bitmap' = [bitmap EXCEPT ![word[t]] = old[t] \union {b}]
  /\ seen'   = [seen EXCEPT ![t] = @ \union published[word[t]]]
  /\ UNCHANGED published

ClaimRelaxed(t, b) ==     \* mutant: memory_order_relaxed on success
  /\ bitmap[word[t]] = old[t]
  /\ bitmap' = [bitmap EXCEPT ![word[t]] = old[t] \union {b}]
  /\ UNCHANGED <<seen, published>>

(* A successful compare_exchange(acquire) of the snapshot for the snapshot *)
(* with bit b set.  It carries on the release sequence of the word.        *)
Claim(t, b) ==
  /\ bitmap[word[t]] = old[t]
  /\ bitmap' = [bitmap EXCEPT ![word[t]] = old[t] \union {b}]
  /\ seen'   = [seen EXCEPT ![t] = @ \union published[word[t]]]
  /\ UNCHANGED published

CasSuccess(t) ==
  /\ pc[t] = "cas"
  /\ \E b \in Bit : /\ IsLowestZero(b, old[t])
                    /\ Claim(t, b)
                    /\ slot' = [slot EXCEPT ![t] = SlotOf(word[t], b)]
  /\ Return(t, "encode")
  /\ UNCHANGED leaked

CasFailStale(t) == \* mutant: a failed compare-exchange keeps the snapshot
              /\ pc[t] = "cas"
              /\ ~Full(old[t])
              /\ UNCHANGED vars

(* A failed compare_exchange (relaxed) refreshes the snapshot.  The weak   *)
(* form may fail although the word equals the snapshot; that step changes  *)
(* nothing.                                                                *)
CasFail(t) == /\ pc[t] = "cas"
              /\ ~Full(old[t])
              /\ old' = [old EXCEPT ![t] = bitmap[word[t]]]
              /\ UNCHANGED <<bitmap, published, pc, word, slot, seen, leaked>>

----------------------------------------------------------------------------
(* _encode_native, between allocate() and release() *)

(* One pcre2_match writes the scratch area: until a new edge is made, only *)
(* this thread is ordered after the write.                                 *)
Match(t) == /\ pc[t] = "encode"
            /\ seen' = [u \in Threads |-> IF u = t THEN seen[u] \union {slot[t]}
                                                   ELSE seen[u] \ {slot[t]}]
            /\ published' = [w \in Word |-> published[w] \ {slot[t]}]
            /\ UNCHANGED <<bitmap, pc, word, old, slot, leaked>>

ClearOthers(t, w, b) ==   \* mutant: fetch_and(bit), the complement forgotten
  /\ bitmap'    = [bitmap EXCEPT ![w] = @ \intersect {b}]
  /\ published' = [published EXCEPT ![w] = @ \union seen[t]]

ClearFirstWord(t, w, b) ==   \* mutant: the word index forgotten
  /\ bitmap'    = [bitmap EXCEPT ![0] = @ \ {b}]
  /\ published' = [published EXCEPT ![0] = @ \union seen[t]]

(* bitmap_[word].fetch_and(~bit, release).                                 *)
ClearBit(t, w, b) ==
  /\ bitmap'    = [bitmap EXCEPT ![w] = @ \ {b}]
  /\ published' = [published EXCEPT ![w] = @ \union seen[t]]

ReleaseKeeping(t) ==      \* mutant: slot_index outlives the release
              /\ pc[t] = "encode"
              /\ ClearBit(t, WordOf(slot[t]), BitOf(slot[t]))
              /\ pc'   = [pc EXCEPT ![t] = "idle"]
              /\ UNCHANGED <<word, old, slot, seen, leaked>>

Release(t) == /\ pc[t] = "encode"
              /\ ClearBit(t, WordOf(slot[t]), BitOf(slot[t]))
              /\ pc'   = [pc EXCEPT ![t] = "idle"]
              /\ slot' = [slot EXCEPT ![t] = NoSlot]
              /\ UNCHANGED <<word, old, seen, leaked>>

(* byte_pair_encode or the special-token lookup throws: the call unwinds   *)
(* past _slot.release, and the bit stays set.                              *)
Throw(t) == /\ pc[t] = "encode"
            /\ leaked' = leaked \union {slot[t]}
            /\ pc'     = [pc EXCEPT ![t] = "idle"]
            /\ slot'   = [slot EXCEPT ![t] = NoSlot]
            /\ UNCHANGED <<bitmap, published, word, old, seen>>

----------------------------------------------------------------------------
Step(t) == \/ Call(t) \/ Load(t) \/ NextWord(t) \/ Refuse(t)
           \/ CasSuccess(t) \/ CasFail(t)
           \/ Match(t) \/ Release(t) \/ Throw(t)

Next == \E t \in Threads : Step(t)

Spec == Init /\ [][Next]_vars

----------------------------------------------------------------------------
(* Properties *)

(* Every variable has its type, and a thread owns a slot exactly while it  *)
(* encodes (slot_index is -1 or out of scope otherwise).                   *)
TypeOK == /\ bitmap    \in [Word -> SUBSET Bit]
          /\ published \in [Word -> SUBSET Slot]
          /\ pc        \in [Threads -> Phase]
          /\ word      \in [Threads -> Word]
          /\ old       \in [Threads -> SUBSET Bit]
          /\ slot      \in [Threads -> Slot \union {NoSlot}]
          /\ seen      \in [Threads -> SUBSET Slot]
          /\ leaked    \in SUBSET Slot
          /\ \A t \in Threads : pc[t] = "encode" <=> slot[t] # NoSlot

(* Two encodes in progress never use the same scratch area.                *)
SlotExclusive == \A t, u \in Encoding : t # u => slot[t] # slot[u]

(* The bitmap is exact: a bit is 1 iff one encode in progress owns the     *)
(* slot, or an exception left it behind; never both.  In particular no     *)
(* release is lost and no claim is overwritten.                            *)
BitmapExact == /\ Taken = {slot[t] : t \in Encoding} \union leaked
               /\ \A t \in Encoding : slot[t] \notin leaked

(* No data race on a scratch area: whoever may write it next is ordered    *)
(* after the last write, whichever thread made it.  This is what           *)
(* memory_order_acquire and memory_order_release are there for.            *)
ScratchRaceFree == \A t \in Encoding : slot[t] \in seen[t]

(* Only the owner frees a slot, one slot at a time, and it stops encoding  *)
(* in the same step.                                                       *)
OnlyOwnerFrees ==
  [][\A s \in Taken \ Taken' :
       \E t \in Encoding : /\ slot[t] = s
                           /\ t \notin Encoding'
                           /\ Taken' = Taken \ {s}]_vars

(* allocate returned -1, and encode an empty result.                       *)
Refused(t) == pc[t] = "cas" /\ pc'[t] = "idle"
============================================================================
