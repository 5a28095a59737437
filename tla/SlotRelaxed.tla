---------------------------- MODULE SlotRelaxed ----------------------------
(***************************************************************************)
(* SlotAllocator under the memory orders it asks for.  Its loads are       *)
(* relaxed (core_bpe.cpp 47, and 62 for what a failed compare-exchange     *)
(* reads back), so they need not return the current value of a word, and   *)
(* the loads of the two words may be reordered.  Only two things are sure: *)
(* an atomic read-modify-write acts on the last value of its word, and a   *)
(* thread never reads a value older than its own last write of the word.   *)
(*                                                                         *)
(* may[t][w] holds the values of bitmap_[w] that t may still read: the one *)
(* that t left there last and all that were written after it.  C++ allows  *)
(* t to read no more; it rules some of them out (a value older than one    *)
(* that t has already read, or than one that t is ordered after), so what  *)
(* holds here holds on every machine.                                      *)
(***************************************************************************)
EXTENDS SlotAllocator

VARIABLE may

relaxedVars == <<vars, may>>

RelaxedInit == /\ Init
               /\ may = [t \in Threads |-> [w \in Word |-> {{}}]]

(* What t reads from the word it has come to.                              *)
Read(t) == /\ \E bits \in may[t][word[t]] : old' = [old EXCEPT ![t] = bits]
           /\ UNCHANGED <<bitmap, published, word, slot, seen, leaked, may>>

RelaxedLoad(t) == /\ pc[t] = "load"
                  /\ pc' = [pc EXCEPT ![t] = "cas"]
                  /\ Read(t)

RelaxedFail(t) == /\ pc[t] = "cas"
                  /\ ~Full(old[t])
                  /\ Read(t)
                  /\ UNCHANGED pc

(* After t has written: the new value of a word is added to what the       *)
(* others may read, and is all that t itself may read.                     *)
Written(t) ==
  may' = [u \in Threads |-> [w \in Word |->
            IF bitmap'[w] = bitmap[w] THEN may[u][w]
            ELSE {bitmap'[w]} \union (IF u = t THEN {} ELSE may[u][w])]]

Write(t) == (CasSuccess(t) \/ Release(t)) /\ Written(t)

Local(t) == /\ Call(t) \/ NextWord(t) \/ Refuse(t) \/ Match(t) \/ Throw(t)
            /\ UNCHANGED may

RelaxedStep(t) == RelaxedLoad(t) \/ RelaxedFail(t) \/ Write(t) \/ Local(t)

RelaxedNext == \E t \in Threads : RelaxedStep(t)

RelaxedSpec == RelaxedInit /\ [][RelaxedNext]_relaxedVars

----------------------------------------------------------------------------
(* An encode is refused only when callers and lost slots together are at   *)
(* least as many as the slots of two words: all slots, in this code.       *)
(* (With the loads in order they must be more than all slots:              *)
(* RefusedOnlyWhenCrowded.) The words need not have been full at the same  *)
(* moment, but each was after the caller itself gave back its last slot    *)
(* there.  So up to 127 threads that lose no slot are never refused, in    *)
(* whatever order the loads are made.                                      *)
RefusedOnlyNearScarce ==
  [][\A t \in Threads : Refused(t) =>
       LET callers == Cardinality(Threads) + Cardinality(leaked) IN
       /\ callers > WordBits
       /\ NumWords > 1 => callers >= 2 * WordBits]_relaxedVars
============================================================================
