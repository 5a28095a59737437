--------------------------- MODULE MCSlotHistory ---------------------------
(* SlotHistory for TLC. *)
EXTENDS SlotHistory, TLC

(* Threads are interchangeable: they are only compared.                    *)
Symmetry == Permutations(Threads)
============================================================================
