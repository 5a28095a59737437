--------------------------- MODULE MCSlotRelaxed ---------------------------
(* SlotRelaxed for TLC. *)
EXTENDS SlotRelaxed, TLC

(* Threads are interchangeable: they are only compared.                    *)
Symmetry == Permutations(Threads)
============================================================================
