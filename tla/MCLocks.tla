------------------------------ MODULE MCLocks ------------------------------
(***************************************************************************)
(* Locks for TLC: the mutex of a SharedInt, a user's mutex and a           *)
(* reader-writer lock, its stand-in, and two threads that nest two guards. *)
(***************************************************************************)
EXTENDS Locks, TLC

CONSTANTS t1, t2, m, rw, counter, simulated

MCKind == (m :> "mutex") @@ (rw :> "rwlock") @@ (counter :> "mutex") @@ (simulated :> "simulated")
Symmetry == Permutations(Threads)
============================================================================
