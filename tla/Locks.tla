------------------------------- MODULE Locks -------------------------------
(***************************************************************************)
(* The lock wrappers of common/lock.h: Mutex, Spin, RWLock and its         *)
(* stand-in, the scoped guards, CondVar and SharedInt, used by threads     *)
(* that nest guards, unlock and lock them again, and leave their scopes in *)
(* order or because of an exception.                                       *)
(*                                                                         *)
(* pthread is external: a lock is granted in any order of its waiters,     *)
(* readers share an RWLock and are not held up by a waiting writer, and a  *)
(* wait for a condition may wake up by itself.  A thread that locks again  *)
(* what it holds waits for ever; where pthread notices (EDEADLK),          *)
(* pthread_call aborts the process instead (18-23), which is not a state   *)
(* of the model.  The Null locks exclude nobody and are left out.          *)
(***************************************************************************)
EXTENDS Integers, SequencesExt

CONSTANTS Threads,
          LockSet,     \* the locks
          Kind,        \* of each: "mutex" (also Spin), "rwlock" or "simulated"
                       \* (MutexSimulativeRWLock)
          IntLock,     \* the private Mutex of a SharedInt
          MaxGuards,   \* bound: guards a thread nests
          MaxReads,    \* bound: read locks of one thread on one lock
          MaxInt,      \* bound: the values of the SharedInt
          Nobody

ASSUME KindAssumption == /\ Kind \in [LockSet -> {"mutex", "rwlock", "simulated"}]
                         /\ IntLock \in LockSet /\ Kind[IntLock] = "mutex"
                         /\ Nobody \notin Threads

VARIABLES
  guards,     \* per thread, the scoped guards in scope, innermost last
  want,       \* the guard whose Lock is waiting, 0 if the thread runs
  inWait,     \* threads inside CondVar::Wait
  asleep,     \* those of them that nothing has woken up yet
  writer,     \* who holds the lock exclusively
  reads,      \* how often each thread holds it for reading
  relocked,   \* threads that called Lock on a guard that was locked
  i,          \* SharedInt::i
  local,      \* what Increment has read of it, -1 outside
  sum         \* what the calls of Set and Increment that ended amount to

vars == <<guards, want, inWait, asleep, writer, reads, relocked, i, local, sum>>

(* ScopedLock and ScopedLockW have mode "W", ScopedLockR has mode "R".     *)
Guard(l, mode)    == [lock |-> l, mode |-> mode, locked |-> FALSE]
Modes(l)          == IF Kind[l] = "mutex" THEN {"W"} ELSE {"R", "W"}
Shared(l, mode)   == mode = "R" /\ Kind[l] = "rwlock"
Runs(t)           == want[t] = 0
Innermost(t)      == guards[t][Len(guards[t])]

Init == /\ guards = [t \in Threads |-> <<>>]
        /\ want = [t \in Threads |-> 0]
        /\ inWait = {} /\ asleep = {}
        /\ writer = [l \in LockSet |-> Nobody]
        /\ reads = [l \in LockSet |-> [t \in Threads |-> 0]]
        /\ relocked = {}
        /\ i = 0
        /\ local = [t \in Threads |-> -1]
        /\ sum = 0

(* pthread: what can be taken, taking and releasing.                       *)
NobodyReads(l) == \A t \in Threads : reads[l][t] = 0
FreeForReader(l, mode) == writer[l] = Nobody          \* mutant: a writer ignores readers
Free(l, mode) == writer[l] = Nobody /\ (Shared(l, mode) \/ NobodyReads(l))
Take(t, l, mode) ==
  IF Shared(l, mode) THEN reads' = [reads EXCEPT ![l][t] = @ + 1] /\ writer' = writer
  ELSE writer' = [writer EXCEPT ![l] = t] /\ reads' = reads
Drop(t, l) ==
  IF writer[l] = t THEN writer' = [writer EXCEPT ![l] = Nobody] /\ reads' = reads
  ELSE reads' = [reads EXCEPT ![l][t] = @ - 1] /\ writer' = writer

(* The constructor of a guard waits in Lock, LockR or LockW.               *)
Construct(t, l, mode) ==
  /\ Runs(t) /\ local[t] = -1
  /\ Len(guards[t]) < MaxGuards
  /\ \A g \in DOMAIN guards[t] : guards[t][g].lock # IntLock
  /\ mode \in Modes(l)
  /\ guards' = [guards EXCEPT ![t] = Append(@, Guard(l, mode))]
  /\ want' = [want EXCEPT ![t] = Len(guards[t]) + 1]
  /\ UNCHANGED <<inWait, asleep, writer, reads, relocked, i, local, sum>>

(* Lock of a guard in scope does not look at locked_.                      *)
LockAgain(t, g) ==
  /\ Runs(t) /\ local[t] = -1
  /\ g \in DOMAIN guards[t]
  /\ guards[t][g].lock # IntLock
  /\ reads[guards[t][g].lock][t] < MaxReads
  /\ want' = [want EXCEPT ![t] = g]
  /\ relocked' = IF guards[t][g].locked THEN relocked \union {t} ELSE relocked
  /\ UNCHANGED <<guards, inWait, asleep, writer, reads, i, local, sum>>

Granted(t) ==
  /\ want[t] # 0 /\ t \notin asleep
  /\ LET g == guards[t][want[t]] IN Free(g.lock, g.mode) /\ Take(t, g.lock, g.mode)
  /\ guards' = [guards EXCEPT ![t][want[t]].locked = TRUE]
  /\ want' = [want EXCEPT ![t] = 0]
  /\ inWait' = inWait \ {t}
  /\ UNCHANGED <<asleep, relocked, i, local, sum>>

(* UnLock of a guard that is locked; of another one it does nothing.       *)
Unlock(t, g) ==
  /\ Runs(t) /\ local[t] = -1
  /\ g \in DOMAIN guards[t]
  /\ guards[t][g].locked /\ guards[t][g].lock # IntLock
  /\ Drop(t, guards[t][g].lock)
  /\ guards' = [guards EXCEPT ![t][g].locked = FALSE]
  /\ UNCHANGED <<want, inWait, asleep, relocked, i, local, sum>>

(* The destructor, at the end of the scope or while an exception unwinds.  *)
DestructAnyway(t) ==                  \* mutant: a guard not locked leaves its lock held
  /\ Runs(t) /\ local[t] = -1
  /\ guards[t] # <<>>
  /\ UNCHANGED <<writer, reads>>
  /\ guards' = [guards EXCEPT ![t] = Front(@)]
  /\ UNCHANGED <<want, inWait, asleep, relocked, i, local, sum>>

Destruct(t) ==
  /\ Runs(t) /\ local[t] = -1
  /\ guards[t] # <<>>
  /\ IF Innermost(t).locked THEN Drop(t, Innermost(t).lock) ELSE UNCHANGED <<writer, reads>>
  /\ guards' = [guards EXCEPT ![t] = Front(@)]
  /\ UNCHANGED <<want, inWait, asleep, relocked, i, local, sum>>

(* Wait releases the mutex without telling the guard, and takes it again   *)
(* once it is signalled or wakes up by itself.                             *)
Wait(t, g) ==
  /\ Runs(t) /\ local[t] = -1
  /\ g \in DOMAIN guards[t]
  /\ guards[t][g].locked /\ Kind[guards[t][g].lock] = "mutex" /\ guards[t][g].lock # IntLock
  /\ Drop(t, guards[t][g].lock)
  /\ want' = [want EXCEPT ![t] = g]
  /\ inWait' = inWait \union {t} /\ asleep' = asleep \union {t}
  /\ UNCHANGED <<guards, relocked, i, local, sum>>

WakeUp    == \E t \in asleep : asleep' = asleep \ {t}
SignalAll == asleep # {} /\ asleep' = {}
Signal    == /\ WakeUp \/ SignalAll
             /\ UNCHANGED <<guards, want, inWait, writer, reads, relocked, i, local, sum>>

(* SharedInt: each method holds a ScopedLock from its first to its last    *)
(* statement.                                                              *)
WithoutGuard(t) == Runs(t)            \* mutant: a method does not lock
InMethod(t) == Runs(t) /\ guards[t] # <<>> /\ Innermost(t).lock = IntLock

Set(t, v) == /\ InMethod(t) /\ local[t] = -1
             /\ i' = v /\ sum' = v
             /\ UNCHANGED <<guards, want, inWait, asleep, writer, reads, relocked, local>>

IncrementReads(t) == /\ InMethod(t) /\ local[t] = -1
                     /\ local' = [local EXCEPT ![t] = i]
                     /\ UNCHANGED <<guards, want, inWait, asleep, writer, reads, relocked, i, sum>>

IncrementWrites(t) == /\ InMethod(t) /\ local[t] # -1
                      /\ i < MaxInt
                      /\ i' = local[t] + 1 /\ sum' = sum + 1
                      /\ local' = [local EXCEPT ![t] = -1]
                      /\ UNCHANGED <<guards, want, inWait, asleep, writer, reads, relocked>>

Next == \/ Signal
        \/ \E t \in Threads :
             \/ \E l \in LockSet, mode \in {"R", "W"} : Construct(t, l, mode)
             \/ \E g \in 1 .. MaxGuards : LockAgain(t, g) \/ Unlock(t, g) \/ Wait(t, g)
             \/ Granted(t) \/ Destruct(t)
             \/ \E v \in 0 .. MaxInt : Set(t, v)
             \/ IncrementReads(t) \/ IncrementWrites(t)

Spec == Init /\ [][Next]_vars

----------------------------------------------------------------------------
(* Properties *)

(* A guard that says it is locked and is not inside Wait.                  *)
Holding(t, g) == guards[t][g].locked /\ ~(t \in inWait /\ want[t] = g)

(* Two guards of different threads are locked on one lock only to read an  *)
(* RWLock (lock.h 144-243).                                                *)
Exclusion ==
  \A s, t \in Threads : s # t =>
    \A g \in DOMAIN guards[s], h \in DOMAIN guards[t] :
      /\ guards[s][g].lock = guards[t][h].lock
      /\ Holding(s, g) /\ Holding(t, h)
      => Shared(guards[s][g].lock, guards[s][g].mode) /\ Shared(guards[t][h].lock, guards[t][h].mode)

(* Nobody waits for a lock no guard will release: a thread holds a lock as *)
(* often as its guards say, and none without a guard.  The exception is a  *)
(* thread that locked a guard twice (164, 198, 232): it waits for itself,  *)
(* or, reading an RWLock, keeps a read lock no destructor gives back.      *)
Holdings(t, l) == reads[l][t] + (IF writer[l] = t THEN 1 ELSE 0)
HeldByGuards ==
  \A t \in Threads \ relocked, l \in LockSet :
    Holdings(t, l) = Cardinality({g \in DOMAIN guards[t] : guards[t][g].lock = l /\ Holding(t, g)})

(* No increment of a SharedInt is lost to another thread between its read  *)
(* and its write (254-259), whatever the threads do with other locks.      *)
NoLostUpdate == i = sum
============================================================================
