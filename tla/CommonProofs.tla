---------------------------- MODULE CommonProofs ----------------------------
(***************************************************************************)
(* Theorems about two components of src/common.                            *)
(*                                                                         *)
(* The lock wrappers of common/lock.h exclude what they promise to, give   *)
(* back what they take and lose no increment, for any threads, locks and   *)
(* nesting.  The invariant counts: a thread holds a lock at least as often *)
(* as guards of it say so, exactly as often unless it locked a guard       *)
(* twice, and a writer has the lock alone.                                 *)
(*                                                                         *)
(* The hashes of common/murmurhash2.cc and the RC4 of crypt_utils.cpp give *)
(* the same for every input, however it is cut and wherever it lies.  The  *)
(* invariant says what the hasher and the cipher hold after each byte.  No *)
(* byte is left out of a hash: every step of the hashes can be undone.     *)
(***************************************************************************)
EXTENDS Locks, Streams, SequenceLemmas


GuardSet == [lock : LockSet, mode : {"R", "W"}, locked : BOOLEAN]

(* What the variables hold; a thread inside Wait has a guard that is       *)
(* locked on a mutex other than that of the SharedInt.                     *)
LocksTyped ==
  /\ guards \in [Threads -> Seq(GuardSet)]
  /\ want \in [Threads -> Nat]
  /\ \A t \in Threads : want[t] \in 0 .. Len(guards[t])
  /\ inWait \subseteq Threads /\ asleep \subseteq inWait
  /\ \A t \in inWait : want[t] # 0 /\ guards[t][want[t]].locked
  /\ relocked \subseteq Threads
  /\ local \in [Threads -> Int] /\ i \in Int

LocksOwned == /\ writer \in [LockSet -> Threads \union {Nobody}]
              /\ reads \in [LockSet -> [Threads -> Nat]]

(* The guards of a thread that hold a lock.                                *)
Held(t, l) == {g \in DOMAIN guards[t] : guards[t][g].lock = l /\ Holding(t, g)}

Counted == \A t \in Threads, l \in LockSet :
             /\ Cardinality(Held(t, l)) <= Holdings(t, l)
             /\ t \notin relocked => Cardinality(Held(t, l)) = Holdings(t, l)

WriterAlone == \A l \in LockSet : writer[l] # Nobody => \A t \in Threads : reads[l][t] = 0

ModesHeld == \A t \in Threads, l \in LockSet : \A g \in Held(t, l) :
               IF Shared(l, guards[t][g].mode) THEN writer[l] # t ELSE writer[l] = t

(* A guard that waits does not hold, unless it was locked twice.           *)
WaitersWithout == \A t \in Threads \ relocked : want[t] # 0 => ~Holding(t, want[t])

Ownership == LocksOwned /\ Counted /\ WriterAlone /\ ModesHeld

(* The guard of a SharedInt method is the innermost one, and locked once   *)
(* its Lock has returned.                                                  *)
IntGuards == \A t \in Threads : \A g \in DOMAIN guards[t] :
               guards[t][g].lock = IntLock =>
                 /\ g = Len(guards[t])
                 /\ guards[t][g].locked \/ want[t] = g
                 /\ t \in inWait => want[t] # g

(* What Increment has read is the value until it writes.                   *)
ReadsCurrent == \A t \in Threads : local[t] # -1 => InMethod(t) /\ local[t] = i

LocksInv == /\ LocksTyped /\ Ownership /\ WaitersWithout
            /\ IntGuards /\ ReadsCurrent /\ NoLostUpdate

----------------------------------------------------------------------------
(* Counting guards.                                                        *)
LEMMA HeldFinite ==
  ASSUME LocksTyped, NEW t \in Threads, NEW l
  PROVE  /\ IsFiniteSet(Held(t, l)) /\ Cardinality(Held(t, l)) \in Nat
         /\ \A g : Cardinality(Held(t, l) \union {g})
                     = IF g \in Held(t, l) THEN Cardinality(Held(t, l)) ELSE Cardinality(Held(t, l)) + 1
         /\ \A g \in Held(t, l) : /\ Cardinality(Held(t, l) \ {g}) = Cardinality(Held(t, l)) - 1
                                  /\ Cardinality(Held(t, l)) >= 1
<1>1. DOMAIN guards[t] = 1 .. Len(guards[t]) /\ Len(guards[t]) \in Nat
  BY DEF LocksTyped
<1>2. IsFiniteSet(DOMAIN guards[t])
  BY <1>1, FS_Interval
<1>3. Held(t, l) \subseteq DOMAIN guards[t]
  BY DEF Held
<1>4. IsFiniteSet(Held(t, l)) /\ Cardinality(Held(t, l)) \in Nat
  BY <1>2, <1>3, FS_Subset, FS_CardinalityType
<1>5. \A g : Cardinality(Held(t, l) \union {g})
               = IF g \in Held(t, l) THEN Cardinality(Held(t, l)) ELSE Cardinality(Held(t, l)) + 1
  BY <1>4, FS_AddElement
<1>6. \A g \in Held(t, l) : /\ Cardinality(Held(t, l) \ {g}) = Cardinality(Held(t, l)) - 1
                            /\ Cardinality(Held(t, l)) >= 1
  <2> TAKE g \in Held(t, l)
  <2>1. Cardinality(Held(t, l) \ {g}) = Cardinality(Held(t, l)) - 1
    BY <1>4, FS_RemoveElement
  <2>2. Cardinality(Held(t, l) \ {g}) \in Nat
    BY <1>4, FS_RemoveElement, FS_CardinalityType
  <2> QED
    BY <1>4, <2>1, <2>2
<1> QED
  BY <1>4, <1>5, <1>6

(* Ownership says what a thread holds: a writer one time, a reader as      *)
(* often as it locked.                                                     *)
LEMMA HoldingsValue ==
  ASSUME LocksOwned, WriterAlone, NEW t \in Threads, NEW l \in LockSet
  PROVE  /\ Holdings(t, l) \in Nat
         /\ writer[l] = t => Holdings(t, l) = 1
         /\ writer[l] # t => Holdings(t, l) = reads[l][t]
BY KindAssumption DEF LocksOwned, WriterAlone, Holdings

(* Steps that leave the locks and what the guards hold alone.              *)
LEMMA QuietOwnership ==
  ASSUME Ownership, UNCHANGED <<writer, reads>>, relocked \subseteq relocked',
         \A t \in Threads, l \in LockSet : Held(t, l)' = Held(t, l),
         \A t \in Threads, l \in LockSet : \A g \in Held(t, l) : guards'[t][g].mode = guards[t][g].mode
  PROVE  Ownership'
<1>1. LocksOwned' /\ WriterAlone'
  BY DEF Ownership, LocksOwned, WriterAlone
<1>2. \A t \in Threads, l \in LockSet : Holdings(t, l)' = Holdings(t, l)
  BY DEF Holdings
<1>3. Counted'
  BY <1>2 DEF Ownership, Counted
<1>4. ModesHeld'
  BY DEF Ownership, ModesHeld, Shared
<1> QED
  BY <1>1, <1>3, <1>4 DEF Ownership

(* A lock that is granted to one more guard.                               *)
LEMMA TakeOwnership ==
  ASSUME LocksTyped, Ownership, LocksTyped', relocked' = relocked,
         NEW t \in Threads, NEW l \in LockSet, NEW m, NEW g,
         Free(l, m), Take(t, l, m), guards'[t][g].mode = m,
         Held(t, l)' = Held(t, l) \union {g},
         t \notin relocked => g \notin Held(t, l),
         \A u \in Threads, k \in LockSet : u # t \/ k # l => Held(u, k)' = Held(u, k),
         \A u \in Threads, k \in LockSet : \A h \in Held(u, k) : guards'[u][h].mode = guards[u][h].mode
  PROVE  Ownership'
<1> USE DEF Ownership
<1>1. writer[l] = Nobody /\ (~Shared(l, m) => NobodyReads(l)) /\ Nobody \notin Threads
  BY KindAssumption DEF Free
<1>2. LocksOwned'
  BY DEF LocksOwned, Take
<1>3. WriterAlone'
  BY <1>1 DEF LocksOwned, WriterAlone, Take, NobodyReads
<1>4. /\ Holdings(t, l)' = Holdings(t, l) + 1
      /\ \A u \in Threads, k \in LockSet : u # t \/ k # l => Holdings(u, k)' = Holdings(u, k)
  <2>1. CASE Shared(l, m)
    <3>1. writer' = writer /\ reads' = [reads EXCEPT ![l][t] = @ + 1]
      BY <2>1 DEF Take
    <3>2. \A k \in LockSet : writer'[k] = writer[k]
      BY <3>1
    <3>3. reads'[l][t] = reads[l][t] + 1 /\ reads[l][t] \in Nat
      BY <3>1 DEF LocksOwned
    <3>4. \A u \in Threads, k \in LockSet : u # t \/ k # l => reads'[k][u] = reads[k][u]
      BY <3>1 DEF LocksOwned
    <3> QED
      BY <3>2, <3>3, <3>4, <1>1 DEF Holdings
  <2>2. CASE ~Shared(l, m)
    <3>1. reads' = reads /\ writer' = [writer EXCEPT ![l] = t] /\ reads[l][t] = 0
      BY <2>2, <1>1 DEF Take, NobodyReads
    <3>2. writer'[l] = t /\ \A k \in LockSet : k # l => writer'[k] = writer[k]
      BY <3>1 DEF LocksOwned
    <3> QED
      BY <3>1, <3>2, <1>1 DEF Holdings
  <2> QED
    BY <2>1, <2>2
<1>5. Counted'
  <2>1. /\ Cardinality(Held(t, l)') <= Holdings(t, l)'
        /\ t \notin relocked => Cardinality(Held(t, l)') = Holdings(t, l)'
    <3> DEFINE c == Cardinality(Held(t, l))
               d == Holdings(t, l)
               e == Cardinality(Held(t, l)')
    <3>1. c \in Nat /\ d \in Nat /\ c <= d /\ (t \notin relocked => c = d)
      BY HeldFinite, HoldingsValue DEF Counted
    <3>2. e = (IF g \in Held(t, l) THEN c ELSE c + 1)
      BY HeldFinite
    <3>3. Holdings(t, l)' = d + 1
      BY <1>4
    <3> HIDE DEF c, d, e
    <3>4. e <= d + 1 /\ (t \notin relocked => e = d + 1)
      BY <3>1, <3>2
    <3> QED
      BY <3>3, <3>4 DEF e
  <2>2. ASSUME NEW u \in Threads, NEW k \in LockSet, u # t \/ k # l
        PROVE  /\ Cardinality(Held(u, k)') <= Holdings(u, k)'
               /\ u \notin relocked => Cardinality(Held(u, k)') = Holdings(u, k)'
    BY <2>2, <1>4 DEF Counted
  <2> QED
    BY <2>1, <2>2 DEF Counted
<1>6. ModesHeld'
  <2> SUFFICES ASSUME NEW u \in Threads, NEW k \in LockSet, NEW h \in Held(u, k)'
               PROVE  IF Shared(k, guards'[u][h].mode) THEN writer'[k] # u ELSE writer'[k] = u
    BY DEF ModesHeld, Shared
  <2>1. CASE u = t /\ k = l /\ h = g
    BY <2>1, <1>1 DEF Take, LocksOwned
  <2>2. CASE ~(u = t /\ k = l /\ h = g)
    <3>1. h \in Held(u, k) /\ guards'[u][h].mode = guards[u][h].mode
      BY <2>2
    <3>2. IF Shared(k, guards[u][h].mode) THEN writer[k] # u ELSE writer[k] = u
      BY <3>1 DEF ModesHeld
    <3>3. CASE k # l \/ Shared(l, m)
      <4>1. writer'[k] = writer[k]
        BY <3>3 DEF Take, LocksOwned
      <4> QED
        BY <3>1, <3>2, <4>1
    <3>4. CASE k = l /\ ~Shared(l, m)
      <4>1. \A r \in Threads : Holdings(r, l) = 0
        BY <1>1, <3>4, HoldingsValue DEF NobodyReads
      <4>2. Cardinality(Held(u, l)) >= 1 /\ Cardinality(Held(u, l)) \in Nat
        BY <3>1, <3>4, HeldFinite
      <4> QED
        BY <3>4, <4>1, <4>2 DEF Counted
    <3> QED
      BY <3>3, <3>4
  <2> QED
    BY <2>1, <2>2
<1> QED
  BY <1>2, <1>3, <1>5, <1>6

(* A lock that one of its guards gives back.                               *)
LEMMA DropOwnership ==
  ASSUME LocksTyped, Ownership, relocked' = relocked,
         NEW t \in Threads, NEW l \in LockSet, NEW g \in Held(t, l), Drop(t, l),
         Held(t, l)' = Held(t, l) \ {g},
         \A u \in Threads, k \in LockSet : u # t \/ k # l => Held(u, k)' = Held(u, k),
         \A u \in Threads, k \in LockSet : \A h \in Held(u, k)' : guards'[u][h].mode = guards[u][h].mode
  PROVE  Ownership'
<1> USE DEF Ownership
<1>1. /\ Cardinality(Held(t, l)) \in Nat /\ Cardinality(Held(t, l)) >= 1
      /\ Cardinality(Held(t, l)') = Cardinality(Held(t, l)) - 1
      /\ Cardinality(Held(t, l)) <= Holdings(t, l) /\ Holdings(t, l) \in Nat
      /\ t \notin relocked => Cardinality(Held(t, l)) = Holdings(t, l)
      /\ Nobody \notin Threads
  BY HeldFinite, HoldingsValue, KindAssumption DEF Counted
<1>2. /\ LocksOwned' /\ WriterAlone'
      /\ Holdings(t, l)' = Holdings(t, l) - 1
      /\ \A u \in Threads, k \in LockSet : u # t \/ k # l => Holdings(u, k)' = Holdings(u, k)
      /\ \A k \in LockSet : k # l \/ writer[l] # t => writer'[k] = writer[k]
      /\ writer[l] = t => writer'[l] = Nobody
  <2>1. CASE writer[l] = t
    <3>1. reads' = reads /\ writer' = [writer EXCEPT ![l] = Nobody] /\ reads[l][t] = 0
      BY <2>1, <1>1 DEF Drop, WriterAlone
    <3>2. writer'[l] = Nobody /\ \A k \in LockSet : k # l => writer'[k] = writer[k]
      BY <3>1 DEF LocksOwned
    <3>3. LocksOwned' /\ WriterAlone'
      BY <3>1, <3>2 DEF LocksOwned, WriterAlone
    <3> QED
      BY <2>1, <3>1, <3>2, <3>3, <1>1 DEF Holdings
  <2>2. CASE writer[l] # t
    <3>1. /\ writer' = writer /\ reads' = [reads EXCEPT ![l][t] = @ - 1]
          /\ reads[l][t] \in Nat /\ reads[l][t] >= 1
      BY <2>2, <1>1, HoldingsValue DEF Drop, LocksOwned
    <3>2. /\ reads'[l][t] = reads[l][t] - 1
          /\ \A u \in Threads, k \in LockSet : u # t \/ k # l => reads'[k][u] = reads[k][u]
      BY <3>1 DEF LocksOwned
    <3>3. LocksOwned'
      BY <3>1 DEF LocksOwned
    <3>4. WriterAlone'
      BY <3>1, <3>2 DEF WriterAlone
    <3> QED
      BY <2>2, <3>1, <3>2, <3>3, <3>4 DEF Holdings
  <2> QED
    BY <2>1, <2>2
<1>3. Counted'
  <2>1. /\ Cardinality(Held(t, l)') <= Holdings(t, l)'
        /\ t \notin relocked => Cardinality(Held(t, l)') = Holdings(t, l)'
    <3> DEFINE c == Cardinality(Held(t, l))
               d == Holdings(t, l)
    <3>1. c \in Nat /\ d \in Nat /\ c <= d /\ (t \notin relocked => c = d)
      BY <1>1
    <3>2. Cardinality(Held(t, l)') = c - 1 /\ Holdings(t, l)' = d - 1
      BY <1>1, <1>2
    <3> HIDE DEF c, d
    <3>3. c - 1 <= d - 1 /\ (t \notin relocked => c - 1 = d - 1)
      BY <3>1
    <3> QED
      BY <3>2, <3>3
  <2>2. ASSUME NEW u \in Threads, NEW k \in LockSet, u # t \/ k # l
        PROVE  /\ Cardinality(Held(u, k)') <= Holdings(u, k)'
               /\ u \notin relocked => Cardinality(Held(u, k)') = Holdings(u, k)'
    BY <2>2, <1>2 DEF Counted
  <2> QED
    BY <2>1, <2>2 DEF Counted
<1>4. ModesHeld'
  <2> SUFFICES ASSUME NEW u \in Threads, NEW k \in LockSet, NEW h \in Held(u, k)'
               PROVE  IF Shared(k, guards'[u][h].mode) THEN writer'[k] # u ELSE writer'[k] = u
    BY DEF ModesHeld, Shared
  <2>1. h \in Held(u, k) /\ guards'[u][h].mode = guards[u][h].mode
    <3>1. CASE u = t /\ k = l
      BY <3>1
    <3>2. CASE u # t \/ k # l
      BY <3>2
    <3> QED
      BY <3>1, <3>2
  <2>2. IF Shared(k, guards[u][h].mode) THEN writer[k] # u ELSE writer[k] = u
    BY <2>1 DEF ModesHeld
  <2>3. CASE k # l \/ writer[l] # t
    BY <2>1, <2>2, <2>3, <1>2
  <2>4. CASE k = l /\ writer[l] = t
    <3>1. CASE u = t
      <4>1. h \in Held(t, l) \ {g} /\ Holdings(t, l) = 1
        BY <2>4, <3>1, HoldingsValue
      <4>2. Cardinality(Held(t, l)) <= 1 /\ Cardinality(Held(t, l)') <= 0
        BY <4>1, <1>1
      <4>3. Held(t, l)' = {}
        <5>1. IsFiniteSet(Held(t, l)') /\ Cardinality(Held(t, l)') \in Nat
          BY HeldFinite, FS_RemoveElement, FS_CardinalityType
        <5> QED
          BY <4>2, <5>1, FS_EmptySet
      <4> QED
        BY <2>4, <3>1, <4>3
    <3>2. CASE u # t
      <4>1. Shared(k, guards'[u][h].mode)
        BY <2>1, <2>2, <2>4, <3>2
      <4> QED
        BY <4>1, <2>4, <1>1, <1>2
    <3> QED
      BY <3>1, <3>2
  <2> QED
    BY <2>3, <2>4
<1> QED
  BY <1>2, <1>3, <1>4

----------------------------------------------------------------------------
(* What the steps do to the guards.                                        *)
LockPart == LocksTyped /\ Ownership /\ WaitersWithout /\ IntGuards

(* Only a thread that changes its guards, or waits, changes what it holds. *)
LEMMA HeldUnchanged ==
  ASSUME NEW u \in Threads, guards'[u] = guards[u],
         u \in inWait' => u \in inWait /\ want'[u] = want[u],
         u \in inWait => u \in inWait' /\ want'[u] = want[u]
  PROVE  \A l : Held(u, l)' = Held(u, l)
BY DEF Held, Holding

(* A thread that runs is not inside Wait.                                  *)
LEMMA RunsOutside == ASSUME LocksTyped, NEW t \in Threads, Runs(t) PROVE t \notin inWait
BY DEF LocksTyped, Runs

(* What a thread's guards are.                                            *)
LEMMA GuardsTyped ==
  ASSUME LocksTyped, NEW t \in Threads
  PROVE  /\ guards[t] \in Seq(GuardSet) /\ Len(guards[t]) \in Nat
         /\ DOMAIN guards[t] = 1 .. Len(guards[t])
         /\ \A g \in DOMAIN guards[t] : /\ guards[t][g] \in GuardSet
                                        /\ guards[t][g].lock \in LockSet
                                        /\ guards[t][g].locked \in BOOLEAN
<1>1. guards[t] \in Seq(GuardSet)
  BY DEF LocksTyped
<1>2. \A x \in GuardSet : x.lock \in LockSet /\ x.locked \in BOOLEAN
  BY DEF GuardSet
<1> QED
  BY <1>1, <1>2

(* The constructor: one more guard, which does not hold yet.               *)
LEMMA ConstructStep ==
  ASSUME LockPart, NEW t \in Threads, NEW l \in LockSet, NEW m \in {"R", "W"}, Construct(t, l, m)
  PROVE  LockPart'
<1> USE DEF LockPart
<1> PICK n \in Nat : n = Len(guards[t])
  BY GuardsTyped
<1> DEFINE q == Guard(l, m)
<1>1. /\ guards' = [guards EXCEPT ![t] = Append(guards[t], q)]
      /\ want' = [want EXCEPT ![t] = n + 1]
      /\ UNCHANGED <<inWait, asleep, writer, reads, relocked, i, local, sum>>
      /\ \A g \in DOMAIN guards[t] : guards[t][g].lock # IntLock
      /\ t \notin inWait
  BY RunsOutside DEF Construct
<1>2. q \in GuardSet /\ q.lock = l /\ q.locked = FALSE
  BY DEF Guard, GuardSet
<1> HIDE DEF q
<1>3. guards[t] \in Seq(GuardSet) /\ n \in Nat /\ DOMAIN guards[t] = 1 .. n
  BY GuardsTyped
<1>4. /\ guards'[t] = Append(guards[t], q) /\ want'[t] = n + 1
      /\ \A u \in Threads : u # t => guards'[u] = guards[u] /\ want'[u] = want[u]
  BY <1>1 DEF LocksTyped
<1>5. /\ guards'[t] \in Seq(GuardSet) /\ Len(guards'[t]) = n + 1 /\ DOMAIN guards'[t] = 1 .. n + 1
      /\ guards'[t][n + 1] = q /\ \A g \in 1 .. n : guards'[t][g] = guards[t][g]
  <2> DEFINE s == guards[t]
  <2>1. s \in Seq(GuardSet) /\ Len(s) = n
    BY <1>3
  <2> HIDE DEF s
  <2>2. /\ Append(s, q) \in Seq(GuardSet) /\ Len(Append(s, q)) = n + 1
        /\ DOMAIN Append(s, q) = 1 .. n + 1 /\ Append(s, q)[n + 1] = q
        /\ \A g \in 1 .. n : Append(s, q)[g] = s[g]
    BY <1>2, <2>1
  <2> QED
    BY <2>2, <1>4 DEF s
<1>6. LocksTyped'
  <2>1. guards' \in [Threads -> Seq(GuardSet)]
    BY <1>1, <1>5 DEF LocksTyped
  <2>2. want' \in [Threads -> Nat]
    BY <1>1, <1>3 DEF LocksTyped
  <2>3. \A u \in Threads : want'[u] \in 0 .. Len(guards'[u])
    <3>1. want'[t] \in 0 .. Len(guards'[t])
      BY <1>4, <1>5
    <3> QED
      BY <3>1, <1>4 DEF LocksTyped
  <2> QED
    BY <2>1, <2>2, <2>3, <1>1, <1>4 DEF LocksTyped
<1>7. \A k \in LockSet : Held(t, k)' = Held(t, k)
  <2>1. \A g \in 1 .. n : Holding(t, g)' = Holding(t, g)
    BY <1>1, <1>5 DEF Holding
  <2>2. ~Holding(t, n + 1)'
    BY <1>2, <1>5 DEF Holding
  <2>3. 1 .. n + 1 = 1 .. n \union {n + 1}
    BY <1>3
  <2> QED
    BY <2>1, <2>2, <2>3, <1>3, <1>5 DEF Held
<1>8. \A u \in Threads, k \in LockSet : Held(u, k)' = Held(u, k)
  BY <1>1, <1>4, <1>7, HeldUnchanged
<1>9. Ownership'
  <2>1. \A u \in Threads, k \in LockSet : \A g \in Held(u, k) : guards'[u][g].mode = guards[u][g].mode
    BY <1>3, <1>4, <1>5 DEF Held
  <2> QED
    BY <1>1, <1>8, <2>1, QuietOwnership
<1>10. WaitersWithout'
  <2>1. ~Holding(t, n + 1)'
    BY <1>2, <1>5 DEF Holding
  <2> QED
    BY <2>1, <1>1, <1>4 DEF WaitersWithout, Holding
<1>11. IntGuards'
  <2>1. ASSUME NEW g \in DOMAIN guards'[t], guards'[t][g].lock = IntLock PROVE g = n + 1
    BY <2>1, <1>1, <1>3, <1>5
  <2>2. \A u \in Threads : u # t => \A g \in DOMAIN guards'[u] :
           guards'[u][g].lock = IntLock => /\ g = Len(guards'[u])
                                           /\ guards'[u][g].locked \/ want'[u] = g
                                           /\ u \in inWait' => want'[u] # g
    BY <1>1, <1>4 DEF IntGuards
  <2> QED
    BY <2>1, <2>2, <1>1, <1>4, <1>5 DEF IntGuards
<1> QED
  BY <1>6, <1>9, <1>10, <1>11

(* Lock of a guard in scope: a guard that holds counts as locked twice.    *)
LEMMA LockAgainStep ==
  ASSUME LockPart, NEW t \in Threads, NEW g, LockAgain(t, g)
  PROVE  LockPart'
<1> USE DEF LockPart
<1>1. /\ g \in DOMAIN guards[t] /\ guards[t][g].lock # IntLock
      /\ want' = [want EXCEPT ![t] = g]
      /\ relocked' = IF guards[t][g].locked THEN relocked \union {t} ELSE relocked
      /\ UNCHANGED <<guards, inWait, asleep, writer, reads, i, local, sum>>
      /\ t \notin inWait
  BY RunsOutside DEF LockAgain
<1>2. g \in 1 .. Len(guards[t]) /\ g \in Nat
  BY <1>1, GuardsTyped
<1>3. want'[t] = g /\ \A u \in Threads : u # t => want'[u] = want[u]
  BY <1>1 DEF LocksTyped
<1>4. LocksTyped'
  BY <1>1, <1>2, <1>3 DEF LocksTyped
<1>5. \A u \in Threads, k \in LockSet : Held(u, k)' = Held(u, k)
  BY <1>1, <1>3, HeldUnchanged
<1>6. Ownership'
  BY <1>1, <1>5, QuietOwnership
<1>7. WaitersWithout'
  BY <1>1, <1>3 DEF WaitersWithout, Holding
<1>8. IntGuards'
  <2>1. \A h \in DOMAIN guards[t] : guards[t][h].lock = IntLock =>
           h = Len(guards[t]) /\ guards[t][h].locked /\ h # g
    BY <1>1, GuardsTyped DEF IntGuards, LockAgain, Runs
  <2> QED
    BY <2>1, <1>1, <1>3 DEF IntGuards
<1> QED
  BY <1>4, <1>6, <1>7, <1>8

(* Lock returns: one more guard of the thread holds.                       *)
LEMMA GrantedStep ==
  ASSUME LockPart, NEW t \in Threads, Granted(t)
  PROVE  LockPart'
<1> USE DEF LockPart
<1> PICK g \in Nat : g = want[t]
  BY DEF LocksTyped
<1> PICK l \in LockSet : l = guards[t][g].lock
  BY GuardsTyped DEF LocksTyped, Granted
<1> PICK m : m = guards[t][g].mode
  OBVIOUS
<1>1. /\ g # 0 /\ g \in DOMAIN guards[t] /\ t \notin asleep
      /\ Free(l, m) /\ Take(t, l, m)
      /\ guards' = [guards EXCEPT ![t] = [guards[t] EXCEPT ![g] = [guards[t][g] EXCEPT !.locked = TRUE]]]
      /\ want' = [want EXCEPT ![t] = 0] /\ inWait' = inWait \ {t}
      /\ UNCHANGED <<asleep, relocked, i, local, sum>>
  BY GuardsTyped DEF Granted, LocksTyped
<1>2. guards[t] \in Seq(GuardSet) /\ guards[t][g] \in GuardSet
  BY <1>1, GuardsTyped
<1>3. /\ want'[t] = 0
      /\ \A u \in Threads : u # t => guards'[u] = guards[u] /\ want'[u] = want[u]
      /\ guards'[t] = [guards[t] EXCEPT ![g] = [guards[t][g] EXCEPT !.locked = TRUE]]
  BY <1>1 DEF LocksTyped
<1>4. /\ guards'[t] \in Seq(GuardSet) /\ Len(guards'[t]) = Len(guards[t])
      /\ DOMAIN guards'[t] = DOMAIN guards[t]
      /\ guards'[t][g].locked = TRUE /\ guards'[t][g].lock = l /\ guards'[t][g].mode = m
      /\ \A h \in DOMAIN guards[t] : h # g => guards'[t][h] = guards[t][h]
  <2> DEFINE q == [guards[t][g] EXCEPT !.locked = TRUE]
  <2>1. q \in GuardSet /\ q.locked = TRUE /\ q.lock = l /\ q.mode = m
    BY <1>2 DEF GuardSet
  <2> HIDE DEF q
  <2>2. guards'[t] = [guards[t] EXCEPT ![g] = q]
    BY <1>3 DEF q
  <2> QED
    BY <2>1, <2>2, <1>1, <1>2
<1>5. LocksTyped'
  <2>1. guards' \in [Threads -> Seq(GuardSet)]
    BY <1>1, <1>3, <1>4 DEF LocksTyped
  <2>2. \A u \in Threads : want'[u] \in 0 .. Len(guards'[u])
    <3>1. want'[t] \in 0 .. Len(guards'[t])
      <4>1. Len(guards[t]) \in Nat
        BY GuardsTyped
      <4> QED
        BY <4>1, <1>3, <1>4
    <3> QED
      BY <3>1, <1>3 DEF LocksTyped
  <2> QED
    BY <2>1, <2>2, <1>1, <1>3 DEF LocksTyped
<1>6. Held(t, l)' = Held(t, l) \union {g}
  <2>1. \A h \in DOMAIN guards[t] : h # g => (Holding(t, h)' <=> Holding(t, h))
    BY <1>1, <1>4 DEF Holding
  <2>2. Holding(t, g)'
    BY <1>1, <1>4 DEF Holding
  <2> QED
    BY <2>1, <2>2, <1>1, <1>4 DEF Held
<1>7. \A k \in LockSet : k # l => Held(t, k)' = Held(t, k)
  <2>1. \A h \in DOMAIN guards[t] : h # g => (Holding(t, h)' <=> Holding(t, h))
    BY <1>1, <1>4 DEF Holding
  <2> QED
    BY <2>1, <1>1, <1>4 DEF Held
<1>8. \A u \in Threads, k \in LockSet : u # t \/ k # l => Held(u, k)' = Held(u, k)
  <2>1. \A u \in Threads, k \in LockSet : u # t => Held(u, k)' = Held(u, k)
    BY <1>1, <1>3, HeldUnchanged
  <2> QED
    BY <2>1, <1>7
<1>9. Ownership'
  <2>1. t \notin relocked => g \notin Held(t, l)
    BY <1>1 DEF WaitersWithout, Held
  <2>2. \A u \in Threads, k \in LockSet : \A h \in Held(u, k) : guards'[u][h].mode = guards[u][h].mode
    BY <1>3, <1>4 DEF Held
  <2>3. /\ Free(l, m) /\ Take(t, l, m) /\ relocked' = relocked
        /\ guards'[t][g].mode = m /\ LocksTyped /\ Ownership
    BY <1>1, <1>4
  <2> QED
    BY <2>1, <2>2, <2>3, <1>5, <1>6, <1>8, TakeOwnership
<1>10. WaitersWithout'
  BY <1>1, <1>3 DEF WaitersWithout, Holding
<1>11. IntGuards'
  <2>1. ASSUME NEW h \in DOMAIN guards'[t], guards'[t][h].lock = IntLock
        PROVE  h = Len(guards'[t]) /\ guards'[t][h].locked
    <3>1. h \in DOMAIN guards[t] /\ guards[t][h].lock = IntLock
      BY <2>1, <1>4
    <3>2. h = Len(guards[t]) /\ (guards[t][h].locked \/ h = g)
      BY <3>1 DEF IntGuards
    <3> QED
      BY <3>1, <3>2, <1>4
  <2> QED
    BY <2>1, <1>1, <1>3 DEF IntGuards
<1> QED
  BY <1>5, <1>9, <1>10, <1>11

(* A guard of a running thread is unlocked: it holds no longer.            *)
LEMMA UnlockStep ==
  ASSUME LockPart, NEW t \in Threads, NEW g, Unlock(t, g)
  PROVE  LockPart'
<1> USE DEF LockPart
<1> PICK l \in LockSet : l = guards[t][g].lock
  BY GuardsTyped DEF Unlock
<1>1. /\ g \in DOMAIN guards[t] /\ guards[t][g].locked /\ l # IntLock /\ want[t] = 0 /\ t \notin inWait
      /\ Drop(t, l) /\ g \in Nat /\ g # 0
      /\ guards' = [guards EXCEPT ![t] = [guards[t] EXCEPT ![g] = [guards[t][g] EXCEPT !.locked = FALSE]]]
      /\ UNCHANGED <<want, inWait, asleep, relocked, i, local, sum>>
  BY RunsOutside, GuardsTyped DEF Unlock, LocksTyped, Runs
<1>2. guards[t] \in Seq(GuardSet) /\ guards[t][g] \in GuardSet
  BY <1>1, GuardsTyped
<1>3. /\ \A u \in Threads : u # t => guards'[u] = guards[u]
      /\ guards'[t] = [guards[t] EXCEPT ![g] = [guards[t][g] EXCEPT !.locked = FALSE]]
  BY <1>1 DEF LocksTyped
<1>4. /\ guards'[t] \in Seq(GuardSet) /\ Len(guards'[t]) = Len(guards[t])
      /\ DOMAIN guards'[t] = DOMAIN guards[t]
      /\ guards'[t][g].locked = FALSE /\ guards'[t][g].lock = l
      /\ guards'[t][g].mode = guards[t][g].mode
      /\ \A h \in DOMAIN guards[t] : h # g => guards'[t][h] = guards[t][h]
  <2> DEFINE q == [guards[t][g] EXCEPT !.locked = FALSE]
  <2>1. q \in GuardSet /\ q.locked = FALSE /\ q.lock = l /\ q.mode = guards[t][g].mode
    BY <1>2 DEF GuardSet
  <2> HIDE DEF q
  <2>2. guards'[t] = [guards[t] EXCEPT ![g] = q]
    BY <1>3 DEF q
  <2> QED
    BY <2>1, <2>2, <1>1, <1>2
<1>5. LocksTyped'
  <2>1. guards' \in [Threads -> Seq(GuardSet)]
    BY <1>1, <1>3, <1>4 DEF LocksTyped
  <2>2. \A u \in Threads : want'[u] \in 0 .. Len(guards'[u])
    BY <1>1, <1>3, <1>4 DEF LocksTyped
  <2> QED
    BY <2>1, <2>2, <1>1, <1>3 DEF LocksTyped
<1>6. \A h \in DOMAIN guards[t] : h # g => (Holding(t, h)' <=> Holding(t, h))
  BY <1>1, <1>4 DEF Holding
<1>7. ~Holding(t, g)' /\ Holding(t, g)
  BY <1>1, <1>4 DEF Holding
<1>8. g \in Held(t, l) /\ Held(t, l)' = Held(t, l) \ {g}
  BY <1>1, <1>4, <1>6, <1>7 DEF Held
<1>9. \A u \in Threads, k \in LockSet : u # t \/ k # l => Held(u, k)' = Held(u, k)
  <2>1. \A u \in Threads, k \in LockSet : u # t => Held(u, k)' = Held(u, k)
    BY <1>1, <1>3, HeldUnchanged
  <2>2. \A k \in LockSet : k # l => Held(t, k)' = Held(t, k)
    BY <1>1, <1>4, <1>6 DEF Held
  <2> QED
    BY <2>1, <2>2
<1>10. Ownership'
  <2>1. \A u \in Threads, k \in LockSet : \A h \in Held(u, k)' : guards'[u][h].mode = guards[u][h].mode
    BY <1>3, <1>4 DEF Held
  <2> QED
    BY <2>1, <1>1, <1>8, <1>9, DropOwnership
<1>11. WaitersWithout'
  BY <1>1, <1>3 DEF WaitersWithout, Holding
<1>12. IntGuards'
  <2>1. ASSUME NEW h \in DOMAIN guards'[t], guards'[t][h].lock = IntLock
        PROVE  h = Len(guards'[t]) /\ guards'[t][h].locked
    <3>1. h \in DOMAIN guards[t] /\ guards[t][h].lock = IntLock /\ h # g /\ guards'[t][h] = guards[t][h]
      BY <2>1, <1>1, <1>4
    <3>2. h = Len(guards[t]) /\ guards[t][h].locked
      BY <3>1, <1>1, GuardsTyped DEF IntGuards
    <3> QED
      BY <3>1, <3>2, <1>4
  <2> QED
    BY <2>1, <1>1, <1>3 DEF IntGuards
<1> QED
  BY <1>5, <1>10, <1>11, <1>12

(* The destructor: the innermost guard goes, and with it what it held.     *)
LEMMA DestructStep ==
  ASSUME LockPart, NEW t \in Threads, Destruct(t)
  PROVE  LockPart'
<1> USE DEF LockPart
<1> PICK n \in Nat : n = Len(guards[t])
  BY GuardsTyped
<1>1. /\ n >= 1 /\ n \in DOMAIN guards[t] /\ want[t] = 0 /\ t \notin inWait
      /\ guards' = [guards EXCEPT ![t] = SubSeq(guards[t], 1, n - 1)]
      /\ UNCHANGED <<want, inWait, asleep, relocked, i, local, sum>>
      /\ IF guards[t][n].locked THEN Drop(t, guards[t][n].lock) ELSE UNCHANGED <<writer, reads>>
  <2>1. guards[t] # <<>> => n >= 1
    BY GuardsTyped
  <2> QED
    BY <2>1, RunsOutside, GuardsTyped DEF Destruct, Runs, Innermost, Front
<1> PICK l \in LockSet : l = guards[t][n].lock
  BY <1>1, GuardsTyped
<1>2. guards[t] \in Seq(GuardSet) /\ DOMAIN guards[t] = 1 .. n
  BY GuardsTyped
<1>3. /\ \A u \in Threads : u # t => guards'[u] = guards[u]
      /\ guards'[t] = SubSeq(guards[t], 1, n - 1)
  BY <1>1 DEF LocksTyped
<1>4. /\ guards'[t] \in Seq(GuardSet) /\ Len(guards'[t]) = n - 1
      /\ DOMAIN guards'[t] = 1 .. n - 1
      /\ \A h \in 1 .. n - 1 : guards'[t][h] = guards[t][h]
  BY <1>1, <1>2, <1>3
<1>5. LocksTyped'
  <2>1. guards' \in [Threads -> Seq(GuardSet)]
    BY <1>1, <1>3, <1>4 DEF LocksTyped
  <2>2. \A u \in Threads : want'[u] \in 0 .. Len(guards'[u])
    BY <1>1, <1>3, <1>4 DEF LocksTyped
  <2> QED
    BY <2>1, <2>2, <1>1, <1>3 DEF LocksTyped
<1>6. \A h \in 1 .. n - 1 : Holding(t, h)' <=> Holding(t, h)
  BY <1>1, <1>4 DEF Holding
<1>7. Holding(t, n) <=> guards[t][n].locked
  BY <1>1 DEF Holding
<1>8. 1 .. n - 1 = (1 .. n) \ {n}
  BY <1>1
<1>9. \A k \in LockSet : Held(t, k)' = Held(t, k) \ {n}
  BY <1>2, <1>4, <1>6, <1>8 DEF Held
<1>10. \A u \in Threads, k \in LockSet : u # t => Held(u, k)' = Held(u, k)
  BY <1>1, <1>3, HeldUnchanged
<1>11. \A u \in Threads, k \in LockSet : \A h \in Held(u, k)' : guards'[u][h].mode = guards[u][h].mode
  BY <1>3, <1>4 DEF Held
<1>12. Ownership'
  <2>1. CASE guards[t][n].locked
    <3>1. n \in Held(t, l)
      BY <2>1, <1>1, <1>7 DEF Held
    <3>2. \A k \in LockSet : k # l => Held(t, k)' = Held(t, k)
      BY <1>9 DEF Held
    <3>3. \A u \in Threads, k \in LockSet : u # t \/ k # l => Held(u, k)' = Held(u, k)
      BY <3>2, <1>10
    <3>4. Held(t, l)' = Held(t, l) \ {n} /\ Drop(t, l)
      BY <2>1, <1>1, <1>9
    <3> QED
      BY <3>1, <3>3, <3>4, <1>1, <1>11, DropOwnership, ZenonT(40)
  <2>2. CASE ~guards[t][n].locked
    <3>1. \A k \in LockSet : Held(t, k)' = Held(t, k)
      BY <2>2, <1>7, <1>9 DEF Held
    <3>2. \A u \in Threads, k \in LockSet : Held(u, k)' = Held(u, k)
      BY <3>1, <1>10
    <3> QED
      BY <2>2, <3>2, <1>1, <1>11, QuietOwnership, ZenonT(40)
  <2> QED
    BY <2>1, <2>2
<1>13. WaitersWithout'
  BY <1>1, <1>3 DEF WaitersWithout, Holding
<1>14. IntGuards'
  <2>1. ASSUME NEW h \in DOMAIN guards'[t] PROVE guards'[t][h].lock # IntLock
    <3>1. h \in DOMAIN guards[t] /\ h # n /\ guards'[t][h] = guards[t][h]
      BY <1>2, <1>4
    <3> QED
      BY <3>1 DEF IntGuards
  <2> QED
    BY <2>1, <1>1, <1>3 DEF IntGuards
<1> QED
  BY <1>5, <1>12, <1>13, <1>14

(* Wait gives the mutex back while its guard says locked.                  *)
LEMMA WaitStep ==
  ASSUME LockPart, NEW t \in Threads, NEW g, Wait(t, g)
  PROVE  LockPart'
<1> USE DEF LockPart
<1> PICK l \in LockSet : l = guards[t][g].lock
  BY GuardsTyped DEF Wait
<1>1. /\ g \in DOMAIN guards[t] /\ guards[t][g].locked /\ l # IntLock /\ want[t] = 0 /\ t \notin inWait
      /\ Drop(t, l) /\ g \in 1 .. Len(guards[t]) /\ g \in Nat /\ g # 0
      /\ want' = [want EXCEPT ![t] = g]
      /\ inWait' = inWait \union {t} /\ asleep' = asleep \union {t}
      /\ UNCHANGED <<guards, relocked, i, local, sum>>
  BY RunsOutside, GuardsTyped DEF Wait, Runs
<1>2. want'[t] = g /\ \A u \in Threads : u # t => want'[u] = want[u]
  BY <1>1 DEF LocksTyped
<1>3. LocksTyped'
  BY <1>1, <1>2 DEF LocksTyped
<1>4. \A h \in DOMAIN guards[t] : h # g => (Holding(t, h)' <=> Holding(t, h))
  BY <1>1, <1>2 DEF Holding
<1>5. ~Holding(t, g)' /\ Holding(t, g)
  BY <1>1, <1>2 DEF Holding
<1>6. g \in Held(t, l) /\ Held(t, l)' = Held(t, l) \ {g}
  BY <1>1, <1>4, <1>5 DEF Held
<1>7. \A u \in Threads, k \in LockSet : u # t \/ k # l => Held(u, k)' = Held(u, k)
  <2>1. \A u \in Threads, k \in LockSet : u # t => Held(u, k)' = Held(u, k)
    BY <1>1, <1>2, HeldUnchanged
  <2>2. \A k \in LockSet : k # l => Held(t, k)' = Held(t, k)
    BY <1>1, <1>4 DEF Held
  <2> QED
    BY <2>1, <2>2
<1>8. Ownership'
  BY <1>1, <1>6, <1>7, DropOwnership
<1>9. WaitersWithout'
  BY <1>1, <1>2, <1>5 DEF WaitersWithout, Holding
<1>10. IntGuards'
  <2>1. \A h \in DOMAIN guards[t] : guards[t][h].lock = IntLock =>
           h = Len(guards[t]) /\ guards[t][h].locked /\ h # g
    BY <1>1, GuardsTyped DEF IntGuards
  <2> QED
    BY <2>1, <1>1, <1>2 DEF IntGuards
<1> QED
  BY <1>3, <1>8, <1>9, <1>10

(* Steps that leave the guards alone: a signal, the methods of SharedInt.  *)
LEMMA OtherStep ==
  ASSUME LockPart, UNCHANGED <<guards, want, inWait, writer, reads, relocked>>,
         asleep' \subseteq asleep, local' \in [Threads -> Int], i' \in Int
  PROVE  LockPart'
<1> USE DEF LockPart
<1>1. LocksTyped'
  BY DEF LocksTyped
<1>2. \A u \in Threads, k \in LockSet : Held(u, k)' = Held(u, k)
  BY DEF Held, Holding
<1>3. Ownership'
  BY <1>2, QuietOwnership
<1> QED
  BY <1>1, <1>3 DEF WaitersWithout, Holding, IntGuards

(* Every step of a thread keeps the counts.                                *)
LEMMA LockPartInductive == LockPart /\ [Next]_vars => LockPart'
<1> SUFFICES ASSUME LockPart, [Next]_vars PROVE LockPart'
  OBVIOUS
<1>1. local \in [Threads -> Int] /\ i \in Int
  BY DEF LockPart, LocksTyped
<1>2. CASE UNCHANGED vars
  BY <1>1, <1>2, OtherStep DEF vars
<1>3. CASE Signal
  BY <1>1, <1>3, OtherStep DEF Signal, WakeUp, SignalAll
<1>4. ASSUME NEW t \in Threads, \E v \in 0 .. MaxInt : Set(t, v) PROVE LockPart'
  BY <1>1, <1>4, OtherStep DEF Set
<1>5. ASSUME NEW t \in Threads, IncrementReads(t) \/ IncrementWrites(t) PROVE LockPart'
  BY <1>1, <1>5, OtherStep DEF IncrementReads, IncrementWrites
<1> QED
  BY <1>2, <1>3, <1>4, <1>5, ConstructStep, LockAgainStep, GrantedStep, UnlockStep, DestructStep,
     WaitStep DEF Next

----------------------------------------------------------------------------
(* Two guards that hold one lock only read it.                             *)
LEMMA HoldersExclude == LockPart => Exclusion
<1> SUFFICES ASSUME LockPart, NEW s \in Threads, NEW t \in Threads, s # t,
                    NEW g \in DOMAIN guards[s], NEW h \in DOMAIN guards[t],
                    guards[s][g].lock = guards[t][h].lock, Holding(s, g), Holding(t, h)
             PROVE  /\ Shared(guards[s][g].lock, guards[s][g].mode)
                    /\ Shared(guards[t][h].lock, guards[t][h].mode)
  BY DEF Exclusion
<1> USE DEF LockPart, Ownership
<1> PICK l \in LockSet : l = guards[s][g].lock
  BY GuardsTyped
<1>1. g \in Held(s, l) /\ h \in Held(t, l)
  BY DEF Held
<1>2. /\ IF Shared(l, guards[s][g].mode) THEN writer[l] # s ELSE writer[l] = s
      /\ IF Shared(l, guards[t][h].mode) THEN writer[l] # t ELSE writer[l] = t
  BY <1>1 DEF ModesHeld
<1>3. Holdings(s, l) >= 1 /\ Holdings(t, l) >= 1
  <2>1. /\ Cardinality(Held(s, l)) >= 1 /\ Cardinality(Held(s, l)) \in Nat
        /\ Cardinality(Held(t, l)) >= 1 /\ Cardinality(Held(t, l)) \in Nat
    BY <1>1, HeldFinite
  <2>2. /\ Cardinality(Held(s, l)) <= Holdings(s, l) /\ Holdings(s, l) \in Nat
        /\ Cardinality(Held(t, l)) <= Holdings(t, l) /\ Holdings(t, l) \in Nat
    BY HoldingsValue DEF Counted
  <2> QED
    BY <2>1, <2>2
<1>4. writer[l] # s /\ writer[l] # t
  BY <1>3, HoldingsValue, KindAssumption DEF WriterAlone
<1> QED
  BY <1>2, <1>4

(* Inside a method of SharedInt the thread holds its mutex, alone.         *)
LEMMA OneMethod ==
  ASSUME LockPart, NEW s \in Threads, NEW t \in Threads, InMethod(s), InMethod(t)
  PROVE  s = t
<1> USE DEF LockPart
<1>1. ASSUME NEW u \in Threads, InMethod(u)
      PROVE  /\ Len(guards[u]) \in DOMAIN guards[u]
             /\ guards[u][Len(guards[u])].lock = IntLock /\ Holding(u, Len(guards[u]))
  <2>1. guards[u] # <<>> /\ guards[u][Len(guards[u])].lock = IntLock /\ want[u] = 0
    BY <1>1 DEF InMethod, Innermost, Runs
  <2>2. Len(guards[u]) \in DOMAIN guards[u] /\ Len(guards[u]) # 0
    BY <2>1, GuardsTyped
  <2> QED
    BY <2>1, <2>2 DEF IntGuards, Holding
<1>2. ~Shared(IntLock, guards[s][Len(guards[s])].mode)
  BY KindAssumption DEF Shared
<1> QED
  BY <1>1, <1>2, HoldersExclude DEF Exclusion

(* While one thread increments, no other is in a method, and its own       *)
(* guards stay as they are.                                                *)
LEMMA IncrementUndisturbed ==
  ASSUME LocksInv, [Next]_vars
  PROVE  ReadsCurrent' /\ NoLostUpdate'
<1> USE DEF LocksInv, LockPart
<1>1. LocksTyped /\ LockPart
  OBVIOUS
<1>2. ASSUME UNCHANGED <<i, local, sum>>,
             \A u \in Threads : local[u] # -1 => guards'[u] = guards[u] /\ want'[u] = want[u]
      PROVE  ReadsCurrent' /\ NoLostUpdate'
  BY <1>2 DEF ReadsCurrent, NoLostUpdate, InMethod, Runs, Innermost
<1>3. CASE UNCHANGED vars \/ Signal
  BY <1>2, <1>3 DEF vars, Signal
<1>4. ASSUME NEW t \in Threads,
             \/ \E l \in LockSet, m \in {"R", "W"} : Construct(t, l, m)
             \/ \E g \in 1 .. MaxGuards : LockAgain(t, g) \/ Unlock(t, g) \/ Wait(t, g)
             \/ Granted(t) \/ Destruct(t)
      PROVE  ReadsCurrent' /\ NoLostUpdate'
  <2>1. /\ UNCHANGED <<i, local, sum>>
        /\ \A u \in Threads : u # t => guards'[u] = guards[u] /\ want'[u] = want[u]
    BY <1>1, <1>4 DEF Construct, LockAgain, Unlock, Wait, Granted, Destruct, LocksTyped
  <2>2. local[t] = -1
    BY <1>4 DEF Construct, LockAgain, Unlock, Wait, Granted, Destruct, ReadsCurrent, InMethod, Runs
  <2> QED
    BY <1>2, <2>1, <2>2
<1>5. ASSUME NEW t \in Threads, NEW v \in 0 .. MaxInt, Set(t, v)
      PROVE  ReadsCurrent' /\ NoLostUpdate'
  <2>1. \A u \in Threads : local[u] = -1
    BY <1>1, <1>5, OneMethod DEF ReadsCurrent, Set
  <2> QED
    BY <1>5, <2>1 DEF Set, ReadsCurrent, NoLostUpdate
<1>6. ASSUME NEW t \in Threads, IncrementReads(t)
      PROVE  ReadsCurrent' /\ NoLostUpdate'
  <2>1. local'[t] = i /\ \A u \in Threads : u # t => local'[u] = local[u]
    BY <1>1, <1>6 DEF IncrementReads, LocksTyped
  <2> QED
    BY <1>6, <2>1 DEF IncrementReads, ReadsCurrent, NoLostUpdate, InMethod, Runs, Innermost
<1>7. ASSUME NEW t \in Threads, IncrementWrites(t)
      PROVE  ReadsCurrent' /\ NoLostUpdate'
  <2>1. local'[t] = -1 /\ \A u \in Threads : u # t => local'[u] = local[u]
    BY <1>1, <1>7 DEF IncrementWrites, LocksTyped
  <2>2. \A u \in Threads : u # t => local[u] = -1
    BY <1>1, <1>7, OneMethod DEF ReadsCurrent, IncrementWrites
  <2>3. local[t] = i
    BY <1>7 DEF ReadsCurrent, IncrementWrites
  <2> QED
    BY <1>7, <2>1, <2>2, <2>3 DEF IncrementWrites, ReadsCurrent, NoLostUpdate
<1> QED
  BY <1>3, <1>4, <1>5, <1>6, <1>7 DEF Next

(* At the start nothing is held.                                           *)
LEMMA LocksInit == Init => LocksInv
<1> SUFFICES ASSUME Init PROVE LocksInv
  OBVIOUS
<1>1. \A t \in Threads : guards[t] = <<>> /\ want[t] = 0 /\ DOMAIN guards[t] = {}
  BY DEF Init
<1>2. LocksTyped
  BY <1>1 DEF Init, LocksTyped
<1>3. LocksOwned
  BY DEF Init, LocksOwned
<1>4. \A t \in Threads, l \in LockSet : Held(t, l) = {} /\ Holdings(t, l) = 0
  BY <1>1, KindAssumption DEF Init, Held, Holdings
<1>5. Ownership
  <2>1. Counted
    <3>1. Cardinality({}) = 0
      BY FS_EmptySet
    <3> QED
      BY <3>1, <1>4 DEF Counted
  <2>2. WriterAlone
    BY DEF Init, WriterAlone
  <2>3. ModesHeld
    BY <1>4 DEF ModesHeld
  <2> QED
    BY <2>1, <2>2, <2>3, <1>3 DEF Ownership
<1>6. WaitersWithout /\ IntGuards
  <2>1. WaitersWithout
    BY <1>1 DEF WaitersWithout
  <2>2. IntGuards
    BY <1>1 DEF IntGuards
  <2> QED
    BY <2>1, <2>2
<1>7. ReadsCurrent /\ NoLostUpdate
  <2>1. \A t \in Threads : local[t] = -1
    BY DEF Init
  <2> QED
    BY <2>1 DEF Init, ReadsCurrent, NoLostUpdate
<1> QED
  BY <1>2, <1>5, <1>6, <1>7 DEF LocksInv

(* So the counts agree with the guards in every state.                     *)
LEMMA LocksInvHolds == Spec => []LocksInv
<1>1. LocksInv /\ [Next]_vars => LocksInv'
  BY LockPartInductive, IncrementUndisturbed DEF LocksInv, LockPart
<1> QED
  BY <1>1, LocksInit, PTL DEF Spec

(* Whatever threads do with however many guards, a lock of common/lock.h   *)
(* is held by two of them only to read it.                                 *)
THEOREM GuardsExclude == Spec => []Exclusion
<1>1. LocksInv => Exclusion
  BY HoldersExclude DEF LocksInv, LockPart
<1> QED
  BY <1>1, LocksInvHolds, PTL

(* A thread that locks no guard twice holds what its guards say, and gives *)
(* back everything with them.                                              *)
THEOREM LocksGivenBack == Spec => []HeldByGuards
<1>1. LocksInv => HeldByGuards
  BY DEF LocksInv, Ownership, Counted, HeldByGuards, Held
<1> QED
  BY <1>1, LocksInvHolds, PTL

(* No increment of a SharedInt is lost, for any number of threads.         *)
THEOREM IncrementsKept == Spec => []NoLostUpdate
<1>1. LocksInv => NoLostUpdate
  BY DEF LocksInv
<1> QED
  BY <1>1, LocksInvHolds, PTL

----------------------------------------------------------------------------
(* Bytes and their exclusive or *)

(* A byte is the sum of its bits, and bits give a byte that has them.      *)
LEMMA SumOfBits ==
  ASSUME NEW a \in Byte
  PROVE  a = Bit(a, 1) + 2 * Bit(a, 2) + 4 * Bit(a, 4) + 8 * Bit(a, 8)
             + 16 * Bit(a, 16) + 32 * Bit(a, 32) + 64 * Bit(a, 64) + 128 * Bit(a, 128)
BY DEF Bit, Byte

Places == {1, 2, 4, 8, 16, 32, 64, 128}

LEMMA BitsOfSum ==
  ASSUME NEW b0 \in {0, 1}, NEW b1 \in {0, 1}, NEW b2 \in {0, 1}, NEW b3 \in {0, 1},
         NEW b4 \in {0, 1}, NEW b5 \in {0, 1}, NEW b6 \in {0, 1}, NEW b7 \in {0, 1},
         NEW n, n = b0 + 2 * b1 + 4 * b2 + 8 * b3 + 16 * b4 + 32 * b5 + 64 * b6 + 128 * b7
  PROVE  /\ n \in Byte /\ Bit(n, 1) = b0 /\ Bit(n, 2) = b1 /\ Bit(n, 4) = b2
         /\ Bit(n, 8) = b3 /\ Bit(n, 16) = b4 /\ Bit(n, 32) = b5
         /\ Bit(n, 64) = b6 /\ Bit(n, 128) = b7
<1>0. n \in Byte
  BY DEF Byte
<1>1. Bit(n, 1) = b0
  <2>1. PICK low \in Int : low = 0
    OBVIOUS
  <2>2. PICK high \in Int : high = b1 + 2 * b2 + 4 * b3 + 8 * b4 + 16 * b5 + 32 * b6 + 64 * b7
    OBVIOUS
  <2>3. n = low + 1 * (b0 + 2 * high) /\ 0 <= low /\ low < 1
    BY <2>1, <2>2
  <2>4. n \div 1 = b0 + 2 * high
    BY <2>3
  <2> QED BY <2>3, <2>4 DEF Bit
<1>2. Bit(n, 2) = b1
  <2>1. PICK low \in Int : low = b0
    OBVIOUS
  <2>2. PICK high \in Int : high = b2 + 2 * b3 + 4 * b4 + 8 * b5 + 16 * b6 + 32 * b7
    OBVIOUS
  <2>3. n = low + 2 * (b1 + 2 * high) /\ 0 <= low /\ low < 2
    BY <2>1, <2>2
  <2>4. n \div 2 = b1 + 2 * high
    BY <2>3
  <2> QED BY <2>3, <2>4 DEF Bit
<1>3. Bit(n, 4) = b2
  <2>1. PICK low \in Int : low = b0 + 2 * b1
    OBVIOUS
  <2>2. PICK high \in Int : high = b3 + 2 * b4 + 4 * b5 + 8 * b6 + 16 * b7
    OBVIOUS
  <2>3. n = low + 4 * (b2 + 2 * high) /\ 0 <= low /\ low < 4
    BY <2>1, <2>2
  <2>4. n \div 4 = b2 + 2 * high
    BY <2>3
  <2> QED BY <2>3, <2>4 DEF Bit
<1>4. Bit(n, 8) = b3
  <2>1. PICK low \in Int : low = b0 + 2 * b1 + 4 * b2
    OBVIOUS
  <2>2. PICK high \in Int : high = b4 + 2 * b5 + 4 * b6 + 8 * b7
    OBVIOUS
  <2>3. n = low + 8 * (b3 + 2 * high) /\ 0 <= low /\ low < 8
    BY <2>1, <2>2
  <2>4. n \div 8 = b3 + 2 * high
    BY <2>3
  <2> QED BY <2>3, <2>4 DEF Bit
<1>5. Bit(n, 16) = b4
  <2>1. PICK low \in Int : low = b0 + 2 * b1 + 4 * b2 + 8 * b3
    OBVIOUS
  <2>2. PICK high \in Int : high = b5 + 2 * b6 + 4 * b7
    OBVIOUS
  <2>3. n = low + 16 * (b4 + 2 * high) /\ 0 <= low /\ low < 16
    BY <2>1, <2>2
  <2>4. n \div 16 = b4 + 2 * high
    BY <2>3
  <2> QED BY <2>3, <2>4 DEF Bit
<1>6. Bit(n, 32) = b5
  <2>1. PICK low \in Int : low = b0 + 2 * b1 + 4 * b2 + 8 * b3 + 16 * b4
    OBVIOUS
  <2>2. PICK high \in Int : high = b6 + 2 * b7
    OBVIOUS
  <2>3. n = low + 32 * (b5 + 2 * high) /\ 0 <= low /\ low < 32
    BY <2>1, <2>2
  <2>4. n \div 32 = b5 + 2 * high
    BY <2>3
  <2> QED BY <2>3, <2>4 DEF Bit
<1>7. Bit(n, 64) = b6
  <2>1. PICK low \in Int : low = b0 + 2 * b1 + 4 * b2 + 8 * b3 + 16 * b4 + 32 * b5
    OBVIOUS
  <2>2. PICK high \in Int : high = b7
    OBVIOUS
  <2>3. n = low + 64 * (b6 + 2 * high) /\ 0 <= low /\ low < 64
    BY <2>1, <2>2
  <2>4. n \div 64 = b6 + 2 * high
    BY <2>3
  <2> QED BY <2>3, <2>4 DEF Bit
<1>8. Bit(n, 128) = b7
  <2>1. PICK low \in Int : low = b0 + 2 * b1 + 4 * b2 + 8 * b3 + 16 * b4 + 32 * b5 + 64 * b6
    OBVIOUS
  <2>2. PICK high \in Int : high = 0
    OBVIOUS
  <2>3. n = low + 128 * (b7 + 2 * high) /\ 0 <= low /\ low < 128
    BY <2>1, <2>2
  <2>4. n \div 128 = b7 + 2 * high
    BY <2>3
  <2> QED BY <2>3, <2>4 DEF Bit
<1> QED BY <1>0, <1>1, <1>2, <1>3, <1>4, <1>5, <1>6, <1>7, <1>8

(* Xor takes the exclusive or of each bit, so that twice the same byte     *)
(* cancels.                                                                *)
LEMMA BitOfXor ==
  ASSUME NEW a \in Byte, NEW b \in Byte, NEW p \in Places
  PROVE  Xor(a, b) \in Byte /\ Bit(Xor(a, b), p) = (Bit(a, p) + Bit(b, p)) % 2
<1> DEFINE d == [q \in Places |-> (Bit(a, q) + Bit(b, q)) % 2]
<1>0. Places \subseteq Nat \ {0}
  BY DEF Places
<1>2. ASSUME NEW q \in Places PROVE d[q] \in {0, 1}
  <2>1. Bit(a, q) \in {0, 1} /\ Bit(b, q) \in {0, 1}
    BY DEF Bit, Byte, Places
  <2> QED BY <2>1
<1>3. d \in [Places -> {0, 1}]
  BY <1>2
<1>4. Xor(a, b) = d[1] + 2 * d[2] + 4 * d[4] + 8 * d[8]
             + 16 * d[16] + 32 * d[32] + 64 * d[64] + 128 * d[128]
  BY <1>2 DEF Xor, Places
<1> QED
  <2> HIDE DEF d
  <2>1. /\ d[1] \in {0, 1} /\ d[2] \in {0, 1} /\ d[4] \in {0, 1} /\ d[8] \in {0, 1}
        /\ d[16] \in {0, 1} /\ d[32] \in {0, 1} /\ d[64] \in {0, 1} /\ d[128] \in {0, 1}
    BY <1>3 DEF Places
  <2>2. PICK n : n = Xor(a, b)
    OBVIOUS
  <2>3. /\ n \in Byte /\ Bit(n, 1) = d[1] /\ Bit(n, 2) = d[2] /\ Bit(n, 4) = d[4] /\ Bit(n, 8) = d[8]
        /\ Bit(n, 16) = d[16] /\ Bit(n, 32) = d[32] /\ Bit(n, 64) = d[64] /\ Bit(n, 128) = d[128]
    BY <1>4, <2>1, <2>2, BitsOfSum
  <2>4. Bit(n, p) = d[p]
    BY <2>3 DEF Places
  <2> QED BY <2>2, <2>3, <2>4 DEF d

LEMMA XorTwice ==
  ASSUME NEW a \in Byte, NEW b \in Byte
  PROVE  Xor(Xor(a, b), b) = a
<1>1. Xor(a, b) \in Byte /\ Xor(Xor(a, b), b) \in Byte
  BY BitOfXor DEF Places
<1>2. ASSUME NEW p \in Places PROVE Bit(Xor(Xor(a, b), b), p) = Bit(a, p)
  <2>1. Bit(Xor(Xor(a, b), b), p) = (((Bit(a, p) + Bit(b, p)) % 2) + Bit(b, p)) % 2
    BY <1>1, BitOfXor
  <2>2. Bit(a, p) \in {0, 1} /\ Bit(b, p) \in {0, 1}
    BY DEF Bit, Byte, Places
  <2> QED BY <2>1, <2>2
<1> QED BY <1>1, <1>2, SumOfBits DEF Places

----------------------------------------------------------------------------
(* Words *)

(* The lemmas that end in Steps give the values a fold of the model takes, *)
(* one after the other: an operator cannot be an argument of a lemma, so   *)
(* there is one for each operation that is folded.                         *)

Word == [1 .. 4 -> Byte]

LEMMA XorByte ==
  ASSUME NEW a \in Byte, NEW b \in Byte
  PROVE  Xor(a, b) \in Byte /\ Xor(a, 0) = a /\ Xor(0, a) = a
<1>1. Xor(a, b) \in Byte
  BY BitOfXor DEF Places
<1>2. Xor(a, 0) = a /\ Xor(0, a) = a
  BY DEF Xor, Bit, Byte
<1> QED BY <1>1, <1>2

LEMMA SumSteps ==
  ASSUME NEW b \in Nat, NEW s \in Seq(Nat)
  PROVE  \E v \in [0 .. Len(s) -> Nat] :
           /\ v[0] = b /\ \A k \in 1 .. Len(s) : v[k] = v[k - 1] + s[k]
           /\ FoldLeft(+, b, s) = v[Len(s)]
<1> DEFINE G == [p \in Nat \X Nat |-> p[1] + p[2]]
           Value(c, t) == IF t = {} THEN b ELSE c[t \ {Max(t)}] + s[Max(t)]
           Eq(c) == c = [t \in SUBSET (DOMAIN s) |-> Value(c, t)]
<1>1. Len(s) \in Nat /\ DOMAIN s = 1 .. Len(s)
  OBVIOUS
<1>2. FoldLeft(+, b, s) = (CHOOSE c : Eq(c))[DOMAIN s]
  BY DEF FoldLeft, MapThenFoldSet
<1>3. G \in [Nat \X Nat -> Nat]
  BY SMT
<1>4. \E c : Eq(c)
  <2>1. PICK c \in [SUBSET (1 .. Len(s)) -> Nat] : SetFold(c, G, b, s)
    BY <1>3, SetFoldExists
  <2>2. ASSUME NEW t \in SUBSET (1 .. Len(s)), t # {} PROVE c[t] = c[t \ {Max(t)}] + s[Max(t)]
    <3>1. c[t \ {Max(t)}] \in Nat /\ s[Max(t)] \in Nat
      BY <2>2, BelowMax
    <3>2. c[t] = G[<<c[t \ {Max(t)}], s[Max(t)]>>]
      BY <2>1, <2>2 DEF SetFold
    <3> QED BY <3>1, <3>2
  <2>3. \A t \in SUBSET (1 .. Len(s)) : c[t] = Value(c, t)
    BY <2>1, <2>2 DEF SetFold
  <2> HIDE DEF Value
  <2> QED BY <1>1, <2>3
<1>5. PICK c : Eq(c) /\ FoldLeft(+, b, s) = c[DOMAIN s]
  BY <1>2, <1>4
<1>6. \A t \in SUBSET (1 .. Len(s)) : c[t] = Value(c, t)
  <2> HIDE DEF Value
  <2> QED BY <1>1, <1>5
<1>7. c[{}] = b
  BY <1>6
<1>8. ASSUME NEW t \in SUBSET (1 .. Len(s)), t # {}, c[t \ {Max(t)}] \in Nat
      PROVE  c[t] = G[<<c[t \ {Max(t)}], s[Max(t)]>>]
  <2>1. s[Max(t)] \in Nat
    <3>1. Max(t) \in t
      BY <1>1, <1>8, MaxOfSet
    <3>2. Max(t) \in 1 .. Len(s)
      BY <3>1
    <3> QED BY <1>1, <3>2
  <2> QED BY <1>6, <1>8, <2>1
<1>9. PICK v \in [0 .. Len(s) -> Nat] : FoldSteps(v, G, b, s, c[1 .. Len(s)])
  <2>1. TypedFold(c, G, b, s, Nat)
    <3> HIDE DEF G
    <3> QED BY <1>7, <1>8 DEF TypedFold
  <2> HIDE DEF G
  <2> QED BY <1>3, <2>1, TypedFoldSteps
<1>10. ASSUME NEW k \in 1 .. Len(s) PROVE v[k] = v[k - 1] + s[k]
  <2>1. v[k - 1] \in Nat /\ s[k] \in Nat
    BY <1>1
  <2>2. v[k] = G[<<v[k - 1], s[k]>>]
    BY <1>9 DEF FoldSteps
  <2> QED BY <2>1, <2>2
<1> HIDE DEF G, Eq
<1> QED BY <1>1, <1>5, <1>9, <1>10 DEF FoldSteps

CarryState == [out : Seq(Byte), carry : Nat]

LEMMA CarryTyped ==
  \A acc \in CarryState : \A x \in Nat : Carry(acc, x) \in CarryState
<1> SUFFICES ASSUME NEW acc \in CarryState, NEW x \in Nat PROVE Carry(acc, x) \in CarryState
  OBVIOUS
<1>1. acc.out \in Seq(Byte) /\ acc.carry \in Nat
  BY DEF CarryState
<1>2. (x + acc.carry) % 256 \in Byte /\ (x + acc.carry) \div 256 \in Nat
  <2>1. \A n \in Nat : n % 256 \in Byte /\ n \div 256 \in Nat
    BY DEF Byte
  <2>2. x + acc.carry \in Nat
    BY <1>1
  <2> HIDE DEF Byte
  <2> QED BY <2>1, <2>2
<1>3. Append(acc.out, (x + acc.carry) % 256) \in Seq(Byte)
  BY <1>1, <1>2
<1> QED BY <1>2, <1>3 DEF Carry, CarryState

LEMMA CarrySteps ==
  ASSUME NEW b \in CarryState, NEW s \in Seq(Nat)
  PROVE  \E v \in [0 .. Len(s) -> CarryState] :
           /\ v[0] = b /\ \A k \in 1 .. Len(s) : v[k] = Carry(v[k - 1], s[k])
           /\ FoldLeft(Carry, b, s) = v[Len(s)]
<1> DEFINE G == [p \in CarryState \X Nat |-> Carry(p[1], p[2])]
           Value(c, t) == IF t = {} THEN b ELSE Carry(c[t \ {Max(t)}], s[Max(t)])
           Eq(c) == c = [t \in SUBSET (DOMAIN s) |-> Value(c, t)]
<1>1. Len(s) \in Nat /\ DOMAIN s = 1 .. Len(s)
  OBVIOUS
<1>2. FoldLeft(Carry, b, s) = (CHOOSE c : Eq(c))[DOMAIN s]
  BY DEF FoldLeft, MapThenFoldSet
<1>3. G \in [CarryState \X Nat -> CarryState]
  BY CarryTyped
<1>4. \E c : Eq(c)
  <2>1. PICK c \in [SUBSET (1 .. Len(s)) -> CarryState] : SetFold(c, G, b, s)
    BY <1>3, SetFoldExists
  <2>2. ASSUME NEW t \in SUBSET (1 .. Len(s)), t # {} PROVE c[t] = Carry(c[t \ {Max(t)}], s[Max(t)])
    <3>1. c[t \ {Max(t)}] \in CarryState /\ s[Max(t)] \in Nat
      BY <2>2, BelowMax
    <3>2. c[t] = G[<<c[t \ {Max(t)}], s[Max(t)]>>]
      BY <2>1, <2>2 DEF SetFold
    <3> QED BY <3>1, <3>2
  <2>3. \A t \in SUBSET (1 .. Len(s)) : c[t] = Value(c, t)
    BY <2>1, <2>2 DEF SetFold
  <2> HIDE DEF Value
  <2> QED BY <1>1, <2>3
<1>5. PICK c : Eq(c) /\ FoldLeft(Carry, b, s) = c[DOMAIN s]
  BY <1>2, <1>4
<1>6. \A t \in SUBSET (1 .. Len(s)) : c[t] = Value(c, t)
  <2> HIDE DEF Value
  <2> QED BY <1>1, <1>5
<1>7. c[{}] = b
  BY <1>6
<1>8. ASSUME NEW t \in SUBSET (1 .. Len(s)), t # {}, c[t \ {Max(t)}] \in CarryState
      PROVE  c[t] = G[<<c[t \ {Max(t)}], s[Max(t)]>>]
  <2>1. s[Max(t)] \in Nat
    <3>1. Max(t) \in t
      BY <1>1, <1>8, MaxOfSet
    <3>2. Max(t) \in 1 .. Len(s)
      BY <3>1
    <3> QED BY <1>1, <3>2
  <2> QED BY <1>6, <1>8, <2>1
<1>9. PICK v \in [0 .. Len(s) -> CarryState] : FoldSteps(v, G, b, s, c[1 .. Len(s)])
  <2>1. TypedFold(c, G, b, s, CarryState)
    <3> HIDE DEF G
    <3> QED BY <1>7, <1>8 DEF TypedFold
  <2> HIDE DEF G
  <2> QED BY <1>3, <2>1, TypedFoldSteps
<1>10. ASSUME NEW k \in 1 .. Len(s) PROVE v[k] = Carry(v[k - 1], s[k])
  <2>1. v[k - 1] \in CarryState /\ s[k] \in Nat
    <3>1. k - 1 \in 0 .. Len(s) /\ k \in 1 .. Len(s)
      BY <1>1
    <3> HIDE DEF G, Eq, CarryState
    <3> QED BY <3>1, ElementOfSeq
  <2>2. v[k] = G[<<v[k - 1], s[k]>>]
    BY <1>9 DEF FoldSteps
  <2> QED BY <2>1, <2>2
<1> HIDE DEF G, Eq
<1> QED BY <1>1, <1>5, <1>9, <1>10 DEF FoldSteps

LEMMA ByteSeq ==
  ASSUME NEW s \in Seq(Byte)
  PROVE  Len(s) \in Nat /\ DOMAIN s = 1 .. Len(s) /\ \A j \in 1 .. Len(s) : s[j] \in Byte
BY LenProperties, ElementOfSeq

LEMMA FourBytes ==
  ASSUME NEW s \in Seq(Byte), Len(s) = 4
  PROVE  s \in Word
<1>1. \A j \in 1 .. 4 : s[j] \in Byte
  BY ByteSeq
<1>2. s = [j \in 1 .. 4 |-> s[j]]
  OBVIOUS
<1> QED BY <1>1, <1>2 DEF Word

LEMMA CarriedTyped ==
  ASSUME NEW columns \in Seq(Nat), Len(columns) = 4
  PROVE  Carried(columns) \in Word
<1> DEFINE b == [out |-> <<>>, carry |-> 0]
<1>1. b \in CarryState
  BY DEF CarryState
<1>2. PICK v \in [0 .. 4 -> CarryState] :
        /\ v[0] = b /\ \A k \in 1 .. 4 : v[k] = Carry(v[k - 1], columns[k])
        /\ Carried(columns) = v[4].out
  <2> HIDE DEF b
  <2>1. PICK v \in [0 .. Len(columns) -> CarryState] :
          /\ v[0] = b /\ \A k \in 1 .. Len(columns) : v[k] = Carry(v[k - 1], columns[k])
          /\ FoldLeft(Carry, b, columns) = v[Len(columns)]
    BY <1>1, CarrySteps
  <2>2. Carried(columns) = v[4].out
    BY <2>1 DEF Carried, b
  <2> QED BY <2>1, <2>2
<1>3. ASSUME NEW k \in 1 .. 4 PROVE v[k].out \in Seq(Byte) /\ Len(v[k].out) = Len(v[k - 1].out) + 1
  <2>1. v[k - 1] \in CarryState /\ v[k] \in CarryState
    <3>1. k - 1 \in 0 .. 4 /\ k \in 0 .. 4
      OBVIOUS
    <3> QED BY <1>2, <3>1
  <2>2. v[k - 1].out \in Seq(Byte) /\ v[k].out \in Seq(Byte)
    BY <2>1 DEF CarryState
  <2>3. v[k].out = Append(v[k - 1].out, (columns[k] + v[k - 1].carry) % 256)
    BY <1>2 DEF Carry
  <2>4. Len(Append(v[k - 1].out, (columns[k] + v[k - 1].carry) % 256)) = Len(v[k - 1].out) + 1
    BY <2>2
  <2> QED BY <2>2, <2>3, <2>4
<1>4. Len(v[0].out) = 0
  BY <1>2
<1>5. Len(v[4].out) = 4
  <2>1. 1 - 1 = 0 /\ 2 - 1 = 1 /\ 3 - 1 = 2 /\ 4 - 1 = 3
    OBVIOUS
  <2>2. Len(v[1].out) = Len(v[1 - 1].out) + 1 /\ Len(v[2].out) = Len(v[2 - 1].out) + 1
    BY <1>3
  <2>3. Len(v[3].out) = Len(v[3 - 1].out) + 1 /\ Len(v[4].out) = Len(v[4 - 1].out) + 1
    BY <1>3
  <2>4. /\ Len(v[1].out) = Len(v[0].out) + 1 /\ Len(v[2].out) = Len(v[1].out) + 1
        /\ Len(v[3].out) = Len(v[2].out) + 1 /\ Len(v[4].out) = Len(v[3].out) + 1
    BY <2>1, <2>2, <2>3, Zenon
  <2>5. Len(v[4].out) = 0 + 1 + 1 + 1 + 1
    BY <1>4, <2>4, Zenon
  <2>6. 0 + 1 + 1 + 1 + 1 = 4
    OBVIOUS
  <2> QED BY <2>5, <2>6, Zenon
<1>6. v[4].out \in Seq(Byte)
  BY <1>3
<1> QED BY <1>2, <1>5, <1>6, FourBytes

LEMMA TimesTyped ==
  ASSUME NEW x \in Word, NEW y \in Word
  PROVE  Times(x, y) \in Word
<1> DEFINE terms(j) == [l \in 1 .. j |-> x[l] * y[j + 1 - l]]
           columns == [j \in DOMAIN x |-> FoldLeft(+, 0, terms(j))]
<1>1. DOMAIN x = 1 .. 4
  BY DEF Word
<1>2. ASSUME NEW j \in 1 .. 4 PROVE FoldLeft(+, 0, terms(j)) \in Nat
  <2>1. ASSUME NEW l \in 1 .. j PROVE x[l] * y[j + 1 - l] \in Nat
    <3>1. l \in 1 .. 4 /\ j + 1 - l \in 1 .. 4
      OBVIOUS
    <3>2. x[l] \in Nat /\ y[j + 1 - l] \in Nat
      <4>1. x[l] \in Byte /\ y[j + 1 - l] \in Byte
        BY <3>1 DEF Word
      <4> QED BY <4>1 DEF Byte
    <3> QED BY <3>2
  <2>2. terms(j) \in Seq(Nat)
    BY <2>1
  <2>3. PICK s \in Seq(Nat) : s = terms(j)
    BY <2>2
  <2>4. PICK v \in [0 .. Len(s) -> Nat] : FoldLeft(+, 0, s) = v[Len(s)]
    BY SumSteps
  <2>5. Len(s) \in 0 .. Len(s)
    OBVIOUS
  <2>6. FoldLeft(+, 0, s) \in Nat
    BY <2>4, <2>5
  <2> QED BY <2>3, <2>6
<1>3. columns \in Seq(Nat) /\ Len(columns) = 4
  <2> HIDE DEF terms
  <2> DEFINE total(j) == FoldLeft(+, 0, terms(j))
  <2>1. \A j \in 1 .. 4 : total(j) \in Nat
    BY <1>2
  <2>2. columns = [j \in 1 .. 4 |-> total(j)]
    BY <1>1
  <2> HIDE DEF total, columns
  <2> QED BY <2>1, <2>2
<1>4. Times(x, y) = Carried(columns)
  BY DEF Times
<1> HIDE DEF columns
<1> QED BY <1>3, <1>4, CarriedTyped

LEMMA ExorTyped ==
  ASSUME NEW x \in Word, NEW y \in Word
  PROVE  Exor(x, y) \in Word
BY XorByte DEF Exor, Word

LEMMA MixTyped == \A h, k \in Word : Mix(h, k) \in Word
<1> SUFFICES ASSUME NEW h \in Word, NEW k \in Word PROVE Mix(h, k) \in Word
  OBVIOUS
<1>1. M32 \in Word
  BY DEF M32, Word, Byte
<1>2. ASSUME NEW x \in Word PROVE ShiftRight(x, 24) \in Word
  <2>1. ASSUME NEW j \in 1 .. 4 PROVE ShiftRight(x, 24)[j] \in Byte
    <3>1. At(x, j + 3) \in Byte /\ At(x, j + 4) \in Nat
      BY DEF At, Word, Byte
    <3>2. ShiftRight(x, 24)[j] = (At(x, j + 3) \div 1) + ((At(x, j + 4) * 256) % 256)
      BY DEF ShiftRight, Word
    <3> QED BY <3>1, <3>2 DEF Byte
  <2>2. DOMAIN x = 1 .. 4
    BY DEF Word
  <2> QED BY <2>1, <2>2 DEF ShiftRight, Word
<1>3. Times(k, M32) \in Word /\ Times(h, M32) \in Word
  BY <1>1, TimesTyped
<1>4. Exor(Times(k, M32), ShiftRight(Times(k, M32), 24)) \in Word
  BY <1>2, <1>3, ExorTyped
<1>5. Scrambled(k, M32, 24) \in Word
  BY <1>1, <1>4, TimesTyped DEF Scrambled
<1> QED BY <1>3, <1>5, ExorTyped DEF Mix

LEMMA MixSteps ==
  ASSUME NEW b \in Word, NEW s \in Seq(Word)
  PROVE  \E v \in [0 .. Len(s) -> Word] :
           /\ v[0] = b /\ \A k \in 1 .. Len(s) : v[k] = Mix(v[k - 1], s[k])
           /\ FoldLeft(Mix, b, s) = v[Len(s)]
<1> DEFINE G == [p \in Word \X Word |-> Mix(p[1], p[2])]
           Value(c, t) == IF t = {} THEN b ELSE Mix(c[t \ {Max(t)}], s[Max(t)])
           Eq(c) == c = [t \in SUBSET (DOMAIN s) |-> Value(c, t)]
<1>1. Len(s) \in Nat /\ DOMAIN s = 1 .. Len(s)
  OBVIOUS
<1>2. FoldLeft(Mix, b, s) = (CHOOSE c : Eq(c))[DOMAIN s]
  BY DEF FoldLeft, MapThenFoldSet
<1>3. G \in [Word \X Word -> Word]
  BY MixTyped
<1>4. \E c : Eq(c)
  <2>1. PICK c \in [SUBSET (1 .. Len(s)) -> Word] : SetFold(c, G, b, s)
    BY <1>3, SetFoldExists
  <2>2. ASSUME NEW t \in SUBSET (1 .. Len(s)), t # {} PROVE c[t] = Mix(c[t \ {Max(t)}], s[Max(t)])
    <3>1. c[t \ {Max(t)}] \in Word /\ s[Max(t)] \in Word
      BY <2>2, BelowMax
    <3>2. c[t] = G[<<c[t \ {Max(t)}], s[Max(t)]>>]
      BY <2>1, <2>2 DEF SetFold
    <3> QED BY <3>1, <3>2
  <2>3. \A t \in SUBSET (1 .. Len(s)) : c[t] = Value(c, t)
    BY <2>1, <2>2 DEF SetFold
  <2> HIDE DEF Value
  <2> QED BY <1>1, <2>3
<1>5. PICK c : Eq(c) /\ FoldLeft(Mix, b, s) = c[DOMAIN s]
  BY <1>2, <1>4
<1>6. \A t \in SUBSET (1 .. Len(s)) : c[t] = Value(c, t)
  <2> HIDE DEF Value
  <2> QED BY <1>1, <1>5
<1>7. c[{}] = b
  BY <1>6
<1>8. ASSUME NEW t \in SUBSET (1 .. Len(s)), t # {}, c[t \ {Max(t)}] \in Word
      PROVE  c[t] = G[<<c[t \ {Max(t)}], s[Max(t)]>>]
  <2>1. s[Max(t)] \in Word
    <3>1. Max(t) \in t
      BY <1>1, <1>8, MaxOfSet
    <3>2. Max(t) \in 1 .. Len(s)
      BY <3>1
    <3> QED BY <1>1, <3>2
  <2> QED BY <1>6, <1>8, <2>1
<1>9. PICK v \in [0 .. Len(s) -> Word] : FoldSteps(v, G, b, s, c[1 .. Len(s)])
  <2>1. TypedFold(c, G, b, s, Word)
    <3> HIDE DEF G
    <3> QED BY <1>7, <1>8 DEF TypedFold
  <2> HIDE DEF G
  <2> QED BY <1>3, <2>1, TypedFoldSteps
<1>10. ASSUME NEW k \in 1 .. Len(s) PROVE v[k] = Mix(v[k - 1], s[k])
  <2>1. v[k - 1] \in Word /\ s[k] \in Word
    BY <1>1
  <2>2. v[k] = G[<<v[k - 1], s[k]>>]
    BY <1>9 DEF FoldSteps
  <2> QED BY <2>1, <2>2
<1> HIDE DEF G, Eq
<1> QED BY <1>1, <1>5, <1>9, <1>10 DEF FoldSteps

(* A byte at its place in a word.                                          *)
LEMMA OneByte ==
  ASSUME NEW b \in Byte, NEW n \in 0 .. 3
  PROVE  /\ ShiftLeft(Wide(<<b>>, 4), n) = [j \in 1 .. 4 |-> IF j = n + 1 THEN b ELSE 0]
         /\ ShiftLeft(Wide(<<b>>, 4), n) \in Word
<1>1. DOMAIN <<b>> = {1} /\ <<b>>[1] = b
  OBVIOUS
<1>2. Wide(<<b>>, 4) = [j \in 1 .. 4 |-> IF j = 1 THEN b ELSE 0]
  BY <1>1 DEF Wide, At
<1>3. ASSUME NEW j \in 1 .. 4
      PROVE  At(Wide(<<b>>, 4), j - n) = IF j = n + 1 THEN b ELSE 0
  BY <1>2 DEF At
<1>4. ShiftLeft(Wide(<<b>>, 4), n) = [j \in 1 .. 4 |-> IF j = n + 1 THEN b ELSE 0]
  BY <1>2, <1>3 DEF ShiftLeft
<1>5. \A j \in 1 .. 4 : (IF j = n + 1 THEN b ELSE 0) \in Byte
  BY DEF Byte
<1> QED BY <1>4, <1>5 DEF Word

LEMMA WideTyped ==
  ASSUME NEW s \in Seq(Byte)
  PROVE  Wide(s, 4) \in Word /\ (Len(s) = 4 => Wide(s, 4) = s)
<1>0. Len(s) \in Nat /\ DOMAIN s = 1 .. Len(s) /\ 0 \in Byte
  BY ByteSeq DEF Byte
<1>1. ASSUME NEW j \in 1 .. 4 PROVE At(s, j) \in Byte
  BY <1>0, ByteSeq DEF At
<1>2. Wide(s, 4) \in Word
  BY <1>1 DEF Wide, Word
<1>3. ASSUME Len(s) = 4 PROVE Wide(s, 4) = s
  <2>1. s = [j \in 1 .. 4 |-> s[j]]
    BY <1>3
  <2>2. \A j \in 1 .. 4 : At(s, j) = s[j]
    BY <1>3 DEF At
  <2> QED BY <2>1, <2>2 DEF Wide
<1> QED BY <1>2, <1>3

(* One more byte at the end of an incomplete word.                         *)
LEMMA WideAppend ==
  ASSUME NEW s \in Seq(Byte), Len(s) <= 3, NEW b \in Byte
  PROVE  Exor(Wide(s, 4), ShiftLeft(Wide(<<b>>, 4), Len(s))) = Wide(Append(s, b), 4)
<1>0. Len(s) \in Nat /\ DOMAIN s = 1 .. Len(s)
  BY ByteSeq
<1>1. Len(s) \in 0 .. 3
  BY <1>0
<1> DEFINE one == [j \in 1 .. 4 |-> IF j = Len(s) + 1 THEN b ELSE 0]
<1>2. ShiftLeft(Wide(<<b>>, 4), Len(s)) = one
  BY <1>1, OneByte
<1>3. ASSUME NEW j \in 1 .. 4
      PROVE  Xor(Wide(s, 4)[j], one[j]) = At(Append(s, b), j)
  <2>1. Wide(s, 4)[j] = IF j <= Len(s) THEN s[j] ELSE 0
    BY <1>0, <1>1 DEF Wide, At
  <2>0. /\ DOMAIN Append(s, b) = 1 .. Len(s) + 1 /\ Append(s, b)[Len(s) + 1] = b
        /\ \A l \in 1 .. Len(s) : Append(s, b)[l] = s[l]
    BY <1>0, AppendProperties
  <2>2. At(Append(s, b), j) = IF j <= Len(s) THEN s[j] ELSE IF j = Len(s) + 1 THEN b ELSE 0
    <3>1. j \in DOMAIN Append(s, b) <=> j <= Len(s) + 1
      BY <1>0, <2>0
    <3>2. j <= Len(s) => j \in 1 .. Len(s) /\ j # Len(s) + 1 /\ j <= Len(s) + 1
      BY <1>0
    <3>3. j > Len(s) => j <= Len(s) + 1 <=> j = Len(s) + 1
      BY <1>0
    <3>4. j <= Len(s) \/ j > Len(s)
      BY <1>0
    <3> QED BY <2>0, <3>1, <3>2, <3>3, <3>4 DEF At
  <2>3. 0 \in Byte /\ (j <= Len(s) => s[j] \in Byte)
    <3>1. 0 \in Byte
      BY DEF Byte
    <3>2. j <= Len(s) => j \in 1 .. Len(s)
      BY <1>0
    <3> QED BY <3>1, <3>2, ByteSeq
  <2>4. /\ \A a \in Byte : Xor(a, 0) = a /\ Xor(0, a) = a
    BY XorByte
  <2>5. CASE j <= Len(s)
    BY <2>1, <2>2, <2>3, <2>4, <2>5
  <2>6. CASE j = Len(s) + 1
    BY <2>1, <2>2, <2>3, <2>4, <2>6
  <2>7. CASE j > Len(s) + 1
    BY <2>1, <2>2, <2>3, <2>4, <2>7
  <2> QED BY <1>1, <2>5, <2>6, <2>7
<1>4. DOMAIN Wide(s, 4) = 1 .. 4
  BY DEF Wide
<1> HIDE DEF one
<1> QED BY <1>2, <1>3, <1>4 DEF Exor, Wide

----------------------------------------------------------------------------
(* The hasher *)

Hasher == [hash : Word, tail : Word, count : 0 .. 3, size : Nat]

LEMMA TakeByteTyped == \A h \in Hasher : \A b \in Byte : TakeByte(h, b) \in Hasher
<1> SUFFICES ASSUME NEW h \in Hasher, NEW b \in Byte PROVE TakeByte(h, b) \in Hasher
  OBVIOUS
<1>1. h.hash \in Word /\ h.tail \in Word /\ h.count \in 0 .. 3 /\ h.size \in Nat
  BY DEF Hasher
<1>2. ShiftLeft(Wide(<<b>>, 4), h.count) \in Word
  BY <1>1, OneByte
<1> DEFINE tail == Exor(h.tail, ShiftLeft(Wide(<<b>>, 4), h.count))
<1>3. tail \in Word
  BY <1>1, <1>2, ExorTyped
<1>4. Mix(h.hash, tail) \in Word
  BY <1>1, <1>3, MixTyped
<1>5. <<>> \in Seq(Byte)
  OBVIOUS
<1>6. Wide(<<>>, 4) \in Word
  BY <1>5, WideTyped
<1>7. CASE h.count = 3
  <2>1. TakeByte(h, b) = [hash |-> Mix(h.hash, tail), tail |-> Wide(<<>>, 4), count |-> 0, size |-> h.size]
    BY <1>7 DEF TakeByte, Hasher
  <2> HIDE DEF tail
  <2> QED BY <2>1, <1>1, <1>4, <1>6 DEF Hasher
<1>8. CASE h.count # 3
  <2>1. TakeByte(h, b) = [hash |-> h.hash, tail |-> tail, count |-> h.count + 1, size |-> h.size]
    BY <1>8 DEF TakeByte, Hasher
  <2> HIDE DEF tail
  <2>2. h.count + 1 \in 0 .. 3
    BY <1>1, <1>8
  <2> QED BY <2>1, <2>2, <1>1, <1>3 DEF Hasher
<1> QED BY <1>7, <1>8

LEMMA TakeByteSteps ==
  ASSUME NEW b \in Hasher, NEW s \in Seq(Byte)
  PROVE  \E v \in [0 .. Len(s) -> Hasher] :
           /\ v[0] = b /\ \A k \in 1 .. Len(s) : v[k] = TakeByte(v[k - 1], s[k])
           /\ FoldLeft(TakeByte, b, s) = v[Len(s)]
<1> DEFINE G == [p \in Hasher \X Byte |-> TakeByte(p[1], p[2])]
           Value(c, t) == IF t = {} THEN b ELSE TakeByte(c[t \ {Max(t)}], s[Max(t)])
           Eq(c) == c = [t \in SUBSET (DOMAIN s) |-> Value(c, t)]
<1>1. Len(s) \in Nat /\ DOMAIN s = 1 .. Len(s)
  OBVIOUS
<1>2. FoldLeft(TakeByte, b, s) = (CHOOSE c : Eq(c))[DOMAIN s]
  BY DEF FoldLeft, MapThenFoldSet
<1>3. G \in [Hasher \X Byte -> Hasher]
  BY TakeByteTyped
<1>4. \E c : Eq(c)
  <2>1. PICK c \in [SUBSET (1 .. Len(s)) -> Hasher] : SetFold(c, G, b, s)
    BY <1>3, SetFoldExists
  <2>2. ASSUME NEW t \in SUBSET (1 .. Len(s)), t # {} PROVE c[t] = TakeByte(c[t \ {Max(t)}], s[Max(t)])
    <3>1. c[t \ {Max(t)}] \in Hasher /\ s[Max(t)] \in Byte
      BY <2>2, BelowMax
    <3>2. c[t] = G[<<c[t \ {Max(t)}], s[Max(t)]>>]
      BY <2>1, <2>2 DEF SetFold
    <3> QED BY <3>1, <3>2
  <2>3. \A t \in SUBSET (1 .. Len(s)) : c[t] = Value(c, t)
    BY <2>1, <2>2 DEF SetFold
  <2> HIDE DEF Value
  <2> QED BY <1>1, <2>3
<1>5. PICK c : Eq(c) /\ FoldLeft(TakeByte, b, s) = c[DOMAIN s]
  BY <1>2, <1>4
<1>6. \A t \in SUBSET (1 .. Len(s)) : c[t] = Value(c, t)
  <2> HIDE DEF Value
  <2> QED BY <1>1, <1>5
<1>7. c[{}] = b
  BY <1>6
<1>8. ASSUME NEW t \in SUBSET (1 .. Len(s)), t # {}, c[t \ {Max(t)}] \in Hasher
      PROVE  c[t] = G[<<c[t \ {Max(t)}], s[Max(t)]>>]
  <2>1. s[Max(t)] \in Byte
    <3>1. Max(t) \in t
      BY <1>1, <1>8, MaxOfSet
    <3>2. Max(t) \in 1 .. Len(s)
      BY <3>1
    <3> QED BY <1>1, <3>2
  <2> QED BY <1>6, <1>8, <2>1
<1>9. PICK v \in [0 .. Len(s) -> Hasher] : FoldSteps(v, G, b, s, c[1 .. Len(s)])
  <2>1. TypedFold(c, G, b, s, Hasher)
    <3> HIDE DEF G
    <3> QED BY <1>7, <1>8 DEF TypedFold
  <2> HIDE DEF G
  <2> QED BY <1>3, <2>1, TypedFoldSteps
<1>10. ASSUME NEW k \in 1 .. Len(s) PROVE v[k] = TakeByte(v[k - 1], s[k])
  <2>1. v[k - 1] \in Hasher /\ s[k] \in Byte
    BY <1>1
  <2>2. v[k] = G[<<v[k - 1], s[k]>>]
    BY <1>9 DEF FoldSteps
  <2> QED BY <2>1, <2>2
<1> HIDE DEF G, Eq
<1> QED BY <1>1, <1>5, <1>9, <1>10 DEF FoldSteps


(* The words of s hashed one after the other, from h on.                   *)
HashSteps(s, h, v) ==
  /\ v \in [0 .. Len(s) \div 4 -> Word] /\ v[0] = h
  /\ \A k \in 1 .. Len(s) \div 4 : v[k] = Mix(v[k - 1], Words(s, 4)[k])

(* The hasher after the first n bytes of s, when m have been announced.    *)
Hashed(s, v, n, m) ==
  [hash |-> v[n \div 4], tail |-> Wide(SubSeq(s, 4 * (n \div 4) + 1, n), 4), count |-> n % 4, size |-> m]

LEMMA SubBytes ==
  ASSUME NEW s \in Seq(Byte), NEW a \in Nat \ {0}, NEW b \in Nat, b <= Len(s), a <= b + 1
  PROVE  /\ SubSeq(s, a, b) \in Seq(Byte) /\ Len(SubSeq(s, a, b)) = b - a + 1
         /\ \A j \in 1 .. b - a + 1 : SubSeq(s, a, b)[j] = s[a + j - 1]
<1>1. Len(s) \in Nat /\ \A j \in 1 .. Len(s) : s[j] \in Byte
  BY ByteSeq
<1>2. \A j \in a .. b : s[j] \in Byte
  BY <1>1
<1>3. /\ SubSeq(s, a, b) \in Seq(Byte) /\ Len(SubSeq(s, a, b)) = IF a <= b THEN b - a + 1 ELSE 0
      /\ \A j \in 1 .. b - a + 1 : SubSeq(s, a, b)[j] = s[a + j - 1]
  BY <1>2, SubSeqProperties
<1> QED BY <1>3

LEMMA WordsTyped ==
  ASSUME NEW s \in Seq(Byte)
  PROVE  /\ Words(s, 4) \in Seq(Word) /\ Len(Words(s, 4)) = Len(s) \div 4
         /\ \A k \in 1 .. Len(s) \div 4 : Words(s, 4)[k] = SubSeq(s, 4 * (k - 1) + 1, 4 * k)
<1>1. Len(s) \in Nat /\ Len(s) \div 4 \in Nat
  BY ByteSeq
<1>2. ASSUME NEW k \in 1 .. Len(s) \div 4 PROVE SubSeq(s, 4 * (k - 1) + 1, 4 * k) \in Word
  <2>1. 4 * (k - 1) + 1 \in Nat \ {0} /\ 4 * k \in Nat /\ 4 * k <= Len(s)
    BY <1>1
  <2>2. SubSeq(s, 4 * (k - 1) + 1, 4 * k) \in Seq(Byte) /\ Len(SubSeq(s, 4 * (k - 1) + 1, 4 * k)) = 4
    BY <2>1, SubBytes
  <2> QED BY <2>2, FourBytes
<1>3. Words(s, 4) = [k \in 1 .. Len(s) \div 4 |-> SubSeq(s, 4 * (k - 1) + 1, 4 * k)]
  BY DEF Words
<1> DEFINE word(k) == SubSeq(s, 4 * (k - 1) + 1, 4 * k)
<1> HIDE DEF word
<1>4. Words(s, 4) = [k \in 1 .. Len(s) \div 4 |-> word(k)] /\ \A k \in 1 .. Len(s) \div 4 : word(k) \in Word
  BY <1>2, <1>3 DEF word
<1>5. /\ Words(s, 4) \in Seq(Word) /\ Len(Words(s, 4)) = Len(s) \div 4
  BY <1>1, <1>4
<1> QED BY <1>3, <1>5

LEMMA WordBytes ==
  ASSUME NEW s \in Seq(Byte), NEW k \in 1 .. Len(s) \div 4
  PROVE  Words(s, 4)[k] \in Word /\ \A j \in 1 .. 4 : Words(s, 4)[k][j] = s[4 * (k - 1) + j]
<1>0. Len(s) \in Nat
  BY ByteSeq
<1>1. PICK x : x = Words(s, 4)[k]
  OBVIOUS
<1>2. x \in Word
  <2>1. Words(s, 4) \in Seq(Word) /\ k \in 1 .. Len(Words(s, 4))
    BY WordsTyped
  <2> QED BY <1>1, <2>1
<1>3. ASSUME NEW j \in 1 .. 4 PROVE x[j] = s[4 * (k - 1) + j]
  <2>1. 4 * (k - 1) + 1 \in Nat \ {0} /\ 4 * k \in Nat /\ 4 * k <= Len(s) /\ 4 * (k - 1) + 1 <= 4 * k + 1
    BY <1>0
  <2>2. 4 * k - (4 * (k - 1) + 1) + 1 = 4 /\ (4 * (k - 1) + 1) + j - 1 = 4 * (k - 1) + j
    OBVIOUS
  <2>3. x = SubSeq(s, 4 * (k - 1) + 1, 4 * k)
    BY <1>1, WordsTyped
  <2> QED BY <2>1, <2>2, <2>3, SubBytes
<1> QED BY <1>1, <1>2, <1>3

LEMMA DivMod ==
  ASSUME NEW n \in Nat
  PROVE  /\ n \div 4 \in Nat /\ n % 4 \in 0 .. 3 /\ n = 4 * (n \div 4) + (n % 4)
         /\ n % 4 = 3 => (n + 1) \div 4 = n \div 4 + 1 /\ (n + 1) % 4 = 0
         /\ n % 4 # 3 => (n + 1) \div 4 = n \div 4 /\ (n + 1) % 4 = (n % 4) + 1
<1>1. PICK q \in Int : q = n \div 4
  OBVIOUS
<1>2. PICK r \in Int : r = n % 4
  OBVIOUS
<1>3. n = 4 * q + r /\ r \in 0 .. 3 /\ q \in Nat
  BY <1>1, <1>2
<1>4. r = 3 => (n + 1) \div 4 = q + 1 /\ (n + 1) % 4 = 0
  BY <1>3
<1>5. r # 3 => (n + 1) \div 4 = q /\ (n + 1) % 4 = r + 1
  BY <1>3
<1>6. n % 4 = 3 => (n + 1) \div 4 = n \div 4 + 1 /\ (n + 1) % 4 = 0
  BY <1>1, <1>2, <1>4
<1>7. n % 4 # 3 => (n + 1) \div 4 = n \div 4 /\ (n + 1) % 4 = (n % 4) + 1
  BY <1>1, <1>2, <1>5
<1> QED BY <1>1, <1>2, <1>3, <1>6, <1>7

LEMMA HashedTyped ==
  ASSUME NEW s \in Seq(Byte), NEW h \in Word, NEW v, HashSteps(s, h, v), NEW n \in 0 .. Len(s), NEW m \in Nat
  PROVE  Hashed(s, v, n, m) \in Hasher
<1>1. Len(s) \in Nat /\ n \in Nat
  BY ByteSeq
<1>2. n \div 4 \in 0 .. Len(s) \div 4
  BY <1>1
<1>3. v[n \div 4] \in Word
  BY <1>2 DEF HashSteps
<1>4. SubSeq(s, 4 * (n \div 4) + 1, n) \in Seq(Byte)
  <2>1. 4 * (n \div 4) + 1 \in Nat \ {0} /\ 4 * (n \div 4) + 1 <= n + 1
    BY <1>1
  <2> QED BY <1>1, <2>1, SubBytes
<1>5. Wide(SubSeq(s, 4 * (n \div 4) + 1, n), 4) \in Word
  BY <1>4, WideTyped
<1>6. n % 4 \in 0 .. 3
  BY <1>1
<1> QED BY <1>3, <1>5, <1>6 DEF Hashed, Hasher

LEMMA EmptyPiece == \A s : \A a, b \in Int : a > b => SubSeq(s, a, b) = <<>>
BY SMT

LEMMA PieceAppend ==
  ASSUME NEW s \in Seq(Byte), NEW a \in Nat \ {0}, NEW b \in Nat, b < Len(s), a <= b + 1
  PROVE  Append(SubSeq(s, a, b), s[b + 1]) = SubSeq(s, a, b + 1)
<1>0. Len(s) \in Nat /\ b + 1 \in 1 .. Len(s)
  BY ByteSeq
<1>1. s[b + 1] \in Byte
  BY <1>0, ByteSeq
<1> DEFINE p == SubSeq(s, a, b)
           q == SubSeq(s, a, b + 1)
<1>2. p \in Seq(Byte) /\ Len(p) = b - a + 1 /\ \A j \in 1 .. b - a + 1 : p[j] = s[a + j - 1]
  BY <1>0, SubBytes
<1>3. q \in Seq(Byte) /\ Len(q) = b - a + 2 /\ \A j \in 1 .. b - a + 2 : q[j] = s[a + j - 1]
  <2>1. b + 1 \in Nat /\ b + 1 <= Len(s) /\ a <= (b + 1) + 1 /\ (b + 1) - a + 1 = b - a + 2
    BY <1>0
  <2> QED BY <2>1, SubBytes
<1> HIDE DEF p, q
<1>4. /\ Append(p, s[b + 1]) \in Seq(Byte) /\ Len(Append(p, s[b + 1])) = Len(p) + 1
      /\ \A j \in 1 .. Len(p) : Append(p, s[b + 1])[j] = p[j]
      /\ Append(p, s[b + 1])[Len(p) + 1] = s[b + 1]
  BY <1>1, <1>2, AppendProperties
<1>5. ASSUME NEW j \in 1 .. Len(q) PROVE Append(p, s[b + 1])[j] = q[j]
  <2>1. CASE j <= Len(p)
    <3>1. j \in 1 .. Len(p) /\ j \in 1 .. b - a + 1 /\ j \in 1 .. b - a + 2
      BY <1>2, <1>3, <2>1
    <3>2. Append(p, s[b + 1])[j] = p[j] /\ p[j] = s[a + j - 1] /\ q[j] = s[a + j - 1]
      BY <1>2, <1>3, <1>4, <3>1
    <3> QED BY <3>2
  <2>2. CASE j > Len(p)
    <3>1. j = Len(p) + 1 /\ j \in 1 .. b - a + 2 /\ a + j - 1 = b + 1
      BY <1>2, <1>3, <2>2
    <3> QED BY <1>3, <1>4, <3>1
  <2> QED BY <1>2, <1>3, <2>1, <2>2
<1>6. Len(Append(p, s[b + 1])) = Len(q)
  BY <1>2, <1>3, <1>4
<1>7. Append(p, s[b + 1]) = q
  BY <1>3, <1>4, <1>5, <1>6, SeqEqual
<1> QED BY <1>7 DEF p, q

(* One more byte: an incomplete word grows, or is complete and mixed in.   *)
LEMMA TakeByteStep ==
  ASSUME NEW s \in Seq(Byte), NEW h \in Word, NEW v, HashSteps(s, h, v),
         NEW n \in Nat, n < Len(s), NEW m \in Nat
  PROVE  TakeByte(Hashed(s, v, n, m), s[n + 1]) = Hashed(s, v, n + 1, m)
<1> DEFINE q == n \div 4
           r == n % 4
           piece == SubSeq(s, 4 * q + 1, n)
           longer == SubSeq(s, 4 * q + 1, n + 1)
<1>0. Len(s) \in Nat /\ n + 1 \in 1 .. Len(s)
  BY ByteSeq
<1>1. s[n + 1] \in Byte
  BY <1>0, ByteSeq
<1>2. q \in Nat /\ r \in 0 .. 3 /\ n = 4 * q + r
  BY DivMod
<1>3. piece \in Seq(Byte) /\ Len(piece) = r
  <2>1. 4 * q + 1 \in Nat \ {0} /\ 4 * q + 1 <= n + 1 /\ n - (4 * q + 1) + 1 = r /\ n <= Len(s)
    BY <1>0, <1>2
  <2> QED BY <2>1, SubBytes
<1>4. Append(piece, s[n + 1]) = longer
  <2>1. 4 * q + 1 \in Nat \ {0} /\ 4 * q + 1 <= n + 1
    BY <1>2
  <2> QED BY <2>1, PieceAppend
<1>5. Exor(Wide(piece, 4), ShiftLeft(Wide(<<s[n + 1]>>, 4), r)) = Wide(longer, 4)
  <2>1. Len(piece) <= 3
    BY <1>2, <1>3
  <2> HIDE DEF piece, longer, r
  <2> QED BY <2>1, <1>1, <1>3, <1>4, WideAppend
<1>6. Hashed(s, v, n, m) = [hash |-> v[q], tail |-> Wide(piece, 4), count |-> r, size |-> m]
  BY DEF Hashed
<1>7. CASE r = 3
  <2>1. (n + 1) \div 4 = q + 1 /\ (n + 1) % 4 = 0 /\ n + 1 = 4 * (q + 1)
    BY <1>2, <1>7, DivMod
  <2>2. longer \in Seq(Byte) /\ Len(longer) = 4 /\ q + 1 \in 1 .. Len(s) \div 4
    <3>1. 4 * q + 1 \in Nat \ {0} /\ n + 1 \in Nat /\ 4 * q + 1 <= (n + 1) + 1 /\ (n + 1) - (4 * q + 1) + 1 = 4
      BY <1>2, <2>1
    <3>2. q + 1 \in 1 .. Len(s) \div 4
      BY <1>0, <1>2, <2>1
    <3> QED BY <1>0, <3>1, <3>2, SubBytes
  <2>3. Wide(longer, 4) = Words(s, 4)[q + 1]
    <3>1. Words(s, 4)[q + 1] = SubSeq(s, 4 * ((q + 1) - 1) + 1, 4 * (q + 1))
      BY <2>2, WordsTyped
    <3>2. 4 * ((q + 1) - 1) + 1 = 4 * q + 1
      BY <1>2
    <3>3. Wide(longer, 4) = longer
      <4> HIDE DEF longer
      <4> QED BY <2>2, WideTyped
    <3> QED BY <2>1, <3>1, <3>2, <3>3
  <2>4. v[q + 1] = Mix(v[q], Words(s, 4)[q + 1])
    <3>1. v[q + 1] = Mix(v[(q + 1) - 1], Words(s, 4)[q + 1]) /\ (q + 1) - 1 = q
      BY <1>2, <2>2 DEF HashSteps
    <3> QED BY <3>1
  <2>5. SubSeq(s, 4 * (q + 1) + 1, n + 1) = <<>>
    BY <1>2, <2>1, EmptyPiece
  <2>6. TakeByte(Hashed(s, v, n, m), s[n + 1])
          = [hash |-> Mix(v[q], Wide(longer, 4)), tail |-> Wide(<<>>, 4), count |-> 0, size |-> m]
    <3> HIDE DEF q, r, piece, longer
    <3>1. PICK g : g = Hashed(s, v, n, m)
      OBVIOUS
    <3>2. g.hash = v[q] /\ g.tail = Wide(piece, 4) /\ g.count = 3 /\ g.size = m
      BY <3>1, <1>6, <1>7
    <3>3. TakeByte(g, s[n + 1]) = [g EXCEPT !.hash = Mix(@, Wide(longer, 4)), !.tail = Wide(<<>>, 4), !.count = 0]
      BY <1>5, <1>7, <3>2 DEF TakeByte
    <3> QED BY <3>1, <3>2, <3>3, <1>6
  <2>7. Hashed(s, v, n + 1, m) = [hash |-> v[q + 1], tail |-> Wide(<<>>, 4), count |-> 0, size |-> m]
    <3> HIDE DEF q
    <3> QED BY <2>1, <2>5 DEF Hashed
  <2> QED BY <2>3, <2>4, <2>6, <2>7
<1>8. CASE r # 3
  <2>1. (n + 1) \div 4 = q /\ (n + 1) % 4 = r + 1
    BY <1>8, DivMod
  <2>2. TakeByte(Hashed(s, v, n, m), s[n + 1])
          = [hash |-> v[q], tail |-> Wide(longer, 4), count |-> r + 1, size |-> m]
    <3> HIDE DEF q, r, piece, longer
    <3>1. PICK g : g = Hashed(s, v, n, m)
      OBVIOUS
    <3>2. g.hash = v[q] /\ g.tail = Wide(piece, 4) /\ g.count = r /\ g.size = m
      BY <3>1, <1>6
    <3>3. TakeByte(g, s[n + 1]) = [g EXCEPT !.tail = Wide(longer, 4), !.count = @ + 1]
      BY <1>5, <1>8, <3>2 DEF TakeByte
    <3> QED BY <3>1, <3>2, <3>3, <1>6
  <2>3. Hashed(s, v, n + 1, m) = [hash |-> v[q], tail |-> Wide(longer, 4), count |-> r + 1, size |-> m]
    <3> HIDE DEF q, r
    <3> QED BY <2>1 DEF Hashed
  <2> QED BY <2>2, <2>3
<1> QED BY <1>7, <1>8

(* What a lemma says of the hasher, as one formula for the provers.        *)
Taken(s, v, n, l, m) ==
  FoldLeft(TakeByte, Hashed(s, v, n, m), SubSeq(s, n + 1, n + l)) = Hashed(s, v, n + l, m)
Mixed(s, v, q, l) ==
  FoldLeft(Mix, v[q], Words(SubSeq(s, 4 * q + 1, 4 * q + l), 4)) = v[q + (l \div 4)]

(* Bytes taken one by one.                                                 *)
LEMMA TakeBytes ==
  ASSUME NEW s \in Seq(Byte), NEW h \in Word, NEW v, HashSteps(s, h, v),
         NEW n \in Nat, NEW l \in Nat, n + l <= Len(s), NEW m \in Nat
  PROVE  Taken(s, v, n, l, m)
<1>0. Len(s) \in Nat
  BY ByteSeq
<1>1. /\ SubSeq(s, n + 1, n + l) \in Seq(Byte) /\ Len(SubSeq(s, n + 1, n + l)) = l
      /\ \A j \in 1 .. l : SubSeq(s, n + 1, n + l)[j] = s[n + j]
  <2>1. n + 1 \in Nat \ {0} /\ n + l \in Nat /\ n + 1 <= (n + l) + 1 /\ (n + l) - (n + 1) + 1 = l
    OBVIOUS
  <2>2. \A j \in 1 .. l : (n + 1) + j - 1 = n + j
    OBVIOUS
  <2> QED BY <2>1, <2>2, SubBytes
<1>2. PICK p : p = SubSeq(s, n + 1, n + l)
  OBVIOUS
<1>3. PICK b : b = Hashed(s, v, n, m)
  OBVIOUS
<1>4. b \in Hasher
  <2>1. n \in 0 .. Len(s)
    BY <1>0
  <2> QED BY <1>3, <2>1, HashedTyped
<1>5. PICK w \in [0 .. Len(p) -> Hasher] :
        /\ w[0] = b /\ \A k \in 1 .. Len(p) : w[k] = TakeByte(w[k - 1], p[k])
        /\ FoldLeft(TakeByte, b, p) = w[Len(p)]
  <2>1. p \in Seq(Byte)
    BY <1>1, <1>2
  <2> QED BY <1>4, <2>1, TakeByteSteps
<1> DEFINE T == {k \in 0 .. l : w[k] = Hashed(s, v, n + k, m)}
<1>6. 0 \in T
  BY <1>3, <1>5
<1>7. ASSUME NEW k \in 1 .. l, k - 1 \in T PROVE k \in T
  <2>1. w[k - 1] = Hashed(s, v, n + (k - 1), m)
    BY <1>7
  <2>2. w[k] = TakeByte(w[k - 1], s[n + k])
    BY <1>1, <1>2, <1>5
  <2>3. n + (k - 1) \in Nat /\ n + (k - 1) < Len(s) /\ (n + (k - 1)) + 1 = n + k /\ k \in 0 .. l
    BY <1>0
  <2>4. TakeByte(Hashed(s, v, n + (k - 1), m), s[n + k]) = Hashed(s, v, n + k, m)
    BY <2>3, TakeByteStep
  <2> QED BY <2>1, <2>2, <2>3, <2>4
<1>8. T = 0 .. l
  <2> HIDE DEF T
  <2>1. T \in SUBSET (0 .. l)
    BY DEF T
  <2> QED BY <2>1, <1>6, <1>7, ByPositions
<1>9. l \in T
  BY <1>8
<1> QED BY <1>1, <1>2, <1>3, <1>5, <1>9 DEF Taken

(* Whole words, from a multiple of four.                                   *)
LEMMA MixWords ==
  ASSUME NEW s \in Seq(Byte), NEW h \in Word, NEW v, HashSteps(s, h, v),
         NEW q \in Nat, NEW l \in Nat, 4 * q + l <= Len(s)
  PROVE  Mixed(s, v, q, l)
<1>0. Len(s) \in Nat
  BY ByteSeq
<1>1. PICK p : p = SubSeq(s, 4 * q + 1, 4 * q + l)
  OBVIOUS
<1>2. p \in Seq(Byte) /\ Len(p) = l /\ \A j \in 1 .. l : p[j] = s[4 * q + j]
  <2>1. 4 * q + 1 \in Nat \ {0} /\ 4 * q + l \in Nat /\ 4 * q + 1 <= (4 * q + l) + 1 /\ (4 * q + l) - (4 * q + 1) + 1 = l
    OBVIOUS
  <2>2. \A j \in 1 .. l : (4 * q + 1) + j - 1 = 4 * q + j
    OBVIOUS
  <2> QED BY <1>1, <2>1, <2>2, SubBytes
<1>3. ASSUME NEW k \in 1 .. l \div 4
      PROVE  Words(p, 4)[k] = Words(s, 4)[q + k] /\ q + k \in 1 .. Len(s) \div 4
  <2>1. q + k \in 1 .. Len(s) \div 4 /\ 4 * k <= l /\ 4 * (q + k) <= Len(s) /\ k \in Nat \ {0}
    BY <1>0
  <2>2. PICK x \in Word : x = Words(p, 4)[k] /\ \A j \in 1 .. 4 : x[j] = p[4 * (k - 1) + j]
    BY <1>2, WordBytes
  <2>3. PICK y \in Word : y = Words(s, 4)[q + k] /\ \A j \in 1 .. 4 : y[j] = s[4 * ((q + k) - 1) + j]
    BY <2>1, WordBytes
  <2>4. ASSUME NEW j \in 1 .. 4 PROVE x[j] = y[j]
    <3>1. 4 * (k - 1) + j \in 1 .. l /\ 4 * q + (4 * (k - 1) + j) = 4 * ((q + k) - 1) + j
      BY <2>1
    <3> QED BY <1>2, <2>2, <2>3, <3>1
  <2>5. x = y
    BY <2>4 DEF Word
  <2> QED BY <2>1, <2>2, <2>3, <2>5
<1>4. v[q] \in Word
  <2>1. q \in 0 .. Len(s) \div 4
    BY <1>0
  <2> QED BY <2>1 DEF HashSteps
<1>5. PICK u : u = Words(p, 4)
  OBVIOUS
<1>6. u \in Seq(Word) /\ Len(u) = l \div 4
  BY <1>2, <1>5, WordsTyped
<1>7. PICK w \in [0 .. Len(u) -> Word] :
        /\ w[0] = v[q] /\ \A k \in 1 .. Len(u) : w[k] = Mix(w[k - 1], u[k])
        /\ FoldLeft(Mix, v[q], u) = w[Len(u)]
  BY <1>4, <1>6, MixSteps
<1>8. PICK c \in Nat : c = l \div 4
  OBVIOUS
<1> DEFINE T == {k \in 0 .. c : w[k] = v[q + k]}
<1>9. 0 \in T
  BY <1>7, <1>8
<1>10. ASSUME NEW k \in 1 .. c, k - 1 \in T PROVE k \in T
  <2>1. w[k - 1] = v[q + (k - 1)]
    BY <1>10
  <2>2. w[k] = Mix(w[k - 1], Words(s, 4)[q + k])
    BY <1>3, <1>5, <1>6, <1>7, <1>8
  <2>3. v[q + k] = Mix(v[(q + k) - 1], Words(s, 4)[q + k])
    BY <1>3, <1>8 DEF HashSteps
  <2>4. q + (k - 1) = (q + k) - 1 /\ k \in 0 .. c
    BY <1>8
  <2> QED BY <2>1, <2>2, <2>3, <2>4
<1>11. T = 0 .. c
  <2>1. T \in SUBSET (0 .. c)
    OBVIOUS
  <2> HIDE DEF T
  <2> QED BY <2>1, <1>9, <1>10, ByPositions
<1>12. c \in T
  BY <1>8, <1>11
<1> QED BY <1>1, <1>5, <1>6, <1>7, <1>8, <1>12 DEF Mixed

(* A piece of a piece.                                                     *)
LEMMA PieceOfPiece ==
  ASSUME NEW s \in Seq(Byte), NEW n \in Nat, NEW l \in Nat, n + l <= Len(s),
         NEW a \in Nat, NEW b \in Nat, a + b <= l
  PROVE  SubSeq(SubSeq(s, n + 1, n + l), a + 1, a + b) = SubSeq(s, (n + a) + 1, (n + a) + b)
<1>0. Len(s) \in Nat
  BY ByteSeq
<1>1. PICK p : p = SubSeq(s, n + 1, n + l)
  OBVIOUS
<1>2. p \in Seq(Byte) /\ Len(p) = l /\ \A j \in 1 .. l : p[j] = s[n + j]
  <2>1. n + 1 \in Nat \ {0} /\ n + l \in Nat /\ n + 1 <= (n + l) + 1 /\ (n + l) - (n + 1) + 1 = l
    OBVIOUS
  <2>2. \A j \in 1 .. l : (n + 1) + j - 1 = n + j
    OBVIOUS
  <2> QED BY <1>1, <2>1, <2>2, SubBytes
<1>3. PICK x : x = SubSeq(p, a + 1, a + b)
  OBVIOUS
<1>4. x \in Seq(Byte) /\ Len(x) = b /\ \A j \in 1 .. b : x[j] = p[a + j]
  <2>1. a + 1 \in Nat \ {0} /\ a + b \in Nat /\ a + b <= Len(p) /\ a + 1 <= (a + b) + 1 /\ (a + b) - (a + 1) + 1 = b
    BY <1>2
  <2>2. \A j \in 1 .. b : (a + 1) + j - 1 = a + j
    OBVIOUS
  <2> QED BY <1>2, <1>3, <2>1, <2>2, SubBytes
<1>5. PICK y : y = SubSeq(s, (n + a) + 1, (n + a) + b)
  OBVIOUS
<1>6. y \in Seq(Byte) /\ Len(y) = b /\ \A j \in 1 .. b : y[j] = s[(n + a) + j]
  <2>1. /\ (n + a) + 1 \in Nat \ {0} /\ (n + a) + b \in Nat /\ (n + a) + b <= Len(s)
        /\ (n + a) + 1 <= ((n + a) + b) + 1 /\ ((n + a) + b) - ((n + a) + 1) + 1 = b
    BY <1>0
  <2>2. \A j \in 1 .. b : ((n + a) + 1) + j - 1 = (n + a) + j
    OBVIOUS
  <2> QED BY <1>5, <2>1, <2>2, SubBytes
<1>7. ASSUME NEW j \in 1 .. b PROVE x[j] = y[j]
  <2>1. a + j \in 1 .. l /\ n + (a + j) = (n + a) + j
    OBVIOUS
  <2> QED BY <1>2, <1>4, <1>6, <2>1
<1>8. x = y
  BY <1>4, <1>6, <1>7, SeqEqual
<1> QED BY <1>1, <1>3, <1>5, <1>8

TailTaken(s, v, n, l, m, k) ==
  /\ k = l \/ (l - k >= 4 /\ (n + k) % 4 = 0)
  /\ MixTail(Hashed(s, v, n, m), SubSeq(s, n + 1, n + l))
       = [hasher |-> Hashed(s, v, n + k, m), data |-> SubSeq(s, (n + k) + 1, n + l)]

(* MixTail takes the bytes up to the end of a word, or all.                *)
LEMMA MixTailTakes ==
  ASSUME NEW s \in Seq(Byte), NEW h \in Word, NEW v, HashSteps(s, h, v),
         NEW n \in Nat, NEW l \in Nat, n + l <= Len(s), NEW m \in Nat
  PROVE  \E k \in 0 .. l : TailTaken(s, v, n, l, m, k)
<1>0. Len(s) \in Nat
  BY ByteSeq
<1>1. PICK p : p = SubSeq(s, n + 1, n + l)
  OBVIOUS
<1>2. PICK b : b = Hashed(s, v, n, m)
  OBVIOUS
<1>3. Len(p) = l
  <2>1. n + 1 \in Nat \ {0} /\ n + l \in Nat /\ n + 1 <= (n + l) + 1 /\ (n + l) - (n + 1) + 1 = l
    OBVIOUS
  <2> QED BY <1>1, <2>1, SubBytes
<1> DEFINE T == {k \in 0 .. Len(p) : k = Len(p) \/ (Len(p) - k >= 4 /\ (b.count + k) % 4 = 0)}
<1>4. Min(T) \in T
  <2>1. T \in SUBSET Nat /\ l \in T
    BY <1>3
  <2> HIDE DEF T
  <2> QED BY <2>1, LeastOfSet
<1>5. PICK k : k = Min(T)
  OBVIOUS
<1>6. k \in 0 .. l /\ (k = l \/ (l - k >= 4 /\ (b.count + k) % 4 = 0))
  BY <1>3, <1>4, <1>5
<1>7. (b.count + k) % 4 = (n + k) % 4
  <2>1. b.count = n % 4
    BY <1>2 DEF Hashed
  <2>2. \A x \in Nat : ((n % 4) + x) % 4 = (n + x) % 4
    <3>1. n \div 4 \in Nat /\ n % 4 \in 0 .. 3 /\ n = 4 * (n \div 4) + (n % 4)
      BY DivMod
    <3>2. \A q, r, x \in Nat : (r + x) % 4 = (4 * q + r + x) % 4
      OBVIOUS
    <3> QED BY <3>1, <3>2
  <2> QED BY <1>6, <2>1, <2>2
<1>8. MixTail(b, p) = [hasher |-> FoldLeft(TakeByte, b, SubSeq(p, 1, k)), data |-> SubSeq(p, k + 1, Len(p))]
  BY <1>5 DEF MixTail
<1>9. SubSeq(p, 1, k) = SubSeq(s, n + 1, n + k)
  <2>1. 0 + k <= l /\ 0 + 1 = 1 /\ 0 + k = k /\ n + 0 = n /\ 0 \in Nat /\ k \in Nat
    BY <1>6
  <2> QED BY <1>1, <2>1, PieceOfPiece
<1>10. SubSeq(p, k + 1, l) = SubSeq(s, (n + k) + 1, n + l)
  <2>1. k \in Nat /\ l - k \in Nat /\ k + (l - k) <= l /\ k + (l - k) = l /\ (n + k) + (l - k) = n + l
    BY <1>6
  <2> QED BY <1>1, <2>1, PieceOfPiece
<1>11. FoldLeft(TakeByte, b, SubSeq(s, n + 1, n + k)) = Hashed(s, v, n + k, m)
  <2>1. k \in Nat /\ n + k <= Len(s)
    BY <1>0, <1>6
  <2>2. Taken(s, v, n, k, m)
    BY <2>1, TakeBytes
  <2> QED BY <1>2, <2>2 DEF Taken
<1> HIDE DEF T
<1>12. TailTaken(s, v, n, l, m, k)
  BY <1>1, <1>2, <1>3, <1>6, <1>7, <1>8, <1>9, <1>10, <1>11 DEF TailTaken
<1> QED BY <1>6, <1>12

(* Add brings the hasher from n bytes to n + l, whatever n and l are.      *)
LEMMA AddStep ==
  ASSUME NEW s \in Seq(Byte), NEW h \in Word, NEW v, HashSteps(s, h, v),
         NEW n \in Nat, NEW l \in Nat, n + l <= Len(s)
  PROVE  Add(Hashed(s, v, n, n), SubSeq(s, n + 1, n + l)) = Hashed(s, v, n + l, n + l)
<1>0. Len(s) \in Nat /\ n + l \in Nat
  BY ByteSeq
<1>1. PICK p : p = SubSeq(s, n + 1, n + l)
  OBVIOUS
<1>2. PICK m \in Nat : m = n + l
  BY <1>0
<1>3. Len(p) = l
  <2>1. n + 1 \in Nat \ {0} /\ n + l \in Nat /\ n + 1 <= (n + l) + 1 /\ (n + l) - (n + 1) + 1 = l
    OBVIOUS
  <2> QED BY <1>1, <2>1, SubBytes
<1>4. [Hashed(s, v, n, n) EXCEPT !.size = @ + Len(p)] = Hashed(s, v, n, m)
  <2>1. PICK r : r = Hashed(s, v, n, n)
    OBVIOUS
  <2>2. r = [hash |-> r.hash, tail |-> r.tail, count |-> r.count, size |-> n]
    BY <2>1 DEF Hashed
  <2>3. Hashed(s, v, n, m) = [hash |-> r.hash, tail |-> r.tail, count |-> r.count, size |-> m]
    BY <2>1 DEF Hashed
  <2>4. n + Len(p) = m
    BY <1>2, <1>3
  <2>5. r.size = n
    BY <2>1 DEF Hashed
  <2>6. [r EXCEPT !.size = @ + Len(p)] = [r EXCEPT !.size = m]
    BY <2>4, <2>5
  <2> QED BY <2>1, <2>2, <2>3, <2>6
<1>50. PICK k \in 0 .. l : TailTaken(s, v, n, l, m, k)
  BY MixTailTakes
<1>5. /\ k = l \/ (l - k >= 4 /\ (n + k) % 4 = 0)
      /\ MixTail(Hashed(s, v, n, m), p) = [hasher |-> Hashed(s, v, n + k, m), data |-> SubSeq(s, (n + k) + 1, n + l)]
  BY <1>1, <1>50 DEF TailTaken
<1>6. PICK e \in Nat : e = n + k
  OBVIOUS
<1>7. PICK g : g = Hashed(s, v, e, m)
  OBVIOUS
<1>8. PICK d : d = SubSeq(s, e + 1, n + l)
  OBVIOUS
<1>9. Add(Hashed(s, v, n, n), p) = MixTail([g EXCEPT !.hash = FoldLeft(Mix, @, Words(d, 4))], Rest(d, 4)).hasher
  <2>1. PICK f : f = MixTail(Hashed(s, v, n, m), p)
    OBVIOUS
  <2>2. f.hasher = g /\ f.data = d
    BY <1>5, <1>6, <1>7, <1>8, <2>1
  <2> QED BY <1>4, <2>1, <2>2 DEF Add
<1>10. d \in Seq(Byte) /\ Len(d) = l - k /\ l - k \in Nat
  <2>1. /\ e + 1 \in Nat \ {0} /\ n + l \in Nat /\ e + 1 <= (n + l) + 1 /\ (n + l) - (e + 1) + 1 = l - k
        /\ l - k \in Nat
    BY <1>6
  <2> QED BY <1>8, <2>1, SubBytes
<1>11. PICK a \in Nat : a = 4 * ((l - k) \div 4)
  BY <1>10
<1>12. a <= l - k /\ l - k - a < 4 /\ e + (l - k) = m /\ (l - k) \div 4 = a \div 4 /\ a % 4 = 0
  BY <1>2, <1>6, <1>10, <1>11
<1>13. Rest(d, 4) = SubSeq(s, (e + a) + 1, m)
  <2>1. Rest(d, 4) = SubSeq(d, a + 1, l - k)
    BY <1>10, <1>11 DEF Rest
  <2>2. PICK o \in Nat : o = l - k
    BY <1>10
  <2>3. d = SubSeq(s, e + 1, e + o) /\ e + o <= Len(s) /\ o - a \in Nat /\ a + (o - a) <= o /\ a + (o - a) = o
        /\ (e + a) + (o - a) = m
    BY <1>0, <1>2, <1>8, <1>12, <2>2
  <2>4. SubSeq(SubSeq(s, e + 1, e + o), a + 1, a + (o - a)) = SubSeq(s, (e + a) + 1, (e + a) + (o - a))
    BY <2>3, PieceOfPiece
  <2> QED BY <2>1, <2>2, <2>3, <2>4
<1>14. [g EXCEPT !.hash = FoldLeft(Mix, @, Words(d, 4))] = Hashed(s, v, e + a, m)
  <2>1. CASE l - k = 0
    <3>1. a = 0 /\ e + a = e
      BY <1>11, <1>12, <2>1
    <3>2. Words(d, 4) \in Seq(Word) /\ Len(Words(d, 4)) = 0
      <4>1. 0 \div 4 = 0
        OBVIOUS
      <4> QED BY <1>10, <2>1, <4>1, WordsTyped
    <3>3. g.hash \in Word
      <4>1. e \in 0 .. Len(s)
        BY <1>0, <1>6
      <4>2. g \in Hasher
        BY <1>7, <4>1, HashedTyped
      <4> QED BY <4>2 DEF Hasher
    <3>4. FoldLeft(Mix, g.hash, Words(d, 4)) = g.hash
      <4>1. PICK u \in Seq(Word) : u = Words(d, 4)
        BY <3>2
      <4>2. PICK w \in [0 .. Len(u) -> Word] : w[0] = g.hash /\ FoldLeft(Mix, g.hash, u) = w[Len(u)]
        BY <3>3, MixSteps
      <4> QED BY <3>2, <4>1, <4>2
    <3>5. [g EXCEPT !.hash = FoldLeft(Mix, @, Words(d, 4))] = [g EXCEPT !.hash = g.hash]
      BY <3>4
    <3>6. g = [g EXCEPT !.hash = g.hash]
      BY <1>7 DEF Hashed
    <3> QED BY <1>7, <3>1, <3>5, <3>6
  <2>2. CASE l - k # 0
    <3>1. e % 4 = 0
      BY <1>5, <1>6, <2>2
    <3>2. PICK q \in Nat : q = e \div 4
      OBVIOUS
    <3>3. e = 4 * q
      BY <3>1, <3>2
    <3>4. (e + a) \div 4 = q + ((l - k) \div 4) /\ (e + a) % 4 = 0 /\ 4 * ((e + a) \div 4) = e + a
      BY <1>10, <1>11, <3>3
    <3>5. FoldLeft(Mix, v[q], Words(d, 4)) = v[(e + a) \div 4]
      <4>1. 4 * q + (l - k) <= Len(s) /\ 4 * q + (l - k) = n + l
        BY <1>0, <1>2, <1>12, <3>3
      <4>2. d = SubSeq(s, 4 * q + 1, 4 * q + (l - k))
        BY <1>8, <3>3, <4>1
      <4>3. FoldLeft(Mix, v[q], Words(SubSeq(s, 4 * q + 1, 4 * q + (l - k)), 4)) = v[q + ((l - k) \div 4)]
        <5>1. PICK o \in Nat : o = l - k
          BY <1>10
        <5>2. Mixed(s, v, q, o)
          BY <4>1, <5>1, MixWords
        <5> QED BY <5>1, <5>2 DEF Mixed
      <4> QED BY <3>4, <4>2, <4>3
    <3>6. SubSeq(s, 4 * (e \div 4) + 1, e) = <<>> /\ SubSeq(s, 4 * ((e + a) \div 4) + 1, e + a) = <<>>
      <4>1. 4 * (e \div 4) + 1 > e /\ 4 * ((e + a) \div 4) + 1 > e + a
        BY <3>2, <3>3, <3>4
      <4>2. 4 * (e \div 4) + 1 \in Int /\ 4 * ((e + a) \div 4) + 1 \in Int /\ e \in Int /\ e + a \in Int
        OBVIOUS
      <4> QED BY <4>1, <4>2, EmptyPiece
    <3>7. g = [hash |-> v[q], tail |-> Wide(<<>>, 4), count |-> 0, size |-> m]
      BY <1>7, <3>1, <3>2, <3>6 DEF Hashed
    <3>8. Hashed(s, v, e + a, m) = [hash |-> v[(e + a) \div 4], tail |-> Wide(<<>>, 4), count |-> 0, size |-> m]
      BY <3>4, <3>6 DEF Hashed
    <3> QED BY <3>5, <3>7, <3>8
  <2> QED BY <2>1, <2>2
<1>15. MixTail(Hashed(s, v, e + a, m), SubSeq(s, (e + a) + 1, m)).hasher = Hashed(s, v, m, m)
  <2>1. PICK o \in Nat : o = l - k - a
    BY <1>10, <1>12
  <2>2. e + a \in Nat /\ (e + a) + o = m /\ (e + a) + o <= Len(s) /\ o < 4
    BY <1>0, <1>2, <1>12, <2>1
  <2>3. PICK c \in Nat : c = e + a
    OBVIOUS
  <2>4. PICK x \in 0 .. o : TailTaken(s, v, c, o, m, x)
    BY <2>2, <2>3, MixTailTakes
  <2>5. x = o
    BY <2>2, <2>4 DEF TailTaken
  <2>6. MixTail(Hashed(s, v, c, m), SubSeq(s, c + 1, c + o)).hasher = Hashed(s, v, c + o, m)
    BY <2>4, <2>5 DEF TailTaken
  <2> QED BY <2>2, <2>3, <2>6
<1> QED BY <1>1, <1>2, <1>9, <1>13, <1>14, <1>15

LEMMA HashStepsExist ==
  ASSUME NEW s \in Seq(Byte), NEW h \in Word
  PROVE  \E v : HashSteps(s, h, v) /\ FoldLeft(Mix, h, Words(s, 4)) = v[Len(s) \div 4]
<1>1. Words(s, 4) \in Seq(Word) /\ Len(Words(s, 4)) = Len(s) \div 4
  BY WordsTyped
<1>2. PICK v \in [0 .. Len(Words(s, 4)) -> Word] :
        /\ v[0] = h /\ \A k \in 1 .. Len(Words(s, 4)) : v[k] = Mix(v[k - 1], Words(s, 4)[k])
        /\ FoldLeft(Mix, h, Words(s, 4)) = v[Len(Words(s, 4))]
  BY <1>1, MixSteps
<1> QED BY <1>1, <1>2 DEF HashSteps

(* The hasher at the end gives the hash, and begins as after no byte.      *)
LEMMA EndIsHash ==
  ASSUME NEW s \in Seq(Byte), NEW h \in Word, NEW v, HashSteps(s, h, v)
  PROVE  /\ End(Hashed(s, v, Len(s), Len(s))) = MurmurHash2A(s, h)
         /\ Begun(h) = Hashed(s, v, 0, 0)
<1>0. Len(s) \in Nat
  BY ByteSeq
<1>1. FoldLeft(Mix, h, Words(s, 4)) = v[Len(s) \div 4]
  <2>1. 4 * 0 + Len(s) <= Len(s) /\ 4 * 0 + 1 = 1 /\ 4 * 0 + Len(s) = Len(s) /\ 0 + (Len(s) \div 4) = Len(s) \div 4
    BY <1>0
  <2>2. SubSeq(s, 1, Len(s)) = s
    BY <1>0
  <2>3. FoldLeft(Mix, v[0], Words(SubSeq(s, 4 * 0 + 1, 4 * 0 + Len(s)), 4)) = v[0 + (Len(s) \div 4)]
    <3>1. Mixed(s, v, 0, Len(s))
      BY <1>0, <2>1, MixWords
    <3> QED BY <3>1 DEF Mixed
  <2> QED BY <2>1, <2>2, <2>3 DEF HashSteps
<1>2. SubSeq(s, 1, 0) = <<>>
  BY EmptyPiece
<1>3. Begun(h) = Hashed(s, v, 0, 0)
  <2>1. 0 \div 4 = 0 /\ 0 % 4 = 0 /\ 4 * 0 + 1 = 1
    OBVIOUS
  <2>2. Hashed(s, v, 0, 0) = [hash |-> v[0], tail |-> Wide(<<>>, 4), count |-> 0, size |-> 0]
    BY <1>2, <2>1 DEF Hashed
  <2> QED BY <2>2 DEF Begun, HashSteps
<1>4. End(Hashed(s, v, Len(s), Len(s))) = MurmurHash2A(s, h)
  <2>1. PICK r : r = Hashed(s, v, Len(s), Len(s))
    OBVIOUS
  <2>2. r.hash = v[Len(s) \div 4] /\ r.tail = Wide(Rest(s, 4), 4) /\ r.size = Len(s)
    BY <2>1 DEF Hashed, Rest
  <2>3. End(r) = Final(Mix(Mix(v[Len(s) \div 4], Wide(Rest(s, 4), 4)), FromInt(Len(s), 4)))
    BY <2>2 DEF End
  <2>4. MurmurHash2A(s, h) = Final(Mix(Mix(FoldLeft(Mix, h, Words(s, 4)), Wide(Rest(s, 4), 4)), FromInt(Len(s), 4)))
    BY DEF MurmurHash2A
  <2> QED BY <1>1, <2>1, <2>3, <2>4
<1> QED BY <1>3, <1>4

----------------------------------------------------------------------------
(* The neutral version *)

(* A word put together from its bytes.                                     *)
LEMMA WordOfBytes ==
  ASSUME NEW x \in Word
  PROVE  Exor(Exor(Exor(ShiftLeft(Wide(<<x[1]>>, 4), 0), ShiftLeft(Wide(<<x[2]>>, 4), 1)),
                   ShiftLeft(Wide(<<x[3]>>, 4), 2)), ShiftLeft(Wide(<<x[4]>>, 4), 3)) = x
<1>1. x[1] \in Byte /\ x[2] \in Byte /\ x[3] \in Byte /\ x[4] \in Byte /\ 0 \in Byte
  BY DEF Word, Byte
<1>2. PICK a \in Word : /\ a = ShiftLeft(Wide(<<x[1]>>, 4), 0)
                       /\ \A j \in 1 .. 4 : a[j] = IF j = 1 THEN x[1] ELSE 0
  <2>1. PICK m \in 0 .. 3 : m = 0
    OBVIOUS
  <2>2. PICK y \in Byte : y = x[1]
    BY <1>1
  <2>3. PICK o : o = ShiftLeft(Wide(<<y>>, 4), m)
    OBVIOUS
  <2>4. o \in Word /\ o = [j \in 1 .. 4 |-> IF j = m + 1 THEN y ELSE 0]
    BY <2>3, OneByte
  <2>5. \A j \in 1 .. 4 : o[j] = IF j = 1 THEN x[1] ELSE 0
    BY <2>1, <2>2, <2>4
  <2> QED BY <2>1, <2>2, <2>3, <2>4, <2>5
<1>3. PICK b \in Word : /\ b = ShiftLeft(Wide(<<x[2]>>, 4), 1)
                       /\ \A j \in 1 .. 4 : b[j] = IF j = 2 THEN x[2] ELSE 0
  <2>1. PICK m \in 0 .. 3 : m = 1
    OBVIOUS
  <2>2. PICK y \in Byte : y = x[2]
    BY <1>1
  <2>3. PICK o : o = ShiftLeft(Wide(<<y>>, 4), m)
    OBVIOUS
  <2>4. o \in Word /\ o = [j \in 1 .. 4 |-> IF j = m + 1 THEN y ELSE 0]
    BY <2>3, OneByte
  <2>5. \A j \in 1 .. 4 : o[j] = IF j = 2 THEN x[2] ELSE 0
    BY <2>1, <2>2, <2>4
  <2> QED BY <2>1, <2>2, <2>3, <2>4, <2>5
<1>4. PICK c \in Word : /\ c = ShiftLeft(Wide(<<x[3]>>, 4), 2)
                       /\ \A j \in 1 .. 4 : c[j] = IF j = 3 THEN x[3] ELSE 0
  <2>1. PICK m \in 0 .. 3 : m = 2
    OBVIOUS
  <2>2. PICK y \in Byte : y = x[3]
    BY <1>1
  <2>3. PICK o : o = ShiftLeft(Wide(<<y>>, 4), m)
    OBVIOUS
  <2>4. o \in Word /\ o = [j \in 1 .. 4 |-> IF j = m + 1 THEN y ELSE 0]
    BY <2>3, OneByte
  <2>5. \A j \in 1 .. 4 : o[j] = IF j = 3 THEN x[3] ELSE 0
    BY <2>1, <2>2, <2>4
  <2> QED BY <2>1, <2>2, <2>3, <2>4, <2>5
<1>5. PICK d \in Word : /\ d = ShiftLeft(Wide(<<x[4]>>, 4), 3)
                       /\ \A j \in 1 .. 4 : d[j] = IF j = 4 THEN x[4] ELSE 0
  <2>1. PICK m \in 0 .. 3 : m = 3
    OBVIOUS
  <2>2. PICK y \in Byte : y = x[4]
    BY <1>1
  <2>3. PICK o : o = ShiftLeft(Wide(<<y>>, 4), m)
    OBVIOUS
  <2>4. o \in Word /\ o = [j \in 1 .. 4 |-> IF j = m + 1 THEN y ELSE 0]
    BY <2>3, OneByte
  <2>5. \A j \in 1 .. 4 : o[j] = IF j = 4 THEN x[4] ELSE 0
    BY <2>1, <2>2, <2>4
  <2> QED BY <2>1, <2>2, <2>3, <2>4, <2>5
<1>6. PICK ab \in Word : ab = Exor(a, b)
  BY ExorTyped
<1>7. PICK abc \in Word : abc = Exor(ab, c)
  BY ExorTyped
<1>8. ASSUME NEW j \in 1 .. 4 PROVE Exor(abc, d)[j] = x[j]
  <2>1. ab[j] = Xor(a[j], b[j]) /\ abc[j] = Xor(ab[j], c[j]) /\ Exor(abc, d)[j] = Xor(abc[j], d[j])
    BY <1>6, <1>7 DEF Exor, Word
  <2>2. \A y \in Byte : Xor(y, 0) = y /\ Xor(0, y) = y
    BY XorByte
  <2>3. CASE j = 1
    <3>1. a[j] = x[j] /\ b[j] = 0 /\ c[j] = 0 /\ d[j] = 0
      BY <1>2, <1>3, <1>4, <1>5, <2>3
    <3> QED BY <1>1, <2>1, <2>2, <2>3, <3>1
  <2>4. CASE j = 2
    <3>1. a[j] = 0 /\ b[j] = x[j] /\ c[j] = 0 /\ d[j] = 0
      BY <1>2, <1>3, <1>4, <1>5, <2>4
    <3> QED BY <1>1, <2>1, <2>2, <2>4, <3>1
  <2>5. CASE j = 3
    <3>1. a[j] = 0 /\ b[j] = 0 /\ c[j] = x[j] /\ d[j] = 0
      BY <1>2, <1>3, <1>4, <1>5, <2>5
    <3> QED BY <1>1, <2>1, <2>2, <2>5, <3>1
  <2>6. CASE j = 4
    <3>1. a[j] = 0 /\ b[j] = 0 /\ c[j] = 0 /\ d[j] = x[j]
      BY <1>2, <1>3, <1>4, <1>5, <2>6
    <3> QED BY <1>1, <2>1, <2>2, <2>6, <3>1
  <2> QED BY <2>3, <2>4, <2>5, <2>6
<1>9. Exor(abc, d) \in Word
  BY ExorTyped
<1>10. Exor(abc, d) = x
  BY <1>8, <1>9 DEF Word
<1> QED BY <1>2, <1>3, <1>4, <1>5, <1>6, <1>7, <1>10

LEMMA NeutralAgrees ==
  ASSUME NEW s \in Seq(Byte), NEW h \in Word
  PROVE  MurmurHashNeutral2(s, h) = MurmurHash2(s, h)
<1> DEFINE byte(k, b) == ShiftLeft(Wide(<<s[4 * (k - 1) + b]>>, 4), b - 1)
           word(k) == Exor(Exor(Exor(byte(k, 1), byte(k, 2)), byte(k, 3)), byte(k, 4))
           built == [k \in 1 .. Len(s) \div 4 |-> word(k)]
<1>0. Len(s) \in Nat
  BY ByteSeq
<1>1. ASSUME NEW k \in 1 .. Len(s) \div 4 PROVE word(k) = Words(s, 4)[k]
  <2>1. PICK x : x = Words(s, 4)[k]
    OBVIOUS
  <2>2. x \in Word /\ \A j \in 1 .. 4 : x[j] = s[4 * (k - 1) + j]
    BY <2>1, WordBytes
  <2>4. /\ byte(k, 1) = ShiftLeft(Wide(<<x[1]>>, 4), 0) /\ byte(k, 2) = ShiftLeft(Wide(<<x[2]>>, 4), 1)
        /\ byte(k, 3) = ShiftLeft(Wide(<<x[3]>>, 4), 2) /\ byte(k, 4) = ShiftLeft(Wide(<<x[4]>>, 4), 3)
    <3>1. 1 - 1 = 0 /\ 2 - 1 = 1 /\ 3 - 1 = 2 /\ 4 - 1 = 3
      OBVIOUS
    <3>2. s[4 * (k - 1) + 1] = x[1] /\ s[4 * (k - 1) + 2] = x[2]
          /\ s[4 * (k - 1) + 3] = x[3] /\ s[4 * (k - 1) + 4] = x[4]
      BY <2>2
    <3> QED BY <3>1, <3>2, Zenon
  <2> HIDE DEF byte
  <2>5. word(k) = x
    BY <2>2, <2>4, WordOfBytes
  <2> QED BY <2>1, <2>5
<1>2. built = Words(s, 4)
  <2>1. built = [k \in 1 .. Len(s) \div 4 |-> Words(s, 4)[k]]
    BY <1>1
  <2>2. Words(s, 4) = [k \in 1 .. Len(s) \div 4 |-> Words(s, 4)[k]]
    BY DEF Words
  <2> QED BY <2>1, <2>2
<1>3. MurmurHashNeutral2(s, h) = Final(MixRest(FoldLeft(Mix, Exor(h, FromInt(Len(s), 4)), built), Rest(s, 4)))
  BY DEF MurmurHashNeutral2
<1>4. MurmurHash2(s, h) = Final(MixRest(FoldLeft(Mix, Exor(h, FromInt(Len(s), 4)), Words(s, 4)), Rest(s, 4)))
  BY DEF MurmurHash2
<1> QED BY <1>2, <1>3, <1>4

----------------------------------------------------------------------------
(* The aligned version *)

LEMMA JoinedBytes ==
  ASSUME NEW t \in Word, NEW d \in Word, NEW a \in 1 .. 3
  PROVE  Joined(t, d, a) = [j \in 1 .. 4 |-> IF j <= 4 - a THEN t[j + a] ELSE d[j - (4 - a)]]
<1>1. DOMAIN t = 1 .. 4 /\ DOMAIN d = 1 .. 4 /\ (\A j \in 1 .. 4 : t[j] \in Byte /\ d[j] \in Byte) /\ 0 \in Byte
  BY DEF Word, Byte
<1>2. ASSUME NEW j \in 1 .. 4
      PROVE  Xor(ShiftLeft(t, -a)[j], ShiftLeft(d, 4 - a)[j]) = IF j <= 4 - a THEN t[j + a] ELSE d[j - (4 - a)]
  <2>1. ShiftLeft(t, -a)[j] = At(t, j - (-a)) /\ ShiftLeft(d, 4 - a)[j] = At(d, j - (4 - a))
    BY <1>1 DEF ShiftLeft
  <2>2. \A y \in Byte : Xor(y, 0) = y /\ Xor(0, y) = y
    BY XorByte
  <2>3. CASE j <= 4 - a
    <3>1. j - (-a) = j + a /\ j + a \in 1 .. 4 /\ j - (4 - a) \notin 1 .. 4
      BY <2>3
    <3>2. At(t, j - (-a)) = t[j + a] /\ At(d, j - (4 - a)) = 0
      BY <1>1, <3>1 DEF At
    <3> QED BY <1>1, <2>1, <2>2, <2>3, <3>1, <3>2
  <2>4. CASE j > 4 - a
    <3>1. j - (-a) \notin 1 .. 4 /\ j - (4 - a) \in 1 .. 4 /\ ~(j <= 4 - a)
      BY <2>4
    <3>2. At(t, j - (-a)) = 0 /\ At(d, j - (4 - a)) = d[j - (4 - a)]
      BY <1>1, <3>1 DEF At
    <3> QED BY <1>1, <2>1, <2>2, <3>1, <3>2
  <2> QED BY <2>3, <2>4
<1>3. DOMAIN ShiftLeft(t, -a) = 1 .. 4
  BY <1>1 DEF ShiftLeft
<1> QED BY <1>2, <1>3 DEF Joined, Exor

(* What the aligned version has read of s: the first bytes, and the others *)
(* as words.                                                               *)
Upper(s, a) == ShiftLeft(Wide(SubSeq(s, 1, 4 - a), 4), a)
Behind(s, a) == SubSeq(s, 5 - a, Len(s))
Reads(s, a) == <<Upper(s, a)>> \o Words(Behind(s, a), 4)

LEMMA UpperBytes ==
  ASSUME NEW s \in Seq(Byte), NEW a \in 1 .. 3, Len(s) >= 4
  PROVE  Upper(s, a) \in Word /\ \A j \in 1 .. 4 - a : Upper(s, a)[j + a] = s[j]
<1>0. Len(s) \in Nat
  BY ByteSeq
<1>1. PICK p : p = SubSeq(s, 1, 4 - a)
  OBVIOUS
<1>2. p \in Seq(Byte) /\ Len(p) = 4 - a /\ \A j \in 1 .. 4 - a : p[j] = s[j]
  <2>1. 1 \in Nat \ {0} /\ 4 - a \in Nat /\ 4 - a <= Len(s) /\ 1 <= (4 - a) + 1 /\ (4 - a) - 1 + 1 = 4 - a
    BY <1>0
  <2>2. \A j \in 1 .. 4 - a : 1 + j - 1 = j
    OBVIOUS
  <2> QED BY <1>1, <2>1, <2>2, SubBytes
<1>3. PICK x \in Word : x = Wide(p, 4)
  BY <1>2, WideTyped
<1>4. DOMAIN x = 1 .. 4 /\ (\A j \in 1 .. 4 : x[j] \in Byte) /\ 0 \in Byte
  BY DEF Word, Byte
<1>5. ASSUME NEW j \in 1 .. 4 PROVE At(x, j - a) \in Byte
  BY <1>4 DEF At
<1>6. ShiftLeft(x, a) = [j \in 1 .. 4 |-> At(x, j - a)]
  BY <1>4 DEF ShiftLeft
<1>7. ASSUME NEW j \in 1 .. 4 - a PROVE ShiftLeft(x, a)[j + a] = s[j]
  <2>1. j + a \in 1 .. 4 /\ (j + a) - a = j /\ j \in 1 .. 4
    OBVIOUS
  <2>2. ShiftLeft(x, a)[j + a] = x[j]
    BY <1>4, <1>6, <2>1 DEF At
  <2>3. x[j] = p[j]
    BY <1>2, <1>3, <2>1 DEF Wide, At
  <2> QED BY <1>2, <2>2, <2>3
<1>8. ShiftLeft(x, a) \in Word
  BY <1>5, <1>6 DEF Word
<1> QED BY <1>1, <1>3, <1>7, <1>8 DEF Upper

LEMMA BehindBytes ==
  ASSUME NEW s \in Seq(Byte), NEW a \in 1 .. 3, Len(s) >= 4
  PROVE  /\ Behind(s, a) \in Seq(Byte) /\ Len(Behind(s, a)) = Len(s) - 4 + a
         /\ \A j \in 1 .. Len(s) - 4 + a : Behind(s, a)[j] = s[4 - a + j]
<1>0. Len(s) \in Nat
  BY ByteSeq
<1>1. /\ 5 - a \in Nat \ {0} /\ 5 - a <= Len(s) + 1 /\ Len(s) - (5 - a) + 1 = Len(s) - 4 + a
      /\ \A j \in 1 .. Len(s) - 4 + a : (5 - a) + j - 1 = 4 - a + j
  BY <1>0
<1> QED BY <1>0, <1>1, SubBytes DEF Behind

(* The k-th word read holds the beginning of the k-th word of s.           *)
ReadFrom(s, a, c, r) ==
  /\ r \in Seq(Word) /\ Len(r) = c + 1
  /\ \A k \in 1 .. c : \A j \in 1 .. 4 : r[k + 1][j] = s[4 * k - a + j]
  /\ \A k \in 1 .. c + 1 : \A j \in 1 .. 4 - a : r[k][j + a] = s[4 * (k - 1) + j]

LEMMA ReadsBytes ==
  ASSUME NEW s \in Seq(Byte), NEW a \in 1 .. 3, Len(s) >= 4
  PROVE  ReadFrom(s, a, Len(Behind(s, a)) \div 4, Reads(s, a))
<1> DEFINE c == Len(Behind(s, a)) \div 4
<1>0. Len(s) \in Nat
  BY ByteSeq
<1>1. PICK d : d = Behind(s, a)
  OBVIOUS
<1>2. d \in Seq(Byte) /\ Len(d) = Len(s) - 4 + a /\ \A j \in 1 .. Len(s) - 4 + a : d[j] = s[4 - a + j]
  BY <1>1, BehindBytes
<1>3. c \in Nat /\ 4 * c <= Len(s) - 4 + a
  BY <1>0, <1>1, <1>2
<1>4. PICK u : u = Words(d, 4)
  OBVIOUS
<1>5. u \in Seq(Word) /\ Len(u) = c /\ \A k \in 1 .. c : u[k] = SubSeq(d, 4 * (k - 1) + 1, 4 * k)
  BY <1>1, <1>2, <1>4, WordsTyped
<1>6. PICK t \in Word : t = Upper(s, a) /\ \A j \in 1 .. 4 - a : t[j + a] = s[j]
  BY UpperBytes
<1>7. PICK r : r = <<t>> \o u
  OBVIOUS
<1>8. r \in Seq(Word) /\ Len(r) = c + 1 /\ r[1] = t /\ \A k \in 1 .. c : r[k + 1] = u[k]
  <2>1. <<t>> \in Seq(Word) /\ Len(<<t>>) = 1 /\ <<t>>[1] = t
    OBVIOUS
  <2>2. r \in Seq(Word) /\ Len(r) = 1 + c
    BY <1>3, <1>5, <1>7, <2>1
  <2>3. r[1] = t /\ \A k \in 1 .. c : r[k + 1] = u[k]
    BY <1>3, <1>5, <1>7, <2>1
  <2> QED BY <1>3, <2>2, <2>3
<1>9. Reads(s, a) = r
  BY <1>1, <1>4, <1>6, <1>7 DEF Reads
<1>10. ASSUME NEW k \in 1 .. c, NEW j \in 1 .. 4 PROVE r[k + 1][j] = s[4 * k - a + j]
  <2>1. /\ 4 * (k - 1) + 1 \in Nat \ {0} /\ 4 * k \in Nat /\ 4 * k <= Len(d) /\ 4 * (k - 1) + 1 <= 4 * k + 1
        /\ 4 * k - (4 * (k - 1) + 1) + 1 = 4 /\ (4 * (k - 1) + 1) + j - 1 = 4 * (k - 1) + j
    BY <1>2, <1>3
  <2>2. SubSeq(d, 4 * (k - 1) + 1, 4 * k)[j] = d[4 * (k - 1) + j]
    BY <1>2, <2>1, SubBytes
  <2>3. 4 * (k - 1) + j \in 1 .. Len(s) - 4 + a /\ 4 - a + (4 * (k - 1) + j) = 4 * k - a + j
    BY <1>3
  <2>4. d[4 * (k - 1) + j] = s[4 * k - a + j]
    BY <1>2, <2>3
  <2> QED BY <1>5, <1>8, <2>2, <2>4
<1>11. ASSUME NEW k \in 1 .. c + 1, NEW j \in 1 .. 4 - a PROVE r[k][j + a] = s[4 * (k - 1) + j]
  <2>1. CASE k = 1
    <3>1. 4 * (k - 1) + j = j
      BY <2>1
    <3> QED BY <1>6, <1>8, <2>1, <3>1
  <2>2. CASE k # 1
    <3>1. k - 1 \in 1 .. c /\ (k - 1) + 1 = k /\ j + a \in 1 .. 4 /\ 4 * (k - 1) - a + (j + a) = 4 * (k - 1) + j
      BY <1>3, <2>2
    <3>2. r[(k - 1) + 1][j + a] = s[4 * (k - 1) - a + (j + a)]
      BY <1>10, <3>1
    <3> QED BY <3>1, <3>2
  <2> QED BY <2>1, <2>2
<1> HIDE DEF c
<1>12. ReadFrom(s, a, c, r)
  BY <1>8, <1>10, <1>11 DEF ReadFrom
<1> QED BY <1>9, <1>12 DEF c

(* The word joined after c words are the next four bytes, as far as d goes.*)
Parts(t, d, a, p) ==
  /\ \A j \in 1 .. 4 - a : t[j + a] = p[j]
  /\ \A j \in 1 .. a : d[j] = p[4 - a + j]

LEMMA JoinedWord ==
  ASSUME NEW a \in 1 .. 3, NEW t \in Word, NEW d \in Word, NEW p \in Word, Parts(t, d, a, p)
  PROVE  Joined(t, d, a) = p
<1>1. ASSUME NEW j \in 1 .. 4 PROVE (IF j <= 4 - a THEN t[j + a] ELSE d[j - (4 - a)]) = p[j]
  <2>1. CASE j <= 4 - a
    <3>1. j \in 1 .. 4 - a
      BY <2>1
    <3> QED BY <2>1, <3>1 DEF Parts
  <2>2. CASE j > 4 - a
    <3>1. j - (4 - a) \in 1 .. a /\ 4 - a + (j - (4 - a)) = j /\ ~(j <= 4 - a)
      BY <2>2
    <3> QED BY <3>1 DEF Parts
  <2> QED BY <2>1, <2>2
<1>2. p = [j \in 1 .. 4 |-> p[j]]
  BY DEF Word
<1> QED BY <1>1, <1>2, JoinedBytes

RestFrom(s, c, r) ==
  /\ r \in Seq(Byte) /\ Len(r) = Len(s) - 4 * c
  /\ \A j \in 1 .. Len(s) - 4 * c : r[j] = s[4 * c + j]

LEMMA RestTyped ==
  ASSUME NEW s \in Seq(Byte)
  PROVE  RestFrom(s, Len(s) \div 4, Rest(s, 4))
<1> DEFINE c == Len(s) \div 4
<1>0. Len(s) \in Nat
  BY ByteSeq
<1>1. /\ 4 * c + 1 \in Nat \ {0} /\ 4 * c + 1 <= Len(s) + 1 /\ Len(s) - (4 * c + 1) + 1 = Len(s) - 4 * c
      /\ \A j \in 1 .. Len(s) - 4 * c : (4 * c + 1) + j - 1 = 4 * c + j
  BY <1>0
<1>2. PICK r : r = SubSeq(s, 4 * c + 1, Len(s))
  OBVIOUS
<1> HIDE DEF c
<1>3. /\ r \in Seq(Byte) /\ Len(r) = Len(s) - (4 * c + 1) + 1
      /\ \A j \in 1 .. Len(s) - (4 * c + 1) + 1 : r[j] = s[(4 * c + 1) + j - 1]
  BY <1>0, <1>1, <1>2, SubBytes
<1>4. RestFrom(s, c, r)
  BY <1>1, <1>3 DEF RestFrom
<1>5. Rest(s, 4) = r
  BY <1>2 DEF Rest, c
<1> QED BY <1>4, <1>5 DEF c

(* The words joined are the first words of s.                              *)
JoinedRight(s, a, c, r) ==
  [k \in 1 .. c |-> Joined(r[k], r[k + 1], a)] = Words(SubSeq(s, 1, 4 * c), 4)

LEMMA JoinedWords ==
  ASSUME NEW s \in Seq(Byte), NEW a \in 1 .. 3, Len(s) >= 4
  PROVE  JoinedRight(s, a, Len(Behind(s, a)) \div 4, Reads(s, a))
<1> DEFINE c == Len(Behind(s, a)) \div 4
<1>0. Len(s) \in Nat
  BY ByteSeq
<1>1. c \in Nat /\ 4 * c <= Len(s)
  <2>1. PICK n \in Nat : n = Len(Behind(s, a)) /\ n = Len(s) - 4 + a
    BY <1>0, BehindBytes
  <2>2. c = n \div 4
    BY <2>1
  <2> HIDE DEF c
  <2> QED BY <1>0, <2>1, <2>2
<1>2. PICK p : p = SubSeq(s, 1, 4 * c)
  OBVIOUS
<1>3. p \in Seq(Byte) /\ Len(p) = 4 * c /\ \A j \in 1 .. 4 * c : p[j] = s[j]
  <2>1. 1 \in Nat \ {0} /\ 4 * c \in Nat /\ 1 <= 4 * c + 1 /\ 4 * c - 1 + 1 = 4 * c /\ \A j \in 1 .. 4 * c : 1 + j - 1 = j
    BY <1>1
  <2> QED BY <1>1, <1>2, <2>1, SubBytes
<1> HIDE DEF c
<1>4. PICK r : r = Reads(s, a) /\ ReadFrom(s, a, c, r)
  BY ReadsBytes DEF c
<1>5. ASSUME NEW k \in 1 .. c PROVE Joined(r[k], r[k + 1], a) = Words(p, 4)[k]
  <2>1. k \in 1 .. Len(p) \div 4
    BY <1>1, <1>3
  <2>2. PICK x : x = Words(p, 4)[k]
    OBVIOUS
  <2>3. x \in Word /\ \A j \in 1 .. 4 : x[j] = p[4 * (k - 1) + j]
    BY <1>3, <2>1, <2>2, WordBytes
  <2>4. ASSUME NEW j \in 1 .. 4 PROVE x[j] = s[4 * (k - 1) + j]
    <3>1. 4 * (k - 1) + j \in 1 .. 4 * c
      BY <1>1
    <3> QED BY <1>3, <2>3, <3>1
  <2>5. r[k] \in Word /\ r[k + 1] \in Word
    <3>1. r \in Seq(Word) /\ Len(r) = c + 1
      BY <1>4 DEF ReadFrom
    <3>2. k \in 1 .. Len(r) /\ k + 1 \in 1 .. Len(r)
      BY <1>1, <3>1
    <3> QED BY <3>1, <3>2
  <2>7. ASSUME NEW j \in 1 .. 4 - a PROVE r[k][j + a] = x[j]
    <3>1. k \in 1 .. c + 1 /\ j \in 1 .. 4
      BY <1>1
    <3> QED BY <1>4, <2>4, <3>1 DEF ReadFrom
  <2>8. ASSUME NEW j \in 1 .. a PROVE r[k + 1][j] = x[4 - a + j]
    <3>1. j \in 1 .. 4 /\ 4 - a + j \in 1 .. 4 /\ 4 * (k - 1) + (4 - a + j) = 4 * k - a + j
      BY <1>1
    <3>2. r[k + 1][j] = s[4 * k - a + j]
      BY <1>4, <3>1 DEF ReadFrom
    <3>3. x[4 - a + j] = s[4 * (k - 1) + (4 - a + j)]
      BY <2>4, <3>1
    <3> QED BY <3>1, <3>2, <3>3
  <2>9. PICK t \in Word : t = r[k]
    BY <2>5
  <2>10. PICK d \in Word : d = r[k + 1]
    BY <2>5
  <2>11. Joined(t, d, a) = x
    <3>1. Parts(t, d, a, x)
      BY <2>7, <2>8, <2>9, <2>10 DEF Parts
    <3> QED BY <2>3, <3>1, JoinedWord
  <2> QED BY <2>2, <2>9, <2>10, <2>11
<1>6. Words(p, 4) = [k \in 1 .. c |-> Words(p, 4)[k]]
  <2>1. PICK n \in Nat : n = Len(p)
    BY <1>1, <1>3
  <2>2. Len(p) \div 4 = c
    BY <1>1, <1>3, <2>1
  <2> QED BY <2>2 DEF Words
<1>7. [k \in 1 .. c |-> Joined(r[k], r[k + 1], a)] = [k \in 1 .. c |-> Words(p, 4)[k]]
  BY <1>5
<1>8. JoinedRight(s, a, c, r)
  BY <1>2, <1>6, <1>7 DEF JoinedRight
<1> QED BY <1>4, <1>8 DEF c

LEMMA FromIntTyped == \A n \in Nat : FromInt(n, 4) \in Word
<1> SUFFICES ASSUME NEW n \in Nat PROVE FromInt(n, 4) \in Word
  OBVIOUS
<1>1. \A x \in Nat : x % 256 \in Byte
  BY DEF Byte
<1>2. n \div 256 \in Nat /\ n \div 65536 \in Nat /\ n \div 16777216 \in Nat
  OBVIOUS
<1>3. PICK w \in Byte : w = n % 256
  BY <1>1
<1>4. PICK x \in Byte : x = (n \div 256) % 256
  BY <1>1, <1>2
<1>5. PICK y \in Byte : y = (n \div 65536) % 256
  BY <1>1, <1>2
<1>6. PICK z \in Byte : z = (n \div 16777216) % 256
  BY <1>1, <1>2
<1>7. FromInt(n, 4) = Wide(<<w, x, y, z>>, 4)
  BY <1>3, <1>4, <1>5, <1>6 DEF FromInt
<1>8. <<w, x, y, z>> \in Seq(Byte)
  OBVIOUS
<1> QED BY <1>7, <1>8, WideTyped

(* With at least a bytes behind the last word that was read, one more word *)
(* can be joined; with fewer, the rest is joined and padded.               *)
LEMMA AlignedAgrees ==
  ASSUME NEW s \in Seq(Byte), NEW h \in Word, NEW a \in 0 .. 3
  PROVE  MurmurHashAligned2(s, a, h) = MurmurHash2(s, h)
<1>0. Len(s) \in Nat
  BY ByteSeq
<1>1. CASE a = 0 \/ Len(s) < 4
  BY <1>1 DEF MurmurHashAligned2
<1>2. CASE a # 0 /\ Len(s) >= 4
  <2>0. a \in 1 .. 3 /\ ~(a = 0 \/ Len(s) < 4)
    BY <1>0, <1>2
  <2>1. PICK g \in Word : g = Exor(h, FromInt(Len(s), 4))
    <3>1. FromInt(Len(s), 4) \in Word
      BY <1>0, FromIntTyped
    <3> QED BY <3>1, ExorTyped
  <2>2. PICK v : HashSteps(s, g, v) /\ FoldLeft(Mix, g, Words(s, 4)) = v[Len(s) \div 4]
    BY HashStepsExist
  <2>3. PICK d : d = Behind(s, a)
    OBVIOUS
  <2>4. d \in Seq(Byte) /\ Len(d) = Len(s) - 4 + a /\ \A j \in 1 .. Len(s) - 4 + a : d[j] = s[4 - a + j]
    BY <1>2, <2>0, <2>3, BehindBytes
  <2>5. PICK c \in Nat : c = Len(d) \div 4
    BY <1>0, <2>4
  <2>6. PICK o \in 0 .. 3 : o = Len(d) - 4 * c
    <3>1. PICK n \in Nat : n = Len(d)
      BY <1>0, <2>4
    <3>2. n - 4 * (n \div 4) \in 0 .. 3
      BY DivMod
    <3> QED BY <2>5, <3>1, <3>2
  <2>7. Len(s) = 4 * c + o + 4 - a
    BY <1>0, <2>4, <2>6
  <2>8. PICK ts : ts = Reads(s, a)
    OBVIOUS
  <2>9. /\ ts \in Seq(Word) /\ Len(ts) = c + 1
        /\ \A j \in 1 .. 4 - a : ts[c + 1][j + a] = s[4 * c + j]
    <3>1. c + 1 \in 1 .. c + 1 /\ (c + 1) - 1 = c
      OBVIOUS
    <3>2. ReadFrom(s, a, c, ts)
      BY <1>2, <2>0, <2>3, <2>5, <2>8, ReadsBytes
    <3> QED BY <3>1, <3>2 DEF ReadFrom
  <2>10. PICK t \in Word : t = ts[c + 1]
    <3>1. c + 1 \in 1 .. Len(ts)
      BY <2>9
    <3> QED BY <2>9, <3>1
  <2>11. PICK mixed : mixed = FoldLeft(Mix, g, [k \in DOMAIN Words(d, 4) |-> Joined(ts[k], ts[k + 1], a)])
    OBVIOUS
  <2>12. mixed = v[c]
    <3>1. DOMAIN Words(d, 4) = 1 .. c
      BY <2>5 DEF Words
    <3>2. mixed = FoldLeft(Mix, g, Words(SubSeq(s, 1, 4 * c), 4))
      <4>1. JoinedRight(s, a, c, ts)
        BY <1>2, <2>0, <2>3, <2>5, <2>8, JoinedWords
      <4> QED BY <2>11, <3>1, <4>1 DEF JoinedRight
    <3>3. PICK l \in Nat : l = 4 * c
      OBVIOUS
    <3>4. Mixed(s, v, 0, l)
      <4>1. 4 * 0 + l <= Len(s)
        BY <2>0, <2>7, <3>3
      <4> QED BY <2>2, <4>1, MixWords
    <3>5. 4 * 0 + 1 = 1 /\ 4 * 0 + l = l /\ 0 + (l \div 4) = c
      BY <3>3
    <3>6. v[0] = g
      BY <2>2 DEF HashSteps
    <3> QED BY <3>2, <3>3, <3>4, <3>5, <3>6 DEF Mixed
  <2>13. PICK rest : rest = Rest(d, 4)
    OBVIOUS
  <2>14. rest \in Seq(Byte) /\ Len(rest) = o /\ \A j \in 1 .. o : rest[j] = s[4 * c + (4 - a + j)]
    <3>1. rest \in Seq(Byte) /\ Len(rest) = Len(d) - 4 * c /\ \A j \in 1 .. Len(d) - 4 * c : rest[j] = d[4 * c + j]
      <4>1. RestFrom(d, c, rest)
        BY <2>4, <2>5, <2>13, RestTyped
      <4> QED BY <4>1 DEF RestFrom
    <3>2. ASSUME NEW j \in 1 .. o PROVE d[4 * c + j] = s[4 * c + (4 - a + j)]
      <4>1. 4 * c + j \in 1 .. Len(s) - 4 + a /\ 4 - a + (4 * c + j) = 4 * c + (4 - a + j)
        BY <2>0, <2>4, <2>6
      <4> QED BY <2>4, <4>1
    <3> QED BY <2>6, <3>1, <3>2
  <2>15. PICK end : end = AlignedLoop(g, Upper(s, a), d, a)
    OBVIOUS
  <2>16. Last(ts) = t
    BY <2>9, <2>10 DEF Last
  <2>17. <<Upper(s, a)>> \o Words(d, 4) = ts
    BY <2>3, <2>8 DEF Reads
  <2>18. end = IF Len(rest) >= a
               THEN MixRest(Mix(mixed, Joined(t, Wide(SubSeq(rest, 1, a), 4), a)), SubSeq(rest, a + 1, Len(rest)))
               ELSE Times(Exor(mixed, Joined(t, Wide(rest, 4), a)), M32)
    BY <2>11, <2>13, <2>15, <2>16, <2>17 DEF AlignedLoop
  <2>19. MurmurHashAligned2(s, a, h) = Final(end)
    BY <2>0, <2>1, <2>3, <2>15 DEF MurmurHashAligned2, Upper, Behind
  <2>20. MurmurHash2(s, h) = Final(MixRest(v[Len(s) \div 4], Rest(s, 4)))
    BY <2>1, <2>2 DEF MurmurHash2
  <2>21. CASE o >= a
    <3>1. Len(s) \div 4 = c + 1 /\ 4 * (c + 1) <= Len(s)
      BY <1>0, <2>0, <2>7, <2>21
    <3>2. PICK p : p = Words(s, 4)[c + 1]
      OBVIOUS
    <3>3. p \in Word /\ \A j \in 1 .. 4 : p[j] = s[4 * c + j]
      <4>1. c + 1 \in 1 .. Len(s) \div 4 /\ (c + 1) - 1 = c
        BY <3>1
      <4> QED BY <3>2, <4>1, WordBytes
    <3>4. PICK part : part = SubSeq(rest, 1, a)
      OBVIOUS
    <3>5. part \in Seq(Byte) /\ Len(part) = a /\ \A j \in 1 .. a : part[j] = rest[j]
      <4>1. 1 \in Nat \ {0} /\ a \in Nat /\ a <= Len(rest) /\ 1 <= a + 1 /\ a - 1 + 1 = a /\ \A j \in 1 .. a : 1 + j - 1 = j
        BY <2>0, <2>14, <2>21
      <4> QED BY <2>14, <3>4, <4>1, SubBytes
    <3>6. PICK u \in Word : u = Wide(part, 4)
      BY <3>5, WideTyped
    <3>7. ASSUME NEW j \in 1 .. a PROVE u[j] = p[4 - a + j]
      <4>1. j \in 1 .. 4 /\ j \in 1 .. o /\ 4 - a + j \in 1 .. 4
        BY <2>0, <2>21
      <4>2. u[j] = part[j]
        BY <3>5, <3>6, <4>1 DEF Wide, At
      <4> QED BY <2>14, <3>3, <3>5, <4>1, <4>2
    <3>8. ASSUME NEW j \in 1 .. 4 - a PROVE t[j + a] = p[j]
      <4>1. j \in 1 .. 4
        BY <2>0
      <4> QED BY <2>9, <2>10, <3>3, <4>1
    <3>9. Joined(t, u, a) = p
      <4>1. Parts(t, u, a, p)
        BY <3>7, <3>8 DEF Parts
      <4> QED BY <2>0, <3>3, <4>1, JoinedWord
    <3>10. Mix(v[c], p) = v[c + 1]
      <4>1. c + 1 \in 1 .. Len(s) \div 4 /\ (c + 1) - 1 = c
        BY <3>1
      <4> QED BY <2>2, <3>2, <4>1 DEF HashSteps
    <3>11. SubSeq(rest, a + 1, Len(rest)) = Rest(s, 4)
      <4>1. PICK x : x = SubSeq(rest, a + 1, Len(rest))
        OBVIOUS
      <4>2. x \in Seq(Byte) /\ Len(x) = o - a /\ \A j \in 1 .. o - a : x[j] = rest[a + j]
        <5>1. /\ a + 1 \in Nat \ {0} /\ Len(rest) \in Nat /\ a + 1 <= Len(rest) + 1 /\ Len(rest) - (a + 1) + 1 = o - a
              /\ \A j \in 1 .. o - a : (a + 1) + j - 1 = a + j
          BY <2>0, <2>14, <2>21
        <5> QED BY <2>14, <4>1, <5>1, SubBytes
      <4>3. PICK y : y = Rest(s, 4)
        OBVIOUS
      <4>4. PICK e \in Nat : e = c + 1
        OBVIOUS
      <4>5. Len(s) - 4 * e = o - a
        BY <2>0, <2>7, <4>4
      <4>6. y \in Seq(Byte) /\ Len(y) = o - a /\ \A j \in 1 .. o - a : y[j] = s[4 * e + j]
        <5>1. RestFrom(s, e, y)
          BY <3>1, <4>3, <4>4, RestTyped
        <5> QED BY <4>5, <5>1 DEF RestFrom
      <4>7. ASSUME NEW j \in 1 .. o - a PROVE x[j] = y[j]
        <5>1. a + j \in 1 .. o /\ 4 * c + (4 - a + (a + j)) = 4 * e + j
          BY <2>0, <4>4
        <5> QED BY <2>14, <4>2, <4>6, <5>1
      <4>8. x = y
        BY <4>2, <4>6, <4>7, SeqEqual
      <4> QED BY <4>1, <4>3, <4>8
    <3>12. end = MixRest(v[c + 1], Rest(s, 4))
      <4>1. Len(rest) >= a
        BY <2>14, <2>21
      <4> QED BY <2>12, <2>18, <3>4, <3>6, <3>9, <3>10, <3>11, <4>1
    <3> QED BY <2>19, <2>20, <3>1, <3>12
  <2>22. CASE o < a
    <3>1. Len(s) \div 4 = c
      BY <1>0, <2>0, <2>7, <2>22
    <3>2. PICK y : y = Rest(s, 4)
      OBVIOUS
    <3>3. y \in Seq(Byte) /\ Len(y) = 4 - a + o /\ \A j \in 1 .. 4 - a + o : y[j] = s[4 * c + j]
      <4>1. Len(s) - 4 * c = 4 - a + o
        BY <2>0, <2>7
      <4>2. RestFrom(s, c, y)
        BY <3>1, <3>2, RestTyped
      <4> QED BY <4>1, <4>2 DEF RestFrom
    <3>4. PICK p \in Word : p = Wide(y, 4)
      BY <3>3, WideTyped
    <3>5. PICK u \in Word : u = Wide(rest, 4)
      BY <2>14, WideTyped
    <3>6. ASSUME NEW j \in 1 .. a PROVE u[j] = p[4 - a + j]
      <4>1. j \in 1 .. 4 /\ 4 - a + j \in 1 .. 4 /\ o < 4
        BY <2>0, <2>22
      <4>2. u[j] = At(rest, j) /\ p[4 - a + j] = At(y, 4 - a + j)
        BY <3>4, <3>5, <4>1 DEF Wide
      <4>3. DOMAIN rest = 1 .. o /\ DOMAIN y = 1 .. 4 - a + o
        BY <2>0, <2>14, <3>3, ByteSeq
      <4>4. CASE j <= o
        <5>1. j \in 1 .. o /\ 4 - a + j \in 1 .. 4 - a + o
          BY <2>0, <4>4
        <5> QED BY <2>14, <3>3, <4>2, <4>3, <5>1 DEF At
      <4>5. CASE j > o
        <5>1. j \notin 1 .. o /\ 4 - a + j \notin 1 .. 4 - a + o
          BY <2>0, <4>5
        <5> QED BY <4>2, <4>3, <5>1 DEF At
      <4> QED BY <4>4, <4>5
    <3>7. ASSUME NEW j \in 1 .. 4 - a PROVE t[j + a] = p[j]
      <4>1. j \in 1 .. 4 /\ j \in 1 .. 4 - a + o
        BY <2>0
      <4>2. DOMAIN y = 1 .. 4 - a + o
        BY <2>0, <3>3, ByteSeq
      <4>3. p[j] = y[j]
        BY <3>4, <4>1, <4>2 DEF Wide, At
      <4> QED BY <2>9, <2>10, <3>3, <4>1, <4>3
    <3>8. Joined(t, u, a) = p
      <4>1. Parts(t, u, a, p)
        BY <3>6, <3>7 DEF Parts
      <4> QED BY <2>0, <4>1, JoinedWord
    <3>9. end = Times(Exor(v[c], p), M32)
      <4>1. ~(Len(rest) >= a)
        BY <2>0, <2>14, <2>22
      <4> QED BY <2>12, <2>18, <3>5, <3>8, <4>1
    <3>10. y # <<>>
      <4>1. Len(y) # 0
        BY <2>0, <3>3
      <4> QED BY <4>1
    <3>11. MixRest(v[c], y) = Times(Exor(v[c], Wide(y, 4)), M32)
      BY <3>10 DEF MixRest
    <3> QED BY <2>19, <2>20, <3>1, <3>2, <3>4, <3>9, <3>11
  <2> QED BY <2>0, <2>21, <2>22
<1> QED BY <1>0, <1>1, <1>2

----------------------------------------------------------------------------
(* RC4 *)

StatePlaces == 0 .. StateSize - 1
Permuted == [StatePlaces -> StatePlaces]
Schedule == [state : Permuted, index2 : StatePlaces]

LEMMA SwappedTyped ==
  ASSUME NEW f \in Permuted, NEW a \in StatePlaces, NEW b \in StatePlaces
  PROVE  Swapped(f, a, b) \in Permuted
BY DEF Swapped, Permuted

LEMMA PlacesSmall == \A a \in StatePlaces : a \in Nat /\ a \in Byte
BY StateSizeAssumption DEF StatePlaces, Byte

LEMMA InPlaces == \A n \in Nat : n % StateSize \in StatePlaces
<1>1. StateSize \in Nat \ {0}
  BY StateSizeAssumption
<1>2. \A n \in Nat : \A m \in Nat \ {0} : n % m \in 0 .. m - 1
  OBVIOUS
<1> QED BY <1>1, <1>2 DEF StatePlaces

Turn == [place : StatePlaces, byte : Byte]

LEMMA ScheduledTyped == \A acc \in Schedule : \A turn \in Turn : Scheduled(acc, turn) \in Schedule
<1> SUFFICES ASSUME NEW acc \in Schedule, NEW turn \in Turn PROVE Scheduled(acc, turn) \in Schedule
  OBVIOUS
<1>1. acc.state \in Permuted /\ acc.index2 \in StatePlaces /\ turn.place \in StatePlaces /\ turn.byte \in Byte
  BY DEF Schedule, Turn
<1>2. PICK p \in StatePlaces : p = acc.state[turn.place]
  BY <1>1 DEF Permuted
<1>3. turn.byte \in Nat /\ p \in Nat /\ acc.index2 \in Nat
  BY <1>1, PlacesSmall DEF Byte
<1>4. PICK j \in StatePlaces : j = (turn.byte + p + acc.index2) % StateSize
  <2>1. turn.byte + p + acc.index2 \in Nat
    BY <1>3
  <2> QED BY <2>1, InPlaces
<1>5. Swapped(acc.state, turn.place, j) \in Permuted
  BY <1>1, SwappedTyped
<1>6. Scheduled(acc, turn) = [state |-> Swapped(acc.state, turn.place, j), index2 |-> j]
  BY <1>2, <1>4 DEF Scheduled
<1> QED BY <1>5, <1>6 DEF Schedule

LEMMA ScheduledSteps ==
  ASSUME NEW b \in Schedule, NEW s \in Seq(Turn)
  PROVE  \E v \in [0 .. Len(s) -> Schedule] :
           /\ v[0] = b /\ \A k \in 1 .. Len(s) : v[k] = Scheduled(v[k - 1], s[k])
           /\ FoldLeft(Scheduled, b, s) = v[Len(s)]
<1> DEFINE G == [p \in Schedule \X Turn |-> Scheduled(p[1], p[2])]
           Value(c, t) == IF t = {} THEN b ELSE Scheduled(c[t \ {Max(t)}], s[Max(t)])
           Eq(c) == c = [t \in SUBSET (DOMAIN s) |-> Value(c, t)]
<1>1. Len(s) \in Nat /\ DOMAIN s = 1 .. Len(s)
  OBVIOUS
<1>2. FoldLeft(Scheduled, b, s) = (CHOOSE c : Eq(c))[DOMAIN s]
  BY DEF FoldLeft, MapThenFoldSet
<1>3. G \in [Schedule \X Turn -> Schedule]
  BY ScheduledTyped
<1>4. \E c : Eq(c)
  <2>1. PICK c \in [SUBSET (1 .. Len(s)) -> Schedule] : SetFold(c, G, b, s)
    BY <1>3, SetFoldExists
  <2>2. ASSUME NEW t \in SUBSET (1 .. Len(s)), t # {} PROVE c[t] = Scheduled(c[t \ {Max(t)}], s[Max(t)])
    <3>1. c[t \ {Max(t)}] \in Schedule /\ s[Max(t)] \in Turn
      BY <2>2, BelowMax
    <3>2. c[t] = G[<<c[t \ {Max(t)}], s[Max(t)]>>]
      BY <2>1, <2>2 DEF SetFold
    <3> QED BY <3>1, <3>2
  <2>3. \A t \in SUBSET (1 .. Len(s)) : c[t] = Value(c, t)
    BY <2>1, <2>2 DEF SetFold
  <2> HIDE DEF Value
  <2> QED BY <1>1, <2>3
<1>5. PICK c : Eq(c) /\ FoldLeft(Scheduled, b, s) = c[DOMAIN s]
  BY <1>2, <1>4
<1>6. \A t \in SUBSET (1 .. Len(s)) : c[t] = Value(c, t)
  <2> HIDE DEF Value
  <2> QED BY <1>1, <1>5
<1>7. c[{}] = b
  BY <1>6
<1>8. ASSUME NEW t \in SUBSET (1 .. Len(s)), t # {}, c[t \ {Max(t)}] \in Schedule
      PROVE  c[t] = G[<<c[t \ {Max(t)}], s[Max(t)]>>]
  <2>1. s[Max(t)] \in Turn
    <3>1. Max(t) \in t
      BY <1>1, <1>8, MaxOfSet
    <3>2. Max(t) \in 1 .. Len(s)
      BY <3>1
    <3> QED BY <1>1, <3>2
  <2> QED BY <1>6, <1>8, <2>1
<1>9. PICK v \in [0 .. Len(s) -> Schedule] : FoldSteps(v, G, b, s, c[1 .. Len(s)])
  <2>1. TypedFold(c, G, b, s, Schedule)
    <3> HIDE DEF G
    <3> QED BY <1>7, <1>8 DEF TypedFold
  <2> HIDE DEF G
  <2> QED BY <1>3, <2>1, TypedFoldSteps
<1>10. ASSUME NEW k \in 1 .. Len(s) PROVE v[k] = Scheduled(v[k - 1], s[k])
  <2>1. v[k - 1] \in Schedule /\ s[k] \in Turn
    BY <1>1
  <2>2. v[k] = G[<<v[k - 1], s[k]>>]
    BY <1>9 DEF FoldSteps
  <2> QED BY <2>1, <2>2
<1> HIDE DEF G, Eq
<1> QED BY <1>1, <1>5, <1>9, <1>10 DEF FoldSteps


RcKey == [state : Permuted, x : StatePlaces, y : StatePlaces]

LEMMA InitTyped ==
  ASSUME NEW binKey \in Seq(Byte) \ {<<>>}
  PROVE  _rc4Init(binKey) \in RcKey
<1> DEFINE start == [state |-> [k \in 0 .. StateSize - 1 |-> k], index2 |-> 0]
           order == Turns(binKey)
<1>0. StateSize \in Nat \ {0}
  BY StateSizeAssumption
<1>1. start \in Schedule
  BY <1>0 DEF Schedule, Permuted, StatePlaces
<1>2. order \in Seq(Turn)
  <2>1. Len(binKey) \in Nat \ {0}
    BY ByteSeq, EmptySeq
  <2>2. ASSUME NEW k \in 1 .. StateSize
        PROVE  [place |-> k - 1, byte |-> binKey[((k - 1) % Len(binKey)) + 1]] \in Turn
    <3>1. k - 1 \in Nat /\ k - 1 \in StatePlaces
      BY <1>0 DEF StatePlaces
    <3>2. PICK n \in Nat \ {0} : n = Len(binKey)
      BY <2>1
    <3>3. ((k - 1) % n) + 1 \in 1 .. n
      BY <3>1, <3>2
    <3>4. binKey[((k - 1) % Len(binKey)) + 1] \in Byte
      BY <3>2, <3>3, ByteSeq
    <3> QED BY <3>1, <3>4 DEF Turn
  <2>3. order = [k \in 1 .. StateSize |-> [place |-> k - 1, byte |-> binKey[((k - 1) % Len(binKey)) + 1]]]
    BY DEF Turns
  <2> HIDE DEF order
  <2> DEFINE turn(k) == [place |-> k - 1, byte |-> binKey[((k - 1) % Len(binKey)) + 1]]
  <2>4. order = [k \in 1 .. StateSize |-> turn(k)] /\ \A k \in 1 .. StateSize : turn(k) \in Turn
    BY <2>2, <2>3
  <2> HIDE DEF turn
  <2> QED BY <1>0, <2>4
<1>3. PICK c \in Schedule : c = FoldLeft(Scheduled, start, order)
  <2> HIDE DEF start
  <2>1. PICK s \in Seq(Turn) : s = order
    BY <1>2
  <2> HIDE DEF order
  <2>2. PICK v \in [0 .. Len(s) -> Schedule] :
          FoldLeft(Scheduled, start, s) = v[Len(s)]
    BY <1>1, ScheduledSteps
  <2>3. Len(s) \in 0 .. Len(s)
    OBVIOUS
  <2> QED BY <2>1, <2>2, <2>3
<1>4. _rc4Init(binKey) = [state |-> c.state, x |-> 0, y |-> 0]
  BY <1>3 DEF _rc4Init
<1>5. 0 \in StatePlaces
  BY <1>0 DEF StatePlaces
<1> QED BY <1>4, <1>5 DEF RcKey, Schedule

LEMMA AdvancedTyped ==
  ASSUME NEW key \in RcKey
  PROVE  Advanced(key) \in RcKey /\ KeyByte(key) \in Byte
<1>0. StateSize \in Nat \ {0} 
  BY StateSizeAssumption
<1>1. key.state \in Permuted /\ key.x \in StatePlaces /\ key.y \in StatePlaces
  BY DEF RcKey
<1>2. PICK x \in StatePlaces : x = (key.x + 1) % StateSize
  <2>1. key.x + 1 \in Nat
    BY <1>1, PlacesSmall
  <2> QED BY <2>1, InPlaces
<1>3. PICK y \in StatePlaces : y = (key.state[x] + key.y) % StateSize
  <2>1. key.state[x] \in StatePlaces
    BY <1>1 DEF Permuted
  <2>2. key.state[x] + key.y \in Nat
    <3>1. key.state[x] \in Nat /\ key.y \in Nat
      BY <1>1, <2>1, PlacesSmall
    <3> QED BY <3>1
  <2> QED BY <2>2, InPlaces
<1>4. Advanced(key) = [state |-> Swapped(key.state, x, y), x |-> x, y |-> y]
  BY <1>2, <1>3 DEF Advanced
<1>5. Swapped(key.state, x, y) \in Permuted
  BY <1>1, SwappedTyped
<1>6. KeyByte(key) \in Byte
  <2>1. key.state[key.x] \in StatePlaces /\ key.state[key.y] \in StatePlaces
    BY <1>1 DEF Permuted
  <2>2. key.state[key.x] + key.state[key.y] \in Nat
    <3>1. key.state[key.x] \in Nat /\ key.state[key.y] \in Nat
      BY <2>1, PlacesSmall
    <3> QED BY <3>1
  <2>3. (key.state[key.x] + key.state[key.y]) % StateSize \in StatePlaces
    BY <2>2, InPlaces
  <2>4. KeyByte(key) \in StatePlaces
    BY <1>1, <2>3 DEF KeyByte, Permuted
  <2> QED BY <2>4, PlacesSmall
<1> QED BY <1>4, <1>5, <1>6 DEF RcKey

Crypt == [key : RcKey, out : Seq(Byte)]

LEMMA CryptByteTyped == \A acc \in Crypt : \A b \in Byte : CryptByte(acc, b) \in Crypt
<1> SUFFICES ASSUME NEW acc \in Crypt, NEW b \in Byte PROVE CryptByte(acc, b) \in Crypt
  OBVIOUS
<1>1. acc.key \in RcKey /\ acc.out \in Seq(Byte)
  BY DEF Crypt
<1>2. PICK key \in RcKey : key = Advanced(acc.key)
  BY <1>1, AdvancedTyped
<1>3. Xor(b, KeyByte(key)) \in Byte
  BY AdvancedTyped, XorByte
<1>4. Append(acc.out, Xor(b, KeyByte(key))) \in Seq(Byte)
  BY <1>1, <1>3
<1> QED BY <1>2, <1>4 DEF CryptByte, Crypt

LEMMA CryptSteps ==
  ASSUME NEW b \in Crypt, NEW s \in Seq(Byte)
  PROVE  \E v \in [0 .. Len(s) -> Crypt] :
           /\ v[0] = b /\ \A k \in 1 .. Len(s) : v[k] = CryptByte(v[k - 1], s[k])
           /\ FoldLeft(CryptByte, b, s) = v[Len(s)]
<1> DEFINE G == [p \in Crypt \X Byte |-> CryptByte(p[1], p[2])]
           Value(c, t) == IF t = {} THEN b ELSE CryptByte(c[t \ {Max(t)}], s[Max(t)])
           Eq(c) == c = [t \in SUBSET (DOMAIN s) |-> Value(c, t)]
<1>1. Len(s) \in Nat /\ DOMAIN s = 1 .. Len(s)
  OBVIOUS
<1>2. FoldLeft(CryptByte, b, s) = (CHOOSE c : Eq(c))[DOMAIN s]
  BY DEF FoldLeft, MapThenFoldSet
<1>3. G \in [Crypt \X Byte -> Crypt]
  BY CryptByteTyped
<1>4. \E c : Eq(c)
  <2>1. PICK c \in [SUBSET (1 .. Len(s)) -> Crypt] : SetFold(c, G, b, s)
    BY <1>3, SetFoldExists
  <2>2. ASSUME NEW t \in SUBSET (1 .. Len(s)), t # {} PROVE c[t] = CryptByte(c[t \ {Max(t)}], s[Max(t)])
    <3>1. c[t \ {Max(t)}] \in Crypt /\ s[Max(t)] \in Byte
      BY <2>2, BelowMax
    <3>2. c[t] = G[<<c[t \ {Max(t)}], s[Max(t)]>>]
      BY <2>1, <2>2 DEF SetFold
    <3> QED BY <3>1, <3>2
  <2>3. \A t \in SUBSET (1 .. Len(s)) : c[t] = Value(c, t)
    BY <2>1, <2>2 DEF SetFold
  <2> HIDE DEF Value
  <2> QED BY <1>1, <2>3
<1>5. PICK c : Eq(c) /\ FoldLeft(CryptByte, b, s) = c[DOMAIN s]
  BY <1>2, <1>4
<1>6. \A t \in SUBSET (1 .. Len(s)) : c[t] = Value(c, t)
  <2> HIDE DEF Value
  <2> QED BY <1>1, <1>5
<1>7. c[{}] = b
  BY <1>6
<1>8. ASSUME NEW t \in SUBSET (1 .. Len(s)), t # {}, c[t \ {Max(t)}] \in Crypt
      PROVE  c[t] = G[<<c[t \ {Max(t)}], s[Max(t)]>>]
  <2>1. s[Max(t)] \in Byte
    <3>1. Max(t) \in t
      BY <1>1, <1>8, MaxOfSet
    <3>2. Max(t) \in 1 .. Len(s)
      BY <3>1
    <3> QED BY <1>1, <3>2
  <2> QED BY <1>6, <1>8, <2>1
<1>9. PICK v \in [0 .. Len(s) -> Crypt] : FoldSteps(v, G, b, s, c[1 .. Len(s)])
  <2>1. TypedFold(c, G, b, s, Crypt)
    <3> HIDE DEF G
    <3> QED BY <1>7, <1>8 DEF TypedFold
  <2> HIDE DEF G
  <2> QED BY <1>3, <2>1, TypedFoldSteps
<1>10. ASSUME NEW k \in 1 .. Len(s) PROVE v[k] = CryptByte(v[k - 1], s[k])
  <2>1. v[k - 1] \in Crypt /\ s[k] \in Byte
    BY <1>1
  <2>2. v[k] = G[<<v[k - 1], s[k]>>]
    BY <1>9 DEF FoldSteps
  <2> QED BY <2>1, <2>2
<1> HIDE DEF G, Eq
<1> QED BY <1>1, <1>5, <1>9, <1>10 DEF FoldSteps

(* The key after each byte, and the bytes made with it from place a on.    *)
KeySteps(key, n, w) ==
  w \in [0 .. n -> RcKey] /\ w[0] = key /\ \A j \in 1 .. n : w[j] = Advanced(w[j - 1])
Sealed(p, w, a) == [j \in 1 .. Len(p) |-> Xor(p[j], KeyByte(w[a + j]))]

LEMMA KeyStepsExist ==
  ASSUME NEW s \in Seq(Byte), NEW key \in RcKey
  PROVE  \E w : KeySteps(key, Len(s), w)
<1> DEFINE b == [key |-> key, out |-> <<>>]
<1>0. Len(s) \in Nat
  BY ByteSeq
<1>1. b \in Crypt
  BY DEF Crypt
<1>2. PICK v \in [0 .. Len(s) -> Crypt] : v[0] = b /\ \A k \in 1 .. Len(s) : v[k] = CryptByte(v[k - 1], s[k])
  <2> HIDE DEF b
  <2> QED BY <1>1, CryptSteps
<1> DEFINE w == [k \in 0 .. Len(s) |-> v[k].key]
<1>3. w \in [0 .. Len(s) -> RcKey]
  BY <1>2 DEF Crypt
<1>4. w[0] = key
  BY <1>0, <1>2
<1>5. ASSUME NEW k \in 1 .. Len(s) PROVE w[k] = Advanced(w[k - 1])
  <2>1. k \in 0 .. Len(s) /\ k - 1 \in 0 .. Len(s)
    BY <1>0
  <2>2. v[k].key = Advanced(v[k - 1].key)
    <3>1. v[k] = CryptByte(v[k - 1], s[k])
      BY <1>2
    <3>2. CryptByte(v[k - 1], s[k]).key = Advanced(v[k - 1].key)
      BY DEF CryptByte
    <3> QED BY <3>1, <3>2
  <2> QED BY <2>1, <2>2
<1> HIDE DEF w
<1> QED BY <1>3, <1>4, <1>5 DEF KeySteps

LEMMA SealedTyped ==
  ASSUME NEW key, NEW n \in Nat, NEW w, KeySteps(key, n, w), NEW p \in Seq(Byte), NEW a \in Nat, a + Len(p) <= n
  PROVE  Sealed(p, w, a) \in Seq(Byte) /\ Len(Sealed(p, w, a)) = Len(p)
<1>0. Len(p) \in Nat
  BY ByteSeq
<1>1. ASSUME NEW j \in 1 .. Len(p) PROVE Xor(p[j], KeyByte(w[a + j])) \in Byte
  <2>1. a + j \in 0 .. n
    BY <1>0
  <2>2. w[a + j] \in RcKey
    BY <2>1 DEF KeySteps
  <2>3. KeyByte(w[a + j]) \in Byte /\ p[j] \in Byte
    BY <2>2, AdvancedTyped, ByteSeq
  <2> QED BY <2>3, XorByte
<1> DEFINE made(j) == Xor(p[j], KeyByte(w[a + j]))
<1>2. Sealed(p, w, a) = [j \in 1 .. Len(p) |-> made(j)] /\ \A j \in 1 .. Len(p) : made(j) \in Byte
  BY <1>1 DEF Sealed
<1> HIDE DEF made
<1> QED BY <1>0, <1>2

(* A piece is sealed with the keys of its places, and leaves the next key. *)
LEMMA CryptPiece ==
  ASSUME NEW key, NEW n \in Nat, NEW w, KeySteps(key, n, w), NEW p \in Seq(Byte), NEW a \in Nat, a + Len(p) <= n
  PROVE  _rc4(w[a], p) = [key |-> w[a + Len(p)], out |-> Sealed(p, w, a)]
<1>0. PICK l \in Nat : l = Len(p)
  BY ByteSeq
<1> DEFINE b == [key |-> w[a], out |-> <<>>]
           made(j) == Xor(p[j], KeyByte(w[a + j]))
           Upto(k) == [key |-> w[a + k], out |-> [j \in 1 .. k |-> made(j)]]
<1>1. b \in Crypt
  <2>1. a \in 0 .. n
    BY <1>0
  <2> QED BY <2>1 DEF Crypt, KeySteps
<1>2. PICK v \in [0 .. l -> Crypt] :
        /\ v[0] = b /\ \A k \in 1 .. l : v[k] = CryptByte(v[k - 1], p[k])
        /\ FoldLeft(CryptByte, b, p) = v[l]
  <2> HIDE DEF b
  <2> QED BY <1>0, <1>1, CryptSteps
<1> DEFINE T == {k \in 0 .. l : v[k] = Upto(k)}
<1>3. 0 \in T
  <2>1. [j \in 1 .. 0 |-> made(j)] = <<>>
    OBVIOUS
  <2> QED BY <1>2, <2>1
<1>4. ASSUME NEW k \in 1 .. l, k - 1 \in T PROVE k \in T
  <2>1. v[k] = CryptByte(Upto(k - 1), p[k])
    BY <1>2, <1>4
  <2>2. Advanced(w[a + (k - 1)]) = w[a + k]
    <3>1. a + k \in 1 .. n /\ (a + k) - 1 = a + (k - 1)
      BY <1>0
    <3>2. w[a + k] = Advanced(w[(a + k) - 1])
      BY <3>1 DEF KeySteps
    <3> QED BY <3>1, <3>2
  <2>3. CryptByte(Upto(k - 1), p[k])
          = [key |-> w[a + k], out |-> Append([j \in 1 .. k - 1 |-> made(j)], made(k))]
    <3>1. PICK c : c = Upto(k - 1)
      OBVIOUS
    <3>2. PICK o : o = [j \in 1 .. k - 1 |-> made(j)]
      OBVIOUS
    <3>3. c.key = w[a + (k - 1)] /\ c.out = o
      BY <3>1, <3>2
    <3>4. CryptByte(c, p[k]) = [key |-> w[a + k], out |-> Append(o, made(k))]
      BY <2>2, <3>3 DEF CryptByte
    <3> QED BY <3>1, <3>2, <3>4
  <2>4. Append([j \in 1 .. k - 1 |-> made(j)], made(k)) = [j \in 1 .. k |-> made(j)]
    <3> HIDE DEF made
    <3> QED OBVIOUS
  <2>5. v[k] = Upto(k)
    BY <2>1, <2>3, <2>4
  <2> QED BY <2>5
<1>5. T = 0 .. l
  <2>1. T \in SUBSET (0 .. l)
    OBVIOUS
  <2> HIDE DEF T
  <2> QED BY <1>3, <1>4, <2>1, ByPositions
<1>6. v[l] = Upto(l)
  <2>1. l \in T
    BY <1>5
  <2> QED BY <2>1
<1>7. Upto(l) = [key |-> w[a + Len(p)], out |-> Sealed(p, w, a)]
  BY <1>0 DEF Sealed
<1>8. _rc4(w[a], p) = FoldLeft(CryptByte, b, p)
  BY DEF _rc4
<1> QED BY <1>2, <1>6, <1>7, <1>8

(* Twice the same keys give the bytes back.                                *)
LEMMA SealedTwice ==
  ASSUME NEW key, NEW n \in Nat, NEW w, KeySteps(key, n, w), NEW p \in Seq(Byte), NEW a \in Nat, a + Len(p) <= n
  PROVE  Sealed(Sealed(p, w, a), w, a) = p
<1>0. Len(p) \in Nat
  BY ByteSeq
<1>1. PICK q \in Seq(Byte) : q = Sealed(p, w, a) /\ Len(q) = Len(p)
  BY SealedTyped
<1>2. ASSUME NEW j \in 1 .. Len(p) PROVE Xor(q[j], KeyByte(w[a + j])) = p[j]
  <2>1. a + j \in 0 .. n
    BY <1>0
  <2>2. w[a + j] \in RcKey
    BY <2>1 DEF KeySteps
  <2>3. KeyByte(w[a + j]) \in Byte /\ p[j] \in Byte
    BY <2>2, AdvancedTyped, ByteSeq
  <2>4. q[j] = Xor(p[j], KeyByte(w[a + j]))
    BY <1>1 DEF Sealed
  <2> QED BY <2>3, <2>4, XorTwice
<1>3. Sealed(q, w, a) = [j \in 1 .. Len(p) |-> p[j]]
  BY <1>1, <1>2 DEF Sealed
<1>4. p = [j \in 1 .. Len(p) |-> p[j]]
  OBVIOUS
<1> QED BY <1>1, <1>3, <1>4

(* Pieces sealed one after the other are the whole sealed.                 *)
LEMMA SealedJoined ==
  ASSUME NEW s \in Seq(Byte), NEW w, NEW a \in Nat, NEW l \in Nat, a + l <= Len(s)
  PROVE  Sealed(SubSeq(s, 1, a), w, 0) \o Sealed(SubSeq(s, a + 1, a + l), w, a) = Sealed(SubSeq(s, 1, a + l), w, 0)
<1>0. Len(s) \in Nat
  BY ByteSeq
<1>1. PICK p : p = SubSeq(s, 1, a)
  OBVIOUS
<1>2. Len(p) = a /\ \A j \in 1 .. a : p[j] = s[j]
  <2>1. 1 \in Nat \ {0} /\ a <= Len(s) /\ 1 <= a + 1 /\ a - 1 + 1 = a /\ \A j \in 1 .. a : 1 + j - 1 = j
    BY <1>0
  <2> QED BY <1>1, <2>1, SubBytes
<1>3. PICK q : q = SubSeq(s, a + 1, a + l)
  OBVIOUS
<1>4. Len(q) = l /\ \A j \in 1 .. l : q[j] = s[a + j]
  <2>1. /\ a + 1 \in Nat \ {0} /\ a + l \in Nat /\ a + 1 <= (a + l) + 1 /\ (a + l) - (a + 1) + 1 = l
        /\ \A j \in 1 .. l : (a + 1) + j - 1 = a + j
    BY <1>0
  <2> QED BY <1>3, <2>1, SubBytes
<1>5. PICK r : r = SubSeq(s, 1, a + l)
  OBVIOUS
<1>6. Len(r) = a + l /\ \A j \in 1 .. a + l : r[j] = s[j]
  <2>1. /\ 1 \in Nat \ {0} /\ a + l \in Nat /\ 1 <= (a + l) + 1 /\ (a + l) - 1 + 1 = a + l
        /\ \A j \in 1 .. a + l : 1 + j - 1 = j
    BY <1>0
  <2> QED BY <1>5, <2>1, SubBytes
<1> DEFINE made(j) == Xor(s[j], KeyByte(w[j]))
<1>7. Sealed(p, w, 0) = [j \in 1 .. a |-> made(j)]
  <2>1. \A j \in 1 .. a : 0 + j = j
    OBVIOUS
  <2> QED BY <1>2, <2>1 DEF Sealed
<1>8. Sealed(q, w, a) = [j \in 1 .. l |-> made(a + j)]
  BY <1>4 DEF Sealed
<1>9. Sealed(r, w, 0) = [j \in 1 .. a + l |-> made(j)]
  <2>1. \A j \in 1 .. a + l : 0 + j = j
    OBVIOUS
  <2> QED BY <1>6, <2>1 DEF Sealed
<1>10. [j \in 1 .. a |-> made(j)] \o [j \in 1 .. l |-> made(a + j)] = [j \in 1 .. a + l |-> made(j)]
  <2> HIDE DEF made
  <2> QED OBVIOUS
<1> QED BY <1>1, <1>3, <1>5, <1>7, <1>8, <1>9, <1>10

----------------------------------------------------------------------------
(* The invariant of the streams *)

(* After done bytes the hasher and the cipher are where the whole input,   *)
(* in one go, would have brought them.                                     *)
Given  == input \in Seq(Byte) /\ seed \in Word /\ done \in 0 .. Len(input)
Hashes == \E v : HashSteps(input, seed, v) /\ hasher = Hashed(input, v, done, done)
Ciphers == \E w : /\ KeySteps(_rc4Init(Key), Len(input), w)
                  /\ cipher = w[done] /\ sent = Sealed(Handed, w, 0)
Digested == Finished => digest = MurmurHash2A(input, seed)
StreamInv == Given /\ Hashes /\ Ciphers /\ Digested

LEMMA KeyTyped == _rc4Init(Key) \in RcKey
BY InputsAssumption, InitTyped

LEMMA HandedTyped == Given => Handed \in Seq(Byte) /\ Len(Handed) = done
<1> SUFFICES ASSUME Given PROVE Handed \in Seq(Byte) /\ Len(Handed) = done
  OBVIOUS
<1>1. input \in Seq(Byte) /\ Len(input) \in Nat /\ done \in 0 .. Len(input)
  BY ByteSeq DEF Given
<1>2. 1 \in Nat \ {0} /\ done \in Nat /\ done <= Len(input) /\ 1 <= done + 1 /\ done - 1 + 1 = done
  BY <1>1
<1> QED BY <1>1, <1>2, SubBytes DEF Handed

LEMMA StreamBegins == StreamBegin => StreamInv
<1> SUFFICES ASSUME StreamBegin PROVE StreamInv
  OBVIOUS
<1>1. input \in Seq(Byte) /\ seed \in Word /\ Len(input) \in Nat /\ done = 0
  <2>1. input \in Seq(Byte) /\ seed \in Word
    BY InputsAssumption DEF StreamBegin, Word
  <2> QED BY <2>1, ByteSeq DEF StreamBegin
<1>2. Given
  BY <1>1 DEF Given
<1>3. Hashes
  <2>1. PICK v : HashSteps(input, seed, v)
    BY <1>1, HashStepsExist
  <2>2. hasher = Hashed(input, v, 0, 0)
    BY <1>1, <2>1, EndIsHash DEF StreamBegin
  <2> QED BY <1>1, <2>1, <2>2 DEF Hashes
<1>4. Ciphers
  <2>1. PICK w : KeySteps(_rc4Init(Key), Len(input), w)
    BY <1>1, KeyTyped, KeyStepsExist
  <2>2. cipher = w[done]
    BY <1>1, <2>1 DEF StreamBegin, KeySteps
  <2>3. sent = Sealed(Handed, w, 0)
    <3>1. Handed = <<>>
      BY <1>1, EmptyPiece DEF Handed
    <3>2. Len(<<>>) = 0
      OBVIOUS
    <3>3. Sealed(<<>>, w, 0) = <<>>
      BY <3>2 DEF Sealed
    <3> QED BY <3>1, <3>3 DEF StreamBegin
  <2> QED BY <2>1, <2>2, <2>3 DEF Ciphers
<1>5. Digested
  BY DEF StreamBegin, Digested, Finished
<1> QED BY <1>2, <1>3, <1>4, <1>5 DEF StreamInv

LEMMA HandKeeps ==
  ASSUME StreamInv, NEW n \in 1 .. Len(input) - done, Hand(n)
  PROVE  StreamInv'
<1>0. input \in Seq(Byte) /\ seed \in Word /\ Len(input) \in Nat /\ done \in 0 .. Len(input) /\ n \in Nat
  <2>1. input \in Seq(Byte) /\ seed \in Word /\ done \in 0 .. Len(input)
    BY DEF StreamInv, Given
  <2>2. Len(input) \in Nat
    BY <2>1, ByteSeq
  <2> QED BY <2>1, <2>2
<1>1. input' = input /\ seed' = seed /\ digest' = digest /\ done' = done + n
  BY DEF Hand
<1>2. done + n \in 0 .. Len(input) /\ done \in Nat /\ done + n <= Len(input)
  BY <1>0
<1>3. PICK piece : piece = SubSeq(input, done + 1, done + n)
  OBVIOUS
<1>4. piece \in Seq(Byte) /\ Len(piece) = n
  <2>1. done + 1 \in Nat \ {0} /\ done + n \in Nat /\ done + 1 <= (done + n) + 1 /\ (done + n) - (done + 1) + 1 = n
    BY <1>0
  <2> QED BY <1>0, <1>2, <1>3, <2>1, SubBytes
<1>5. Given'
  BY <1>0, <1>1, <1>2 DEF Given
<1>6. Hashes'
  <2>1. PICK v : HashSteps(input, seed, v) /\ hasher = Hashed(input, v, done, done)
    BY DEF StreamInv, Hashes
  <2>2. hasher' = Add(hasher, piece)
    BY <1>3 DEF Hand
  <2>3. Add(Hashed(input, v, done, done), piece) = Hashed(input, v, done + n, done + n)
    BY <1>0, <1>2, <1>3, <2>1, AddStep
  <2>4. hasher' = Hashed(input, v, done + n, done + n)
    BY <2>1, <2>2, <2>3
  <2> QED BY <1>1, <2>1, <2>4 DEF Hashes
<1>7. Ciphers'
  <2>1. PICK w : KeySteps(_rc4Init(Key), Len(input), w) /\ cipher = w[done] /\ sent = Sealed(Handed, w, 0)
    BY DEF StreamInv, Ciphers
  <2>2. cipher' = _rc4(cipher, piece).key /\ sent' = sent \o _rc4(cipher, piece).out
    BY <1>3 DEF Hand
  <2>3. _rc4(w[done], piece) = [key |-> w[done + Len(piece)], out |-> Sealed(piece, w, done)]
    <3>1. done + Len(piece) <= Len(input)
      BY <1>2, <1>4
    <3> QED BY <1>0, <1>2, <1>4, <2>1, <3>1, CryptPiece
  <2>4. cipher' = w[done + n]
    BY <1>4, <2>1, <2>2, <2>3
  <2>5. sent' = Sealed(Handed, w, 0) \o Sealed(piece, w, done)
    BY <2>1, <2>2, <2>3
  <2>6. Handed' = SubSeq(input, 1, done + n)
    BY <1>1 DEF Handed
  <2>7. sent' = Sealed(Handed', w, 0)
    <3>1. PICK a \in Nat : a = done
      BY <1>0
    <3>2. a + n <= Len(input)
      BY <1>2, <3>1
    <3>3. Sealed(SubSeq(input, 1, a), w, 0) \o Sealed(SubSeq(input, a + 1, a + n), w, a) = Sealed(SubSeq(input, 1, a + n), w, 0)
      BY <1>0, <3>2, SealedJoined
    <3> QED BY <1>3, <2>5, <2>6, <3>1, <3>3 DEF Handed
  <2> QED BY <1>1, <2>1, <2>4, <2>7 DEF Ciphers
<1>8. Digested'
  BY <1>1 DEF Hand, Digested, Finished
<1> QED BY <1>5, <1>6, <1>7, <1>8 DEF StreamInv

LEMMA FinishKeeps == StreamInv /\ Finish => StreamInv'
<1> SUFFICES ASSUME StreamInv, Finish PROVE StreamInv'
  OBVIOUS
<1>1. UNCHANGED <<input, seed, done, hasher, cipher, sent>> /\ done = Len(input) /\ digest' = End(hasher)
  BY DEF Finish
<1>2. Given' /\ Hashes' /\ Ciphers'
  BY <1>1 DEF StreamInv, Given, Hashes, Ciphers, Handed
<1>3. End(hasher) = MurmurHash2A(input, seed)
  <2>1. PICK v : HashSteps(input, seed, v) /\ hasher = Hashed(input, v, Len(input), Len(input))
    BY <1>1 DEF StreamInv, Hashes
  <2>2. input \in Seq(Byte) /\ seed \in Word
    BY DEF StreamInv, Given
  <2> QED BY <2>1, <2>2, EndIsHash
<1>4. Digested'
  BY <1>1, <1>3 DEF Digested
<1> QED BY <1>2, <1>4 DEF StreamInv

LEMMA StreamInvHolds == StreamSpec => []StreamInv
<1>1. StreamInv /\ [StreamNext]_streamVars => StreamInv'
  <2> SUFFICES ASSUME StreamInv, [StreamNext]_streamVars PROVE StreamInv'
    OBVIOUS
  <2>1. CASE \E n \in 1 .. Len(input) - done : Hand(n)
    BY <2>1, HandKeeps
  <2>2. CASE Finish
    BY <2>2, FinishKeeps
  <2>3. CASE UNCHANGED streamVars
    BY <2>3 DEF streamVars, StreamInv, Given, Hashes, Ciphers, Handed, Digested, Finished
  <2> QED BY <2>1, <2>2, <2>3 DEF StreamNext
<1> QED BY <1>1, StreamBegins, PTL DEF StreamSpec

LEMMA InvGivesAgreement == StreamInv => StreamsAgree
<1> SUFFICES ASSUME StreamInv PROVE StreamsAgree
  OBVIOUS
<1>0. input \in Seq(Byte) /\ seed \in Word /\ done \in 0 .. Len(input) /\ Len(input) \in Nat
  BY ByteSeq DEF StreamInv, Given
<1>1. PICK w : KeySteps(_rc4Init(Key), Len(input), w) /\ sent = Sealed(Handed, w, 0)
  BY DEF StreamInv, Ciphers
<1>2. Handed \in Seq(Byte) /\ Len(Handed) = done
  BY HandedTyped DEF StreamInv
<1>3. w[0] = _rc4Init(Key) /\ 0 \in Nat /\ 0 + Len(Handed) <= Len(input)
  BY <1>0, <1>1, <1>2 DEF KeySteps
<1>9. ASSUME NEW p \in Seq(Byte), Len(p) <= Len(input) PROVE _rc4Full(Key, p) = Sealed(p, w, 0)
  <2>1. PICK a \in Nat : a = 0
    OBVIOUS
  <2>2. a + Len(p) <= Len(input)
    BY <1>9, <2>1, ByteSeq
  <2>3. _rc4(w[a], p) = [key |-> w[a + Len(p)], out |-> Sealed(p, w, a)]
    BY <1>0, <1>1, <2>2, CryptPiece
  <2> QED BY <1>3, <2>1, <2>3 DEF _rc4Full
<1>4. sent = _rc4Full(Key, Handed)
  BY <1>0, <1>1, <1>2, <1>9
<1>5. _rc4Full(Key, sent) = Handed
  <2>1. sent \in Seq(Byte) /\ Len(sent) = Len(Handed)
    BY <1>0, <1>1, <1>2, <1>3, SealedTyped
  <2>2. Sealed(sent, w, 0) = Handed
    BY <1>0, <1>1, <1>2, <1>3, SealedTwice
  <2> QED BY <1>0, <1>2, <1>9, <2>1, <2>2
<1>6. MurmurHashNeutral2(input, seed) = MurmurHash2(input, seed)
  BY <1>0, NeutralAgrees
<1>7. \A align \in 0 .. 3 : MurmurHashAligned2(input, align, seed) = MurmurHash2(input, seed)
  BY <1>0, AlignedAgrees
<1>8. Finished => digest = MurmurHash2A(input, seed)
  BY DEF StreamInv, Digested
<1> QED BY <1>4, <1>5, <1>6, <1>7, <1>8 DEF StreamsAgree

(* murmurhash2.cc 245-259, 336, 386 and crypt_utils.cpp: however an input  *)
(* is cut, the incremental hasher gives the hash of the whole, and RC4 what*)
(* it makes of the whole, which it undoes; the neutral and the aligned     *)
(* version give the hash of MurmurHash2 at every address.  For every input,*)
(* seed and key, and every state size up to 256.                           *)
THEOREM StreamsAlwaysAgree == StreamSpec => []StreamsAgree
BY StreamInvHolds, InvGivesAgreement, PTL
----------------------------------------------------------------------------
(* Every step of the hashes can be undone: what is multiplied, added,      *)
(* shifted or mixed in tells what it was before                            *)

(* The bytes of the columns carried, with the carry into each.             *)
LEMMA CarriedBytes ==
  ASSUME NEW columns \in Seq(Nat)
  PROVE  \E c \in [0 .. Len(columns) -> Nat] :
           /\ c[0] = 0 /\ \A k \in 1 .. Len(columns) : c[k] = (columns[k] + c[k - 1]) \div 256
           /\ Carried(columns) = [k \in 1 .. Len(columns) |-> (columns[k] + c[k - 1]) % 256]
<1> DEFINE b == [out |-> <<>>, carry |-> 0]
           n == Len(columns)
<1>0. n \in Nat /\ \A k \in 1 .. n : columns[k] \in Nat
  OBVIOUS
<1>1. b \in CarryState /\ b.out = <<>> /\ b.carry = 0
  BY DEF CarryState
<1>2. PICK v \in [0 .. n -> CarryState] :
        /\ v[0] = b /\ \A k \in 1 .. n : v[k] = Carry(v[k - 1], columns[k])
        /\ Carried(columns) = v[n].out
  <2> HIDE DEF b
  <2> QED BY <1>1, CarrySteps DEF Carried, b
<1> DEFINE c == [k \in 0 .. n |-> v[k].carry]
           byte(k) == (columns[k] + c[k - 1]) % 256
           T == {k \in 0 .. n : v[k].out = [j \in 1 .. k |-> byte(j)]}
<1>3. ASSUME NEW k \in 0 .. n PROVE v[k] \in CarryState /\ v[k].out \in Seq(Byte) /\ v[k].carry \in Nat
  <2> HIDE DEF b, n
  <2>1. v[k] \in CarryState
    BY <1>2
  <2> QED BY <2>1 DEF CarryState
<1>4. c \in [0 .. n -> Nat] /\ c[0] = 0
  <2>1. 0 \in 0 .. n
    BY <1>0
  <2> HIDE DEF n
  <2> QED BY <1>1, <1>2, <1>3, <2>1
<1>5. ASSUME NEW k \in 1 .. n
      PROVE  /\ k \in 0 .. n /\ k - 1 \in 0 .. n
             /\ c[k] = (columns[k] + c[k - 1]) \div 256
             /\ v[k].out = Append(v[k - 1].out, byte(k))
  <2>1. k \in 0 .. n /\ k - 1 \in 0 .. n
    BY <1>0
  <2>2. v[k] = Carry(v[k - 1], columns[k])
    BY <1>2
  <2> HIDE DEF n
  <2> QED BY <2>1, <2>2 DEF Carry
<1>6. T = 0 .. n
  <2>1. 0 \in T
    <3>1. v[0].out = <<>> /\ 0 \in 0 .. n
      BY <1>0, <1>1, <1>2
    <3>2. [j \in 1 .. 0 |-> byte(j)] = <<>>
      <4> HIDE DEF byte
      <4> QED OBVIOUS
    <3> QED BY <3>1, <3>2
  <2>2. ASSUME NEW k \in 1 .. n, k - 1 \in T PROVE k \in T
    <3> DEFINE before == [j \in 1 .. k - 1 |-> byte(j)]
    <3>1. v[k - 1].out = before /\ k \in 0 .. n /\ k - 1 \in 0 .. n /\ k \in Nat
      BY <1>0, <1>5, <2>2
    <3>2. before \in Seq(Byte)
      BY <1>3, <3>1
    <3>3. Append(before, byte(k)) = [j \in 1 .. k |-> byte(j)]
      <4> HIDE DEF byte
      <4>1. Len(before) = k - 1
        BY <3>1, <3>2
      <4> QED BY <3>1, <3>2, <4>1
    <3>4. v[k].out = Append(before, byte(k))
      BY <1>5, <3>1
    <3> QED BY <3>1, <3>3, <3>4
  <2> HIDE DEF T
  <2>3. T \subseteq 0 .. n
    BY DEF T
  <2> QED BY <1>0, <2>1, <2>2, <2>3, ByPositions
<1>7. Carried(columns) = [k \in 1 .. n |-> byte(k)]
  <2>1. n \in T
    <3> HIDE DEF T, n
    <3> QED BY <1>0, <1>6
  <2> QED BY <1>2, <2>1
<1> HIDE DEF c, T
<1>8. Carried(columns) = [k \in 1 .. n |-> (columns[k] + c[k - 1]) % 256]
  BY <1>7
<1>9. \A k \in 1 .. n : c[k] = (columns[k] + c[k - 1]) \div 256
  BY <1>5
<1> HIDE DEF byte
<1> QED BY <1>4, <1>8, <1>9

SameBefore(x, y, p) == \A k \in 1 .. p - 1 : x[k] = y[k]
SameBehind(x, y, p, n) == \A k \in p + 1 .. n : x[k] = y[k]

(* Equal modulo 256 when the same is added.                                *)
SameByte(a, b) == \E r \in Nat : (a + r) % 256 = (b + r) % 256

(* Columns that differ at some place: at the first one both get the same   *)
(* carry.                                                                  *)
LEMMA CarriedTells ==
  ASSUME NEW x \in Seq(Nat), NEW y \in Seq(Nat), Len(x) = Len(y), Carried(x) = Carried(y),
         NEW p \in 1 .. Len(x), SameBefore(x, y, p)
  PROVE  SameByte(x[p], y[p])
<1> DEFINE n == Len(x)
<1>0. n \in Nat /\ p \in Nat /\ p - 1 \in Nat /\ p - 1 \in 0 .. n
  OBVIOUS
<1>1. PICK c \in [0 .. n -> Nat] :
           /\ c[0] = 0 /\ \A k \in 1 .. n : c[k] = (x[k] + c[k - 1]) \div 256
           /\ Carried(x) = [k \in 1 .. n |-> (x[k] + c[k - 1]) % 256]
  BY CarriedBytes
<1>2. PICK d \in [0 .. n -> Nat] :
           /\ d[0] = 0 /\ \A k \in 1 .. n : d[k] = (y[k] + d[k - 1]) \div 256
           /\ Carried(y) = [k \in 1 .. n |-> (y[k] + d[k - 1]) % 256]
  <2>1. n = Len(y)
    OBVIOUS
  <2>2. PICK d \in [0 .. Len(y) -> Nat] :
           /\ d[0] = 0 /\ \A k \in 1 .. Len(y) : d[k] = (y[k] + d[k - 1]) \div 256
           /\ Carried(y) = [k \in 1 .. Len(y) |-> (y[k] + d[k - 1]) % 256]
    BY CarriedBytes
  <2> HIDE DEF n
  <2> QED BY <2>1, <2>2
<1> DEFINE T == {k \in 0 .. p - 1 : c[k] = d[k]}
<1> HIDE DEF n
<1>3. T = 0 .. p - 1
  <2>1. 0 \in T
    BY <1>0, <1>1, <1>2
  <2>2. ASSUME NEW k \in 1 .. p - 1, k - 1 \in T PROVE k \in T
    <3>1. k \in 1 .. n /\ k \in 0 .. p - 1
      BY <1>0
    <3> QED BY <1>1, <1>2, <2>2, <3>1 DEF SameBefore
  <2>3. T \subseteq 0 .. p - 1
    OBVIOUS
  <2> HIDE DEF T
  <2> QED BY <1>0, <2>1, <2>2, <2>3, ByPositions
<1>4. c[p - 1] = d[p - 1] /\ c[p - 1] \in Nat
  <2>1. p - 1 \in 0 .. p - 1
    BY <1>0
  <2>2. p - 1 \in T
    BY <1>3, <2>1, Zenon
  <2> QED BY <1>0, <1>1, <2>2
<1>5. (x[p] + c[p - 1]) % 256 = (y[p] + d[p - 1]) % 256
  <2>1. p \in 1 .. n
    BY DEF n
  <2>2. Carried(x)[p] = (x[p] + c[p - 1]) % 256
    BY <1>1, <2>1
  <2>3. Carried(y)[p] = (y[p] + d[p - 1]) % 256
    BY <1>2, <2>1
  <2> QED BY <2>2, <2>3
<1> QED BY <1>4, <1>5 DEF SameByte

(* A word of n bytes.                                                      *)
W(n) == [1 .. n -> Byte]

(* Words that are not the same differ at a first byte.                     *)
LEMMA FirstDifference ==
  ASSUME NEW n \in Nat, NEW x \in W(n), NEW y \in W(n), x # y
  PROVE  \E p \in 1 .. n : x[p] # y[p] /\ SameBefore(x, y, p)
<1> DEFINE T == {k \in 1 .. n : x[k] # y[k]}
<1>1. T # {}
  BY DEF W
<1>2. T \in SUBSET Nat
  OBVIOUS
<1>3. PICK p \in T : \A k \in T : p <= k
  <2> HIDE DEF T
  <2> QED BY <1>1, <1>2, LeastElement
<1>4. ASSUME NEW k \in 1 .. p - 1 PROVE x[k] = y[k]
  <2>1. k \in 1 .. n /\ k < p
    OBVIOUS
  <2> QED BY <1>3, <2>1
<1> QED BY <1>4 DEF SameBefore

(* And at a last one.                                                      *)
LEMMA LastDifference ==
  ASSUME NEW n \in Nat, NEW x \in W(n), NEW y \in W(n), x # y
  PROVE  \E p \in 1 .. n : x[p] # y[p] /\ SameBehind(x, y, p, n)
<1> DEFINE T == {n - k : k \in {k \in 1 .. n : x[k] # y[k]}}
<1>1. T # {}
  BY DEF W
<1>2. T \in SUBSET Nat
  OBVIOUS
<1>3. PICK l \in T : \A k \in T : l <= k
  <2> HIDE DEF T
  <2> QED BY <1>1, <1>2, LeastElement
<1>4. PICK p \in 1 .. n : l = n - p /\ x[p] # y[p]
  OBVIOUS
<1>5. ASSUME NEW k \in p + 1 .. n PROVE x[k] = y[k]
  <2>1. SUFFICES ASSUME x[k] # y[k] PROVE FALSE
    OBVIOUS
  <2>2. n - k \in T /\ n - k < n - p
    BY <1>4, <2>1
  <2>3. n - k \in T /\ l <= n - k
    <3> HIDE DEF T
    <3> QED BY <1>3, <2>2
  <2>4. ~(n - p <= n - k)
    BY <2>2
  <2> QED BY <1>4, <2>3, <2>4
<1> QED BY <1>4, <1>5 DEF SameBehind

LEMMA CarriedWord ==
  ASSUME NEW n \in Nat, NEW columns \in Seq(Nat), Len(columns) = n
  PROVE  Carried(columns) \in W(n)
<1>1. PICK c \in [0 .. n -> Nat] : Carried(columns) = [k \in 1 .. n |-> (columns[k] + c[k - 1]) % 256]
  <2>1. PICK c \in [0 .. Len(columns) -> Nat] :
          Carried(columns) = [k \in 1 .. Len(columns) |-> (columns[k] + c[k - 1]) % 256]
    BY CarriedBytes
  <2> QED BY <2>1
<1>2. ASSUME NEW k \in 1 .. n PROVE (columns[k] + c[k - 1]) % 256 \in Byte
  <2>1. columns[k] \in Nat /\ k - 1 \in 0 .. n
    OBVIOUS
  <2>2. columns[k] + c[k - 1] \in Nat
    BY <2>1
  <2>3. \A x \in Nat : x % 256 \in Byte
    BY DEF Byte
  <2> QED BY <2>2, <2>3
<1> QED BY <1>1, <1>2 DEF W

Offset(u, v, a, b) == \E q \in Nat : u = q + a /\ v = q + b

(* Sums that differ in the last term only.                                 *)
LEMMA SumLast ==
  ASSUME NEW n \in Nat \ {0}, NEW s \in Seq(Nat), NEW t \in Seq(Nat), Len(s) = n, Len(t) = n,
         SameBefore(s, t, n)
  PROVE  FoldLeft(+, 0, s) \in Nat /\ Offset(FoldLeft(+, 0, s), FoldLeft(+, 0, t), s[n], t[n])
<1>1. PICK v \in [0 .. n -> Nat] :
           /\ v[0] = 0 /\ \A k \in 1 .. n : v[k] = v[k - 1] + s[k]
           /\ FoldLeft(+, 0, s) = v[n]
  <2>1. PICK v \in [0 .. Len(s) -> Nat] :
           /\ v[0] = 0 /\ \A k \in 1 .. Len(s) : v[k] = v[k - 1] + s[k]
           /\ FoldLeft(+, 0, s) = v[Len(s)]
    BY SumSteps
  <2> QED BY <2>1
<1>2. PICK u \in [0 .. n -> Nat] :
           /\ u[0] = 0 /\ \A k \in 1 .. n : u[k] = u[k - 1] + t[k]
           /\ FoldLeft(+, 0, t) = u[n]
  <2>1. PICK u \in [0 .. Len(t) -> Nat] :
           /\ u[0] = 0 /\ \A k \in 1 .. Len(t) : u[k] = u[k - 1] + t[k]
           /\ FoldLeft(+, 0, t) = u[Len(t)]
    BY SumSteps
  <2> QED BY <2>1
<1> DEFINE T == {k \in 0 .. n - 1 : v[k] = u[k]}
<1>3. T = 0 .. n - 1
  <2>1. 0 \in T /\ T \subseteq 0 .. n - 1 /\ n - 1 \in Nat
    <3>1. 0 \in 0 .. n - 1 /\ n - 1 \in Nat
      OBVIOUS
    <3>2. v[0] = u[0]
      BY <1>1, <1>2, Zenon
    <3> QED BY <3>1, <3>2
  <2>2. ASSUME NEW k \in 1 .. n - 1, k - 1 \in T PROVE k \in T
    <3>1. k \in 1 .. n /\ k \in 0 .. n - 1
      OBVIOUS
    <3>2. v[k] = v[k - 1] + s[k] /\ u[k] = u[k - 1] + t[k]
      BY <1>1, <1>2, <3>1
    <3>3. s[k] = t[k] /\ v[k - 1] = u[k - 1]
      BY <2>2 DEF SameBefore
    <3> QED BY <3>1, <3>2, <3>3
  <2> HIDE DEF T
  <2> QED BY <2>1, <2>2, ByPositions
<1>4. v[n - 1] = u[n - 1] /\ v[n - 1] \in Nat /\ v[n] \in Nat
  <2>1. n - 1 \in 0 .. n - 1 /\ n - 1 \in 0 .. n /\ n \in 0 .. n
    OBVIOUS
  <2>2. n - 1 \in T
    BY <1>3, <2>1, Zenon
  <2>3. v[n - 1] = u[n - 1]
    BY <2>2
  <2> QED BY <1>1, <2>1, <2>3
<1>5. v[n] = v[n - 1] + s[n] /\ u[n] = u[n - 1] + t[n]
  <2>1. n \in 1 .. n
    OBVIOUS
  <2> QED BY <1>1, <1>2, <2>1, Zenon
<1>6. FoldLeft(+, 0, s) = v[n - 1] + s[n] /\ FoldLeft(+, 0, t) = v[n - 1] + t[n]
  BY <1>1, <1>2, <1>4, <1>5, Zenon
<1>7. FoldLeft(+, 0, s) \in Nat
  BY <1>1, <1>4, Zenon
<1> QED BY <1>4, <1>6, <1>7, Zenon DEF Offset

(* The sum of a column of a product.                                       *)
Terms(x, m, k)  == [j \in 1 .. k |-> x[j] * m[k + 1 - j]]
Column(x, m, k) == FoldLeft(+, 0, Terms(x, m, k))
Columns(x, m)   == [k \in DOMAIN x |-> Column(x, m, k)]

LEMMA TermsTyped ==
  ASSUME NEW n \in Nat, NEW x \in W(n), NEW m \in W(n), NEW k \in 1 .. n
  PROVE  /\ Terms(x, m, k) \in Seq(Nat) /\ Len(Terms(x, m, k)) = k
         /\ Terms(x, m, k)[k] = x[k] * m[1]
<1>1. ASSUME NEW j \in 1 .. k PROVE x[j] * m[k + 1 - j] \in Nat
  <2>1. j \in 1 .. n /\ k + 1 - j \in 1 .. n
    OBVIOUS
  <2>2. x[j] \in Byte /\ m[k + 1 - j] \in Byte
    BY <2>1 DEF W
  <2>3. \A a, b \in Byte : a * b \in Nat
    <3>1. \A a, b \in Nat : a * b \in Nat
      OBVIOUS
    <3> QED BY <3>1 DEF Byte
  <2> QED BY <2>2, <2>3, Zenon
<1>2. k + 1 - k = 1 /\ k \in 1 .. k /\ k \in Nat
  OBVIOUS
<1>3. [j \in 1 .. k |-> x[j] * m[k + 1 - j]] \in Seq(Nat)
  BY <1>1, <1>2
<1> QED BY <1>2, <1>3 DEF Terms

LEMMA ColumnsTyped ==
  ASSUME NEW n \in Nat, NEW x \in W(n), NEW m \in W(n)
  PROVE  /\ Times(x, m) = Carried(Columns(x, m))
         /\ Columns(x, m) \in Seq(Nat) /\ Len(Columns(x, m)) = n
         /\ \A k \in 1 .. n : Columns(x, m)[k] = Column(x, m, k)
<1>1. DOMAIN x = 1 .. n
  BY DEF W
<1>2. ASSUME NEW k \in 1 .. n PROVE Column(x, m, k) \in Nat
  <2>1. Terms(x, m, k) \in Seq(Nat) /\ Len(Terms(x, m, k)) = k /\ k \in Nat \ {0}
    BY TermsTyped
  <2>2. PICK s : s = Terms(x, m, k)
    OBVIOUS
  <2>3. FoldLeft(+, 0, s) \in Nat
    BY <2>1, <2>2, SumLast DEF SameBefore
  <2> QED BY <2>2, <2>3 DEF Column
<1>3. Columns(x, m) = [k \in 1 .. n |-> Column(x, m, k)]
  BY <1>1 DEF Columns
<1>4. Columns(x, m) \in Seq(Nat) /\ Len(Columns(x, m)) = n
  BY <1>2, <1>3
<1>5. Times(x, m) = Carried(Columns(x, m))
  BY DEF Times, Columns, Column, Terms
<1> QED BY <1>3, <1>4, <1>5

(* A product is a word.                                                    *)
LEMMA TimesWord ==
  ASSUME NEW n \in Nat, NEW x \in W(n), NEW m \in W(n)
  PROVE  Times(x, m) \in W(n)
BY ColumnsTyped, CarriedWord

(* 149 * 189 and 147 * 155 are 1 modulo 256.                               *)
LEMMA OddTells ==
  ASSUME NEW a \in Byte, NEW b \in Byte, NEW c \in Nat, NEW m \in {1, 147, 149},
         (c + a * m) % 256 = (c + b * m) % 256
  PROVE  a = b
<1> DEFINE d == a - b
<1>1. a \in Int /\ b \in Int /\ d \in Int /\ -256 < d /\ d < 256
  BY DEF Byte
<1>2. PICK p \in Int : c + a * m = 256 * p + ((c + a * m) % 256)
  BY <1>1
<1>3. PICK q \in Int : c + b * m = 256 * q + ((c + b * m) % 256)
  BY <1>1
<1>4. \E z \in Int : d = 256 * z
  <2>1. CASE m = 1
    <3>1. d = 256 * (p - q)
      BY <1>1, <1>2, <1>3, <2>1
    <3>2. p - q \in Int
      OBVIOUS
    <3> QED BY <3>1, <3>2, Zenon
  <2>2. CASE m = 147
    <3>1. 147 * d = 256 * (p - q)
      BY <1>1, <1>2, <1>3, <2>2
    <3> HIDE DEF d
    <3>2. d = 256 * (155 * (p - q) - 89 * d)
      BY <1>1, <3>1
    <3> QED BY <1>1, <3>2
  <2>3. CASE m = 149
    <3>1. 149 * d = 256 * (p - q)
      BY <1>1, <1>2, <1>3, <2>3
    <3> HIDE DEF d
    <3>2. d = 256 * (189 * (p - q) - 110 * d)
      BY <1>1, <3>1
    <3> QED BY <1>1, <3>2
  <2> QED BY <2>1, <2>2, <2>3
<1>5. d = 0
  <2> HIDE DEF d
  <2> QED BY <1>1, <1>4
<1> QED BY <1>1, <1>5

(* x * m tells x when m is odd: at the first byte that differs both        *)
(* products have the same below, and the odd byte of m tells.              *)
LEMMA TimesTells ==
  ASSUME NEW n \in Nat, NEW x \in W(n), NEW y \in W(n), NEW m \in W(n), m[1] \in {147, 149},
         Times(x, m) = Times(y, m)
  PROVE  x = y
<1>1. SUFFICES ASSUME x # y PROVE FALSE
  OBVIOUS
<1>2. PICK p \in 1 .. n : x[p] # y[p] /\ SameBefore(x, y, p)
  BY <1>1, FirstDifference
<1>3. ASSUME NEW k \in 1 .. p - 1 PROVE Columns(x, m)[k] = Columns(y, m)[k]
  <2>1. k \in 1 .. n /\ \A j \in 1 .. k : j \in 1 .. p - 1
    OBVIOUS
  <2>2. Terms(x, m, k) = Terms(y, m, k)
    BY <1>2, <2>1 DEF Terms, SameBefore
  <2>3. Columns(x, m)[k] = Column(x, m, k) /\ Columns(y, m)[k] = Column(y, m, k)
    BY <2>1, ColumnsTyped
  <2> QED BY <2>2, <2>3 DEF Column
<1>4. PICK r \in Nat : (Columns(x, m)[p] + r) % 256 = (Columns(y, m)[p] + r) % 256
  <2>1. Columns(x, m) \in Seq(Nat) /\ Len(Columns(x, m)) = n /\ Times(x, m) = Carried(Columns(x, m))
    BY ColumnsTyped
  <2>2. Columns(y, m) \in Seq(Nat) /\ Len(Columns(y, m)) = n /\ Times(y, m) = Carried(Columns(y, m))
    BY ColumnsTyped
  <2>3. PICK s \in Seq(Nat) : s = Columns(x, m)
    BY <2>1
  <2>4. PICK t \in Seq(Nat) : t = Columns(y, m)
    BY <2>2
  <2>5. SameBefore(s, t, p)
    BY <1>3, <2>3, <2>4, Zenon DEF SameBefore
  <2>6. Carried(s) = Carried(t) /\ Len(s) = Len(t) /\ p \in 1 .. Len(s)
    BY <2>1, <2>2, <2>3, <2>4
  <2>7. SameByte(s[p], t[p])
    BY <2>5, <2>6, CarriedTells
  <2> QED BY <2>3, <2>4, <2>7, Zenon DEF SameByte
<1>5. PICK q \in Nat : Columns(x, m)[p] = q + x[p] * m[1] /\ Columns(y, m)[p] = q + y[p] * m[1]
  <2>1. Terms(x, m, p) \in Seq(Nat) /\ Len(Terms(x, m, p)) = p /\ Terms(x, m, p)[p] = x[p] * m[1]
    BY TermsTyped
  <2>2. Terms(y, m, p) \in Seq(Nat) /\ Len(Terms(y, m, p)) = p /\ Terms(y, m, p)[p] = y[p] * m[1]
    BY TermsTyped
  <2>3. PICK s \in Seq(Nat) : s = Terms(x, m, p)
    BY <2>1
  <2>4. PICK t \in Seq(Nat) : t = Terms(y, m, p)
    BY <2>2
  <2>5. SameBefore(s, t, p)
    BY <1>2, <2>3, <2>4 DEF Terms, SameBefore
  <2>6. p \in Nat \ {0} /\ Len(s) = p /\ Len(t) = p
    BY <2>1, <2>2, <2>3, <2>4
  <2>7. Offset(FoldLeft(+, 0, s), FoldLeft(+, 0, t), s[p], t[p])
    BY <2>5, <2>6, SumLast
  <2>8. Columns(x, m)[p] = Column(x, m, p) /\ Columns(y, m)[p] = Column(y, m, p)
    BY ColumnsTyped
  <2>10. Columns(x, m)[p] = FoldLeft(+, 0, s) /\ Columns(y, m)[p] = FoldLeft(+, 0, t)
    BY <2>3, <2>4, <2>8, Zenon DEF Column
  <2>9. s[p] = x[p] * m[1] /\ t[p] = y[p] * m[1]
    BY <2>1, <2>2, <2>3, <2>4
  <2>11. PICK q \in Nat : FoldLeft(+, 0, s) = q + s[p] /\ FoldLeft(+, 0, t) = q + t[p]
    BY <2>7 DEF Offset
  <2>12. Columns(x, m)[p] = q + x[p] * m[1] /\ Columns(y, m)[p] = q + y[p] * m[1]
    BY <2>9, <2>10, <2>11, Zenon
  <2> QED BY <2>12
<1>6. x[p] \in Byte /\ y[p] \in Byte
  BY DEF W
<1>7. (q + r + x[p] * m[1]) % 256 = (q + r + y[p] * m[1]) % 256 /\ q + r \in Nat
  <2>1. x[p] * m[1] \in Int /\ y[p] * m[1] \in Int
    BY <1>6 DEF Byte
  <2>2. Columns(x, m)[p] + r = q + r + x[p] * m[1] /\ Columns(y, m)[p] + r = q + r + y[p] * m[1]
    BY <1>5, <2>1
  <2> QED BY <1>4, <2>2
<1>8. x[p] = y[p]
  BY <1>6, <1>7, OddTells
<1> QED BY <1>2, <1>8

LEMMA PlusColumns ==
  ASSUME NEW n \in Nat, NEW x \in W(n), NEW y \in W(n)
  PROVE  /\ [k \in DOMAIN x |-> x[k] + y[k]] \in Seq(Nat) /\ Len([k \in DOMAIN x |-> x[k] + y[k]]) = n
         /\ \A k \in 1 .. n : [j \in DOMAIN x |-> x[j] + y[j]][k] = x[k] + y[k]
<1>1. DOMAIN x = 1 .. n
  BY DEF W
<1>2. \A k \in 1 .. n : x[k] + y[k] \in Nat
  <2>1. \A k \in 1 .. n : x[k] \in Byte /\ y[k] \in Byte
    BY DEF W
  <2>2. \A a, b \in Byte : a + b \in Nat
    BY DEF Byte
  <2> QED BY <2>1, <2>2, Zenon
<1> QED BY <1>1, <1>2

LEMMA PlusWord ==
  ASSUME NEW n \in Nat, NEW x \in W(n), NEW y \in W(n)
  PROVE  Plus(x, y) \in W(n)
<1>1. PICK s : s = [k \in DOMAIN x |-> x[k] + y[k]]
  OBVIOUS
<1>2. s \in Seq(Nat) /\ Len(s) = n
  BY <1>1, PlusColumns
<1>3. Carried(s) \in W(n)
  BY <1>2, CarriedWord
<1> QED BY <1>1, <1>3 DEF Plus

LEMMA SameByteTells ==
  ASSUME NEW a \in Byte, NEW b \in Byte, NEW c \in Nat, SameByte(c + a, c + b)
  PROVE  a = b
<1>1. PICK r \in Nat : (c + a + r) % 256 = (c + b + r) % 256
  BY DEF SameByte
<1>2. a \in Nat /\ b \in Nat
  BY DEF Byte
<1>3. c + a + r = (c + r) + a * 1 /\ c + b + r = (c + r) + b * 1 /\ c + r \in Nat
  BY <1>2
<1>4. ((c + r) + a * 1) % 256 = ((c + r) + b * 1) % 256
  BY <1>1, <1>3, Zenon
<1> QED BY <1>3, <1>4, OddTells

(* x + k tells x, and k.                                                   *)
LEMMA PlusTells ==
  ASSUME NEW n \in Nat, NEW x \in W(n), NEW y \in W(n), NEW k \in W(n),
         Plus(x, k) = Plus(y, k) \/ Plus(k, x) = Plus(k, y)
  PROVE  x = y
<1>1. SUFFICES ASSUME x # y PROVE FALSE
  OBVIOUS
<1>2. PICK p \in 1 .. n : x[p] # y[p] /\ SameBefore(x, y, p)
  BY <1>1, FirstDifference
<1>3. x[p] \in Byte /\ y[p] \in Byte /\ k[p] \in Byte /\ DOMAIN x = 1 .. n /\ DOMAIN y = 1 .. n /\ DOMAIN k = 1 .. n
  BY DEF W
<1>4. k[p] \in Nat /\ x[p] + k[p] = k[p] + x[p] /\ y[p] + k[p] = k[p] + y[p]
  <2>1. \A a, b \in Byte : a \in Nat /\ a + b = b + a
    BY DEF Byte
  <2> QED BY <1>3, <2>1, Zenon
<1>5. SameByte(k[p] + x[p], k[p] + y[p])
  <2>1. CASE Plus(x, k) = Plus(y, k)
    <3>1. PICK s : s = [j \in DOMAIN x |-> x[j] + k[j]]
      OBVIOUS
    <3>2. PICK t : t = [j \in DOMAIN y |-> y[j] + k[j]]
      OBVIOUS
    <3>3. s \in Seq(Nat) /\ Len(s) = n /\ s[p] = x[p] + k[p]
      BY <3>1, PlusColumns
    <3>4. t \in Seq(Nat) /\ Len(t) = n /\ t[p] = y[p] + k[p]
      BY <3>2, PlusColumns
    <3>5. Carried(s) = Carried(t) /\ Len(s) = Len(t) /\ p \in 1 .. Len(s)
      BY <2>1, <3>1, <3>2, <3>3, <3>4 DEF Plus
    <3>6. SameBefore(s, t, p)
      <4>1. \A j \in 1 .. p - 1 : j \in 1 .. n /\ x[j] = y[j]
        BY <1>2 DEF SameBefore
      <4> QED BY <1>3, <3>1, <3>2, <4>1 DEF SameBefore
    <3>7. SameByte(s[p], t[p])
      BY <3>3, <3>4, <3>5, <3>6, CarriedTells
    <3> QED BY <1>4, <3>3, <3>4, <3>7
  <2>2. CASE Plus(k, x) = Plus(k, y)
    <3>1. PICK s : s = [j \in DOMAIN k |-> k[j] + x[j]]
      OBVIOUS
    <3>2. PICK t : t = [j \in DOMAIN k |-> k[j] + y[j]]
      OBVIOUS
    <3>3. s \in Seq(Nat) /\ Len(s) = n /\ s[p] = k[p] + x[p]
      BY <3>1, PlusColumns
    <3>4. t \in Seq(Nat) /\ Len(t) = n /\ t[p] = k[p] + y[p]
      BY <3>2, PlusColumns
    <3>5. Carried(s) = Carried(t) /\ Len(s) = Len(t) /\ p \in 1 .. Len(s)
      BY <2>2, <3>1, <3>2, <3>3, <3>4 DEF Plus
    <3>6. SameBefore(s, t, p)
      <4>1. \A j \in 1 .. p - 1 : j \in 1 .. n /\ x[j] = y[j]
        BY <1>2 DEF SameBefore
      <4> QED BY <1>3, <3>1, <3>2, <4>1 DEF SameBefore
    <3>7. SameByte(s[p], t[p])
      BY <3>3, <3>4, <3>5, <3>6, CarriedTells
    <3> QED BY <3>3, <3>4, <3>7
  <2> QED BY <2>1, <2>2
<1>6. x[p] = y[p]
  BY <1>3, <1>4, <1>5, SameByteTells
<1> QED BY <1>2, <1>6

LEMMA XorTells ==
  ASSUME NEW a \in Byte, NEW b \in Byte, NEW c \in Byte, Xor(a, c) = Xor(b, c) \/ Xor(c, a) = Xor(c, b)
  PROVE  a = b
<1>1. \A u, v \in Byte : Xor(u, v) = Xor(v, u)
  <2> SUFFICES ASSUME NEW u \in Byte, NEW v \in Byte PROVE Xor(u, v) = Xor(v, u)
    OBVIOUS
  <2>1. \A q \in Places : Bit(u, q) \in {0, 1} /\ Bit(v, q) \in {0, 1}
    BY DEF Bit, Byte, Places
  <2>2. \A q \in Places : (Bit(u, q) + Bit(v, q)) % 2 = (Bit(v, q) + Bit(u, q)) % 2
    BY <2>1
  <2> QED BY <2>2, Zenon DEF Xor, Places
<1>2. Xor(a, c) = Xor(b, c)
  BY <1>1
<1>3. Xor(Xor(a, c), c) = a /\ Xor(Xor(b, c), c) = b
  BY XorTwice
<1> QED BY <1>2, <1>3

LEMMA ExorWord ==
  ASSUME NEW n \in Nat, NEW x \in W(n), NEW y \in W(n)
  PROVE  Exor(x, y) \in W(n)
BY XorByte DEF Exor, W

(* x ^ k tells x, and k.                                                   *)
LEMMA ExorTells ==
  ASSUME NEW n \in Nat, NEW x \in W(n), NEW y \in W(n), NEW k \in W(n),
         Exor(x, k) = Exor(y, k) \/ Exor(k, x) = Exor(k, y)
  PROVE  x = y
<1>1. ASSUME NEW p \in 1 .. n PROVE x[p] = y[p]
  <2>1. x[p] \in Byte /\ y[p] \in Byte /\ k[p] \in Byte /\ DOMAIN x = 1 .. n /\ DOMAIN y = 1 .. n /\ DOMAIN k = 1 .. n
    BY DEF W
  <2>2. Exor(x, k)[p] = Xor(x[p], k[p]) /\ Exor(y, k)[p] = Xor(y[p], k[p])
    BY <2>1 DEF Exor
  <2>3. Exor(k, x)[p] = Xor(k[p], x[p]) /\ Exor(k, y)[p] = Xor(k[p], y[p])
    BY <2>1 DEF Exor
  <2>4. Xor(x[p], k[p]) = Xor(y[p], k[p]) \/ Xor(k[p], x[p]) = Xor(k[p], y[p])
    BY <2>2, <2>3
  <2> QED BY <2>1, <2>4, XorTells
<1> QED BY <1>1 DEF W

Shifts == {13, 15, 16, 17, 18, 19, 22, 24, 47}

(* A byte of a word shifted: the upper bits of one, the lower of the next. *)
LEMMA ShiftedByte ==
  ASSUME NEW low \in Byte, NEW high \in Byte, NEW r \in Shifts
  PROVE  (low \div 2 ^ (r % 8)) + ((high * 2 ^ (8 - (r % 8))) % 256) \in Byte
<1>1. low \in Nat /\ high \in Nat /\ low < 256 /\ high < 256
  BY DEF Byte
<1>2. CASE r = 13
  BY <1>1, <1>2 DEF Byte
<1>3. CASE r = 15
  BY <1>1, <1>3 DEF Byte
<1>4. CASE r = 16
  BY <1>1, <1>4 DEF Byte
<1>5. CASE r = 17
  BY <1>1, <1>5 DEF Byte
<1>6. CASE r = 18
  BY <1>1, <1>6 DEF Byte
<1>7. CASE r = 19
  BY <1>1, <1>7 DEF Byte
<1>8. CASE r = 22
  BY <1>1, <1>8 DEF Byte
<1>9. CASE r = 24
  BY <1>1, <1>9 DEF Byte
<1>10. CASE r = 47
  BY <1>1, <1>10 DEF Byte
<1> QED BY <1>2, <1>3, <1>4, <1>5, <1>6, <1>7, <1>8, <1>9, <1>10 DEF Shifts

LEMMA ShiftWord ==
  ASSUME NEW n \in Nat, NEW x \in W(n), NEW r \in Shifts
  PROVE  ShiftRight(x, r) \in W(n)
<1>1. \A k : At(x, k) \in Byte
  <2>1. 0 \in Byte /\ DOMAIN x = 1 .. n /\ \A k \in 1 .. n : x[k] \in Byte
    BY DEF W, Byte
  <2> QED BY <2>1, Zenon DEF At
<1>2. \A k \in 1 .. n : (At(x, k + r \div 8) \div 2 ^ (r % 8)) + ((At(x, k + r \div 8 + 1) * 2 ^ (8 - (r % 8))) % 256) \in Byte
  BY <1>1, ShiftedByte
<1> QED BY <1>2 DEF ShiftRight, W

(* x ^ (x >> r) tells x: the last byte is unchanged, and with those behind *)
(* a byte the byte is known.                                               *)
LEMMA ShiftTells ==
  ASSUME NEW n \in Nat, NEW x \in W(n), NEW y \in W(n), NEW r \in Shifts,
         Exor(x, ShiftRight(x, r)) = Exor(y, ShiftRight(y, r))
  PROVE  x = y
<1>1. SUFFICES ASSUME x # y PROVE FALSE
  OBVIOUS
<1>2. PICK p \in 1 .. n : x[p] # y[p] /\ SameBehind(x, y, p, n)
  BY <1>1, LastDifference
<1>3. ShiftRight(x, r)[p] = ShiftRight(y, r)[p]
  <2>1. r \div 8 \in Nat \ {0}
    BY DEF Shifts
  <2>2. DOMAIN x = 1 .. n /\ DOMAIN y = 1 .. n
    BY DEF W
  <2>3. ASSUME NEW k \in Nat, k > p PROVE At(x, k) = At(y, k)
    <3>1. k \in 1 .. n => k \in p + 1 .. n
      BY <2>3
    <3> QED BY <1>2, <2>2, <3>1 DEF At, SameBehind
  <2>4. At(x, p + r \div 8) = At(y, p + r \div 8) /\ At(x, p + r \div 8 + 1) = At(y, p + r \div 8 + 1)
    <3>1. p + r \div 8 \in Nat /\ p + r \div 8 > p /\ p + r \div 8 + 1 \in Nat /\ p + r \div 8 + 1 > p
      BY <2>1
    <3> QED BY <2>3, <3>1, Zenon
  <2> QED BY <2>2, <2>4, Zenon DEF ShiftRight
<1>4. ShiftRight(x, r) \in W(n) /\ ShiftRight(y, r) \in W(n)
  BY ShiftWord
<1>5. x[p] \in Byte /\ y[p] \in Byte /\ ShiftRight(x, r)[p] \in Byte /\ DOMAIN x = 1 .. n /\ DOMAIN y = 1 .. n
  BY <1>4 DEF W
<1>6. Xor(x[p], ShiftRight(x, r)[p]) = Xor(y[p], ShiftRight(x, r)[p])
  <2>1. Exor(x, ShiftRight(x, r))[p] = Xor(x[p], ShiftRight(x, r)[p])
    BY <1>5 DEF Exor
  <2>2. Exor(y, ShiftRight(y, r))[p] = Xor(y[p], ShiftRight(y, r)[p])
    BY <1>5 DEF Exor
  <2> QED BY <1>3, <2>1, <2>2, Zenon
<1>7. x[p] = y[p]
  BY <1>5, <1>6, XorTells
<1> QED BY <1>2, <1>7

(* m of every hash is odd.                                                 *)
LEMMA Multipliers ==
  /\ M32 \in W(4) /\ M32[1] \in {147, 149}
  /\ M64 \in W(8) /\ M64[1] \in {147, 149}
  /\ MHash \in W(4) /\ MHash[1] \in {147, 149}
BY DEF M32, M64, MHash, W, Byte

(* h ^= h >> r; h *= m, and both in the other order.                       *)
LEMMA ShiftedWord ==
  ASSUME NEW n \in Nat, NEW x \in W(n), NEW r \in Shifts
  PROVE  Exor(x, ShiftRight(x, r)) \in W(n)
BY ShiftWord, ExorWord

(* k *= m; k ^= k >> r; k *= m.                                            *)
LEMMA ScrambledTells ==
  ASSUME NEW n \in Nat, NEW m \in W(n), m[1] \in {147, 149}, NEW r \in Shifts, NEW k \in W(n), NEW l \in W(n)
  PROVE  Scrambled(k, m, r) \in W(n) /\ (Scrambled(k, m, r) = Scrambled(l, m, r) => k = l)
<1>1. Times(k, m) \in W(n) /\ Times(l, m) \in W(n)
  BY TimesWord
<1>2. PICK a \in W(n) : a = Times(k, m)
  BY <1>1
<1>3. PICK b \in W(n) : b = Times(l, m)
  BY <1>1
<1>4. Exor(a, ShiftRight(a, r)) \in W(n) /\ Exor(b, ShiftRight(b, r)) \in W(n)
  BY ShiftedWord
<1>5. /\ Scrambled(k, m, r) = Times(Exor(a, ShiftRight(a, r)), m)
      /\ Scrambled(l, m, r) = Times(Exor(b, ShiftRight(b, r)), m)
  BY <1>2, <1>3, Zenon DEF Scrambled
<1>6. Scrambled(k, m, r) \in W(n)
  BY <1>4, <1>5, TimesWord
<1>7. ASSUME Scrambled(k, m, r) = Scrambled(l, m, r) PROVE k = l
  <2>1. Exor(a, ShiftRight(a, r)) = Exor(b, ShiftRight(b, r))
    <3>1. Times(Exor(a, ShiftRight(a, r)), m) = Times(Exor(b, ShiftRight(b, r)), m)
      BY <1>5, <1>7, Zenon
    <3> QED BY <1>4, <3>1, TimesTells
  <2>2. a = b
    BY <2>1, ShiftTells
  <2>3. Times(k, m) = Times(l, m)
    BY <1>2, <1>3, <2>2, Zenon
  <2> QED BY <2>3, TimesTells
<1> QED BY <1>6, <1>7


(* The hash, or the word that is mixed in, differ: so does the hash after. *)
LEMMA MixTells ==
  ASSUME NEW h \in W(4), NEW g \in W(4), NEW k \in W(4), NEW l \in W(4)
  PROVE  /\ Mix(h, k) \in W(4)
         /\ Mix(h, k) = Mix(g, k) => h = g
         /\ Mix(h, k) = Mix(h, l) => k = l
<1>0. 4 \in Nat /\ 24 \in Shifts
  BY DEF Shifts
<1>1. Scrambled(k, M32, 24) \in W(4) /\ Scrambled(l, M32, 24) \in W(4)
  BY <1>0, Multipliers, ScrambledTells
<1>2. Times(h, M32) \in W(4) /\ Times(g, M32) \in W(4)
  BY <1>0, Multipliers, TimesWord
<1>3. Mix(h, k) \in W(4)
  BY <1>0, <1>1, <1>2, ExorWord DEF Mix
<1>4. ASSUME Mix(h, k) = Mix(g, k) PROVE h = g
  <2>1. Exor(Times(h, M32), Scrambled(k, M32, 24)) = Exor(Times(g, M32), Scrambled(k, M32, 24))
    BY <1>4, Zenon DEF Mix
  <2>2. Times(h, M32) = Times(g, M32)
    BY <1>0, <1>1, <1>2, <2>1, ExorTells
  <2> QED BY <1>0, <2>2, Multipliers, TimesTells
<1>5. ASSUME Mix(h, k) = Mix(h, l) PROVE k = l
  <2>1. Exor(Times(h, M32), Scrambled(k, M32, 24)) = Exor(Times(h, M32), Scrambled(l, M32, 24))
    BY <1>5, Zenon DEF Mix
  <2>2. Scrambled(k, M32, 24) = Scrambled(l, M32, 24)
    BY <1>0, <1>1, <1>2, <2>1, ExorTells
  <2> QED BY <1>0, <2>2, Multipliers, ScrambledTells
<1> QED BY <1>3, <1>4, <1>5

(* h ^= k; h *= m.                                                         *)
LEMMA ExorTimesTells ==
  ASSUME NEW n \in Nat, NEW m \in W(n), m[1] \in {147, 149}, NEW h \in W(n), NEW g \in W(n), NEW k \in W(n), NEW l \in W(n)
  PROVE  /\ Times(Exor(h, k), m) \in W(n)
         /\ Times(Exor(h, k), m) = Times(Exor(g, k), m) => h = g
         /\ Times(Exor(h, k), m) = Times(Exor(h, l), m) => k = l
<1>1. Exor(h, k) \in W(n) /\ Exor(g, k) \in W(n) /\ Exor(h, l) \in W(n)
  BY ExorWord
<1>2. Times(Exor(h, k), m) \in W(n)
  BY <1>1, TimesWord
<1>3. ASSUME Times(Exor(h, k), m) = Times(Exor(g, k), m) PROVE h = g
  <2>1. Exor(h, k) = Exor(g, k)
    BY <1>1, <1>3, TimesTells
  <2> QED BY <2>1, ExorTells
<1>4. ASSUME Times(Exor(h, k), m) = Times(Exor(h, l), m) PROVE k = l
  <2>1. Exor(h, k) = Exor(h, l)
    BY <1>1, <1>4, TimesTells
  <2> QED BY <2>1, ExorTells
<1> QED BY <1>2, <1>3, <1>4

(* h ^= k; h *= m, with k scrambled.                                       *)
LEMMA Mix64Tells ==
  ASSUME NEW h \in W(8), NEW g \in W(8), NEW k \in W(8), NEW l \in W(8)
  PROVE  /\ Mix64(h, k) \in W(8)
         /\ Mix64(h, k) = Mix64(g, k) => h = g
         /\ Mix64(h, k) = Mix64(h, l) => k = l
<1>0. 8 \in Nat /\ 47 \in Shifts
  BY DEF Shifts
<1>1. Scrambled(k, M64, 47) \in W(8) /\ Scrambled(l, M64, 47) \in W(8)
  BY <1>0, Multipliers, ScrambledTells
<1>2. PICK a \in W(8) : a = Scrambled(k, M64, 47)
  BY <1>1
<1>3. PICK b \in W(8) : b = Scrambled(l, M64, 47)
  BY <1>1
<1>4. /\ Times(Exor(h, a), M64) \in W(8)
      /\ Times(Exor(h, a), M64) = Times(Exor(g, a), M64) => h = g
      /\ Times(Exor(h, a), M64) = Times(Exor(h, b), M64) => a = b
  BY <1>0, Multipliers, ExorTimesTells
<1>5. Mix64(h, k) = Times(Exor(h, a), M64) /\ Mix64(g, k) = Times(Exor(g, a), M64) /\ Mix64(h, l) = Times(Exor(h, b), M64)
  BY <1>2, <1>3, Zenon DEF Mix64
<1>6. a = b => k = l
  BY <1>0, <1>2, <1>3, Multipliers, ScrambledTells
<1> QED BY <1>4, <1>5, <1>6

(* h += k; h *= m; h ^= h >> r.                                            *)
LEMMA HashStepTells ==
  ASSUME NEW h \in W(4), NEW g \in W(4), NEW k \in W(4), NEW l \in W(4), NEW r \in Shifts
  PROVE  /\ HashStep(h, k, r) \in W(4)
         /\ HashStep(h, k, r) = HashStep(g, k, r) => h = g
         /\ HashStep(h, k, r) = HashStep(h, l, r) => k = l
<1>0. 4 \in Nat
  OBVIOUS
<1>1. ASSUME NEW x \in W(4) PROVE Times(x, MHash) \in W(4) /\ Exor(Times(x, MHash), ShiftRight(Times(x, MHash), r)) \in W(4)
  BY <1>0, Multipliers, TimesWord, ShiftedWord
<1>2. ASSUME NEW x \in W(4), NEW y \in W(4),
             Exor(Times(x, MHash), ShiftRight(Times(x, MHash), r)) = Exor(Times(y, MHash), ShiftRight(Times(y, MHash), r))
      PROVE  x = y
  <2>1. PICK a \in W(4) : a = Times(x, MHash)
    BY <1>1
  <2>2. PICK b \in W(4) : b = Times(y, MHash)
    BY <1>1
  <2>3. Exor(a, ShiftRight(a, r)) = Exor(b, ShiftRight(b, r))
    BY <1>2, <2>1, <2>2, Zenon
  <2>4. a = b
    BY <1>0, <2>3, ShiftTells
  <2>5. Times(x, MHash) = Times(y, MHash)
    BY <2>1, <2>2, <2>4, Zenon
  <2> QED BY <1>0, <2>5, Multipliers, TimesTells
<1>3. Plus(h, k) \in W(4) /\ Plus(g, k) \in W(4) /\ Plus(h, l) \in W(4)
  BY <1>0, PlusWord
<1>4. \A x, y : HashStep(x, y, r) = Exor(Times(Plus(x, y), MHash), ShiftRight(Times(Plus(x, y), MHash), r))
  BY Zenon DEF HashStep
<1>5. HashStep(h, k, r) \in W(4)
  BY <1>1, <1>3, <1>4
<1>6. ASSUME HashStep(h, k, r) = HashStep(g, k, r) PROVE h = g
  <2>1. Plus(h, k) = Plus(g, k)
    BY <1>2, <1>3, <1>4, <1>6, Zenon
  <2> QED BY <1>0, <2>1, PlusTells
<1>7. ASSUME HashStep(h, k, r) = HashStep(h, l, r) PROVE k = l
  <2>1. Plus(h, k) = Plus(h, l)
    BY <1>2, <1>3, <1>4, <1>7, Zenon
  <2> QED BY <1>0, <2>1, PlusTells
<1> QED BY <1>5, <1>6, <1>7

(* h ^= h >> r; h *= m; h ^= h >> q.                                       *)
LEMMA FinalTells ==
  ASSUME NEW h \in W(4), NEW g \in W(4), Final(h) = Final(g)
  PROVE  h = g
<1>0. 4 \in Nat /\ 13 \in Shifts /\ 15 \in Shifts
  BY DEF Shifts
<1>1. Exor(h, ShiftRight(h, 13)) \in W(4) /\ Exor(g, ShiftRight(g, 13)) \in W(4)
  BY <1>0, ShiftedWord
<1>2. PICK a \in W(4) : a = Times(Exor(h, ShiftRight(h, 13)), M32)
  BY <1>0, <1>1, Multipliers, TimesWord
<1>3. PICK b \in W(4) : b = Times(Exor(g, ShiftRight(g, 13)), M32)
  BY <1>0, <1>1, Multipliers, TimesWord
<1>4. Exor(a, ShiftRight(a, 15)) = Exor(b, ShiftRight(b, 15))
  BY <1>2, <1>3, Zenon DEF Final
<1>5. a = b
  BY <1>0, <1>4, ShiftTells
<1>6. Exor(h, ShiftRight(h, 13)) = Exor(g, ShiftRight(g, 13))
  BY <1>0, <1>1, <1>2, <1>3, <1>5, Multipliers, TimesTells
<1> QED BY <1>0, <1>6, ShiftTells

LEMMA Final64Tells ==
  ASSUME NEW h \in W(8), NEW g \in W(8), Final64(h) = Final64(g)
  PROVE  h = g
<1>0. 8 \in Nat /\ 47 \in Shifts
  BY DEF Shifts
<1>1. Exor(h, ShiftRight(h, 47)) \in W(8) /\ Exor(g, ShiftRight(g, 47)) \in W(8)
  BY <1>0, ShiftedWord
<1>2. PICK a \in W(8) : a = Times(Exor(h, ShiftRight(h, 47)), M64)
  BY <1>0, <1>1, Multipliers, TimesWord
<1>3. PICK b \in W(8) : b = Times(Exor(g, ShiftRight(g, 47)), M64)
  BY <1>0, <1>1, Multipliers, TimesWord
<1>4. Exor(a, ShiftRight(a, 47)) = Exor(b, ShiftRight(b, 47))
  BY <1>2, <1>3, Zenon DEF Final64
<1>5. a = b
  BY <1>0, <1>4, ShiftTells
<1>6. Exor(h, ShiftRight(h, 47)) = Exor(g, ShiftRight(g, 47))
  BY <1>0, <1>1, <1>2, <1>3, <1>5, Multipliers, TimesTells
<1> QED BY <1>0, <1>6, ShiftTells

(* Both halves are known from the halves crossed.                          *)
LEMMA CrossTells ==
  ASSUME NEW a \in W(4), NEW b \in W(4), NEW x \in W(4), NEW y \in W(4), NEW r \in Shifts
  PROVE  /\ Cross(a, x, r) \in W(4)
         /\ Cross(a, x, r) = Cross(b, x, r) => a = b
<1>0. 4 \in Nat
  OBVIOUS
<1>1. PICK k \in W(4) : k = ShiftRight(x, r)
  BY <1>0, ShiftWord
<1>2. Times(Exor(a, k), M32) \in W(4) /\ (Times(Exor(a, k), M32) = Times(Exor(b, k), M32) => a = b)
  BY <1>0, Multipliers, ExorTimesTells
<1> QED BY <1>1, <1>2, Zenon DEF Cross

LEMMA SequenceWord ==
  ASSUME NEW n \in Nat, NEW x \in W(n)
  PROVE  x \in Seq(Byte) /\ Len(x) = n /\ DOMAIN x = 1 .. n
<1>1. x \in [1 .. n -> Byte]
  BY DEF W
<1>2. x \in Seq(Byte)
  <2> HIDE DEF Byte
  <2> QED BY <1>1, SeqDef
<1>3. Len(x) \in Nat /\ DOMAIN x = 1 .. Len(x) /\ DOMAIN x = 1 .. n
  BY <1>1, <1>2, LenProperties
<1>4. PICK m \in Nat : m = Len(x) /\ 1 .. m = 1 .. n
  BY <1>3
<1>5. ~(m < n) /\ ~(n < m)
  <2>1. m + 1 \notin 1 .. m /\ n + 1 \notin 1 .. n
    OBVIOUS
  <2>2. m < n => m + 1 \in 1 .. n
    OBVIOUS
  <2>3. n < m => n + 1 \in 1 .. m
    OBVIOUS
  <2> QED BY <1>4, <2>1, <2>2, <2>3
<1>6. m = n
  BY <1>5
<1> QED BY <1>2, <1>3, <1>4, <1>6

(* The halves of a double word.                                            *)
Halves(x, u, v) == \A k \in 1 .. 4 : u[k] = x[k] /\ v[k] = x[k + 4]

LEMMA PairBytes ==
  ASSUME NEW u \in W(4), NEW v \in W(4)
  PROVE  /\ u \o v \in W(8)
         /\ Halves(u \o v, u, v)
<1>0. 4 \in Nat
  OBVIOUS
<1>1. u \in Seq(Byte) /\ Len(u) = 4
  BY <1>0, SequenceWord
<1>2. v \in Seq(Byte) /\ Len(v) = 4
  BY <1>0, SequenceWord
<1>3. PICK x : x = u \o v
  OBVIOUS
<1>4. /\ x \in Seq(Byte) /\ Len(x) = Len(u) + Len(v)
      /\ \A k \in 1 .. Len(u) + Len(v) : x[k] = IF k <= Len(u) THEN u[k] ELSE v[k - Len(u)]
  <2> HIDE DEF Byte
  <2> QED BY <1>1, <1>2, <1>3, ConcatProperties, Zenon
<1>5. Len(x) = 8 /\ \A k \in 1 .. 8 : x[k] = IF k <= 4 THEN u[k] ELSE v[k - 4]
  BY <1>1, <1>2, <1>4
<1>6. x \in W(8)
  BY <1>4, <1>5, LenProperties DEF W
<1>7. ASSUME NEW k \in 1 .. 4 PROVE u[k] = x[k] /\ v[k] = x[k + 4]
  <2>1. k \in 1 .. 8 /\ k + 4 \in 1 .. 8 /\ k <= 4 /\ ~(k + 4 <= 4) /\ (k + 4) - 4 = k
    OBVIOUS
  <2> QED BY <1>5, <2>1
<1> QED BY <1>3, <1>6, <1>7, Zenon DEF Halves

(* From the last mixing back to the first.                                 *)
LEMMA CrossedTells ==
  ASSUME NEW a \in W(4), NEW b \in W(4), NEW x \in W(4), NEW y \in W(4), Crossed(a, x) = Crossed(b, y)
  PROVE  a = b /\ x = y
<1>0. 18 \in Shifts /\ 22 \in Shifts /\ 17 \in Shifts /\ 19 \in Shifts
  BY DEF Shifts
<1>1. PICK a1 \in W(4) : a1 = Cross(a, x, 18)
  BY <1>0, CrossTells
<1>2. PICK b1 \in W(4) : b1 = Cross(b, y, 18)
  BY <1>0, CrossTells
<1>3. PICK x1 \in W(4) : x1 = Cross(x, a1, 22)
  BY <1>0, CrossTells
<1>4. PICK y1 \in W(4) : y1 = Cross(y, b1, 22)
  BY <1>0, CrossTells
<1>5. PICK a2 \in W(4) : a2 = Cross(a1, x1, 17)
  BY <1>0, CrossTells
<1>6. PICK b2 \in W(4) : b2 = Cross(b1, y1, 17)
  BY <1>0, CrossTells
<1>7. PICK x2 \in W(4) : x2 = Cross(x1, a2, 19)
  BY <1>0, CrossTells
<1>8. PICK y2 \in W(4) : y2 = Cross(y1, b2, 19)
  BY <1>0, CrossTells
<1>9. x2 \o a2 = y2 \o b2
  BY <1>1, <1>2, <1>3, <1>4, <1>5, <1>6, <1>7, <1>8, Zenon DEF Crossed
<1>10. x2 = y2 /\ a2 = b2
  <2>1. Halves(x2 \o a2, x2, a2)
    BY PairBytes
  <2>2. Halves(x2 \o a2, y2, b2)
    BY <1>9, PairBytes
  <2>4. \A k \in 1 .. 4 : x2[k] = y2[k] /\ a2[k] = b2[k]
    BY <2>1, <2>2, Zenon DEF Halves
  <2> QED BY <2>4 DEF W
<1>11. x1 = y1
  BY <1>0, <1>7, <1>8, <1>10, CrossTells
<1>12. a1 = b1
  BY <1>0, <1>5, <1>6, <1>10, <1>11, CrossTells
<1>13. x = y
  BY <1>0, <1>3, <1>4, <1>11, <1>12, CrossTells
<1>14. a = b
  BY <1>0, <1>1, <1>2, <1>12, <1>13, CrossTells
<1> QED BY <1>13, <1>14

----------------------------------------------------------------------------
(* Words of either width, and the bytes behind them *)

Widths == {4, 8}

(* Two sequences that differ at one place.                                 *)
OnlyAt(u, v, q) == /\ q \in 1 .. Len(u) /\ u[q] # v[q]
                   /\ \A k \in 1 .. Len(u) : k # q => u[k] = v[k]
OneOff(u, v)    == Len(u) = Len(v) /\ \E q \in 1 .. Len(u) : OnlyAt(u, v, q)

WordsRead(s, w, u) ==
  /\ u \in Seq(W(w)) /\ Len(u) = Len(s) \div w
  /\ \A k \in 1 .. Len(s) \div w : \A j \in 1 .. w : u[k][j] = s[w * (k - 1) + j]
RestRead(s, w, r) ==
  /\ r \in Seq(Byte) /\ Len(r) = Len(s) - w * (Len(s) \div w) /\ Len(r) <= w
  /\ \A j \in 1 .. Len(s) - w * (Len(s) \div w) : r[j] = s[w * (Len(s) \div w) + j]

LEMMA BytesWord ==
  ASSUME NEW n \in Nat, NEW s \in Seq(Byte), Len(s) = n
  PROVE  s \in W(n)
BY LenProperties DEF W

(* Byte j of word k lies among the bytes, and only there.                  *)
LEMMA PlaceOfByte ==
  ASSUME NEW w \in Widths, NEW n \in Nat, NEW k \in 1 .. n \div w, NEW j \in 1 .. w
  PROVE  /\ w * (k - 1) + j \in 1 .. n /\ w * (k - 1) + j <= w * (n \div w)
         /\ w * (k - 1) + 1 \in Nat \ {0} /\ w * k \in Nat /\ w * k <= n
         /\ w * k - (w * (k - 1) + 1) + 1 = w /\ w * (k - 1) + 1 <= w * k + 1
         /\ (w * (k - 1) + 1) + j - 1 = w * (k - 1) + j
<1>1. CASE w = 4
  BY <1>1
<1>2. CASE w = 8
  BY <1>2
<1> QED BY <1>1, <1>2 DEF Widths

LEMMA PlaceOfRest ==
  ASSUME NEW w \in Widths, NEW n \in Nat
  PROVE  /\ n \div w \in Nat /\ w * (n \div w) \in Nat /\ w * (n \div w) <= n /\ n - w * (n \div w) \in 0 .. w
         /\ w * (n \div w) + 1 \in Nat \ {0} /\ w * (n \div w) + 1 <= n + 1
         /\ n - (w * (n \div w) + 1) + 1 = n - w * (n \div w)
         /\ \A j \in 1 .. n - w * (n \div w) :
              (w * (n \div w) + 1) + j - 1 = w * (n \div w) + j /\ w * (n \div w) + j \in 1 .. n
<1>1. CASE w = 4
  BY <1>1
<1>2. CASE w = 8
  BY <1>2
<1> QED BY <1>1, <1>2 DEF Widths

(* Word k and its bytes.                                                   *)
LEMMA WordsAreRead ==
  ASSUME NEW w \in Widths, NEW s \in Seq(Byte)
  PROVE  WordsRead(s, w, Words(s, w))
<1>0. w \in Nat /\ Len(s) \in Nat /\ Len(s) \div w \in Nat
  BY ByteSeq, PlaceOfRest DEF Widths
<1> DEFINE word(k) == SubSeq(s, w * (k - 1) + 1, w * k)
<1>1. ASSUME NEW k \in 1 .. Len(s) \div w
      PROVE  word(k) \in W(w) /\ \A j \in 1 .. w : word(k)[j] = s[w * (k - 1) + j]
  <2>1. 1 \in 1 .. w
    BY DEF Widths
  <2>2. /\ w * (k - 1) + 1 \in Nat \ {0} /\ w * k \in Nat /\ w * k <= Len(s)
        /\ w * k - (w * (k - 1) + 1) + 1 = w /\ w * (k - 1) + 1 <= w * k + 1
    BY <1>0, <2>1, PlaceOfByte
  <2>3. PICK a \in Nat \ {0} : a = w * (k - 1) + 1
    BY <2>2
  <2>4. PICK b \in Nat : b = w * k
    BY <2>2
  <2>5. PICK x : x = SubSeq(s, a, b)
    OBVIOUS
  <2>6. x \in Seq(Byte) /\ Len(x) = b - a + 1 /\ \A j \in 1 .. b - a + 1 : x[j] = s[a + j - 1]
    BY <2>2, <2>3, <2>4, <2>5, SubBytes
  <2>7. b - a + 1 = w
    BY <2>2, <2>3, <2>4
  <2>8. x \in W(w)
    BY <1>0, <2>6, <2>7, BytesWord
  <2>9. ASSUME NEW j \in 1 .. w PROVE x[j] = s[w * (k - 1) + j]
    <3>1. a + j - 1 = w * (k - 1) + j
      BY <1>0, <2>3, PlaceOfByte
    <3> QED BY <2>6, <2>7, <3>1
  <2> QED BY <2>3, <2>4, <2>5, <2>8, <2>9
<1>2. Words(s, w) = [k \in 1 .. Len(s) \div w |-> word(k)]
  BY DEF Words
<1> HIDE DEF word
<1>3. /\ Words(s, w) \in Seq(W(w)) /\ Len(Words(s, w)) = Len(s) \div w
  <2>1. PICK S : S = W(w)
    OBVIOUS
  <2>2. PICK c \in Nat : c = Len(s) \div w
    BY <1>0
  <2>3. \A k \in 1 .. c : word(k) \in S
    BY <1>1, <2>1, <2>2
  <2>4. [k \in 1 .. c |-> word(k)] \in Seq(S) /\ Len([k \in 1 .. c |-> word(k)]) = c
    BY <2>3
  <2> QED BY <1>2, <2>1, <2>2, <2>4, Zenon
<1>4. \A k \in 1 .. Len(s) \div w : Words(s, w)[k] = word(k)
  BY <1>2
<1> QED BY <1>1, <1>3, <1>4, Zenon DEF WordsRead

(* The bytes behind the words.                                             *)
LEMMA RestIsRead ==
  ASSUME NEW w \in Widths, NEW s \in Seq(Byte)
  PROVE  RestRead(s, w, Rest(s, w))
<1>0. w \in Nat /\ Len(s) \in Nat
  BY ByteSeq DEF Widths
<1>1. PICK c \in Nat : c = w * (Len(s) \div w)
  BY <1>0, PlaceOfRest
<1>2. /\ c + 1 \in Nat \ {0} /\ c + 1 <= Len(s) + 1 /\ Len(s) - (c + 1) + 1 = Len(s) - c /\ Len(s) - c \in 0 .. w
      /\ \A j \in 1 .. Len(s) - c : (c + 1) + j - 1 = c + j
  BY <1>0, <1>1, PlaceOfRest
<1>3. PICK a \in Nat \ {0} : a = c + 1
  BY <1>2
<1>4. PICK b \in Nat : b = Len(s)
  BY <1>0
<1>5. PICK r : r = SubSeq(s, a, b)
  OBVIOUS
<1>6. r \in Seq(Byte) /\ Len(r) = b - a + 1 /\ \A j \in 1 .. b - a + 1 : r[j] = s[a + j - 1]
  <2>1. b <= Len(s) /\ a <= b + 1
    BY <1>0, <1>2, <1>3, <1>4
  <2> QED BY <1>5, <2>1, SubBytes
<1>7. r \in Seq(Byte) /\ Len(r) = Len(s) - c /\ Len(r) <= w /\ \A j \in 1 .. Len(s) - c : r[j] = s[c + j]
  <2>1. ASSUME NEW j \in 1 .. Len(s) - c PROVE r[j] = s[c + j]
    <3>1. a + j - 1 = c + j /\ j \in 1 .. b - a + 1
      BY <1>2, <1>3, <1>4
    <3> QED BY <1>6, <3>1
  <2>2. Len(r) = Len(s) - c /\ Len(r) <= w
    BY <1>2, <1>3, <1>4, <1>6
  <2> QED BY <1>6, <2>1, <2>2, Zenon
<1>8. Rest(s, w) = r
  BY <1>1, <1>3, <1>4, <1>5, Zenon DEF Rest
<1> QED BY <1>1, <1>7, <1>8, Zenon DEF RestRead

LEMMA WideWord ==
  ASSUME NEW w \in Nat, NEW s \in Seq(Byte)
  PROVE  Wide(s, w) \in W(w)
<1>0. Len(s) \in Nat /\ DOMAIN s = 1 .. Len(s) /\ 0 \in Byte
  BY ByteSeq DEF Byte
<1>1. ASSUME NEW j \in 1 .. w PROVE At(s, j) \in Byte
  BY <1>0, ByteSeq DEF At
<1> QED BY <1>1 DEF Wide, W

(* Of as many bytes, different ones make different words.                  *)
LEMMA WideTells ==
  ASSUME NEW w \in Nat, NEW s \in Seq(Byte), NEW t \in Seq(Byte), Len(s) = Len(t), Len(s) <= w, Wide(s, w) = Wide(t, w)
  PROVE  s = t
<1>0. Len(s) \in Nat /\ DOMAIN s = 1 .. Len(s) /\ DOMAIN t = 1 .. Len(t)
  BY ByteSeq
<1>1. ASSUME NEW j \in 1 .. Len(s) PROVE s[j] = t[j]
  <2>1. j \in 1 .. w
    BY <1>0
  <2>2. Wide(s, w)[j] = At(s, j) /\ Wide(t, w)[j] = At(t, j)
    BY <2>1 DEF Wide
  <2>3. At(s, j) = s[j] /\ At(t, j) = t[j]
    BY <1>0 DEF At
  <2> QED BY <2>2, <2>3
<1> QED BY <1>1, SeqEqual

LEMMA WordOfPlace ==
  ASSUME NEW w \in Widths, NEW c \in Nat, NEW p \in Nat \ {0}, p <= w * c
  PROVE  \E q \in 1 .. c : \E l \in 1 .. w : w * (q - 1) + l = p
<1>1. CASE w = 4
  <2>1. ((p - 1) \div 4) + 1 \in 1 .. c /\ ((p - 1) % 4) + 1 \in 1 .. 4
    BY <1>1
  <2>2. 4 * ((((p - 1) \div 4) + 1) - 1) + (((p - 1) % 4) + 1) = p
    OBVIOUS
  <2> QED BY <1>1, <2>1, <2>2
<1>2. CASE w = 8
  <2>1. ((p - 1) \div 8) + 1 \in 1 .. c /\ ((p - 1) % 8) + 1 \in 1 .. 8
    BY <1>2
  <2>2. 8 * ((((p - 1) \div 8) + 1) - 1) + (((p - 1) % 8) + 1) = p
    OBVIOUS
  <2> QED BY <1>2, <2>1, <2>2
<1> QED BY <1>1, <1>2 DEF Widths

LEMMA OtherWord ==
  ASSUME NEW w \in Widths, NEW k \in Nat, NEW q \in Nat, k # q, NEW j \in 1 .. w, NEW l \in 1 .. w
  PROVE  w * (k - 1) + j # w * (q - 1) + l
<1>1. CASE w = 4
  BY <1>1
<1>2. CASE w = 8
  BY <1>2
<1> QED BY <1>1, <1>2 DEF Widths

(* Where one byte differs, one word differs, or the bytes behind them.     *)
LEMMA OneWordOrRest ==
  ASSUME NEW w \in Widths, NEW s \in Seq(Byte), NEW t \in Seq(Byte), OneOff(s, t)
  PROVE  \/ OneOff(Words(s, w), Words(t, w)) /\ Rest(s, w) = Rest(t, w)
         \/ Words(s, w) = Words(t, w) /\ Rest(s, w) # Rest(t, w)
<1>0. PICK n \in Nat : n = Len(s) /\ n = Len(t)
  BY ByteSeq DEF OneOff
<1>1. PICK p \in 1 .. n : s[p] # t[p] /\ \A k \in 1 .. n : k # p => s[k] = t[k]
  BY <1>0 DEF OneOff, OnlyAt
<1>2. PICK u : u = Words(s, w)
  OBVIOUS
<1>3. PICK v : v = Words(t, w)
  OBVIOUS
<1>4. PICK a : a = Rest(s, w)
  OBVIOUS
<1>5. PICK b : b = Rest(t, w)
  OBVIOUS
<1>6. WordsRead(s, w, u) /\ WordsRead(t, w, v) /\ RestRead(s, w, a) /\ RestRead(t, w, b)
  BY <1>2, <1>3, <1>4, <1>5, WordsAreRead, RestIsRead
<1>7. PICK c \in Nat : c = n \div w
  BY PlaceOfRest
<1>8. PICK d \in Nat : d = w * c /\ d <= n
  BY <1>7, PlaceOfRest
<1>9. /\ u \in Seq(W(w)) /\ v \in Seq(W(w)) /\ Len(u) = c /\ Len(v) = c
      /\ \A k \in 1 .. c : \A j \in 1 .. w : u[k][j] = s[w * (k - 1) + j] /\ v[k][j] = t[w * (k - 1) + j]
  BY <1>0, <1>6, <1>7, Zenon DEF WordsRead
<1>10. /\ a \in Seq(Byte) /\ b \in Seq(Byte) /\ Len(a) = n - d /\ Len(b) = n - d
       /\ \A j \in 1 .. n - d : a[j] = s[d + j] /\ b[j] = t[d + j]
  BY <1>0, <1>6, <1>7, <1>8, Zenon DEF RestRead
<1>11. ASSUME NEW k \in 1 .. c, \A j \in 1 .. w : w * (k - 1) + j # p PROVE u[k] = v[k]
  <2>1. ASSUME NEW j \in 1 .. w PROVE u[k][j] = v[k][j]
    <3>1. w * (k - 1) + j \in 1 .. n
      BY <1>7, PlaceOfByte
    <3> QED BY <1>1, <1>9, <1>11, <3>1
  <2>2. PICK x \in W(w) : x = u[k]
    BY <1>9
  <2>3. PICK y \in W(w) : y = v[k]
    BY <1>9
  <2>4. \A j \in 1 .. w : x[j] = y[j]
    BY <2>1, <2>2, <2>3
  <2>5. x \in [1 .. w -> Byte] /\ y \in [1 .. w -> Byte]
    BY DEF W
  <2>6. x = y
    <3>1. x = [j \in 1 .. w |-> x[j]] /\ y = [j \in 1 .. w |-> y[j]]
      BY <2>5
    <3>2. [j \in 1 .. w |-> x[j]] = [j \in 1 .. w |-> y[j]]
      BY <2>4, Zenon
    <3> QED BY <3>1, <3>2, Zenon
  <2> QED BY <2>2, <2>3, <2>6
<1>12. CASE p > d
  <2>1. \A k \in 1 .. c : \A j \in 1 .. w : w * (k - 1) + j # p
    <3>1. ASSUME NEW k \in 1 .. c, NEW j \in 1 .. w PROVE w * (k - 1) + j # p
      <4>1. w * (k - 1) + j \in 1 .. n /\ w * (k - 1) + j <= w * (n \div w)
        <5>1. PICK e \in Nat : e = n \div w /\ k \in 1 .. e
          BY <1>7
        <5>2. k \in 1 .. n \div w
          BY <5>1
        <5> QED BY <5>2, PlaceOfByte
      <4>2. PICK x \in Nat : x = w * (k - 1) + j
        BY <4>1
      <4>3. x <= d
        <5>1. d = w * (n \div w)
          BY <1>7, <1>8, Zenon
        <5> QED BY <4>1, <4>2, <5>1, Zenon
      <4> QED BY <1>8, <1>12, <4>2, <4>3
    <3> QED BY <3>1
  <2>2. u = v
    <3>1. \A k \in 1 .. c : u[k] = v[k]
      BY <1>11, <2>1
    <3> QED BY <1>9, <3>1, SeqEqual
  <2>3. p - d \in 1 .. n - d /\ d + (p - d) = p
    BY <1>8, <1>12
  <2>4. a # b
    BY <1>1, <1>10, <2>3
  <2> QED BY <1>2, <1>3, <1>4, <1>5, <2>2, <2>4
<1>13. CASE p <= d
  <2>1. PICK q \in 1 .. c : \E l \in 1 .. w : w * (q - 1) + l = p
    <3>1. p \in Nat \ {0} /\ p <= w * c
      BY <1>8, <1>13
    <3> QED BY <3>1, WordOfPlace
  <2>2. PICK l \in 1 .. w : w * (q - 1) + l = p
    BY <2>1
  <2>3. \A k \in 1 .. c : k # q => u[k] = v[k]
    <3>1. ASSUME NEW k \in 1 .. c, k # q PROVE u[k] = v[k]
      <4>1. ASSUME NEW j \in 1 .. w PROVE w * (k - 1) + j # p
        <5>1. k \in Nat /\ q \in Nat
          OBVIOUS
        <5> QED BY <2>2, <3>1, <5>1, OtherWord
      <4> QED BY <1>11, <4>1
    <3> QED BY <3>1
  <2>4. u[q] # v[q]
    BY <1>1, <1>9, <2>2
  <2>5. OneOff(u, v)
    BY <1>9, <2>3, <2>4 DEF OneOff, OnlyAt
  <2>6. a = b
    <3>1. ASSUME NEW j \in 1 .. n - d PROVE a[j] = b[j]
      <4>1. d + j \in 1 .. n /\ d + j # p
        BY <1>8, <1>13
      <4> QED BY <1>1, <1>10, <4>1
    <3> QED BY <1>10, <3>1, SeqEqual
  <2> QED BY <1>2, <1>3, <1>4, <1>5, <2>5, <2>6, Zenon
<1> QED BY <1>8, <1>12, <1>13

----------------------------------------------------------------------------
(* One word that differs tells in all that is made of it *)

Reversible(G, S) ==
  \A h \in S, g \in S, k \in S, l \in S :
    (G[<<h, k>>] = G[<<g, k>>] => h = g) /\ (G[<<h, k>>] = G[<<h, l>>] => k = l)
FoldOf(v, G, S, b, s) ==
  v \in [0 .. Len(s) -> S] /\ v[0] = b /\ \A k \in 1 .. Len(s) : v[k] = G[<<v[k - 1], s[k]>>]

(* The same before the word that differs, and different from there on.     *)
LEMMA FoldTells ==
  ASSUME NEW S, NEW G, Reversible(G, S),
         NEW s \in Seq(S), NEW t \in Seq(S), OneOff(s, t), NEW b,
         NEW v, FoldOf(v, G, S, b, s), NEW u, FoldOf(u, G, S, b, t)
  PROVE  v[Len(s)] # u[Len(t)]
<1>1. PICK n \in Nat : n = Len(s) /\ n = Len(t)
  BY LenProperties DEF OneOff
<1>2. PICK q \in 1 .. n : s[q] # t[q] /\ \A k \in 1 .. n : k # q => s[k] = t[k]
  BY <1>1 DEF OneOff, OnlyAt
<1>3. v[0] = b /\ u[0] = b /\ \A k \in 1 .. n : v[k] = G[<<v[k - 1], s[k]>>] /\ u[k] = G[<<u[k - 1], t[k]>>]
  BY <1>1, Zenon DEF FoldOf
<1>4. /\ \A k \in 0 .. n : v[k] \in S /\ u[k] \in S
      /\ \A k \in 1 .. n : s[k] \in S /\ t[k] \in S
  <2>1. v \in [0 .. n -> S] /\ u \in [0 .. n -> S]
    BY <1>1, Zenon DEF FoldOf
  <2>2. \A k \in 1 .. n : s[k] \in S /\ t[k] \in S
    BY <1>1, ElementOfSeq
  <2> QED BY <2>1, <2>2
<1>5. v[q - 1] = u[q - 1]
  <2> DEFINE T == {k \in 0 .. q - 1 : v[k] = u[k]}
  <2>1. 0 \in T
    BY <1>3
  <2>2. ASSUME NEW k \in 1 .. q - 1, k - 1 \in T PROVE k \in T
    <3>1. k \in 1 .. n /\ k # q /\ v[k - 1] = u[k - 1] /\ k \in 0 .. q - 1
      BY <2>2
    <3> QED BY <1>2, <1>3, <3>1
  <2>3. T = 0 .. q - 1
    <3>1. T \in SUBSET (0 .. q - 1) /\ q - 1 \in Nat
      OBVIOUS
    <3> HIDE DEF T
    <3> QED BY <2>1, <2>2, <3>1, ByPositions
  <2> QED BY <2>3
<1>6. v[q] # u[q]
  <2>1. v[q] = G[<<v[q - 1], s[q]>>] /\ u[q] = G[<<v[q - 1], t[q]>>]
    BY <1>3, <1>5
  <2>2. v[q - 1] \in S /\ s[q] \in S /\ t[q] \in S
    BY <1>4
  <2> QED BY <1>2, <2>1, <2>2 DEF Reversible
<1>7. v[n] # u[n]
  <2> DEFINE c == n - q
             T == {k \in 0 .. c : v[q + k] # u[q + k]}
  <2>1. 0 \in T
    BY <1>6
  <2>2. ASSUME NEW k \in 1 .. c, k - 1 \in T PROVE k \in T
    <3>1. PICK p \in 1 .. n : p = q + k
      OBVIOUS
    <3>2. q + (k - 1) = p - 1 /\ p # q /\ k \in 0 .. c /\ p - 1 \in 0 .. n
      BY <3>1
    <3>3. v[p - 1] # u[p - 1]
      BY <2>2, <3>2
    <3>4. v[p] = G[<<v[p - 1], s[p]>>] /\ u[p] = G[<<u[p - 1], s[p]>>]
      BY <1>2, <1>3, <3>2
    <3>5. v[p - 1] \in S /\ u[p - 1] \in S /\ s[p] \in S
      BY <1>4, <3>2
    <3>6. v[p] # u[p]
      BY <3>3, <3>4, <3>5 DEF Reversible
    <3> QED BY <3>1, <3>2, <3>6
  <2>3. T = 0 .. c
    <3>1. T \in SUBSET (0 .. c) /\ c \in Nat
      OBVIOUS
    <3> HIDE DEF T, c
    <3> QED BY <2>1, <2>2, <3>1, ByPositions
  <2>4. c \in 0 .. c /\ q + c = n
    OBVIOUS
  <2>5. c \in T
    <3> HIDE DEF T, c
    <3> QED BY <2>3, <2>4
  <2>6. v[q + c] # u[q + c]
    BY <2>5
  <2> QED BY <2>4, <2>6, Zenon
<1> QED BY <1>1, <1>7

LongWord == W(8)

LEMMA WordIsW == Word = W(4) /\ LongWord = W(8)
BY DEF Word, LongWord, W

LEMMA MixFoldTells ==
  ASSUME NEW b \in Word, NEW s \in Seq(Word), NEW t \in Seq(Word), OneOff(s, t)
  PROVE  FoldLeft(Mix, b, s) # FoldLeft(Mix, b, t)
<1> DEFINE G == [p \in Word \X Word |-> Mix(p[1], p[2])]
<1>1. G \in [Word \X Word -> Word] /\ \A h \in Word, k \in Word : G[<<h, k>>] = Mix(h, k)
  BY MixTyped
<1>2. Reversible(G, Word)
  <2>1. ASSUME NEW h \in Word, NEW g \in Word, NEW k \in Word, NEW l \in Word
        PROVE  (G[<<h, k>>] = G[<<g, k>>] => h = g) /\ (G[<<h, k>>] = G[<<h, l>>] => k = l)
    <3>1. (Mix(h, k) = Mix(g, k) => h = g) /\ (Mix(h, k) = Mix(h, l) => k = l)
      BY WordIsW, MixTells
    <3> HIDE DEF G
    <3> QED BY <1>1, <3>1
  <2> HIDE DEF G
  <2> QED BY <2>1 DEF Reversible
<1>3. ASSUME NEW r \in Seq(Word)
      PROVE  \E v : FoldOf(v, G, Word, b, r) /\ FoldLeft(Mix, b, r) = v[Len(r)]
  <2>1. PICK v \in [0 .. Len(r) -> Word] :
          /\ v[0] = b /\ \A k \in 1 .. Len(r) : v[k] = Mix(v[k - 1], r[k])
          /\ FoldLeft(Mix, b, r) = v[Len(r)]
    BY MixSteps
  <2>2. \A k \in 1 .. Len(r) : v[k - 1] \in Word /\ r[k] \in Word
    OBVIOUS
  <2> HIDE DEF G
  <2>3. FoldOf(v, G, Word, b, r)
    BY <1>1, <2>1, <2>2 DEF FoldOf
  <2> QED BY <2>1, <2>3
<1> HIDE DEF G
<1>4. PICK v : FoldOf(v, G, Word, b, s) /\ FoldLeft(Mix, b, s) = v[Len(s)]
  BY <1>3
<1>5. PICK u : FoldOf(u, G, Word, b, t) /\ FoldLeft(Mix, b, t) = u[Len(t)]
  BY <1>3
<1>6. v[Len(s)] # u[Len(t)]
  BY <1>2, <1>4, <1>5, FoldTells
<1> QED BY <1>4, <1>5, <1>6

LEMMA MixFoldTyped == \A b \in Word : \A s \in Seq(Word) : FoldLeft(Mix, b, s) \in Word
<1> SUFFICES ASSUME NEW b \in Word, NEW s \in Seq(Word) PROVE FoldLeft(Mix, b, s) \in Word
  OBVIOUS
<1>1. PICK v \in [0 .. Len(s) -> Word] : FoldLeft(Mix, b, s) = v[Len(s)]
  BY MixSteps
<1>2. Len(s) \in 0 .. Len(s)
  BY LenProperties
<1> QED BY <1>1, <1>2

LEMMA Mix64Typed == \A h, k \in LongWord : Mix64(h, k) \in LongWord
BY WordIsW, Mix64Tells

LEMMA Mix64Steps ==
  ASSUME NEW b \in LongWord, NEW s \in Seq(LongWord)
  PROVE  \E v \in [0 .. Len(s) -> LongWord] :
           /\ v[0] = b /\ \A k \in 1 .. Len(s) : v[k] = Mix64(v[k - 1], s[k])
           /\ FoldLeft(Mix64, b, s) = v[Len(s)]
<1> DEFINE G == [p \in LongWord \X LongWord |-> Mix64(p[1], p[2])]
           Value(c, t) == IF t = {} THEN b ELSE Mix64(c[t \ {Max(t)}], s[Max(t)])
           Eq(c) == c = [t \in SUBSET (DOMAIN s) |-> Value(c, t)]
<1>1. Len(s) \in Nat /\ DOMAIN s = 1 .. Len(s)
  OBVIOUS
<1>2. FoldLeft(Mix64, b, s) = (CHOOSE c : Eq(c))[DOMAIN s]
  BY DEF FoldLeft, MapThenFoldSet
<1>3. G \in [LongWord \X LongWord -> LongWord]
  BY Mix64Typed
<1>4. \E c : Eq(c)
  <2>1. PICK c \in [SUBSET (1 .. Len(s)) -> LongWord] : SetFold(c, G, b, s)
    BY <1>3, SetFoldExists
  <2>2. ASSUME NEW t \in SUBSET (1 .. Len(s)), t # {} PROVE c[t] = Mix64(c[t \ {Max(t)}], s[Max(t)])
    <3>1. c[t \ {Max(t)}] \in LongWord /\ s[Max(t)] \in LongWord
      BY <2>2, BelowMax
    <3>2. c[t] = G[<<c[t \ {Max(t)}], s[Max(t)]>>]
      BY <2>1, <2>2 DEF SetFold
    <3> QED BY <3>1, <3>2
  <2>3. \A t \in SUBSET (1 .. Len(s)) : c[t] = Value(c, t)
    BY <2>1, <2>2 DEF SetFold
  <2> HIDE DEF Value
  <2> QED BY <1>1, <2>3
<1>5. PICK c : Eq(c) /\ FoldLeft(Mix64, b, s) = c[DOMAIN s]
  BY <1>2, <1>4
<1>6. \A t \in SUBSET (1 .. Len(s)) : c[t] = Value(c, t)
  <2> HIDE DEF Value
  <2> QED BY <1>1, <1>5
<1>7. c[{}] = b
  BY <1>6
<1>8. ASSUME NEW t \in SUBSET (1 .. Len(s)), t # {}, c[t \ {Max(t)}] \in LongWord
      PROVE  c[t] = G[<<c[t \ {Max(t)}], s[Max(t)]>>]
  <2>1. s[Max(t)] \in LongWord
    <3>1. Max(t) \in t
      BY <1>1, <1>8, MaxOfSet
    <3>2. Max(t) \in 1 .. Len(s)
      BY <3>1
    <3> QED BY <1>1, <3>2
  <2> QED BY <1>6, <1>8, <2>1
<1>9. PICK v \in [0 .. Len(s) -> LongWord] : FoldSteps(v, G, b, s, c[1 .. Len(s)])
  <2>1. TypedFold(c, G, b, s, LongWord)
    <3> HIDE DEF G
    <3> QED BY <1>7, <1>8 DEF TypedFold
  <2> HIDE DEF G
  <2> QED BY <1>3, <2>1, TypedFoldSteps
<1>10. ASSUME NEW k \in 1 .. Len(s) PROVE v[k] = Mix64(v[k - 1], s[k])
  <2>1. v[k - 1] \in LongWord /\ s[k] \in LongWord
    BY <1>1
  <2>2. v[k] = G[<<v[k - 1], s[k]>>]
    BY <1>9 DEF FoldSteps
  <2> QED BY <2>1, <2>2
<1> HIDE DEF G, Eq
<1> QED BY <1>1, <1>5, <1>9, <1>10 DEF FoldSteps

LEMMA Mix64FoldTells ==
  ASSUME NEW b \in LongWord, NEW s \in Seq(LongWord), NEW t \in Seq(LongWord), OneOff(s, t)
  PROVE  FoldLeft(Mix64, b, s) # FoldLeft(Mix64, b, t)
<1> DEFINE G == [p \in LongWord \X LongWord |-> Mix64(p[1], p[2])]
<1>1. G \in [LongWord \X LongWord -> LongWord] /\ \A h \in LongWord, k \in LongWord : G[<<h, k>>] = Mix64(h, k)
  BY Mix64Typed
<1>2. Reversible(G, LongWord)
  <2>1. ASSUME NEW h \in LongWord, NEW g \in LongWord, NEW k \in LongWord, NEW l \in LongWord
        PROVE  (G[<<h, k>>] = G[<<g, k>>] => h = g) /\ (G[<<h, k>>] = G[<<h, l>>] => k = l)
    <3>1. (Mix64(h, k) = Mix64(g, k) => h = g) /\ (Mix64(h, k) = Mix64(h, l) => k = l)
      BY WordIsW, Mix64Tells
    <3> HIDE DEF G
    <3> QED BY <1>1, <3>1
  <2> HIDE DEF G
  <2> QED BY <2>1 DEF Reversible
<1>3. ASSUME NEW r \in Seq(LongWord)
      PROVE  \E v : FoldOf(v, G, LongWord, b, r) /\ FoldLeft(Mix64, b, r) = v[Len(r)]
  <2>1. PICK v \in [0 .. Len(r) -> LongWord] :
          /\ v[0] = b /\ \A k \in 1 .. Len(r) : v[k] = Mix64(v[k - 1], r[k])
          /\ FoldLeft(Mix64, b, r) = v[Len(r)]
    BY Mix64Steps
  <2>2. \A k \in 1 .. Len(r) : v[k - 1] \in LongWord /\ r[k] \in LongWord
    OBVIOUS
  <2> HIDE DEF G
  <2>3. FoldOf(v, G, LongWord, b, r)
    BY <1>1, <2>1, <2>2 DEF FoldOf
  <2> QED BY <2>1, <2>3
<1> HIDE DEF G
<1>4. PICK v : FoldOf(v, G, LongWord, b, s) /\ FoldLeft(Mix64, b, s) = v[Len(s)]
  BY <1>3
<1>5. PICK u : FoldOf(u, G, LongWord, b, t) /\ FoldLeft(Mix64, b, t) = u[Len(t)]
  BY <1>3
<1>6. v[Len(s)] # u[Len(t)]
  BY <1>2, <1>4, <1>5, FoldTells
<1> QED BY <1>4, <1>5, <1>6

LEMMA Mix64FoldTyped == \A b \in LongWord : \A s \in Seq(LongWord) : FoldLeft(Mix64, b, s) \in LongWord
<1> SUFFICES ASSUME NEW b \in LongWord, NEW s \in Seq(LongWord) PROVE FoldLeft(Mix64, b, s) \in LongWord
  OBVIOUS
<1>1. PICK v \in [0 .. Len(s) -> LongWord] : FoldLeft(Mix64, b, s) = v[Len(s)]
  BY Mix64Steps
<1>2. Len(s) \in 0 .. Len(s)
  BY LenProperties
<1> QED BY <1>1, <1>2

LEMMA HashWordTyped == \A h, k \in Word : HashWord(h, k) \in Word
<1>1. 16 \in Shifts
  BY DEF Shifts
<1> QED BY <1>1, WordIsW, HashStepTells DEF HashWord

LEMMA HashWordSteps ==
  ASSUME NEW b \in Word, NEW s \in Seq(Word)
  PROVE  \E v \in [0 .. Len(s) -> Word] :
           /\ v[0] = b /\ \A k \in 1 .. Len(s) : v[k] = HashWord(v[k - 1], s[k])
           /\ FoldLeft(HashWord, b, s) = v[Len(s)]
<1> DEFINE G == [p \in Word \X Word |-> HashWord(p[1], p[2])]
           Value(c, t) == IF t = {} THEN b ELSE HashWord(c[t \ {Max(t)}], s[Max(t)])
           Eq(c) == c = [t \in SUBSET (DOMAIN s) |-> Value(c, t)]
<1>1. Len(s) \in Nat /\ DOMAIN s = 1 .. Len(s)
  OBVIOUS
<1>2. FoldLeft(HashWord, b, s) = (CHOOSE c : Eq(c))[DOMAIN s]
  BY DEF FoldLeft, MapThenFoldSet
<1>3. G \in [Word \X Word -> Word]
  BY HashWordTyped
<1>4. \E c : Eq(c)
  <2>1. PICK c \in [SUBSET (1 .. Len(s)) -> Word] : SetFold(c, G, b, s)
    BY <1>3, SetFoldExists
  <2>2. ASSUME NEW t \in SUBSET (1 .. Len(s)), t # {} PROVE c[t] = HashWord(c[t \ {Max(t)}], s[Max(t)])
    <3>1. c[t \ {Max(t)}] \in Word /\ s[Max(t)] \in Word
      BY <2>2, BelowMax
    <3>2. c[t] = G[<<c[t \ {Max(t)}], s[Max(t)]>>]
      BY <2>1, <2>2 DEF SetFold
    <3> QED BY <3>1, <3>2
  <2>3. \A t \in SUBSET (1 .. Len(s)) : c[t] = Value(c, t)
    BY <2>1, <2>2 DEF SetFold
  <2> HIDE DEF Value
  <2> QED BY <1>1, <2>3
<1>5. PICK c : Eq(c) /\ FoldLeft(HashWord, b, s) = c[DOMAIN s]
  BY <1>2, <1>4
<1>6. \A t \in SUBSET (1 .. Len(s)) : c[t] = Value(c, t)
  <2> HIDE DEF Value
  <2> QED BY <1>1, <1>5
<1>7. c[{}] = b
  BY <1>6
<1>8. ASSUME NEW t \in SUBSET (1 .. Len(s)), t # {}, c[t \ {Max(t)}] \in Word
      PROVE  c[t] = G[<<c[t \ {Max(t)}], s[Max(t)]>>]
  <2>1. s[Max(t)] \in Word
    <3>1. Max(t) \in t
      BY <1>1, <1>8, MaxOfSet
    <3>2. Max(t) \in 1 .. Len(s)
      BY <3>1
    <3> QED BY <1>1, <3>2
  <2> QED BY <1>6, <1>8, <2>1
<1>9. PICK v \in [0 .. Len(s) -> Word] : FoldSteps(v, G, b, s, c[1 .. Len(s)])
  <2>1. TypedFold(c, G, b, s, Word)
    <3> HIDE DEF G
    <3> QED BY <1>7, <1>8 DEF TypedFold
  <2> HIDE DEF G
  <2> QED BY <1>3, <2>1, TypedFoldSteps
<1>10. ASSUME NEW k \in 1 .. Len(s) PROVE v[k] = HashWord(v[k - 1], s[k])
  <2>1. v[k - 1] \in Word /\ s[k] \in Word
    BY <1>1
  <2>2. v[k] = G[<<v[k - 1], s[k]>>]
    BY <1>9 DEF FoldSteps
  <2> QED BY <2>1, <2>2
<1> HIDE DEF G, Eq
<1> QED BY <1>1, <1>5, <1>9, <1>10 DEF FoldSteps

LEMMA HashWordFoldTells ==
  ASSUME NEW b \in Word, NEW s \in Seq(Word), NEW t \in Seq(Word), OneOff(s, t)
  PROVE  FoldLeft(HashWord, b, s) # FoldLeft(HashWord, b, t)
<1> DEFINE G == [p \in Word \X Word |-> HashWord(p[1], p[2])]
<1>1. G \in [Word \X Word -> Word] /\ \A h \in Word, k \in Word : G[<<h, k>>] = HashWord(h, k)
  BY HashWordTyped
<1>2. Reversible(G, Word)
  <2>1. ASSUME NEW h \in Word, NEW g \in Word, NEW k \in Word, NEW l \in Word
        PROVE  (G[<<h, k>>] = G[<<g, k>>] => h = g) /\ (G[<<h, k>>] = G[<<h, l>>] => k = l)
    <3>1. (HashWord(h, k) = HashWord(g, k) => h = g) /\ (HashWord(h, k) = HashWord(h, l) => k = l)
      <4>1. 16 \in Shifts
        BY DEF Shifts
      <4> QED BY <4>1, WordIsW, HashStepTells DEF HashWord
    <3> HIDE DEF G
    <3> QED BY <1>1, <3>1
  <2> HIDE DEF G
  <2> QED BY <2>1 DEF Reversible
<1>3. ASSUME NEW r \in Seq(Word)
      PROVE  \E v : FoldOf(v, G, Word, b, r) /\ FoldLeft(HashWord, b, r) = v[Len(r)]
  <2>1. PICK v \in [0 .. Len(r) -> Word] :
          /\ v[0] = b /\ \A k \in 1 .. Len(r) : v[k] = HashWord(v[k - 1], r[k])
          /\ FoldLeft(HashWord, b, r) = v[Len(r)]
    BY HashWordSteps
  <2>2. \A k \in 1 .. Len(r) : v[k - 1] \in Word /\ r[k] \in Word
    OBVIOUS
  <2> HIDE DEF G
  <2>3. FoldOf(v, G, Word, b, r)
    BY <1>1, <2>1, <2>2 DEF FoldOf
  <2> QED BY <2>1, <2>3
<1> HIDE DEF G
<1>4. PICK v : FoldOf(v, G, Word, b, s) /\ FoldLeft(HashWord, b, s) = v[Len(s)]
  BY <1>3
<1>5. PICK u : FoldOf(u, G, Word, b, t) /\ FoldLeft(HashWord, b, t) = u[Len(t)]
  BY <1>3
<1>6. v[Len(s)] # u[Len(t)]
  BY <1>2, <1>4, <1>5, FoldTells
<1> QED BY <1>4, <1>5, <1>6

LEMMA HashWordFoldTyped == \A b \in Word : \A s \in Seq(Word) : FoldLeft(HashWord, b, s) \in Word
<1> SUFFICES ASSUME NEW b \in Word, NEW s \in Seq(Word) PROVE FoldLeft(HashWord, b, s) \in Word
  OBVIOUS
<1>1. PICK v \in [0 .. Len(s) -> Word] : FoldLeft(HashWord, b, s) = v[Len(s)]
  BY HashWordSteps
<1>2. Len(s) \in 0 .. Len(s)
  BY LenProperties
<1> QED BY <1>1, <1>2

LEMMA LongFromInt == \A n \in Nat : FromInt(n, 8) \in LongWord
<1> SUFFICES ASSUME NEW n \in Nat PROVE FromInt(n, 8) \in LongWord
  OBVIOUS
<1>1. \A x \in Nat : x % 256 \in Byte
  BY DEF Byte
<1>2. n \div 256 \in Nat /\ n \div 65536 \in Nat /\ n \div 16777216 \in Nat
  OBVIOUS
<1>3. PICK w \in Byte : w = n % 256
  BY <1>1
<1>4. PICK x \in Byte : x = (n \div 256) % 256
  BY <1>1, <1>2
<1>5. PICK y \in Byte : y = (n \div 65536) % 256
  BY <1>1, <1>2
<1>6. PICK z \in Byte : z = (n \div 16777216) % 256
  BY <1>1, <1>2
<1>7. FromInt(n, 8) = Wide(<<w, x, y, z>>, 8)
  BY <1>3, <1>4, <1>5, <1>6 DEF FromInt
<1>8. <<w, x, y, z>> \in Seq(Byte) /\ 8 \in Nat
  OBVIOUS
<1> QED BY <1>7, <1>8, WordIsW, WideWord

(* The word and the bytes behind it: one of the two is the same.           *)
EitherOne(h, g, r, q) == (h # g /\ r = q) \/ (h = g /\ r # q)

(* As many bytes behind the words, at most a word of them.                 *)
Rests(r, q, w) == r \in Seq(Byte) /\ q \in Seq(Byte) /\ Len(r) = Len(q) /\ Len(r) <= w

LEMMA RestsWide ==
  ASSUME NEW w \in Nat, NEW r, NEW q, Rests(r, q, w)
  PROVE  /\ Wide(r, w) \in W(w) /\ Wide(q, w) \in W(w)
         /\ r # q => Wide(r, w) # Wide(q, w)
         /\ r = <<>> <=> q = <<>>
<1>1. r \in Seq(Byte) /\ q \in Seq(Byte) /\ Len(r) = Len(q) /\ Len(r) <= w
  BY DEF Rests
<1>2. r = <<>> <=> q = <<>>
  BY <1>1, EmptySeq
<1> QED BY <1>1, <1>2, WideWord, WideTells

LEMMA MixRestTyped ==
  ASSUME NEW h \in Word, NEW r, NEW q, Rests(r, q, 4)
  PROVE  MixRest(h, r) \in Word /\ MixRest(h, q) \in Word
<1>0. 4 \in Nat /\ h \in W(4)
  BY WordIsW
<1>1. ASSUME NEW x \in W(4) PROVE Times(Exor(h, x), M32) \in W(4)
  <2>1. Exor(h, x) \in W(4)
    BY <1>0, ExorWord
  <2> QED BY <1>0, <2>1, Multipliers, TimesWord
<1>2. Wide(r, 4) \in W(4) /\ Wide(q, 4) \in W(4)
  BY <1>0, RestsWide
<1> QED BY <1>1, <1>2, WordIsW DEF MixRest

(* So the hash tells, after the bytes behind the words.                    *)
LEMMA MixRestTells ==
  ASSUME NEW h \in Word, NEW g \in Word, NEW r, NEW q, Rests(r, q, 4), EitherOne(h, g, r, q)
  PROVE  MixRest(h, r) \in Word /\ MixRest(g, q) \in Word /\ MixRest(h, r) # MixRest(g, q)
<1>0. 4 \in Nat /\ h \in W(4) /\ g \in W(4)
  BY WordIsW
<1>1. PICK k \in W(4) : k = Wide(r, 4)
  BY <1>0, RestsWide
<1>2. PICK l \in W(4) : l = Wide(q, 4)
  BY <1>0, RestsWide
<1>3. (r # q => k # l) /\ (r = <<>> <=> q = <<>>)
  BY <1>0, <1>1, <1>2, RestsWide
<1>4. (h # g /\ k = l) \/ (h = g /\ k # l)
  BY <1>1, <1>2, <1>3, Zenon DEF EitherOne
<1>5. CASE r = <<>>
  <2>1. MixRest(h, r) = h /\ MixRest(g, q) = g
    BY <1>3, <1>5, Zenon DEF MixRest
  <2>2. h # g
    BY <1>3, <1>5, Zenon DEF EitherOne
  <2> QED BY <2>1, <2>2
<1>6. CASE r # <<>>
  <2>1. MixRest(h, r) = Times(Exor(h, k), M32) /\ MixRest(g, q) = Times(Exor(g, l), M32)
    BY <1>1, <1>2, <1>3, <1>6, Zenon DEF MixRest
  <2>2. /\ Times(Exor(h, k), M32) \in W(4) /\ Times(Exor(g, l), M32) \in W(4)
        /\ Times(Exor(h, k), M32) = Times(Exor(g, k), M32) => h = g
        /\ Times(Exor(h, k), M32) = Times(Exor(h, l), M32) => k = l
    BY <1>0, Multipliers, ExorTimesTells
  <2> QED BY <1>4, <2>1, <2>2, WordIsW
<1> QED BY <1>5, <1>6

LEMMA MixRest64Tells ==
  ASSUME NEW h \in LongWord, NEW g \in LongWord, NEW r, NEW q, Rests(r, q, 8), EitherOne(h, g, r, q)
  PROVE  MixRest64(h, r) \in LongWord /\ MixRest64(g, q) \in LongWord /\ MixRest64(h, r) # MixRest64(g, q)
<1>0. 8 \in Nat /\ h \in W(8) /\ g \in W(8)
  BY WordIsW
<1>1. PICK k \in W(8) : k = Wide(r, 8)
  BY <1>0, RestsWide
<1>2. PICK l \in W(8) : l = Wide(q, 8)
  BY <1>0, RestsWide
<1>3. (r # q => k # l) /\ (r = <<>> <=> q = <<>>)
  BY <1>0, <1>1, <1>2, RestsWide
<1>4. (h # g /\ k = l) \/ (h = g /\ k # l)
  BY <1>1, <1>2, <1>3, Zenon DEF EitherOne
<1>5. CASE r = <<>>
  <2>1. MixRest64(h, r) = h /\ MixRest64(g, q) = g
    BY <1>3, <1>5, Zenon DEF MixRest64
  <2>2. h # g
    BY <1>3, <1>5, Zenon DEF EitherOne
  <2> QED BY <2>1, <2>2
<1>6. CASE r # <<>>
  <2>1. MixRest64(h, r) = Times(Exor(h, k), M64) /\ MixRest64(g, q) = Times(Exor(g, l), M64)
    BY <1>1, <1>2, <1>3, <1>6, Zenon DEF MixRest64
  <2>2. /\ Times(Exor(h, k), M64) \in W(8) /\ Times(Exor(g, l), M64) \in W(8)
        /\ Times(Exor(h, k), M64) = Times(Exor(g, k), M64) => h = g
        /\ Times(Exor(h, k), M64) = Times(Exor(h, l), M64) => k = l
    BY <1>0, Multipliers, ExorTimesTells
  <2> QED BY <1>4, <2>1, <2>2, WordIsW
<1> QED BY <1>5, <1>6

LEMMA HashRestTells ==
  ASSUME NEW h \in Word, NEW g \in Word, NEW r, NEW q, Rests(r, q, 4), EitherOne(h, g, r, q)
  PROVE  HashRest(h, r) # HashRest(g, q)
<1>0. 4 \in Nat /\ 24 \in Shifts /\ h \in W(4) /\ g \in W(4)
  BY WordIsW DEF Shifts
<1>1. PICK k \in W(4) : k = Wide(r, 4)
  BY <1>0, RestsWide
<1>2. PICK l \in W(4) : l = Wide(q, 4)
  BY <1>0, RestsWide
<1>3. (r # q => k # l) /\ (r = <<>> <=> q = <<>>)
  BY <1>0, <1>1, <1>2, RestsWide
<1>4. (h # g /\ k = l) \/ (h = g /\ k # l)
  BY <1>1, <1>2, <1>3, Zenon DEF EitherOne
<1>5. CASE r = <<>>
  <2>1. HashRest(h, r) = h /\ HashRest(g, q) = g
    BY <1>3, <1>5, Zenon DEF HashRest
  <2>2. h # g
    BY <1>3, <1>5, Zenon DEF EitherOne
  <2> QED BY <2>1, <2>2
<1>6. CASE r # <<>>
  <2>1. HashRest(h, r) = HashStep(h, k, 24) /\ HashRest(g, q) = HashStep(g, l, 24)
    BY <1>1, <1>2, <1>3, <1>6, Zenon DEF HashRest
  <2>2. /\ HashStep(h, k, 24) = HashStep(g, k, 24) => h = g
        /\ HashStep(h, k, 24) = HashStep(h, l, 24) => k = l
    BY <1>0, HashStepTells
  <2> QED BY <1>4, <2>1, <2>2
<1> QED BY <1>5, <1>6

----------------------------------------------------------------------------
(* The hashes of two sequences of which one byte differs *)

LEMMA RestsOf ==
  ASSUME NEW w \in Widths, NEW s \in Seq(Byte), NEW t \in Seq(Byte), Len(s) = Len(t)
  PROVE  Rests(Rest(s, w), Rest(t, w), w)
<1>1. RestRead(s, w, Rest(s, w)) /\ RestRead(t, w, Rest(t, w))
  BY RestIsRead
<1> QED BY <1>1 DEF RestRead, Rests

LEMMA WordsInSeq ==
  ASSUME NEW s \in Seq(Byte)
  PROVE  Words(s, 4) \in Seq(Word) /\ Words(s, 8) \in Seq(LongWord)
<1>1. WordsRead(s, 4, Words(s, 4)) /\ WordsRead(s, 8, Words(s, 8))
  BY WordsAreRead DEF Widths
<1> QED BY <1>1, WordIsW, Zenon DEF WordsRead

(* The words mixed one after the other, and the bytes behind them.         *)
LEMMA MixedTell ==
  ASSUME NEW b \in Word, NEW s \in Seq(Byte), NEW t \in Seq(Byte), OneOff(s, t)
  PROVE  /\ FoldLeft(Mix, b, Words(s, 4)) \in Word /\ FoldLeft(Mix, b, Words(t, 4)) \in Word
         /\ Rests(Rest(s, 4), Rest(t, 4), 4)
         /\ EitherOne(FoldLeft(Mix, b, Words(s, 4)), FoldLeft(Mix, b, Words(t, 4)), Rest(s, 4), Rest(t, 4))
<1>0. 4 \in Widths /\ Len(s) = Len(t)
  BY DEF Widths, OneOff
<1>1. Words(s, 4) \in Seq(Word) /\ Words(t, 4) \in Seq(Word)
  BY WordsInSeq
<1>2. FoldLeft(Mix, b, Words(s, 4)) \in Word /\ FoldLeft(Mix, b, Words(t, 4)) \in Word
  BY <1>1, MixFoldTyped
<1>3. OneOff(Words(s, 4), Words(t, 4)) => FoldLeft(Mix, b, Words(s, 4)) # FoldLeft(Mix, b, Words(t, 4))
  BY <1>1, MixFoldTells
<1>4. \/ OneOff(Words(s, 4), Words(t, 4)) /\ Rest(s, 4) = Rest(t, 4)
      \/ Words(s, 4) = Words(t, 4) /\ Rest(s, 4) # Rest(t, 4)
  BY <1>0, OneWordOrRest
<1> QED BY <1>0, <1>2, <1>3, <1>4, RestsOf, Zenon DEF EitherOne

(* murmurhash2.cc 37-86.                                                   *)
LEMMA MurmurHash2Tells ==
  ASSUME NEW h \in Word, NEW s \in Seq(Byte), NEW t \in Seq(Byte), OneOff(s, t)
  PROVE  MurmurHash2(s, h) # MurmurHash2(t, h)
<1>0. PICK n \in Nat : n = Len(s) /\ n = Len(t)
  BY ByteSeq DEF OneOff
<1>1. PICK b \in Word : b = Exor(h, FromInt(n, 4))
  BY FromIntTyped, ExorTyped
<1>2. PICK x \in Word : x = FoldLeft(Mix, b, Words(s, 4))
  BY MixedTell
<1>3. PICK y \in Word : y = FoldLeft(Mix, b, Words(t, 4))
  BY MixedTell
<1>4. Rests(Rest(s, 4), Rest(t, 4), 4) /\ EitherOne(x, y, Rest(s, 4), Rest(t, 4))
  BY <1>2, <1>3, MixedTell, Zenon
<1>5. /\ MixRest(x, Rest(s, 4)) \in Word /\ MixRest(y, Rest(t, 4)) \in Word
      /\ MixRest(x, Rest(s, 4)) # MixRest(y, Rest(t, 4))
  BY <1>4, MixRestTells
<1>6. Final(MixRest(x, Rest(s, 4))) # Final(MixRest(y, Rest(t, 4)))
  BY <1>5, WordIsW, FinalTells
<1>7. MurmurHash2(s, h) = Final(MixRest(x, Rest(s, 4))) /\ MurmurHash2(t, h) = Final(MixRest(y, Rest(t, 4)))
  BY <1>0, <1>1, <1>2, <1>3, Zenon DEF MurmurHash2
<1> QED BY <1>6, <1>7

LEMMA MurmurHash2ATells ==
  ASSUME NEW h \in Word, NEW s \in Seq(Byte), NEW t \in Seq(Byte), OneOff(s, t)
  PROVE  MurmurHash2A(s, h) # MurmurHash2A(t, h)
<1>0. PICK n \in Nat : n = Len(s) /\ n = Len(t)
  BY ByteSeq DEF OneOff
<1>1. PICK x \in Word : x = FoldLeft(Mix, h, Words(s, 4))
  BY MixedTell
<1>2. PICK y \in Word : y = FoldLeft(Mix, h, Words(t, 4))
  BY MixedTell
<1>3. Rests(Rest(s, 4), Rest(t, 4), 4) /\ EitherOne(x, y, Rest(s, 4), Rest(t, 4))
  BY <1>1, <1>2, MixedTell, Zenon
<1>4. 4 \in Nat /\ x \in W(4) /\ y \in W(4)
  BY WordIsW
<1>5. PICK k \in W(4) : k = Wide(Rest(s, 4), 4)
  BY <1>3, <1>4, RestsWide
<1>6. PICK l \in W(4) : l = Wide(Rest(t, 4), 4)
  BY <1>3, <1>4, RestsWide
<1>7. Rest(s, 4) # Rest(t, 4) => k # l
  BY <1>3, <1>4, <1>5, <1>6, RestsWide
<1>8. (x # y /\ k = l) \/ (x = y /\ k # l)
  BY <1>3, <1>5, <1>6, <1>7, Zenon DEF EitherOne
<1>9. PICK a \in W(4) : a = Mix(x, k)
  BY <1>4, MixTells
<1>10. PICK c \in W(4) : c = Mix(y, l)
  BY <1>4, MixTells
<1>11. a # c
  <2>1. (Mix(x, k) = Mix(y, k) => x = y) /\ (Mix(x, k) = Mix(x, l) => k = l)
    BY <1>4, MixTells
  <2> QED BY <1>8, <1>9, <1>10, <2>1, Zenon
<1>12. PICK m \in W(4) : m = FromInt(n, 4)
  BY FromIntTyped, WordIsW
<1>13. Mix(a, m) \in W(4) /\ Mix(c, m) \in W(4) /\ Mix(a, m) # Mix(c, m)
  BY <1>11, MixTells
<1>14. Final(Mix(a, m)) # Final(Mix(c, m))
  BY <1>13, FinalTells
<1>15. MurmurHash2A(s, h) = Final(Mix(a, m)) /\ MurmurHash2A(t, h) = Final(Mix(c, m))
  BY <1>0, <1>1, <1>2, <1>5, <1>6, <1>9, <1>10, <1>12, Zenon DEF MurmurHash2A
<1> QED BY <1>14, <1>15

LEMMA MurmurHash2_64ATells ==
  ASSUME NEW h \in LongWord, NEW s \in Seq(Byte), NEW t \in Seq(Byte), OneOff(s, t)
  PROVE  MurmurHash2_64A(s, h) # MurmurHash2_64A(t, h)
<1>0. PICK n \in Nat : n = Len(s) /\ n = Len(t)
  BY ByteSeq DEF OneOff
<1>1. PICK b \in LongWord : b = Exor(h, Times(FromInt(n, 8), M64))
  <2>1. 8 \in Nat /\ h \in W(8) /\ FromInt(n, 8) \in W(8)
    BY LongFromInt, WordIsW
  <2>2. Times(FromInt(n, 8), M64) \in W(8)
    BY <2>1, Multipliers, TimesWord
  <2>3. Exor(h, Times(FromInt(n, 8), M64)) \in W(8)
    BY <2>1, <2>2, ExorWord
  <2> QED BY <2>3, WordIsW
<1>2. 8 \in Widths
  BY DEF Widths
<1>3. Words(s, 8) \in Seq(LongWord) /\ Words(t, 8) \in Seq(LongWord)
  BY WordsInSeq
<1>4. PICK x \in LongWord : x = FoldLeft(Mix64, b, Words(s, 8))
  BY <1>3, Mix64FoldTyped
<1>5. PICK y \in LongWord : y = FoldLeft(Mix64, b, Words(t, 8))
  BY <1>3, Mix64FoldTyped
<1>6. OneOff(Words(s, 8), Words(t, 8)) => x # y
  BY <1>3, <1>4, <1>5, Mix64FoldTells
<1>7. \/ OneOff(Words(s, 8), Words(t, 8)) /\ Rest(s, 8) = Rest(t, 8)
      \/ Words(s, 8) = Words(t, 8) /\ Rest(s, 8) # Rest(t, 8)
  BY <1>2, OneWordOrRest
<1>8. Rests(Rest(s, 8), Rest(t, 8), 8) /\ EitherOne(x, y, Rest(s, 8), Rest(t, 8))
  BY <1>0, <1>2, <1>4, <1>5, <1>6, <1>7, RestsOf, Zenon DEF EitherOne
<1>9. /\ MixRest64(x, Rest(s, 8)) \in LongWord /\ MixRest64(y, Rest(t, 8)) \in LongWord
      /\ MixRest64(x, Rest(s, 8)) # MixRest64(y, Rest(t, 8))
  BY <1>8, MixRest64Tells
<1>10. Final64(MixRest64(x, Rest(s, 8))) # Final64(MixRest64(y, Rest(t, 8)))
  BY <1>9, WordIsW, Final64Tells
<1>11. /\ MurmurHash2_64A(s, h) = Final64(MixRest64(x, Rest(s, 8)))
       /\ MurmurHash2_64A(t, h) = Final64(MixRest64(y, Rest(t, 8)))
  BY <1>0, <1>1, <1>4, <1>5, Zenon DEF MurmurHash2_64A
<1> QED BY <1>10, <1>11

LEMMA HashTells ==
  ASSUME NEW h \in Word, NEW s \in Seq(Byte), NEW t \in Seq(Byte), OneOff(s, t)
  PROVE  Hash(s, h) # Hash(t, h)
<1>0. PICK n \in Nat : n = Len(s) /\ n = Len(t)
  BY ByteSeq DEF OneOff
<1>1. PICK b \in Word : b = Exor(h, Times(FromInt(n, 4), MHash))
  <2>1. FromInt(n, 4) \in W(4) /\ h \in W(4) /\ 4 \in Nat
    BY FromIntTyped, WordIsW
  <2>2. Times(FromInt(n, 4), MHash) \in W(4)
    BY <2>1, Multipliers, TimesWord
  <2>3. Exor(h, Times(FromInt(n, 4), MHash)) \in W(4)
    BY <2>1, <2>2, ExorWord
  <2> QED BY <2>3, WordIsW
<1>2. 4 \in Widths
  BY DEF Widths
<1>3. Words(s, 4) \in Seq(Word) /\ Words(t, 4) \in Seq(Word)
  BY WordsInSeq
<1>4. PICK x \in Word : x = FoldLeft(HashWord, b, Words(s, 4))
  BY <1>3, HashWordFoldTyped
<1>5. PICK y \in Word : y = FoldLeft(HashWord, b, Words(t, 4))
  BY <1>3, HashWordFoldTyped
<1>6. OneOff(Words(s, 4), Words(t, 4)) => x # y
  BY <1>3, <1>4, <1>5, HashWordFoldTells
<1>7. \/ OneOff(Words(s, 4), Words(t, 4)) /\ Rest(s, 4) = Rest(t, 4)
      \/ Words(s, 4) = Words(t, 4) /\ Rest(s, 4) # Rest(t, 4)
  BY <1>2, OneWordOrRest
<1>8. Rests(Rest(s, 4), Rest(t, 4), 4) /\ EitherOne(x, y, Rest(s, 4), Rest(t, 4))
  BY <1>0, <1>2, <1>4, <1>5, <1>6, <1>7, RestsOf, Zenon DEF EitherOne
<1>9. HashRest(x, Rest(s, 4)) # HashRest(y, Rest(t, 4))
  BY <1>8, HashRestTells
<1>10. Hash(s, h) = HashRest(x, Rest(s, 4)) /\ Hash(t, h) = HashRest(y, Rest(t, 4))
  BY <1>0, <1>1, <1>4, <1>5, Zenon DEF Hash
<1> QED BY <1>9, <1>10

(* The words taken in turns: one half has the word that differs.           *)
LEMMA TurnsTyped ==
  ASSUME NEW S, NEW u \in Seq(S)
  PROVE  /\ OddWords(u) \in Seq(S) /\ Len(OddWords(u)) = (Len(u) + 1) \div 2
         /\ \A k \in 1 .. (Len(u) + 1) \div 2 : OddWords(u)[k] = u[2 * k - 1]
         /\ EvenWords(u) \in Seq(S) /\ Len(EvenWords(u)) = Len(u) \div 2
         /\ \A k \in 1 .. Len(u) \div 2 : EvenWords(u)[k] = u[2 * k]
<1>1. PICK n \in Nat : n = Len(u)
  BY LenProperties
<1>2. PICK c \in Nat : c = (n + 1) \div 2
  OBVIOUS
<1>3. PICK d \in Nat : d = n \div 2
  OBVIOUS
<1>4. /\ \A k \in 1 .. c : 2 * k - 1 \in 1 .. n
      /\ \A k \in 1 .. d : 2 * k \in 1 .. n
  BY <1>2, <1>3
<1>5. /\ \A k \in 1 .. c : u[2 * k - 1] \in S
      /\ \A k \in 1 .. d : u[2 * k] \in S
  BY <1>1, <1>4, ElementOfSeq
<1>6. OddWords(u) = [k \in 1 .. c |-> u[2 * k - 1]] /\ EvenWords(u) = [k \in 1 .. d |-> u[2 * k]]
  BY <1>1, <1>2, <1>3, Zenon DEF OddWords, EvenWords
<1>7. /\ [k \in 1 .. c |-> u[2 * k - 1]] \in Seq(S) /\ Len([k \in 1 .. c |-> u[2 * k - 1]]) = c
      /\ [k \in 1 .. d |-> u[2 * k]] \in Seq(S) /\ Len([k \in 1 .. d |-> u[2 * k]]) = d
  BY <1>5
<1>8. /\ \A k \in 1 .. c : OddWords(u)[k] = u[2 * k - 1]
      /\ \A k \in 1 .. d : EvenWords(u)[k] = u[2 * k]
  BY <1>6
<1> QED BY <1>1, <1>2, <1>3, <1>6, <1>7, <1>8, Zenon

LEMMA TurnsTell ==
  ASSUME NEW S, NEW u \in Seq(S), NEW v \in Seq(S), OneOff(u, v)
  PROVE  \/ OneOff(OddWords(u), OddWords(v)) /\ EvenWords(u) = EvenWords(v)
         \/ OddWords(u) = OddWords(v) /\ OneOff(EvenWords(u), EvenWords(v))
<1>1. PICK n \in Nat : n = Len(u) /\ n = Len(v)
  BY LenProperties DEF OneOff
<1>2. PICK q \in 1 .. n : u[q] # v[q] /\ \A k \in 1 .. n : k # q => u[k] = v[k]
  BY <1>1 DEF OneOff, OnlyAt
<1>3. PICK c \in Nat : c = (n + 1) \div 2
  OBVIOUS
<1>4. PICK d \in Nat : d = n \div 2
  OBVIOUS
<1>5. PICK x : x = OddWords(u)
  OBVIOUS
<1>6. PICK y : y = OddWords(v)
  OBVIOUS
<1>7. PICK f : f = EvenWords(u)
  OBVIOUS
<1>8. PICK g : g = EvenWords(v)
  OBVIOUS
<1>9. /\ x \in Seq(S) /\ Len(x) = c /\ \A k \in 1 .. c : x[k] = u[2 * k - 1]
      /\ f \in Seq(S) /\ Len(f) = d /\ \A k \in 1 .. d : f[k] = u[2 * k]
  BY <1>1, <1>3, <1>4, <1>5, <1>7, TurnsTyped, Zenon
<1>10. /\ y \in Seq(S) /\ Len(y) = c /\ \A k \in 1 .. c : y[k] = v[2 * k - 1]
       /\ g \in Seq(S) /\ Len(g) = d /\ \A k \in 1 .. d : g[k] = v[2 * k]
  BY <1>1, <1>3, <1>4, <1>6, <1>8, TurnsTyped, Zenon
<1>11. /\ \A k \in 1 .. c : 2 * k - 1 \in 1 .. n
       /\ \A k \in 1 .. d : 2 * k \in 1 .. n
  BY <1>3, <1>4
<1>12. /\ \A k \in 1 .. c : 2 * k - 1 # q => x[k] = y[k]
       /\ \A k \in 1 .. d : 2 * k # q => f[k] = g[k]
  BY <1>2, <1>9, <1>10, <1>11
<1>13. (\E p \in 1 .. c : q = 2 * p - 1) \/ (\E p \in 1 .. d : q = 2 * p)
  <2>1. CASE q % 2 = 1
    <3>1. (q + 1) \div 2 \in 1 .. c /\ q = 2 * ((q + 1) \div 2) - 1
      BY <1>3, <2>1
    <3> QED BY <3>1
  <2>2. CASE q % 2 = 0
    <3>1. q \div 2 \in 1 .. d /\ q = 2 * (q \div 2)
      BY <1>4, <2>2
    <3> QED BY <3>1
  <2> QED BY <2>1, <2>2
<1>14. ASSUME NEW p \in 1 .. c, q = 2 * p - 1 PROVE OneOff(x, y) /\ f = g
  <2>1. x[p] # y[p]
    BY <1>2, <1>9, <1>10, <1>14
  <2>2. \A k \in 1 .. c : k # p => x[k] = y[k]
    BY <1>12, <1>14
  <2>3. \A k \in 1 .. d : f[k] = g[k]
    BY <1>12, <1>14
  <2>4. f = g
    BY <1>9, <1>10, <2>3, SeqEqual
  <2> QED BY <1>9, <1>10, <2>1, <2>2, <2>4 DEF OneOff, OnlyAt
<1>15. ASSUME NEW p \in 1 .. d, q = 2 * p PROVE x = y /\ OneOff(f, g)
  <2>1. f[p] # g[p]
    BY <1>2, <1>9, <1>10, <1>15
  <2>2. \A k \in 1 .. d : k # p => f[k] = g[k]
    BY <1>12, <1>15
  <2>3. \A k \in 1 .. c : x[k] = y[k]
    BY <1>12, <1>15
  <2>4. x = y
    BY <1>9, <1>10, <2>3, SeqEqual
  <2> QED BY <1>9, <1>10, <2>1, <2>2, <2>4 DEF OneOff, OnlyAt
<1> QED BY <1>5, <1>6, <1>7, <1>8, <1>13, <1>14, <1>15, Zenon

(* The halves of a seed of 64 bits.                                        *)
LEMMA SeedHalves ==
  ASSUME NEW x \in LongWord
  PROVE  SubSeq(x, 1, 4) \in Word /\ SubSeq(x, 5, 8) \in Word
<1>1. x \in Seq(Byte) /\ Len(x) = 8
  <2>1. 8 \in Nat /\ x \in W(8)
    BY WordIsW
  <2> QED BY <2>1, SequenceWord
<1>2. SubSeq(x, 1, 4) \in Seq(Byte) /\ Len(SubSeq(x, 1, 4)) = 4
  <2>1. 1 \in Nat \ {0} /\ 4 \in Nat /\ 4 <= Len(x) /\ 1 <= 4 + 1 /\ 4 - 1 + 1 = 4
    BY <1>1
  <2> QED BY <1>1, <2>1, SubBytes
<1>3. SubSeq(x, 5, 8) \in Seq(Byte) /\ Len(SubSeq(x, 5, 8)) = 4
  <2>1. 5 \in Nat \ {0} /\ 8 \in Nat /\ 8 <= Len(x) /\ 5 <= 8 + 1 /\ 8 - 5 + 1 = 4
    BY <1>1
  <2> QED BY <1>1, <2>1, SubBytes
<1> QED BY <1>2, <1>3, FourBytes, Zenon

LEMMA MurmurHash2_64BTells ==
  ASSUME NEW h \in LongWord, NEW s \in Seq(Byte), NEW t \in Seq(Byte), OneOff(s, t)
  PROVE  MurmurHash2_64B(s, h) # MurmurHash2_64B(t, h)
<1>0. PICK n \in Nat : n = Len(s) /\ n = Len(t)
  BY ByteSeq DEF OneOff
<1>1. PICK b \in Word : b = Exor(SubSeq(h, 1, 4), FromInt(n, 4))
  BY SeedHalves, FromIntTyped, ExorTyped
<1>2. PICK c \in Word : c = SubSeq(h, 5, 8)
  BY SeedHalves
<1>3. PICK u \in Seq(Word) : u = Words(s, 4)
  BY WordsInSeq
<1>4. PICK v \in Seq(Word) : v = Words(t, 4)
  BY WordsInSeq
<1>5. /\ OddWords(u) \in Seq(Word) /\ OddWords(v) \in Seq(Word)
      /\ EvenWords(u) \in Seq(Word) /\ EvenWords(v) \in Seq(Word)
  BY TurnsTyped
<1>6. PICK x1 \in Word : x1 = FoldLeft(Mix, b, OddWords(u))
  BY <1>5, MixFoldTyped
<1>7. PICK y1 \in Word : y1 = FoldLeft(Mix, b, OddWords(v))
  BY <1>5, MixFoldTyped
<1>8. PICK x2 \in Word : x2 = FoldLeft(Mix, c, EvenWords(u))
  BY <1>5, MixFoldTyped
<1>9. PICK y2 \in Word : y2 = FoldLeft(Mix, c, EvenWords(v))
  BY <1>5, MixFoldTyped
<1>10. PICK r : r = Rest(s, 4)
  OBVIOUS
<1>11. PICK q : q = Rest(t, 4)
  OBVIOUS
<1>12. 4 \in Widths
  BY DEF Widths
<1>13. Rests(r, q, 4)
  BY <1>0, <1>10, <1>11, <1>12, RestsOf, Zenon
<1>14. (OneOff(u, v) /\ r = q) \/ (u = v /\ r # q)
  BY <1>3, <1>4, <1>10, <1>11, <1>12, OneWordOrRest, Zenon
<1>15. x1 # y1 \/ EitherOne(x2, y2, r, q)
  <2>1. ASSUME OneOff(u, v), r = q PROVE x1 # y1 \/ x2 # y2
    <3>1. \/ OneOff(OddWords(u), OddWords(v))
          \/ OneOff(EvenWords(u), EvenWords(v))
      BY <2>1, TurnsTell, Zenon
    <3>2. OneOff(OddWords(u), OddWords(v)) => x1 # y1
      BY <1>5, <1>6, <1>7, MixFoldTells
    <3>3. OneOff(EvenWords(u), EvenWords(v)) => x2 # y2
      BY <1>5, <1>8, <1>9, MixFoldTells
    <3> QED BY <3>1, <3>2, <3>3
  <2>2. u = v => x2 = y2
    BY <1>8, <1>9, Zenon
  <2> QED BY <1>14, <2>1, <2>2, Zenon DEF EitherOne
<1>16. MixRest(x2, r) \in Word /\ MixRest(y2, q) \in Word
  BY <1>13, MixRestTyped
<1>17. x1 # y1 \/ MixRest(x2, r) # MixRest(y2, q)
  BY <1>13, <1>15, MixRestTells
<1>18. Crossed(x1, MixRest(x2, r)) # Crossed(y1, MixRest(y2, q))
  <2>1. PICK k \in W(4) : k = MixRest(x2, r)
    BY <1>16, WordIsW
  <2>2. PICK l \in W(4) : l = MixRest(y2, q)
    BY <1>16, WordIsW
  <2>3. x1 \in W(4) /\ y1 \in W(4) /\ (x1 # y1 \/ k # l)
    BY <1>17, <2>1, <2>2, WordIsW, Zenon
  <2>4. Crossed(x1, k) # Crossed(y1, l)
    BY <2>3, CrossedTells
  <2> QED BY <2>1, <2>2, <2>4, Zenon
<1>19. /\ MurmurHash2_64B(s, h) = Crossed(x1, MixRest(x2, r))
       /\ MurmurHash2_64B(t, h) = Crossed(y1, MixRest(y2, q))
  BY <1>0, <1>1, <1>2, <1>3, <1>4, <1>6, <1>7, <1>8, <1>9, <1>10, <1>11, Zenon DEF MurmurHash2_64B
<1> QED BY <1>18, <1>19

LEMMA HashMTells ==
  ASSUME NEW s \in Seq(Byte), NEW t \in Seq(Byte), OneOff(s, t)
  PROVE  HashM(s) # HashM(t)
<1>0. PICK n \in Nat : n = Len(s) /\ n = Len(t)
  BY ByteSeq DEF OneOff
<1>1. PICK h \in LongWord : h = FromInt(n, 8)
  BY LongFromInt
<1>2. MurmurHash2_64A(s, h) # MurmurHash2_64A(t, h)
  BY MurmurHash2_64ATells
<1> QED BY <1>0, <1>1, <1>2, Zenon DEF HashM

(* The input and the input with a byte changed.                            *)
LEMMA ChangedTells ==
  ASSUME input \in Seq(Byte), NEW k \in DOMAIN input, NEW b \in Byte, b # input[k]
  PROVE  Changed(k, b) \in Seq(Byte) /\ OneOff(input, Changed(k, b))
<1>1. Len(input) \in Nat /\ k \in 1 .. Len(input)
  BY ByteSeq
<1>2. PICK t : t = [input EXCEPT ![k] = b]
  OBVIOUS
<1>3. /\ t \in Seq(Byte) /\ Len(t) = Len(input)
      /\ \A j \in 1 .. Len(input) : t[j] = IF j = k THEN b ELSE input[j]
  <2>1. input \in Seq(Byte) /\ b \in Byte
    OBVIOUS
  <2> HIDE DEF Byte
  <2> QED BY <1>1, <1>2, <2>1, ExceptSeq
<1>4. OneOff(input, t)
  BY <1>1, <1>3 DEF OneOff, OnlyAt
<1> QED BY <1>2, <1>3, <1>4 DEF Changed

LEMMA EveryHashTells ==
  ASSUME input \in Seq(Byte), seed \in Word, NEW long \in LongWord,
         NEW t \in Seq(Byte), OneOff(input, t)
  PROVE  Differ(AllHashes(input, long), AllHashes(t, long))
<1>1. /\ MurmurHash2(input, seed) # MurmurHash2(t, seed)
      /\ MurmurHash2A(input, seed) # MurmurHash2A(t, seed)
      /\ Hash(input, seed) # Hash(t, seed)
      /\ HashM(input) # HashM(t)
      /\ MurmurHash2_64A(input, long) # MurmurHash2_64A(t, long)
      /\ MurmurHash2_64B(input, long) # MurmurHash2_64B(t, long)
  BY MurmurHash2Tells, MurmurHash2ATells, HashTells, HashMTells, MurmurHash2_64ATells,
     MurmurHash2_64BTells
<1>2. DOMAIN AllHashes(input, long) = 1 .. 6
  BY DEF AllHashes
<1>3. ASSUME NEW n \in 1 .. 6 PROVE AllHashes(input, long)[n] # AllHashes(t, long)[n]
  BY <1>1 DEF AllHashes
<1> QED BY <1>2, <1>3 DEF Differ

LEMMA InvGivesTelling == StreamInv => EveryByteTells
<1> SUFFICES ASSUME StreamInv, NEW long \in LongSeeds, NEW k \in DOMAIN input,
                    NEW b \in OtherBytes \ {input[k]}
             PROVE  Differ(AllHashes(input, long), AllHashes(Changed(k, b), long))
  BY Zenon DEF EveryByteTells
<1>1. input \in Seq(Byte) /\ seed \in Word
  BY DEF StreamInv, Given
<1>2. b \in Byte /\ b # input[k]
  BY InputsAssumption
<1>3. long \in LongWord
  BY InputsAssumption DEF LongWord, W
<1>4. Changed(k, b) \in Seq(Byte) /\ OneOff(input, Changed(k, b))
  BY <1>1, <1>2, ChangedTells
<1> QED BY <1>1, <1>3, <1>4, EveryHashTells

(* murmurhash2.cc and hash_utils.cc: no byte of an input is left out.      *)
(* Inputs that differ in one byte, by whatever amount, have different      *)
(* hashes, of every length and with every seed: the 32-bit and the         *)
(* incremental hash and Hash with every seed of 32 bits, both 64-bit       *)
(* hashes with every seed of 64 bits, and HashM, which seeds with the      *)
(* length.                                                                 *)
THEOREM EveryByteAlwaysTells == StreamSpec => []EveryByteTells
BY StreamInvHolds, InvGivesTelling, PTL
=============================================================================
