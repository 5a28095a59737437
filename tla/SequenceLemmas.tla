--------------------------- MODULE SequenceLemmas ---------------------------
(***************************************************************************)
(* Facts about naturals, prefixes, and FlattenSeq of the community modules *)
(* that several of the proofs need.  What is said of every length is       *)
(* proved from a least length for which it fails.                          *)
(***************************************************************************)
EXTENDS Integers, SequencesExt, SequenceTheorems, FiniteSetTheorems, WellFoundedInduction,
        TLAPS

(* A set of naturals has a least element: the least initial segment 0 .. x *)
(* of the naturals, by the order of finite sets.                           *)
LEMMA LeastElement ==
  ASSUME NEW T \in SUBSET Nat, T # {}
  PROVE  \E x \in T : \A y \in T : x <= y
<1> DEFINE Upto == {0 .. x : x \in T}
<1>1. IsWellFoundedOn(StrictSubsetOrdering(Nat), FiniteSubsetsOf(Nat))
  BY FS_StrictSubsetOrderingWellFounded
<1>2. Upto \subseteq FiniteSubsetsOf(Nat) /\ Upto # {}
  <2>1. ASSUME NEW x \in T PROVE 0 .. x \in FiniteSubsetsOf(Nat)
    BY FS_Interval DEF FiniteSubsetsOf
  <2> QED BY <2>1
<1>3. PICK I \in Upto : \A J \in Upto : <<J, I>> \notin StrictSubsetOrdering(Nat)
  <2> HIDE DEF Upto
  <2> QED BY <1>1, <1>2, WFMin
<1>4. PICK x \in T : I = 0 .. x
  OBVIOUS
<1>5. ASSUME NEW y \in T, y < x PROVE FALSE
  <2>1. 0 .. y \in Upto
    OBVIOUS
  <2>2. 0 .. y \subseteq 0 .. x /\ x \in 0 .. x /\ x \notin 0 .. y
    BY <1>5
  <2>3. <<0 .. y, 0 .. x>> \in StrictSubsetOrdering(Nat)
    BY <2>2 DEF StrictSubsetOrdering
  <2> QED BY <1>3, <1>4, <2>1, <2>3
<1> QED BY <1>5

(* Hence a property of 0 that passes on to the successor holds of all: the *)
(* set of the naturals that have it is Nat.                                *)
LEMMA AllNaturals ==
  ASSUME NEW P \in SUBSET Nat, 0 \in P, \A n \in P : n + 1 \in P
  PROVE  P = Nat
<1> SUFFICES ASSUME P # Nat PROVE FALSE
  OBVIOUS
<1>1. PICK n \in Nat \ P : \A m \in Nat \ P : n <= m
  BY LeastElement
<1>2. n - 1 \in P
  BY <1>1
<1> QED BY <1>1, <1>2

LEMMA LeastOfSet ==
  ASSUME NEW T \in SUBSET Nat, T # {}
  PROVE  Min(T) \in T /\ \A y \in T : Min(T) <= y
BY LeastElement DEF Min

LEMMA PrefixElements ==
  ASSUME NEW S, NEW s \in Seq(S), NEW t \in Seq(S)
  PROVE  IsPrefix(s, t) <=> Len(s) <= Len(t) /\ \A k \in 1 .. Len(s) : s[k] = t[k]
BY DEF IsPrefix

LEMMA JoinAssociates == \A S : \A r, t, u \in Seq(S) : (r \o t) \o u = r \o (t \o u)
<1> TAKE S
<1> TAKE r, t, u \in Seq(S)
<1> QED BY ConcatAssociative, SMTT(30)

(* What FlattenSeq defines recursively: f[n] joins the first n sequences.  *)
Joins(ss, f) == f = [i \in 1 .. Len(ss) |-> IF i = 1 THEN ss[i] ELSE f[i - 1] \o ss[i]]

LEMMA JoinsExists ==
  ASSUME NEW S, NEW ss \in Seq(Seq(S))
  PROVE  \E f \in [1 .. Len(ss) -> Seq(S)] : Joins(ss, f)
<1> DEFINE Upto(n, f) == \A i \in 1 .. n : f[i] = IF i = 1 THEN ss[i] ELSE f[i - 1] \o ss[i]
           P == {n \in Nat : n <= Len(ss) => \E f \in [1 .. n -> Seq(S)] : Upto(n, f)}
<1>1. 0 \in P
  <2>1. 1 .. 0 = {}
    OBVIOUS
  <2>2. [i \in {} |-> <<>>] \in [1 .. 0 -> Seq(S)] /\ Upto(0, [i \in {} |-> <<>>])
    BY <2>1
  <2> HIDE DEF Upto
  <2> QED BY <2>2
<1>2. ASSUME NEW n \in P, n + 1 <= Len(ss) PROVE \E f \in [1 .. n + 1 -> Seq(S)] : Upto(n + 1, f)
  <2>1. n \in Nat /\ Len(ss) \in Nat /\ ss[n + 1] \in Seq(S)
    BY <1>2
  <2>2. PICK f \in [1 .. n -> Seq(S)] : Upto(n, f)
    <3> HIDE DEF Upto
    <3> QED BY <1>2, <2>1
  <2> DEFINE last == IF n = 0 THEN ss[n + 1] ELSE f[n] \o ss[n + 1]
             g == [i \in 1 .. n + 1 |-> IF i = n + 1 THEN last ELSE f[i]]
  <2>3. last \in Seq(S)
    <3>1. CASE n = 0
      BY <3>1, <2>1
    <3>2. CASE n # 0
      <4>1. f[n] \in Seq(S)
        BY <3>2, <2>1
      <4> QED BY <4>1, <3>2, <2>1, ConcatProperties
    <3> QED BY <3>1, <3>2
  <2>4. g \in [1 .. n + 1 -> Seq(S)]
    <3> HIDE DEF last
    <3> QED BY <2>1, <2>3
  <2>5. Upto(n + 1, g)
    <3> SUFFICES ASSUME NEW i \in 1 .. n + 1
                 PROVE  g[i] = IF i = 1 THEN ss[i] ELSE g[i - 1] \o ss[i]
      OBVIOUS
    <3>1. CASE i = n + 1
      BY <3>1, <2>1
    <3>2. CASE i \in 1 .. n
      <4>1. g[i] = f[i] /\ (i # 1 => i - 1 \in 1 .. n /\ g[i - 1] = f[i - 1])
        <5> HIDE DEF last
        <5> QED BY <3>2, <2>1
      <4>2. f[i] = IF i = 1 THEN ss[i] ELSE f[i - 1] \o ss[i]
        BY <3>2, <2>2
      <4> HIDE DEF g
      <4>3. CASE i = 1
        BY <4>1, <4>2, <4>3
      <4>4. CASE i # 1
        BY <4>1, <4>2, <4>4
      <4> QED BY <4>3, <4>4
    <3> QED BY <3>1, <3>2, <2>1
  <2> QED BY <2>4, <2>5
<1>3. \A n \in P : n + 1 \in P
  <2> HIDE DEF Upto
  <2> QED BY <1>2
<1>4. P = Nat
  <2> HIDE DEF P
  <2>1. P \in SUBSET Nat
    BY DEF P
  <2> QED BY <1>1, <1>3, <2>1, AllNaturals
<1>5. PICK f \in [1 .. Len(ss) -> Seq(S)] : Upto(Len(ss), f)
  <2>1. Len(ss) \in P
    <3> HIDE DEF P
    <3> QED BY <1>4, LenProperties
  <2> QED BY <2>1
<1> QED BY <1>5 DEF Joins

(* Where two lists of sequences agree, they join to the same.              *)
LEMMA JoinsAgree ==
  ASSUME NEW ss, NEW tt, Len(ss) \in Nat, Len(tt) \in Nat,
         NEW f, NEW g, Joins(ss, f), Joins(tt, g),
         NEW n \in Nat, n <= Len(ss), n <= Len(tt), \A i \in 1 .. n : ss[i] = tt[i]
  PROVE  \A i \in 1 .. n : f[i] = g[i]
<1> DEFINE P == {i \in Nat : i \in 1 .. n => f[i] = g[i]}
<1>1. ASSUME NEW i \in 1 .. n
      PROVE  /\ f[i] = IF i = 1 THEN ss[i] ELSE f[i - 1] \o ss[i]
             /\ g[i] = IF i = 1 THEN ss[i] ELSE g[i - 1] \o ss[i]
  <2>1. i \in 1 .. Len(ss) /\ i \in 1 .. Len(tt) /\ ss[i] = tt[i]
    OBVIOUS
  <2> QED BY <2>1 DEF Joins
<1>2. ASSUME NEW i \in P PROVE i + 1 \in P
  <2> SUFFICES ASSUME i + 1 \in 1 .. n PROVE f[i + 1] = g[i + 1]
    OBVIOUS
  <2>1. i \in Nat /\ (i + 1) - 1 = i /\ ss[i + 1] = tt[i + 1]
    OBVIOUS
  <2>2. i + 1 # 1 => f[i] = g[i]
    BY <2>1
  <2> HIDE DEF P
  <2> QED BY <1>1, <2>1, <2>2
<1>3. P = Nat
  <2> HIDE DEF P
  <2>1. P \in SUBSET Nat /\ 0 \in P
    BY DEF P
  <2> QED BY <1>2, <2>1, AllNaturals
<1>4. ASSUME NEW i \in 1 .. n PROVE i \in P
  <2> HIDE DEF P
  <2> QED BY <1>3
<1> QED BY <1>4

LEMMA FlattenJoins ==
  ASSUME NEW S, NEW ss \in Seq(Seq(S)), ss # <<>>, NEW f, Joins(ss, f)
  PROVE  FlattenSeq(ss) = f[Len(ss)]
<1>1. FlattenSeq(ss) = (CHOOSE g : Joins(ss, g))[Len(ss)]
  BY DEF FlattenSeq, Joins
<1> DEFINE g == CHOOSE h : Joins(ss, h)
<1>2. Joins(ss, g)
  OBVIOUS
<1> HIDE DEF g
<1>3. Len(ss) \in Nat /\ Len(ss) \in 1 .. Len(ss)
  BY EmptySeq
<1>4. \A i \in 1 .. Len(ss) : f[i] = g[i]
  BY <1>2, <1>3, JoinsAgree
<1> QED BY <1>1, <1>3, <1>4 DEF g

(* FlattenSeq joins sequences from left to right.                          *)
LEMMA FlattenEmpty == FlattenSeq(<<>>) = <<>>
<1>1. Len(<<>>) = 0
  OBVIOUS
<1> QED BY <1>1 DEF FlattenSeq

LEMMA FlattenTyped ==
  ASSUME NEW S, NEW ss \in Seq(Seq(S))
  PROVE  FlattenSeq(ss) \in Seq(S)
<1>1. CASE ss = <<>>
  BY <1>1, FlattenEmpty, EmptySeq
<1>2. CASE ss # <<>>
  <2>1. PICK f \in [1 .. Len(ss) -> Seq(S)] : Joins(ss, f)
    BY JoinsExists
  <2>2. Len(ss) \in 1 .. Len(ss)
    BY <1>2, EmptySeq
  <2>3. FlattenSeq(ss) = f[Len(ss)]
    BY <1>2, <2>1, FlattenJoins
  <2> QED BY <2>1, <2>2, <2>3
<1> QED BY <1>1, <1>2

LEMMA JoinsLonger ==
  ASSUME NEW ss, NEW tt, NEW f, NEW g, Joins(ss, f), Joins(tt, g),
         Len(ss) \in Nat \ {0}, Len(tt) = Len(ss) + 1, \A i \in 1 .. Len(ss) : tt[i] = ss[i]
  PROVE  g[Len(tt)] = f[Len(ss)] \o tt[Len(tt)]
<1>1. \A i \in 1 .. Len(ss) : f[i] = g[i]
  BY JoinsAgree, SMTT(30)
<1>2. f[Len(ss)] = g[Len(ss)] /\ Len(tt) \in 1 .. Len(tt) /\ Len(tt) # 1 /\ Len(tt) - 1 = Len(ss)
  BY <1>1
<1>3. g[Len(tt)] = IF Len(tt) = 1 THEN tt[Len(tt)] ELSE g[Len(tt) - 1] \o tt[Len(tt)]
  BY <1>2 DEF Joins
<1> QED BY <1>2, <1>3

LEMMA FlattenAppend ==
  ASSUME NEW S, NEW ss \in Seq(Seq(S)), NEW s \in Seq(S)
  PROVE  FlattenSeq(Append(ss, s)) = FlattenSeq(ss) \o s
<1>0. PICK tt : tt = Append(ss, s)
  OBVIOUS
<1>1. /\ tt \in Seq(Seq(S)) /\ tt # <<>> /\ Len(tt) = Len(ss) + 1 /\ tt[Len(tt)] = s
      /\ \A i \in 1 .. Len(ss) : tt[i] = ss[i]
  BY <1>0, AppendProperties
<1>2. PICK g : Joins(tt, g)
  BY <1>1, JoinsExists
<1>3. FlattenSeq(tt) = g[Len(tt)]
  BY <1>1, <1>2, FlattenJoins
<1>4. Len(ss) \in Nat /\ Len(tt) \in 1 .. Len(tt)
  BY <1>1, LenProperties
<1>5. g[Len(tt)] = IF Len(tt) = 1 THEN s ELSE g[Len(tt) - 1] \o s
  BY <1>1, <1>2, <1>4 DEF Joins
<1>6. CASE ss = <<>>
  BY <1>0, <1>1, <1>3, <1>5, <1>6, FlattenEmpty, EmptySeq, ConcatEmptySeq
<1>7. CASE ss # <<>>
  <2>1. PICK f : Joins(ss, f)
    BY JoinsExists
  <2>2. FlattenSeq(ss) = f[Len(ss)]
    BY <1>7, <2>1, FlattenJoins
  <2>3. Len(ss) \in Nat \ {0}
    BY <1>7, EmptySeq
  <2>4. g[Len(tt)] = f[Len(ss)] \o tt[Len(tt)]
    BY <1>1, <1>2, <2>1, <2>3, JoinsLonger
  <2> QED BY <1>0, <1>1, <1>3, <2>2, <2>4
<1> QED BY <1>6, <1>7

(* Joining nothing but empty sequences leaves nothing.                     *)
LEMMA FlattenNothing ==
  ASSUME NEW S, NEW ss \in Seq(Seq(S)), \A i \in 1 .. Len(ss) : ss[i] = <<>>
  PROVE  FlattenSeq(ss) = <<>>
<1>1. PICK f \in [1 .. Len(ss) -> Seq(S)] : Joins(ss, f)
  BY JoinsExists
<1> DEFINE P == {i \in Nat : i \in 1 .. Len(ss) => f[i] = <<>>}
<1>2. ASSUME NEW i \in P PROVE i + 1 \in P
  <2> SUFFICES ASSUME i + 1 \in 1 .. Len(ss) PROVE f[i + 1] = <<>>
    OBVIOUS
  <2>0. i \in Nat /\ (i \in 1 .. Len(ss) => f[i] = <<>>)
    OBVIOUS
  <2> HIDE DEF P
  <2>1. ss[i + 1] = <<>> /\ (i + 1) - 1 = i
    BY <2>0
  <2>4. f[i + 1] = IF i + 1 = 1 THEN ss[i + 1] ELSE f[(i + 1) - 1] \o ss[i + 1]
    BY <1>1 DEF Joins
  <2>2. CASE i = 0
    BY <2>1, <2>2, <2>4
  <2>3. CASE i # 0
    <3>1. f[i] = <<>>
      BY <2>0, <2>3, LenProperties
    <3> QED BY <2>0, <2>1, <2>3, <2>4, <3>1
  <2> QED BY <2>2, <2>3
<1>3. P = Nat
  <2> HIDE DEF P
  <2>1. P \in SUBSET Nat /\ 0 \in P
    BY DEF P
  <2> QED BY <1>2, <2>1, AllNaturals
<1>4. CASE ss = <<>>
  BY <1>4, FlattenEmpty
<1>5. CASE ss # <<>>
  <2>1. Len(ss) \in Nat /\ Len(ss) \in 1 .. Len(ss)
    BY <1>5, EmptySeq
  <2>2. FlattenSeq(ss) = f[Len(ss)]
    BY <1>1, <1>5, FlattenJoins
  <2>3. Len(ss) \in P
    <3> HIDE DEF P
    <3> QED BY <1>3, <2>1
  <2> QED BY <2>1, <2>2, <2>3
<1> QED BY <1>4, <1>5

----------------------------------------------------------------------------
(* FoldLeft of the community modules, step by step *)

(* A property of positions that starts at 0 and goes on holds of all.      *)
LEMMA ByPositions ==
  ASSUME NEW n \in Nat, NEW T \in SUBSET (0 .. n), 0 \in T, \A k \in 1 .. n : k - 1 \in T => k \in T
  PROVE  T = 0 .. n
<1> DEFINE P == {k \in Nat : k <= n => k \in T}
<1>1. 0 \in P /\ P \subseteq Nat
  OBVIOUS
<1>2. ASSUME NEW k \in P PROVE k + 1 \in P
  OBVIOUS
<1>3. P = Nat
  <2> HIDE DEF P
  <2> QED BY <1>1, <1>2, AllNaturals
<1>4. ASSUME NEW k \in 0 .. n PROVE k \in T
  <2>1. k \in P
    BY <1>3
  <2> QED BY <2>1
<1> QED BY <1>4

LEMMA PrefixSets ==
  ASSUME NEW n \in Nat, NEW k \in 1 .. n
  PROVE  1 .. k \in SUBSET (1 .. n) /\ 1 .. k # {}
<1>1. \A x \in 1 .. k : x \in 1 .. n
  OBVIOUS
<1>2. 1 \in 1 .. k
  OBVIOUS
<1> QED BY <1>1, <1>2

LEMMA MaxOfSet ==
  ASSUME NEW n \in Nat, NEW t \in SUBSET (1 .. n), t # {}
  PROVE  Max(t) \in t
<1> DEFINE T == {n - x : x \in t}
<1>0. \A x \in t : x \in 1 .. n
  OBVIOUS
<1>1. T \in SUBSET Nat /\ T # {}
  <2>1. \A x \in t : n - x \in Nat
    BY <1>0
  <2>2. \E x \in t : n - x \in T
    OBVIOUS
  <2> QED BY <2>1, <2>2
<1>2. PICK y \in T : \A z \in T : y <= z
  <2> HIDE DEF T
  <2> QED BY <1>1, LeastElement
<1>3. PICK x \in t : y = n - x
  OBVIOUS
<1>4. \A z \in t : x >= z
  <2> TAKE z \in t
  <2>1. n - z \in T
    OBVIOUS
  <2>2. y <= n - z /\ x \in Nat /\ z \in Nat
    BY <1>0, <1>2, <2>1
  <2> QED BY <1>3, <2>2
<1> QED BY <1>4 DEF Max

LEMMA MaxOfInterval ==
  ASSUME NEW k \in Nat \ {0}
  PROVE  Max(1 .. k) = k /\ (1 .. k) \ {k} = 1 .. (k - 1)
<1>1. \A x \in 1 .. k : (\A y \in 1 .. k : x >= y) => x = k
  OBVIOUS
<1>2. k \in 1 .. k /\ \A y \in 1 .. k : k >= y
  OBVIOUS
<1> QED BY <1>1, <1>2 DEF Max

(* FoldLeft goes through the sets of positions, from the last one down.    *)
(* SetFold is its equation, for an operation given as a function.          *)
SetFold(c, G, b, s) ==
  /\ c[{}] = b
  /\ \A t \in SUBSET (1 .. Len(s)) : t # {} => c[t] = G[<<c[t \ {Max(t)}], s[Max(t)]>>]

LEMMA SetFoldExists ==
  ASSUME NEW S, NEW X, NEW G \in [S \X X -> S], NEW b \in S, NEW s \in Seq(X)
  PROVE  \E c \in [SUBSET (1 .. Len(s)) -> S] : SetFold(c, G, b, s)
<1> DEFINE Next(c, t) == IF t = {} THEN b ELSE G[<<c[t \ {Max(t)}], s[Max(t)]>>]
           Upto(n, c) == \A t \in SUBSET (1 .. n) : c[t] = Next(c, t)
           Exist(n) == \E c \in [SUBSET (1 .. n) -> S] : Upto(n, c)
           P == {n \in Nat : n <= Len(s) => Exist(n)}
<1>1. 0 \in P
  <2>1. \A t \in SUBSET (1 .. 0) : t = {}
    OBVIOUS
  <2> DEFINE c == [t \in SUBSET (1 .. 0) |-> b]
  <2>2. c \in [SUBSET (1 .. 0) -> S] /\ Upto(0, c)
    BY <2>1
  <2> HIDE DEF Upto, c
  <2> QED BY <2>2
<1>2. ASSUME NEW n \in P, n + 1 <= Len(s)
      PROVE  Exist(n + 1)
  <2>0. n \in Nat /\ n + 1 <= Len(s) /\ n <= Len(s) /\ Len(s) \in Nat
    BY <1>2
  <2>1. PICK c \in [SUBSET (1 .. n) -> S] : Upto(n, c)
    BY <2>0
  <2> DEFINE d == [t \in SUBSET (1 .. n + 1) |->
                     IF n + 1 \in t THEN G[<<c[t \ {n + 1}], s[n + 1]>>] ELSE c[t]]
  <2>2. ASSUME NEW t \in SUBSET (1 .. n + 1), n + 1 \notin t
        PROVE  d[t] \in S /\ d[t] = Next(d, t)
    <3>0. t \in SUBSET (1 .. n)
      BY <2>0, <2>2
    <3>1. t \in SUBSET (1 .. n) /\ d[t] = c[t] /\ c[t] = Next(c, t)
      BY <2>1, <2>2, <3>0
    <3>2. t # {} => t \ {Max(t)} \in SUBSET (1 .. n + 1) /\ n + 1 \notin t \ {Max(t)}
      BY <2>2
    <3>3. t # {} => d[t \ {Max(t)}] = c[t \ {Max(t)}]
      BY <3>2
    <3>4. Next(d, t) = Next(c, t)
      BY <3>3
    <3> QED BY <2>1, <3>1, <3>4
  <2>3. ASSUME NEW t \in SUBSET (1 .. n + 1), n + 1 \in t
        PROVE  d[t] \in S /\ d[t] = Next(d, t)
    <3>1. Max(t) = n + 1
      <4>1. \A y \in t : n + 1 >= y
        BY <2>0
      <4>2. \A x \in t : (\A y \in t : x >= y) => x = n + 1
        BY <2>0, <2>3, <4>1
      <4> QED BY <2>3, <4>1, <4>2 DEF Max
    <3>2. t \ {n + 1} \in SUBSET (1 .. n) /\ t \ {n + 1} \in SUBSET (1 .. n + 1)
      BY <2>0
    <3>3. d[t \ {n + 1}] = c[t \ {n + 1}] /\ c[t \ {n + 1}] \in S
      BY <2>1, <3>2
    <3>5. s[n + 1] \in X
      BY <2>0
    <3>4. d[t] = G[<<c[t \ {n + 1}], s[n + 1]>>]
      BY <2>3
    <3> QED BY <2>3, <3>1, <3>3, <3>4, <3>5
  <2>4. d \in [SUBSET (1 .. n + 1) -> S]
    <3>1. \A t \in SUBSET (1 .. n + 1) : d[t] \in S
      BY <2>2, <2>3
    <3> QED BY <3>1
  <2>5. Upto(n + 1, d)
    BY <2>2, <2>3
  <2> QED BY <2>4, <2>5
<1>3. P = Nat
  <2> HIDE DEF Exist
  <2>1. \A n \in P : n + 1 \in P
    BY <1>2
  <2> HIDE DEF P
  <2>2. P \in SUBSET Nat
    BY DEF P
  <2> QED BY <1>1, <2>1, <2>2, AllNaturals
<1>4. PICK c \in [SUBSET (1 .. Len(s)) -> S] : Upto(Len(s), c)
  <2>0. Len(s) \in Nat /\ Len(s) <= Len(s)
    OBVIOUS
  <2>1. Len(s) \in P
    <3> HIDE DEF P
    <3> QED BY <1>3, <2>0
  <2>2. Exist(Len(s))
    <3> HIDE DEF Exist
    <3> QED BY <2>0, <2>1
  <2> QED BY <2>2
<1> QED BY <1>4 DEF SetFold

LEMMA BelowMax ==
  ASSUME NEW S, NEW X, NEW s \in Seq(X), NEW c \in [SUBSET (1 .. Len(s)) -> S],
         NEW t \in SUBSET (1 .. Len(s)), t # {}
  PROVE  c[t \ {Max(t)}] \in S /\ s[Max(t)] \in X
<1>0. \A x \in t \ {Max(t)} : x \in 1 .. Len(s)
  OBVIOUS
<1>1. Len(s) \in Nat
  OBVIOUS
<1>5. t \ {Max(t)} \in SUBSET (1 .. Len(s))
  BY <1>0, Zenon
<1>2. Max(t) \in t
  BY <1>1, MaxOfSet
<1>3. Max(t) \in 1 .. Len(s)
  BY <1>2
<1>4. s[Max(t)] \in X
  BY <1>3
<1> QED BY <1>4, <1>5

(* The same step by step: v[k] is the fold of the first k elements.        *)
FoldSteps(v, G, b, s, result) ==
  /\ v[0] = b /\ \A k \in 1 .. Len(s) : v[k] = G[<<v[k - 1], s[k]>>]
  /\ result = v[Len(s)]

(* The equation where the values below are known to be of a type.          *)
TypedFold(c, G, b, s, S) ==
  /\ c[{}] = b
  /\ \A t \in SUBSET (1 .. Len(s)) : t # {} /\ c[t \ {Max(t)}] \in S
                                      => c[t] = G[<<c[t \ {Max(t)}], s[Max(t)]>>]

LEMMA TypedFoldSteps ==
  ASSUME NEW S, NEW X, NEW G \in [S \X X -> S], NEW b \in S, NEW s \in Seq(X), NEW c, TypedFold(c, G, b, s, S)
  PROVE  \E v \in [0 .. Len(s) -> S] : FoldSteps(v, G, b, s, c[1 .. Len(s)])
<1> DEFINE v == [k \in 0 .. Len(s) |-> c[1 .. k]]
           T == {k \in 0 .. Len(s) : v[k] \in S}
<1>0. Len(s) \in Nat /\ 0 \in 0 .. Len(s) /\ Len(s) \in 0 .. Len(s)
  OBVIOUS
<1>1. v[0] = b
  <2>1. 1 .. 0 = {}
    OBVIOUS
  <2> QED BY <1>0, <2>1 DEF TypedFold
<1>2. ASSUME NEW k \in 1 .. Len(s), v[k - 1] \in S PROVE v[k] \in S /\ v[k] = G[<<v[k - 1], s[k]>>]
  <2>1. k \in Nat \ {0} /\ k - 1 \in 0 .. Len(s) /\ k \in 0 .. Len(s)
    BY <1>0
  <2>2. /\ 1 .. k \in SUBSET (1 .. Len(s)) /\ 1 .. k # {}
        /\ Max(1 .. k) = k /\ (1 .. k) \ {k} = 1 .. (k - 1)
    BY <1>0, <2>1, PrefixSets, MaxOfInterval
  <2>3. c[1 .. k] = G[<<c[1 .. (k - 1)], s[k]>>]
    BY <1>2, <2>1, <2>2 DEF TypedFold
  <2>4. s[k] \in X
    OBVIOUS
  <2> QED BY <1>2, <2>1, <2>3, <2>4
<1>3. T = 0 .. Len(s)
  <2> HIDE DEF v
  <2>1. 0 \in T /\ T \subseteq 0 .. Len(s)
    BY <1>0, <1>1
  <2>2. ASSUME NEW k \in 1 .. Len(s), k - 1 \in T PROVE k \in T
    <3>1. k \in 0 .. Len(s) /\ v[k - 1] \in S
      BY <1>0, <2>2
    <3> QED BY <1>2, <3>1
  <2> HIDE DEF T
  <2> QED BY <1>0, <2>1, <2>2, ByPositions
<1>4. v \in [0 .. Len(s) -> S]
  BY <1>3
<1>5. c[1 .. Len(s)] = v[Len(s)]
  BY <1>0
<1>6. ASSUME NEW k \in 1 .. Len(s) PROVE v[k] = G[<<v[k - 1], s[k]>>]
  <2>1. k - 1 \in 0 .. Len(s)
    BY <1>0
  <2>2. v[k - 1] \in S
    <3> HIDE DEF v
    <3> QED BY <1>4, <2>1
  <2> QED BY <1>2, <2>2
<1> HIDE DEF v
<1> QED BY <1>1, <1>4, <1>5, <1>6 DEF FoldSteps
============================================================================
