-------------------------- MODULE EncodeScanProofs --------------------------
(***************************************************************************)
(* The scan loop loses no byte and finds the special tokens its definition *)
(* names, for any text, any vocabulary and any order in which the regex    *)
(* alternates the special tokens.                                          *)
(***************************************************************************)
EXTENDS EncodeScan, SequenceLemmas

----------------------------------------------------------------------------
(* The greedy definition, of a text t and a set A of tokens *)

OccursIn(t, s, p) == p + Len(s) <= Len(t) /\ SubSeq(t, p + 1, p + Len(s)) = s
FromIn(t, A, p)   == {q \in p .. Len(t) : \E s \in A : OccursIn(t, s, q)}
First(t, A, p)    == Min(FromIn(t, A, p))
TokenAt(t, A, q)  == CHOOSE s \in A : OccursIn(t, s, q)
EndAt(t, A, q)    == q + Len(TokenAt(t, A, q))
Longer(t, A, p, g) ==
  LET q == First(t, A, p) IN <<Span(q, EndAt(t, A, q))>> \o g[EndAt(t, A, q)]
Rest(t, A, p, g)   == IF FromIn(t, A, p) = {} THEN <<>> ELSE Longer(t, A, p, g)
IsGreedy(t, A, g)  == g = [p \in 0 .. Len(t) |-> Rest(t, A, p, g)]
GreedyIn(t, A)     == CHOOSE g : IsGreedy(t, A, g)

Spans == Seq(Nat \X Nat)

LEMMA FirstIsOne ==
  ASSUME NEW t \in Seq(Byte), NEW A \in SUBSET (Seq(Byte) \ {<<>>}),
         NEW p \in Nat, FromIn(t, A, p) # {}
  PROVE  /\ First(t, A, p) \in Nat /\ p <= First(t, A, p)
         /\ First(t, A, p) \in FromIn(t, A, p)
         /\ \A r \in FromIn(t, A, p) : First(t, A, p) <= r
         /\ TokenAt(t, A, First(t, A, p)) \in A
         /\ OccursIn(t, TokenAt(t, A, First(t, A, p)), First(t, A, p))
         /\ EndAt(t, A, First(t, A, p)) \in Nat
         /\ First(t, A, p) < EndAt(t, A, First(t, A, p))
         /\ EndAt(t, A, First(t, A, p)) <= Len(t)
<1> DEFINE q == First(t, A, p)
           s == TokenAt(t, A, q)
<1>1. q \in FromIn(t, A, p) /\ \A r \in FromIn(t, A, p) : q <= r
  <2>1. FromIn(t, A, p) \in SUBSET Nat
    BY DEF FromIn
  <2> QED BY <2>1, LeastOfSet DEF First
<1>2. q \in Nat /\ q >= p /\ \E r \in A : OccursIn(t, r, q)
  BY <1>1 DEF FromIn
<1>3. s \in A /\ OccursIn(t, s, q)
  <2> HIDE DEF q
  <2> QED BY <1>2 DEF TokenAt
<1>4. Len(s) \in Nat /\ Len(s) > 0
  <2>1. s \in Seq(Byte) /\ s # <<>>
    BY <1>3
  <2> QED BY <2>1, EmptySeq
<1>5. q + Len(s) <= Len(t)
  BY <1>3 DEF OccursIn
<1> HIDE DEF q, s
<1>6. q + Len(s) \in Nat /\ q < q + Len(s)
  BY <1>2, <1>4
<1> QED BY <1>1, <1>2, <1>3, <1>5, <1>6 DEF q, s, EndAt

LEMMA GreedyExists ==
  ASSUME NEW t \in Seq(Byte), NEW A \in SUBSET (Seq(Byte) \ {<<>>})
  PROVE  \E g : IsGreedy(t, A, g)
<1> DEFINE L == Len(t)
           Down(n, g) == \A p \in 0 .. L : L < p + n => g[p] = Rest(t, A, p, g)
           P == {n \in Nat : \E g : Down(n, g)}
<1>1. L \in Nat
  BY LenProperties
<1>2. 0 \in P
  <2>1. Down(0, <<>>)
    BY <1>1
  <2> QED BY <2>1
<1>3. ASSUME NEW n \in P PROVE n + 1 \in P
  <2>1. n \in Nat
    OBVIOUS
  <2>2. PICK g : Down(n, g)
    OBVIOUS
  <2> DEFINE h == [p \in 0 .. L |-> IF L < p + n THEN g[p] ELSE Rest(t, A, p, g)]
  <2> HIDE DEF L, P, Down
  <2>3. ASSUME NEW p \in 0 .. L PROVE h[p] = Rest(t, A, p, g)
    BY <2>2 DEF Down
  <2> HIDE DEF h
  <2>4. ASSUME NEW p \in 0 .. L, L < p + n + 1 PROVE h[p] = Rest(t, A, p, h)
    <3>1. CASE FromIn(t, A, p) = {}
      BY <2>3, <3>1 DEF Rest
    <3>2. CASE FromIn(t, A, p) # {}
      <4> DEFINE q == First(t, A, p)
                 e == EndAt(t, A, q)
      <4>0. p \in Nat
        BY <1>1
      <4>1. q \in Nat /\ e \in Nat /\ p <= q /\ q < e /\ e <= L
        BY <4>0, <3>2, FirstIsOne DEF L
      <4> HIDE DEF q, e
      <4>2. e \in 0 .. L /\ L < e + n
        BY <1>1, <2>1, <2>4, <4>1
      <4>3. h[e] = g[e]
        BY <2>2, <2>3, <4>2 DEF Down
      <4> QED BY <2>3, <3>2, <4>3 DEF Rest, Longer, q, e
    <3> QED BY <3>1, <3>2
  <2>5. Down(n + 1, h)
    BY <1>1, <2>1, <2>4 DEF Down
  <2> QED BY <2>1, <2>5 DEF P
<1>4. L + 1 \in P
  <2>1. P \in SUBSET Nat
    OBVIOUS
  <2> HIDE DEF P, L
  <2>2. P = Nat
    BY <1>2, <1>3, <2>1, AllNaturals
  <2> QED BY <1>1, <2>2
<1>5. PICK g : Down(L + 1, g)
  BY <1>4
<1> DEFINE h == [p \in 0 .. L |-> g[p]]
<1>6. ASSUME NEW p \in 0 .. L PROVE h[p] = g[p] /\ g[p] = Rest(t, A, p, g)
  BY <1>1, <1>5
<1> HIDE DEF Down, P
<1>7. ASSUME NEW p \in 0 .. L PROVE Rest(t, A, p, h) = Rest(t, A, p, g)
  <2>1. CASE FromIn(t, A, p) = {}
    BY <2>1 DEF Rest
  <2>2. CASE FromIn(t, A, p) # {}
    <3> DEFINE q == First(t, A, p)
               e == EndAt(t, A, q)
    <3>0. p \in Nat
      BY <1>1
    <3>1. q \in Nat /\ e \in Nat /\ p <= q /\ q < e /\ e <= L
      BY <3>0, <2>2, FirstIsOne
    <3> HIDE DEF q, e, L, h
    <3>2. h[e] = g[e]
      BY <1>1, <1>6, <3>1
    <3> QED BY <2>2, <3>2 DEF Rest, Longer, q, e
  <2> QED BY <2>1, <2>2
<1>8. h = [p \in 0 .. L |-> h[p]]
  OBVIOUS
<1> HIDE DEF h
<1>9. IsGreedy(t, A, h)
  BY <1>6, <1>7, <1>8 DEF IsGreedy
<1> QED BY <1>9

LEMMA GreedyIs ==
  ASSUME NEW t \in Seq(Byte), NEW A \in SUBSET (Seq(Byte) \ {<<>>})
  PROVE  \A p \in 0 .. Len(t) : GreedyIn(t, A)[p] = Rest(t, A, p, GreedyIn(t, A))
<1> DEFINE g == GreedyIn(t, A)
<1>1. IsGreedy(t, A, g)
  BY GreedyExists DEF GreedyIn
<1> HIDE DEF g
<1>2. \A p \in 0 .. Len(t) : g[p] = Rest(t, A, p, g)
  BY <1>1 DEF IsGreedy
<1> QED BY <1>2 DEF g

LEMMA GreedyTyped ==
  ASSUME NEW t \in Seq(Byte), NEW A \in SUBSET (Seq(Byte) \ {<<>>})
  PROVE  \A p \in 0 .. Len(t) : GreedyIn(t, A)[p] \in Spans
<1> DEFINE g == GreedyIn(t, A)
           L == Len(t)
           P == {n \in Nat : \A p \in 0 .. L : L < p + n => g[p] \in Spans}
<1>1. L \in Nat
  BY LenProperties
<1>2. \A p \in 0 .. L : g[p] = Rest(t, A, p, g)
  BY GreedyIs
<1> HIDE DEF g
<1>3. 0 \in P
  BY <1>1
<1>4. ASSUME NEW n \in P PROVE n + 1 \in P
  <2>1. n \in Nat /\ \A p \in 0 .. L : L < p + n => g[p] \in Spans
    OBVIOUS
  <2> SUFFICES ASSUME NEW p \in 0 .. L, L < p + (n + 1) PROVE g[p] \in Spans
    OBVIOUS
  <2> HIDE DEF P
  <2>2. CASE FromIn(t, A, p) = {}
    BY <1>2, <2>2, EmptySeq DEF Rest, Spans
  <2>3. CASE FromIn(t, A, p) # {}
    <3> DEFINE q == First(t, A, p)
               e == EndAt(t, A, q)
    <3>0. p \in Nat
      BY <1>1
    <3>1. q \in Nat /\ e \in Nat /\ p <= q /\ q < e /\ e <= L
      BY <3>0, <2>3, FirstIsOne
    <3> HIDE DEF q, e
    <3>2. e \in 0 .. L /\ L < e + n
      BY <1>1, <2>1, <3>1
    <3>3. g[e] \in Spans
      BY <2>1, <3>2
    <3>4. <<Span(q, e)>> \in Spans
      BY <3>1 DEF Span, Spans
    <3>5. <<Span(q, e)>> \o g[e] \in Spans
      BY <3>3, <3>4, ConcatProperties DEF Spans
    <3>6. g[p] = <<Span(q, e)>> \o g[e]
      BY <1>2, <2>3 DEF Rest, Longer, q, e
    <3> QED BY <3>5, <3>6
  <2> QED BY <2>2, <2>3
<1>5. L + 1 \in P
  <2>1. P \in SUBSET Nat
    OBVIOUS
  <2> HIDE DEF P, L
  <2>2. P = Nat
    BY <1>3, <1>4, <2>1, AllNaturals
  <2> QED BY <1>1, <2>2
<1> QED BY <1>1, <1>5 DEF g

----------------------------------------------------------------------------
(* Occurrences *)

(* Of two tokens that occur at one position the shorter begins the longer. *)
LEMMA OneStartsTheOther ==
  ASSUME NEW t \in Seq(Byte), NEW r \in Seq(Byte), NEW s \in Seq(Byte), NEW p \in Nat,
         OccursIn(t, r, p), OccursIn(t, s, p), Len(r) <= Len(s)
  PROVE  IsPrefix(r, s)
<1>1. Len(r) \in Nat /\ Len(s) \in Nat /\ Len(t) \in Nat
  BY LenProperties
<1>2. ASSUME NEW u \in Seq(Byte), OccursIn(t, u, p), NEW k \in 1 .. Len(u) PROVE u[k] = t[p + k]
  <2>1. Len(u) \in Nat /\ p + Len(u) <= Len(t) /\ u = SubSeq(t, p + 1, p + Len(u))
    BY <1>2, LenProperties DEF OccursIn
  <2>2. SubSeq(t, p + 1, p + Len(u))[k] = t[(p + 1) + k - 1]
    <3>1. p + 1 \in 1 .. Len(t) + 1 /\ p + Len(u) \in p .. Len(t) /\ k \in 1 .. (p + Len(u)) - (p + 1) + 1
      BY <1>1, <2>1
    <3> QED BY <1>1, <2>1, <3>1, SubSeqProperties
  <2> QED BY <2>1, <2>2
<1>3. ASSUME NEW k \in 1 .. Len(r) PROVE r[k] = s[k]
  <2>1. k \in 1 .. Len(s)
    BY <1>1
  <2> QED BY <1>2, <2>1
<1> QED BY <1>3, PrefixElements

LEMMA OccursIs == \A s, p : OccursAt(s, p) <=> OccursIn(text, s, p)
  BY DEF OccursAt, OccursIn, Piece

(* The regex alternates every special token.                               *)
LEMMA OrderIsOnto ==
  ASSUME NEW S, IsFiniteSet(S), NEW f \in SetToSeqs(S)
  PROVE  DOMAIN f \in SUBSET Nat /\ (\A k \in DOMAIN f : f[k] \in S) /\ \A s \in S : \E k \in DOMAIN f : f[k] = s
<1> DEFINE n == Cardinality(S)
<1>1. n \in Nat
  BY FS_CardinalityType
<1>2. f \in [1 .. n -> S] /\ \A i, j \in 1 .. n : i # j => f[i] # f[j]
  BY DEF SetToSeqs
<1>3. Cardinality(1 .. n) = n
  BY <1>1, FS_Interval
<1> HIDE DEF n
<1>4. f \in Injection(1 .. n, S)
  BY <1>2 DEF Injection, IsInjective
<1>5. f \in Surjection(1 .. n, S)
  BY <1>3, <1>4, FS_Injection DEF n
<1>6. \A s \in S : \E k \in 1 .. n : f[k] = s
  BY <1>5 DEF Surjection
<1> QED BY <1>1, <1>2, <1>6

----------------------------------------------------------------------------
(* The inductive invariant *)

(* Where the scan is, and what a match found is.                           *)
PlacesInRange ==
  /\ text \in Texts /\ specials \in SpecialSets /\ order \in SetToSeqs(specials)
  /\ allowed \subseteq specials \/ (phase = "call" /\ allowed = {All})
  /\ start \in 0 .. Len(text) /\ startFind \in 0 .. Len(text)
  /\ phase \in {"call", "find"} => start <= startFind /\ next = NoSpan
  /\ next # NoSpan =>
       \E b \in start .. Len(text) : \E s \in allowed :
         next = Span(b, b + Len(s)) /\ b + Len(s) \in Nat /\ b < b + Len(s) /\ b + Len(s) <= Len(text)
  /\ phase = "push" => start = End
  /\ phase = "done" => start = Len(text) /\ next = NoSpan
  /\ phase = "call" => out = <<>> /\ start = 0 /\ startFind = 0

OutToken == [from : Nat, to : Nat, special : BOOLEAN]

SpansInOrder ==
  /\ out \in Seq(OutToken)
  /\ \A k \in DOMAIN out : out[k].from < out[k].to /\ out[k].to <= start
  /\ \A j, k \in DOMAIN out : j < k => out[j].to <= out[k].from

BytesCovered == \A p \in 0 .. start - 1 : p \in Covered \/ text[p + 1] \notin known

(* The special tokens pushed, the one found and those still to come are    *)
(* together the greedy ones.                                               *)
ToCome == IF phase = "find" THEN GreedyIn(text, allowed)[startFind]
          ELSE IF next = NoSpan THEN <<>>
          ELSE <<next>> \o GreedyIn(text, allowed)[next[2]]
SpecialsFound ==
  PrefixFree /\ phase \in {"find", "ordinary", "push", "done"} =>
    SpecialsPushed \o ToCome = GreedyIn(text, allowed)[0]

ScanInv == PlacesInRange /\ SpansInOrder /\ BytesCovered /\ SpecialsFound

LEMMA InputsAre ==
  ASSUME PlacesInRange
  PROVE  /\ text \in Seq(Byte) /\ Len(text) \in Nat /\ start \in Nat /\ startFind \in Nat
         /\ IsFiniteSet(specials) /\ specials \in SUBSET (Seq(Byte) \ {<<>>}) /\ All \notin specials
         /\ phase # "call" => allowed \in SUBSET (Seq(Byte) \ {<<>>})
         /\ \A s \in specials : s \in Seq(Byte) /\ Len(s) \in Nat /\ Len(s) > 0
         /\ End \in Nat /\ End <= Len(text) /\ (next # NoSpan => start <= End)
<1>1. text \in Seq(Byte) /\ Len(text) \in Nat
  BY SpecialsAssumption, LenProperties DEF PlacesInRange
<1>2. start \in Nat /\ startFind \in Nat
  BY <1>1 DEF PlacesInRange
<1>3. IsFiniteSet(specials) /\ specials \in SUBSET (Seq(Byte) \ {<<>>}) /\ All \notin specials
  BY SpecialsAssumption DEF PlacesInRange
<1>4. phase # "call" => allowed \in SUBSET (Seq(Byte) \ {<<>>})
  BY <1>3 DEF PlacesInRange
<1>5. ASSUME NEW s \in specials PROVE s \in Seq(Byte) /\ Len(s) \in Nat /\ Len(s) > 0
  <2>1. s \in Seq(Byte) /\ s # <<>>
    BY <1>3
  <2> QED BY <2>1, EmptySeq
<1>6. End \in Nat /\ End <= Len(text) /\ (next # NoSpan => start <= End)
  <2>1. CASE next = NoSpan
    BY <1>1, <2>1 DEF End
  <2>2. CASE next # NoSpan
    <3>1. PICK b \in start .. Len(text) : \E e : next = <<b, e>>
      BY <2>2 DEF PlacesInRange, Span
    <3>2. next[1] = b
      BY <3>1
    <3> QED BY <1>1, <1>2, <2>2, <3>2 DEF End
  <2> QED BY <2>1, <2>2
<1> QED BY <1>1, <1>2, <1>3, <1>4, <1>5, <1>6

(* A match of the regex is the leftmost occurrence of a special token.     *)
IsMatch(m, q, s) ==
  /\ m[1] = q /\ m[2] = q + Len(s) /\ m = Span(q, q + Len(s))
  /\ q \in Nat /\ startFind <= q /\ q <= Len(text)
  /\ s \in specials /\ OccursIn(text, s, q) /\ Piece(m[1], m[2]) = s
  /\ q + Len(s) \in Nat /\ q < q + Len(s) /\ q + Len(s) <= Len(text)
  /\ \A r \in startFind .. Len(text) : \A u \in specials : OccursIn(text, u, r) => q <= r

LEMMA MatchIs ==
  ASSUME PlacesInRange, MatchStarts(startFind) # {}
  PROVE  \E q, s : IsMatch(SpecialMatch(startFind), q, s)
<1> DEFINE q == Min(MatchStarts(startFind))
           k == Min(MatchesAt(q))
           m == SpecialMatch(startFind)
<1>0. /\ text \in Seq(Byte) /\ Len(text) \in Nat /\ startFind \in Nat
      /\ \A s \in specials : s \in Seq(Byte) /\ Len(s) \in Nat /\ Len(s) > 0
  BY InputsAre
<1>1. /\ DOMAIN order \in SUBSET Nat /\ \A j \in DOMAIN order : order[j] \in specials
      /\ \A s \in specials : \E j \in DOMAIN order : order[j] = s
  BY InputsAre, OrderIsOnto DEF PlacesInRange
<1>2. q \in MatchStarts(startFind) /\ \A r \in MatchStarts(startFind) : q <= r
  <2>1. MatchStarts(startFind) \in SUBSET Nat
    BY <1>0 DEF MatchStarts
  <2> QED BY <2>1, LeastOfSet
<1>3. m = Span(q, q + Len(order[k]))
  BY DEF SpecialMatch
<1> HIDE DEF q, m
<1>4. q \in Nat /\ startFind <= q /\ q <= Len(text) /\ MatchesAt(q) # {}
  BY <1>0, <1>2 DEF MatchStarts
<1>5. k \in MatchesAt(q)
  <2>1. MatchesAt(q) \in SUBSET Nat
    BY <1>1 DEF MatchesAt
  <2> QED BY <1>4, <2>1, LeastOfSet
<1> DEFINE s == order[k]
<1>6. s \in specials /\ OccursIn(text, s, q)
  BY <1>1, <1>5, OccursIs DEF MatchesAt
<1> HIDE DEF k, s
<1>7. Len(s) \in Nat /\ Len(s) > 0 /\ q + Len(s) <= Len(text)
  BY <1>0, <1>6 DEF OccursIn
<1>8. m[1] = q /\ m[2] = q + Len(s) /\ m = Span(q, q + Len(s))
  BY <1>3 DEF Span, s
<1>9. Piece(m[1], m[2]) = s
  BY <1>6, <1>8 DEF Piece, OccursIn
<1>10. ASSUME NEW r \in startFind .. Len(text), NEW u \in specials, OccursIn(text, u, r) PROVE q <= r
  <2>1. PICK j \in DOMAIN order : order[j] = u
    BY <1>1
  <2>2. j \in MatchesAt(r)
    BY <1>10, <2>1, OccursIs DEF MatchesAt
  <2>3. r \in MatchStarts(startFind)
    BY <2>2 DEF MatchStarts
  <2> QED BY <1>2, <2>3
<1>11. q + Len(s) \in Nat /\ q < q + Len(s)
  BY <1>4, <1>7
<1>12. IsMatch(m, q, s)
  BY <1>4, <1>6, <1>7, <1>8, <1>9, <1>10, <1>11 DEF IsMatch
<1> QED BY <1>12 DEF m

(* Prefix-free special tokens do not share a position.                     *)
LEMMA OneToken ==
  ASSUME PlacesInRange, PrefixFree, NEW q \in Nat, NEW r \in specials, NEW s \in specials,
         OccursIn(text, r, q), OccursIn(text, s, q)
  PROVE  r = s
<1>1. /\ text \in Seq(Byte) /\ r \in Seq(Byte) /\ s \in Seq(Byte) /\ Len(r) \in Nat /\ Len(s) \in Nat
  BY InputsAre
<1>2. CASE Len(r) <= Len(s)
  BY <1>1, <1>2, OneStartsTheOther DEF PrefixFree
<1>3. CASE Len(s) <= Len(r)
  BY <1>1, <1>3, OneStartsTheOther DEF PrefixFree
<1> QED BY <1>1, <1>2, <1>3

(* A token that is allowed is the next greedy one.                         *)
LEMMA AllowedIsGreedy ==
  ASSUME PlacesInRange, phase = "find", PrefixFree, NEW m, NEW q, NEW s, IsMatch(m, q, s), s \in allowed
  PROVE  GreedyIn(text, allowed)[startFind] = <<m>> \o GreedyIn(text, allowed)[m[2]]
<1> DEFINE g == GreedyIn(text, allowed)
           f == First(text, allowed, startFind)
<1>1. /\ text \in Seq(Byte) /\ Len(text) \in Nat /\ startFind \in 0 .. Len(text) /\ startFind \in Nat
      /\ allowed \in SUBSET (Seq(Byte) \ {<<>>}) /\ allowed \subseteq specials
  BY InputsAre DEF PlacesInRange
<1>2. q \in FromIn(text, allowed, startFind)
  BY <1>1 DEF IsMatch, FromIn
<1>3. /\ f \in Nat /\ f \in FromIn(text, allowed, startFind)
      /\ \A r \in FromIn(text, allowed, startFind) : f <= r
      /\ TokenAt(text, allowed, f) \in allowed /\ OccursIn(text, TokenAt(text, allowed, f), f)
  BY <1>1, <1>2, FirstIsOne
<1>4. f = q
  <2>1. f <= q
    BY <1>2, <1>3
  <2>2. q <= f
    <3>1. f \in startFind .. Len(text) /\ \E u \in allowed : OccursIn(text, u, f)
      BY <1>3 DEF FromIn
    <3> QED BY <1>1, <3>1 DEF IsMatch
  <2> QED BY <1>3, <2>1, <2>2 DEF IsMatch
<1> HIDE DEF f
<1>5. TokenAt(text, allowed, f) = s
  BY <1>1, <1>3, <1>4, OneToken DEF IsMatch
<1>6. EndAt(text, allowed, f) = m[2]
  BY <1>4, <1>5 DEF EndAt, IsMatch
<1>7. g[startFind] = Rest(text, allowed, startFind, g)
  BY <1>1, GreedyIs
<1> HIDE DEF g
<1>8. g[startFind] = <<Span(f, EndAt(text, allowed, f))>> \o g[EndAt(text, allowed, f)]
  BY <1>2, <1>7 DEF Rest, Longer, f
<1>9. Span(f, EndAt(text, allowed, f)) = m
  BY <1>4, <1>6 DEF IsMatch
<1> QED BY <1>6, <1>8, <1>9 DEF g

(* One that is not allowed hides no allowed one: the search goes on at the *)
(* next byte.                                                              *)
LEMMA DisallowedIsPassed ==
  ASSUME PlacesInRange, phase = "find", PrefixFree, NEW m, NEW q, NEW s, IsMatch(m, q, s), s \notin allowed
  PROVE  GreedyIn(text, allowed)[startFind] = GreedyIn(text, allowed)[q + 1]
<1> DEFINE g == GreedyIn(text, allowed)
<1>1. /\ text \in Seq(Byte) /\ Len(text) \in Nat /\ startFind \in 0 .. Len(text) /\ startFind \in Nat
      /\ allowed \in SUBSET (Seq(Byte) \ {<<>>}) /\ allowed \subseteq specials
  BY InputsAre DEF PlacesInRange
<1>2. q \in Nat /\ startFind <= q /\ q + 1 \in 0 .. Len(text)
  <2>1. q \in Nat /\ startFind <= q /\ q + Len(s) <= Len(text) /\ q < q + Len(s) /\ q + Len(s) \in Nat
    BY DEF IsMatch
  <2> QED BY <1>1, <2>1
<1>3. FromIn(text, allowed, startFind) = FromIn(text, allowed, q + 1)
  <2>1. ASSUME NEW r \in FromIn(text, allowed, startFind) PROVE r \in FromIn(text, allowed, q + 1)
    <3>1. PICK u \in allowed : OccursIn(text, u, r)
      BY DEF FromIn
    <3>2. r \in startFind .. Len(text) /\ r \in Nat
      BY <1>1 DEF FromIn
    <3>3. q <= r
      BY <1>1, <3>1, <3>2 DEF IsMatch
    <3>4. q # r
      BY <1>1, <3>1, <3>2, OneToken DEF IsMatch
    <3>5. r \in q + 1 .. Len(text)
      BY <1>2, <3>2, <3>3, <3>4
    <3> QED BY <3>1, <3>5 DEF FromIn
  <2>2. ASSUME NEW r \in FromIn(text, allowed, q + 1) PROVE r \in FromIn(text, allowed, startFind)
    BY <1>1, <1>2 DEF FromIn
  <2> QED BY <2>1, <2>2
<1>4. g[startFind] = Rest(text, allowed, startFind, g) /\ g[q + 1] = Rest(text, allowed, q + 1, g)
  BY <1>1, <1>2, GreedyIs
<1> HIDE DEF g
<1> QED BY <1>3, <1>4 DEF Rest, Longer, First, g

(* What pushing one more span adds to the special tokens pushed.           *)
SpecialSpan(token) == IF token.special THEN <<Span(token.from, token.to)>> ELSE <<>>
PushedOf(o)        == FlattenSeq([k \in DOMAIN o |-> SpecialSpan(o[k])])

LEMMA SpanTyped ==
  ASSUME NEW x \in OutToken
  PROVE  SpecialSpan(x) \in Seq(Nat \X Nat)
<1>1. PICK y \in Nat \X Nat : y = Span(x.from, x.to)
  BY DEF OutToken, Span
<1>2. <<y>> \in Seq(Nat \X Nat)
  OBVIOUS
<1> QED BY <1>1, <1>2, EmptySeq DEF SpecialSpan

LEMMA PushedTyped ==
  ASSUME NEW o \in Seq(OutToken)
  PROVE  /\ [k \in DOMAIN o |-> SpecialSpan(o[k])] \in Seq(Seq(Nat \X Nat))
         /\ PushedOf(o) \in Spans
<1> DEFINE ss == [k \in DOMAIN o |-> SpecialSpan(o[k])]
<1>1. DOMAIN o = 1 .. Len(o) /\ Len(o) \in Nat
  BY LenProperties
<1>2. ASSUME NEW k \in 1 .. Len(o) PROVE SpecialSpan(o[k]) \in Seq(Nat \X Nat)
  <2>1. o[k] \in OutToken
    BY ElementOfSeq
  <2> QED BY <2>1, SpanTyped
<1>3. ss \in Seq(Seq(Nat \X Nat))
  BY <1>1, <1>2
<1> HIDE DEF ss
<1> QED BY <1>3, FlattenTyped DEF PushedOf, Spans, ss

LEMMA PushedMore ==
  ASSUME NEW o \in Seq(OutToken), NEW x \in OutToken
  PROVE  PushedOf(Append(o, x)) = PushedOf(o) \o SpecialSpan(x)
<1> DEFINE ss == [k \in DOMAIN o |-> SpecialSpan(o[k])]
<1>1. ss \in Seq(Seq(Nat \X Nat))
  BY PushedTyped
<1>2. SpecialSpan(x) \in Seq(Nat \X Nat)
  BY SpanTyped
<1>3. PICK y : y = Append(o, x)
  OBVIOUS
<1>4. /\ DOMAIN o = 1 .. Len(o) /\ Len(o) \in Nat
      /\ DOMAIN y = 1 .. Len(o) + 1 /\ y[Len(o) + 1] = x /\ \A k \in 1 .. Len(o) : y[k] = o[k]
  <2>1. y \in Seq(OutToken) /\ Len(y) = Len(o) + 1 /\ y[Len(o) + 1] = x /\ \A k \in 1 .. Len(o) : y[k] = o[k]
    BY <1>3, AppendProperties
  <2> QED BY <2>1, LenProperties
<1>5. PICK z : z = Append(ss, SpecialSpan(x))
  OBVIOUS
<1>6. /\ z \in Seq(Seq(Nat \X Nat)) /\ DOMAIN z = 1 .. Len(o) + 1
      /\ z[Len(o) + 1] = SpecialSpan(x) /\ \A k \in 1 .. Len(o) : z[k] = SpecialSpan(o[k])
  <2>1. Len(ss) = Len(o) /\ \A k \in 1 .. Len(o) : ss[k] = SpecialSpan(o[k])
    BY <1>4
  <2> HIDE DEF ss
  <2>2. /\ z \in Seq(Seq(Nat \X Nat)) /\ Len(z) = Len(ss) + 1
        /\ z[Len(ss) + 1] = SpecialSpan(x) /\ \A k \in 1 .. Len(ss) : z[k] = ss[k]
    BY <1>1, <1>2, <1>5, AppendProperties
  <2> QED BY <2>1, <2>2, LenProperties
<1>7. [k \in DOMAIN y |-> SpecialSpan(y[k])] = z
  <2>1. \A k \in 1 .. Len(o) + 1 : SpecialSpan(y[k]) = z[k]
    <3> TAKE k \in 1 .. Len(o) + 1
    <3>1. CASE k = Len(o) + 1
      BY <1>4, <1>6, <3>1
    <3>2. CASE k \in 1 .. Len(o)
      BY <1>4, <1>6, <3>2
    <3> QED BY <1>4, <3>1, <3>2
  <2>2. z = [k \in 1 .. Len(o) + 1 |-> z[k]]
    BY <1>6
  <2> QED BY <1>4, <2>1, <2>2
<1> HIDE DEF ss
<1>8. FlattenSeq(z) = FlattenSeq(ss) \o SpecialSpan(x)
  BY <1>1, <1>2, <1>5, FlattenAppend
<1> QED BY <1>3, <1>7, <1>8 DEF PushedOf, ss

----------------------------------------------------------------------------
(* The steps *)

LEMMA ScanInit == Init => ScanInv
<1> SUFFICES ASSUME Init PROVE ScanInv
  OBVIOUS
<1>1. text \in Seq(Byte) /\ Len(text) \in Nat
  BY SpecialsAssumption, LenProperties DEF Init
<1>2. PlacesInRange
  <2>1. start \in 0 .. Len(text) /\ startFind \in 0 .. Len(text) /\ start <= startFind
    BY <1>1 DEF Init
  <2>2. allowed \subseteq specials \/ (phase = "call" /\ allowed = {All})
    <3>1. allowed \in SUBSET specials \/ allowed = {All}
      BY DEF Init
    <3> QED BY <3>1 DEF Init
  <2> QED BY <2>1, <2>2 DEF Init, PlacesInRange
<1>3. SpansInOrder
  BY EmptySeq DEF Init, SpansInOrder
<1>4. BytesCovered /\ SpecialsFound
  BY DEF Init, BytesCovered, SpecialsFound
<1> QED BY <1>2, <1>3, <1>4 DEF ScanInv

(* What a step that pushes nothing and encodes nothing leaves as it was.   *)
LEMMA NothingPushed ==
  ASSUME SpansInOrder, BytesCovered, UNCHANGED <<text, known, start, out>>
  PROVE  SpansInOrder' /\ BytesCovered' /\ SpecialsPushed' = SpecialsPushed
<1>1. text' = text /\ known' = known /\ start' = start /\ out' = out
  OBVIOUS
<1>2. SpansInOrder'
  BY <1>1 DEF SpansInOrder
<1>3. BytesCovered'
  BY <1>1 DEF BytesCovered, Covered
<1> QED BY <1>1, <1>2, <1>3 DEF SpecialsPushed

LEMMA NoneOrMore ==
  ASSUME SpansInOrder
  PROVE  SpecialsPushed \in Spans /\ (out = <<>> => SpecialsPushed = <<>>)
<1>1. SpecialsPushed = PushedOf(out)
  BY DEF SpecialsPushed, PushedOf, SpecialSpan
<1>2. PushedOf(out) \in Spans
  BY PushedTyped DEF SpansInOrder
<1>3. out = <<>> => PushedOf(out) = <<>>
  <2>1. out = <<>> => [k \in DOMAIN out |-> SpecialSpan(out[k])] = <<>>
    OBVIOUS
  <2> QED BY <2>1, FlattenEmpty DEF PushedOf
<1> QED BY <1>1, <1>2, <1>3

LEMMA CheckStep == ScanInv /\ Check => ScanInv'
<1> SUFFICES ASSUME ScanInv, Check PROVE ScanInv'
  OBVIOUS
<1> USE DEF ScanInv
<1>1. /\ phase = "call" /\ phase' \in {"rejected", "find"} /\ allowed' = AllowedSet
      /\ text' = text /\ specials' = specials /\ known' = known /\ order' = order
      /\ start' = start /\ startFind' = startFind /\ next' = next /\ out' = out
  BY DEF Check, input
<1>2. /\ text \in Seq(Byte) /\ Len(text) \in Nat /\ All \notin specials
      /\ out = <<>> /\ start = 0 /\ startFind = 0 /\ next = NoSpan
  BY <1>1, InputsAre DEF PlacesInRange
<1>3. allowed' \subseteq specials
  BY <1>1, <1>2 DEF PlacesInRange, AllowedSet
<1>4. PlacesInRange'
  BY <1>1, <1>2, <1>3 DEF PlacesInRange
<1>5. SpansInOrder' /\ BytesCovered' /\ SpecialsPushed' = SpecialsPushed
  BY <1>1, NothingPushed
<1>6. SpecialsFound'
  <2> DEFINE g == GreedyIn(text', allowed')
  <2>1. g[0] \in Spans
    <3>1. allowed' \in SUBSET (Seq(Byte) \ {<<>>}) /\ text' \in Seq(Byte) /\ 0 \in 0 .. Len(text')
      BY <1>1, <1>2, <1>3, InputsAre
    <3> QED BY <3>1, GreedyTyped
  <2>2. SpecialsPushed' = <<>>
    BY <1>2, <1>5, NoneOrMore
  <2> HIDE DEF g
  <2>3. <<>> \o g[0] = g[0]
    BY <2>1, ConcatEmptySeq DEF Spans
  <2>4. phase' = "find" => ToCome' = g[0]
    BY <1>1, <1>2 DEF ToCome, g, GreedyIn, IsGreedy
  <2> QED BY <1>1, <2>2, <2>3, <2>4 DEF SpecialsFound, g
<1> QED BY <1>4, <1>5, <1>6

(* The steps that look for a match.                                        *)
LEMMA FindStep ==
  ASSUME ScanInv, FindAllowed \/ SkipDisallowed \/ FindNone
  PROVE  ScanInv'
<1> USE DEF ScanInv
<1>1. /\ phase = "find" /\ text' = text /\ specials' = specials /\ known' = known /\ order' = order
      /\ allowed' = allowed /\ start' = start /\ out' = out
  BY DEF FindAllowed, SkipDisallowed, FindNone, input
<1>2. /\ text \in Seq(Byte) /\ Len(text) \in Nat /\ start \in Nat /\ startFind \in Nat
      /\ startFind \in 0 .. Len(text) /\ start \in 0 .. Len(text) /\ start <= startFind /\ next = NoSpan
      /\ allowed \in SUBSET (Seq(Byte) \ {<<>>}) /\ allowed \subseteq specials
  BY <1>1, InputsAre DEF PlacesInRange
<1>3. SpansInOrder' /\ BytesCovered' /\ SpecialsPushed' = SpecialsPushed
  BY <1>1, NothingPushed
<1>4. (PrefixFree' <=> PrefixFree) /\ GreedyIn(text', allowed') = GreedyIn(text, allowed)
  BY <1>1 DEF PrefixFree
<1> DEFINE g == GreedyIn(text, allowed)
<1>5. PrefixFree => SpecialsPushed \o g[startFind] = g[0]
  BY <1>1 DEF SpecialsFound, ToCome
<1>6. CASE FindAllowed
  <2> DEFINE m == SpecialMatch(startFind)
  <2>1. /\ MatchStarts(startFind) # {} /\ Piece(m[1], m[2]) \in allowed /\ next' = m
        /\ phase' = "ordinary" /\ startFind' = startFind
    BY <1>6 DEF FindAllowed
  <2>2. PICK q, s : IsMatch(m, q, s)
    BY <2>1, MatchIs
  <2> HIDE DEF m
  <2>3. s \in allowed
    BY <2>1, <2>2 DEF IsMatch
  <2>4. \E b \in start .. Len(text) : \E u \in allowed :
          m = Span(b, b + Len(u)) /\ b + Len(u) \in Nat /\ b < b + Len(u) /\ b + Len(u) <= Len(text)
    <3>1. q \in start .. Len(text)
      BY <1>2, <2>2 DEF IsMatch
    <3> QED BY <2>2, <2>3, <3>1 DEF IsMatch
  <2>5. PlacesInRange'
    BY <1>1, <1>2, <2>1, <2>4 DEF PlacesInRange
  <2>6. PrefixFree => g[startFind] = <<m>> \o g[m[2]]
    BY <1>1, <2>2, <2>3, AllowedIsGreedy
  <2>7. ToCome' = <<m>> \o g[m[2]]
    <3>1. m # NoSpan
      BY <2>2 DEF IsMatch, Span, NoSpan
    <3> QED BY <1>4, <2>1, <3>1 DEF ToCome, GreedyIn, IsGreedy
  <2>8. SpecialsFound'
    <3> HIDE DEF g
    <3>1. PrefixFree' => SpecialsPushed' \o ToCome' = g[0]
      BY <1>3, <1>4, <1>5, <2>6, <2>7
    <3> QED BY <1>4, <3>1 DEF SpecialsFound, g
  <2> QED BY <1>3, <2>5, <2>8
<1>7. CASE SkipDisallowed
  <2> DEFINE m == SpecialMatch(startFind)
  <2>1. /\ MatchStarts(startFind) # {} /\ Piece(m[1], m[2]) \notin allowed /\ startFind' = m[1] + 1
        /\ phase' = phase /\ next' = next
    BY <1>7 DEF SkipDisallowed
  <2>2. PICK q, s : IsMatch(m, q, s)
    BY <2>1, MatchIs
  <2> HIDE DEF m
  <2>3. s \notin allowed /\ startFind' = q + 1
    BY <2>1, <2>2 DEF IsMatch
  <2>4. q + 1 \in 0 .. Len(text) /\ startFind <= q /\ q \in Nat
    <3>1. q \in Nat /\ q + Len(s) \in Nat /\ q < q + Len(s) /\ q + Len(s) <= Len(text) /\ startFind <= q
      BY <2>2 DEF IsMatch
    <3> QED BY <1>2, <3>1
  <2>5. PlacesInRange'
    BY <1>1, <1>2, <2>1, <2>3, <2>4 DEF PlacesInRange
  <2>6. PrefixFree => g[startFind] = g[q + 1]
    BY <1>1, <2>2, <2>3, DisallowedIsPassed
  <2>7. ToCome' = g[q + 1]
    BY <1>1, <1>4, <2>1, <2>3 DEF ToCome, GreedyIn, IsGreedy
  <2>8. SpecialsFound'
    <3> HIDE DEF g
    <3>1. PrefixFree' => SpecialsPushed' \o ToCome' = g[0]
      BY <1>3, <1>4, <1>5, <2>6, <2>7
    <3> QED BY <1>4, <3>1 DEF SpecialsFound, g
  <2> QED BY <1>3, <2>5, <2>8
<1>8. CASE FindNone
  <2>1. /\ MatchStarts(startFind) = {} /\ phase' = "ordinary" /\ startFind' = startFind /\ next' = next
    BY <1>8 DEF FindNone
  <2>2. PlacesInRange'
    BY <1>1, <1>2, <2>1 DEF PlacesInRange
  <2>3. FromIn(text, allowed, startFind) = {}
    <3> SUFFICES ASSUME NEW r \in startFind .. Len(text), NEW u \in allowed, OccursIn(text, u, r) PROVE FALSE
      BY DEF FromIn
    <3>1. PICK k \in DOMAIN order : order[k] = u
      BY <1>2, InputsAre, OrderIsOnto DEF PlacesInRange
    <3>2. k \in MatchesAt(r)
      BY <3>1, OccursIs DEF MatchesAt
    <3> QED BY <2>1, <3>2 DEF MatchStarts
  <2>4. g[startFind] = <<>>
    <3>1. g[startFind] = Rest(text, allowed, startFind, g)
      BY <1>2, GreedyIs
    <3> HIDE DEF g
    <3> QED BY <2>3, <3>1 DEF Rest
  <2>5. ToCome' = <<>>
    BY <1>2, <2>1 DEF ToCome
  <2>6. SpecialsFound'
    <3> HIDE DEF g
    <3>1. PrefixFree' => SpecialsPushed' \o ToCome' = g[0]
      BY <1>3, <1>4, <1>5, <2>4, <2>5
    <3> QED BY <1>4, <3>1 DEF SpecialsFound, g
  <2> QED BY <1>3, <2>2, <2>6
<1> QED BY <1>6, <1>7, <1>8

(* A token pushed at the end of what is encoded.                           *)
LEMMA TokenPushed ==
  ASSUME SpansInOrder, BytesCovered, NEW x \in OutToken, start \in Nat, Len(text) \in Nat,
         x.from = start, x.to = start', start < start', start' <= Len(text),
         out' = Append(out, x), text' = text, known' = known
  PROVE  SpansInOrder' /\ BytesCovered' /\ SpecialsPushed' = SpecialsPushed \o SpecialSpan(x)
<1>1. x.to \in Nat /\ start' \in Nat
  BY DEF OutToken
<1>2. /\ out \in Seq(OutToken) /\ DOMAIN out = 1 .. Len(out) /\ Len(out) \in Nat
      /\ out' \in Seq(OutToken) /\ DOMAIN out' = 1 .. Len(out) + 1
      /\ out'[Len(out) + 1] = x /\ \A k \in 1 .. Len(out) : out'[k] = out[k]
  <2>1. out \in Seq(OutToken)
    BY DEF SpansInOrder
  <2>2. PICK y : y = Append(out, x)
    OBVIOUS
  <2>3. /\ y \in Seq(OutToken) /\ Len(y) = Len(out) + 1 /\ y[Len(out) + 1] = x
        /\ \A k \in 1 .. Len(out) : y[k] = out[k]
    BY <2>1, <2>2, AppendProperties
  <2>4. DOMAIN y = 1 .. Len(out) + 1 /\ DOMAIN out = 1 .. Len(out) /\ Len(out) \in Nat
    BY <2>1, <2>3, LenProperties
  <2> QED BY <2>1, <2>2, <2>3, <2>4
<1>3. ASSUME NEW k \in 1 .. Len(out) PROVE out[k].from < out[k].to /\ out[k].to <= start /\ out[k].to \in Nat
  <2>1. out[k] \in OutToken
    BY <1>2, ElementOfSeq
  <2> QED BY <1>2, <2>1 DEF SpansInOrder, OutToken
<1>4. \A k \in DOMAIN out' : out'[k].from < out'[k].to /\ out'[k].to <= start'
  <2> TAKE k \in DOMAIN out'
  <2>1. CASE k = Len(out) + 1
    BY <1>1, <1>2, <2>1
  <2>2. CASE k \in 1 .. Len(out)
    <3>1. out'[k] = out[k]
      BY <1>2, <2>2
    <3> QED BY <1>1, <1>3, <2>2, <3>1
  <2> QED BY <1>2, <2>1, <2>2
<1>5. ASSUME NEW j \in DOMAIN out', NEW k \in DOMAIN out', j < k PROVE out'[j].to <= out'[k].from
  <2>1. j \in 1 .. Len(out)
    BY <1>2, <1>5
  <2>2. out'[j] = out[j] /\ out[j].to <= start
    BY <1>2, <1>3, <2>1
  <2>3. CASE k = Len(out) + 1
    BY <1>2, <2>2, <2>3
  <2>4. CASE k \in 1 .. Len(out)
    <3>1. out'[k] = out[k] /\ out[j].to <= out[k].from
      BY <1>2, <1>5, <2>1, <2>4 DEF SpansInOrder
    <3> QED BY <2>2, <3>1
  <2> QED BY <1>2, <2>3, <2>4
<1>6. SpansInOrder'
  BY <1>2, <1>4, <1>5 DEF SpansInOrder
<1>7. BytesCovered'
  <2> SUFFICES ASSUME NEW p \in 0 .. start' - 1 PROVE p \in Covered' \/ text[p + 1] \notin known
    BY DEF BytesCovered
  <2>1. p \in 0 .. Len(text') - 1
    <3>1. PICK e \in Nat, n \in Nat : e = start' /\ n = Len(text)
      BY <1>1
    <3>2. e <= n /\ p \in 0 .. e - 1
      BY <3>1
    <3>3. p \in 0 .. n - 1
      BY <3>2
    <3> QED BY <3>1, <3>3
  <2>2. CASE p < start
    <3>1. p \in Covered \/ text[p + 1] \notin known
      BY <2>1, <2>2 DEF BytesCovered
    <3>2. ASSUME p \in Covered PROVE p \in Covered'
      <4>1. PICK k \in DOMAIN out : out[k].from <= p /\ p < out[k].to
        BY <3>2 DEF Covered
      <4>2. k \in DOMAIN out' /\ out'[k] = out[k]
        BY <1>2
      <4> QED BY <2>1, <4>1, <4>2 DEF Covered
    <3> QED BY <3>1, <3>2
  <2>3. CASE p >= start
    <3>1. Len(out) + 1 \in DOMAIN out' /\ out'[Len(out) + 1] = x /\ x.from <= p /\ p < x.to
      BY <1>1, <1>2, <2>3
    <3> QED BY <2>1, <3>1 DEF Covered
  <2> QED BY <2>1, <2>2, <2>3
<1>8. SpecialsPushed' = SpecialsPushed \o SpecialSpan(x)
  <2>1. SpecialsPushed = PushedOf(out) /\ SpecialsPushed' = PushedOf(out')
    BY DEF SpecialsPushed, PushedOf, SpecialSpan
  <2> QED BY <1>2, <2>1, PushedMore
<1> QED BY <1>6, <1>7, <1>8

LEMMA PieceStep ==
  ASSUME ScanInv, EncodePiece
  PROVE  ScanInv'
<1> USE DEF ScanInv
<1>1. PICK e \in start + 1 .. End :
        /\ start' = e
        /\ \/ out' = Append(out, Token(Span(start, e), FALSE))
           \/ ~Known(e) /\ e = start + 1 /\ out' = out
  BY DEF EncodePiece
<1>2. /\ phase = "ordinary" /\ phase' = phase /\ text' = text /\ specials' = specials /\ known' = known
      /\ order' = order /\ allowed' = allowed /\ startFind' = startFind /\ next' = next
  BY DEF EncodePiece, input
<1>3. /\ text \in Seq(Byte) /\ Len(text) \in Nat /\ start \in Nat /\ startFind \in Nat
      /\ End \in Nat /\ End <= Len(text)
  BY InputsAre DEF PlacesInRange
<1>4. e \in Nat /\ start < e /\ e <= End /\ e <= Len(text) /\ e \in 0 .. Len(text)
  BY <1>1, <1>3
<1>5. SpansInOrder' /\ BytesCovered' /\ SpecialsPushed' = SpecialsPushed
  <2>1. CASE out' = Append(out, Token(Span(start, e), FALSE))
    <3>1. PICK x : x = Token(Span(start, e), FALSE)
      OBVIOUS
    <3>2. x \in OutToken /\ x.from = start /\ x.to = start' /\ x.special = FALSE
      BY <1>1, <1>3, <1>4, <3>1 DEF Token, Span, OutToken
    <3>3. SpansInOrder' /\ BytesCovered' /\ SpecialsPushed' = SpecialsPushed \o SpecialSpan(x)
      BY <1>1, <1>2, <1>3, <1>4, <2>1, <3>1, <3>2, TokenPushed
    <3>4. SpecialsPushed \o SpecialSpan(x) = SpecialsPushed
      BY <3>2, NoneOrMore, ConcatEmptySeq DEF SpecialSpan, Spans
    <3> QED BY <3>3, <3>4
  <2>2. CASE ~Known(e) /\ e = start + 1 /\ out' = out
    <3>1. text[start + 1] \notin known
      BY <1>3, <2>2 DEF Known
    <3>2. SpansInOrder'
      <4>1. \A k \in DOMAIN out : out[k].to <= start'
        <5> TAKE k \in DOMAIN out
        <5>1. out[k] \in OutToken /\ out[k].to <= start
          BY LenProperties, ElementOfSeq DEF SpansInOrder
        <5>2. out[k].to \in Nat
          BY <5>1 DEF OutToken
        <5> QED BY <1>1, <1>3, <1>4, <5>1, <5>2
      <4> QED BY <2>2, <4>1 DEF SpansInOrder
    <3>3. BytesCovered'
      <4> SUFFICES ASSUME NEW p \in 0 .. start' - 1 PROVE p \in Covered' \/ text[p + 1] \notin known
        BY <1>2 DEF BytesCovered
      <4>1. Covered' = Covered
        BY <1>2, <2>2 DEF Covered
      <4>2. p \in 0 .. start - 1 \/ p = start
        BY <1>1, <1>3, <2>2
      <4> QED BY <3>1, <4>1, <4>2 DEF BytesCovered
    <3> QED BY <2>2, <3>2, <3>3 DEF SpecialsPushed
  <2> QED BY <1>1, <2>1, <2>2
<1>6. PlacesInRange'
  <2>1. ASSUME next # NoSpan
        PROVE  \E b \in e .. Len(text) : \E s \in allowed :
                 next = Span(b, b + Len(s)) /\ b + Len(s) \in Nat /\ b < b + Len(s) /\ b + Len(s) <= Len(text)
    <3>1. PICK b \in start .. Len(text) : \E s \in allowed :
                 next = Span(b, b + Len(s)) /\ b + Len(s) \in Nat /\ b < b + Len(s) /\ b + Len(s) <= Len(text)
      BY <2>1 DEF PlacesInRange
    <3>2. End = b
      BY <2>1, <3>1 DEF End, Span
    <3>3. b \in e .. Len(text)
      BY <1>3, <1>4, <3>1, <3>2
    <3> QED BY <3>1, <3>3
  <2>2. start' = e
    BY <1>1
  <2> QED BY <1>2, <1>3, <1>4, <2>1, <2>2 DEF PlacesInRange
<1>7. SpecialsFound'
  <2>1. GreedyIn(text', allowed') = GreedyIn(text, allowed) /\ ToCome' = ToCome /\ (PrefixFree' <=> PrefixFree)
    BY <1>2 DEF ToCome, GreedyIn, IsGreedy, PrefixFree
  <2>2. PrefixFree => SpecialsPushed \o ToCome = GreedyIn(text, allowed)[0]
    BY <1>2 DEF SpecialsFound
  <2>3. PrefixFree' => SpecialsPushed' \o ToCome' = GreedyIn(text', allowed')[0]
    BY <1>5, <2>1, <2>2
  <2> QED BY <2>3 DEF SpecialsFound, GreedyIn, IsGreedy
<1> QED BY <1>5, <1>6, <1>7

(* The steps that change only where the scan is.                           *)
LEMMA PassStep ==
  ASSUME ScanInv, ThrowOnPiece \/ EndOrdinary \/ Return
  PROVE  ScanInv'
<1> USE DEF ScanInv
<1>1. /\ text' = text /\ specials' = specials /\ known' = known /\ order' = order
      /\ allowed' = allowed /\ start' = start /\ startFind' = startFind /\ next' = next /\ out' = out
      /\ phase \in {"ordinary", "push"} /\ phase' \in {"thrown", "push", "done"}
  BY DEF ThrowOnPiece, EndOrdinary, Return, input
<1>2. SpansInOrder' /\ BytesCovered' /\ SpecialsPushed' = SpecialsPushed
  BY <1>1, NothingPushed
<1>3. phase' = "push" => start = End
  <2> SUFFICES ASSUME phase' = "push" PROVE start = End
    OBVIOUS
  <2>1. start >= End
    BY DEF ThrowOnPiece, EndOrdinary, Return
  <2>2. start \in Nat /\ End \in Nat /\ start <= Len(text) /\ (next # NoSpan => start <= End)
    BY InputsAre DEF PlacesInRange
  <2>3. next = NoSpan => End = Len(text)
    BY DEF End
  <2> QED BY <2>1, <2>2, <2>3
<1>4. phase' = "done" => start = Len(text) /\ next = NoSpan
  BY <1>1 DEF ThrowOnPiece, EndOrdinary, Return, PlacesInRange, End
<1>5. PlacesInRange'
  <2>1. End' = End
    BY <1>1 DEF End
  <2> QED BY <1>1, <1>3, <1>4, <2>1 DEF PlacesInRange
<1>6. SpecialsFound'
  <2>1. GreedyIn(text', allowed') = GreedyIn(text, allowed) /\ ToCome' = ToCome /\ (PrefixFree' <=> PrefixFree)
    BY <1>1 DEF ToCome, GreedyIn, IsGreedy, PrefixFree
  <2>2. PrefixFree => SpecialsPushed \o ToCome = GreedyIn(text, allowed)[0]
    BY <1>1 DEF SpecialsFound
  <2>3. PrefixFree' => SpecialsPushed' \o ToCome' = GreedyIn(text', allowed')[0]
    BY <1>2, <2>1, <2>2
  <2> QED BY <2>3 DEF SpecialsFound, GreedyIn, IsGreedy
<1> QED BY <1>2, <1>5, <1>6

LEMMA SpecialStep ==
  ASSUME ScanInv, PushSpecial
  PROVE  ScanInv'
<1> USE DEF ScanInv
<1>1. /\ phase = "push" /\ next # NoSpan /\ out' = Append(out, Token(next, TRUE)) /\ start' = next[2]
      /\ startFind' = next[2] /\ next' = NoSpan /\ phase' = "find" /\ allowed' = allowed
      /\ text' = text /\ specials' = specials /\ known' = known /\ order' = order
  BY DEF PushSpecial, input
<1>2. text \in Seq(Byte) /\ Len(text) \in Nat /\ start \in Nat /\ start = End
  BY <1>1, InputsAre DEF PlacesInRange
<1>3. PICK b \in start .. Len(text), e \in Nat : next = <<b, e>> /\ b < e /\ e <= Len(text)
  BY <1>1 DEF PlacesInRange, Span
<1>4. b = start /\ start' = e /\ startFind' = e /\ e \in 0 .. Len(text) /\ next[2] = e
  BY <1>1, <1>2, <1>3 DEF End
<1>5. PICK x : x = Token(next, TRUE)
  OBVIOUS
<1>6. x \in OutToken /\ x.from = start /\ x.to = start' /\ x.special = TRUE
  BY <1>2, <1>3, <1>4, <1>5 DEF Token, OutToken
<1>7. SpansInOrder' /\ BytesCovered' /\ SpecialsPushed' = SpecialsPushed \o SpecialSpan(x)
  BY <1>1, <1>2, <1>3, <1>4, <1>5, <1>6, TokenPushed
<1>8. PlacesInRange'
  BY <1>1, <1>2, <1>4 DEF PlacesInRange
<1>9. SpecialsFound'
  <2> DEFINE g == GreedyIn(text, allowed)
  <2>1. GreedyIn(text', allowed') = g /\ (PrefixFree' <=> PrefixFree) /\ ToCome' = g[e] /\ ToCome = <<next>> \o g[e]
    BY <1>1, <1>4 DEF ToCome, GreedyIn, IsGreedy, PrefixFree
  <2>2. SpecialSpan(x) = <<next>>
    BY <1>3, <1>4, <1>6 DEF SpecialSpan, Span
  <2>3. PrefixFree => SpecialsPushed \o ToCome = g[0]
    BY <1>1 DEF SpecialsFound
  <2>4. g[e] \in Spans
    <3>1. allowed \in SUBSET (Seq(Byte) \ {<<>>})
      BY <1>1, InputsAre
    <3> QED BY <1>2, <1>4, <3>1, GreedyTyped
  <2>5. SpecialSpan(x) \in Spans /\ SpecialsPushed \in Spans
    BY <1>6, SpanTyped, NoneOrMore DEF Spans
  <2> HIDE DEF g
  <2>6. (SpecialsPushed \o SpecialSpan(x)) \o g[e] = SpecialsPushed \o (SpecialSpan(x) \o g[e])
    <3>1. PICK S : S = Nat \X Nat
      OBVIOUS
    <3>2. SpecialsPushed \in Seq(S) /\ SpecialSpan(x) \in Seq(S) /\ g[e] \in Seq(S)
      BY <2>4, <2>5, <3>1 DEF Spans
    <3>3. PICK t, u, v : t = SpecialsPushed /\ u = SpecialSpan(x) /\ v = g[e]
      OBVIOUS
    <3>4. t \in Seq(S) /\ u \in Seq(S) /\ v \in Seq(S)
      BY <3>2, <3>3
    <3>5. (t \o u) \o v = t \o (u \o v)
      BY <3>4, JoinAssociates, SMTT(30)
    <3> QED BY <3>3, <3>5
  <2>7. PrefixFree' => SpecialsPushed' \o ToCome' = GreedyIn(text', allowed')[0]
    BY <1>7, <2>1, <2>2, <2>3, <2>6
  <2> QED BY <2>7 DEF SpecialsFound, GreedyIn, IsGreedy
<1> QED BY <1>7, <1>8, <1>9

LEMMA ScanStep == ScanInv /\ [Next]_vars => ScanInv'
<1> SUFFICES ASSUME ScanInv, [Next]_vars PROVE ScanInv'
  OBVIOUS
<1>1. CASE UNCHANGED vars
  <2> USE DEF ScanInv
  <2>1. /\ text' = text /\ specials' = specials /\ known' = known /\ order' = order
        /\ allowed' = allowed /\ start' = start /\ startFind' = startFind /\ next' = next /\ out' = out
        /\ phase' = phase
    BY <1>1 DEF vars, input
  <2>2. SpansInOrder' /\ BytesCovered' /\ SpecialsPushed' = SpecialsPushed
    BY <2>1, NothingPushed
  <2>3. PlacesInRange'
    BY <2>1 DEF PlacesInRange, End
  <2>4. GreedyIn(text', allowed') = GreedyIn(text, allowed) /\ ToCome' = ToCome /\ (PrefixFree' <=> PrefixFree)
    BY <2>1 DEF ToCome, GreedyIn, IsGreedy, PrefixFree
  <2>5. SpecialsFound'
    <3>1. PrefixFree' /\ phase' \in {"find", "ordinary", "push", "done"} =>
            SpecialsPushed' \o ToCome' = GreedyIn(text', allowed')[0]
      BY <2>1, <2>2, <2>4 DEF SpecialsFound
    <3> QED BY <3>1 DEF SpecialsFound, GreedyIn, IsGreedy
  <2> QED BY <2>2, <2>3, <2>5
<1>2. CASE Next
  <2>1. CASE Finished
    BY <1>1, <2>1 DEF Finished
  <2> QED BY <1>2, <2>1, CheckStep, FindStep, PieceStep, PassStep, SpecialStep DEF Next
<1> QED BY <1>1, <1>2

LEMMA ScanInvHolds == Spec => []ScanInv
  BY ScanInit, ScanStep, PTL DEF Spec

(* For any text and vocabulary the tokens spell the text in order, without *)
(* a gap or an overlap, up to where encoding has come; only single bytes   *)
(* the vocabulary does not have are dropped (CoreBPE::_encode_native).     *)
THEOREM ScanIsLossless == Spec => []Lossless
<1>1. ScanInv => Lossless
  BY DEF ScanInv, SpansInOrder, BytesCovered, PlacesInRange, Lossless
<1> QED BY ScanInvHolds, <1>1, PTL

(* For any text, any special tokens of which none begins another, any of   *)
(* them allowed and any order of the alternation: the special tokens       *)
(* pushed are exactly the greedy leftmost allowed ones (_encode_native and *)
(* _find_regex_pos of core_bpe.cpp).                                       *)
THEOREM ScanFindsSpecials == Spec => []SpecialsAsDefined
<1>1. ScanInv => SpecialsAsDefined
  <2> SUFFICES ASSUME ScanInv, phase = "done", PrefixFree PROVE SpecialsPushed = Greedy
    BY DEF SpecialsAsDefined
  <2>1. SpecialsPushed \o ToCome = GreedyIn(text, allowed)[0]
    BY DEF ScanInv, SpecialsFound
  <2>2. start = Len(text) /\ Len(text) \in Nat
    BY InputsAre DEF ScanInv, PlacesInRange
  <2>3. ToCome = <<>>
    BY DEF ScanInv, PlacesInRange, ToCome
  <2>4. SpecialsPushed \o <<>> = SpecialsPushed
    BY NoneOrMore, ConcatEmptySeq DEF ScanInv, Spans
  <2>5. Greedy = GreedyIn(text, allowed)[0]
    BY DEF Greedy, GreedyIn, IsGreedy, Rest, Longer, EndAt, First, FromIn, TokenAt, AllowedFrom,
           OccursAt, OccursIn, Piece
  <2> QED BY <2>1, <2>3, <2>4, <2>5
<1> QED BY ScanInvHolds, <1>1, PTL
=============================================================================
