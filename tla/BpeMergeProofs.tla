--------------------------- MODULE BpeMergeProofs ---------------------------
(***************************************************************************)
(* What the merge loop of token/core_bpe.cpp (86-204) keeps for every      *)
(* piece and every vocabulary: MergeInv, the conjunction of the safety     *)
(* properties of BpeMerge with SegmentsKnown, which only the invariant     *)
(* needs: it links a segment of several bytes to the merge that made it.   *)
(***************************************************************************)
EXTENDS BpeMerge, SequenceLemmas

(* Every segment of two or more bytes was merged because it has a rank.    *)
SegmentsKnown ==
  \A k \in 1 .. Len(parts) - 1 :
    parts[k + 1].start = parts[k].start + 1 \/ Segment(k) \in DOMAIN ranks

(* PartsTyped: what the variables hold, phase by phase.                    *)
PartsTyped ==
  /\ piece \in Seq(Byte) /\ ranks \in RankTables
  /\ parts \in Seq([start : 0 .. Len(piece), rank : 0 .. NoRank])
  /\ phase \in {"start", "merge", "done", "thrown"}
  /\ phase = "start" => parts = <<>>
  /\ phase \in {"merge", "thrown"} => parts # <<>>

(* The inductive invariant.                                                *)
MergeInv == PartsTyped /\ PartsCoverPiece /\ CachedRanksFresh /\ SegmentsKnown
            /\ ThrowsOnlyOnUnknownByte

----------------------------------------------------------------------------
(* A look-up yields a rank, or NoRank for what is no token.                *)
LEMMA RankTyped == ASSUME ranks \in RankTables, NEW s PROVE RankOf(s) \in 0 .. NoRank
BY BpeAssumption DEF RankOf

(* So does get_rank, whatever pair it is asked for.                        *)
LEMMA GetRankTyped ==
  ASSUME ranks \in RankTables, NEW ps, NEW k, NEW skip
  PROVE  GetRank(ps, k, skip) \in 0 .. NoRank
<1>1. NoRank \in 0 .. NoRank
  BY BpeAssumption
<1> QED BY <1>1, RankTyped DEF GetRank

(* vector::erase of one element: the elements behind it move one place.    *)
LEMMA RemoveAtFacts ==
  ASSUME NEW S, NEW s \in Seq(S), NEW i \in 1 .. Len(s)
  PROVE  /\ RemoveAt(s, i) \in Seq(S)
         /\ Len(RemoveAt(s, i)) = Len(s) - 1
         /\ \A k \in 1 .. Len(s) - 1 : RemoveAt(s, i)[k] = IF k < i THEN s[k] ELSE s[k + 1]
<1> DEFINE front == SubSeq(s, 1, i - 1)
           back  == SubSeq(s, i + 1, Len(s))
<1>1. /\ front \in Seq(S) /\ Len(front) = i - 1
      /\ \A k \in 1 .. i - 1 : front[k] = s[k]
  OBVIOUS
<1>2. /\ back \in Seq(S) /\ Len(back) = Len(s) - i
      /\ \A k \in 1 .. Len(s) - i : back[k] = s[i + k]
  OBVIOUS
<1>3. RemoveAt(s, i) = front \o back
  BY DEF RemoveAt
<1> HIDE DEF front, back
<1>4. /\ front \o back \in Seq(S) /\ Len(front \o back) = Len(s) - 1
  BY <1>1, <1>2
<1>5. ASSUME NEW k \in 1 .. Len(s) - 1
      PROVE (front \o back)[k] = IF k < i THEN s[k] ELSE s[k + 1]
  <2>1. CASE k < i
    BY <2>1, <1>1, <1>2
  <2>2. CASE k >= i
    <3>1. (front \o back)[k] = back[k - (i - 1)]
      BY <2>2, <1>1, <1>2, SMTT(30)
    <3>2. k - (i - 1) \in 1 .. Len(s) - i
      BY <2>2
    <3> QED BY <2>2, <3>1, <3>2, <1>2
  <2>3. k < i \/ k >= i
    OBVIOUS
  <2> QED BY <2>1, <2>2, <2>3
<1> QED BY <1>3, <1>4, <1>5

(* The invariant before byte_pair_encode has looked at the piece.          *)
LEMMA InitHolds == Init => MergeInv
<1> SUFFICES ASSUME Init PROVE MergeInv
  OBVIOUS
<1>1. PartsTyped
  BY BpeAssumption DEF Init, PartsTyped
<1> QED BY <1>1 DEF Init, MergeInv, PartsCoverPiece, CachedRanksFresh, SegmentsKnown,
                  ThrowsOnlyOnUnknownByte

(* The parts the loop starts from, one per byte, with their first ranks.   *)
LEMMA BeginStep == MergeInv /\ Begin => MergeInv'
<1> SUFFICES ASSUME MergeInv, Begin PROVE MergeInv'
  OBVIOUS
<1> DEFINE n == Len(piece)
<1>1. piece \in Seq(Byte) /\ ranks \in RankTables /\ n \in Nat /\ piece' = piece /\ ranks' = ranks
  BY DEF MergeInv, PartsTyped, Begin
<1>2. /\ parts' = [k \in 1 .. n + 1 |-> [start |-> k - 1, rank |-> GetRank(Split, k, 0)]]
      /\ phase' = "merge"
  BY DEF Begin, Split
<1>3. /\ parts' \in Seq([start : 0 .. n, rank : 0 .. NoRank])
      /\ Len(parts') = n + 1 /\ DOMAIN parts' = 1 .. n + 1
      /\ \A k \in 1 .. n + 1 : parts'[k].start = k - 1 /\ parts'[k].rank = GetRank(Split, k, 0)
  <2>1. \A k \in 1 .. n + 1 : [start |-> k - 1, rank |-> GetRank(Split, k, 0)]
                                  \in [start : 0 .. n, rank : 0 .. NoRank]
    BY <1>1, GetRankTyped
  <2>2. n + 1 \in Nat
    BY <1>1
  <2> QED BY <1>2, <2>1, <2>2, <1>1
<1>4. Len(Split) = n + 1 /\ \A k \in 1 .. n + 1 : Split[k].start = k - 1
  BY <1>1 DEF Split
<1>5. PartsTyped'
  BY <1>1, <1>2, <1>3 DEF PartsTyped
<1>6. n = Len(piece')
  BY <1>1
<1> HIDE DEF n
<1>7. ASSUME NEW k \in 1 .. Len(parts') - 1
      PROVE k \in Int /\ parts'[k].start = k - 1 /\ parts'[k + 1].start = k
  <2>1. k \in 1 .. n + 1 /\ k + 1 \in 1 .. n + 1 /\ (k + 1) - 1 = k
    BY <1>1, <1>3
  <2> QED BY <1>3, <2>1
<1>8. PartsCoverPiece'
  <2>1. parts'[1].start = 0 /\ parts'[n + 1].start = n
    <3>1. 1 \in 1 .. n + 1 /\ n + 1 \in 1 .. n + 1 /\ (n + 1) - 1 = n
      BY <1>1
    <3>2. parts'[1].start = 1 - 1
      BY <1>3, <3>1
    <3>3. parts'[n + 1].start = (n + 1) - 1
      BY <1>3, <3>1
    <3> QED BY <3>1, <3>2, <3>3
  <2>2. \A k \in 1 .. Len(parts') - 1 : parts'[k].start < parts'[k + 1].start
    <3> TAKE k \in 1 .. Len(parts') - 1
    <3>1. k \in Int /\ parts'[k].start = k - 1 /\ parts'[k + 1].start = k
      BY <1>7
    <3> QED BY <3>1
  <2> QED BY <1>3, <1>6, <2>1, <2>2 DEF PartsCoverPiece
<1>9. SegmentsKnown'
  <2> SUFFICES ASSUME NEW k \in 1 .. Len(parts') - 1
               PROVE  parts'[k + 1].start = parts'[k].start + 1
    BY DEF SegmentsKnown
  <2>1. k \in Int /\ parts'[k].start = k - 1 /\ parts'[k + 1].start = k
    BY <1>7
  <2> QED BY <2>1
<1>10. ASSUME NEW k \in 1 .. n + 1 PROVE parts'[k].rank = GetRank(parts, k, 0)'
  <2>1. CASE k + 2 <= n + 1
    <3>1. k + 0 + 2 \in 1 .. n + 1 /\ k + 0 + 2 <= n + 1
      BY <2>1, <1>1
    <3>2. parts'[k].start = Split[k].start /\ parts'[k + 0 + 2].start = Split[k + 0 + 2].start
      BY <3>1, <1>3, <1>4
    <3> QED BY <1>1, <1>3, <1>4, <3>1, <3>2 DEF GetRank, RankOf, Sub
  <2>2. CASE ~(k + 2 <= n + 1)
    <3>1. ~(k + 0 + 2 <= n + 1)
      BY <2>2, <1>1
    <3> QED BY <1>3, <1>4, <3>1 DEF GetRank
  <2> QED BY <2>1, <2>2
<1>11. CachedRanksFresh'
  BY <1>3, <1>10 DEF CachedRanksFresh
<1> QED BY <1>2, <1>5, <1>8, <1>9, <1>11 DEF MergeInv, ThrowsOnlyOnUnknownByte

(* What a merge leaves: one part less, the starts behind it one place      *)
(* earlier, and two ranks looked up again.                                 *)
LEMMA MergedParts ==
  ASSUME PartsTyped, NEW i \in 1 .. Len(parts) - 1, parts' = Merged(i)
  PROVE  /\ parts' \in Seq([start : 0 .. Len(piece), rank : 0 .. NoRank])
         /\ Len(parts') = Len(parts) - 1
         /\ \A k \in 1 .. Len(parts) - 1 :
              /\ k <= i => parts'[k].start = parts[k].start
              /\ k > i => parts'[k] = parts[k + 1]
              /\ k \in {i - 1, i} => parts'[k].rank = GetRank(parts, k, 1)
              /\ k < i - 1 => parts'[k].rank = parts[k].rank
<1> DEFINE P == [start : 0 .. Len(piece), rank : 0 .. NoRank]
           looked == [k \in DOMAIN parts |->
                        IF k \in {i - 1, i} THEN [parts[k] EXCEPT !.rank = GetRank(parts, k, 1)]
                                            ELSE parts[k]]
<1>1. parts \in Seq(P) /\ ranks \in RankTables
  BY DEF PartsTyped
<1> HIDE DEF P
<1>2. Len(parts) \in Nat /\ DOMAIN parts = 1 .. Len(parts) /\ \A k \in DOMAIN parts : parts[k] \in P
  BY <1>1
<1>3. \A k \in DOMAIN parts : looked[k] \in P
  <2> SUFFICES ASSUME NEW k \in DOMAIN parts PROVE looked[k] \in P
    OBVIOUS
  <2>1. parts[k] \in P /\ GetRank(parts, k, 1) \in 0 .. NoRank
    BY <1>1, <1>2, GetRankTyped
  <2>2. [parts[k] EXCEPT !.rank = GetRank(parts, k, 1)] \in P
    BY <2>1 DEF P
  <2> QED BY <2>1, <2>2
<1>4. looked \in Seq(P) /\ Len(looked) = Len(parts)
  BY <1>2, <1>3
<1>5. \A k \in 1 .. Len(parts) :
         /\ looked[k].start = parts[k].start
         /\ k \in {i - 1, i} => looked[k].rank = GetRank(parts, k, 1)
         /\ k \notin {i - 1, i} => looked[k] = parts[k]
  BY <1>2 DEF P
<1>6. parts' = RemoveAt(looked, i + 1)
  BY DEF Merged
<1> HIDE DEF looked
<1>7. i + 1 \in 1 .. Len(looked) /\ i \in Int
  BY <1>2, <1>4
<1>8. /\ parts' \in Seq(P) /\ Len(parts') = Len(parts) - 1
      /\ \A k \in 1 .. Len(parts) - 1 : parts'[k] = IF k < i + 1 THEN looked[k] ELSE looked[k + 1]
  BY <1>4, <1>6, <1>7, RemoveAtFacts
<1>9. ASSUME NEW k \in 1 .. Len(parts) - 1
      PROVE  /\ k <= i => parts'[k].start = parts[k].start
             /\ k > i => parts'[k] = parts[k + 1]
             /\ k \in {i - 1, i} => parts'[k].rank = GetRank(parts, k, 1)
             /\ k < i - 1 => parts'[k].rank = parts[k].rank
  <2>1. k \in 1 .. Len(parts) /\ k + 1 \in 1 .. Len(parts) /\ k \in Int
    BY <1>2
  <2>2. CASE k <= i
    <3>1. parts'[k] = looked[k]
      BY <2>1, <2>2, <1>7, <1>8
    <3> QED BY <3>1, <2>1, <2>2, <1>5, <1>7
  <2>3. CASE k > i
    <3>1. parts'[k] = looked[k + 1] /\ k + 1 \notin {i - 1, i}
      <4>1. ~(k < i + 1) /\ k + 1 \notin {i - 1, i}
        BY <2>1, <2>3, <1>7
      <4> QED BY <4>1, <1>8
    <3>2. looked[k + 1] = parts[k + 1]
      BY <2>1, <3>1, <1>5
    <3>3. ~(k <= i) /\ k \notin {i - 1, i} /\ ~(k < i - 1)
      BY <2>1, <2>3, <1>7
    <3> QED BY <3>1, <3>2, <3>3
  <2> QED BY <2>1, <2>2, <2>3, <1>7
<1> QED BY <1>8, <1>9 DEF P

(* A pair that is merged has a rank, and the part behind it is not the     *)
(* last.                                                                   *)
LEMMA MinimumRanked ==
  ASSUME MergeInv, NEW i, IsMinimum(i)
  PROVE  /\ i \in 1 .. Len(parts) - 1 /\ i + 2 <= Len(parts) /\ i \in Int
         /\ Sub(parts[i].start, parts[i + 2].start) \in DOMAIN ranks
<1>1. parts \in Seq([start : 0 .. Len(piece), rank : 0 .. NoRank])
  BY DEF MergeInv, PartsTyped
<1>2. i \in 1 .. Len(parts) - 1 /\ parts[i].rank # NoRank /\ i \in DOMAIN parts /\ i \in Int
  BY <1>1 DEF IsMinimum
<1>3. GetRank(parts, i, 0) # NoRank
  BY <1>2 DEF MergeInv, CachedRanksFresh
<1>4. i + 0 + 2 = i + 2
  BY <1>2
<1>5. i + 2 <= Len(parts) /\ RankOf(Sub(parts[i].start, parts[i + 2].start)) # NoRank
  BY <1>3, <1>4 DEF GetRank
<1> QED BY <1>2, <1>5 DEF RankOf

(* One merge: each conjunct of the invariant, the ranks by the place of    *)
(* the part before, at or behind the merged pair.                          *)
LEMMA MergeStep == MergeInv /\ Merge => MergeInv'
<1> SUFFICES ASSUME MergeInv, Merge PROVE MergeInv'
  OBVIOUS
<1> DEFINE n == Len(parts)
<1>1. /\ piece' = piece /\ ranks' = ranks /\ phase' = phase /\ phase = "merge"
      /\ PartsTyped /\ PartsCoverPiece /\ CachedRanksFresh /\ SegmentsKnown
  BY DEF MergeInv, Merge
<1>2. PICK i \in 1 .. Len(parts) : IsMinimum(i) /\ parts' = Merged(i)
  BY DEF Merge
<1>3. i \in 1 .. n - 1 /\ i + 2 <= n /\ i \in Int
      /\ Sub(parts[i].start, parts[i + 2].start) \in DOMAIN ranks
  BY <1>2, MinimumRanked
<1>4. /\ parts' \in Seq([start : 0 .. Len(piece), rank : 0 .. NoRank])
      /\ Len(parts') = n - 1
      /\ \A k \in 1 .. n - 1 :
           /\ k <= i => parts'[k].start = parts[k].start
           /\ k > i => parts'[k] = parts[k + 1]
           /\ k \in {i - 1, i} => parts'[k].rank = GetRank(parts, k, 1)
           /\ k < i - 1 => parts'[k].rank = parts[k].rank
  BY <1>1, <1>2, <1>3, MergedParts
<1>5. n \in Nat /\ n >= 3 /\ parts # <<>> /\ parts' # <<>>
      /\ \A k \in 1 .. n : parts[k].start \in Int
  <2> DEFINE P == [start : 0 .. Len(piece), rank : 0 .. NoRank]
  <2>1. parts \in Seq(P)
    BY <1>1 DEF PartsTyped
  <2> HIDE DEF P
  <2>2. n \in Nat /\ n >= 3
    BY <2>1, <1>3
  <2>3. ASSUME NEW k \in 1 .. n PROVE parts[k].start \in Int
    <3>1. parts[k] \in P
      BY <2>1
    <3>2. parts[k].start \in 0 .. Len(piece)
      BY <3>1 DEF P
    <3> QED BY <3>2
  <2>4. parts # <<>> /\ parts' # <<>>
    BY <2>2, <1>4
  <2> QED BY <2>2, <2>3, <2>4
<1>6. /\ parts[1].start = 0 /\ parts[n].start = Len(piece)
      /\ \A k \in 1 .. n - 1 : parts[k].start < parts[k + 1].start
  BY <1>1, <1>5 DEF PartsCoverPiece
<1>7. \A k \in 1 .. n : parts[k].rank = GetRank(parts, k, 0)
  BY <1>1, <1>5 DEF CachedRanksFresh, PartsTyped
<1>8. \A k \in 1 .. n - 1 : parts[k + 1].start = parts[k].start + 1
                             \/ Sub(parts[k].start, parts[k + 1].start) \in DOMAIN ranks
  BY <1>1 DEF SegmentsKnown, Segment
<1> HIDE DEF n
<1>9. PartsTyped'
  BY <1>1, <1>4, <1>5 DEF PartsTyped
<1>10. ASSUME NEW k \in 1 .. n - 1 PROVE k \in Int /\ 1 <= k /\ k < n /\ k + 1 \in 1 .. n
  BY <1>5
<1>11. ASSUME NEW k \in 1 .. n - 2
       PROVE  /\ k < i => parts'[k].start = parts[k].start /\ parts'[k + 1].start = parts[k + 1].start
              /\ k = i => parts'[k].start = parts[i].start /\ parts'[k + 1].start = parts[i + 2].start
              /\ k > i => parts'[k].start = parts[k + 1].start /\ parts'[k + 1].start = parts[k + 2].start
  <2>1. k \in 1 .. n - 1 /\ k + 1 \in 1 .. n - 1 /\ (k + 1) + 1 = k + 2 /\ k \in Int
    BY <1>5
  <2>2. CASE k < i
    <3>1. k <= i /\ k + 1 <= i /\ ~(k = i) /\ ~(k > i)
      BY <2>1, <2>2, <1>3
    <3>2. parts'[k].start = parts[k].start
      BY <1>4, <2>1, <3>1
    <3>3. parts'[k + 1].start = parts[k + 1].start
      BY <1>4, <2>1, <3>1
    <3> QED BY <3>1, <3>2, <3>3
  <2>3. CASE k = i
    <3>1. k <= i /\ k + 1 > i /\ ~(k < i) /\ ~(k > i)
      BY <2>1, <2>3, <1>3
    <3>2. parts'[k].start = parts[k].start
      BY <1>4, <2>1, <3>1
    <3>3. parts'[k + 1] = parts[(k + 1) + 1]
      BY <1>4, <2>1, <3>1
    <3> QED BY <3>1, <3>2, <3>3, <2>1, <2>3
  <2>4. CASE k > i
    <3>1. k + 1 > i /\ ~(k < i) /\ ~(k = i)
      BY <2>1, <2>4, <1>3
    <3>2. parts'[k] = parts[k + 1]
      BY <1>4, <2>1, <2>4
    <3>3. parts'[k + 1] = parts[(k + 1) + 1]
      BY <1>4, <2>1, <3>1
    <3> QED BY <3>1, <3>2, <3>3, <2>1
  <2> QED BY <2>1, <2>2, <2>3, <2>4, <1>3
<1>12. PartsCoverPiece'
  <2>1. parts'[1].start = 0
    <3>1. 1 \in 1 .. n - 1 /\ 1 <= i
      BY <1>3, <1>5
    <3> QED BY <3>1, <1>4, <1>6
  <2>2. parts'[n - 1].start = Len(piece)
    <3>1. n - 1 \in 1 .. n - 1 /\ n - 1 > i /\ (n - 1) + 1 = n
      BY <1>3, <1>5
    <3>2. parts'[n - 1] = parts[n]
      BY <3>1, <1>4
    <3> QED BY <3>2, <1>6
  <2>3. ASSUME NEW k \in 1 .. Len(parts') - 1
        PROVE  parts'[k].start < parts'[k + 1].start
    <3>1. k \in 1 .. n - 2 /\ k \in 1 .. n - 1 /\ k + 1 \in 1 .. n - 1 /\ (k + 1) + 1 = k + 2
          /\ k \in 1 .. n /\ k + 1 \in 1 .. n /\ k + 2 \in 1 .. n /\ k \in Int
      BY <1>4, <1>5
    <3>2. parts[k].start < parts[k + 1].start /\ parts[k + 1].start < parts[k + 2].start
      BY <3>1, <1>6
    <3>3. parts[k].start \in Int /\ parts[k + 1].start \in Int /\ parts[k + 2].start \in Int
      BY <3>1, <1>5
    <3>4. CASE k < i
      BY <3>1, <3>2, <3>4, <1>11
    <3>5. CASE k = i
      <4>1. parts'[k].start = parts[k].start /\ parts'[k + 1].start = parts[k + 2].start
        BY <3>1, <3>5, <1>11
      <4> QED BY <4>1, <3>2, <3>3
    <3>6. CASE k > i
      BY <3>1, <3>2, <3>6, <1>11
    <3> QED BY <3>1, <3>4, <3>5, <3>6, <1>3
  <2> QED BY <1>1, <1>4, <2>1, <2>2, <2>3 DEF PartsCoverPiece
<1>13. SegmentsKnown'
  <2> SUFFICES ASSUME NEW k \in 1 .. Len(parts') - 1
               PROVE  \/ parts'[k + 1].start = parts'[k].start + 1
                      \/ Sub(parts'[k].start, parts'[k + 1].start) \in DOMAIN ranks
    BY <1>1 DEF SegmentsKnown, Segment, Sub
  <2>1. k \in 1 .. n - 2 /\ k \in 1 .. n - 1 /\ k + 1 \in 1 .. n - 1 /\ (k + 1) + 1 = k + 2
        /\ k \in Int
    BY <1>4, <1>5
  <2>2. CASE k < i
    <3>1. parts'[k].start = parts[k].start /\ parts'[k + 1].start = parts[k + 1].start
      BY <2>1, <2>2, <1>11
    <3> QED BY <3>1, <2>1, <1>8
  <2>3. CASE k = i
    <3>1. parts'[k].start = parts[i].start /\ parts'[k + 1].start = parts[i + 2].start
      BY <2>1, <2>3, <1>11
    <3> QED BY <3>1, <1>3
  <2>4. CASE k > i
    <3>1. parts'[k].start = parts[k + 1].start /\ parts'[k + 1].start = parts[k + 2].start
      BY <2>1, <2>4, <1>11
    <3>2. \/ parts[(k + 1) + 1].start = parts[k + 1].start + 1
          \/ Sub(parts[k + 1].start, parts[(k + 1) + 1].start) \in DOMAIN ranks
      BY <2>1, <1>8
    <3> QED BY <3>1, <3>2, <2>1
  <2> QED BY <2>1, <2>2, <2>3, <2>4, <1>3
<1>14. ASSUME NEW k \in 1 .. n - 1
       PROVE  parts'[k].rank = IF k + 2 <= n - 1 THEN RankOf(Sub(parts'[k].start, parts'[k + 2].start))
                                                 ELSE NoRank
  <2>1. k \in 1 .. n /\ k + 1 \in 1 .. n /\ k \in Int /\ k + 1 + 2 = k + 3 /\ k + 1 + 0 + 2 = k + 3
        /\ k + 0 + 2 = k + 2 /\ (k + 2) + 1 = k + 3 /\ k + 2 > k
    BY <1>5
  <2>2. k + 2 <= n - 1 => k + 2 \in 1 .. n - 1 /\ k + 3 <= n
    BY <1>5
  <2>3. ~(k + 2 <= n - 1) => ~(k + 3 <= n)
    BY <1>5
  <2>4. CASE k < i - 1
    <3>1. k + 2 <= i /\ k <= i /\ k + 2 <= n - 1 /\ k + 2 <= n /\ ~(k \in {i - 1, i})
      BY <2>1, <2>4, <1>3, <1>5, SMTT(30)
    <3>2. parts'[k].start = parts[k].start /\ parts'[k].rank = parts[k].rank
      BY <3>1, <2>4, <1>4
    <3>3. parts'[k + 2].start = parts[k + 2].start
      BY <3>1, <2>2, <1>4
    <3>4. parts[k].rank = RankOf(Sub(parts[k].start, parts[k + 2].start))
      BY <2>1, <3>1, <1>7 DEF GetRank, n
    <3> QED BY <3>1, <3>2, <3>3, <3>4
  <2>5. CASE k \in {i - 1, i}
    <3>1. k <= i /\ k + 2 > i
      BY <2>1, <2>5, <1>3
    <3>2. parts'[k].start = parts[k].start /\ parts'[k].rank = GetRank(parts, k, 1)
      BY <3>1, <2>5, <1>4
    <3>3. GetRank(parts, k, 1) = IF k + 3 <= n THEN RankOf(Sub(parts[k].start, parts[k + 3].start))
                                               ELSE NoRank
      BY <2>1 DEF GetRank, n
    <3>4. k + 2 <= n - 1 => parts'[k + 2] = parts[k + 3]
      BY <2>1, <2>2, <3>1, <1>4
    <3> QED BY <2>2, <2>3, <3>2, <3>3, <3>4
  <2>6. CASE k > i
    <3>1. k + 2 > i
      BY <2>1, <2>6, <1>3
    <3>2. parts'[k] = parts[k + 1]
      BY <2>6, <1>4
    <3>3. parts[k + 1].rank = IF k + 3 <= n THEN RankOf(Sub(parts[k + 1].start, parts[k + 3].start))
                                            ELSE NoRank
      BY <2>1, <1>7 DEF GetRank, n
    <3>4. k + 2 <= n - 1 => parts'[k + 2] = parts[k + 3]
      BY <2>1, <2>2, <3>1, <1>4
    <3> QED BY <2>2, <2>3, <3>2, <3>3, <3>4
  <2> QED BY <2>1, <2>4, <2>5, <2>6, <1>3
<1>15. CachedRanksFresh'
  <2> SUFFICES ASSUME NEW k \in DOMAIN parts' PROVE parts'[k].rank = GetRank(parts, k, 0)'
    BY DEF CachedRanksFresh
  <2>1. k \in 1 .. n - 1 /\ k + 0 + 2 = k + 2
    BY <1>4, <1>5
  <2> QED BY <2>1, <1>1, <1>4, <1>14 DEF GetRank, RankOf, Sub
<1> QED BY <1>1, <1>9, <1>12, <1>13, <1>15 DEF MergeInv, ThrowsOnlyOnUnknownByte

(* When no pair has a rank, a part without one is a single byte.           *)
LEMMA ThrowStep == MergeInv /\ Throw => MergeInv'
<1> SUFFICES ASSUME MergeInv, Throw PROVE MergeInv'
  OBVIOUS
<1>1. /\ piece' = piece /\ ranks' = ranks /\ parts' = parts /\ phase' = "thrown" /\ parts # <<>>
      /\ PartsTyped /\ PartsCoverPiece /\ CachedRanksFresh /\ SegmentsKnown
  BY DEF MergeInv, Throw, Exhausted, PartsTyped
<1>2. PICK k \in 1 .. Len(parts) - 1 : Segment(k) \notin DOMAIN ranks
  BY DEF Throw, Segments
<1>3. parts[k + 1].start = parts[k].start + 1
  BY <1>1, <1>2 DEF SegmentsKnown
<1> DEFINE P == [start : 0 .. Len(piece), rank : 0 .. NoRank]
<1>4. parts \in Seq(P) /\ piece \in Seq(Byte)
  BY <1>1 DEF PartsTyped
<1> HIDE DEF P
<1>5. k \in 1 .. Len(parts) /\ k + 1 \in 1 .. Len(parts)
  BY <1>4
<1>6. parts[k] \in P /\ parts[k + 1] \in P
  BY <1>4, <1>5
<1> DEFINE s == parts[k].start
<1>7. s \in 0 .. Len(piece) /\ parts[k + 1].start \in 0 .. Len(piece)
  BY <1>6 DEF P
<1>8. Segment(k) = SubSeq(piece, s + 1, s + 1)
  BY <1>3 DEF Segment, Sub
<1> HIDE DEF s
<1>9. s + 1 \in DOMAIN piece /\ SubSeq(piece, s + 1, s + 1) = <<piece[s + 1]>>
  <2>1. parts[k + 1].start = s + 1
    BY <1>3 DEF s
  <2>2. s \in Nat /\ s + 1 \in 1 .. Len(piece)
    BY <1>4, <1>7, <2>1
  <2>3. DOMAIN piece = 1 .. Len(piece)
    BY <1>4
  <2>4. ASSUME NEW j \in 1 .. Len(piece) PROVE SubSeq(piece, j, j) = <<piece[j]>>
    <3>1. SubSeq(piece, j, j) \in Seq(Byte) /\ Len(SubSeq(piece, j, j)) = 1
          /\ SubSeq(piece, j, j)[1] = piece[j]
      BY <1>4
    <3>2. \A q \in Seq(Byte) : Len(q) = 1 => q = <<q[1]>>
      OBVIOUS
    <3> QED BY <3>1, <3>2
  <2> QED BY <2>2, <2>3, <2>4
<1>10. ThrowsOnlyOnUnknownByte'
  BY <1>1, <1>2, <1>8, <1>9 DEF ThrowsOnlyOnUnknownByte
<1>11. PartsTyped' /\ PartsCoverPiece' /\ CachedRanksFresh' /\ SegmentsKnown'
  BY <1>1 DEF PartsTyped, PartsCoverPiece, CachedRanksFresh, SegmentsKnown, GetRank, RankOf, Sub, Segment
<1> QED BY <1>10, <1>11 DEF MergeInv

(* One case per action; the other actions leave the parts alone.           *)
LEMMA MergeInvInductive == MergeInv /\ [Next]_vars => MergeInv'
<1> SUFFICES ASSUME MergeInv, [Next]_vars PROVE MergeInv'
  OBVIOUS
<1> USE DEF MergeInv, PartsTyped, PartsCoverPiece, CachedRanksFresh, SegmentsKnown,
            ThrowsOnlyOnUnknownByte, GetRank, RankOf, Sub, Segment
<1>1. CASE SingleByte
  BY <1>1 DEF SingleByte
<1>2. CASE Emit
  BY <1>2 DEF Emit, Exhausted
<1>3. CASE UNCHANGED vars
  BY <1>3 DEF vars
<1>4. CASE Finished
  BY <1>4 DEF Finished, vars
<1> QED BY <1>1, <1>2, <1>3, <1>4, BeginStep, MergeStep, ThrowStep DEF Next

(* Hence every state of the loop satisfies it.                             *)
LEMMA MergeInvHolds == Spec => []MergeInv
BY InitHolds, MergeInvInductive, PTL DEF Spec

(* Whatever the piece and the vocabulary, the parts cut the piece into     *)
(* non-empty segments throughout _byte_pair_merge.                         *)
THEOREM PartsAlwaysCover == Spec => []PartsCoverPiece
<1>1. MergeInv => PartsCoverPiece
  BY DEF MergeInv
<1> QED BY <1>1, MergeInvHolds, PTL

(* Whatever the piece and the vocabulary, the two look-ups of a merge are  *)
(* enough: no cached rank is ever stale.                                   *)
THEOREM RanksAlwaysFresh == Spec => []CachedRanksFresh
<1>1. MergeInv => CachedRanksFresh
  BY DEF MergeInv
<1> QED BY <1>1, MergeInvHolds, PTL

(* Whatever the piece and the vocabulary, byte_pair_encode throws only if  *)
(* a byte of the piece is no token.                                        *)
THEOREM ThrowsOnUnknownByte == Spec => []ThrowsOnlyOnUnknownByte
<1>1. MergeInv => ThrowsOnlyOnUnknownByte
  BY DEF MergeInv
<1> QED BY <1>1, MergeInvHolds, PTL

----------------------------------------------------------------------------
(***************************************************************************)
(* _byte_pair_merge with its cached ranks (token/core_bpe.cpp 86-204)      *)
(* implements byte-pair encoding as BpeReference defines it, for every     *)
(* piece and every vocabulary: the segments between the parts are the      *)
(* tokens, the leftmost minimum of the cached ranks is the pair the        *)
(* definition merges, and the loop stops exactly when no pair has a rank.  *)
(***************************************************************************)

(* The pairs that have a cached rank.                                      *)
Ranked == {i \in 1 .. Len(parts) - 1 : parts[i].rank # NoRank}

(* Before merging the definition's tokens are the bytes, then segments.    *)
LEMMA TokensShape ==
  ASSUME MergeInv, parts # <<>>
  PROVE  /\ Len(parts) \in Nat /\ Len(parts) >= 1
         /\ tokensBar = Segments /\ Len(tokensBar) = Len(parts) - 1
         /\ \A k \in 1 .. Len(parts) - 1 : tokensBar[k] = Segment(k)
         /\ \A k \in 1 .. Len(parts) : /\ parts[k].start \in 0 .. Len(piece)
                                       /\ parts[k].rank \in 0 .. NoRank
<1> DEFINE P == [start : 0 .. Len(piece), rank : 0 .. NoRank]
<1>1. parts \in Seq(P)
  BY DEF MergeInv, PartsTyped
<1>2. \A p \in P : p.start \in 0 .. Len(piece) /\ p.rank \in 0 .. NoRank
  OBVIOUS
<1> HIDE DEF P
<1>3. Len(parts) \in Nat /\ Len(parts) >= 1 /\ \A k \in 1 .. Len(parts) : parts[k] \in P
  BY <1>1
<1>4. tokensBar = Segments /\ DOMAIN Segments = 1 .. Len(parts) - 1 /\ Len(parts) - 1 \in Nat
  BY <1>3 DEF tokensBar, Segments
<1>5. Len(Segments) = Len(parts) - 1
  BY <1>4 DEF Segments
<1> QED BY <1>2, <1>3, <1>4, <1>5 DEF Segments

(* Two neighbouring segments joined are the bytes the cached rank is for.  *)
LEMMA JoinedSegments ==
  ASSUME MergeInv, parts # <<>>, NEW k \in 1 .. Len(parts) - 2
  PROVE  /\ Reference!Joined(k) = Sub(parts[k].start, parts[k + 2].start)
         /\ parts[k].rank = RankOf(Reference!Joined(k))
<1> DEFINE a == parts[k].start
           b == parts[k + 1].start
           c == parts[k + 2].start
<1>1. /\ k \in Int /\ k \in 1 .. Len(parts) - 1 /\ k + 1 \in 1 .. Len(parts) - 1
      /\ k \in 1 .. Len(parts) /\ k + 1 \in 1 .. Len(parts) /\ k + 2 \in 1 .. Len(parts)
      /\ (k + 1) + 1 = k + 2 /\ k + 0 + 2 = k + 2 /\ k + 2 <= Len(parts)
  BY TokensShape
<1>2. a \in 0 .. Len(piece) /\ b \in 0 .. Len(piece) /\ c \in 0 .. Len(piece)
  BY <1>1, TokensShape
<1>3. a < b /\ b < c
  BY <1>1 DEF MergeInv, PartsCoverPiece
<1>4. Reference!Joined(k) = Sub(a, b) \o Sub(b, c)
  BY <1>1, TokensShape DEF Reference!Joined, Segment
<1>5. piece \in Seq(Byte)
  BY DEF MergeInv, PartsTyped
<1>6. parts[k].rank = RankOf(Sub(a, c))
  BY <1>1, TokensShape DEF MergeInv, CachedRanksFresh, GetRank
<1> HIDE DEF a, b, c
<1>7. Sub(a, b) \o Sub(b, c) = Sub(a, c)
  <2>1. a + 1 \in 1 .. Len(piece) + 1 /\ b \in (a + 1) - 1 .. Len(piece) /\ c \in b .. Len(piece)
    BY <1>2, <1>3
  <2> QED BY <1>5, <2>1, ConcatAdjacentSubSeq DEF Sub
<1> QED BY <1>4, <1>6, <1>7 DEF a, c

(* The pairs the definition may merge are those with a cached rank.        *)
LEMMA RankedAreMergeable ==
  ASSUME MergeInv, parts # <<>>
  PROVE  /\ Ranked = Reference!Mergeable
         /\ \A k \in Ranked : parts[k].rank = ranks[Reference!Joined(k)]
<1>1. \A s \in DOMAIN ranks : ranks[s] # NoRank
  BY BpeAssumption DEF MergeInv, PartsTyped
<1>2. Len(parts) \in Nat /\ Len(tokensBar) = Len(parts) - 1
  BY TokensShape
<1>3. ASSUME NEW k \in 1 .. Len(parts) - 1
      PROVE  k \in Ranked => k \in 1 .. Len(parts) - 2
  <2>1. k \in 1 .. Len(parts) /\ k + 0 + 2 = k + 2
    BY <1>2
  <2>2. parts[k].rank = GetRank(parts, k, 0)
    BY <2>1 DEF MergeInv, CachedRanksFresh, PartsTyped
  <2>3. k \in Ranked => k + 2 <= Len(parts)
    BY <2>1, <2>2 DEF GetRank, Ranked
  <2> QED BY <2>3, <1>2
<1>4. ASSUME NEW k \in 1 .. Len(parts) - 2
      PROVE  /\ k \in Ranked <=> Reference!Joined(k) \in DOMAIN ranks
             /\ k \in Ranked => parts[k].rank = ranks[Reference!Joined(k)]
  <2>1. k \in 1 .. Len(parts) - 1
    BY <1>2
  <2>2. parts[k].rank = RankOf(Reference!Joined(k))
    BY JoinedSegments
  <2> QED BY <2>1, <2>2, <1>1 DEF RankOf, Ranked
<1>5. Reference!Mergeable = {k \in 1 .. Len(parts) - 2 : Reference!Joined(k) \in DOMAIN ranks}
  <2>1. Len(tokensBar) - 1 = Len(parts) - 2
    BY <1>2
  <2> QED BY <2>1 DEF Reference!Mergeable
<1>6. 1 .. Len(parts) - 2 \subseteq 1 .. Len(parts) - 1
  BY <1>2
<1> QED BY <1>3, <1>4, <1>5, <1>6 DEF Ranked

(* The scan finds a pair whenever one has a rank: the least rank first,    *)
(* then the least place with that rank.                                    *)
LEMMA ScanFindsPair ==
  ASSUME MergeInv, parts # <<>>, Ranked # {}
  PROVE  \E i \in 1 .. Len(parts) : IsMinimum(i)
<1> DEFINE found == {parts[k].rank : k \in Ranked}
<1>1. /\ Len(parts) \in Nat /\ NoRank \in Nat
      /\ \A k \in 1 .. Len(parts) - 1 : parts[k].rank \in 0 .. NoRank
  BY TokensShape, BpeAssumption
<1>2. found \in SUBSET Nat /\ found # {}
  <2>1. ASSUME NEW k \in Ranked PROVE parts[k].rank \in Nat
    BY <1>1 DEF Ranked
  <2> QED BY <2>1
<1>3. PICK r \in found : \A q \in found : r <= q
  <2> HIDE DEF found
  <2> QED BY <1>2, LeastElement
<1> DEFINE places == {k \in Ranked : parts[k].rank = r}
<1>4. places \in SUBSET Nat /\ places # {}
  <2>1. Ranked \subseteq Nat
    BY <1>1 DEF Ranked
  <2>2. \E k \in Ranked : parts[k].rank = r
    OBVIOUS
  <2> QED BY <2>1, <2>2
<1>5. PICK i \in places : \A k \in places : i <= k
  <2> HIDE DEF places
  <2> QED BY <1>4, LeastElement
<1>6. i \in 1 .. Len(parts) - 1 /\ i \in 1 .. Len(parts) /\ parts[i].rank = r /\ r # NoRank
      /\ i \in Int /\ r \in 0 .. NoRank
  BY <1>1 DEF Ranked
<1>7. ASSUME NEW j \in 1 .. Len(parts) - 1 PROVE r <= parts[j].rank
  <2>1. CASE j \in Ranked
    BY <2>1, <1>3
  <2>2. CASE j \notin Ranked
    BY <2>2, <1>1, <1>6 DEF Ranked
  <2> QED BY <2>1, <2>2
<1>8. ASSUME NEW j \in 1 .. i - 1 PROVE r < parts[j].rank
  <2>1. j \in 1 .. Len(parts) - 1 /\ ~(i <= j)
    BY <1>1, <1>6
  <2>2. j \notin places
    BY <1>5, <2>1
  <2>3. parts[j].rank # r
    BY <2>1, <2>2, <1>6 DEF Ranked
  <2> QED BY <2>1, <2>3, <1>1, <1>6, <1>7
<1> QED BY <1>6, <1>7, <1>8 DEF IsMinimum

(* What the scan picks is what the definition merges: the lowest rank, and *)
(* among equals the leftmost.                                              *)
LEMMA ScanPicksFirst ==
  ASSUME MergeInv, parts # <<>>, NEW i, IsMinimum(i)
  PROVE  i \in Reference!Mergeable /\ \A j \in Reference!Mergeable : Reference!Before(i, j)
<1>1. i \in 1 .. Len(parts) - 1 /\ i \in Ranked /\ i \in Int
  BY TokensShape DEF IsMinimum, Ranked
<1>2. /\ Ranked = Reference!Mergeable
      /\ \A k \in Ranked : parts[k].rank = ranks[Reference!Joined(k)]
  BY RankedAreMergeable
<1>3. ASSUME NEW j \in Ranked PROVE Reference!Before(i, j)
  <2>1. j \in 1 .. Len(parts) - 1 /\ j \in Int /\ j \in 1 .. Len(parts) /\ i \in 1 .. Len(parts)
    BY <1>1, TokensShape DEF Ranked
  <2>2. parts[i].rank \in Int /\ parts[j].rank \in Int
    BY <2>1, TokensShape, BpeAssumption
  <2>3. parts[i].rank <= parts[j].rank
    BY <2>1 DEF IsMinimum
  <2>4. j < i => parts[i].rank < parts[j].rank
    <3>1. j < i => j \in 1 .. i - 1
      BY <2>1, <1>1
    <3> QED BY <3>1 DEF IsMinimum
  <2>5. parts[i].rank < parts[j].rank \/ (parts[i].rank = parts[j].rank /\ i <= j)
    <3> DEFINE p == parts[i].rank
               q == parts[j].rank
    <3>1. p \in Int /\ q \in Int /\ p <= q /\ (j < i => p < q)
      BY <2>2, <2>3, <2>4
    <3>2. i \in Int /\ j \in Int
      BY <2>1, <1>1
    <3> HIDE DEF p, q
    <3>3. p < q \/ (p = q /\ i <= j)
      BY <3>1, <3>2
    <3> QED BY <3>3 DEF p, q
  <2> QED BY <2>5, <1>1, <1>2 DEF Reference!Before
<1> QED BY <1>1, <1>2, <1>3

(* The initial states are those of the definition.                         *)
LEMMA InitMaps == Init => Reference!Init
BY DEF Init, Reference!Init, tokensBar, finishedBar

(* A merge of the loop is a merge of the definition.                       *)
LEMMA MergeMaps == MergeInv /\ MergeInv' /\ Merge => Reference!Merge
<1> SUFFICES ASSUME MergeInv, MergeInv', Merge PROVE Reference!Merge
  OBVIOUS
<1> DEFINE n == Len(parts)
<1>1. /\ piece' = piece /\ ranks' = ranks /\ phase' = phase /\ phase = "merge"
      /\ PartsTyped /\ parts # <<>>
  BY DEF MergeInv, Merge, PartsTyped
<1>2. PICK i \in 1 .. n : IsMinimum(i) /\ parts' = Merged(i)
  BY DEF Merge
<1>3. i \in 1 .. n - 1 /\ i + 2 <= n /\ i \in Int /\ n \in Nat
  BY <1>1, <1>2, MinimumRanked, TokensShape
<1>4. /\ Len(parts') = n - 1
      /\ \A k \in 1 .. n - 1 : /\ k <= i => parts'[k].start = parts[k].start
                               /\ k > i => parts'[k] = parts[k + 1]
  BY <1>1, <1>2, <1>3, MergedParts
<1>5. parts' # <<>>
  BY <1>3, <1>4
<1>6. /\ tokensBar' = [k \in 1 .. n - 2 |-> Sub(parts'[k].start, parts'[k + 1].start)]
  <2>1. Len(parts') - 1 = n - 2
    BY <1>3, <1>4
  <2> QED BY <1>1, <1>5, <2>1 DEF tokensBar, Segments, Segment, Sub
<1>7. /\ tokensBar = Segments /\ Len(tokensBar) = n - 1 /\ DOMAIN tokensBar = 1 .. n - 1
      /\ \A k \in 1 .. n - 1 : tokensBar[k] = Sub(parts[k].start, parts[k + 1].start)
  BY <1>1, TokensShape DEF Segment, Segments
<1>8. Reference!Joined(i) = Sub(parts[i].start, parts[i + 2].start)
  <2>1. i \in 1 .. n - 2
    BY <1>3
  <2> QED BY <1>1, <2>1, JoinedSegments
<1> DEFINE J == Reference!Joined(i)
           T == tokensBar
           merged == SubSeq(T, 1, i - 1) \o <<J>> \o SubSeq(T, i + 2, Len(T))
<1>9. tokensBar' = merged
  <2> DEFINE S == {T[k] : k \in 1 .. n - 1} \cup {J}
             front == SubSeq(T, 1, i - 1)
             back  == SubSeq(T, i + 2, Len(T))
  <2>1. /\ DOMAIN T = 1 .. n - 1 /\ n - 1 \in Nat /\ J \in S /\ \A k \in 1 .. n - 1 : T[k] \in S
        /\ T = [k \in 1 .. n - 1 |-> T[k]]
    BY <1>3, <1>7 DEF Segments
  <2> HIDE DEF S, T, J
  <2>2. T \in Seq(S) /\ J \in S /\ Len(T) = n - 1
    BY <2>1
  <2>3. /\ front \in Seq(S) /\ Len(front) = i - 1 /\ \A k \in 1 .. i - 1 : front[k] = T[k]
    BY <2>2, <1>3
  <2>4. /\ back \in Seq(S) /\ Len(back) = n - 2 - i
        /\ \A k \in 1 .. n - 2 - i : back[k] = T[i + 1 + k]
    BY <2>2, <1>3
  <2>5. merged = (front \o <<J>>) \o back
    OBVIOUS
  <2> HIDE DEF front, back, merged
  <2>6. /\ front \o <<J>> \in Seq(S) /\ Len(front \o <<J>>) = i
        /\ \A k \in 1 .. i : (front \o <<J>>)[k] = IF k < i THEN T[k] ELSE J
    BY <2>2, <2>3, <1>3
  <2> DEFINE head == front \o <<J>>
  <2> HIDE DEF head
  <2>7. /\ merged \in Seq(S) /\ Len(merged) = n - 2
        /\ \A k \in 1 .. n - 2 : merged[k] = IF k <= i THEN head[k] ELSE back[k - i]
    <3>1. head \in Seq(S) /\ Len(head) = i /\ merged = head \o back
      BY <2>5, <2>6 DEF head
    <3>2. Len(merged) = n - 2
      <4>1. Len(merged) = i + Len(back)
        BY <3>1, <2>4
      <4>2. i + (n - 2 - i) = n - 2
        BY <1>3
      <4> HIDE DEF n
      <4> QED BY <4>1, <4>2, <2>4
    <3>3. merged \in Seq(S)
      BY <3>1, <2>4
    <3>4. ASSUME NEW k \in 1 .. n - 2 PROVE merged[k] = IF k <= i THEN head[k] ELSE back[k - i]
      <4>1. \A k1 \in 1 .. Len(head) + Len(back) :
               (head \o back)[k1] = IF k1 <= Len(head) THEN head[k1] ELSE back[k1 - Len(head)]
        BY <3>1, <2>4
      <4>2. k \in 1 .. Len(head) + Len(back)
        BY <3>1, <2>4, <1>3
      <4> QED BY <4>1, <4>2, <3>1
    <3> QED BY <3>2, <3>3, <3>4
  <2>8. ASSUME NEW k \in 1 .. n - 2
        PROVE merged[k] = IF k < i THEN T[k] ELSE IF k = i THEN J ELSE T[k + 1]
    <3>1. k \in Int
      OBVIOUS
    <3>2. CASE k <= i
      BY <3>1, <3>2, <2>6, <2>7, <1>3 DEF head
    <3>3. CASE k > i
      <4>1. k - i \in 1 .. n - 2 - i /\ i + 1 + (k - i) = k + 1 /\ ~(k <= i) /\ ~(k < i) /\ k # i
        BY <3>1, <3>3, <1>3
      <4> QED BY <4>1, <2>4, <2>7
    <3> QED BY <3>1, <3>2, <3>3, <1>3
  <2>9. ASSUME NEW k \in 1 .. n - 2
        PROVE Sub(parts'[k].start, parts'[k + 1].start)
                = IF k < i THEN T[k] ELSE IF k = i THEN J ELSE T[k + 1]
    <3>1. /\ k \in Int /\ k \in 1 .. n - 1 /\ k + 1 \in 1 .. n - 1 /\ (k + 1) + 1 = k + 2
      BY <1>3
    <3>2. CASE k < i
      <4>1. k <= i /\ k + 1 <= i
        BY <3>1, <3>2, <1>3
      <4> QED BY <3>1, <3>2, <4>1, <1>4, <1>7 DEF T
    <3>3. CASE k = i
      <4>1. k <= i /\ k + 1 > i /\ ~(k < i)
        BY <3>1, <3>3, <1>3
      <4> QED BY <3>1, <3>3, <4>1, <1>4, <1>8 DEF J
    <3>4. CASE k > i
      <4>1. k + 1 > i /\ ~(k < i) /\ k # i
        BY <3>1, <3>4, <1>3
      <4> QED BY <3>1, <3>4, <4>1, <1>4, <1>7 DEF T
    <3> QED BY <3>1, <3>2, <3>3, <3>4, <1>3
  <2>10. merged = [k \in 1 .. n - 2 |-> merged[k]]
    <3>1. DOMAIN merged = 1 .. n - 2
      BY <2>7
    <3> QED BY <3>1, <2>7
  <2> QED BY <1>6, <2>8, <2>9, <2>10
<1>10. i \in Reference!Mergeable /\ \A j \in Reference!Mergeable : Reference!Before(i, j)
  BY <1>1, <1>2, ScanPicksFirst
<1>11. ~finishedBar /\ finishedBar' = finishedBar
  BY <1>1 DEF finishedBar
<1> QED BY <1>1, <1>9, <1>10, <1>11 DEF Reference!Merge

(* The loop ends, returning or throwing, exactly when no pair is left.     *)
LEMMA ExhaustedMaps == MergeInv /\ (Emit \/ Throw) => Reference!Finish
<1> SUFFICES ASSUME MergeInv, Emit \/ Throw PROVE Reference!Finish
  OBVIOUS
<1>1. /\ Exhausted /\ phase = "merge" /\ phase' \in {"done", "thrown"} /\ UNCHANGED <<piece, ranks, parts>>
      /\ parts # <<>>
  BY DEF Emit, Throw, Exhausted, MergeInv, PartsTyped
<1>2. Ranked = {}
  BY <1>1, ScanFindsPair DEF Exhausted
<1>3. Reference!Mergeable = {}
  BY <1>1, <1>2, RankedAreMergeable
<1>4. tokensBar' = tokensBar
  BY <1>1 DEF tokensBar, Segments, Segment, Sub
<1> QED BY <1>1, <1>3, <1>4 DEF Reference!Finish, finishedBar

(* A piece of one byte is finished as it stands.                           *)
LEMMA SingleByteMaps == MergeInv /\ SingleByte => Reference!Finish
<1> SUFFICES ASSUME MergeInv, SingleByte PROVE Reference!Finish
  OBVIOUS
<1>1. /\ phase = "start" /\ phase' = "done" /\ Len(piece) = 1 /\ parts = <<>>
      /\ UNCHANGED <<piece, ranks, parts>> /\ piece \in Seq(Byte)
  BY DEF SingleByte, MergeInv, PartsTyped
<1>2. tokensBar = [k \in 1 .. 1 |-> <<piece[k]>>]
  BY <1>1 DEF tokensBar
<1>3. Len(tokensBar) = 1
  BY <1>2
<1>4. Reference!Mergeable = {}
  BY <1>3 DEF Reference!Mergeable
<1>5. tokensBar' = tokensBar
  BY <1>1 DEF tokensBar
<1> QED BY <1>1, <1>4, <1>5 DEF Reference!Finish, finishedBar

(* The first parts are the bytes of the piece: the definition stutters.    *)
LEMMA BeginMaps == MergeInv /\ MergeInv' /\ Begin => UNCHANGED Reference!vars
<1> SUFFICES ASSUME MergeInv, MergeInv', Begin PROVE UNCHANGED Reference!vars
  OBVIOUS
<1> DEFINE n == Len(piece)
<1>1. /\ phase = "start" /\ phase' = "merge" /\ UNCHANGED <<piece, ranks>>
      /\ piece \in Seq(Byte) /\ parts = <<>> /\ n \in Nat
      /\ parts' = [k \in 1 .. n + 1 |-> [start |-> k - 1, rank |-> GetRank(Split, k, 0)]]
  BY DEF Begin, Split, MergeInv, PartsTyped
<1>2. Len(parts') = n + 1 /\ parts' # <<>> /\ \A k \in 1 .. n + 1 : parts'[k].start = k - 1
  BY <1>1 DEF MergeInv, PartsTyped
<1>3. ASSUME NEW k \in 1 .. n
      PROVE  Sub(parts'[k].start, parts'[k + 1].start) = <<piece[k]>>
  <2>1. k \in 1 .. n + 1 /\ k + 1 \in 1 .. n + 1 /\ (k + 1) - 1 = k /\ (k - 1) + 1 = k
    BY <1>1
  <2>2. parts'[k].start = k - 1 /\ parts'[k + 1].start = k
    BY <1>2, <2>1
  <2>3. Sub(parts'[k].start, parts'[k + 1].start) = SubSeq(piece, k, k)
    BY <2>1, <2>2 DEF Sub
  <2>4. SubSeq(piece, k, k) \in Seq(Byte) /\ Len(SubSeq(piece, k, k)) = 1
        /\ SubSeq(piece, k, k)[1] = piece[k]
    BY <1>1
  <2>5. \A q \in Seq(Byte) : Len(q) = 1 => q = <<q[1]>>
    OBVIOUS
  <2> QED BY <2>3, <2>4, <2>5
<1>4. tokensBar' = [k \in 1 .. n |-> Sub(parts'[k].start, parts'[k + 1].start)]
  <2>1. Len(parts') - 1 = n
    BY <1>1, <1>2
  <2>2. tokensBar' = Segments'
    BY <1>2 DEF tokensBar
  <2>3. Segments' = [k \in 1 .. Len(parts') - 1 |-> Sub(parts'[k].start, parts'[k + 1].start)]
    BY <1>1 DEF Segments, Segment, Sub
  <2> QED BY <2>1, <2>2, <2>3
<1>5. tokensBar = [k \in 1 .. n |-> <<piece[k]>>]
  BY <1>1 DEF tokensBar
<1>6. tokensBar' = tokensBar
  BY <1>3, <1>4, <1>5
<1> QED BY <1>1, <1>6 DEF Reference!vars, finishedBar

(* Every step of the loop is a step of the definition or leaves it alone.  *)
LEMMA StepMaps == MergeInv /\ MergeInv' /\ [Next]_vars => [Reference!Next]_(Reference!vars)
<1> SUFFICES ASSUME MergeInv, MergeInv', [Next]_vars PROVE [Reference!Next]_(Reference!vars)
  OBVIOUS
<1>1. CASE UNCHANGED vars \/ Finished
  BY <1>1 DEF Finished, vars, Reference!vars, tokensBar, finishedBar, Segments, Segment, Sub
<1> QED BY <1>1, MergeMaps, ExhaustedMaps, SingleByteMaps, BeginMaps DEF Next, Reference!Next

(* For every piece and every vocabulary the loop of core_bpe.cpp computes  *)
(* byte-pair encoding as it is defined.                                    *)
THEOREM MergeLoopImplementsBpe == Spec => ImplementsReference
BY InitMaps, StepMaps, MergeInvHolds, PTL DEF Spec, ImplementsReference, Reference!Spec
----------------------------------------------------------------------------
(***************************************************************************)
(* Nothing of the piece is lost: the segments join to the piece, and the   *)
(* ids of a vocabulary in which no two tokens share a rank tell which      *)
(* segments they stand for.                                                *)
(***************************************************************************)

(* The bytes before the k-th part are the segments before it joined.       *)
LEMMA SegmentsJoin ==
  ASSUME MergeInv, parts # <<>>
  PROVE  FlattenSeq(Segments) = piece
<1> DEFINE n == Len(parts) - 1
<1>1. /\ n \in Nat /\ Len(Segments) = n /\ DOMAIN Segments = 1 .. n
      /\ \A k \in 1 .. n : Segments[k] = Segment(k)
      /\ \A k \in 1 .. n + 1 : parts[k].start \in 0 .. Len(piece)
  BY TokensShape DEF Segments
<1>2. piece \in Seq(Byte) /\ Len(piece) \in Nat
  BY DEF MergeInv, PartsTyped
<1>3. /\ parts[1].start = 0 /\ parts[n + 1].start = Len(piece)
      /\ \A k \in 1 .. n : parts[k].start < parts[k + 1].start
  <2>1. Len(parts) = n + 1
    BY TokensShape
  <2> QED BY <2>1 DEF MergeInv, PartsCoverPiece
<1> HIDE DEF n
<1>4. \A k \in 1 .. n : Segments[k] \in Seq(Byte)
  <2> TAKE k \in 1 .. n
  <2>1. k \in 1 .. n + 1 /\ k + 1 \in 1 .. n + 1
    BY <1>1
  <2>2. PICK a, b : a = parts[k].start /\ b = parts[k + 1].start
    OBVIOUS
  <2>3. a \in 0 .. Len(piece) /\ b \in 0 .. Len(piece) /\ a < b
    BY <1>1, <1>3, <2>1, <2>2
  <2>4. a + 1 \in 1 .. Len(piece) + 1 /\ b \in (a + 1) - 1 .. Len(piece)
    BY <1>2, <2>3
  <2>5. SubSeq(piece, a + 1, b) \in Seq(Byte)
    BY <1>2, <2>4, SubSeqProperties
  <2> QED BY <1>1, <2>2, <2>5 DEF Segment, Sub
<1>5. Segments \in Seq(Seq(Byte))
  <2>1. Segments = [k \in 1 .. n |-> Segments[k]]
    BY <1>1 DEF Segments
  <2>2. [k \in 1 .. n |-> Segments[k]] \in Seq(Seq(Byte))
    BY <1>1, <1>4
  <2> QED BY <2>1, <2>2
<1>6. CASE n = 0
  <2>1. piece = <<>>
    BY <1>2, <1>3, <1>6, EmptySeq
  <2>2. Segments = <<>>
    BY <1>1, <1>5, <1>6, EmptySeq
  <2> QED BY <2>1, <2>2, FlattenEmpty
<1>7. CASE n # 0
  <2>1. PICK f \in [1 .. Len(Segments) -> Seq(Byte)] : Joins(Segments, f)
    BY <1>5, JoinsExists
  <2>2. FlattenSeq(Segments) = f[n]
    <3>1. Segments # <<>>
      BY <1>1, <1>7, EmptySeq
    <3> QED BY <1>1, <1>5, <2>1, <3>1, FlattenJoins
  <2> DEFINE P == {m \in Nat : m + 1 <= n => f[m + 1] = Sub(0, parts[m + 2].start)}
  <2>3. 0 \in P
    <3>1. 1 \in 1 .. n /\ 0 + 1 = 1 /\ 0 + 2 = 2 /\ 1 + 1 = 2
      BY <1>1, <1>7
    <3>2. f[1] = Segment(1)
      BY <1>1, <2>1, <3>1 DEF Joins
    <3> QED BY <1>3, <3>1, <3>2 DEF Segment
  <2>4. ASSUME NEW m \in P PROVE m + 1 \in P
    <3> SUFFICES ASSUME (m + 1) + 1 <= n
                 PROVE  f[(m + 1) + 1] = Sub(0, parts[(m + 1) + 2].start)
      OBVIOUS
    <3>1. PICK k \in Nat : k = m + 2
      OBVIOUS
    <3>2. /\ k \in 1 .. n /\ k # 1 /\ k - 1 = m + 1 /\ (m + 1) + 1 = k /\ (m + 1) + 2 = k + 1
          /\ k \in 1 .. n + 1 /\ k + 1 \in 1 .. n + 1 /\ m + 1 <= n
      BY <1>1, <3>1
    <3>3. f[k] = f[k - 1] \o Segment(k)
      BY <1>1, <2>1, <3>2 DEF Joins
    <3>4. f[k - 1] = Sub(0, parts[k].start)
      BY <3>1, <3>2
    <3>5. PICK a, b : a = parts[k].start /\ b = parts[k + 1].start
      OBVIOUS
    <3>6. a \in 0 .. Len(piece) /\ b \in 0 .. Len(piece) /\ a < b
      BY <1>1, <1>3, <3>2, <3>5
    <3>7. Sub(0, a) \o Sub(a, b) = Sub(0, b)
      <4>1. 0 + 1 \in 1 .. Len(piece) + 1 /\ a \in (0 + 1) - 1 .. Len(piece) /\ b \in a .. Len(piece)
        BY <1>2, <3>6
      <4> QED BY <1>2, <4>1, ConcatAdjacentSubSeq DEF Sub
    <3> QED BY <3>2, <3>3, <3>4, <3>5, <3>7 DEF Segment
  <2>5. P = Nat
    <3> HIDE DEF P
    <3>1. P \in SUBSET Nat
      BY DEF P
    <3> QED BY <2>3, <2>4, <3>1, AllNaturals
  <2>6. n - 1 \in P /\ (n - 1) + 1 = n /\ (n - 1) + 2 = n + 1
    <3>1. n - 1 \in Nat /\ (n - 1) + 1 = n /\ (n - 1) + 2 = n + 1
      BY <1>1, <1>7
    <3> HIDE DEF P
    <3> QED BY <2>5, <3>1
  <2>7. f[n] = Sub(0, Len(piece))
    BY <1>1, <1>3, <2>6
  <2>8. Sub(0, Len(piece)) = piece
    BY <1>2 DEF Sub
  <2> QED BY <2>2, <2>7, <2>8
<1> QED BY <1>6, <1>7

(* The rank of a token tells its bytes.                                    *)
LEMMA RankSpells ==
  ASSUME ranks \in RankTables, NEW s \in DOMAIN ranks
  PROVE  Spelling(ranks[s]) = s
<1>1. Spelling(ranks[s]) \in DOMAIN ranks /\ ranks[Spelling(ranks[s])] = ranks[s]
  BY DEF Spelling
<1> QED BY <1>1, BpeAssumption DEF IsInjective

LEMMA EmitLossless == MergeInv /\ Emit => Lossless'
<1> SUFFICES ASSUME MergeInv, Emit PROVE Lossless'
  OBVIOUS
<1>1. /\ ranks \in RankTables /\ piece' = piece /\ ranks' = ranks /\ parts # <<>>
      /\ \A k \in DOMAIN Segments : Segments[k] \in DOMAIN ranks
      /\ out' = [k \in DOMAIN Segments |-> ranks[Segments[k]]]
  BY DEF MergeInv, PartsTyped, Emit, Exhausted
<1>2. [k \in DOMAIN out' |-> Spelling(out'[k])] = Segments
  <2>1. \A k \in DOMAIN Segments : Spelling(out'[k]) = Segments[k]
    BY <1>1, RankSpells
  <2>2. DOMAIN out' = DOMAIN Segments
    BY <1>1
  <2>3. Segments = [k \in DOMAIN Segments |-> Segments[k]]
    BY DEF Segments
  <2> QED BY <2>1, <2>2, <2>3
<1>3. \A r : Spelling(r)' = Spelling(r)
  BY <1>1 DEF Spelling
<1>4. [k \in DOMAIN out |-> Spelling(out[k])]' = Segments
  BY <1>1, <1>2 DEF Spelling
<1> QED BY <1>1, <1>4, SegmentsJoin DEF Lossless

LEMMA SingleByteLossless == MergeInv /\ SingleByte => Lossless'
<1> SUFFICES ASSUME MergeInv, SingleByte PROVE Lossless'
  OBVIOUS
<1>1. /\ ranks \in RankTables /\ piece \in Seq(Byte) /\ piece' = piece /\ ranks' = ranks
      /\ Len(piece) = 1 /\ parts = <<>>
      /\ out' = IF piece \in DOMAIN ranks THEN <<ranks[piece]>> ELSE <<>>
  BY DEF MergeInv, PartsTyped, SingleByte
<1>2. CASE piece \notin DOMAIN ranks
  BY <1>1, <1>2 DEF Lossless
<1>3. CASE piece \in DOMAIN ranks
  <2>1. Spelling(ranks[piece]) = piece
    BY <1>1, <1>3, RankSpells
  <2>2. out' = <<ranks[piece]>> /\ DOMAIN out' = 1 .. 1
    BY <1>1, <1>3
  <2>3. [k \in DOMAIN out' |-> Spelling(out'[k])] = <<piece>>
    BY <2>1, <2>2
  <2>4. [k \in DOMAIN out |-> Spelling(out[k])]' = <<piece>>
    BY <1>1, <2>3 DEF Spelling
  <2>5. FlattenSeq(<<piece>>) = piece
    <3>1. <<>> \in Seq(Seq(Byte)) /\ Append(<<>>, piece) = <<piece>>
      BY EmptySeq
    <3>2. FlattenSeq(Append(<<>>, piece)) = FlattenSeq(<<>>) \o piece
      BY <1>1, <3>1, FlattenAppend
    <3> QED BY <1>1, <3>1, <3>2, FlattenEmpty, ConcatEmptySeq
  <2> QED BY <1>1, <2>4, <2>5 DEF Lossless
<1> QED BY <1>2, <1>3

(* Whatever the piece and the vocabulary, the tokens byte_pair_encode      *)
(* returns (core_bpe.cpp 173-204) spell the piece; only a piece that is    *)
(* one byte without a token is dropped.                                    *)
THEOREM MergeIsLossless == Spec => []Lossless
<1>1. Init => Lossless
  BY DEF Init, Lossless
<1>2. MergeInv /\ Lossless /\ [Next]_vars => Lossless'
  <2> SUFFICES ASSUME MergeInv, Lossless, [Next]_vars PROVE Lossless'
    OBVIOUS
  <2>1. CASE SingleByte
    BY <2>1, SingleByteLossless
  <2>2. CASE Begin
    BY <2>2 DEF Begin, Lossless
  <2>3. CASE Merge
    BY <2>3 DEF Merge, Lossless
  <2>4. CASE Emit
    BY <2>4, EmitLossless
  <2>5. CASE Throw
    BY <2>5 DEF Throw, Lossless
  <2>6. CASE UNCHANGED vars
    BY <2>6 DEF vars, Lossless, Spelling
  <2> QED BY <2>1, <2>2, <2>3, <2>4, <2>5, <2>6 DEF Next, Finished
<1> QED BY <1>1, <1>2, MergeInvHolds, PTL DEF Spec
=============================================================================
