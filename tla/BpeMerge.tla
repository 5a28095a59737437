------------------------------ MODULE BpeMerge ------------------------------
(***************************************************************************)
(* byte_pair_encode, _byte_pair_merge and get_rank (token/core_bpe.cpp     *)
(* 86-204): the merge loop over `parts`, which caches at each part the     *)
(* rank of the pair that starts there and, after a merge, looks up again   *)
(* only the two cached ranks the merge can have changed.                   *)
(*                                                                         *)
(* A piece is a sequence of bytes; parts[k] is the C++ parts[k-1].         *)
(***************************************************************************)
EXTENDS Integers, SequencesExt

CONSTANTS Byte,
          Pieces,       \* the pieces that may be encoded
          RankTables,   \* the vocabularies: token bytes -> rank
          NoRank        \* std::numeric_limits<size_t>::max()

(* No two tokens share a rank: Vocabulary!UsableWhenAccepted shows it of   *)
(* every file that is accepted.                                            *)
ASSUME BpeAssumption ==
  /\ NoRank \in Nat
  /\ Pieces \subseteq Seq(Byte)
  /\ \A r \in RankTables : /\ DOMAIN r \subseteq Seq(Byte)
                           /\ \A s \in DOMAIN r : r[s] \in 0 .. NoRank - 1
                           /\ IsInjective(r)

VARIABLES piece, ranks,
          parts,     \* sequence of [start, rank]
          phase,     \* "start", "merge", "done" or "thrown"
          out        \* the tokens returned

vars == <<piece, ranks, parts, phase, out>>

Part == [start : Nat, rank : 0 .. NoRank]

Sub(begin, end) == SubSeq(piece, begin + 1, end)

RankOf(s) == IF s \in DOMAIN ranks THEN ranks[s] ELSE NoRank

GetRankShort(ps, k, skip) ==   \* mutant: the skipped part not skipped
  IF k + skip + 2 <= Len(ps)
  THEN RankOf(Sub(ps[k].start, ps[k + 2].start))
  ELSE NoRank

(* get_rank: the pair at k, with parts[k+1] taken as removed if skip = 1.  *)
GetRank(ps, k, skip) == IF k + skip + 2 <= Len(ps)
                        THEN RankOf(Sub(ps[k].start, ps[k + skip + 2].start))
                        ELSE NoRank

Init == /\ piece \in Pieces
        /\ ranks \in RankTables
        /\ parts = <<>>
        /\ phase = "start"
        /\ out   = <<>>

(* A piece of one byte is only looked up; an unknown byte yields nothing.  *)
SingleByte == /\ phase = "start"
              /\ Len(piece) = 1
              /\ out'   = IF piece \in DOMAIN ranks THEN <<ranks[piece]>> ELSE <<>>
              /\ phase' = "done"
              /\ UNCHANGED <<piece, ranks, parts>>

SplitShort ==             \* mutant: no part past the end
  [k \in 1 .. Len(piece) |-> [start |-> k - 1, rank |-> NoRank]]

(* One part per byte and one past the end; then the ranks of all pairs.    *)
Split == [k \in 1 .. Len(piece) + 1 |-> [start |-> k - 1, rank |-> NoRank]]

Begin == /\ phase = "start"
         /\ Len(piece) # 1
         /\ parts' = [k \in DOMAIN Split |->
                        [Split[k] EXCEPT !.rank = GetRank(Split, k, 0)]]
         /\ phase' = "merge"
         /\ UNCHANGED <<piece, ranks, out>>

IsMinimumLast(i) == /\ i \in 1 .. Len(parts) - 1    \* mutant: <= keeps the last minimum
                    /\ parts[i].rank # NoRank
                    /\ \A j \in 1 .. Len(parts) - 1 : parts[i].rank <= parts[j].rank
                    /\ \A j \in i + 1 .. Len(parts) - 1 : parts[i].rank < parts[j].rank

(* The scan for min_rank: strictly smaller wins, so the leftmost minimum.  *)
IsMinimum(i) == /\ i \in 1 .. Len(parts) - 1
                /\ parts[i].rank # NoRank
                /\ \A j \in 1 .. Len(parts) - 1 : parts[i].rank <= parts[j].rank
                /\ \A j \in 1 .. i - 1 : parts[i].rank < parts[j].rank

MergedStale(i) ==         \* mutant: the left neighbour's rank is not looked up again
  RemoveAt([parts EXCEPT ![i].rank = GetRank(parts, i, 1)], i + 1)

MergedInPlace(i) ==       \* mutant: parts[i + 1] is not erased
  [k \in DOMAIN parts |->
     IF k \in {i - 1, i} THEN [parts[k] EXCEPT !.rank = GetRank(parts, k, 0)]
                         ELSE parts[k]]

MergedLeft(i) ==          \* mutant: erases parts[i] instead of parts[i + 1]
  RemoveAt([k \in DOMAIN parts |->
              IF k \in {i - 1, i} THEN [parts[k] EXCEPT !.rank = GetRank(parts, k, 1)]
                                  ELSE parts[k]], i)

(* Look up parts[i] and parts[i-1] again, then erase parts[i+1].           *)
Merged(i) ==
  RemoveAt([k \in DOMAIN parts |->
              IF k \in {i - 1, i} THEN [parts[k] EXCEPT !.rank = GetRank(parts, k, 1)]
                                  ELSE parts[k]], i + 1)

Merge == /\ phase = "merge"
         /\ \E i \in 1 .. Len(parts) : IsMinimum(i) /\ parts' = Merged(i)
         /\ UNCHANGED <<piece, ranks, phase, out>>

(* No pair left: each part is looked up once more, an unknown one throws.  *)
Segment(k) == Sub(parts[k].start, parts[k + 1].start)
Segments   == [k \in 1 .. Len(parts) - 1 |-> Segment(k)]

Exhausted == /\ phase = "merge"
             /\ \A i \in 1 .. Len(parts) : ~IsMinimum(i)

Emit == /\ Exhausted
        /\ \A k \in DOMAIN Segments : Segments[k] \in DOMAIN ranks
        /\ out'   = [k \in DOMAIN Segments |-> ranks[Segments[k]]]
        /\ phase' = "done"
        /\ UNCHANGED <<piece, ranks, parts>>

Throw == /\ Exhausted
         /\ \E k \in DOMAIN Segments : Segments[k] \notin DOMAIN ranks
         /\ phase' = "thrown"
         /\ UNCHANGED <<piece, ranks, parts, out>>

Finished == phase \in {"done", "thrown"} /\ UNCHANGED vars

Next == SingleByte \/ Begin \/ Merge \/ Emit \/ Throw \/ Finished

(* The loop runs on its own thread without waiting for anything.           *)
Spec == Init /\ [][Next]_vars /\ WF_vars(Next)

----------------------------------------------------------------------------
(* Properties *)

(* The parts cut the piece into non-empty segments, from its first byte to *)
(* its end: no erase ever loses a byte or leaves an empty segment.         *)
PartsCoverPiece ==
  parts # <<>> => /\ parts[1].start = 0
                  /\ parts[Len(parts)].start = Len(piece)
                  /\ \A k \in 1 .. Len(parts) - 1 : parts[k].start < parts[k + 1].start

(* The cached ranks are never stale: each equals a fresh look-up of the    *)
(* pair, although a merge looks up only two of them again.                 *)
CachedRanksFresh == \A k \in DOMAIN parts : parts[k].rank = GetRank(parts, k, 0)

(* The commented-out __builtin_unreachable (core_bpe.cpp 201): with every  *)
(* single byte of the piece in the vocabulary, encoding cannot throw.      *)
ThrowsOnlyOnUnknownByte ==
  phase = "thrown" => \E k \in DOMAIN piece : <<piece[k]>> \notin DOMAIN ranks

(* The tokens returned spell the piece; only a piece that is one unknown   *)
(* byte is dropped.                                                        *)
Spelling(r) == CHOOSE s \in DOMAIN ranks : ranks[s] = r

Lossless ==
  phase = "done" => \/ FlattenSeq([k \in DOMAIN out |-> Spelling(out[k])]) = piece
                    \/ Len(piece) = 1 /\ piece \notin DOMAIN ranks /\ out = <<>>

(* The loop computes byte-pair encoding as BpeReference defines it.        *)
tokensBar   == IF parts = <<>> THEN [k \in DOMAIN piece |-> <<piece[k]>>] ELSE Segments
finishedBar == phase \in {"done", "thrown"}

Reference == INSTANCE BpeReference WITH tokens <- tokensBar, finished <- finishedBar

ImplementsReference == Reference!Spec

(* Every piece is eventually encoded or refused with an exception.         *)
Terminates == <>(phase \in {"done", "thrown"})
============================================================================
