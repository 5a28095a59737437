---------------------------- MODULE BpeReference ----------------------------
(***************************************************************************)
(* Byte-pair encoding as it is defined: the piece is a sequence of tokens, *)
(* at first one per byte, and as long as two neighbours together are a     *)
(* ranked token, the leftmost such pair of the lowest rank becomes one.    *)
(***************************************************************************)
EXTENDS Naturals, Sequences

CONSTANTS Pieces, RankTables

VARIABLES piece, ranks, tokens, finished

vars == <<piece, ranks, tokens, finished>>

Joined(i)    == tokens[i] \o tokens[i + 1]
Mergeable    == {i \in 1 .. Len(tokens) - 1 : Joined(i) \in DOMAIN ranks}
Before(i, j) == \/ ranks[Joined(i)] < ranks[Joined(j)]
                \/ ranks[Joined(i)] = ranks[Joined(j)] /\ i <= j

Init == /\ piece \in Pieces
        /\ ranks \in RankTables
        /\ tokens = [i \in DOMAIN piece |-> <<piece[i]>>]
        /\ finished = FALSE

Merge == /\ ~finished
         /\ \E i \in Mergeable :
              /\ \A j \in Mergeable : Before(i, j)
              /\ tokens' = SubSeq(tokens, 1, i - 1) \o <<Joined(i)>>
                             \o SubSeq(tokens, i + 2, Len(tokens))
         /\ UNCHANGED <<piece, ranks, finished>>

Finish == /\ ~finished
          /\ Mergeable = {}
          /\ finished' = TRUE
          /\ UNCHANGED <<piece, ranks, tokens>>

Next == Merge \/ Finish

Spec == Init /\ [][Next]_vars
============================================================================
