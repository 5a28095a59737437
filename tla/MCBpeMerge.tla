----------------------------- MODULE MCBpeMerge -----------------------------
(***************************************************************************)
(* BpeMerge for TLC: all pieces up to MaxPiece bytes over two bytes, and   *)
(* vocabularies of single bytes (one of them possibly missing) followed by *)
(* merged tokens in every order of rank.                                   *)
(***************************************************************************)
EXTENDS BpeMerge

CONSTANT MaxPiece

MCPieces == UNION {[1 .. n -> Byte] : n \in 0 .. MaxPiece}

Short == [1 .. 2 -> Byte] \union [1 .. 3 -> Byte]

(* Tokens that feed each other: overlaps, ties, merges of merges.          *)
Chained == {<<"a", "a">>, <<"a", "b">>, <<"b", "a">>, <<"a", "a", "b">>,
            <<"a", "b", "a">>, <<"a", "b", "a", "b">>}

Orders(S, n) == {s \in [1 .. n -> S] : IsInjective(s)}

MergedTokens == UNION {Orders(Short, n) : n \in 0 .. 2} \union Orders(Chained, 3)

Table(bytes, merges) ==
  LET tokens == bytes \o merges
  IN  [s \in {tokens[k] : k \in DOMAIN tokens} |->
         CHOOSE r \in 0 .. Len(tokens) - 1 : tokens[r + 1] = s]

MCRankTables == {Table(bytes, merges) : bytes \in {<< <<"a">>, <<"b">> >>, << <<"a">> >>},
                                        merges \in MergedTokens}
============================================================================
