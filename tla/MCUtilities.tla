---------------------------- MODULE MCUtilities ----------------------------
(***************************************************************************)
(* Utilities for TLC: every short input over few bytes, in four families,  *)
(* and one of each length up to two words of 64 bits and a byte.           *)
(***************************************************************************)
EXTENDS Utilities

UpTo(bytes, n) == UNION {[1 .. k -> bytes] : k \in 0 .. n}
Long == <<200, 1, 255, 0, 128, 7, 99, 64, 31, 250, 17, 3, 0, 255, 129, 80, 5>>

MCInputs == UpTo({1, 200}, 7)
            \union {SubSeq(Long, 1, n) : n \in DOMAIN Long}
            \union UpTo({37, 52, 65, 47}, 4)  \* % 4 A /
            \union UpTo({10, 32, 44, 97}, 4)  \* newline, blank, comma, a
            \union UpTo({0, 97, 195, 169, 226, 253}, 3)
MCSeeds  == {<<29, 52, 159, 188>>}            \* 0xbc9f1d34
MCLongSeeds  == {<<29, 52, 159, 188, 3, 0, 200, 91>>}
MCOtherBytes == {0, 129, 200}
MCKey    == <<200, 3, 77>>
============================================================================
