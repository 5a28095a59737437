------------------------------- MODULE Bytes -------------------------------
(***************************************************************************)
(* The exclusive or of bytes, the only operation on single bits that the   *)
(* hashes and RC4 use beside shifts.                                       *)
(***************************************************************************)
EXTENDS Integers

Byte == 0 .. 255

Bit(a, place) == (a \div place) % 2       \* place is a power of two

Xor(a, b) ==
  LET differ(place) == place * ((Bit(a, place) + Bit(b, place)) % 2)
  IN differ(1) + differ(2) + differ(4) + differ(8)
     + differ(16) + differ(32) + differ(64) + differ(128)
============================================================================
