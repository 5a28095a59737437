-------------------------------- MODULE Rc4 --------------------------------
(***************************************************************************)
(* RC4 of common/crypt_utils.cpp.  A call of _rc4 goes on where the call   *)
(* before stopped.                                                         *)
(***************************************************************************)
EXTENDS Bytes, SequencesExt

CONSTANT StateSize     \* 256
ASSUME StateSizeAssumption == StateSize \in 1 .. 256

Swapped(f, i, j) == [f EXCEPT ![i] = f[j], ![j] = f[i]]

(* One step of the key schedule: a place, and the byte of the key for it.  *)
Scheduled(acc, turn) ==
  LET j == (turn.byte + acc.state[turn.place] + acc.index2) % StateSize
  IN [state |-> Swapped(acc.state, turn.place, j), index2 |-> j]
Turns(binKey) ==
  [k \in 1 .. StateSize |-> [place |-> k - 1, byte |-> binKey[((k - 1) % Len(binKey)) + 1]]]

_rc4Init(binKey) ==
  LET start == [state |-> [i \in 0 .. StateSize - 1 |-> i], index2 |-> 0]
  IN [state |-> FoldLeft(Scheduled, start, Turns(binKey)).state, x |-> 0, y |-> 0]

Advanced(key) ==
  LET x == (key.x + 1) % StateSize
      y == (key.state[x] + key.y) % StateSize
  IN [state |-> Swapped(key.state, x, y), x |-> x, y |-> y]
KeyByte(key) == key.state[(key.state[key.x] + key.state[key.y]) % StateSize]

CryptByte(acc, byte) ==
  [key |-> Advanced(acc.key), out |-> Append(acc.out, Xor(byte, KeyByte(Advanced(acc.key))))]
_rc4(key, buffer) == FoldLeft(CryptByte, [key |-> key, out |-> <<>>], buffer)

_rc4Full(binKey, buffer) == _rc4(_rc4Init(binKey), buffer).out
============================================================================
