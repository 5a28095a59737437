CONSTANTS
  t1 = t1
  t2 = t2
  m = m
  rw = rw
  counter = counter
  simulated = simulated
  Threads = {t1, t2}
  LockSet = {m, rw, counter, simulated}
  Kind <- MCKind
  IntLock = counter
  MaxGuards = 2
  MaxReads = 2
  MaxInt = 2
  Nobody = Nobody
SYMMETRY Symmetry
SPECIFICATION Spec
INVARIANTS Exclusion HeldByGuards NoLostUpdate
CHECK_DEADLOCK FALSE
