CONSTANTS
  Threads = {t1, t2}
  NumWords = 2
  WordBits = 2
SYMMETRY Symmetry
SPECIFICATION RelaxedSpec
INVARIANTS TypeOK SlotExclusive BitmapExact ScratchRaceFree
PROPERTIES OnlyOwnerFrees RefusedOnlyNearScarce
