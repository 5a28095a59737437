CONSTANTS
  Threads = {t1, t2, t3}
  NumWords = 3
  WordBits = 1
  NumLines = 4
SPECIFICATION WorkersSpec
INVARIANTS LinesAccounted EmptiedOnlyWhenScarce NothingLeftOut
