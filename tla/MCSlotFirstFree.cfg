CONSTANTS
  Threads = {t1, t2, t3}
  NumWords = 2
  WordBits = 1
SYMMETRY Symmetry
SPECIFICATION HistSpec
PROPERTY FirstFreeAsDocumented
