CONSTANTS
  Threads = {t1, t2, t3}
  NumWords = 2
  WordBits = 1
  NumLines = 4
SPECIFICATION WorkersSpec
PROPERTY JoinReturns
