SPECIFICATION Spec
CONSTANTS
  PangramLen = 10
  MinRepeats = 1
  Commands <- MCTwoRanks
INVARIANTS NoTextShared
