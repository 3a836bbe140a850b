SPECIFICATION FairSpec
CONSTANTS
  Base = 2
  Word = 8
  DataSize = 5
  MaxCount = 3
INVARIANTS TypeOK NeverAhead NewlineAtEnd
PROPERTIES ReaderFinishes
