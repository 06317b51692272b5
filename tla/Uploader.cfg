SPECIFICATION Spec
CONSTANTS
  Categories = {"Addition", "Counting"}
  Texts <- MCTexts
  Files <- MCFiles
  MaxRuns = 3
INVARIANTS
  TypeOK
  AskedInOrder
  MissingLineIsNoticed
  NothingToUnwrapIsMissing
CHECK_DEADLOCK FALSE
