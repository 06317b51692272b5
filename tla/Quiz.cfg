SPECIFICATION Spec
CONSTANTS
  Addition = Addition
  Categories = {Addition, Counting}
  QuizSize <- MCQuizSize
  MaxVisits = 2
  MaxAppearances = 2
  MaxOutstanding = 2
  MaxCorrect = 2
  MaxErrors = 1
INVARIANTS
  TypeOK
  ResultMatchesRecord
  OrderlyNeverTraps
  DismissFlagIsTransient
CHECK_DEADLOCK FALSE
