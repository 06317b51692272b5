SPECIFICATION Spec
CONSTANTS
  Addition = Addition
  Categories = {Addition}
  QuizSize <- MCQuizSize
  MaxVisits = 1
  MaxAppearances = 1
  MaxOutstanding = 2
  MaxCorrect = 3
  MaxErrors = 0
INVARIANT ScoreIsAShare
CHECK_DEADLOCK FALSE
