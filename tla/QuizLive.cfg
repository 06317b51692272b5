SPECIFICATION FairSpec
CONSTANTS
  Addition = Addition
  Categories = {Addition}
  QuizSize <- MCQuizSize
  MaxVisits = 2
  MaxAppearances = 2
  MaxOutstanding = 2
  MaxCorrect = 3
  MaxErrors = 1
PROPERTIES
  StudyAgainReachesLessons
  AnswerMovesOn
CHECK_DEADLOCK FALSE
