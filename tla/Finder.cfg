SPECIFICATION Spec
CONSTANTS
  Tables <- MCTables
  None = None
  Videos <- MCVideos
  Length <- MCLength
  MaxFound = 2
  MaxRuns = 2
INVARIANTS
  TypeOK
  DocumentsAreATree
  NumbersFollowThePage
  OnlyShortVideos
  LessonsHaveVideos
  FinishedRunIsComplete
CHECK_DEADLOCK FALSE
