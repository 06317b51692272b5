SPECIFICATION Spec
CONSTANTS
  Documents <- MCDocuments
  LessonDepth = 4
  FirstLesson <- MCFirstLesson
  MaxRequests = 9
  MaxPending = 3
  MaxErrors = 1
INVARIANTS
  TypeOK
  RowsMatchRef
  OpensLessons
  RowsOfOneCollection
CHECK_DEADLOCK FALSE
