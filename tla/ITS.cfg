SPECIFICATION FairSpec
CONSTANTS
  Lessons = {1, 2, 3}
  CategoryOf <- MCCategoryOf
  Listed <- MCListed
  Score <- MCScore
  ITSLessonRef = 2
  CatalogRefs <- MCCatalogRefs
  MaxOpens = 2
  MaxErrors = 1
INVARIANTS
  TypeOK
  OneAnswerAtATime
  VoteIsInItsLesson
  TitleMatchesAfterNext
  EveryLessonIsReached
PROPERTY LessonMovesOn
CHECK_DEADLOCK FALSE
