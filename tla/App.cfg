SPECIFICATION Spec
CONSTANTS
  Lessons = {1, 2, 3}
  CategoryOf <- MCCategoryOf
  Listed <- MCListed
  Score <- MCScore
  ITSLessonRef = 1
  CatalogRefs <- MCCatalogRefs
  LessonDepth = 2
  MaxOpens = 1
  MaxErrors = 1
  MaxRequests = 4
  MaxPending = 2
  MaxPages = 1
INVARIANTS
  TypeOK
  LessonVotesOwn
  GlobalsAgree
PROPERTY ImplementsITS
CHECK_DEADLOCK FALSE
