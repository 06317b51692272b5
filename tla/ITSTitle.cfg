SPECIFICATION Spec
CONSTANTS
  Lessons = {1, 2, 3}
  CategoryOf <- MCCategoryOf
  Listed <- MCListed
  Score <- MCScore
  ITSLessonRef = 1
  CatalogRefs <- MCCatalogRefs
  MaxOpens = 2
  MaxErrors = 0
INVARIANT TitleMatchesVideos
CHECK_DEADLOCK FALSE
