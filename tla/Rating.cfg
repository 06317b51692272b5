SPECIFICATION Spec
CONSTANTS
  ImageProposals = {painter}
  VideoProposals = {phone, tablet}
  Taggers = {teacher}
  Images = {1, 2}
  Videos = {3, 4}
  Tags <- MCTags
  Popularity0 <- MCPopularity0
  MaxErrors = 1
INVARIANTS
  TypeOK
  NeverRatesAnother
  PopularityComesFromRatings
CHECK_DEADLOCK FALSE
