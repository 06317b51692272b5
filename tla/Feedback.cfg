SPECIFICATION FairSpec
CONSTANTS
  phone = phone
  Devices = {phone, tablet}
  Videos = {1, 2}
  MaxOpens <- MCMaxOpens
  MaxVotes = 2
  MaxErrors = 1
  MaxResets = 1
INVARIANTS
  TypeOK
  NoVoteCountedTwice
  SoleVoterIsCounted
  CompletionFindsItsVideo
  ButtonsHaveAVideo
  ScoresMatchCounts
PROPERTY VoteMovesOn
CHECK_DEADLOCK FALSE
