SPECIFICATION FairSpec
CONSTANTS
  MaxTerms = 4
  MaxLeases = 4
  PromptStart = TRUE
INVARIANTS TypeOK NoPanic OnePoller
PROPERTIES LeaderPolls NonLeaderKnows
CHECK_DEADLOCK FALSE
