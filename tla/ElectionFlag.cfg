SPECIFICATION FairSpec
CONSTANTS
  MaxTerms = 4
  MaxLeases = 4
  PromptStart = TRUE
PROPERTIES LeaderCleansOnUpdate
CHECK_DEADLOCK FALSE
