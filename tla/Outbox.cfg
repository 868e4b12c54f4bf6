SPECIFICATION FairSpec
CONSTANTS
  Pages = {1}
  Workers = {2}
  Tabs = {1}
  MaxMessages = 1
  MaxRetries = 1
  MaxFaults = 1
  MaxRemovals = 1
CHECK_DEADLOCK FALSE
INVARIANTS
  NoMessageLost
PROPERTIES
  OnlyUserBringsBack
  EveryMessageSettles
