SPECIFICATION FairSpec
CONSTANTS
  u1 = u1
  u2 = u2
  u3 = u3
  g = g
  Requests = {u1, u2, u3}
  Threads = {g}
  ThreadOf <- MCGroup
  Replies = {u3}
  PoolSize = 4
  MaxConversations = 3
  MaxDeleted = 2
INVARIANTS
  SameConversation
  OrphansAccounted
PROPERTIES
  ImplementsMapping
  EveryRequestAnswered
CHECK_DEADLOCK FALSE
