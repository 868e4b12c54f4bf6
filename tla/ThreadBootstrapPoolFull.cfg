SPECIFICATION FairSpec
CONSTANTS
  u1 = u1
  u2 = u2
  u3 = u3
  g = g
  Requests = {u1, u2}
  Threads = {g}
  ThreadOf <- MCGroup
  Replies = {}
  PoolSize = 2
  MaxConversations = 2
  MaxDeleted = 0
PROPERTIES
  EveryRequestAnswered
CHECK_DEADLOCK FALSE
