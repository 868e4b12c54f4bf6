SPECIFICATION Spec
CONSTANTS
  Members = {u1, u2}
  Agent = Agent
  a1 = a1
  a2 = a2
  b1 = b1
  Attempts = {a1, a2}
  MessageOf <- MCMessageOf
  FaultSets <- MCFaultSets
  MaxMessages = 1
  MaxSubscriptions = 4
SYMMETRY MCSymmetry
CONSTRAINT MCBounds
INVARIANTS
  AcceptedIsMarked
  SubscribersTold
CHECK_DEADLOCK FALSE
