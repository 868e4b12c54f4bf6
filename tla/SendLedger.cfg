SPECIFICATION Spec
CONSTANTS
  r1 = r1
  r2 = r2
  r3 = r3
  r4 = r4
  r5 = r5
  text = text
  file = file
  Requests = {r1, r2, r3, r4, r5}
  Payloads = {text, file}
  PayloadOf <- MCReusedKey
  Replies = {r4, r5}
  MaxConversations = 2
  MaxTraffic = 1
  MaxClock = 2
  PageSize = 2
  StaleAfter = 1
  SendBudget = 1
  LateLanding = FALSE
SYMMETRY MCSymmetry
CONSTRAINT MCBounds
CHECK_DEADLOCK FALSE
INVARIANTS
  LeaseExclusive
  AtMostOnce
  AnswerIsTrue
  ConfirmedNamesMessage
PROPERTIES
  ConfirmedForGood
  ImplementsIdempotentSend
