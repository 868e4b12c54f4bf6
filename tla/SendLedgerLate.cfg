SPECIFICATION Spec
CONSTANTS
  r1 = r1
  r2 = r2
  r3 = r3
  r4 = r4
  r5 = r5
  text = text
  file = file
  Requests = {r1, r2, r3}
  Payloads = {text, file}
  PayloadOf <- MCOnePayload
  Replies = {}
  MaxConversations = 1
  MaxTraffic = 1
  MaxClock = 2
  PageSize = 2
  StaleAfter = 1
  SendBudget = 1
  LateLanding = TRUE
SYMMETRY MCSymmetry
CHECK_DEADLOCK FALSE
INVARIANTS
  AtMostOnce
