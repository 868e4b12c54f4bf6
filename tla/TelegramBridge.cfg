CONSTANTS
    Updates = {m1}
    Handlers = {h1, h2}
    Setups = {s1, s2}
    Stale = 1
    MaxClock = 2
    MaxFaults = 1
SPECIFICATION BridgeFairSpec
CHECK_DEADLOCK FALSE
INVARIANTS
    AcknowledgedIsHandled
    RepeatsExplained
PROPERTIES
    EveryUpdateAnswered
