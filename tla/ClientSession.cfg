CONSTANTS
    Users = {u1}
    NoUser = NoUser
    Waiting = Waiting
    MaxAttempts = 2
    MaxReloads = 1
    MaxFailures = 1
SPECIFICATION SessionSpec
CHECK_DEADLOCK FALSE
INVARIANTS
    SignedOutStaysOut
PROPERTIES
    BootSettles
