SPECIFICATION Spec
CONSTANTS
    None = None
    Others = {o1}
    o1 = o1
    QueueSize = 2
    PasswordRequired = TRUE
    Interval = 1
    Timeout = 2
    Lines <- Registering
    MaxLines = 5
    MaxOutside = 1
CHECK_DEADLOCK FALSE
INVARIANTS TypeOK NothingPending AddsOneUser
