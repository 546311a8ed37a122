SPECIFICATION Spec
CONSTANTS
    None = None
    Others = {o1}
    o1 = o1
    QueueSize = 2
    PasswordRequired = FALSE
    Interval = 4
    Timeout = 6
    Lines <- Negotiating
    MaxLines = 3
    MaxOutside = 1
CHECK_DEADLOCK FALSE
INVARIANTS CapsAreSafe
