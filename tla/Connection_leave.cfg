SPECIFICATION FairSpec
CONSTANTS
    None = None
    Others = {o1}
    o1 = o1
    QueueSize = 2
    PasswordRequired = FALSE
    Interval = 4
    Timeout = 6
    Lines <- Leaving
    MaxLines = 3
    MaxOutside = 1
CHECK_DEADLOCK FALSE
INVARIANTS ToldWhy
PROPERTIES ComesToAnEnd AskedBeforeTimeout
