SPECIFICATION FairSpec
CONSTANTS
    c1 = c1  c2 = c2  c3 = c3
    Conns = {c1, c2}
    Nicks <- PlainNicks
    Keys <- PlainNicks
    Fold <- PlainFold
    Names = {"#x", "!y"}
    Safe = {"!y"}
    Limits = {0}
    MaxObjects = 1
    Targets = {c1}
    Nobody = Nobody
    NoName = NoName
CHECK_DEADLOCK FALSE
INVARIANTS OneCreator OpsAreMembers
PROPERTIES EmptyChannelGoes CancelledCloses
