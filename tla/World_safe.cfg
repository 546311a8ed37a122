SPECIFICATION Spec
CONSTANTS
    c1 = c1  c2 = c2  c3 = c3
    Conns = {c1, c2}
    Nicks <- MCNicks
    Keys <- MCKeys
    Fold <- MCFold
    Names = {"#x"}
    Safe = {}
    Limits = {0}
    MaxObjects = 2
    Targets = {c1, c2}
    Nobody = Nobody
    NoName = NoName
CHECK_DEADLOCK FALSE
SYMMETRY Symmetry
INVARIANTS TypeOK NickIndex ClosedLeavesNothing EmptyChannelIsServed
PROPERTY RegistrySpec
