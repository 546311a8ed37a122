SPECIFICATION FCSpec
CONSTANTS
    Second = 3
    Burst = 2
    RefillPerSecond = 2
    ToKick = 3
    MaxTime = 9
CONSTRAINT Bounded
INVARIANTS WindowBound SteadyLosesNothing
