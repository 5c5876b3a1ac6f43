\* The wall clock is stepped forward or back by up to 3 s, twice, besides
\* ticking; the host starts long after the epoch.
CONSTANTS
    s1 = s1
    s2 = s2
    Stats <- MCStats
    TTL = 5
    Epoch = 100
    MaxTime = 12
    MaxForwardStep = 3
    MaxBackStep = 3
    MaxClockSteps = 2
SPECIFICATION Spec
INVARIANTS
    FailedFetchNotServed
    BoundedStaleness
SYMMETRY MCSymmetry
