\* The wall clock may also be stepped back by up to 3 s.
CONSTANTS
    s1 = s1
    s2 = s2
    Stats <- MCStats
    TTL = 5
    Epoch = 100
    MaxTime = 12
    MaxForwardStep = 3
    MaxBackStep = 3
    MaxClockSteps = 2
SPECIFICATION Spec
INVARIANT FreshRead
