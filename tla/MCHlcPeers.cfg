\* Two replicas, one with a clock far ahead of the window; one restart.
CONSTANTS
    p1 = p1
    p2 = p2
    Peers = {p1, p2}
    ReadingsOf <- OneClockWrong
    MillisMax = 4
    CounterMax = 1
    MaxSkew = 1
    MaxSteps = 3
    MaxCrashes = 1
SPECIFICATION PeersSpec
INVARIANTS BoundedLead CausalUntilRestart
CHECK_DEADLOCK FALSE
