CONSTANTS
    p1 = p1
    p2 = p2
    Peers = {p1, p2}
    ReadingsOf <- OneClockWrong
    MillisMax = 4
    CounterMax = 1
    MaxSkew = 1
    MaxSteps = 3
    MaxCrashes = 1
SPECIFICATION PeersSpec
INVARIANT CausalAcrossPeers
CHECK_DEADLOCK FALSE
