CONSTANTS
    t1 = t1
    t2 = t2
    t3 = t3
    p1 = p1
    p2 = p2
    Tasks = {t1, t2, t3}
    Processes = {p1, p2}
    ProcessOf <- MCProcessOf
    Credentials <- MCCredentials
    Clocks = {1}
    Keys = {1}
    MaxOpens = 2
    MaxCalls = 1
    MaxFaults = 1
SPECIFICATION Spec
INVARIANTS OneIdentity RefusedForCause
PROPERTIES ImplementsAtomicDb
CHECK_DEADLOCK FALSE
