\* Three callers, two calls each, two streams; one allocation per caller is
\* as many as can be in use.  No symmetry: it is not sound for liveness.
CONSTANTS
    Tasks = {t1, t2, t3}
    Keys = {k1, k2}
    Mutexes = {m1, m2, m3}
    NoTask = NoTask
    NoMutex = NoMutex
    MaxCalls = 2
SPECIFICATION FairSpec
INVARIANTS MutualExclusion NoDeadEntries
PROPERTIES EveryWaiterServed ImplementsKeyMutex
CHECK_DEADLOCK FALSE
