\* Three calls, so that two of one stream and one of another overlap, and one
\* crash.  No symmetry: it is not sound for liveness.
CONSTANTS
    Tasks = {t1, t2, t3}
    Containers = {c1, c2}
    NoTask = NoTask
    Readings = {0, 1}
    MillisMax = 1
    CounterMax = 1
    MaxSkew = 1
    MaxCalls = 1
    MaxCrashes = 1
SPECIFICATION FairSpec
INVARIANTS OneRowPerStream ChainIntact TimestampsUnique ClockCovers TablesMatchLog EventsFollowLog
PROPERTIES EveryCallReturns ImplementsOpLog
CHECK_DEADLOCK FALSE
