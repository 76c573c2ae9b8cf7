\* Two subscriptions to rows, the table or everything; a channel is full with two
\* events, and more come.
CONSTANTS
    Tables = {t}
    Rows = {r1, r2}
    Buffer = 1
    MaxEvents = 4
    MaxSubs = 2
SPECIFICATION FairBus
INVARIANTS NoGaps MapIsWatchedTargets
PROPERTIES OnlyLaggardsAreCut LaggardsAreTold
CHECK_DEADLOCK FALSE
