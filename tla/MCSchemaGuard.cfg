\* Three callers on a table nobody declared: it is created and gets its columns
\* while they run.
CONSTANTS
    Tasks = {t1, t2, t3}
    a = a
    b = b
    Columns = {a, b}
    Named = {b}
    KeyTypes <- UuidKey
    TypeOf <- BytesAndUuid
    Values <- OneValue
    Null = Null
    Times <- ThreeTimes
    Work <- WriteDeleteRevive
    Foreign <- OneForeign
    Declared = FALSE
    NoTask = NoTask
    MaxCalls = 1
    MaxAborts = 1
SPECIFICATION FairSpec
INVARIANTS SchemaFrozen CallsSucceed
PROPERTIES EveryCallReturns ImplementsTableMerge
CHECK_DEADLOCK FALSE
