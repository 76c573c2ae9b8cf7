\* A delete and an upsert of the same time.
CONSTANTS
    Replicas = {r1}
    Columns = {a}
    Named = {a}
    Values <- TwoValues
    Null = Null
    Times <- TwoTimes
    MaxOps = 2
SPECIFICATION MergeSpec
INVARIANTS DeletionBeatsWrite
CHECK_DEADLOCK FALSE
