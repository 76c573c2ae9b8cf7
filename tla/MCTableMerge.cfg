\* Two replicas, every choice of three operations and every order of applying
\* them: two columns, one without a name, values that tie, NULL on purpose.
CONSTANTS
    Replicas = {r1, r2}
    Columns = {a, b}
    Named = {a}
    Values <- TwoValues
    Null = Null
    Times <- TwoTimes
    MaxOps = 3
SPECIFICATION MergeSpec
SYMMETRY ReplicaSymmetry
INVARIANTS RowIsMerge
PROPERTIES EventsTellChanges ReportsAreTrue
CHECK_DEADLOCK FALSE
