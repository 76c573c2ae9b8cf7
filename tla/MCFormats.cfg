SPECIFICATION Spec
CONSTANTS
    GroupBits = 3
    MaxVarBytes = 3
    ArrayLen = 1
    LeLen = 2
    CountBits = 1
    Ops <- MCOps
    Payloads <- MCPayloads
    Segments <- MCSegments
    Commitments <- MCCommitments
    Rows <- MCRows
    Self <- MCSelf
    PeerIds <- MCPeerIds
    Containers <- MCContainers
    Joins <- MCJoins
    Name <- MCOwnName
    OtherNames <- MCOtherNames
    Times <- MCTimes
    Parents <- MCParents
    MaxAdded = 2
    DamageBytes <- MCDamageBytes
    DamageCells <- MCDamageCells
    ShortFile = 5
    LongFile = 24
INVARIANTS
    WrittenIsRead
    ReadIsWritten
    DamageIsNoticed
    SegmentsFound
    OpChecksAgree
CHECK_DEADLOCK FALSE
