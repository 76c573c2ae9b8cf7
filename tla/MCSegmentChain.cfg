\* Every log of four entries of one payload and two keys, in up to three
\* segments, one entry expunged.
CONSTANTS
    Keys = {k1, k2}
    Payloads = {p}
    NoCipher = NoCipher
    Noise = Noise
    MaxEntries = 4
    MaxSegments = 3
    MaxExpunged = 1
SYMMETRY Symmetry
SPECIFICATION SegSpec
INVARIANTS HeldVerifies EntriesKept ClaimsChecked JoinFollowsTheLog
CHECK_DEADLOCK FALSE
