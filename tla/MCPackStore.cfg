\* Four packs, two of them compactions, one failed operation, one crash.
CONSTANTS
    Packs <- Compacted
    MaxGeneration = 2
    MaxErrors = 1
    MaxCrashes = 1
SPECIFICATION Spec
INVARIANTS BodyBehindHeader PublishedStaysReadable
PROPERTY MissMeansSuperseded
CHECK_DEADLOCK FALSE
