SPECIFICATION Spec
CONSTANTS
    a = a
    b = b
    w1 = w1
    w2 = w2
    Writer = {w1, w2}
    Wanted <- Versions
    Content <- Contents
    Ticks = 2
    MaxTroubles = 2
    NoObject = NoObject
INVARIANTS
    TypeOK
    SignatureIsTrue
    StagedBlocksTrue
    FailureHasCause
PROPERTY
    ImplementsStagedWrite
CHECK_DEADLOCK FALSE
