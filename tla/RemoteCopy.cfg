SPECIFICATION FairSpec
CONSTANTS
    Worker = {w1, w2}
    File = {f, g}
    Blocks = 2
    Known <- FirstBlock
    ReplyRoom = 1
    MaxFileAttempts = 2
    MaxTroubles = 2
    Nobody = Nobody
    NoFile = NoFile
    NoSession = NoSession
INVARIANTS
    TypeOK
    RepliesInStep
    SessionHasOwner
    FailureHasCause
PROPERTIES
    ImplementsStagedWrite
    RunEnds
CHECK_DEADLOCK FALSE
