SPECIFICATION Spec
CONSTANTS
    a = a
    b = b
    Block = {a, b}
    MaxLen = 2
    MaxMtime = 2
    EndlessEdits = FALSE
    MaxFileAttempts = 2
    Options <- Resumed
    OthersData <- Longest
    MaxUpsets = 2
    NoFile = NoFile
    Blank = Blank
    NoDigest = NoDigest
    NoEntry = NoEntry
    Nothing = Nothing
    Fragment = Fragment
SYMMETRY BlockSymmetry
INVARIANTS
    TypeOK
    OnlySourceVersionsCommitted
    HiddenEditsCaught
    JournalClaimsCommitted
    FinishedMeansSynced
    FailureHasCause
CHECK_DEADLOCK FALSE
