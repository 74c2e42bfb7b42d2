SPECIFICATION Spec
CONSTANTS
    a = a
    b = b
    Block = {a, b}
    MaxLen = 1
    MaxMtime = 2
    EndlessEdits = FALSE
    MaxFileAttempts = 2
    Options <- Resumed
    OthersData <- Content
    MaxUpsets = 2
    NoFile = NoFile
    Blank = Blank
    NoDigest = NoDigest
    NoEntry = NoEntry
    Nothing = Nothing
    Fragment = Fragment
SYMMETRY BlockSymmetry
INVARIANT
    MismatchIsRecopied
CHECK_DEADLOCK FALSE
