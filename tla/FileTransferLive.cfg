SPECIFICATION FairSpec
CONSTANTS
    a = a
    b = b
    Block = {a}
    MaxLen = 1
    MaxMtime = 2
    EndlessEdits = TRUE
    MaxFileAttempts = 2
    Options <- Resumed
    OthersData <- Content
    MaxUpsets = 1
    NoFile = NoFile
    Blank = Blank
    NoDigest = NoDigest
    NoEntry = NoEntry
    Nothing = Nothing
    Fragment = Fragment
PROPERTIES
    RunEnds
    EventuallySynced
CHECK_DEADLOCK FALSE
