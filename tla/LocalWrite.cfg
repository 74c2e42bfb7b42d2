SPECIFICATION Spec
CONSTANTS
    a = a
    b = b
    s1 = s1
    s2 = s2
    Session = {s1, s2}
    Block = {a, b}
    Version <- Versions
    CrossDevice = TRUE
    NoFile = NoFile
    Blank = Blank
    Now = Now
    Undefined = Undefined
    MaxTroubles = 2
SYMMETRY SessionSymmetry
INVARIANTS
    TypeOK
    DestIsWhole
    PowerFailureLeavesWhole
    HalfCopyShows
    FailureHasCause
PROPERTY
    ImplementsAtomicFile
CHECK_DEADLOCK FALSE
