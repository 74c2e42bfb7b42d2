SPECIFICATION Spec
CONSTANTS
    x = x
    y = y
    f = f
    g = g
    r1 = r1
    r2 = r2
    home = home
    Chunk = {x, y}
    Path = {f, g}
    Order <- Listing
    Trees <- Sources
    MaxLen = 1
    Receiver = {r1}
    Dest = {home}
    DestOf <- Shared
    Reusing = {home}
    LeaseRefreshEvery = 2
    MaxSends = 2
    MaxUpsets = 1
    Directory = Directory
    Nothing = Nothing
    NoManifest = NoManifest
INVARIANTS
    TypeOK
    ManifestIsBacked
    RecvFailureHasCause
PROPERTY
    ImplementsDelivery
CHECK_DEADLOCK FALSE
