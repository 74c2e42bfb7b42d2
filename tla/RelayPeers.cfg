SPECIFICATION Spec
CONSTANTS
    x = x
    y = y
    f = f
    g = g
    r1 = r1
    r2 = r2
    home = home
    Chunk = {x, y}
    Path = {f}
    Order <- OneListing
    Trees <- OneSource
    MaxLen = 1
    Receiver = {r1, r2}
    Dest = {home}
    DestOf <- Shared
    Reusing = {}
    LeaseRefreshEvery = 2
    MaxSends = 2
    MaxUpsets = 0
    Directory = Directory
    Nothing = Nothing
    NoManifest = NoManifest
PROPERTY
    ImplementsDelivery
SYMMETRY ReceiverSymmetry
CHECK_DEADLOCK FALSE
