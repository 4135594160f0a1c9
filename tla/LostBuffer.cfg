CONSTANTS
    NumSlots = 2
    Conns = {c1}
    None = None
    Units = 1
    Room = 1
    Buffers = 1
    MaxKeys = 0
    MaxTroubles = 2
SPECIFICATION MCSpec
INVARIANT NoBufferIsLost
CHECK_DEADLOCK FALSE
