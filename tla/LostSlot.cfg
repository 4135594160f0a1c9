CONSTANTS
    NumSlots = 2
    Conns = {c1}
    None = None
    Units = 1
    Room = 1
    Buffers = 0
    MaxKeys = 0
    MaxTroubles = 2
SPECIFICATION MCSpec
INVARIANT ListeningIsThreaded
CHECK_DEADLOCK FALSE
