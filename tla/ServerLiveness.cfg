CONSTANTS
    NumSlots = 2
    Conns = {c1}
    None = None
    Units = 1
    Room = 1
    Buffers = 0
    MaxKeys = 2
    MaxTroubles = 2
SPECIFICATION FairSpec
PROPERTIES StopKeyStops EveryClientEnds HearsAgain
CHECK_DEADLOCK FALSE
