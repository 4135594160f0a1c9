CONSTANTS
    NumSlots = 2
    Conns = {c1, c2}
    None = None
    Units = 2
    Room = 1
    Buffers = 0
    MaxKeys = 0
    MaxTroubles = 1
SPECIFICATION MCSpec
INVARIANTS TypeOK ListEnds OneSocketPerPeer StretchOfOneReply MixedOnlyAfterReset
SYMMETRY ConnSymmetry
PROPERTY AnswersInTurn
CHECK_DEADLOCK FALSE
