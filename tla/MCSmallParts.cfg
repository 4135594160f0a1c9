CONSTANTS
    Texts <- MCTexts
    HashSize <- MCHashSize
    MaxLines = 5
    Numbers = {0, 80, 40000, 65536}
    MaxChunks = 2
    MaxRequests = 2
SPECIFICATION MCSpec
INVARIANTS OneByteEditIsSeen WellNested PlacedElements ServedIsAsked OneServer LogTellsTheTruth
CHECK_DEADLOCK FALSE
