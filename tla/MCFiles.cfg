CONSTANTS
    Names = {a, b, c}
    Joined = Joined
    MaxLines = 3
    MaxCommands = 3
    MaxListFaults = 2
    Images = {"A.PNG", "bad"}
    BadNames = {"bad"}
    Contents = {"old", "new"}
    MaxTime = 1
    MaxImages = 2
    MaxEdits = 2
    MaxBuilds = 3
    MaxCopyFaults = 1
SYMMETRY Permuted
SPECIFICATION MCSpec
INVARIANTS TypeOK RecoveryLoads CopiesTypeOK CopiesAreCurrent QuietRebuild
PROPERTIES ListsKeepTheirNames MislaidPostsStay
CHECK_DEADLOCK FALSE
