CONSTANTS
    x = x
    y = y
    PostNames = {a, b, c, d}
    PageNames = {x, y}
    Names <- MCNames
    Sources <- MCSources
    Refused = Refused
    Skipped = Skipped
    Invalid = Invalid
    MaxPosts = 3
    MaxPages = 2
    MaxLines = 5
    Labels <- MCLabels
    Fold <- MCFold
    Attempts = 2
    Candidate <- MCCandidate
    PageFile <- MCPageFile
    MaxArchives = 2
SYMMETRY Permuted
SPECIFICATION MCSpec
INVARIANTS TypeOK NumbersFollowTheList NothingListedTwice NewestFirst OneArchivePerLabel ArchiveNamesApart NamesRunOut
CHECK_DEADLOCK FALSE
