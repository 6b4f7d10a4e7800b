SPECIFICATION Spec
CONSTANTS
    Shas = {s1, s2}
    NoSha = NoSha
    Archives <- MCArchives
    Requests <- MCRequests
    MaxDownload = 2
    MaxTotal = 7
    MaxFile = 3
    MaxFiles = 2
    MaxMeta = 2
    MaxParts = 3
    Chunk = 2
    MaxPushes = 1
\* The phase ends.
CHECK_DEADLOCK FALSE
INVARIANTS
    TreeIsTheCommit
    FetchIsBounded
    NothingIsLeft
PROPERTY
    CancelStops
