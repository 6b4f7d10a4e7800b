CONSTANTS
    j1 = j1
    j2 = j2
    w1 = w1
    w2 = w2
    s1 = s1
    s2 = s2
    c1 = c1
    c2 = c2
    NoCommit = NoCommit
    NoJob = NoJob
    Jobs <- OneJob
    Workers <- TwoWorkers
    Sweepers <- OneSweeper
    Commits <- TwoCommits
    SlowPhases <- ScanIsSlow
    Stalls = TRUE
    MaxAttempts = 2
    MaxRetries = 1
    MaxFaults = 1
SPECIFICATION Spec
SYMMETRY Interchangeable
INVARIANTS
    LeaseExclusive
    EvidenceMatchesVerdict
PROPERTIES
    AttemptFrozen
    EvidenceIsOfTheBoundTree
    VerdictComesFromAnAttempt
    CancellationIsDecided
