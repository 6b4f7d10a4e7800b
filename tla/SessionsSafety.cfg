SPECIFICATION Spec
CONSTANTS
    r1 = r1
    r2 = r2
    Requests <- MCRequests
    Workloads <- MCWorkloads
    MaxBatches = 2
    Limit = 1
    MaxFamilies = 3
    MaxCodes = 1
    MaxRestarts = 1
SYMMETRY RequestSymmetry
INVARIANTS
    SessionsAreEarned
    EndedStaysEnded
    GuessesAreBounded
\* The bounds use up what a browser can still do.
CHECK_DEADLOCK FALSE
