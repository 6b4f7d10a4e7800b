SPECIFICATION Spec
CONSTANTS
    Runs = {"r1"}
    Foreign = {"database"}
    Specs <- MCSpecs
    Requests <- MCRequests
    AllowedCns = {"firecrow-backend"}
    MaxRestarts = 1
    MaxRequests = 2
    Conns = {"c1"}
    Heads <- MCHeads
    Answers <- MCAnswers
    MaxConnections = 1
    MaxAnswers = 1
    ProxyUrls <- MCProxyUrls
\* A run is over, and nothing more is asked.
CHECK_DEADLOCK FALSE
INVARIANTS
    BoundaryHolds
    Removable
PROPERTY
    OthersUntouched
