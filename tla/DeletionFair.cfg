CONSTANTS
    u1 = u1
    u2 = u2
    q1 = q1
    q2 = q2
    w1 = w1
    w2 = w2
    NoUser = NoUser
    NoRequest = NoRequest
    MaxFaults = 1
    Users <- OneUser
    Requests <- TwoRequests
    Loops <- TwoLoops
SPECIFICATION FairSpec
INVARIANTS
    DeletedForCause
    CompletionToldOnce
    DeletionIsCarriedOut
PROPERTIES
    DecidedIsFinal
    DueIsDecided
