CONSTANTS
    i1 = i1
    Invalid = Invalid
    NoTool = NoTool
    MaxFaults = 1
    Identities <- OneIdentity
    Lists <- SomeLists
SPECIFICATION Spec
CHECK_DEADLOCK FALSE
INVARIANTS
    CleanIsEarned
    DocumentsAgree
    NothingSurvives
PROPERTY CancelWins
