CONSTANTS
    e1 = e1
    e2 = e2
    r1 = r1
    r2 = r2
    r3 = r3
    t1 = t1
    t2 = t2
    NoText = NoText
    NoExec = NoExec
    Executions <- TwoExecutions
    Requests <- ThreeRequests
    Texts <- TwoTexts
SPECIFICATION NarrativeSpec
SYMMETRY Interchangeable
INVARIANTS
    EveryoneIsToldTheSame
PROPERTY NarrativeIsFinal
