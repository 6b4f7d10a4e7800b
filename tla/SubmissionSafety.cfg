CONSTANTS
    u1 = u1
    u2 = u2
    i1 = i1
    s1 = s1
    s2 = s2
    d1 = d1
    d2 = d2
    h1 = h1
    h2 = h2
    j1 = j1
    j2 = j2
    NoUser = NoUser
    NoHead = NoHead
    NoDelivery = NoDelivery
    NoPayload = NoPayload
    NoJob = NoJob
    NoHandler = NoHandler
    MaxActive = 1
    Users <- TwoUsers
    Installations <- OneInstallation
    Heads <- TwoHeads
    Payloads <- Bodies
    Deliveries <- TwoDeliveries
    Handlers <- TwoHandlers
    Jobs <- TwoJobs
SPECIFICATION Spec
SYMMETRY Interchangeable
INVARIANTS
    AdmittedWithinCap
    OneJobPerDelivery
    ProcessedHasItsJob
    JobIsOfTheRecordedPayload
    ReplyNamesItsJob
