CONSTANTS
    mail = mail
    chat = chat
    r1 = r1
    r2 = r2
    r3 = r3
    NoDest = NoDest
    Email <- OneMail
    Dests <- BothChannels
    Requests <- ThreeRequests
    MaxVersion = 3
    MaxTries = 2
SPECIFICATION Spec
SYMMETRY Interchangeable
INVARIANTS
    VersionsAreAHistory
    OneSenderPerDestination
    NeverSentAgain
    ReplyIsTrue
