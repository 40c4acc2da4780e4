SPECIFICATION PartSpec
CONSTANTS
    None = None
    Idle = Idle
    Own = {o1}
    Peer = {q1}
    MaxHeight = 4
    HeadLimit = 5
    TotalLimit = 15
    MaxCrashes = 2
CHECK_DEADLOCK FALSE
INVARIANTS
    PrioritiesSound
    RotationsAgree
    FairRotation
    VotesAreCounted
    QuorumCommits
    TreeKeepsVersions
    CacheIsView
    PeersAgree
    TimeoutsKept
    
    LogIsSearchable
    LogKeepsOwnMessages
