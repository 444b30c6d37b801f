SPECIFICATION FairSpec
CONSTANTS
    Object <- MCJsObject
    Commit <- MCJsCommit
    Peel <- MCJsPeel
    Older <- MCJsOlder
    Successor <- MCSuccessor
    Buildable <- MCJsCommit
    Bootstrap <- MCBootstrap
    None <- MCNone
    WellFormed <- MCWellFormed
    RepositoryIdentity <- MCIdentity
    FullRef <- MCFullRef
    InitialRecords <- MCRunning
    MaxMoves = 1
    MaxFaults = 1
    MaxDamage = 1
    MaxCrashes = 1
    MaxOutages = 1
    GcRuns = TRUE
    Poll = {p1, p2}
INVARIANTS
    NeverBeforeFirst
    ServedIsRecorded
PROPERTIES
    StableTipIsJudged
