SPECIFICATION FairSpec
CONSTANTS
    Object <- MCObject
    Commit <- MCCommit
    Peel <- MCPeel
    Older <- MCOlder
    Successor <- MCSuccessor
    Buildable <- MCBuildable
    Bootstrap <- MCBootstrap
    None <- MCNone
    WellFormed <- MCWellFormed
    RepositoryIdentity <- MCIdentity
    FullRef <- MCFullRef
    InitialRecords <- MCRunning
    MaxMoves = 2
    MaxFaults = 1
    MaxDamage = 0
    MaxCrashes = 1
    MaxOutages = 0
    GcRuns = TRUE
INVARIANTS
    RecordedObjectKept
PROPERTIES
    KeepsLastKnownGood
    StableTipIsJudged
    FreshTipIsServed
