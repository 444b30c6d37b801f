SPECIFICATION Spec
CONSTANTS
    Object <- MCJsObject
    Commit <- MCJsCommit
    Peel <- MCJsPeel
    Older <- MCJsOlder
    Successor <- MCSuccessor
    Buildable <- MCJsCommit
    Bootstrap <- MCBootstrap
    None <- MCNone
    WellFormed <- MCWellFormed
    RepositoryIdentity <- MCIdentity
    FullRef <- MCFullRef
    InitialRecords <- MCRunning
    MaxMoves = 2
    MaxFaults = 0
    MaxDamage = 0
    MaxCrashes = 0
    MaxOutages = 0
    GcRuns = FALSE
    Poll = {p1, p2}
PROPERTIES
    ServedMovesForward
