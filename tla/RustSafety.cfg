SPECIFICATION Spec
CONSTANTS
    Object <- MCObject
    Commit <- MCCommit
    Peel <- MCPeel
    Older <- MCOlder
    Successor <- MCSuccessor
    Buildable <- MCBuildable
    Bootstrap <- MCBootstrap
    None <- MCNone
    WellFormed <- MCWellFormed
    RepositoryIdentity <- MCIdentity
    FullRef <- MCFullRef
    InitialRecords <- MCAnyRecord
    MaxMoves = 2
    MaxFaults = 2
    MaxDamage = 1
    MaxCrashes = 1
    MaxOutages = 1
    GcRuns = FALSE
INVARIANTS
    RecordLeadsByOneStep
    UnpublishedRecordIsSuppressed
    NoPanic
PROPERTIES
    ServedMovesForward
    SessionMovesForward
    BadRecordForbidsService
