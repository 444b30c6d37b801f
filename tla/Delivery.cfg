SPECIFICATION Spec
CONSTANTS
    None = None
    Identity <- MCIdentity
    GitIdentity <- MCGitIdentity
    Archive <- MCArchive
    Tag <- MCTag
    Commit <- MCCommit
    Peel <- MCPeel
    Checkout <- MCCheckout
    Crate <- MCCrate
    History <- MCHistory
    InitialTag <- MCInitialTag
    RegistryPaths <- MCPaths
    Home <- MCHome
    Declaration <- MCDeclaration
    Row <- MCRow
    Route <- MCRoute
    InitialCatalog <- MCInitial
    InitialStore <- MCInitialStore
    Configs <- MCConfigs
    InitialConfig <- MCInitialConfig
    Limits = {1}
    MaxMoves = 1
    MaxJobs = 1
    MaxEvents = 2
INVARIANTS
    LockedCatalogBuilds
    LearnedRowsResolve
    ServedIsWhatWasTagged
CHECK_DEADLOCK FALSE
