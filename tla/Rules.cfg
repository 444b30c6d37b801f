SPECIFICATION Spec
CONSTANTS
    WellFormed <- MCWellFormed
    RepositoryIdentity <- MCIdentity
    FullRef <- MCFullRef
    NoCommit <- MCNoCommit
    Curated <- MCCurated
    Category3 <- MCCategory3
    Rule3 <- MCRule3
    Fold <- MCFold
    Precedence <- MCPrecedence
    Candidate <- MCCandidate
    NoSite = NoSite
    ArchiveLimits <- MCArchiveLimits
    VcsClaim <- MCVcsClaim
    Declared <- MCDeclared
    Surfacing <- MCSurfacing
    WithNul <- MCWithNul
    Original <- MCOriginal
    PackageIdentity <- MCPackageIdentity
    Homes <- MCHomes
    StartupInputs <- MCStartupInputs
    ReloadInputs <- MCReloadInputs
    Moments <- MCMoments
    Selections <- MCSelections
INVARIANTS
    ImplementationsAgree
    ReleasedForGood
    TimesAreReal
    PlansValidate
    SourceIsPublic
    AutomaticIsQuiet
CHECK_DEADLOCK FALSE
