\* every way through three edits
SPECIFICATION Spec
CONSTANTS
    Registry <- MCRegistry
    Key <- MCKey
    Category <- MCCategory
    RegistryOf <- MCRegistryOf
    Name <- MCName
    NameOf <- MCNameOf
    PublishKey <- MCPublishKey
    Identity <- MCIdentity
    KeyOf <- MCKeyOf
    Evidence <- MCEvidence
    Deps <- MCDeps
    InitialCatalog <- MCInitialCatalog
    None = None
    MaxEdits = 3
INVARIANTS
    StagedIsValid
    SecondLockIsNoOp
    GateAcceptsTools
    WatcherAcceptsTools
PROPERTIES
    HistoryIrreversible
    RoutesPermanent
