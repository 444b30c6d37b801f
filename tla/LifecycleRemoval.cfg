\* the removal of a served identity
SPECIFICATION Spec
CONSTANTS
    Registry <- MCRegistry
    Key <- MCKey
    Category <- MCCategory
    RegistryOf <- MCRegistryOf
    Name <- MCName
    NameOf <- MCNameOf
    PublishKey <- MCPublishKey
    Identity <- MCIdentity
    KeyOf <- MCKeyOf
    Evidence <- MCEvidence
    Deps <- MCDeps
    InitialCatalog <- MCInitialCatalog
    None = None
    MaxEdits = 3
INVARIANT RemovalIsServed
