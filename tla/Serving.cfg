\* three clients, one permit, three snapshots, one failed step of the startup
SPECIFICATION FairSpec
CONSTANTS
    Request <- MCRequest
    Permits = 1
    MaxInstalls = 3
    MaxStartFaults = 1
CHECK_DEADLOCK FALSE
INVARIANTS
    PermitsAreHeld
PROPERTIES
    AnswerWasInstalled
    RequestsEnd
