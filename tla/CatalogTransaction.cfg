\* one lock, two update-apply and an editor
SPECIFICATION Spec
CONSTANTS
    Reconciler = {lock}
    Applier = {apply1, apply2}
    Tree = {t1, t2, t3, t4, t5, t6}
    None = None
    MaxEdits = 1
    MaxFaults = 2
    MaxCrashes = 1
    MaxOutages = 1
SYMMETRY MCSymmetry
INVARIANTS
    OneAtATime
    CatalogNeverLost
    MissingIsExplained
    AppliedIsKept
PROPERTIES
    ReplacementKeeps
