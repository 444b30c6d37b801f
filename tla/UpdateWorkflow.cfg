\* a month of age, a year of silence, on a short clock
SPECIFICATION Spec
CONSTANTS
    Version <- MCVersion
    LaneOf <- MCLaneOf
    Unrouted = {2}
    Forged = {3}
    None = None
    MinAge = 1
    DormantGap = 2
    MaxTime = 3
    MaxYanked = 1
INVARIANTS
    TemplateStaysApplicable
PROPERTIES
    ActiveLaneAdvances
    WakeupIsReviewed
