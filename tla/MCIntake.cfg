\* Files of every shape, from one that is empty to one beyond the limit.
SPECIFICATION Spec
CONSTANTS
    Files <- MCFiles
    MaxBytes = 2
    MaxDecimal = 30
INVARIANTS
    LimitExact
    ReferencesOnce
    WeightIsHeaviest
    TotalsAddUp
    AcceptedFitsChecks
CHECK_DEADLOCK FALSE
