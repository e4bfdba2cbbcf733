SPECIFICATION Spec
CONSTANTS
    Positions <- MCPositions
    Observations <- MCObservations
    Percents = {2, 3, 8}
    Money = 3
    Ratio = 2
    Whole = 4
    MaxAge = 1
    MaxCrashes = 2
    MaxIntents = 3
INVARIANTS AtMostOnce OutcomeHonest NeverLate
CHECK_DEADLOCK FALSE
PROPERTY DeliversOnce
