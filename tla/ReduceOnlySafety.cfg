SPECIFICATION Spec
CONSTANTS
    Ops = {"a", "d"}
    Direct = {"d"}
    Legacy = {"a"}
    SideOf <- MCSideOf
    QtyOf <- MCQtyOf
    MaxAttempts = 2
    RiskThreads = {r1, r2}
    Executors = {e1, e2}
    NoAttempt = NoAttempt
    Positions <- PaperPositions
    Trades <- Fills
    AnswerKinds = {"FILLED", "REJECTED", "SUBMITTED", "PARTIALLY_FILLED", "odd"}
    DbFaults = TRUE
    MaxTrades = 1
    Crashes = TRUE
SYMMETRY Symmetry
INVARIANTS AtMostOneSubmission OneActiveClaim AttemptLineage 
PROPERTIES ReduceOnlyNeverIncreases FinalisedStays
CHECK_DEADLOCK FALSE
