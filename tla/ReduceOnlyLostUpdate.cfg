SPECIFICATION Spec
CONSTANTS
    Ops = {"a"}
    Direct = {}
    Legacy = {}
    SideOf <- MCSideOf
    QtyOf <- MCQtyOf
    MaxAttempts = 1
    RiskThreads = {r1}
    Executors = {e1}
    NoAttempt = NoAttempt
    Positions <- PaperPositions
    Trades <- Buys
    AnswerKinds = {"FILLED"}
    DbFaults = FALSE
    MaxTrades = 1
    Crashes = FALSE
INVARIANT PositionsAreHoldings
CHECK_DEADLOCK FALSE
