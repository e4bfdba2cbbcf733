SPECIFICATION GateSpec
CONSTANTS
    s1 = s1
    s2 = s2
    s3 = s3
    t1 = t1
    t2 = t2
    btc = btc
    eth = eth
    Symbols = {btc, eth}
    Signals = {s1, s2, s3}
    SymbolOf <- MCSymbolOf
    SignalSide <- MCSignalSide
    Seconds = {t1, t2}
    Sizes = {2}
    MaxExposure = 4
    MaxPosition = 3
    ResultStatuses = {"FILLED", "PARTIALLY_FILLED", "REJECTED", "SUBMITTED"}
    MaxRestarts = 1
SYMMETRY Symmetry
INVARIANTS
    ReservedInFlight
    OvershootBounded
    DrainedWhenQuiet
CHECK_DEADLOCK FALSE
