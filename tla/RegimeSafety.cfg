SPECIFICATION Spec
CONSTANTS
    btc = btc
    eth = eth
    Symbols = {btc}
    Kinds = {"chaotic", "trend", "missing", "undated"}
    WarmUp = 1
    ConfirmationBars = 2
    Heartbeat = 1
    Staleness = 2
    Ttl = 3
    SilenceMax = 0
    MinHistory = 2
    LookBack = 3
    MaxTime = 4
    MaxFaults = 1
    MaxRestarts = 1
INVARIANTS
    RiskOffFollows
    
PROPERTY SwitchConfirmed
CHECK_DEADLOCK FALSE
