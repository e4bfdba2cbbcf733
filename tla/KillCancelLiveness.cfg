SPECIFICATION FairSpec
CONSTANTS
    Orders = {o1}
    NoOrder = NoOrder
    ReduceOnly = {o1}
    Modes = {"resting", "filling", "mexc"}
    CancelBehaviors = {"confirm", "error"}
    PositionsKnown = FALSE
    LedgerFaults = TRUE
    MaxKills = 2
    MaxShutdowns = 1
    MaxCrashes = 1
PROPERTIES
    AcceptanceResumes HoldComesUp OrderFinishes
