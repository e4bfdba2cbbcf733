SPECIFICATION Spec
CONSTANTS
    Orders = {o1, o2}
    NoOrder = NoOrder
    ReduceOnly = {}
    Modes = {"resting", "filling", "mexc", "dryrun"}
    CancelBehaviors = {"confirm", "reject", "error", "accepted_unconfirmed", "malformed"}
    PositionsKnown = TRUE
    LedgerFaults = FALSE
    MaxKills = 1
    MaxShutdowns = 1
    MaxCrashes = 1
SYMMETRY Symmetry
INVARIANTS
    TypeOK CustodyKept KillRespected PassIsHonest
    NoDuplicateCancel RejectedNeverTraded
PROPERTIES
    NoSilentRemoval
