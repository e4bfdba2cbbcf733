SPECIFICATION Spec
CONSTANTS
    Order <- MCOrder
    Regimes = {"UNKNOWN", "HIGH_VOL_CHAOTIC"}
    Rules <- MCRules
    EarlyLive = 2
    MinStable = 1
    Cooldown = 2
    LookBack = 3
    MaxTime = 3
    MaxRegimes = 5
    MaxBacklog = 1
    MaxLag = 0
    MaxEvents = 1
    MaxRestarts = 1
CHECK_DEADLOCK FALSE
INVARIANTS DecisionsFollowed ShutdownBarsTwice
PROPERTY CooldownRespected
