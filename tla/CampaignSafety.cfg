SPECIFICATION Spec
CONSTANTS
    N = 3
    R = 2
    Results = {"a", "b"}
    MaxAttempts = 2
    MaxStreak = 2
    MaxFailures = 3
    MaxCrashes = 2
INVARIANTS
    CompletedEarned
    AttemptsBounded
PROPERTIES
    EvidenceFrozen
