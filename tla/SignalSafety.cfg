SPECIFICATION Spec
CONSTANTS
    Bars <- Trades
    EntryLookback = 2
    ExitLookback = 1
    EntryBars = 1
    ExitBars = 2
    Buffer = 10
    Cooldown = 2
    Staleness = 1
    MaxTime = 4
    MaxTicks = 4
    MaxSkew = 1
    MaxRestarts = 1
INVARIANTS
    PruningExact
    SignalsJustified
    EntriesSpaced
