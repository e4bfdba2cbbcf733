SPECIFICATION Spec
CONSTANTS
    btc = btc
    eth = eth
    Symbols = {btc, eth}
    Interval = 2
    MaxTime = 4
    MaxTrades = 2
    MaxDelay = 2
    MaxRestarts = 1
INVARIANTS
    EveryTradeOnce
    StreamOrdered
PROPERTY ExpiredWindowsClose
CHECK_DEADLOCK FALSE
