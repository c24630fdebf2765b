SPECIFICATION FairSpec
CONSTANTS
    Symbols <- MCSymbols
    Streams = {"book", "5m", "1h"}
    Polls <- MCPolls
    MaxLatency = 1
    PollValues <- MCPollValues
    Books <- MCBooks
    Order <- MCOrder
    Keep <- MCKeep
    AtrPeriod = 1
    AtrLevel = 20
    StaleAfter = 2
    Backoff <- MCBackoff
    MaxOutages = 1
    Absent = Absent
    Flat = Flat
    Equity = 10000
    Stats <- MCStats
    Swing <- MCSwing
    Contexts <- MCContexts
    Kernels <- MCKernels
    BtcReturns <- MCBtcReturns
    Modes = {TRUE, FALSE}
    Size = 10
    CycleEvery = 2
    Cooldown = 3
    MaxAge = 2
    MaxEntries = 1
    MaxFaults = 1
PROPERTY StopIsKept
