SPECIFICATION Spec
CONSTANTS
  StartEquity = 1100
  Pnls <- LifePnls
  Balances = {}
  HaltTicks = {2}
  Requests <- ArbRequests
  Persistence = {FALSE}
  Day = 2
  WeekDays = 7
  Forever = 1000
  Epoch = 14
  MaxTime = 19
  MaxOutcomes = 2
  RateLists <- MCRateLists
  LiveModes = {FALSE}
  MaxHold = 3
  MaxArbs = 2
  LastOffer = 15
  MaxFaults = 0
  MaxRestarts = 1
INVARIANT MemoryMatchesLedger
