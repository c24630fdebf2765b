SPECIFICATION FairSpec
CONSTANTS
  StartEquity = 1100
  Pnls <- MCPnls
  Balances = {}
  HaltTicks = {2}
  Requests <- ArbRequests
  Persistence = {FALSE}
  Day = 2
  WeekDays = 7
  Forever = 1000
  Epoch = 14
  MaxTime = 19
  MaxOutcomes = 2
  RateLists <- MCRateLists
  LiveModes = {TRUE, FALSE}
  MaxHold = 2
  MaxArbs = 2
  LastOffer = 16
  MaxFaults = 1
  MaxRestarts = 1
INVARIANTS TrackedIsHedged UnhedgedNeedsFault OneThroughPerHalt OutcomesMatchCloses ExposureBounded
PROPERTY EveryArbCloses
