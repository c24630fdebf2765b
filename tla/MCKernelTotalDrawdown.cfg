SPECIFICATION Spec
CONSTANTS
  StartEquity = 1000
  Pnls <- SmallPnls
  Balances = {}
  HaltTicks = {}
  Requests <- ArbRequests
  Persistence = {FALSE}
  Day = 2
  WeekDays = 2
  Forever = 1000
  Epoch = 4
  MaxTime = 14
  MaxOutcomes = 6
INVARIANT TotalDrawdownStops
