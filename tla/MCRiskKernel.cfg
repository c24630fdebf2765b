SPECIFICATION Spec
CONSTANTS
  StartEquity = 1000
  Pnls <- MCPnls
  Balances = {860}
  HaltTicks = {3}
  Requests <- MCRequests
  Persistence = {TRUE, FALSE}
  Day = 2
  WeekDays = 2
  Forever = 1000
  Epoch = 4
  MaxTime = 8
  MaxOutcomes = 3
INVARIANTS Accounting HaltHonoured GrantWithinLimits DailyLimitStops
PROPERTIES StreakHalts ImplementsBreaker
