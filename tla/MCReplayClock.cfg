SPECIFICATION Spec
CHECK_DEADLOCK FALSE
CONSTANTS
  Capital = 2000
  Day = 2
  WeekDays = 2
  Forever = 1000
  Hour = 2
  AtrPeriod = 2
  RsiPeriod = 2
  Stamps <- MCStamps
  TrainSpan = 6
  TestSpan = 4
  Step = 4
  MinBars = 2
  ClockStart = 20
  Shapes <- MCShapes
  Slip = 1
  Fee = 1
  Kinds = {"signals"}
  Signals <- MCSignals
  PlainLists <- MCPlainLists
INVARIANT DailyLossIsTodays
