SPECIFICATION Spec
CONSTANTS
  Universe = {"BTCUSDT", "ETHUSDT", "SOLUSDT"}
  TotalCapital = 1000
  SymbolCapPct = 20
  PaperModes = {TRUE}
  EnabledLists <- MainList
  Readings <- PanicReadings
  Regimes = {"NEUTRAL"}
  Balances = {}
  MacroEvents = {}
  MaxHold = 3
  TrancheGap = 2
  FireWindow = 1
  MaxTime = 5
  MaxRestarts = 0
PROPERTY ForcedExit
