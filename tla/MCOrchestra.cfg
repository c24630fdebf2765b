SPECIFICATION Spec
CONSTANTS
  Universe = {"BTCUSDT", "ETHUSDT"}
  TotalCapital = 1000
  SymbolCapPct = 7
  PaperModes = {TRUE, FALSE}
  EnabledLists <- MCEnabledLists
  Readings <- MCReadings
  Regimes = {"NEUTRAL", "BEARISH"}
  Balances = {880, 1000}
  MacroEvents <- MCEvents
  MaxHold = 3
  TrancheGap = 2
  FireWindow = 1
  MaxTime = 4
  MaxRestarts = 1
INVARIANTS SymbolCapHolds HoldersStayManaged ExposureCoversPositions
PROPERTIES KillSwitchFinal TickKeepsHalts
