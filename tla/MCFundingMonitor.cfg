SPECIFICATION Spec
CONSTANTS
  Symbols <- TwoSymbols
  Once = {job, command}
  Hour = 1
  Day = 2
  Settlement = 3
  Severities = {"none", "HIGH"}
  MaxFaults = 1
  MaxTime = 3
  MaxRestarts = 1
SYMMETRY SameCalls
INVARIANTS AlertsPaced NoGapWithoutFault
