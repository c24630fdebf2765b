SPECIFICATION Spec
CONSTANTS
  SlowPoll = 2
  FastPoll = 1
  Sustain = 2
  Day = 8
  MaxRestarts = 0
PROPERTIES RefireNeedsReset
