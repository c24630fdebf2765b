SPECIFICATION FairSpec
CONSTANTS
  SlowPoll = 6
  FastPoll = 1
  Sustain = 6
  Day = 288
  MaxRestarts = 1
PROPERTIES FiredOnceAndSustained PersistentSpikeIsActedOn
