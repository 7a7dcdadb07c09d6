CONSTANTS
  Frames = {f1, f2, f3}
  MinDelay = 1
  HasTimeout = TRUE
  Timeout = 2
  Faults = TRUE
SPECIFICATION FairSpec
INVARIANTS ExclusiveUntilLapse
PROPERTIES RateKeptUntilLapse EveryFrameEnds
