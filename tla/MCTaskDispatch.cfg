CONSTANTS
  None = None
  SoftClass = None
  HardClass = 4
  SoftConf = 2
  HardConf = 3
  Cleanup = 1
  MaxJobs = 3
  MaxDepth = 2
  Given = {}
  Claims = {3, 5}
  MaxRetries = 1
  Faults = TRUE
  Threads = {1, 2, 3}
  Inner = {1}
SPECIFICATION TracedFairSpec
CHECK_DEADLOCK FALSE
INVARIANTS OnlyCommitted CommittedIsSent RestartSuffices TracedTypeOK OneTrace ParentAsked
PROPERTIES CommittedRuns
