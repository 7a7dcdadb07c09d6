CONSTANTS
  None = None
  SoftClass = None
  HardClass = 4
  SoftConf = 2
  HardConf = 3
  Cleanup = 1
  MaxJobs = 3
  MaxDepth = 2
  Given = {}
  Claims = {3, 5}
  MaxRetries = 1
  Faults = TRUE
  Threads = {1, 2, 3}
  Inner = {1}
SPECIFICATION TracedSpec
CHECK_DEADLOCK FALSE
INVARIANTS RestartIsSent
