CONSTANTS
  Producers = {p1, p2}
  Stoppers = {s1, s2}
  Exiters = {e1}
  First = w1
  Workers = {w1, w2, w3}
  None = None
  Terminator = Terminator
SPECIFICATION FairSpec
CHECK_DEADLOCK FALSE
INVARIANTS JoinMeansDone OneWorker StopDrains
PROPERTIES StopTerminates QueuedJobRuns
