CONSTANTS
  MaxTime = 6
SPECIFICATION StatusSpec
INVARIANTS CountedOnce OffByPending
