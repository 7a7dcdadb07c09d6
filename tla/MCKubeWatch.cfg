CONSTANTS
  Uids = {u1, u2}
  MaxRev = 4
  Faults = TRUE
SPECIFICATION FairSpec
INVARIANTS DbIsSnapshot ViewIsDb
PROPERTIES EventsMakeSense FollowsHistory CatchesUp
