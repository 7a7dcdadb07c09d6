CONSTANTS
  LongSessions = {s1, s2}
  PlainSessions = {p1}
  NoKey = NoKey
  TTL = 4
  Timeout = 3
  Slack = 1
  Faults = TRUE
SPECIFICATION FairSpec
INVARIANTS Exclusion HolderKeepsKey
PROPERTIES AbandonedKeyExpires
