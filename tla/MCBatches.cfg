CONSTANTS
  Items <- MCItems
  ModelOf <- MCModelOf
  ChunkSize = 2
  BatchSizes = {0, 1, 2}
  MaxTries = 2
  ConnTries = 2
SPECIFICATION JobSpec
INVARIANTS GivenIsSaved InsertedOnce CallsBounded
CHECK_DEADLOCK FALSE
