CONSTANTS
  Size = 4
  Tables <- AppTables
SPECIFICATION ReleaseSpec
PROPERTIES RunningCodeWorks PostdeployWaits MigratesToLatest
CHECK_DEADLOCK FALSE
