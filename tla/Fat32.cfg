SPECIFICATION Spec
CONSTANTS
  SPC = 2
  BPS = 3
  LAST = 8
  LAST_DATA = 7
  CHUNK = 2
  BUF = 6
  BASE = 2
  EXT = 1
  UPPER <- Letters
  Disks <- MCDisks
  Requests <- MCRequests
  MaxRequests = 3
  MaxErrors = 1
  MaxCrashes = 1
INVARIANTS TypeOK ChainsSound NothingLost FilesOnDisk
PROPERTY KeepsStore
CHECK_DEADLOCK FALSE
