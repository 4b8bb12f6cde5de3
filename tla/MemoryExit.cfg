SPECIFICATION Spec
CONSTANTS
  NPT = 4
  NPD = 9
  NTOP = 2
  Frames = {13, 14, 15, 17, 18, 19, 21, 22, 23, 25, 26, 27, 29, 30, 31, 33, 34, 35}
  MAX_TASKS = 3
  LOAD = 4
  HEAP_START = 8
  STACK_PAGES = 1
  STACK_GAP = 1
  STACK_OFFSET = 4
  Images <- Programs
  UserPages = {10, 11}
  Breaks = {9, 10}
  Devices = {37, 38}
  MaxPages = 2
  MaxCalls = 2
  Ends = {"thread", "process"}
INVARIANT FreedOnce
