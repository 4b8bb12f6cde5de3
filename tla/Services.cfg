SPECIFICATION FairSpec
CONSTANTS
  QUEUE = 3
  LINE = 2
  KeyboardKeys = {"d"}
  SerialKeys = {"r", "w", "e", "enter"}
  FILE <- MCFile
  MaxPresses = 1
  MaxInputs = 3
INVARIANTS TypeOK InStep AllShown
PROPERTY Answered
CHECK_DEADLOCK FALSE
