SPECIFICATION Spec
CONSTANTS
  PAGE_SIZE = 2
  LOW = 2
  KernelEnd = 3
  BootAreas = {0}
  MemPages = 9
  E820Maps <- Maps
  Words = {0, 8}
INVARIANTS TypeOK FreeListIntact NoDoubleAllocation ExactlyUsable
CHECK_DEADLOCK FALSE
