SPECIFICATION Spec
CONSTANTS
  MAX_TASKS = 3
  Pages = {2, 3, 4}
  KernelPage = 1
  Contexts = {c1, c2}
VIEW Relevant
SYMMETRY Permutation
INVARIANTS TypeOK  
PROPERTY SpillsOnlyBelow
CHECK_DEADLOCK FALSE
