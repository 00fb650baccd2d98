CONSTANTS
  Procs = {c1, c2}
  Roots = {1, 2}
  Sizes = {1, 2}
  Epochs = {1, 2}
  Old = 1
  MaxItems = 3
  MaxRuns = 2
  Budget = 2
  Cap = 1
  Floor = 2
  Faults = {"timeout", "stuck", "stop"}
SPECIFICATION Spec
SYMMETRY Symmetry
VIEW View
CONSTRAINT OldFirst
INVARIANTS TypeOK WithinCap CountCovers NoWaitCycle
PROPERTIES UnderBudget OnlyOverBudget OldestFirst Spares
CHECK_DEADLOCK FALSE
