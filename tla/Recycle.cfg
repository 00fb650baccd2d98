CONSTANTS
  Procs = {p, q}
  Paths <- MCPaths
  Far = {"far"}
  Beside <- MCBeside
  Junk = {9}
  MaxPuts = 2
  MaxFiles = 2
  MaxTick = 1
  MaxRuns = 3
  Budget = 1
  Faults = {"held", "copy", "kill"}
SPECIFICATION Spec
VIEW View
SYMMETRY Symmetry
INVARIANTS NothingLost RecordBeside
PROPERTIES ImplementsStore
CHECK_DEADLOCK FALSE
