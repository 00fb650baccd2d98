CONSTANTS
  Procs = {p}
  Paths <- MCPaths
  Far = {"far"}
  Beside <- MCBeside
  Junk = {9}
  MaxPuts = 2
  MaxFiles = 2
  MaxTick = 0
  MaxRuns = 3
  Budget = 2
  Faults = {}
SPECIFICATION Spec
PROPERTIES RestoreKeeps
CHECK_DEADLOCK FALSE
