SPECIFICATION Spec
VIEW View
CONSTRAINT FewerScans
CONSTANTS
  Paths = {1, 2, 3, 4}
  Root = 1
  Up <- const_Up
  Dirs = {1, 2}
  Own <- const_Own
  Dotted = {2}
  Refused = {}
  Foreign = {2}
  Recycled = {3}
  Fickle = {4}
  MaxEvents = 3
  MaxDeletes = 1
  MaxMarks = 1
INVARIANTS TypeOK Undoable NoGhosts TotalsRight ScanningHasJob QuitWaits
CHECK_DEADLOCK FALSE
