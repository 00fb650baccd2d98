CONSTANTS
  Putters = {p1}
  Restorers = {r1}
  Removers = {}
  Emptiers = {}
  Fixers = {}
  Danglers = {}
  Path = {x1}
  NumNames = 2
  MaxFiles = 2
  MaxStamp = 2
  HardLinks = TRUE
  CrossDevice = FALSE
  Faults = {}
SPECIFICATION Spec
VIEW View
INVARIANTS NeverClobbers
CHECK_DEADLOCK FALSE
