CONSTANTS
  Putters = {p1}
  Restorers = {}
  Removers = {d1}
  Emptiers = {}
  Fixers = {f1}
  Danglers = {g1}
  Path = {x1}
  NumNames = 2
  MaxFiles = 2
  MaxStamp = 3
  HardLinks = FALSE
  CrossDevice = FALSE
  Faults = {"kill"}
SPECIFICATION Spec
VIEW View
INVARIANTS LiveTempKept PayloadHasRecord OneHolder
CHECK_DEADLOCK FALSE
