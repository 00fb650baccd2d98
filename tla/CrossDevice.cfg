CONSTANTS
  Putters = {p1}
  Restorers = {r1}
  Removers = {d1}
  Emptiers = {}
  Fixers = {}
  Danglers = {}
  Path = {x1}
  NumNames = 2
  MaxFiles = 2
  MaxStamp = 3
  HardLinks = TRUE
  CrossDevice = TRUE
  Faults = {"source", "place", "write"}
SPECIFICATION Spec
VIEW FilesView
INVARIANTS TypeOK SamePut NothingLost RestoresListed
PROPERTIES ImplementsStore
CHECK_DEADLOCK FALSE
