CONSTANTS
  Putters = {p1}
  Restorers = {r1}
  Removers = {}
  Emptiers = {e1}
  Fixers = {}
  Danglers = {}
  Path = {x1}
  NumNames = 2
  MaxFiles = 2
  MaxStamp = 2
  HardLinks = FALSE
  CrossDevice = FALSE
  Faults = {"write", "payload", "stop"}
SPECIFICATION FairSpec
INVARIANTS CleanWhenFree OnlyCounted PayloadHasRecord
PROPERTIES Ends
CHECK_DEADLOCK FALSE
