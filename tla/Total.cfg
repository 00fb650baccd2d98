CONSTANTS
  Procs = {c1, c2}
  Item = {i1, i2}
  Window = 1
  MaxTick = 1
  Faults = {"move", "source", "payload", "record", "timeout", "foreign"}
SPECIFICATION Spec
SYMMETRY Symmetry
VIEW View
INVARIANTS TotalTrue
PROPERTIES Carries
CHECK_DEADLOCK FALSE
