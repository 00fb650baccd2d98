CONSTANTS
  Threads = {main, worker}
  Main = main
  MaxPress = 3
  MaxItems = 2
SPECIFICATION FairSpec
INVARIANTS DispositionRight FirstStops SectionWhole
PROPERTIES PressActs
CHECK_DEADLOCK FALSE
