\* Two commands at once, two names, two items, two seconds.
SPECIFICATION Spec
CONSTANTS
  Procs = {p1, p2}
  Nobody = Nobody
  Names = {x, y}
  MaxPuts = 2
  Files = {}
  MaxSeconds = 2
SYMMETRY Symmetry
CONSTRAINT SomeAnswered
INVARIANTS SizesTrue PutsMeasured
