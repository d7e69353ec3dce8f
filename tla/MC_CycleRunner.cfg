SPECIFICATION Spec
CONSTANTS
  Runs = {p1, p2, p3}
  Cycles = {c1, c2}
  NoCycle = NoCycle
SYMMETRY Symmetry
INVARIANTS
  RowsAreEarned
  InterruptedIsFound
PROPERTIES
  FallsBackByOneNode
CHECK_DEADLOCK FALSE
