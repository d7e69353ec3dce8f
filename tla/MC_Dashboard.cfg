CONSTANTS
  MaxCycles = 2
  MaxRows = 1
  MaxFailures = 1
SPECIFICATION Spec
INVARIANT RefreshIsFresh
PROPERTIES ViewNeverGoesBack PollCatchesUp
CHECK_DEADLOCK FALSE
