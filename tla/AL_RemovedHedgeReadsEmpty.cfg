CONSTANT None = None
CONSTANT Markets <- MCMarkets
CONSTANT Quantities = {2}
CONSTANT MaxRuns = 2
SPECIFICATION Spec
INVARIANT RemovedHedgeReadsEmpty
CHECK_DEADLOCK FALSE
