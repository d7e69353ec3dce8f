CONSTANT Runs = {r1}
CONSTANT DbFails = TRUE
SPECIFICATION Spec
PROPERTY EveryInvocationEnds
CHECK_DEADLOCK FALSE
