CONSTANT Runs = {r1}
CONSTANT DbFails = FALSE
SPECIFICATION Spec
INVARIANT ReplaceReopens
CHECK_DEADLOCK FALSE
