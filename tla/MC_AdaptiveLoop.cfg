CONSTANT None = None
CONSTANT Markets <- MCMarkets
CONSTANT Quantities = {7}
CONSTANT MaxRuns = 3
SPECIFICATION Spec
INVARIANT FallbackNeverTrimsInEmergency
INVARIANT TrimLandsOnTarget
PROPERTY EmergencyEscalates
PROPERTY IdleDecisionHidesNothing
CHECK_DEADLOCK FALSE
