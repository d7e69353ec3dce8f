SPECIFICATION Spec
CONSTANTS
  None = None
  Books <- MCBooks
  RiskReplies <- MCRiskReplies
  Posted <- MCPosted
INVARIANTS
  PrefilterAgreesWithGate
  GraphOrderIsCovered
  ModificationsAreKept
CHECK_DEADLOCK FALSE
