CONSTANTS
  Families <- MCFamilies
  BrokerCases <- MCBrokerCases
  EarlierLogs <- MCEarlierLogs
  LossyNodes = {"MONITORING"}
  MaxLost = 1
SPECIFICATION Spec
INVARIANTS PointsAtWhatItLists TradeHasItsReasons ExecutionIsReported
PROPERTIES AnnouncedIsFinal FollowsTheLog SeesTheEnd
CHECK_DEADLOCK FALSE
