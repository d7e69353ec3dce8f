CONSTANT MaxLegs = 2
SPECIFICATION Spec
INVARIANT TypeOK
INVARIANT NoFalseSuccess
INVARIANT CancelledRowHoldsNothing
INVARIANT NakedShortIsFlagged
INVARIANT UnrecordedOrderHasCause
PROPERTY ReplyIsRecorded
CHECK_DEADLOCK FALSE
