CONSTANT Runs = {r1, r2}
CONSTANT DbFails = FALSE
SPECIFICATION Spec
SYMMETRY Symmetry
INVARIANT GatedOrders
INVARIANT OrderOnFile
INVARIANT OneOpenOrder
INVARIANT ApprovedLeavesARow
INVARIANT SubmitOnce
CHECK_DEADLOCK FALSE
