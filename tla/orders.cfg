SPECIFICATION Spec
CONSTANTS
  Orders <- TwoOrders
  Contracts <- OneContract
  Plans <- OnePlan
  Sizes = {3}
  Nobody = Nobody
  MaxMatches = 2
  MaxFaults = 2
INVARIANTS
  TypeOK
  ReconciledWhenQuiet
CHECK_DEADLOCK FALSE
