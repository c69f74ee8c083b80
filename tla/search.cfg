SPECIFICATION Spec
CONSTANTS
  Null = Null
  UnitsPerCent = 1
  Boards <- SomeBoards
  MinEdge = 3
  MaxSpread = 4
  CostPerLeg = 1
  HoldingHours = 24
  SizingHint = 4000
INVARIANTS
  EdgeIsLocked
  BasketsPlannable
