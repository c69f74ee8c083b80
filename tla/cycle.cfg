SPECIFICATION Spec
CONSTANTS
  Null = Null
  UnitsPerCent = 2
  Sleeves <- AllSleeves
  MarketComplexes <- AllComplexes
  Contracts <- AllContracts
  GrossLimit = 9
  SleeveLimit = 8
  ComplexLimit = 7
  ContractLimit = 5
  SliceLimit = 5
  MaxActiveSleeves = 1
  Par = 2
  MaxSpread = 2
  MinEdge = 1
  MinHours = 4
  MaxHours = 9
  DepthMultiplier = 3
  PassiveSpread = 1
  Cycles = {c1, c2}
  Offers <- SameOrOtherSleeve
  Markets <- TwoBooks
  Failures = {{}}
  AccountValues = {1, 6}
  Marks = {1}
  Held = {"a"}
  AccountSleeve = "x"
  MaxCommands = 1
  MaxUpdates = 2
SYMMETRY CycleSymmetry
CHECK_DEADLOCK FALSE
INVARIANTS
  TypeOK
  IntentsAccountedFor
  NoIntentWhenStopped
  CycleRowSettles
  WithinLimits
  LimitsAcrossCycles
