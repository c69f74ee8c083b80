SPECIFICATION FairSpec
CONSTANTS
  Null = Null
  UnitsPerCent = 4
  StartingCash = 4
  PassiveResting = 1
  IntentExpiry = 1
  Plans = {p1, p2}
  OperatorFlatten = flat
  Contracts = {"c", "d"}
  Payloads <- BuyTwoOrSell
  Quotes <- ThinDeep
  MaxIntents = 1
  MaxClock = 2
  MaxCommands = 0
  MaxCrashes = 0
INVARIANTS
  NoOverfill
  CashBalances
  NoOverdraft
  SnapshotCurrent
PROPERTIES
  ExpiredOrdersPulled
