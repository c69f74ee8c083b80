SPECIFICATION Spec
CONSTANTS
  Null = Null
  UnitsPerCent = 2
  StartingCash = 4
  PassiveResting = 1
  IntentExpiry = 2
  Plans = {p1}
  OperatorFlatten = flat
  Contracts = {"c"}
  Payloads <- BuyOrSellOne
  Quotes <- ThinDeepEmpty
  MaxIntents = 2
  MaxClock = 3
  MaxCommands = 2
  MaxCrashes = 1
INVARIANTS
  FlatAfterFlatten
