SPECIFICATION FairSpec
CONSTANTS
  Null = Null
  UnitsPerCent = 2
  StartingCash = 4
  PassiveResting = 1
  IntentExpiry = 2
  Plans = {p1}
  OperatorFlatten = flat
  Contracts = {"c"}
  Payloads <- BuyOrSellOne
  Quotes <- ThinDeepEmpty
  MaxIntents = 2
  MaxClock = 2
  MaxCommands = 2
  MaxCrashes = 1
INVARIANTS
  TypeOK
  NoOverfill
  OneOpenPerLeg
  CrashSpoilsOneFill
  CashBalances
  NoOverdraft
  SnapshotCurrent
PROPERTIES
  TerminalOrdersFrozen
  ImplementsAccount
  CompletedIsFinal
  NoRestingAfterExpiry
  FlattenGetsFlat
  ExpiredOrdersPulled
