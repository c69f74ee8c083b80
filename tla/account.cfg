SPECIFICATION FairSpec
CONSTANTS
  Contracts <- ThreeContracts
  Events <- TwoEvents
  EventOf <- EventOfContract
  Positions <- SomePositions
  Missing = Missing
  StaleAfter = 1
  MaxClock = 2
  MaxFaults = 2
INVARIANTS
  TypeOK
  HealthyRefreshStored
  ReportedFreshWasFresh
PROPERTIES
  AccountRecovers
