SPECIFICATION Spec
CONSTANTS
  c = c
  d = d
  Contracts <- TwoContracts
  Universes <- AnyUniverse
  Events <- BooksAndChanges
  Garbage = Garbage
  Streams = {s, t}
  Loop = Loop
  Health = Health
  Missing = Missing
  StaleAfter = 0
  MaxClock = 1
  MaxEvents = 2
  MaxKills = 1
INVARIANTS
  FreshIsFresh
