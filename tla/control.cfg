SPECIFICATION Spec
CONSTANTS
  Missing = Missing
  Handlers = {h1, h2}
  Messages <- SlackMessages
  Modes <- TwoModes
  DefaultMode = "paper"
INVARIANTS
  TypeOK
  FlattenImpliesPaused
  RowExplained
PROPERTIES
  StopsStand
