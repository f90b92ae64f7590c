SPECIFICATION Spec
CONSTANTS
  Lag = 1
  MaxGameEvents = 1
  Positions <- AllPositions
  KickTypes <- AllKicks
INVARIANTS
  TypeOK
  KickHandshake
  StandsBeforePlaying
  WalkIsReported
PROPERTIES
  ImplementsKick
