SPECIFICATION Spec
CONSTANTS
  Lag = 1
  MaxGameEvents = 1
  Positions <- AttackOrStop
  KickTypes <- WalkKick
PROPERTY
  ForceStopHolds
