SPECIFICATION FairSpec
CONSTANTS
  Lag = 1
  MaxGameEvents = 1
  Positions <- JustAttack
  KickTypes <- AllKicks
PROPERTIES
  FinishStopsGame
  FollowEnds
  StandsUp
  KickEnds
