CONSTANTS
  s1 = s1
  s2 = s2
  skip = skip
  MAX_NUM_SERVOS = 2
  Ids <- AllIds
  SKIP_ID = skip
  IdMaps <- Maps
  DefaultIds <- BothServos
  Modes = {"manual", "readwrite"}
  AnswerTime = 1
  Timer1Period = 2
  Nothing = Nothing
  MaxUnread = 1
  MaxForwarded = 1
SPECIFICATION Spec
INVARIANTS TypeOK OneQueryAtATime AnswersKept ConfirmedModeHolds
