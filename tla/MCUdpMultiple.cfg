CONSTANTS
  s0 = s0
  s1 = s1
  p0 = p0
  p1 = p1
  one = one
  two = two
  three = three
  multiple = multiple
  Sender <- Senders
  Port <- Ports
  PortOf <- Cameras
  Message <- MultipleMessages
  Size <- MultipleSizes
  MAX_BODY_LENGTH = 2
  EXTRA_LENGTH = 1
  CountSize = 4
  maxQueueSize = 1
  Nobody = Nobody
  Missing = Missing
  MaxUuid = 1
  MaxGot = 2
  MaxLog = 2
  MaxNet = 5
SPECIFICATION MCSpec
INVARIANT NothingCutOff
CHECK_DEADLOCK FALSE
