SPECIFICATION Spec
CONSTANTS
  LCM_PUBLISH_BUFFER_SIZE = 1435
  MAXIMUM_HEADER_LENGTH = 300
  LCM3_MAX_FRAGMENTS = 256
  LCM_MAX_CHANNEL_LENGTH = 256
  Messages <- MCMessages
INVARIANTS
  TypeOK
  FitsPublishBuffer
  CutsWholeMessage
  LongFragmentsAccepted
  BandRefused
CHECK_DEADLOCK FALSE
