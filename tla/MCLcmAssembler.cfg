SPECIFICATION Spec
CONSTANTS
  LCM_PUBLISH_BUFFER_SIZE = 25
  MAXIMUM_HEADER_LENGTH = 21
  LCM3_MAX_FRAGMENTS = 3
  LCM_MAX_CHANNEL_LENGTH = 1
  Messages <- MCMessages
  LCM3_NUM_BUFFERS = 3
  NoName = NoName
  Zero = Zero
  Junk = Junk
  MaxFragmentCount = 7
INVARIANTS
  TypeOK
  Intact
  OneBufferPerKey
  Coherent
PROPERTY LosesBufferOnlyToFresher
