SPECIFICATION FairListenSpec
CONSTANTS
  LCM_PUBLISH_BUFFER_SIZE = 25
  MAXIMUM_HEADER_LENGTH = 21
  LCM3_MAX_FRAGMENTS = 3
  LCM_MAX_CHANNEL_LENGTH = 1
  Messages <- MixedMessages
  LCM3_NUM_BUFFERS = 2
  NoName = NoName
  Zero = Zero
  Junk = Junk
  MaxFragmentCount = 18
  Decoded <- ChannelA
  Plain <- ChannelB
  MaxCopies <- MixedCopies
INVARIANTS
  ListenTypeOK
  CallsIntact
PROPERTIES ImplementsChannel EventuallyHandled
CHECK_DEADLOCK FALSE
