SPECIFICATION ListenSpec
CONSTANTS
  LCM_PUBLISH_BUFFER_SIZE = 25
  MAXIMUM_HEADER_LENGTH = 21
  LCM3_MAX_FRAGMENTS = 3
  LCM_MAX_CHANNEL_LENGTH = 1
  Messages <- TwoMessages
  LCM3_NUM_BUFFERS = 2
  NoName = NoName
  Zero = Zero
  Junk = Junk
  MaxFragmentCount = 18
  Decoded <- ChannelsAB
  Plain <- None
  MaxCopies <- TwoCopies
INVARIANT ListenerSurvives
CHECK_DEADLOCK FALSE
