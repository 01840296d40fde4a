SPECIFICATION FairSpec
CONSTANTS
  Ssrc = {0, 1}
  Cap = 2
  MaxFrame = 2
  MaxQueue = 2
  Failing = {"bind", "resample", "decode"}
  None = None
INVARIANT LockedStream
INVARIANT CallbackInLife
PROPERTY AsSeen
PROPERTY MuteDrains
PROPERTY ChannelCloses
CHECK_DEADLOCK FALSE
