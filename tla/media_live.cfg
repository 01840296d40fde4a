SPECIFICATION FairSpec
CONSTANTS
  a = a
  b = b
  c = c
  Channel = {a, b}
  MaxMix = 1
  SilenceAfter = 2
  Cap = 1
  Failing = {}
  Requests = {"add", "open"}
  MaxEvents = 1
  MaxFrame = 1
  None = None
CHECK_DEADLOCK FALSE
PROPERTY ListenerServed
PROPERTY SourceDrained
