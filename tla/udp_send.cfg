SPECIFICATION FairSpec
CONSTANTS
  Caller = {c1, c2}
  Thread = {t1, t2}
  MaxBurst = 2
  MaxPackets = 4
  MAX_WAITING_QUEUE_SIZE = 2
CHECK_DEADLOCK FALSE
INVARIANT TypeOK
INVARIANT OneInFlight
INVARIANT SentInOrder
INVARIANT SenderSafe
PROPERTY Drained
PROPERTY SenderStops
