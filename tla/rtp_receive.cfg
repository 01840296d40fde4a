SPECIFICATION FairSpec
CONSTANTS
  Item = {1, 2, 3}
  NoItem = 0
  capacity = 3
  Thread = {t1, t2}
  MaxReceives = 3
CHECK_DEADLOCK FALSE
INVARIANT TypeOK
INVARIANT OneProducer
INVARIANT Conserved
INVARIANT ReceiverSafe
INVARIANT NoSharedSlot
PROPERTY RingIsFifo
PROPERTY Delivered
PROPERTY CloseEnds
