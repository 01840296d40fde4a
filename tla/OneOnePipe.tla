----------------------------- MODULE OneOnePipe -----------------------------
(***************************************************************************)
(* The ring without locks between the thread that receives datagrams and   *)
(* the worker of a transceiver (class OneOnePipe of                        *)
(* src/inc/rtpTrs/rtpTrs.hpp): one producer in enqueue, one consumer in    *)
(* dequeueAll.  The two positions are atomic, the slots are not.  Each     *)
(* load or store of a position the other side uses, and each access to a   *)
(* slot, is a step of its own.  dequeue is not used by the server.         *)
(***************************************************************************)
EXTENDS Integers, Sequences

CONSTANTS
  Item,     \* what is put into the ring
  NoItem,   \* content of a slot nothing was put in, or that was moved from
  capacity  \* 200 for the rings of a transceiver

ASSUME OneOnePipeAssumption ==
  /\ NoItem \notin Item
  /\ capacity \in Nat /\ capacity >= 2

VARIABLES
  internalArray, headPos, tailPos,
  enqPc, input, seenHead,         \* enqueue: position, argument, head as loaded
  deqPc, outputs, pos, seenTail,  \* dequeueAll: position, result so far, its
                                  \* own head, tail as loaded
  given                           \* the result of the last dequeueAll

slotVars == <<internalArray, headPos, tailPos>>
enqVars  == <<enqPc, input, seenHead>>
deqVars  == <<deqPc, outputs, pos, seenTail, given>>
ringVars == <<slotVars, enqVars, deqVars>>

Slot == 0 .. capacity - 1
nextPos(p) == (p + 1) % capacity

RingInit ==
  /\ internalArray = [p \in Slot |-> NoItem]
  /\ headPos = 0 /\ tailPos = 0
  /\ enqPc = "idle" /\ input = NoItem /\ seenHead = 0
  /\ deqPc = "idle" /\ outputs = <<>> /\ pos = 0 /\ seenTail = 0
  /\ given = <<>>

-----------------------------------------------------------------------------
(* enqueue: the tail is the producer's own, the head is loaded once.       *)
EnqLoad(x) ==
  /\ enqPc = "idle"
  /\ enqPc' = "loaded"
  /\ input' = x
  /\ seenHead' = headPos
  /\ UNCHANGED <<slotVars, deqVars>>

EnqEnd ==
  /\ enqPc' = "idle"
  /\ input' = NoItem /\ seenHead' = 0

(* Full: enqueue returns false.                                            *)
EnqRefuse ==
  /\ enqPc = "loaded"
  /\ nextPos(tailPos) = seenHead
  /\ EnqEnd
  /\ UNCHANGED <<slotVars, deqVars>>

EnqWrite ==
  /\ enqPc = "loaded"
  /\ nextPos(tailPos) # seenHead
  /\ internalArray' = [internalArray EXCEPT ![tailPos] = input]
  /\ enqPc' = "written"
  /\ UNCHANGED <<headPos, tailPos, input, seenHead, deqVars>>

EnqPublish ==
  /\ enqPc = "written"
  /\ tailPos' = nextPos(tailPos)
  /\ EnqEnd
  /\ UNCHANGED <<internalArray, headPos, deqVars>>

-----------------------------------------------------------------------------
(* Mutation: the head is stored before the items are moved out.            *)
DeqLoadStores ==
  /\ deqPc = "idle"
  /\ deqPc' = "moving"
  /\ outputs' = <<>>
  /\ pos' = headPos
  /\ seenTail' = tailPos
  /\ headPos' = tailPos
  /\ UNCHANGED <<internalArray, tailPos, enqVars, given>>

(* dequeueAll: the head is the consumer's own, the tail is loaded once;    *)
(* what is in between is moved out, and only then the head is stored.      *)
DeqLoad ==
  /\ deqPc = "idle"
  /\ deqPc' = "moving"
  /\ outputs' = <<>>
  /\ pos' = headPos
  /\ seenTail' = tailPos
  /\ UNCHANGED <<slotVars, enqVars, given>>

DeqMove ==
  /\ deqPc = "moving"
  /\ pos # seenTail
  /\ outputs' = Append(outputs, internalArray[pos])
  /\ internalArray' = [internalArray EXCEPT ![pos] = NoItem]
  /\ pos' = nextPos(pos)
  /\ UNCHANGED <<headPos, tailPos, enqVars, deqPc, seenTail, given>>

DeqEnd ==
  /\ deqPc' = "idle"
  /\ outputs' = <<>> /\ pos' = 0 /\ seenTail' = 0

(* Mutation: the head follows the tail there is now, not the one loaded.   *)
DeqStoreLate ==
  /\ deqPc = "moving"
  /\ pos = seenTail
  /\ headPos' = tailPos
  /\ given' = outputs
  /\ DeqEnd
  /\ UNCHANGED <<internalArray, tailPos, enqVars>>

DeqStore ==
  /\ deqPc = "moving"
  /\ pos = seenTail
  /\ headPos' = pos
  /\ given' = outputs
  /\ DeqEnd
  /\ UNCHANGED <<internalArray, tailPos, enqVars>>

RingNext ==
  \/ \E x \in Item : EnqLoad(x)
  \/ EnqRefuse \/ EnqWrite \/ EnqPublish
  \/ DeqLoad \/ DeqMove \/ DeqStore

RingSpec == RingInit /\ [][RingNext]_ringVars

-----------------------------------------------------------------------------
RingTypeOK ==
  /\ internalArray \in [Slot -> Item \cup {NoItem}]
  /\ headPos \in Slot /\ tailPos \in Slot
  /\ enqPc \in {"idle", "loaded", "written"}
  /\ input \in Item \cup {NoItem} /\ seenHead \in Slot
  /\ deqPc \in {"idle", "moving"}
  /\ outputs \in Seq(Item) /\ given \in Seq(Item)
  /\ pos \in Slot /\ seenTail \in Slot

(* The ring from a position to another, and the slot i places further on.  *)
Distance(from, to) == IF from <= to THEN to - from ELSE to - from + capacity
SlotAt(from, i) == IF from + i < capacity THEN from + i ELSE from + i - capacity

(* Where the items start that have not been moved out, and how many of the *)
(* queue's items have been.                                                *)
Start == IF deqPc = "moving" THEN pos ELSE headPos
Moved == IF deqPc = "moving" THEN Len(outputs) ELSE 0

(* The queue the ring stands for: what dequeueAll has moved out so far,    *)
(* then the slots up to the tail.                                          *)
Content ==
  [i \in 1 .. Moved + Distance(Start, tailPos) |->
     IF i <= Moved THEN outputs[i]
                   ELSE internalArray[SlotAt(Start, i - Moved - 1)]]

Fifo == INSTANCE BoundedFifo WITH queue <- Content, Size <- capacity - 1

(* The ring is a bounded queue (enqueue and dequeueAll in any interleaving *)
(* lose, duplicate or reorder nothing).                                    *)
RingIsFifo == Fifo!Spec

(* The slot the producer writes next is never the one the consumer is      *)
(* about to read: the slots are plain memory, and only the order of the    *)
(* stores to the positions keeps the two apart (enqueue writes before it   *)
(* stores the tail, dequeueAll reads before it stores the head).           *)
NoSharedSlot == deqPc = "moving" /\ pos # seenTail => tailPos # pos
=============================================================================
