-------------------------- MODULE RtpReceiveProofs --------------------------
(***************************************************************************)
(* First the ring of OneOnePipe: it implements BoundedFifo, for every      *)
(* capacity and every set of items. Then the receive path around it: it    *)
(* uses the ring as the ring expects to be used, so that what is proved of *)
(* the ring holds in the receive path, for any number of io_context        *)
(* threads; every datagram is counted in one place, and a receiver is      *)
(* deleted only when no handler will touch it.                             *)
(***************************************************************************)
EXTENDS RtpReceive, FiniteSetTheorems, SequenceTheorems, TLAPS

-----------------------------------------------------------------------------
(* Arithmetic of the ring.                                                 *)

(* The next position, without the modulus.                                 *)
LEMMA NextPosIs ==
  ASSUME NEW p \in Slot
  PROVE  /\ nextPos(p) \in Slot
         /\ nextPos(p) = IF p + 1 = capacity THEN 0 ELSE p + 1
BY OneOnePipeAssumption, SMTT(30) DEF Slot, nextPos

(* A distance is less than the capacity, zero only from a position to      *)
(* itself, and leads to where it was measured.                             *)
LEMMA DistanceIs ==
  ASSUME NEW a \in Slot, NEW b \in Slot
  PROVE  /\ Distance(a, b) \in 0 .. capacity - 1
         /\ Distance(a, b) = 0 <=> a = b
         /\ SlotAt(a, Distance(a, b)) = b
BY OneOnePipeAssumption DEF Slot, Distance, SlotAt

(* Places that differ by less than the capacity are different slots.       *)
LEMMA SlotAtIs ==
  ASSUME NEW a \in Slot, NEW i \in 0 .. capacity - 1
  PROVE  /\ SlotAt(a, i) \in Slot
         /\ \A j \in 0 .. capacity - 1 : SlotAt(a, i) = SlotAt(a, j) => i = j
BY OneOnePipeAssumption DEF Slot, SlotAt

(* Moving the far end on makes a distance one longer, unless it has gone   *)
(* all the way round.                                                      *)
LEMMA DistanceGrows ==
  ASSUME NEW a \in Slot, NEW b \in Slot
  PROVE  /\ nextPos(b) = a <=> Distance(a, b) = capacity - 1
         /\ Distance(a, b) < capacity - 1
              => Distance(a, nextPos(b)) = Distance(a, b) + 1
BY NextPosIs, OneOnePipeAssumption DEF Slot, Distance

(* Moving the near end on makes it one shorter, and shifts the places.     *)
LEMMA DistanceShrinks ==
  ASSUME NEW a \in Slot, NEW b \in Slot, a # b
  PROVE  /\ Distance(nextPos(a), b) = Distance(a, b) - 1
         /\ \A i \in 0 .. capacity - 2 : SlotAt(nextPos(a), i) = SlotAt(a, i + 1)
BY NextPosIs, OneOnePipeAssumption DEF Slot, Distance, SlotAt

-----------------------------------------------------------------------------
(* The inductive invariant.  The head the producer has loaded may be old,  *)
(* but an old head only makes the ring look fuller.                        *)
ProducerInv ==
  /\ enqPc # "idle" =>
       /\ input \in Item
       /\ Distance(headPos, tailPos) <= Distance(seenHead, tailPos)
  /\ enqPc = "written" =>
       /\ internalArray[tailPos] = input
       /\ Distance(headPos, tailPos) < capacity - 1

(* The consumer is between the head and the tail it has loaded, which is   *)
(* not beyond the tail.                                                    *)
ConsumerInv ==
  deqPc = "moving" =>
    /\ Len(outputs) + Distance(pos, tailPos) = Distance(headPos, tailPos)
    /\ Distance(pos, seenTail) <= Distance(pos, tailPos)

(* Every slot the queue reaches holds an item.                             *)
ItemsInv ==
  \A i \in 0 .. capacity - 1 :
    i < Distance(Start, tailPos) => internalArray[SlotAt(Start, i)] \in Item

IInv == RingTypeOK /\ ProducerInv /\ ConsumerInv /\ ItemsInv

LEMMA InitIInv == RingInit => IInv
<1> SUFFICES ASSUME RingInit PROVE IInv
  OBVIOUS
<1>1. 0 \in Slot
  BY OneOnePipeAssumption DEF Slot
<1>2. RingTypeOK
  BY <1>1 DEF RingInit, RingTypeOK
<1>3. Start = 0 /\ Distance(0, 0) = 0
  BY <1>1, DistanceIs DEF RingInit, Start
<1>4. ProducerInv /\ ConsumerInv
  BY DEF RingInit, ProducerInv, ConsumerInv
<1>5. ItemsInv
  BY <1>3, OneOnePipeAssumption DEF RingInit, ItemsInv
<1> QED
  BY <1>2, <1>4, <1>5 DEF IInv

(* Start is a slot.                                                        *)
LEMMA StartIsSlot == RingTypeOK => Start \in Slot
BY DEF RingTypeOK, Start

(* The first step of enqueue.                                              *)
LEMMA EnqLoadStep ==
  ASSUME IInv, NEW x \in Item, EnqLoad(x)
  PROVE  IInv' /\ UNCHANGED Content
<1> USE DEF EnqLoad, slotVars, deqVars
<1>1. RingTypeOK'
  BY DEF IInv, RingTypeOK
<1>2. ProducerInv'
  BY DistanceIs, OneOnePipeAssumption DEF IInv, RingTypeOK, ProducerInv, Slot
<1>3. ConsumerInv' /\ ItemsInv'
  BY DEF IInv, ConsumerInv, ItemsInv, Start
<1>4. UNCHANGED Content
  BY DEF Content, Start, Moved
<1> QED
  BY <1>1, <1>2, <1>3, <1>4 DEF IInv

(* A full ring.                                                            *)
LEMMA EnqRefuseStep ==
  ASSUME IInv, EnqRefuse
  PROVE  IInv' /\ UNCHANGED Content
<1> USE DEF EnqRefuse, EnqEnd, slotVars, deqVars
<1>1. RingTypeOK' /\ ProducerInv'
  BY OneOnePipeAssumption DEF IInv, RingTypeOK, ProducerInv, Slot
<1>2. ConsumerInv' /\ ItemsInv'
  BY DEF IInv, ConsumerInv, ItemsInv, Start
<1>3. UNCHANGED Content
  BY DEF Content, Start, Moved
<1> QED
  BY <1>1, <1>2, <1>3 DEF IInv

(* The part of the ring the queue occupies: it starts at Start, is no      *)
(* longer than from the head, and does not reach the tail's slot.          *)
LEMMA Occupied ==
  ASSUME IInv
  PROVE  /\ Start \in Slot
         /\ Moved \in Nat
         /\ Moved + Distance(Start, tailPos) = Distance(headPos, tailPos)
         /\ \A i \in 0 .. capacity - 1 :
              i < Distance(Start, tailPos) =>
                SlotAt(Start, i) \in Slot \ {tailPos}
<1>1. Start \in Slot /\ tailPos \in Slot
  BY StartIsSlot DEF IInv, RingTypeOK
<1>2. Moved \in Nat
  BY DEF IInv, RingTypeOK, Moved
<1>3. Moved + Distance(Start, tailPos) = Distance(headPos, tailPos)
  <2>1. CASE deqPc = "moving"
    BY <2>1 DEF IInv, ConsumerInv, Moved, Start
  <2>2. CASE deqPc # "moving"
    BY <2>2, <1>1, DistanceIs DEF Moved, Start, IInv, RingTypeOK, Distance, Slot
  <2> QED
    BY <2>1, <2>2
<1>4. ASSUME NEW i \in 0 .. capacity - 1, i < Distance(Start, tailPos)
      PROVE  SlotAt(Start, i) \in Slot \ {tailPos}
  BY <1>1, <1>4, DistanceIs, SlotAtIs, OneOnePipeAssumption
<1> QED
  BY <1>1, <1>2, <1>3, <1>4

(* The queue is a sequence of items, as long as the ring is from its head. *)
LEMMA ContentIs ==
  ASSUME IInv
  PROVE  /\ Content \in Seq(Item)
         /\ Len(Content) = Moved + Distance(Start, tailPos)
         /\ Len(Content) = Distance(headPos, tailPos)
<1> DEFINE d == Distance(Start, tailPos)
<1>1. /\ Moved \in Nat /\ d \in 0 .. capacity - 1
      /\ Moved + d = Distance(headPos, tailPos)
  BY Occupied, DistanceIs DEF IInv, RingTypeOK
<1>2. ASSUME NEW i \in 1 .. Moved + d
      PROVE  Content[i] \in Item
  <2>1. CASE i <= Moved
    BY <2>1, <1>1 DEF Content, Moved, IInv, RingTypeOK
  <2>2. CASE ~(i <= Moved)
    <3>1. i - Moved - 1 \in 0 .. capacity - 1 /\ i - Moved - 1 < d
      BY <2>2, <1>1, OneOnePipeAssumption
    <3> QED
      BY <2>2, <3>1 DEF Content, IInv, ItemsInv
  <2> QED
    BY <2>1, <2>2
<1> QED
  BY <1>1, <1>2, OneOnePipeAssumption DEF Content

(* Writing the slot at the tail leaves the queue alone.                    *)
LEMMA EnqWriteStep ==
  ASSUME IInv, EnqWrite
  PROVE  IInv' /\ UNCHANGED Content
<1> USE DEF EnqWrite, deqVars
<1>1. RingTypeOK'
  BY DEF IInv, RingTypeOK, ProducerInv
<1>2. ProducerInv'
  <2>1. Distance(headPos, tailPos) < capacity - 1
    <3>1. /\ headPos \in Slot /\ tailPos \in Slot /\ seenHead \in Slot
          /\ Distance(headPos, tailPos) <= Distance(seenHead, tailPos)
      BY DEF IInv, RingTypeOK, ProducerInv
    <3>2. Distance(seenHead, tailPos) # capacity - 1
      BY <3>1, DistanceGrows
    <3> QED
      BY <3>1, <3>2, DistanceIs, OneOnePipeAssumption
  <2>2. internalArray'[tailPos'] = input'
    BY DEF IInv, RingTypeOK
  <2> QED
    BY <2>1, <2>2 DEF IInv, ProducerInv
<1>3. ConsumerInv'
  BY DEF IInv, ConsumerInv
<1>4. \A i \in 0 .. capacity - 1 :
        i < Distance(Start, tailPos) =>
          internalArray'[SlotAt(Start, i)] = internalArray[SlotAt(Start, i)]
  BY Occupied DEF IInv, RingTypeOK
<1>5. ItemsInv'
  BY <1>4 DEF IInv, ItemsInv, Start
<1>6. UNCHANGED Content
  <2>1. ASSUME NEW i \in 1 .. Moved + Distance(Start, tailPos), ~(i <= Moved)
        PROVE  internalArray'[SlotAt(Start, i - Moved - 1)]
                 = internalArray[SlotAt(Start, i - Moved - 1)]
    <3>1. /\ Start \in Slot /\ Moved \in Nat /\ tailPos \in Slot
          /\ Distance(Start, tailPos) \in 0 .. capacity - 1
      BY Occupied, DistanceIs DEF IInv, RingTypeOK
    <3>2. /\ i - Moved - 1 \in 0 .. capacity - 1
          /\ i - Moved - 1 < Distance(Start, tailPos)
      BY <2>1, <3>1, OneOnePipeAssumption
    <3> QED
      BY <1>4, <3>2
  <2>2. UNCHANGED <<Moved, Start, tailPos, outputs>>
    BY DEF Moved, Start
  <2> QED
    BY <2>1, <2>2 DEF Content
<1> QED
  BY <1>1, <1>2, <1>3, <1>5, <1>6 DEF IInv

(* Storing the tail puts the item into the queue.                          *)
LEMMA EnqPublishStep ==
  ASSUME IInv, EnqPublish
  PROVE  IInv' /\ Fifo!Put(input) /\ input \in Item
<1> USE DEF EnqPublish, EnqEnd, deqVars
<1> DEFINE d == Distance(Start, tailPos)
<1>1. /\ tailPos \in Slot /\ headPos \in Slot /\ seenHead \in Slot
      /\ Start \in Slot /\ Moved \in Nat
      /\ Moved + d = Distance(headPos, tailPos)
      /\ input \in Item /\ internalArray[tailPos] = input
      /\ Distance(headPos, tailPos) < capacity - 1
      /\ d \in 0 .. capacity - 1
  BY Occupied, DistanceIs DEF IInv, RingTypeOK, ProducerInv
<1>2. d < capacity - 1
  BY <1>1, OneOnePipeAssumption
<1>3. UNCHANGED <<Moved, Start, outputs, internalArray, headPos>>
  BY DEF Moved, Start
<1>4. Distance(Start, tailPos') = d + 1
  BY <1>1, <1>2, DistanceGrows
<1>5. Distance(headPos, tailPos') = Distance(headPos, tailPos) + 1
  BY <1>1, DistanceGrows
<1>6. SlotAt(Start, d) = tailPos
  BY <1>1, DistanceIs
<1>7. RingTypeOK'
  <2>1. 0 \in Slot
    BY OneOnePipeAssumption DEF Slot
  <2> QED
    BY <1>1, <2>1, NextPosIs DEF IInv, RingTypeOK
<1>8. ProducerInv'
  BY DEF ProducerInv
<1>9. ConsumerInv'
  <2> SUFFICES ASSUME deqPc = "moving" PROVE ConsumerInv'
    BY DEF ConsumerInv
  <2>1. Start = pos /\ Moved = Len(outputs) /\ pos \in Slot /\ seenTail \in Slot
    BY DEF Start, Moved, IInv, RingTypeOK
  <2>2. Distance(pos, seenTail) \in Nat /\ Distance(pos, seenTail) <= d
    BY <2>1, DistanceIs, OneOnePipeAssumption DEF IInv, ConsumerInv
  <2> QED
    BY <1>1, <1>3, <1>4, <1>5, <2>1, <2>2, OneOnePipeAssumption DEF ConsumerInv
<1>10. ItemsInv'
  <2> SUFFICES ASSUME NEW i \in 0 .. capacity - 1, i < d + 1
               PROVE  internalArray[SlotAt(Start, i)] \in Item
    BY <1>3, <1>4 DEF ItemsInv
  <2>1. CASE i = d
    BY <2>1, <1>1, <1>6
  <2>2. CASE i < d
    BY <2>2 DEF IInv, ItemsInv
  <2> QED
    BY <2>1, <2>2, <1>1, OneOnePipeAssumption
<1>11. Fifo!Put(input)
  <2>1. Content \in Seq(Item) /\ Len(Content) = Moved + d
    BY ContentIs
  <2>3. Len(Content) < capacity - 1
    BY <2>1, <1>1
  <2>4. Content' = [i \in 1 .. Moved + d + 1 |->
                      IF i <= Moved THEN outputs[i]
                      ELSE internalArray[SlotAt(Start, i - Moved - 1)]]
    BY <1>1, <1>3, <1>4, OneOnePipeAssumption DEF Content
  <2>5. Content' = Append(Content, input)
    <3>1. /\ Append(Content, input) \in Seq(Item)
          /\ Len(Append(Content, input)) = Moved + d + 1
          /\ Append(Content, input)[Moved + d + 1] = input
          /\ \A i \in 1 .. Moved + d : Append(Content, input)[i] = Content[i]
      BY <2>1, <1>1, AppendProperties
    <3>2. ASSUME NEW i \in 1 .. Moved + d + 1
          PROVE  Content'[i] = Append(Content, input)[i]
      <4>1. CASE i = Moved + d + 1
        <5>1. ~(i <= Moved) /\ i - Moved - 1 = d
          BY <4>1, <1>1, OneOnePipeAssumption
        <5> QED
          BY <4>1, <5>1, <1>1, <1>6, <2>4, <3>1
      <4>2. CASE i # Moved + d + 1
        <5>1. i \in 1 .. Moved + d
          BY <4>2, <1>1, OneOnePipeAssumption
        <5> QED
          BY <5>1, <2>4, <3>1 DEF Content
      <4> QED
        BY <4>1, <4>2
    <3>3. Content' \in Seq(Item) /\ Len(Content') = Moved + d + 1
      <4>1. Moved + d + 1 \in Nat
        BY <1>1, OneOnePipeAssumption
      <4>2. \A i \in 1 .. Moved + d + 1 : Content'[i] \in Item
        BY <3>1, <3>2, <4>1, ElementOfSeq
      <4> QED
        BY <2>4, <4>1, <4>2
    <3> QED
      BY <3>1, <3>2, <3>3, SeqEqual
  <2> QED
    BY <2>3, <2>5 DEF Fifo!Put
<1> QED
  BY <1>1, <1>7, <1>8, <1>9, <1>10, <1>11 DEF IInv

(* The first step of dequeueAll.                                           *)
LEMMA DeqLoadStep ==
  ASSUME IInv, DeqLoad
  PROVE  IInv' /\ UNCHANGED Content
<1> USE DEF DeqLoad, slotVars, enqVars
<1>1. RingTypeOK'
  <2>1. outputs' \in Seq(Item)
    OBVIOUS
  <2> QED
    BY <2>1 DEF IInv, RingTypeOK
<1>2. ProducerInv'
  BY DEF IInv, ProducerInv
<1>3. Start' = Start /\ Start = headPos /\ Moved' = 0 /\ Moved = 0
  <2>1. Len(outputs') = 0
    OBVIOUS
  <2> QED
    BY <2>1 DEF Start, Moved
<1>4. ConsumerInv'
  <2>1. Distance(headPos, tailPos) \in 0 .. capacity - 1
    BY DistanceIs DEF IInv, RingTypeOK
  <2>2. Len(outputs') = 0
    OBVIOUS
  <2> QED
    BY <2>1, <2>2, OneOnePipeAssumption DEF ConsumerInv
<1>5. ItemsInv'
  BY <1>3 DEF IInv, ItemsInv
<1>6. UNCHANGED Content
  <2>1. Distance(Start, tailPos) \in 0 .. capacity - 1
    BY StartIsSlot, DistanceIs DEF IInv, RingTypeOK
  <2>2. \A i \in 1 .. 0 + Distance(Start, tailPos) : ~(i <= 0)
    BY <2>1, OneOnePipeAssumption
  <2> QED
    BY <1>3, <2>2 DEF Content
<1> QED
  BY <1>1, <1>2, <1>4, <1>5, <1>6 DEF IInv

(* Moving one item out changes where the queue is kept, not the queue.     *)
LEMMA DeqMoveStep ==
  ASSUME IInv, DeqMove
  PROVE  IInv' /\ UNCHANGED Content
<1> USE DEF DeqMove, enqVars
<1> DEFINE n == Len(outputs)
           d == Distance(pos, tailPos)
           x == internalArray[pos]
<1>1. /\ pos \in Slot /\ seenTail \in Slot /\ tailPos \in Slot
      /\ headPos \in Slot /\ outputs \in Seq(Item) /\ n \in Nat
      /\ internalArray \in [Slot -> Item \cup {NoItem}]
      /\ Start = pos /\ Moved = n
      /\ n + d = Distance(headPos, tailPos)
      /\ Distance(pos, seenTail) <= d
  BY DEF IInv, RingTypeOK, ConsumerInv, Start, Moved
<1>2. /\ d \in 1 .. capacity - 1 /\ pos # tailPos
      /\ Distance(pos, seenTail) \in 1 .. capacity - 1
  BY <1>1, DistanceIs, OneOnePipeAssumption
<1>3. x \in Item
  <2>1. SlotAt(pos, 0) = pos /\ 0 \in 0 .. capacity - 1 /\ 0 < d
    BY <1>1, <1>2, OneOnePipeAssumption DEF SlotAt, Slot
  <2> QED
    BY <1>1, <2>1 DEF IInv, ItemsInv
<1>4. /\ outputs' \in Seq(Item) /\ Len(outputs') = n + 1
      /\ outputs'[n + 1] = x
      /\ \A i \in 1 .. n : outputs'[i] = outputs[i]
  BY <1>1, <1>3, AppendProperties
<1>5. pos' \in Slot
  BY <1>1, NextPosIs
<1>6. /\ Distance(pos', tailPos) = d - 1
      /\ Distance(pos', seenTail) = Distance(pos, seenTail) - 1
      /\ \A i \in 0 .. capacity - 2 : SlotAt(pos', i) = SlotAt(pos, i + 1)
  BY <1>1, <1>2, DistanceShrinks
<1>7. Start' = pos' /\ Moved' = n + 1
  BY <1>4 DEF Start, Moved
<1>8. \A i \in 0 .. capacity - 1 :
        i < d - 1 =>
          internalArray'[SlotAt(pos', i)] = internalArray[SlotAt(pos, i + 1)]
  <2> SUFFICES ASSUME NEW i \in 0 .. capacity - 1, i < d - 1
               PROVE  internalArray'[SlotAt(pos', i)]
                        = internalArray[SlotAt(pos, i + 1)]
    OBVIOUS
  <2>1. i \in 0 .. capacity - 2 /\ i + 1 \in 0 .. capacity - 1 /\ i + 1 # 0
    BY <1>2, OneOnePipeAssumption
  <2>2. SlotAt(pos, 0) = pos /\ 0 \in 0 .. capacity - 1
    BY <1>1, OneOnePipeAssumption DEF SlotAt, Slot
  <2>3. SlotAt(pos, i + 1) \in Slot \ {pos}
    BY <1>1, <2>1, <2>2, SlotAtIs
  <2> QED
    BY <1>1, <1>6, <2>1, <2>3
<1>9. RingTypeOK'
  BY <1>1, <1>4, <1>5 DEF IInv, RingTypeOK
<1>10. ProducerInv'
  BY <1>1, <1>2 DEF IInv, ProducerInv
<1>11. ConsumerInv'
  BY <1>1, <1>2, <1>4, <1>6, OneOnePipeAssumption DEF ConsumerInv
<1>12. ItemsInv'
  <2> SUFFICES ASSUME NEW i \in 0 .. capacity - 1, i < d - 1
               PROVE  internalArray'[SlotAt(pos', i)] \in Item
    BY <1>6, <1>7 DEF ItemsInv
  <2>1. i + 1 \in 0 .. capacity - 1 /\ i + 1 < d
    BY <1>2, OneOnePipeAssumption
  <2> QED
    BY <1>1, <1>8, <2>1 DEF IInv, ItemsInv
<1>13. UNCHANGED Content
  <2>1. Content' = [i \in 1 .. n + d |->
                      IF i <= n + 1 THEN outputs'[i]
                      ELSE internalArray'[SlotAt(pos', i - (n + 1) - 1)]]
    <3>1. (n + 1) + (d - 1) = n + d
      BY <1>1, <1>2, OneOnePipeAssumption
    <3> QED
      BY <1>6, <1>7, <3>1 DEF Content
  <2>2. ASSUME NEW i \in 1 .. n + d
        PROVE  (IF i <= n + 1 THEN outputs'[i]
                ELSE internalArray'[SlotAt(pos', i - (n + 1) - 1)])
               = (IF i <= n THEN outputs[i]
                  ELSE internalArray[SlotAt(pos, i - n - 1)])
    <3>1. CASE i <= n
      <4>1. i \in 1 .. n /\ i <= n + 1
        BY <3>1, <1>1
      <4> QED
        BY <3>1, <4>1, <1>4
    <3>2. CASE i = n + 1
      <4>1. ~(i <= n) /\ i - n - 1 = 0 /\ i <= n + 1
        BY <3>2, <1>1
      <4>2. SlotAt(pos, 0) = pos
        BY <1>1, OneOnePipeAssumption DEF SlotAt, Slot
      <4> QED
        BY <3>2, <4>1, <4>2, <1>4
    <3>3. CASE i > n + 1
      <4>1. /\ ~(i <= n) /\ ~(i <= n + 1)
            /\ i - (n + 1) - 1 \in 0 .. capacity - 1
            /\ i - (n + 1) - 1 < d - 1
            /\ (i - (n + 1) - 1) + 1 = i - n - 1
        BY <3>3, <1>1, <1>2, OneOnePipeAssumption
      <4> QED
        BY <4>1, <1>8
    <3> QED
      BY <3>1, <3>2, <3>3, <1>1
  <2>3. Content = [i \in 1 .. n + d |-> IF i <= n THEN outputs[i]
                                       ELSE internalArray[SlotAt(pos, i - n - 1)]]
    BY <1>1 DEF Content
  <2> HIDE DEF n, d, x, DeqMove
  <2> QED
    BY <2>1, <2>2, <2>3, Zenon
<1> QED
  BY <1>9, <1>10, <1>11, <1>12, <1>13 DEF IInv

(* Storing the head takes what was moved out from the queue.               *)
LEMMA DeqStoreStep ==
  ASSUME IInv, DeqStore
  PROVE  IInv' /\ Fifo!Take(Len(outputs)) /\ Len(outputs) \in 0 .. Len(Content)
<1> USE DEF DeqStore, DeqEnd, enqVars
<1> DEFINE n == Len(outputs)
           d == Distance(pos, tailPos)
<1>1. /\ pos \in Slot /\ tailPos \in Slot /\ headPos \in Slot
      /\ outputs \in Seq(Item) /\ n \in Nat
      /\ Start = pos /\ Moved = n /\ Start' = pos /\ Moved' = 0
      /\ n + d = Distance(headPos, tailPos)
      /\ d \in 0 .. capacity - 1
  BY DistanceIs DEF IInv, RingTypeOK, ConsumerInv, Start, Moved
<1>2. RingTypeOK'
  <2>1. 0 \in Slot /\ outputs' \in Seq(Item)
    BY OneOnePipeAssumption DEF Slot
  <2> QED
    BY <2>1 DEF IInv, RingTypeOK
<1>3. ProducerInv'
  <2>1. /\ Distance(headPos, tailPos) \in 0 .. capacity - 1
        /\ d <= Distance(headPos, tailPos)
    BY <1>1, DistanceIs, OneOnePipeAssumption
  <2>2. seenHead \in Slot
    BY DEF IInv, RingTypeOK
  <2>3. Distance(seenHead, tailPos) \in 0 .. capacity - 1
    BY <1>1, <2>2, DistanceIs
  <2> QED
    BY <1>1, <2>1, <2>3, OneOnePipeAssumption DEF IInv, ProducerInv
<1>4. ConsumerInv'
  BY DEF ConsumerInv
<1>5. ItemsInv'
  BY <1>1 DEF IInv, ItemsInv
<1>6. Content \in Seq(Item) /\ Len(Content) = n + d
  BY <1>1, ContentIs
<1>7. Fifo!Take(n)
  <2>1. given' = SubSeq(Content, 1, n)
    <3>1. /\ SubSeq(Content, 1, n) \in Seq(Item)
          /\ Len(SubSeq(Content, 1, n)) = n
          /\ \A i \in 1 .. n : SubSeq(Content, 1, n)[i] = Content[i]
      BY <1>1, <1>6, OneOnePipeAssumption
    <3>2. \A i \in 1 .. n : Content[i] = outputs[i]
      BY <1>1, OneOnePipeAssumption DEF Content
    <3> QED
      BY <1>1, <3>1, <3>2, SeqEqual
  <2>2. Content' = SubSeq(Content, n + 1, n + d)
    <3>1. Content' = [i \in 1 .. d |-> internalArray[SlotAt(pos, i - 1)]]
      <4>1. Content' = [i \in 1 .. 0 + d |->
                          IF i <= 0 THEN outputs'[i]
                          ELSE internalArray[SlotAt(pos, i - 0 - 1)]]
        BY <1>1 DEF Content
      <4> HIDE DEF d
      <4>2. 1 .. 0 + d = 1 .. d
        BY <1>1
      <4>3. \A i \in 1 .. d : ~(i <= 0) /\ i - 0 - 1 = i - 1
        BY <1>1
      <4> QED
        BY <4>1, <4>2, <4>3
    <3>2. SubSeq(Content, n + 1, n + d) = [i \in 1 .. d |-> Content[n + i]]
      BY <1>1, <1>6, OneOnePipeAssumption
    <3>3. ASSUME NEW i \in 1 .. d
          PROVE  Content[n + i] = internalArray[SlotAt(pos, i - 1)]
      <4>1. /\ n + i \in 1 .. n + d /\ ~(n + i <= n)
            /\ n + i - n - 1 = i - 1
        BY <1>1, OneOnePipeAssumption
      <4> QED
        BY <1>1, <4>1 DEF Content
    <3> QED
      BY <3>1, <3>2, <3>3
  <2> QED
    BY <1>6, <2>1, <2>2 DEF Fifo!Take
<1>8. n \in 0 .. Len(Content)
  BY <1>1, <1>6, OneOnePipeAssumption
<1> QED
  BY <1>2, <1>3, <1>4, <1>5, <1>7, <1>8 DEF IInv

-----------------------------------------------------------------------------
(* What each step does to the queue: it puts, takes or leaves it alone.    *)
LEMMA StepIsFifoStep ==
  ASSUME IInv, [RingNext]_ringVars
  PROVE  IInv' /\ [Fifo!Next]_<<Content, given>>
<1>1. ASSUME NEW x \in Item, EnqLoad(x)
      PROVE  IInv' /\ UNCHANGED <<Content, given>>
  BY <1>1, EnqLoadStep DEF EnqLoad, deqVars
<1>2. ASSUME EnqRefuse PROVE IInv' /\ UNCHANGED <<Content, given>>
  BY <1>2, EnqRefuseStep DEF EnqRefuse, deqVars
<1>3. ASSUME EnqWrite PROVE IInv' /\ UNCHANGED <<Content, given>>
  BY <1>3, EnqWriteStep DEF EnqWrite, deqVars
<1>4. ASSUME EnqPublish PROVE IInv' /\ Fifo!Next
  BY <1>4, EnqPublishStep DEF Fifo!Next
<1>5. ASSUME DeqLoad PROVE IInv' /\ UNCHANGED <<Content, given>>
  BY <1>5, DeqLoadStep DEF DeqLoad
<1>6. ASSUME DeqMove PROVE IInv' /\ UNCHANGED <<Content, given>>
  BY <1>6, DeqMoveStep DEF DeqMove
<1>7. ASSUME DeqStore PROVE IInv' /\ Fifo!Next
  BY <1>7, DeqStoreStep DEF Fifo!Next
<1>8. ASSUME UNCHANGED ringVars PROVE IInv' /\ UNCHANGED <<Content, given>>
  <2> USE <1>8 DEF ringVars, slotVars, enqVars, deqVars
  <2>1. RingTypeOK' /\ ProducerInv' /\ ConsumerInv'
    BY DEF IInv, RingTypeOK, ProducerInv, ConsumerInv
  <2>2. ItemsInv'
    BY DEF IInv, ItemsInv, Start
  <2>3. UNCHANGED <<Content, given>>
    BY DEF Content, Start, Moved
  <2> QED
    BY <2>1, <2>2, <2>3 DEF IInv
<1> QED
  BY <1>1, <1>2, <1>3, <1>4, <1>5, <1>6, <1>7, <1>8 DEF RingNext

(* The invariant holds in every reachable state.                           *)
LEMMA Invariance == RingSpec => []IInv
<1>1. IInv /\ [RingNext]_ringVars => IInv'
  BY StepIsFifoStep
<1> QED
  BY InitIInv, <1>1, PTL DEF RingSpec

(* The positions of the ring stay in range, and everything moved out or    *)
(* handed over was put in: never the content of an empty slot.             *)
THEOREM RingTypeCorrect == RingSpec => []RingTypeOK
<1>1. IInv => RingTypeOK
  BY DEF IInv
<1> QED
  BY Invariance, <1>1, PTL

(* The producer is never about to write the slot the consumer is about to  *)
(* read, so the slots need no lock (enqueue and dequeueAll).               *)
THEOREM SlotsApart == RingSpec => []NoSharedSlot
<1>1. ASSUME IInv, deqPc = "moving", pos # seenTail
      PROVE  tailPos # pos
  <2>1. /\ pos \in Slot /\ seenTail \in Slot /\ tailPos \in Slot
        /\ Distance(pos, seenTail) <= Distance(pos, tailPos)
    BY <1>1 DEF IInv, RingTypeOK, ConsumerInv
  <2> QED
    BY <1>1, <2>1, DistanceIs, OneOnePipeAssumption
<1>2. IInv => NoSharedSlot
  BY <1>1 DEF NoSharedSlot
<1> QED
  BY Invariance, <1>2, PTL

(* The ring implements the bounded queue: whatever the interleaving of     *)
(* enqueue and dequeueAll, nothing is lost, duplicated or reordered.       *)
THEOREM RingImplementsFifo == RingSpec => RingIsFifo
<1>1. RingInit => Fifo!Init
  <2> SUFFICES ASSUME RingInit PROVE Fifo!Init
    OBVIOUS
  <2>1. Content \in Seq(Item) /\ Len(Content) = Moved + Distance(Start, tailPos)
    BY InitIInv, ContentIs
  <2>2. 0 \in Slot
    BY OneOnePipeAssumption DEF Slot
  <2>3. Moved = 0 /\ Start = 0 /\ tailPos = 0 /\ Distance(0, 0) = 0
    BY <2>2, DistanceIs DEF RingInit, Moved, Start
  <2>4. Content = <<>>
    BY <2>1, <2>3, EmptySeq
  <2> QED
    BY <2>4 DEF RingInit, Fifo!Init
<1>2. IInv /\ [RingNext]_ringVars => [Fifo!Next]_<<Content, given>>
  BY StepIsFifoStep
<1> QED
  BY Invariance, <1>1, <1>2, PTL DEF RingSpec, RingIsFifo, Fifo!Spec

-----------------------------------------------------------------------------
(***************************************************************************)
(* The receive path uses the ring as it expects to be used.                *)
(***************************************************************************)
(* What a handler pushes is a datagram: it had a completion to handle.     *)
PushInv ==
  /\ completed \in 0 .. MaxReceives
  /\ handler \in [Thread -> {"none", "push", "pushing", "start", "test", "issue", "leave"}]
  /\ from \in [Thread -> Item \cup {NoItem}]
  /\ "data" \in receives => completed # 0
  /\ \A t \in Thread : handler[t] = "push" => from[t] \in Item

LEMMA InitPushInv == Init => PushInv
BY RtpReceiveAssumption DEF Init, PushInv

(* Each action keeps the invariant.                                        *)
LEMMA StepPushInv == PushInv /\ [Next]_vars => PushInv'
<1> SUFFICES ASSUME PushInv, [Next]_vars PROVE PushInv'
  OBVIOUS
<1>1. CASE Complete
  BY <1>1, RtpReceiveAssumption DEF Complete, PushInv
<1>2. ASSUME NEW t \in Thread, Finish(t) PROVE PushInv'
  <2>1. PICK r \in receives \ {"pending"} :
           /\ receives' = receives \ {r}
           /\ closed' = (closed \/ r # "data")
           /\ handler' = [handler EXCEPT ![t] = IF closed' THEN "leave" ELSE "push"]
           /\ from' = [from EXCEPT ![t] = IF closed' THEN NoItem ELSE completed]
    BY <1>2 DEF Finish, HandlerGoto
  <2>2. completed' = completed
    BY <1>2 DEF Finish
  <2>3. ~closed' => completed \in Item
    <3> SUFFICES ASSUME ~closed' PROVE completed \in Item
      OBVIOUS
    <3>1. r = "data"
      BY <2>1
    <3>2. completed \in 0 .. MaxReceives /\ completed # 0
      BY <3>1 DEF PushInv
    <3>3. completed \in 1 .. MaxReceives
      BY <3>2, RtpReceiveAssumption
    <3> QED
      BY <3>3, RtpReceiveAssumption
  <2> QED
    BY <2>1, <2>2, <2>3 DEF PushInv
<1>3. ASSUME NEW t \in Thread, PushEnter(t) PROVE PushInv'
  BY <1>3 DEF PushEnter, HandlerGoto, PushInv
<1>4. ASSUME NEW t \in Thread, Push(t) PROVE PushInv'
  BY <1>4 DEF Push, Pushed, HandlerGoto, PushInv
<1>5. ASSUME NEW t \in Thread, StartCount(t) \/ StartTest(t) \/ Leave(t)
      PROVE  PushInv'
  BY <1>5 DEF StartCount, StartTest, Leave, HandlerGoto, PushInv
<1>6. ASSUME NEW t \in Thread, StartIssue(t) PROVE PushInv'
  BY <1>6 DEF StartIssue, HandlerGoto, PushInv
<1>7. CASE Worker
  BY <1>7 DEF Worker, Drain, Work, Wait, receiverVars, PushInv
<1>8. CASE User \/ UserEnd
  BY <1>8 DEF User, ReadFlag, Swap, UserEnd, receiverVars, PushInv
<1>9. CASE CloseCancel \/ CloseSocket
  BY <1>9 DEF CloseCancel, CloseSocket, Abort, PushInv
<1>10. CASE CloseFlag \/ CloseStopWorker \/ CloseReceiver \/ CloseJoin
  BY <1>10 DEF CloseFlag, CloseStopWorker, CloseReceiver, CloseJoin,
               receiverVars, PushInv
<1>11. CASE UNCHANGED vars
  BY <1>11 DEF vars, receiverVars, PushInv
<1> QED
  BY <1>1, <1>2, <1>3, <1>4, <1>5, <1>6, <1>7, <1>8, <1>9, <1>10, <1>11
     DEF Next, Handler, Close

(* A step of the receive path is a step of the ring or leaves it alone.    *)
LEMMA StepIsRingStep == PushInv /\ [Next]_vars => [RingNext]_ringVars
<1> SUFFICES ASSUME PushInv, [Next]_vars PROVE [RingNext]_ringVars
  OBVIOUS
<1>1. ASSUME NEW t \in Thread, PushEnter(t) PROVE RingNext
  BY <1>1 DEF PushEnter, RingNext, PushInv
<1>2. ASSUME NEW t \in Thread, Push(t) PROVE RingNext
  BY <1>2 DEF Push, RingNext
<1>3. CASE Drain
  BY <1>3 DEF Drain, RingNext
<1>4. ASSUME NEW t \in Thread,
             Finish(t) \/ StartCount(t) \/ StartTest(t) \/ StartIssue(t) \/ Leave(t)
      PROVE  UNCHANGED ringVars
  BY <1>4 DEF Finish, StartCount, StartTest, StartIssue, Leave
<1>5. CASE Complete \/ UserEnd \/ Work \/ Wait \/ User \/ Close
  BY <1>5 DEF Complete, UserEnd, Work, Wait, User, ReadFlag, Swap, Close, CloseFlag,
              CloseStopWorker, CloseCancel, CloseReceiver, CloseSocket, CloseJoin
<1>6. CASE UNCHANGED vars
  BY <1>6 DEF vars
<1> QED
  BY <1>1, <1>2, <1>3, <1>4, <1>5, <1>6 DEF Next, Handler, Worker

(* The receive path keeps to the ring's specification.                     *)
LEMMA ReceiveUsesRing == Spec => RingSpec
<1>1. Init => RingInit
  BY DEF Init
<1> QED
  BY <1>1, InitPushInv, StepPushInv, StepIsRingStep, PTL DEF Spec, RingSpec

(* Whatever the threads of the io_context, the worker, the channel and     *)
(* close() do, the ring between them is a bounded queue: nothing it took   *)
(* is lost, doubled or reordered on the way to the worker.                 *)
THEOREM ReceiveIsFifo == Spec => RingIsFifo
BY ReceiveUsesRing, RingImplementsFifo, PTL

(* The thread that pushes a datagram and the worker that takes datagrams   *)
(* out never meet in a slot.                                               *)
THEOREM ReceiveSlotsApart == Spec => []NoSharedSlot
BY ReceiveUsesRing, SlotsApart, PTL

-----------------------------------------------------------------------------
(* The receives form one chain: at any time there is one receive under way *)
(* or one handler that may issue the next, never both.                     *)
InChain(t) == handler[t] \in {"push", "pushing", "start", "test", "issue"}

ChainInv ==
  /\ handler \in [Thread -> {"none", "push", "pushing", "start", "test", "issue", "leave"}]
  /\ \A r, q \in receives : r = q
  /\ \A t \in Thread : InChain(t) => receives = {}
  /\ \A t, u \in Thread : InChain(t) /\ InChain(u) => t = u

LEMMA InitChainInv == Init => ChainInv
BY DEF Init, ChainInv, InChain

(* Each action keeps it: Finish passes the chain from a receive to a       *)
(* handler, StartIssue back.                                               *)
LEMMA StepChainInv == ChainInv /\ [Next]_vars => ChainInv'
<1> SUFFICES ASSUME ChainInv, [Next]_vars PROVE ChainInv'
  OBVIOUS
<1>1. CASE Complete
  BY <1>1 DEF Complete, ChainInv, InChain
<1>2. ASSUME NEW t \in Thread, Finish(t) PROVE ChainInv'
  <2>1. PICK r \in receives \ {"pending"} :
           /\ receives' = receives \ {r}
           /\ handler' = [handler EXCEPT ![t] = IF closed' THEN "leave" ELSE "push"]
    BY <1>2 DEF Finish, HandlerGoto
  <2>2. receives' = {} /\ \A u \in Thread : ~InChain(u)
    BY <2>1 DEF ChainInv
  <2>3. handler' \in [Thread -> {"none", "push", "pushing", "start", "test", "issue", "leave"}]
    BY <2>1 DEF ChainInv
  <2>4. \A u \in Thread \ {t} : ~InChain(u)'
    BY <2>1, <2>2 DEF ChainInv, InChain
  <2> QED
    BY <2>2, <2>3, <2>4 DEF ChainInv
<1>3. ASSUME NEW t \in Thread, PushEnter(t) \/ StartCount(t)
      PROVE  ChainInv'
  BY <1>3 DEF PushEnter, StartCount, HandlerGoto, ChainInv, InChain
<1>4. ASSUME NEW t \in Thread, Push(t) PROVE ChainInv'
  BY <1>4 DEF Push, Pushed, HandlerGoto, ChainInv, InChain
<1>5. ASSUME NEW t \in Thread, StartTest(t) PROVE ChainInv'
  BY <1>5 DEF StartTest, HandlerGoto, ChainInv, InChain
<1>6. ASSUME NEW t \in Thread, StartIssue(t) PROVE ChainInv'
  <2>1. /\ receives = {} /\ handler[t] = "issue"
        /\ receives' = receives \cup {IF socket = "open" THEN "pending" ELSE "error"}
        /\ handler' = [handler EXCEPT ![t] = "leave"]
    BY <1>6 DEF StartIssue, HandlerGoto, ChainInv, InChain
  <2>2. \A u \in Thread : ~InChain(u)'
    BY <2>1 DEF ChainInv, InChain
  <2> QED
    BY <2>1, <2>2 DEF ChainInv
<1>7. ASSUME NEW t \in Thread, Leave(t) PROVE ChainInv'
  BY <1>7 DEF Leave, HandlerGoto, ChainInv, InChain
<1>8. CASE Worker \/ User \/ UserEnd
  BY <1>8 DEF Worker, Drain, Work, Wait, User, ReadFlag, Swap, UserEnd,
              receiverVars, ChainInv, InChain
<1>9. CASE CloseCancel \/ CloseSocket
  BY <1>9 DEF CloseCancel, CloseSocket, Abort, ChainInv, InChain
<1>10. CASE CloseFlag \/ CloseStopWorker \/ CloseReceiver \/ CloseJoin
  BY <1>10 DEF CloseFlag, CloseStopWorker, CloseReceiver, CloseJoin,
               receiverVars, ChainInv, InChain
<1>11. CASE UNCHANGED vars
  BY <1>11 DEF vars, receiverVars, ChainInv, InChain
<1> QED
  BY <1>1, <1>2, <1>3, <1>4, <1>5, <1>6, <1>7, <1>8, <1>9, <1>10, <1>11
     DEF Next, Handler, Close

(* The ring has one producer and the receive buffer one user, on any       *)
(* number of io_context threads: no receive is under way while a datagram  *)
(* is pushed (finishReceive calls pushUdp before startReceive).            *)
THEOREM ChainHasOneProducer == Spec => []OneProducer
<1>1. ASSUME ChainInv PROVE OneProducer
  <2> DEFINE pushing == {t \in Thread : handler[t] \in {"push", "pushing"}}
  <2>1. pushing # {} => receives = {}
    BY <1>1 DEF ChainInv, InChain
  <2>2. Cardinality(pushing) <= 1
    <3>1. CASE pushing = {}
      BY <3>1, FS_EmptySet
    <3>2. CASE pushing # {}
      <4>1. PICK t \in pushing : TRUE
        BY <3>2
      <4>2. pushing = {t}
        BY <4>1, <1>1 DEF ChainInv, InChain
      <4> QED
        BY <4>2, FS_Singleton
    <3> QED
      BY <3>1, <3>2
  <2> QED
    BY <2>1, <2>2 DEF OneProducer
<1> QED
  BY <1>1, InitChainInv, StepChainInv, PTL DEF Spec

-----------------------------------------------------------------------------
(***************************************************************************)
(* The whole receive path. The types of the variables, but for the count   *)
(* of receives:                                                            *)
(***************************************************************************)
ReceiverTypes ==
  /\ closed \in BOOLEAN /\ stopRecvWorker \in BOOLEAN
  /\ receiver \in {"alive", "deleted", "leaked"} /\ socket \in {"open", "closed"}
  /\ receives \subseteq {"pending", "data", "error", "aborted"}
  /\ closePc \in {"open", "flagged", "cancel", "stopping", "closing", "joining", "closed"}

QueueTypes ==
  /\ recvRtpQueueEmpty \in BOOLEAN
  /\ workerPc \in {"drain", "work", "wait", "gone"}
  /\ rtpWorkingQueue \in Seq(Item) /\ held \in Seq(Item) /\ recvRtpQueue \in Seq(Item)
  /\ userPc \in {"idle", "swap", "gone"}

(* A datagram on its way into the ring is the last one received, and is    *)
(* new: receives complete one after another along the chain.               *)
Pushing(t) == handler[t] \in {"push", "pushing"}

NewInv ==
  /\ arrived \subseteq 1 .. completed
  /\ "data" \in receives => completed \notin arrived
  /\ \A t \in Thread :
       Pushing(t) => from[t] = completed /\ completed # 0 /\ completed \notin arrived
  /\ \A t \in Thread : handler[t] = "pushing" => enqPc # "idle" /\ input = from[t]
  /\ enqPc # "idle" => \E t \in Thread : handler[t] = "pushing"

(* recvTasks counts what holds the receiver.                               *)
Active == {t \in Thread : handler[t] # "none"}
Counted == {t \in Thread : handler[t] \in {"test", "issue"}}
CountInv == recvTasks = Cardinality(receives) + Cardinality(Active) + Cardinality(Counted)

(* What close() has brought about by where it is.                          *)
CloseInv ==
  /\ closePc # "open" => closed
  /\ closePc \in {"closing", "joining", "closed"} =>
       \A t \in Thread : handler[t] \in {"none", "leave"}
  /\ closePc = "closed" => workerPc = "gone"
  /\ receiver = "deleted" => receives = {} /\ \A t \in Thread : handler[t] = "none"

(* The worker looks for more only when it has worked everything off.       *)
WorkerInv == workerPc # "work" => rtpWorkingQueue = <<>>

PathInv ==
  /\ IInv /\ PushInv /\ ChainInv
  /\ ReceiverTypes /\ QueueTypes
  /\ NewInv /\ CountInv /\ CloseInv /\ WorkerInv

LEMMA InitPathInv == Init => PathInv
<1> SUFFICES ASSUME Init PROVE PathInv
  OBVIOUS
<1>1. IInv /\ PushInv /\ ChainInv
  BY InitIInv, InitPushInv, InitChainInv DEF Init
<1>2. ReceiverTypes /\ QueueTypes /\ CloseInv /\ WorkerInv
  BY EmptySeq DEF Init, ReceiverTypes, QueueTypes, CloseInv, WorkerInv
<1>3. NewInv
  BY DEF Init, RingInit, NewInv, Pushing
<1>4. CountInv
  <2>1. Active = {} /\ Counted = {} /\ receives = {"pending"} /\ recvTasks = 1
    BY DEF Init, Active, Counted
  <2>2. Cardinality(Active) = 0 /\ Cardinality(Counted) = 0 /\ Cardinality(receives) = 1
    BY <2>1, FS_EmptySet, FS_Singleton
  <2> QED
    BY <2>1, <2>2 DEF CountInv
<1> QED
  BY <1>1, <1>2, <1>3, <1>4 DEF PathInv

LEMMA ReceiverTypesStep == ReceiverTypes /\ [Next]_vars => ReceiverTypes'
<1> SUFFICES ASSUME ReceiverTypes, [Next]_vars PROVE ReceiverTypes'
  OBVIOUS
<1> USE DEF ReceiverTypes
<1>1. CASE Complete
  BY <1>1 DEF Complete, closeVars
<1>2. ASSUME NEW t \in Thread, Handler(t) PROVE ReceiverTypes'
  BY <1>2 DEF Handler, Finish, PushEnter, Push, StartCount, StartTest, StartIssue, Leave,
              closeVars
<1>3. CASE Worker \/ User \/ UserEnd
  BY <1>3 DEF Worker, Drain, Work, Wait, User, ReadFlag, Swap, UserEnd, receiverVars, closeVars
<1>4. CASE Close
  BY <1>4 DEF Close, CloseFlag, CloseStopWorker, CloseCancel, CloseReceiver, CloseSocket,
              CloseJoin, CloseStep, Abort, receiverVars
<1>5. CASE UNCHANGED vars
  BY <1>5 DEF vars, receiverVars, closeVars
<1> QED
  BY <1>1, <1>2, <1>3, <1>4, <1>5 DEF Next

(* What Reorder hands over and what it keeps are sequences of datagrams.   *)
LEMMA ReorderTypes ==
  ASSUME QueueTypes, NEW p \in Item, Reorder(p)
  PROVE  held' \in Seq(Item) /\ recvRtpQueue' \in Seq(Item) /\ recvRtpQueueEmpty' \in BOOLEAN
<1> USE DEF QueueTypes
<1>1. CASE held' \in {held, <<>>} /\ UNCHANGED <<recvRtpQueue, recvRtpQueueEmpty>>
  BY <1>1, EmptySeq
<1>2. ASSUME NEW all \in {Append(held, p), <<p>> \o held}, NEW k \in 0 .. Len(held) + 1,
             held' = SubSeq(all, k + 1, Len(all)),
             recvRtpQueue' = recvRtpQueue \o SubSeq(all, 1, k),
             recvRtpQueueEmpty' = (recvRtpQueue' = <<>>)
      PROVE  held' \in Seq(Item) /\ recvRtpQueue' \in Seq(Item) /\ recvRtpQueueEmpty' \in BOOLEAN
  <2>1. all \in Seq(Item) /\ Len(all) = Len(held) + 1
    <3>1. Append(held, p) \in Seq(Item) /\ Len(Append(held, p)) = Len(held) + 1
      BY AppendProperties
    <3>2. <<p>> \in Seq(Item) /\ Len(<<p>>) = 1
      OBVIOUS
    <3>3. <<p>> \o held \in Seq(Item) /\ Len(<<p>> \o held) = 1 + Len(held)
      BY <3>2, ConcatProperties
    <3>4. Len(held) \in Nat
      BY LenProperties
    <3>5. CASE all = Append(held, p)
      BY <3>1, <3>5
    <3>6. CASE all = <<p>> \o held
      BY <3>3, <3>4, <3>6
    <3> QED
      BY <3>5, <3>6
  <2>2. SubSeq(all, k + 1, Len(all)) \in Seq(Item) /\ SubSeq(all, 1, k) \in Seq(Item)
    <3>1. Len(all) \in Nat /\ k \in 0 .. Len(all) /\ \A i \in 1 .. Len(all) : all[i] \in Item
      BY <2>1, LenProperties, ElementOfSeq
    <3>2. \A i \in k + 1 .. Len(all) : all[i] \in Item
      BY <3>1
    <3>3. \A i \in 1 .. k : all[i] \in Item
      BY <3>1
    <3> QED
      BY <3>1, <3>2, <3>3, SubSeqProperties
  <2>3. recvRtpQueue \o SubSeq(all, 1, k) \in Seq(Item)
    BY <2>2, ConcatProperties
  <2> QED
    BY <1>2, <2>2, <2>3
<1> QED
  BY <1>1, <1>2 DEF Reorder

LEMMA QueueStep == IInv /\ QueueTypes /\ WorkerInv /\ [Next]_vars => QueueTypes' /\ WorkerInv'
<1> SUFFICES ASSUME IInv, QueueTypes, WorkerInv, [Next]_vars PROVE QueueTypes' /\ WorkerInv'
  OBVIOUS
<1> USE DEF QueueTypes, WorkerInv
<1>1. CASE Complete \/ \E t \in Thread : Handler(t)
  BY <1>1 DEF Complete, Handler, Finish, PushEnter, Push, StartCount, StartTest, StartIssue,
              Leave, workerVars, queueVars
<1>2. CASE Drain
  <2>1. outputs \in Seq(Item)
    BY DEF IInv, RingTypeOK
  <2> QED
    BY <1>2, <2>1 DEF Drain, queueVars
<1>3. CASE Work
  <2>1. CASE rtpWorkingQueue = <<>>
    BY <1>3, <2>1 DEF Work
  <2>2. CASE rtpWorkingQueue # <<>>
    <3>1. Reorder(Head(rtpWorkingQueue)) /\ rtpWorkingQueue' = Tail(rtpWorkingQueue)
          /\ UNCHANGED <<workerPc, userPc>> /\ workerPc = "work"
      BY <1>3, <2>2 DEF Work
    <3>2. Head(rtpWorkingQueue) \in Item /\ Tail(rtpWorkingQueue) \in Seq(Item)
      BY <2>2, HeadTailProperties
    <3> QED
      BY <3>1, <3>2, ReorderTypes
  <2> QED
    BY <2>1, <2>2
<1>4. CASE Wait \/ User \/ UserEnd
  <2>1. CASE Wait \/ ReadFlag \/ UserEnd
    BY <2>1 DEF Wait, ReadFlag, UserEnd, queueVars, workerVars
  <2>2. CASE Swap
    BY <2>2, EmptySeq DEF Swap, workerVars
  <2> QED
    BY <1>4, <2>1, <2>2 DEF User
<1>5. CASE Close
  BY <1>5 DEF Close, CloseFlag, CloseStopWorker, CloseCancel, CloseReceiver, CloseSocket,
              CloseJoin, workerVars, queueVars
<1>6. CASE UNCHANGED vars
  BY <1>6 DEF vars, workerVars, queueVars
<1> QED
  BY <1>1, <1>2, <1>3, <1>4, <1>5, <1>6 DEF Next, Worker

(* The numbers of the datagrams, along the chain.                          *)
LEMMA NewStep == PushInv /\ ChainInv /\ NewInv /\ [Next]_vars => NewInv'
<1> SUFFICES ASSUME PushInv, ChainInv, NewInv, [Next]_vars PROVE NewInv'
  OBVIOUS
<1>0. completed \in Nat
  BY DEF PushInv
<1>1. CASE Complete
  <2>1. /\ completed' = completed + 1 /\ "pending" \in receives
        /\ UNCHANGED <<arrived, handler, from, enqPc, input>>
    BY <1>1 DEF Complete, ringVars, enqVars
  <2>2. \A t \in Thread : ~Pushing(t)
    BY <2>1 DEF ChainInv, InChain, Pushing
  <2>3. arrived \subseteq 1 .. completed' /\ completed' \notin arrived
    BY <1>0, <2>1 DEF NewInv
  <2> QED
    BY <2>1, <2>2, <2>3 DEF NewInv, Pushing
<1>2. ASSUME NEW t \in Thread, Finish(t) PROVE NewInv'
  <2>1. PICK r \in receives \ {"pending"} :
           /\ receives' = receives \ {r}
           /\ closed' = (closed \/ r # "data")
           /\ handler' = [handler EXCEPT ![t] = IF closed' THEN "leave" ELSE "push"]
           /\ from' = [from EXCEPT ![t] = IF closed' THEN NoItem ELSE completed]
    BY <1>2 DEF Finish, HandlerGoto
  <2>2. /\ handler[t] = "none"
        /\ UNCHANGED <<arrived, completed, enqPc, input>>
    BY <1>2 DEF Finish, ringVars, enqVars
  <2>3. receives' = {} /\ \A u \in Thread : ~InChain(u)
    BY <2>1 DEF ChainInv
  <2>4. Pushing(t)' => from'[t] = completed /\ completed # 0 /\ completed \notin arrived
    <3>1. CASE closed'
      BY <2>1, <2>2, <3>1 DEF PushInv, Pushing
    <3>2. CASE ~closed'
      BY <2>1, <2>2, <3>2 DEF PushInv, NewInv
    <3> QED
      BY <3>1, <3>2
  <2>5. \A u \in Thread \ {t} : ~Pushing(u)'
    BY <2>1, <2>3 DEF PushInv, Pushing, InChain
  <2>6. \A u \in Thread : handler'[u] # "pushing" /\ handler[u] # "pushing"
    BY <2>1, <2>3 DEF PushInv, InChain
  <2> QED
    BY <2>2, <2>3, <2>4, <2>5, <2>6 DEF NewInv
<1>3. ASSUME NEW t \in Thread, PushEnter(t) PROVE NewInv'
  <2>1. /\ handler[t] = "push" /\ handler' = [handler EXCEPT ![t] = "pushing"]
        /\ enqPc' = "loaded" /\ input' = from[t]
        /\ UNCHANGED <<arrived, completed, receives, from>>
    BY <1>3 DEF PushEnter, EnqLoad, HandlerGoto
  <2>2. handler'[t] = "pushing" /\ \A u \in Thread \ {t} : ~InChain(u) /\ handler'[u] = handler[u]
    BY <2>1 DEF ChainInv, InChain
  <2>3. \A u \in Thread : Pushing(u)' => u = t
    BY <2>2 DEF InChain, Pushing
  <2> QED
    BY <2>1, <2>2, <2>3 DEF NewInv, Pushing
<1>4. ASSUME NEW t \in Thread, Push(t) PROVE NewInv'
  <2>1. handler[t] = "pushing" /\ UNCHANGED <<receives, completed>>
    BY <1>4 DEF Push
  <2>2. receives = {} /\ \A u \in Thread \ {t} : ~InChain(u)
    BY <2>1 DEF ChainInv, InChain
  <2>3. CASE EnqWrite /\ UNCHANGED <<handler, from, arrived>>
    BY <2>1, <2>3 DEF EnqWrite, NewInv, Pushing
  <2>4. CASE Pushed(t) /\ arrived' \in {arrived, arrived \cup {from[t]}} /\ enqPc' = "idle"
    <3>1. \A u \in Thread : ~Pushing(u)'
      BY <2>2, <2>4 DEF Pushed, HandlerGoto, PushInv, Pushing, InChain
    <3>2. from[t] = completed /\ completed # 0
      BY <2>1 DEF NewInv, Pushing
    <3>3. arrived' \subseteq 1 .. completed
      BY <1>0, <2>4, <3>2 DEF NewInv
    <3> QED
      BY <2>1, <2>2, <2>4, <3>1, <3>3 DEF NewInv, Pushing
  <2> QED
    BY <1>4, <2>3, <2>4 DEF Push, EnqRefuse, EnqPublish, EnqEnd
<1>5. ASSUME NEW t \in Thread, StartCount(t) \/ StartTest(t) \/ StartIssue(t) \/ Leave(t)
      PROVE  NewInv'
  <2>1. UNCHANGED <<arrived, completed, from, enqPc, input>>
    BY <1>5 DEF StartCount, StartTest, StartIssue, Leave, ringVars, enqVars
  <2>2. ("data" \in receives') => "data" \in receives
    BY <1>5 DEF StartCount, StartTest, StartIssue, Leave
  <2>3. \A u \in Thread : (Pushing(u)' <=> Pushing(u))
                          /\ (handler'[u] = "pushing" <=> handler[u] = "pushing")
    BY <1>5 DEF StartCount, StartTest, StartIssue, Leave, HandlerGoto, PushInv, Pushing
  <2> QED
    BY <2>1, <2>2, <2>3 DEF NewInv
<1>6. CASE Worker \/ User \/ UserEnd
  BY <1>6 DEF Worker, Drain, DeqLoad, DeqMove, DeqStore, Work, Wait, User, ReadFlag, Swap, UserEnd,
              ringVars, enqVars, receiverVars, NewInv, Pushing
<1>7. CASE Close
  <2>1. UNCHANGED <<arrived, completed, from, handler, enqPc, input>>
    BY <1>7 DEF Close, CloseFlag, CloseStopWorker, CloseCancel, CloseReceiver, CloseSocket,
                CloseJoin, ringVars, enqVars, receiverVars
  <2>2. ("data" \in receives') => "data" \in receives
    BY <1>7 DEF Close, CloseFlag, CloseStopWorker, CloseCancel, CloseReceiver, CloseSocket,
                CloseJoin, Abort, receiverVars
  <2> QED
    BY <2>1, <2>2 DEF NewInv, Pushing
<1>8. CASE UNCHANGED vars
  BY <1>8 DEF vars, ringVars, enqVars, receiverVars, NewInv, Pushing
<1> QED
  BY <1>1, <1>2, <1>3, <1>4, <1>5, <1>6, <1>7, <1>8 DEF Next, Handler

LEMMA FiniteCounts ==
  ASSUME ChainInv
  PROVE  /\ IsFiniteSet(Active) /\ IsFiniteSet(Counted) /\ IsFiniteSet(receives)
         /\ Cardinality(Active) \in Nat /\ Cardinality(Counted) \in Nat
         /\ Cardinality(receives) \in Nat
<1>1. Active \in SUBSET Thread /\ Counted \in SUBSET Thread
  BY DEF Active, Counted
<1>2. IsFiniteSet(Active) /\ IsFiniteSet(Counted)
  BY <1>1, RtpReceiveAssumption, FS_Subset
<1>3. receives = {} \/ \E r : receives = {r}
  BY DEF ChainInv
<1>4. IsFiniteSet(receives)
  BY <1>3, FS_EmptySet, FS_Singleton
<1> QED
  BY <1>2, <1>4, FS_CardinalityType

(* A step that moves no handler and issues or ends no receive.             *)
LEMMA CountKept ==
  ASSUME CountInv, recvTasks' = recvTasks, handler' = handler,
         Cardinality(receives') = Cardinality(receives)
  PROVE  CountInv'
<1>1. Active' = Active /\ Counted' = Counted
  BY DEF Active, Counted
<1> QED
  BY <1>1 DEF CountInv

(* What completes, or is aborted, was and stays the only receive.          *)
LEMMA SameReceives ==
  ASSUME ChainInv,
         \/ "pending" \in receives /\ \E r : receives' = (receives \ {"pending"}) \cup {r}
         \/ receives' = Abort(receives)
         \/ receives' = receives
  PROVE  Cardinality(receives') = Cardinality(receives)
<1>1. CASE receives = {}
  <2>1. receives' = {}
    BY <1>1 DEF Abort
  <2> QED
    BY <1>1, <2>1
<1>2. CASE receives # {}
  <2>1. PICK q \in receives : receives = {q}
    BY <1>2 DEF ChainInv
  <2>2. \E r : receives' = {r}
    <3>1. CASE receives' = Abort(receives)
      BY <2>1, <3>1 DEF Abort
    <3>2. CASE receives' = receives
      BY <2>1, <3>2
    <3>3. ASSUME "pending" \in receives, NEW r, receives' = (receives \ {"pending"}) \cup {r}
          PROVE  \E s : receives' = {s}
      <4>1. receives' = {r}
        BY <2>1, <3>3
      <4> QED
        BY <4>1
    <3> QED
      BY <3>1, <3>2, <3>3
  <2>3. Cardinality(receives') = 1 /\ Cardinality(receives) = 1
    BY <2>1, <2>2, FS_Singleton
  <2> QED
    BY <2>3
<1> QED
  BY <1>1, <1>2

LEMMA CountStep == PushInv /\ ChainInv /\ CountInv /\ [Next]_vars => CountInv'
<1> SUFFICES ASSUME PushInv, ChainInv, CountInv, [Next]_vars PROVE CountInv'
  OBVIOUS
<1>0. handler \in [Thread -> {"none", "push", "pushing", "start", "test", "issue", "leave"}]
  BY DEF PushInv
<1>1. CASE Complete
  BY <1>1, SameReceives, CountKept DEF Complete
<1>2. ASSUME NEW t \in Thread, Finish(t) PROVE CountInv'
  <2>1. PICK r \in receives \ {"pending"} :
           /\ receives' = receives \ {r}
           /\ handler' = [handler EXCEPT ![t] = IF closed' THEN "leave" ELSE "push"]
    BY <1>2 DEF Finish, HandlerGoto
  <2>2. handler[t] = "none" /\ recvTasks' = recvTasks
    BY <1>2 DEF Finish
  <2>3. Active' = Active \cup {t} /\ t \notin Active /\ Counted' = Counted
    BY <1>0, <2>1, <2>2 DEF Active, Counted
  <2>4. Cardinality(Active') = Cardinality(Active) + 1
    BY <2>3, FiniteCounts, FS_AddElement
  <2>5. Cardinality(receives') = Cardinality(receives) - 1
    BY <2>1, FiniteCounts, FS_RemoveElement
  <2>6. Cardinality(Counted') = Cardinality(Counted)
    BY <2>3
  <2> QED
    BY <2>2, <2>4, <2>5, <2>6, FiniteCounts DEF CountInv
<1>3. ASSUME NEW t \in Thread, PushEnter(t) \/ Push(t) PROVE CountInv'
  <2>1. /\ handler[t] \in {"push", "pushing"}
        /\ handler' = [handler EXCEPT ![t] = "pushing"] \/ handler' = handler
             \/ handler' = [handler EXCEPT ![t] = "start"]
        /\ UNCHANGED <<recvTasks, receives>>
    BY <1>3 DEF PushEnter, Push, Pushed, HandlerGoto
  <2>2. Active' = Active /\ Counted' = Counted
    BY <1>0, <2>1 DEF Active, Counted
  <2> QED
    BY <2>1, <2>2 DEF CountInv
<1>4. ASSUME NEW t \in Thread, StartCount(t) PROVE CountInv'
  <2>1. /\ handler[t] = "start" /\ handler' = [handler EXCEPT ![t] = "test"]
        /\ recvTasks' = recvTasks + 1 /\ receives' = receives
    BY <1>4 DEF StartCount, HandlerGoto
  <2>2. Active' = Active /\ Counted' = Counted \cup {t} /\ t \notin Counted
    BY <1>0, <2>1 DEF Active, Counted
  <2>3. Cardinality(Counted') = Cardinality(Counted) + 1
    BY <2>2, FiniteCounts, FS_AddElement
  <2>4. Cardinality(Active') = Cardinality(Active) /\ Cardinality(receives') = Cardinality(receives)
    BY <2>1, <2>2
  <2> QED
    BY <2>1, <2>3, <2>4, FiniteCounts DEF CountInv
<1>5. ASSUME NEW t \in Thread, StartTest(t) PROVE CountInv'
  <2>1. /\ handler[t] = "test" /\ receives' = receives
        /\ \/ recvTasks' = recvTasks - 1 /\ handler' = [handler EXCEPT ![t] = "leave"]
           \/ recvTasks' = recvTasks /\ handler' = [handler EXCEPT ![t] = "issue"]
    BY <1>5 DEF StartTest, HandlerGoto
  <2>2. Active' = Active /\ t \in Counted
    BY <1>0, <2>1 DEF Active, Counted
  <2>3. Cardinality(Active') = Cardinality(Active) /\ Cardinality(receives') = Cardinality(receives)
    BY <2>1, <2>2
  <2>4. CASE recvTasks' = recvTasks - 1 /\ handler' = [handler EXCEPT ![t] = "leave"]
    <3>1. Counted' = Counted \ {t}
      BY <1>0, <2>4 DEF Counted
    <3>2. Cardinality(Counted') = Cardinality(Counted) - 1
      BY <2>2, <3>1, FiniteCounts, FS_RemoveElement
    <3> QED
      BY <2>3, <2>4, <3>2, FiniteCounts DEF CountInv
  <2>5. CASE recvTasks' = recvTasks /\ handler' = [handler EXCEPT ![t] = "issue"]
    <3>1. Counted' = Counted
      BY <1>0, <2>1, <2>5 DEF Counted
    <3>2. Cardinality(Counted') = Cardinality(Counted)
      BY <3>1
    <3> QED
      BY <2>3, <2>5, <3>2 DEF CountInv
  <2> QED
    BY <2>1, <2>4, <2>5
<1>6. ASSUME NEW t \in Thread, StartIssue(t) PROVE CountInv'
  <2>1. /\ handler[t] = "issue" /\ handler' = [handler EXCEPT ![t] = "leave"]
        /\ recvTasks' = recvTasks
    BY <1>6 DEF StartIssue, HandlerGoto
  <2>2. receives = {} /\ \E r : receives' = {r}
    <3>1. receives = {}
      BY <2>1 DEF ChainInv, InChain
    <3>2. receives' = {IF socket = "open" THEN "pending" ELSE "error"}
      BY <1>6, <3>1 DEF StartIssue
    <3> QED
      BY <3>1, <3>2
  <2>3. Cardinality(receives) = 0 /\ Cardinality(receives') = 1
    BY <2>2, FS_EmptySet, FS_Singleton
  <2>4. Active' = Active /\ Counted' = Counted \ {t} /\ t \in Counted
    BY <1>0, <2>1 DEF Active, Counted
  <2>5. Cardinality(Counted') = Cardinality(Counted) - 1
    BY <2>4, FiniteCounts, FS_RemoveElement
  <2>6. Cardinality(Active') = Cardinality(Active)
    BY <2>4
  <2> QED
    BY <2>1, <2>3, <2>5, <2>6, FiniteCounts DEF CountInv
<1>7. ASSUME NEW t \in Thread, Leave(t) PROVE CountInv'
  <2>1. /\ handler[t] = "leave" /\ handler' = [handler EXCEPT ![t] = "none"]
        /\ recvTasks' = recvTasks - 1 /\ receives' = receives
    BY <1>7 DEF Leave, HandlerGoto
  <2>2. Active' = Active \ {t} /\ t \in Active /\ Counted' = Counted
    BY <1>0, <2>1 DEF Active, Counted
  <2>3. Cardinality(Active') = Cardinality(Active) - 1
    BY <2>2, FiniteCounts, FS_RemoveElement
  <2>4. Cardinality(Counted') = Cardinality(Counted) /\ Cardinality(receives') = Cardinality(receives)
    BY <2>1, <2>2
  <2> QED
    BY <2>1, <2>3, <2>4, FiniteCounts DEF CountInv
<1>8. CASE Worker \/ User \/ UserEnd
  BY <1>8, CountKept DEF Worker, Drain, Work, Wait, User, ReadFlag, Swap, UserEnd, receiverVars
<1>9. CASE Close
  <2>1. recvTasks' = recvTasks /\ handler' = handler
    BY <1>9 DEF Close, CloseFlag, CloseStopWorker, CloseCancel, CloseReceiver, CloseSocket,
                CloseJoin, receiverVars
  <2>2. receives' = Abort(receives) \/ receives' = receives
    BY <1>9 DEF Close, CloseFlag, CloseStopWorker, CloseCancel, CloseReceiver, CloseSocket,
                CloseJoin, receiverVars
  <2> QED
    BY <2>1, <2>2, SameReceives, CountKept
<1>10. CASE UNCHANGED vars
  BY <1>10, CountKept DEF vars, receiverVars
<1> QED
  BY <1>1, <1>2, <1>3, <1>4, <1>5, <1>6, <1>7, <1>8, <1>9, <1>10 DEF Next, Handler

(* With nothing counted nothing holds the receiver.                        *)
LEMMA StoppedIsQuiet ==
  ASSUME ChainInv, CountInv, isStopped
  PROVE  closed /\ receives = {} /\ \A t \in Thread : handler[t] = "none"
<1>1. Cardinality(receives) = 0 /\ Cardinality(Active) = 0
  BY FiniteCounts DEF isStopped, CountInv
<1>2. receives = {} /\ Active = {}
  BY <1>1, FiniteCounts, FS_EmptySet
<1> QED
  BY <1>2 DEF isStopped, Active

LEMMA CloseInvStep ==
  ReceiverTypes /\ PushInv /\ ChainInv /\ CountInv /\ CloseInv /\ [Next]_vars => CloseInv'
<1> SUFFICES ASSUME ReceiverTypes, PushInv, ChainInv, CountInv, CloseInv, [Next]_vars
             PROVE  CloseInv'
  OBVIOUS
<1> USE DEF CloseInv
<1>0. handler \in [Thread -> {"none", "push", "pushing", "start", "test", "issue", "leave"}]
  BY DEF PushInv
<1>1. CASE Complete
  BY <1>1 DEF Complete, workerVars, closeVars
<1>2. ASSUME NEW t \in Thread, Finish(t) PROVE CloseInv'
  <2>1. PICK r \in receives \ {"pending"} :
           /\ receives' = receives \ {r}
           /\ closed' = (closed \/ r # "data")
           /\ handler' = [handler EXCEPT ![t] = IF closed' THEN "leave" ELSE "push"]
    BY <1>2 DEF Finish, HandlerGoto
  <2>2. UNCHANGED <<closePc, workerPc, receiver>>
    BY <1>2 DEF Finish, closeVars, workerVars
  <2>3. closed => handler' = [handler EXCEPT ![t] = "leave"]
    BY <2>1
  <2>4. receiver # "deleted"
    BY <2>1
  <2> QED
    BY <1>0, <2>1, <2>2, <2>3, <2>4
<1>3. ASSUME NEW t \in Thread, PushEnter(t) \/ Push(t) \/ StartCount(t) \/ StartTest(t)
                               \/ StartIssue(t)
      PROVE  CloseInv'
  <2>1. /\ handler[t] \in {"push", "pushing", "start", "test", "issue"}
        /\ UNCHANGED <<closePc, workerPc, receiver, closed>>
    BY <1>3 DEF PushEnter, Push, StartCount, StartTest, StartIssue, closeVars, workerVars
  <2>2. closePc \notin {"closing", "joining", "closed"} /\ receiver # "deleted"
    BY <2>1
  <2> QED
    BY <2>1, <2>2
<1>4. ASSUME NEW t \in Thread, Leave(t) PROVE CloseInv'
  BY <1>0, <1>4 DEF Leave, HandlerGoto, closeVars, workerVars
<1>5. CASE Worker
  <2>1. workerPc # "gone" /\ UNCHANGED <<closePc, receiverVars>>
    BY <1>5 DEF Worker, Drain, Work, Wait, closeVars
  <2> QED
    BY <2>1 DEF receiverVars
<1>6. CASE User \/ UserEnd
  BY <1>6 DEF User, ReadFlag, Swap, UserEnd, workerVars, closeVars, receiverVars
<1>7. CASE CloseFlag \/ CloseStopWorker \/ CloseCancel
  <2>1. closePc' \in {"flagged", "cancel", "stopping"} /\ closed'
    BY <1>7 DEF CloseFlag, CloseStopWorker, CloseCancel, CloseStep, receiverVars
  <2>2. receives = {} => receives' = {}
    BY <1>7 DEF CloseFlag, CloseStopWorker, CloseCancel, Abort, receiverVars
  <2>3. UNCHANGED <<receiver, handler>>
    BY <1>7 DEF CloseFlag, CloseStopWorker, CloseCancel, receiverVars
  <2> QED
    BY <2>1, <2>2, <2>3
<1>8. CASE CloseReceiver
  <2>1. /\ closePc = "stopping" /\ closePc' = "closing" /\ closed'
        /\ UNCHANGED <<receives, handler>>
    BY <1>8 DEF CloseReceiver, CloseStep
  <2>2. CASE isStopped
    BY <1>8, <2>1, <2>2, StoppedIsQuiet DEF CloseReceiver
  <2>3. CASE ~isStopped
    BY <1>8, <2>1, <2>3 DEF CloseReceiver
  <2> QED
    BY <2>2, <2>3
<1>9. CASE CloseSocket
  <2>1. /\ closePc = "closing" /\ closePc' = "joining" /\ receives' = Abort(receives)
        /\ UNCHANGED <<closed, handler, receiver>>
    BY <1>9 DEF CloseSocket, CloseStep
  <2> QED
    BY <2>1 DEF Abort
<1>10. CASE CloseJoin
  BY <1>10 DEF CloseJoin, CloseStep, receiverVars
<1>11. CASE UNCHANGED vars
  BY <1>11 DEF vars, receiverVars, workerVars, closeVars
<1> QED
  BY <1>1, <1>2, <1>3, <1>4, <1>5, <1>6, <1>7, <1>8, <1>9, <1>10, <1>11 DEF Next, Handler, Close

LEMMA StepPathInv == PathInv /\ [Next]_vars => PathInv'
<1>1. PathInv /\ [Next]_vars => IInv'
  BY StepIsRingStep, StepIsFifoStep DEF PathInv
<1> QED
  BY <1>1, StepPushInv, StepChainInv, ReceiverTypesStep, QueueStep, NewStep, CountStep,
     CloseInvStep DEF PathInv

LEMMA PathInvariance == Spec => []PathInv
  BY InitPathInv, StepPathInv, PTL DEF Spec

(* ReceiverIsSafe: close() deletes the receiver and returns only when      *)
(* nothing will use the receiver, or the transceiver, again.               *)
THEOREM ReceiverIsSafe == Spec => []ReceiverSafe
<1>1. PathInv => ReceiverSafe
  <2> SUFFICES ASSUME PathInv PROVE ReceiverSafe
    OBVIOUS
  <2>1. closePc = "closed" => enqPc = "idle"
    BY DEF PathInv, CloseInv, NewInv
  <2> QED
    BY <2>1 DEF PathInv, CloseInv, ReceiverSafe
<1> QED
  BY <1>1, PathInvariance, PTL

-----------------------------------------------------------------------------
(***************************************************************************)
(* Conserved. No step but the publication of a datagram changes what has   *)
(* arrived; each keeps the union of the places a datagram can be at, and   *)
(* none makes the places larger in sum. As the union cannot have more      *)
(* members than the places have entries, the sum stays exactly as it is:   *)
(* nothing is twice.                                                       *)
(***************************************************************************)

(* The members of a queue.                                                 *)
LEMMA MembersOf ==
  ASSUME NEW q \in Seq(Item)
  PROVE  /\ ToSet(q) \subseteq Item
         /\ IsFiniteSet(ToSet(q)) /\ Cardinality(ToSet(q)) \in Nat
         /\ Cardinality(ToSet(q)) <= Len(q)
<1>1. Len(q) \in Nat /\ DOMAIN q = 1 .. Len(q) /\ \A i \in 1 .. Len(q) : q[i] \in Item
  BY LenProperties, ElementOfSeq
<1>2. q \in Surjection(1 .. Len(q), ToSet(q))
  <2>1. q \in [1 .. Len(q) -> ToSet(q)]
    <3>1. q = [i \in 1 .. Len(q) |-> q[i]]
      BY LenProperties
    <3> QED
      BY <1>1, <3>1 DEF ToSet
  <2> QED
    BY <1>1, <2>1 DEF Surjection, ToSet
<1>3. IsFiniteSet(1 .. Len(q)) /\ Cardinality(1 .. Len(q)) = Len(q)
  <2> DEFINE n == Len(q)
  <2>1. n \in Nat /\ n \in Int /\ 1 \in Int
    BY <1>1
  <2> HIDE DEF n
  <2>2. /\ IsFiniteSet(1 .. n)
        /\ Cardinality(1 .. n) = IF 1 > n THEN 0 ELSE n - 1 + 1
    BY <2>1, FS_Interval, Zenon
  <2>3. Cardinality(1 .. n) = n
    BY <2>1, <2>2
  <2> QED
    BY <2>2, <2>3 DEF n
<1>4. IsFiniteSet(ToSet(q)) /\ Cardinality(ToSet(q)) <= Len(q)
  BY <1>2, <1>3, FS_Surjection
<1> QED
  BY <1>1, <1>4, FS_CardinalityType DEF ToSet

LEMMA MembersEmpty == ToSet(<<>>) = {}
  BY DEF ToSet

LEMMA MembersAppend ==
  ASSUME NEW q \in Seq(Item), NEW x \in Item
  PROVE  ToSet(Append(q, x)) = ToSet(q) \cup {x}
<1>1. /\ Append(q, x) \in Seq(Item) /\ Len(Append(q, x)) = Len(q) + 1
      /\ \A i \in 1 .. Len(q) : Append(q, x)[i] = q[i]
      /\ Append(q, x)[Len(q) + 1] = x
  BY AppendProperties
<1>2. Len(q) \in Nat /\ DOMAIN q = 1 .. Len(q) /\ DOMAIN Append(q, x) = 1 .. Len(q) + 1
  BY <1>1, LenProperties
<1>3. 1 .. Len(q) + 1 = 1 .. Len(q) \cup {Len(q) + 1}
  BY <1>2
<1> QED
  BY <1>1, <1>2, <1>3 DEF ToSet

LEMMA MembersConcat ==
  ASSUME NEW q \in Seq(Item), NEW r \in Seq(Item)
  PROVE  ToSet(q \o r) = ToSet(q) \cup ToSet(r)
<1>1. /\ q \o r \in Seq(Item) /\ Len(q \o r) = Len(q) + Len(r)
      /\ \A i \in 1 .. Len(q) + Len(r) :
           (q \o r)[i] = IF i <= Len(q) THEN q[i] ELSE r[i - Len(q)]
  BY ConcatProperties
<1>2. /\ Len(q) \in Nat /\ DOMAIN q = 1 .. Len(q)
      /\ Len(r) \in Nat /\ DOMAIN r = 1 .. Len(r)
      /\ DOMAIN (q \o r) = 1 .. Len(q) + Len(r)
  BY <1>1, LenProperties
<1>3. ASSUME NEW i \in 1 .. Len(q) PROVE i \in 1 .. Len(q) + Len(r) /\ (q \o r)[i] = q[i]
  BY <1>1, <1>2
<1>4. ASSUME NEW i \in 1 .. Len(r)
      PROVE  i + Len(q) \in 1 .. Len(q) + Len(r) /\ (q \o r)[i + Len(q)] = r[i]
  BY <1>1, <1>2
<1>5. ASSUME NEW i \in 1 .. Len(q) + Len(r)
      PROVE  (q \o r)[i] \in ToSet(q) \cup ToSet(r)
  <2>1. CASE i <= Len(q)
    BY <1>1, <1>2, <2>1 DEF ToSet
  <2>2. CASE ~(i <= Len(q))
    <3>1. i - Len(q) \in 1 .. Len(r) /\ (q \o r)[i] = r[i - Len(q)]
      BY <1>1, <1>2, <2>2
    <3> QED
      BY <1>2, <3>1 DEF ToSet
  <2> QED
    BY <2>1, <2>2
<1>6. ToSet(q \o r) \subseteq ToSet(q) \cup ToSet(r)
  BY <1>2, <1>5 DEF ToSet
<1>7. ToSet(q) \subseteq ToSet(q \o r)
  BY <1>2, <1>3 DEF ToSet
<1>8. ToSet(r) \subseteq ToSet(q \o r)
  BY <1>2, <1>4 DEF ToSet
<1> QED
  BY <1>6, <1>7, <1>8

(* Taking a queue apart.                                                   *)
LEMMA MembersSplit ==
  ASSUME NEW q \in Seq(Item), NEW k \in 0 .. Len(q)
  PROVE  LET a == SubSeq(q, 1, k)
             b == SubSeq(q, k + 1, Len(q))
         IN  /\ a \in Seq(Item) /\ b \in Seq(Item)
             /\ Len(a) = k /\ Len(b) = Len(q) - k
             /\ ToSet(q) = ToSet(a) \cup ToSet(b)
<1> DEFINE a == SubSeq(q, 1, k)
           b == SubSeq(q, k + 1, Len(q))
<1>1. Len(q) \in Nat /\ k \in Nat /\ \A i \in 1 .. Len(q) : q[i] \in Item
  BY LenProperties, ElementOfSeq
<1>2. \A i \in 1 .. k : q[i] \in Item
  BY <1>1
<1>3. \A i \in k + 1 .. Len(q) : q[i] \in Item
  BY <1>1
<1>4. a \in Seq(Item) /\ Len(a) = IF 1 <= k THEN k - 1 + 1 ELSE 0
  BY <1>1, <1>2, SubSeqProperties
<1>5. b \in Seq(Item) /\ Len(b) = IF k + 1 <= Len(q) THEN Len(q) - (k + 1) + 1 ELSE 0
  BY <1>1, <1>3, SubSeqProperties
<1>6. Len(a) = k /\ Len(b) = Len(q) - k
  BY <1>1, <1>4, <1>5
<1>7. a \o b = q
  <2>1. 1 \in 1 .. Len(q) + 1 /\ k \in 1 - 1 .. Len(q) /\ Len(q) \in k .. Len(q)
    BY <1>1
  <2> QED
    BY <2>1, ConcatAdjacentSubSeq, SubSeqFull
<1>8. ToSet(q) = ToSet(a) \cup ToSet(b)
  <2> HIDE DEF a, b
  <2> QED
    BY <1>4, <1>5, <1>7, MembersConcat
<1> QED
  BY <1>4, <1>5, <1>6, <1>8

LEMMA MembersHead ==
  ASSUME NEW q \in Seq(Item), q # <<>>
  PROVE  ToSet(q) = {Head(q)} \cup ToSet(Tail(q))
<1>1. /\ Tail(q) \in Seq(Item) /\ Len(Tail(q)) = Len(q) - 1
      /\ \A i \in 1 .. Len(q) - 1 : Tail(q)[i] = q[i + 1]
      /\ Head(q) = q[1]
  BY HeadTailProperties
<1>2. /\ Len(q) \in Nat \ {0} /\ DOMAIN q = 1 .. Len(q)
      /\ DOMAIN Tail(q) = 1 .. Len(q) - 1
  BY <1>1, LenProperties, EmptySeq
<1>3. ASSUME NEW i \in 1 .. Len(q) PROVE q[i] \in {Head(q)} \cup ToSet(Tail(q))
  <2>1. CASE i = 1
    BY <1>1, <2>1
  <2>2. CASE i # 1
    <3>1. i - 1 \in 1 .. Len(q) - 1 /\ Tail(q)[i - 1] = q[i]
      BY <1>1, <1>2, <2>2
    <3> QED
      BY <1>2, <3>1 DEF ToSet
  <2> QED
    BY <2>1, <2>2
<1>4. ASSUME NEW i \in 1 .. Len(q) - 1 PROVE i + 1 \in 1 .. Len(q) /\ Tail(q)[i] = q[i + 1]
  BY <1>1, <1>2
<1>5. 1 \in 1 .. Len(q)
  BY <1>2
<1>6. ToSet(q) \subseteq {Head(q)} \cup ToSet(Tail(q))
  BY <1>2, <1>3 DEF ToSet
<1>7. {Head(q)} \cup ToSet(Tail(q)) \subseteq ToSet(q)
  BY <1>1, <1>2, <1>4, <1>5 DEF ToSet
<1> QED
  BY <1>6, <1>7

(* A union has at most as many members as its parts have together.         *)
LEMMA UnionBound ==
  ASSUME NEW A, NEW B, IsFiniteSet(A), IsFiniteSet(B)
  PROVE  /\ IsFiniteSet(A \cup B) /\ Cardinality(A \cup B) \in Nat
         /\ Cardinality(A) \in Nat /\ Cardinality(B) \in Nat
         /\ Cardinality(A \cup B) <= Cardinality(A) + Cardinality(B)
<1>1. A \cap B \in SUBSET A
  OBVIOUS
<1>2. IsFiniteSet(A \cap B)
  BY <1>1, FS_Subset
<1>3. /\ Cardinality(A) \in Nat /\ Cardinality(B) \in Nat
      /\ Cardinality(A \cap B) \in Nat
  BY <1>2, FS_CardinalityType
<1>4. /\ IsFiniteSet(A \cup B)
      /\ Cardinality(A \cup B) = Cardinality(A) + Cardinality(B) - Cardinality(A \cap B)
  BY FS_Union
<1> QED
  BY <1>3, <1>4, FS_CardinalityType

LEMMA MembersBound ==
  ASSUME NEW A, IsFiniteSet(A), NEW q \in Seq(Item)
  PROVE  /\ IsFiniteSet(A \cup ToSet(q)) /\ Cardinality(A \cup ToSet(q)) \in Nat
         /\ Cardinality(A) \in Nat /\ Len(q) \in Nat
         /\ Cardinality(A \cup ToSet(q)) <= Cardinality(A) + Len(q)
<1>1. /\ IsFiniteSet(A \cup ToSet(q)) /\ Cardinality(A \cup ToSet(q)) \in Nat
      /\ Cardinality(A) \in Nat /\ Cardinality(ToSet(q)) \in Nat
      /\ Cardinality(A \cup ToSet(q)) <= Cardinality(A) + Cardinality(ToSet(q))
  BY MembersOf, UnionBound
<1>2. Cardinality(ToSet(q)) <= Len(q) /\ Len(q) \in Nat
  BY MembersOf, LenProperties
<1> QED
  BY <1>1, <1>2

(* Five places: the count of what is at them is no larger than their sum.  *)
LEMMA PlacesBound ==
  ASSUME NEW d, IsFiniteSet(d), NEW a \in Seq(Item), NEW b \in Seq(Item), NEW c \in Seq(Item),
         NEW e \in Seq(Item)
  PROVE  /\ IsFiniteSet(d \cup (ToSet(a) \cup ToSet(b) \cup ToSet(c) \cup ToSet(e)))
         /\ Cardinality(d \cup (ToSet(a) \cup ToSet(b) \cup ToSet(c) \cup ToSet(e)))
              <= Cardinality(d) + Len(a) + Len(b) + Len(c) + Len(e)
         /\ Cardinality(d) \in Nat
<1> DEFINE A == d \cup ToSet(a)
           B == A \cup ToSet(b)
           C == B \cup ToSet(c)
           D == C \cup ToSet(e)
<1>1. IsFiniteSet(A) /\ Cardinality(A) <= Cardinality(d) + Len(a)
      /\ Cardinality(A) \in Nat /\ Cardinality(d) \in Nat /\ Len(a) \in Nat
  BY MembersBound
<1> HIDE DEF A
<1>2. IsFiniteSet(B) /\ Cardinality(B) <= Cardinality(A) + Len(b)
      /\ Cardinality(B) \in Nat /\ Len(b) \in Nat
  BY <1>1, MembersBound
<1> HIDE DEF B
<1>3. IsFiniteSet(C) /\ Cardinality(C) <= Cardinality(B) + Len(c)
      /\ Cardinality(C) \in Nat /\ Len(c) \in Nat
  BY <1>2, MembersBound
<1> HIDE DEF C
<1>4. IsFiniteSet(D) /\ Cardinality(D) <= Cardinality(C) + Len(e)
      /\ Cardinality(D) \in Nat /\ Len(e) \in Nat
  BY <1>3, MembersBound
<1> HIDE DEF D
<1>5. Cardinality(D) <= Cardinality(d) + Len(a) + Len(b) + Len(c) + Len(e)
  BY <1>1, <1>2, <1>3, <1>4
<1>6. D = d \cup (ToSet(a) \cup ToSet(b) \cup ToSet(c) \cup ToSet(e))
  BY DEF A, B, C, D
<1> QED
  BY <1>1, <1>4, <1>5, <1>6

(* What the places hold together.                                          *)
Places ==
  Cardinality(done) + Len(Content) + Len(rtpWorkingQueue) + Len(held) + Len(recvRtpQueue)

LEMMA ContentType ==
  /\ IInv => Content \in Seq(Item)
  /\ (IInv => Content \in Seq(Item))'
<1>1. IInv => Content \in Seq(Item)
  BY ContentIs
<1> QED
  BY <1>1, PTL

(* The argument: the same union in places of no larger sum.                *)
LEMMA ConservedKept ==
  ASSUME PathInv, PathInv', Conserved,
         arrived' = arrived, done' \cup Waiting' = done \cup Waiting, Places' <= Places
  PROVE  Conserved'
<1>1. IsFiniteSet(arrived)
  <2>1. arrived \in SUBSET (1 .. completed) /\ 1 \in Int /\ completed \in Int
    BY DEF PathInv, NewInv, PushInv
  <2>2. IsFiniteSet(1 .. completed)
    BY <2>1, FS_Interval, Zenon
  <2> QED
    BY <2>1, <2>2, FS_Subset
<1>2. arrived = done \cup Waiting /\ Places = Cardinality(arrived)
  BY DEF Conserved, Places
<1>3. done' \in SUBSET arrived
  BY <1>2
<1>4. IsFiniteSet(done')
  BY <1>1, <1>3, FS_Subset
<1>5. /\ Content' \in Seq(Item) /\ rtpWorkingQueue' \in Seq(Item)
      /\ held' \in Seq(Item) /\ recvRtpQueue' \in Seq(Item)
  BY ContentType DEF PathInv, QueueTypes
<1>6. arrived = done' \cup (ToSet(Content') \cup ToSet(rtpWorkingQueue') \cup ToSet(held')
                              \cup ToSet(recvRtpQueue'))
  BY <1>2 DEF Waiting, ToSet
<1>7. /\ Cardinality(arrived) <= Places'
      /\ Cardinality(done') \in Nat
  BY <1>4, <1>5, <1>6, PlacesBound DEF Places
<1>8. Places' \in Nat
  BY <1>5, <1>7, LenProperties DEF Places
<1>9. Cardinality(arrived) \in Nat
  BY <1>1, FS_CardinalityType
<1>10. Places' = Cardinality(arrived')
  BY <1>2, <1>7, <1>8, <1>9
<1> QED
  BY <1>2, <1>10 DEF Conserved, Places

(* The places are numbers.                                                 *)
LEMMA PlaceTypes ==
  ASSUME PathInv, Conserved
  PROVE  /\ IsFiniteSet(arrived) /\ IsFiniteSet(done)
         /\ Cardinality(done) \in Nat /\ Cardinality(arrived) \in Nat
         /\ Content \in Seq(Item) /\ rtpWorkingQueue \in Seq(Item)
         /\ held \in Seq(Item) /\ recvRtpQueue \in Seq(Item)
         /\ Len(Content) \in Nat /\ Len(rtpWorkingQueue) \in Nat
         /\ Len(held) \in Nat /\ Len(recvRtpQueue) \in Nat
<1>1. arrived \in SUBSET (1 .. completed) /\ 1 \in Int /\ completed \in Int
  BY DEF PathInv, NewInv, PushInv
<1>2. IsFiniteSet(1 .. completed)
  BY <1>1, FS_Interval, Zenon
<1>3. IsFiniteSet(arrived)
  BY <1>1, <1>2, FS_Subset
<1>4. done \in SUBSET arrived
  BY DEF Conserved
<1>5. IsFiniteSet(done)
  BY <1>3, <1>4, FS_Subset
<1>6. /\ Content \in Seq(Item) /\ rtpWorkingQueue \in Seq(Item)
      /\ held \in Seq(Item) /\ recvRtpQueue \in Seq(Item)
  BY ContentType DEF PathInv, QueueTypes
<1> QED
  BY <1>3, <1>5, <1>6, FS_CardinalityType, LenProperties

(* A step that moves nothing.                                              *)
LEMMA ConservedFrame ==
  ASSUME Conserved,
         UNCHANGED <<Content, arrived, done, rtpWorkingQueue, held, recvRtpQueue>>
  PROVE  Conserved'
BY DEF Conserved, Waiting, ToSet

LEMMA ContentFrame == UNCHANGED ringVars => UNCHANGED Content
BY DEF ringVars, slotVars, enqVars, deqVars, Content, Start, Moved

(* A datagram enters the ring: it is new, so the count and the places grow *)
(* by one.                                                                 *)
LEMMA ConservedPut ==
  ASSUME PathInv, Conserved, NEW t \in Thread, handler[t] = "pushing", EnqPublish,
         arrived' = arrived \cup {from[t]},
         UNCHANGED <<done, rtpWorkingQueue, held, recvRtpQueue>>
  PROVE  Conserved'
<1>1. input = completed /\ from[t] = completed /\ completed \notin arrived
  BY DEF PathInv, NewInv, Pushing
<1>2. input \in Item /\ Content' = Append(Content, input)
  BY EnqPublishStep DEF PathInv, Fifo!Put
<1>3. PICK x \in Item : /\ x = input /\ x = from[t] /\ x \notin arrived
                        /\ Content' = Append(Content, x)
  BY <1>1, <1>2
<1>4. ToSet(Content') = ToSet(Content) \cup {x} /\ Len(Content') = Len(Content) + 1
  BY <1>3, PlaceTypes, MembersAppend, AppendProperties
<1>5. /\ IsFiniteSet(arrived \cup {x})
      /\ Cardinality(arrived \cup {x}) = Cardinality(arrived) + 1
  BY <1>3, PlaceTypes, FS_AddElement
<1>6. Waiting' = Waiting \cup {x}
  BY <1>4 DEF Waiting, ToSet
<1>7. arrived' = done' \cup Waiting'
  BY <1>3, <1>6 DEF Conserved
<1>8. Places' = Cardinality(arrived')
  <2>1. Places = Cardinality(arrived)
    BY DEF Conserved, Places
  <2> QED
    BY <1>3, <1>4, <1>5, <2>1, PlaceTypes DEF Places
<1> QED
  BY <1>7, <1>8 DEF Conserved, Places

(* The worker takes what was moved out of the ring.                        *)
LEMMA ConservedTake ==
  ASSUME PathInv, PathInv', Conserved, DeqStore, rtpWorkingQueue = <<>>,
         rtpWorkingQueue' = outputs, UNCHANGED <<arrived, done, held, recvRtpQueue>>
  PROVE  Conserved'
<1>1. PICK k \in 0 .. Len(Content) :
         /\ outputs = SubSeq(Content, 1, k)
         /\ Content' = SubSeq(Content, k + 1, Len(Content))
  BY DeqStoreStep DEF PathInv, Fifo!Take, DeqStore
<1>2. /\ Len(outputs) = k /\ Len(Content') = Len(Content) - k
      /\ ToSet(Content) = ToSet(outputs) \cup ToSet(Content')
  BY <1>1, PlaceTypes, MembersSplit
<1>3. ToSet(rtpWorkingQueue) = {} /\ Len(rtpWorkingQueue) = 0
  BY MembersEmpty
<1>4. done' \cup Waiting' = done \cup Waiting
  BY <1>2, <1>3 DEF Waiting, ToSet
<1>5. Places' <= Places
  BY <1>1, <1>2, <1>3, PlaceTypes DEF Places
<1> QED
  BY <1>4, <1>5, ConservedKept

(* The reordering drops the packet, and may forget what it keeps.          *)
LEMMA ConservedDrop ==
  ASSUME PathInv, PathInv', Conserved, rtpWorkingQueue # <<>>,
         rtpWorkingQueue' = Tail(rtpWorkingQueue), held' \in {held, <<>>},
         done' = done \cup {Head(rtpWorkingQueue)} \cup (ToSet(held) \ ToSet(held')),
         UNCHANGED <<arrived, Content, recvRtpQueue>>
  PROVE  Conserved'
<1>1. /\ ToSet(rtpWorkingQueue) = {Head(rtpWorkingQueue)} \cup ToSet(rtpWorkingQueue')
      /\ Len(rtpWorkingQueue') = Len(rtpWorkingQueue) - 1
  BY PlaceTypes, MembersHead, HeadTailProperties
<1>2. ToSet(held') \subseteq ToSet(held)
  BY MembersEmpty
<1>3. done' \cup Waiting' = done \cup Waiting
  BY <1>1, <1>2 DEF Waiting, ToSet
<1>4. PICK x : x = Head(rtpWorkingQueue)
  OBVIOUS
<1>5. /\ IsFiniteSet({x}) /\ Cardinality({x}) = 1
      /\ IsFiniteSet(done) /\ IsFiniteSet(ToSet(held))
  BY PlaceTypes, MembersOf, FS_Singleton
<1>6. IsFiniteSet(done \cup {x}) /\ Cardinality(done \cup {x}) <= Cardinality(done) + 1
      /\ Cardinality(done \cup {x}) \in Nat
  BY <1>5, UnionBound
<1>7. Cardinality(done') + Len(held') <= Cardinality(done) + 1 + Len(held)
      /\ Cardinality(done') \in Nat /\ Len(held') \in Nat
  <2>1. CASE held' = held
    <3>1. done' = done \cup {x}
      BY <1>4, <2>1
    <3>2. Cardinality(done') <= Cardinality(done) + 1 /\ Cardinality(done') \in Nat
      BY <1>6, <3>1
    <3>3. Len(held') = Len(held) /\ Len(held) \in Nat /\ Cardinality(done) \in Nat
      BY <2>1, PlaceTypes
    <3> QED
      BY <3>2, <3>3
  <2>2. CASE held' = <<>>
    <3>1. done' = (done \cup {x}) \cup ToSet(held) /\ Len(held') = 0
      BY <1>4, <2>2, MembersEmpty
    <3>2. /\ Cardinality((done \cup {x}) \cup ToSet(held))
               <= Cardinality(done \cup {x}) + Len(held)
          /\ Cardinality((done \cup {x}) \cup ToSet(held)) \in Nat
      BY <1>6, PlaceTypes, MembersBound
    <3>3. /\ Cardinality(done') <= Cardinality(done \cup {x}) + Len(held)
          /\ Cardinality(done') \in Nat
      BY <3>1, <3>2
    <3>4. Len(held) \in Nat /\ Cardinality(done) \in Nat
      BY PlaceTypes
    <3> QED
      BY <1>6, <3>1, <3>3, <3>4
  <2> QED
    BY <2>1, <2>2
<1>8. Places' <= Places
  BY <1>1, <1>7, PlaceTypes DEF Places
<1> QED
  BY <1>3, <1>8, ConservedKept

(* The reordering keeps the packet, or hands packets over.                 *)
LEMMA ConservedHandOver ==
  ASSUME PathInv, PathInv', Conserved, rtpWorkingQueue # <<>>,
         rtpWorkingQueue' = Tail(rtpWorkingQueue),
         NEW all \in {Append(held, Head(rtpWorkingQueue)), <<Head(rtpWorkingQueue)>> \o held},
         NEW k \in 0 .. Len(held) + 1,
         held' = SubSeq(all, k + 1, Len(all)),
         recvRtpQueue' = recvRtpQueue \o SubSeq(all, 1, k),
         UNCHANGED <<arrived, done, Content>>
  PROVE  Conserved'
<1>1. /\ ToSet(rtpWorkingQueue) = {Head(rtpWorkingQueue)} \cup ToSet(rtpWorkingQueue')
      /\ Len(rtpWorkingQueue') = Len(rtpWorkingQueue) - 1
  BY PlaceTypes, MembersHead, HeadTailProperties
<1>2. PICK x \in Item : x = Head(rtpWorkingQueue)
  BY PlaceTypes, HeadTailProperties
<1>3. all \in Seq(Item) /\ Len(all) = Len(held) + 1 /\ ToSet(all) = ToSet(held) \cup {x}
  <2>1. CASE all = Append(held, x)
    BY <2>1, PlaceTypes, MembersAppend, AppendProperties
  <2>2. CASE all = <<x>> \o held
    <3>1. <<x>> \in Seq(Item) /\ Len(<<x>>) = 1 /\ ToSet(<<x>>) = {x}
      BY DEF ToSet
    <3>2. /\ <<x>> \o held \in Seq(Item) /\ Len(<<x>> \o held) = Len(<<x>>) + Len(held)
          /\ ToSet(<<x>> \o held) = ToSet(<<x>>) \cup ToSet(held)
      BY <3>1, PlaceTypes, ConcatProperties, MembersConcat
    <3>3. Len(held) \in Nat
      BY PlaceTypes
    <3>4. Len(<<x>> \o held) = Len(held) + 1 /\ ToSet(<<x>> \o held) = ToSet(held) \cup {x}
      <4>1. Len(<<x>> \o held) = 1 + Len(held)
        BY <3>1, <3>2
      <4>2. ToSet(<<x>> \o held) = {x} \cup ToSet(held)
        BY <3>1, <3>2
      <4> QED
        BY <3>3, <4>1, <4>2
    <3> QED
      BY <2>2, <3>2, <3>4
  <2> QED
    BY <1>2, <2>1, <2>2
<1>4. PICK a, b : a = SubSeq(all, 1, k) /\ b = SubSeq(all, k + 1, Len(all))
  OBVIOUS
<1>5. k \in 0 .. Len(all)
  BY <1>3
<1>6. /\ a \in Seq(Item) /\ b \in Seq(Item) /\ Len(a) = k /\ Len(b) = Len(all) - k
      /\ ToSet(all) = ToSet(a) \cup ToSet(b)
  BY <1>3, <1>4, <1>5, MembersSplit
<1>7. held' = b /\ recvRtpQueue' = recvRtpQueue \o a
  BY <1>4
<1>8. /\ ToSet(recvRtpQueue \o a) = ToSet(recvRtpQueue) \cup ToSet(a)
      /\ Len(recvRtpQueue \o a) = Len(recvRtpQueue) + Len(a)
  BY <1>6, PlaceTypes, MembersConcat, ConcatProperties
<1>9. done' \cup Waiting' = done \cup Waiting
  <2>1. Waiting = ToSet(Content) \cup ({x} \cup ToSet(rtpWorkingQueue')) \cup ToSet(held)
                    \cup ToSet(recvRtpQueue)
    BY <1>1, <1>2 DEF Waiting
  <2>2. Waiting' = ToSet(Content) \cup ToSet(rtpWorkingQueue') \cup ToSet(b)
                     \cup (ToSet(recvRtpQueue) \cup ToSet(a))
    <3>1. Waiting' = ToSet(Content') \cup ToSet(rtpWorkingQueue') \cup ToSet(held')
                       \cup ToSet(recvRtpQueue')
      BY DEF Waiting, ToSet
    <3> QED
      BY <1>7, <1>8, <3>1
  <2>3. ToSet(held) \cup {x} = ToSet(a) \cup ToSet(b)
    BY <1>3, <1>6
  <2> QED
    BY <2>1, <2>2, <2>3
<1>10. Places' <= Places
  <2>1. Len(held') = Len(held) + 1 - k
    BY <1>3, <1>6, <1>7
  <2>2. Len(recvRtpQueue') = Len(recvRtpQueue) + k
    BY <1>6, <1>7, <1>8
  <2>3. Len(rtpWorkingQueue') = Len(rtpWorkingQueue) - 1 /\ UNCHANGED <<done, Content>>
    BY <1>1
  <2>4. /\ Len(Content) \in Nat /\ Len(rtpWorkingQueue) \in Nat /\ Len(held) \in Nat
        /\ Len(recvRtpQueue) \in Nat /\ Cardinality(done) \in Nat /\ k \in Nat
    BY PlaceTypes, <1>5
  <2>5. Places' = Cardinality(done) + Len(Content) + (Len(rtpWorkingQueue) - 1)
                    + (Len(held) + 1 - k) + (Len(recvRtpQueue) + k)
    BY <2>1, <2>2, <2>3 DEF Places
  <2> QED
    BY <2>4, <2>5 DEF Places
<1> QED
  BY <1>9, <1>10, ConservedKept

(* A queue is received, or cleared.                                        *)
LEMMA ConservedSwap ==
  ASSUME PathInv, PathInv', Conserved, Swap
  PROVE  Conserved'
<1>1. /\ done' = done \cup ToSet(recvRtpQueue) /\ recvRtpQueue' = <<>>
      /\ UNCHANGED <<arrived, Content, rtpWorkingQueue, held>>
  BY ContentFrame DEF Swap, workerVars
<1>2. ToSet(recvRtpQueue') = {} /\ Len(recvRtpQueue') = 0
  BY <1>1, MembersEmpty
<1>3. done' \cup Waiting' = done \cup Waiting
  BY <1>1, <1>2 DEF Waiting, ToSet
<1>4. Cardinality(done') <= Cardinality(done) + Len(recvRtpQueue) /\ Cardinality(done') \in Nat
  BY <1>1, PlaceTypes, MembersBound
<1>5. Places' <= Places
  BY <1>1, <1>2, <1>4, PlaceTypes DEF Places
<1> QED
  BY <1>1, <1>3, <1>5, ConservedKept

LEMMA ConservedJoin ==
  ASSUME PathInv, PathInv', Conserved, CloseJoin
  PROVE  Conserved'
<1>1. /\ done' = done \cup ToSet(held) /\ held' = <<>>
      /\ UNCHANGED <<arrived, Content, rtpWorkingQueue, recvRtpQueue>>
  BY ContentFrame DEF CloseJoin, queueVars
<1>2. ToSet(held') = {} /\ Len(held') = 0
  BY <1>1, MembersEmpty
<1>3. done' \cup Waiting' = done \cup Waiting
  BY <1>1, <1>2 DEF Waiting, ToSet
<1>4. Cardinality(done') <= Cardinality(done) + Len(held) /\ Cardinality(done') \in Nat
  BY <1>1, PlaceTypes, MembersBound
<1>5. Places' <= Places
  BY <1>1, <1>2, <1>4, PlaceTypes DEF Places
<1> QED
  BY <1>1, <1>3, <1>5, ConservedKept

LEMMA ConservedStep == PathInv /\ PathInv' /\ Conserved /\ [Next]_vars => Conserved'
<1> SUFFICES ASSUME PathInv, PathInv', Conserved, [Next]_vars PROVE Conserved'
  OBVIOUS
<1>1. CASE Complete \/ UserEnd \/ ReadFlag \/ Wait \/ UNCHANGED vars
  BY <1>1, ContentFrame, ConservedFrame
     DEF Complete, UserEnd, ReadFlag, Wait, vars, workerVars, queueVars
<1>2. ASSUME NEW t \in Thread,
             Finish(t) \/ StartCount(t) \/ StartTest(t) \/ StartIssue(t) \/ Leave(t)
      PROVE  Conserved'
  BY <1>2, ContentFrame, ConservedFrame
     DEF Finish, StartCount, StartTest, StartIssue, Leave, workerVars, queueVars
<1>3. ASSUME NEW t \in Thread, PushEnter(t) PROVE Conserved'
  <2>1. EnqLoad(from[t]) /\ UNCHANGED <<arrived, done, rtpWorkingQueue, held, recvRtpQueue>>
        /\ from[t] \in Item
    BY <1>3 DEF PushEnter, PathInv, PushInv, workerVars, queueVars
  <2>2. UNCHANGED Content
    BY <2>1, EnqLoadStep DEF PathInv
  <2> QED
    BY <2>1, <2>2, ConservedFrame
<1>4. ASSUME NEW t \in Thread, Push(t) PROVE Conserved'
  <2>1. handler[t] = "pushing" /\ UNCHANGED <<done, rtpWorkingQueue, held, recvRtpQueue>>
    BY <1>4 DEF Push, workerVars, queueVars
  <2>2. CASE (EnqWrite \/ EnqRefuse) /\ UNCHANGED arrived
    <3>1. UNCHANGED Content
      BY <2>2, EnqWriteStep, EnqRefuseStep DEF PathInv
    <3> QED
      BY <2>1, <2>2, <3>1, ConservedFrame
  <2>3. CASE EnqPublish /\ arrived' = arrived \cup {from[t]}
    BY <2>1, <2>3, ConservedPut
  <2> QED
    BY <1>4, <2>2, <2>3 DEF Push
<1>5. CASE Drain
  <2>1. workerPc = "drain" /\ UNCHANGED <<arrived, done, held, recvRtpQueue>>
    BY <1>5 DEF Drain, queueVars
  <2>2. CASE (DeqLoad \/ DeqMove) /\ UNCHANGED rtpWorkingQueue
    <3>1. UNCHANGED Content
      BY <2>2, DeqLoadStep, DeqMoveStep DEF PathInv
    <3> QED
      BY <2>1, <2>2, <3>1, ConservedFrame
  <2>3. CASE DeqStore /\ rtpWorkingQueue' = outputs
    <3>1. rtpWorkingQueue = <<>>
      BY <2>1 DEF PathInv, WorkerInv
    <3> QED
      BY <2>1, <2>3, <3>1, ConservedTake
  <2> QED
    BY <1>5, <2>2, <2>3 DEF Drain
<1>6. CASE Work
  <2>1. UNCHANGED <<arrived, Content>>
    BY <1>6, ContentFrame DEF Work
  <2>2. CASE rtpWorkingQueue = <<>>
    BY <1>6, <2>1, <2>2, ConservedFrame DEF Work
  <2>3. CASE rtpWorkingQueue # <<>>
    <3>1. Reorder(Head(rtpWorkingQueue)) /\ rtpWorkingQueue' = Tail(rtpWorkingQueue)
      BY <1>6, <2>3 DEF Work
    <3> QED
      BY <2>1, <2>3, <3>1, ConservedDrop, ConservedHandOver DEF Reorder
  <2> QED
    BY <2>2, <2>3
<1>7. CASE Swap
  BY <1>7, ConservedSwap
<1>8. CASE CloseJoin
  BY <1>8, ConservedJoin
<1>9. CASE CloseFlag \/ CloseStopWorker \/ CloseCancel \/ CloseReceiver \/ CloseSocket
  BY <1>9, ContentFrame, ConservedFrame
     DEF CloseFlag, CloseStopWorker, CloseCancel, CloseReceiver, CloseSocket,
         workerVars, queueVars
<1> QED
  BY <1>1, <1>2, <1>3, <1>4, <1>5, <1>6, <1>7, <1>8, <1>9
     DEF Next, Handler, Worker, User, Close

(* DatagramsConserved: from the ring to the channel thread no datagram is  *)
(* lost or doubled, whatever the worker, the handlers, the channel and     *)
(* close() do, for any ring, any number of threads and of datagrams.       *)
THEOREM DatagramsConserved == Spec => []Conserved
<1>1. Init => Conserved
  <2> SUFFICES ASSUME Init PROVE Conserved
    OBVIOUS
  <2>1. /\ Content \in Seq(Item) /\ Len(Content) = Distance(headPos, tailPos)
        /\ headPos = 0 /\ tailPos = 0
    BY InitIInv, ContentIs DEF Init, RingInit
  <2>2. Distance(0, 0) = 0
    BY DEF Distance
  <2>3. Content = <<>>
    BY <2>1, <2>2, EmptySeq
  <2>4. ToSet(Content) = {} /\ Len(Content) = 0 /\ Cardinality({}) = 0
    BY <2>3, MembersEmpty, FS_EmptySet
  <2>5. /\ done = {} /\ arrived = {} /\ rtpWorkingQueue = <<>>
        /\ held = <<>> /\ recvRtpQueue = <<>>
    BY DEF Init
  <2>6. Waiting = {}
    BY <2>4, <2>5, MembersEmpty DEF Waiting
  <2> QED
    BY <2>4, <2>5, <2>6 DEF Conserved
<1> QED
  BY <1>1, PathInvariance, ConservedStep, PTL DEF Spec

(* ReceiveTypeCorrect: every variable keeps its type, and recvTasks is     *)
(* exactly what holds the receiver.                                        *)
THEOREM ReceiveTypeCorrect == Spec => []TypeOK
<1>1. PathInv /\ Conserved => TypeOK
  <2> SUFFICES ASSUME PathInv, Conserved PROVE TypeOK
    OBVIOUS
  <2>1. arrived \subseteq Item
    <3>1. arrived \subseteq 1 .. completed /\ completed \in 0 .. MaxReceives
      BY DEF PathInv, NewInv, PushInv
    <3> QED
      BY <3>1, RtpReceiveAssumption
  <2>2. done \subseteq Item
    BY <2>1 DEF Conserved
  <2> QED
    BY <2>1, <2>2 DEF PathInv, PushInv, ReceiverTypes, QueueTypes, CountInv, Active, Counted, TypeOK
<1> QED
  BY <1>1, PathInvariance, DatagramsConserved, PTL
=============================================================================
