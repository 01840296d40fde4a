---------------------------- MODULE RtpPipeProofs ----------------------------
(***************************************************************************)
(* The window of RtpPipe never outgrows reorderSize and never holds a flag *)
(* without its packet, no packet is handed over out of order, and none is  *)
(* lost or invented short of a reset: for every reorderSize, MAX_DIFF and  *)
(* number of sequence numbers in proportion.                               *)
(***************************************************************************)
EXTENDS RtpPipe, SequenceTheorems, WellFoundedInduction, TLAPS

-----------------------------------------------------------------------------
(* Arithmetic of the ring and of the numbers.                              *)

(* The size of the ring.                                                   *)
LEMMA SizeIs == /\ arraySize \in Nat /\ arraySize > 2 * reorderSize
                /\ reorderSize \in Nat \ {0} /\ 0 \in Pos /\ 1 \in Pos
                /\ \A p : p \in Pos <=> (p \in Int /\ 0 <= p /\ p < arraySize)
BY RtpPipeAssumption DEF arraySize, Pos

(* Going forward by at most one round, without the modulus.                *)
LEMMA ForwardIs ==
  ASSUME NEW p \in Pos, NEW d \in Int, 0 <= d, d <= arraySize
  PROVE  /\ forward(p, d) \in Pos
         /\ forward(p, d) = IF p + d < arraySize THEN p + d ELSE p + d - arraySize
<1>1. p \in 0 .. arraySize - 1 /\ arraySize \in Nat
  BY SizeIs DEF Pos
<1> QED
  BY <1>1, SMTT(30) DEF forward, Pos

(* How far ahead one position is of another, without the modulus.          *)
LEMMA DistanceIs ==
  ASSUME NEW a \in Pos, NEW b \in Pos
  PROVE  /\ forwardDistance(a, b) = IF a >= b THEN a - b ELSE a - b + arraySize
         /\ forwardDistance(a, b) \in 0 .. arraySize - 1
         /\ forwardDistance(a, b) = 0 <=> a = b
<1>1. a \in 0 .. arraySize - 1 /\ b \in 0 .. arraySize - 1 /\ arraySize \in Nat
  BY SizeIs DEF Pos
<1>2. forwardDistance(a, b) = IF a >= b THEN a - b ELSE a - b + arraySize
  BY <1>1, SMTT(30) DEF forwardDistance
<1> QED
  BY <1>1, <1>2

(* The place of a late number is as far behind the newest packet.          *)
LEMMA GetPosIs ==
  ASSUME headPos \in Pos, NEW k \in 1 .. reorderSize,
         k < forwardDistance(headPos, tailPos), tailPos \in Pos
  PROVE  getPos(-k) = forward(tailPos, forwardDistance(headPos, tailPos) - 1 - k)
<1>1. /\ headPos \in 0 .. arraySize - 1 /\ tailPos \in 0 .. arraySize - 1
      /\ arraySize \in Nat /\ k < arraySize
  BY SizeIs DEF Pos
<1>2. getPos(-k) = (headPos - k - 1 + arraySize) % arraySize
  BY <1>1 DEF getPos, forward
<1>3. getPos(-k) = IF headPos - k - 1 >= 0 THEN headPos - k - 1
                                           ELSE headPos - k - 1 + arraySize
  BY <1>1, <1>2, SMTT(30)
<1>4. forwardDistance(headPos, tailPos) =
        IF headPos >= tailPos THEN headPos - tailPos ELSE headPos - tailPos + arraySize
  BY DistanceIs
<1>5. LET d == forwardDistance(headPos, tailPos) - 1 - k
      IN  forward(tailPos, d) =
            IF tailPos + d < arraySize THEN tailPos + d ELSE tailPos + d - arraySize
  BY <1>1, <1>4, ForwardIs
<1> QED
  BY <1>1, <1>3, <1>4, <1>5

(* A set of naturals that is not empty has a least element.                *)
LEMMA MinIs ==
  ASSUME NEW S, S \subseteq Nat, S # {}
  PROVE  Min(S) \in S /\ \A i \in S : Min(S) <= i
<1> DEFINE R == {ss \in Nat \X Nat : ss[1] < ss[2]}
<1>1. IsWellFoundedOn(R, Nat)
  BY NatLessThanWellFounded, Zenon DEF OpToRel
<1>2. PICK x \in S : \A y \in S : ~(<<y, x>> \in R)
  <2> HIDE DEF R
  <2> QED
    BY <1>1, WFMin, Zenon
<1>3. ASSUME NEW y \in S PROVE x <= y
  <2>1. x \in Nat /\ y \in Nat /\ ~(<<y, x>> \in R)
    BY <1>2
  <2>2. \A a, b \in Nat : a < b => <<a, b>> \in R
    OBVIOUS
  <2> QED
    BY <2>1, <2>2
<1> QED
  BY <1>3 DEF Min
-----------------------------------------------------------------------------
(* The inductive invariant.  Before the first packet and after a reset     *)
(* nothing waits; the other parts are HeldBriefly, and NeverExits in the   *)
(* terms of takeRtps.                                                      *)
IInv ==
  /\ TypeOK
  /\ process = "up"
  /\ lastSeq = -1 => tailPos = headPos
  /\ HeldBriefly
  /\ Broken(seqArray, rtpDataArray, headPos, tailPos) = {}

(* The window before and after the tail has moved on by count places.      *)
LEMMA WindowIs ==
  ASSUME NEW head \in Pos, NEW tail \in Pos,
         NEW held, held = forwardDistance(head, tail),
         NEW count \in 0 .. held
  PROVE  /\ held \in Nat /\ held < arraySize
         /\ held = 0 <=> tail = head
         /\ held > 0 => forward(head, arraySize - 1) = forward(tail, held - 1)
         /\ forward(tail, count) \in Pos
         /\ forwardDistance(head, forward(tail, count)) = held - count
         /\ \A i \in 0 .. held - count :
              forward(forward(tail, count), i) = forward(tail, count + i)
         /\ \A i, j \in 0 .. held : forward(tail, i) = forward(tail, j) => i = j
<1>1. held = IF head >= tail THEN head - tail ELSE head - tail + arraySize
  BY DistanceIs
<1>2. held \in Nat /\ held < arraySize /\ (held = 0 <=> tail = head)
  BY <1>1, SizeIs
<1>3. \A i \in 0 .. held :
        /\ forward(tail, i) \in Pos
        /\ forward(tail, i) = IF tail + i < arraySize THEN tail + i
                                                      ELSE tail + i - arraySize
  <2> SUFFICES ASSUME NEW i \in 0 .. held
               PROVE  /\ forward(tail, i) \in Pos
                      /\ forward(tail, i) = IF tail + i < arraySize
                           THEN tail + i ELSE tail + i - arraySize
    OBVIOUS
  <2>1. i \in Int /\ 0 <= i /\ i <= arraySize
    BY <1>2, SizeIs
  <2> QED
    BY <2>1, ForwardIs
<1>4. held > 0 => forward(head, arraySize - 1) = forward(tail, held - 1)
  <2>1. forward(head, arraySize - 1) =
          IF head + (arraySize - 1) < arraySize THEN head + (arraySize - 1)
                                                ELSE head + (arraySize - 1) - arraySize
    <3>1. arraySize - 1 \in Int /\ 0 <= arraySize - 1 /\ arraySize - 1 <= arraySize
      BY SizeIs
    <3> QED
      BY <3>1, ForwardIs
  <2> QED
    BY <2>1, <1>1, <1>2, <1>3, SizeIs
<1> DEFINE c == forward(tail, count)
<1>5. c \in Pos /\ c = IF tail + count < arraySize THEN tail + count
                                                  ELSE tail + count - arraySize
  BY <1>3
<1>6. forwardDistance(head, c) = held - count
  <2>1. forwardDistance(head, c) = IF head >= c THEN head - c ELSE head - c + arraySize
    BY <1>5, DistanceIs
  <2> QED
    BY <2>1, <1>1, <1>2, <1>5, SizeIs
<1>7. ASSUME NEW i \in 0 .. held - count
      PROVE  forward(c, i) = forward(tail, count + i)
  <2>2. count + i \in 0 .. held /\ i \in Int /\ 0 <= i /\ i <= arraySize
    BY <1>2, SizeIs
  <2>3. c \in Pos
    BY <1>5
  <2> HIDE DEF c
  <2>1. forward(c, i) = IF c + i < arraySize THEN c + i ELSE c + i - arraySize
    BY <2>2, <2>3, ForwardIs
  <2> QED
    BY <2>1, <2>2, <1>2, <1>3, <1>5, SizeIs
<1>8. \A i, j \in 0 .. held : forward(tail, i) = forward(tail, j) => i = j
  BY <1>2, <1>3, SizeIs
<1> QED
  BY <1>2, <1>3, <1>4, <1>6, <1>7, <1>8

(* What takeRtps leaves of a sound window: no more than what it was not    *)
(* forced over, and again a sound window.                                  *)
LEMMA TakeIs ==
  ASSUME NEW flags \in [Pos -> BOOLEAN],
         NEW data \in [Pos -> SeqNum \cup {NoData, Stale}],
         NEW head \in Pos, NEW tail \in Pos,
         Broken(flags, data, head, tail) = {},
         NEW forceRange \in Int,
         NEW took, took = takeRtps(flags, data, head, tail, forceRange)
  PROVE  /\ took.tail \in Pos
         /\ took.data \in [Pos -> SeqNum \cup {NoData, Stale}]
         /\ ~took.failed
         /\ \/ took.tail = head
            \/ /\ forwardDistance(head, took.tail)
                     <= forwardDistance(head, tail) - forceRange
               /\ ~flags[took.tail]
               /\ took.data[forward(head, arraySize - 1)]
                    = data[forward(head, arraySize - 1)]
         /\ Broken(flags, took.data, head, took.tail) = {}
<1> DEFINE held == forwardDistance(head, tail)
           stops == Stops(flags, head, tail, forceRange)
           broken == Broken(flags, data, head, tail)
           count == Min(stops \cup broken)
<1>1. held \in Nat /\ held < arraySize
  <2>1. held = IF head >= tail THEN head - tail ELSE head - tail + arraySize
    BY DistanceIs
  <2> HIDE DEF held
  <2> QED
    BY <2>1, SizeIs
<1>2. stops \subseteq 0 .. held /\ held \in stops
  BY <1>1 DEF Stops
<1>3. count \in 0 .. held /\ count \in stops
  <2>1. stops \cup broken = stops
    OBVIOUS
  <2>2. stops \subseteq Nat /\ stops # {}
    BY <1>1, <1>2
  <2> HIDE DEF stops, broken
  <2> QED
    BY <1>2, <2>1, <2>2, MinIs
<1>4. count = held \/ (count >= forceRange /\ ~flags[forward(tail, count)])
  BY <1>3 DEF Stops
<1> DEFINE passed == {forward(tail, i) : i \in 0 .. count - 1}
<1>5. /\ took.tail = forward(tail, count)
      /\ took.data = [p \in Pos |-> IF p \in passed /\ flags[p] THEN NoData ELSE data[p]]
      /\ took.failed = (count \in broken)
  BY DEF takeRtps
<1> HIDE DEF count, stops, held, broken
<1>6. /\ forward(tail, count) \in Pos
      /\ forwardDistance(head, forward(tail, count)) = held - count
      /\ held > 0 => forward(head, arraySize - 1) = forward(tail, held - 1)
      /\ held - count = 0 <=> took.tail = head
      /\ \A i \in 0 .. held - count :
           forward(forward(tail, count), i) = forward(tail, count + i)
      /\ \A i, j \in 0 .. held : forward(tail, i) = forward(tail, j) => i = j
      /\ \A i \in 0 .. held : forward(tail, i) \in Pos
  <2>1. held = forwardDistance(head, tail)
    BY DEF held
  <2>2. forward(tail, count) \in Pos
    BY <1>3, <2>1, WindowIs
  <2>3. forwardDistance(head, forward(tail, count)) = held - count
    BY <1>3, <2>1, WindowIs
  <2>4. held - count = 0 <=> took.tail = head
    <3>1. held - count \in 0 .. held
      BY <1>1, <1>3
    <3>2. 0 \in 0 .. held - count
      BY <1>1, <1>3
    <3> QED
      BY <2>2, <2>3, <3>2, <1>5, WindowIs
  <2>5. \A i \in 0 .. held : forward(tail, i) \in Pos
    BY <2>1, WindowIs
  <2> QED
    BY <1>3, <2>1, <2>2, <2>3, <2>4, <2>5, WindowIs
<1>7. \A i \in count .. held - 1 :
        forward(tail, i) \in Pos /\ took.data[forward(tail, i)] = data[forward(tail, i)]
  <2> SUFFICES ASSUME NEW i \in count .. held - 1
               PROVE  /\ forward(tail, i) \in Pos
                      /\ forward(tail, i) \notin passed
    BY <1>5
  <2>1. i \in 0 .. held
    BY <1>1, <1>3
  <2>2. \A j \in 0 .. count - 1 : j \in 0 .. held /\ j # i
    BY <1>1, <1>3
  <2> QED
    BY <2>1, <2>2, <1>6
<1>8. took.data \in [Pos -> SeqNum \cup {NoData, Stale}]
  BY <1>5
<1>9. Broken(flags, took.data, head, took.tail) = {}
  <2> SUFFICES ASSUME NEW i \in 0 .. held - count - 1,
                      flags[forward(took.tail, i)],
                      took.data[forward(took.tail, i)] = NoData
               PROVE  FALSE
    BY <1>5, <1>6 DEF Broken
  <2>1. forward(took.tail, i) = forward(tail, count + i)
    BY <1>1, <1>3, <1>5, <1>6
  <2>2. count + i \in count .. held - 1 /\ count + i \in 0 .. held - 1
    BY <1>1, <1>3
  <2>3. data[forward(tail, count + i)] = NoData /\ flags[forward(tail, count + i)]
    BY <2>1, <2>2, <1>7
  <2> QED
    BY <2>2, <2>3 DEF Broken, held
<1>10. ASSUME took.tail # head
       PROVE  /\ forwardDistance(head, took.tail) <= held - forceRange
              /\ ~flags[took.tail]
              /\ took.data[forward(head, arraySize - 1)]
                   = data[forward(head, arraySize - 1)]
  <2>1. count # held /\ count < held
    BY <1>10, <1>1, <1>3, <1>6
  <2>2. held - 1 \in count .. held - 1
    BY <1>1, <1>3, <2>1
  <2>3. forwardDistance(head, took.tail) <= held - forceRange
    BY <2>1, <1>1, <1>3, <1>4, <1>5, <1>6
  <2> QED
    BY <2>1, <2>2, <2>3, <1>1, <1>3, <1>4, <1>5, <1>6, <1>7
<1>11. took.tail \in Pos
  BY <1>5, <1>6
<1>12. ~took.failed
  <2>1. count \notin broken
    BY DEF broken
  <2> QED
    BY <2>1, <1>5, Zenon
<1> QED
  BY <1>8, <1>9, <1>10, <1>11, <1>12, Zenon DEF held
-----------------------------------------------------------------------------
(* Every step keeps the invariant.                                         *)

LEMMA InitIInv == Init => IInv
<1> SUFFICES ASSUME Init PROVE IInv
  OBVIOUS
<1>1. TypeOK
  BY SizeIs DEF Init, TypeOK, NoFlags
<1>2. forwardDistance(0, 0) = 0
  BY SizeIs, DistanceIs
<1>3. Broken(seqArray, rtpDataArray, headPos, tailPos) = {}
  BY <1>2 DEF Init, Broken
<1> QED
  BY <1>1, <1>3 DEF Init, IInv, HeldBriefly

(* Nothing waits between a position and itself.                            *)
LEMMA EmptyWindow ==
  ASSUME NEW flags, NEW data, NEW p \in Pos
  PROVE  Broken(flags, data, p, p) = {}
<1>1. forwardDistance(p, p) = 0
  BY DistanceIs, SizeIs
<1> QED
  BY <1>1 DEF Broken

LEMMA DirectStep == ASSUME IInv, NEW s \in SeqNum, Direct(s) PROVE IInv'
<1>1. tailPos = headPos /\ headPos \in Pos
  <2>1. lastSeq < 0 => lastSeq = -1
    BY DEF IInv, TypeOK, SeqNum
  <2> QED
    BY <2>1 DEF IInv, TypeOK, Direct
<1>2. headPos' = tailPos' /\ headPos' \in Pos
  BY <1>1, SizeIs, ForwardIs DEF Direct
<1>3. TypeOK'
  BY <1>2 DEF IInv, TypeOK, Direct
<1>4. Broken(seqArray', rtpDataArray', headPos', tailPos') = {}
  BY <1>2, EmptyWindow
<1> QED
  BY <1>2, <1>3, <1>4 DEF IInv, HeldBriefly, Direct

LEMMA InvalidStep == ASSUME IInv, NEW s \in SeqNum, Invalid(s) PROVE IInv'
<1>1. headPos' = 0 /\ tailPos' = 0 /\ 0 \in Pos
  BY SizeIs DEF Invalid
<1>2. TypeOK'
  BY <1>1 DEF IInv, TypeOK, Invalid, NoFlags
<1>3. Broken(seqArray', rtpDataArray', headPos', tailPos') = {}
  BY <1>1, EmptyWindow
<1> QED
  BY <1>1, <1>2, <1>3 DEF IInv, HeldBriefly, Invalid

LEMMA IdleStep == ASSUME IInv, UNCHANGED <<ringVars, lastSeq, process>> PROVE IInv'
<1>1. TypeOK'
  BY DEF IInv, TypeOK, ringVars
<1>2. HeldBriefly'
  BY DEF IInv, HeldBriefly, ringVars
<1>3. Broken(seqArray', rtpDataArray', headPos', tailPos') = {}
  BY DEF IInv, ringVars
<1> QED
  BY <1>1, <1>2, <1>3 DEF IInv, ringVars

(* Gap empties the window, whatever takeRtps leaves of it; takeRtps does   *)
(* not fail, since no flag is without its packet.                          *)
LEMMA GapStep == ASSUME IInv, NEW s \in SeqNum, Gap(s) PROVE IInv'
<1>1. PICK took \in {takeRtps(seqArray, rtpDataArray, headPos, tailPos, reorderSize)} :
        /\ rtpDataArray' = took.data
        /\ process' = IF took.failed THEN "exit" ELSE process
  BY DEF Gap, ExitIf
<1>2. took.data \in [Pos -> SeqNum \cup {NoData, Stale}] /\ ~took.failed
  BY SizeIs, TakeIs DEF IInv, TypeOK
<1>3. headPos' = 1 /\ tailPos' = 1 /\ lastSeq' = s /\ 1 \in Pos
  BY SizeIs DEF Gap
<1>4. process' = "up"
  BY <1>1, <1>2, Zenon DEF IInv
<1>5. seqArray' \in [Pos -> BOOLEAN]
  BY DEF Gap, NoFlags
<1>6. TypeOK'
  BY <1>1, <1>2, <1>3, <1>5, Zenon DEF TypeOK
<1>7. lastSeq' # -1
  BY <1>3 DEF SeqNum
<1>8. Broken(seqArray', rtpDataArray', headPos', tailPos') = {}
  BY <1>3, EmptyWindow
<1> QED
  BY <1>3, <1>4, <1>6, <1>7, <1>8 DEF IInv, HeldBriefly

(* A sound window on which takeRtps is forced over what is too much of it. *)
LEMMA AfterTake ==
  ASSUME NEW flags \in [Pos -> BOOLEAN],
         NEW data \in [Pos -> SeqNum \cup {NoData, Stale}],
         NEW head \in Pos, NEW tail \in Pos,
         Broken(flags, data, head, tail) = {},
         NEW forceRange \in Int,
         forwardDistance(head, tail) - forceRange <= reorderSize,
         NEW took, took = takeRtps(flags, data, head, tail, forceRange),
         process = "up", process' = IF took.failed THEN "exit" ELSE process,
         seqArray' = flags, rtpDataArray' = took.data,
         headPos' = head, tailPos' = took.tail,
         lastSeq' \in SeqNum, data[forward(head, arraySize - 1)] = lastSeq'
  PROVE  IInv'
<1>1. /\ took.tail \in Pos
      /\ took.data \in [Pos -> SeqNum \cup {NoData, Stale}]
      /\ ~took.failed
      /\ Broken(flags, took.data, head, took.tail) = {}
  BY TakeIs
<1>2. took.tail # head =>
        /\ forwardDistance(head, took.tail)
             <= forwardDistance(head, tail) - forceRange
        /\ ~flags[took.tail]
        /\ took.data[forward(head, arraySize - 1)]
             = data[forward(head, arraySize - 1)]
  BY TakeIs
<1>3. TypeOK'
  BY <1>1, Zenon DEF TypeOK
<1>4. process' = "up"
  BY <1>1, Zenon
<1>5. lastSeq' # -1
  BY DEF SeqNum
<1>6. HeldBriefly'
  <2> SUFFICES ASSUME took.tail # head
               PROVE  /\ forwardDistance(head, took.tail) <= reorderSize
                      /\ ~flags[took.tail]
                      /\ took.data[forward(head, arraySize - 1)] = lastSeq'
    BY DEF HeldBriefly
  <2>1. forwardDistance(head, tail) \in Int /\ forwardDistance(head, took.tail) \in Int
    <3>1. /\ forwardDistance(head, tail) \in 0 .. arraySize - 1
          /\ forwardDistance(head, took.tail) \in 0 .. arraySize - 1
      BY <1>1, DistanceIs
    <3> QED
      BY <3>1
  <2>2. forwardDistance(head, took.tail) <= reorderSize
    BY <1>2, <2>1, SizeIs
  <2> QED
    BY <1>2, <2>2
<1> QED
  BY <1>1, <1>3, <1>4, <1>5, <1>6, Zenon DEF IInv

(* The place of a late packet in the window.                               *)
LEMMA LatePlace ==
  ASSUME IInv, NEW s \in SeqNum, Late(s)
  PROVE  LET h == forwardDistance(headPos, tailPos)
             k == -Diff(s)
         IN  /\ h \in 1 .. arraySize - 1
             /\ k \in 1 .. reorderSize /\ k <= h - 1
             /\ getPos(Diff(s)) = forward(tailPos, h - 1 - k)
<1> DEFINE h    == forwardDistance(headPos, tailPos)
           k    == -Diff(s)
           at   == getPos(Diff(s))
<1>2. /\ headPos \in Pos /\ tailPos \in Pos /\ tailPos # headPos
      /\ seqArray \in [Pos -> BOOLEAN]
      /\ rtpDataArray \in [Pos -> SeqNum \cup {NoData, Stale}]
      /\ Broken(seqArray, rtpDataArray, headPos, tailPos) = {}
      /\ h <= reorderSize
      /\ rtpDataArray[forward(headPos, arraySize - 1)] = lastSeq
      /\ process = "up"
  BY DEF IInv, TypeOK, HeldBriefly, Late, InWindow
<1>3. h \in 1 .. arraySize - 1
  <2>1. h \in 0 .. arraySize - 1 /\ h # 0
    BY <1>2, DistanceIs
  <2> QED
    BY <2>1, SizeIs
<1>4. k \in 1 .. reorderSize /\ k <= h - 1
  <2>1. Diff(s) \in -reorderSize .. -1
    BY DEF Late
  <2>2. forwardDistance(forward(headPos, arraySize - 1), tailPos) = h - 1
    <3>1. forward(headPos, arraySize - 1) = forward(tailPos, h - 1)
      BY <1>2, <1>3, WindowIs
    <3>2. arraySize - 1 \in Int /\ 0 <= arraySize - 1 /\ arraySize - 1 <= arraySize
      BY SizeIs
    <3>3. /\ forward(headPos, arraySize - 1) \in Pos
          /\ forward(headPos, arraySize - 1) =
               IF headPos + (arraySize - 1) < arraySize THEN headPos + (arraySize - 1)
                 ELSE headPos + (arraySize - 1) - arraySize
      BY <1>2, <3>2, ForwardIs
    <3> DEFINE c == forward(headPos, arraySize - 1)
    <3> HIDE DEF c
    <3>4. forwardDistance(c, tailPos) =
            IF c >= tailPos THEN c - tailPos ELSE c - tailPos + arraySize
      BY <1>2, <3>3, DistanceIs DEF c
    <3>5. h = IF headPos >= tailPos THEN headPos - tailPos
                                    ELSE headPos - tailPos + arraySize
      BY <1>2, DistanceIs
    <3> QED
      BY <1>2, <1>3, <3>3, <3>4, <3>5, SizeIs DEF c
  <2>3. -Diff(s) <= forwardDistance(forward(headPos, arraySize - 1), tailPos)
    BY DEF Late, InWindow
  <2> QED
    BY <2>1, <2>2, <2>3, SizeIs
<1>5. at = forward(tailPos, h - 1 - k)
  <2>1. k \in 1 .. reorderSize /\ k < h
    BY <1>3, <1>4
  <2>2. getPos(-k) = forward(tailPos, h - 1 - k)
    <3> HIDE DEF k
    <3> QED
      BY <1>2, <2>1, GetPosIs
  <2>3. Diff(s) = -k
    BY DEF Late
  <2> QED
    BY <2>2, <2>3
<1> QED
  BY <1>3, <1>4, <1>5

(* A late packet fills a place of the window that waits for it.            *)
LEMMA LateStep == ASSUME IInv, NEW s \in SeqNum, Late(s) PROVE IInv'
<1> DEFINE h    == forwardDistance(headPos, tailPos)
           k    == -Diff(s)
           at   == getPos(Diff(s))
           flags == [seqArray EXCEPT ![at] = TRUE]
           data == [rtpDataArray EXCEPT ![at] = s]
<1>1. PICK took \in {takeRtps(flags, data, headPos, tailPos, 0)} :
        rtpDataArray' = took.data /\ tailPos' = took.tail
  BY DEF Late
<1>0. took = takeRtps(flags, data, headPos, tailPos, 0)
  OBVIOUS
<1>2. /\ headPos \in Pos /\ tailPos \in Pos /\ tailPos # headPos
      /\ seqArray \in [Pos -> BOOLEAN]
      /\ rtpDataArray \in [Pos -> SeqNum \cup {NoData, Stale}]
      /\ Broken(seqArray, rtpDataArray, headPos, tailPos) = {}
      /\ h <= reorderSize
      /\ rtpDataArray[forward(headPos, arraySize - 1)] = lastSeq
      /\ process = "up"
  BY DEF IInv, TypeOK, HeldBriefly, Late, InWindow
<1>3. /\ h \in 1 .. arraySize - 1
      /\ k \in 1 .. reorderSize /\ k <= h - 1
      /\ at = forward(tailPos, h - 1 - k)
  BY LatePlace, Zenon
<1>4. k \in 1 .. reorderSize /\ k <= h - 1
  BY <1>3
<1>5. at = forward(tailPos, h - 1 - k)
  BY <1>3
<1>6. /\ at \in Pos /\ at # forward(headPos, arraySize - 1)
      /\ flags \in [Pos -> BOOLEAN]
      /\ data \in [Pos -> SeqNum \cup {NoData, Stale}]
  <2> HIDE DEF at, k
  <2>1. h - 1 - k \in 0 .. h /\ h - 1 \in 0 .. h /\ h - 1 - k # h - 1
    BY <1>3, <1>4, SizeIs
  <2>2. at \in Pos /\ at # forward(headPos, arraySize - 1)
    BY <1>2, <1>3, <1>5, <2>1, WindowIs
  <2> QED
    BY <1>2, <2>2
<1>7. Broken(flags, data, headPos, tailPos) = {}
  <2> HIDE DEF at, k
  <2> SUFFICES ASSUME NEW i \in 0 .. h - 1,
                      flags[forward(tailPos, i)],
                      data[forward(tailPos, i)] = NoData
               PROVE  FALSE
    BY DEF Broken
  <2>1. forward(tailPos, i) \in Pos
    BY <1>2, <1>3, WindowIs
  <2>2. forward(tailPos, i) # at
    BY <1>6, <2>1 DEF SeqNum, NoData
  <2> QED
    BY <1>2, <2>1, <2>2 DEF Broken
<1>8. lastSeq' \in SeqNum /\ data[forward(headPos, arraySize - 1)] = lastSeq'
  <2>1. lastSeq' = lastSeq /\ lastSeq >= 0
    BY DEF Late, Started
  <2> HIDE DEF at
  <2> QED
    BY <1>2, <1>6, <2>1, SizeIs DEF IInv, TypeOK, SeqNum
<1>9. ~took.failed
  <2> HIDE DEF at, flags, data
  <2>1. 0 \in Int
    OBVIOUS
  <2> QED
    BY <1>0, <1>2, <1>6, <1>7, <2>1, TakeIs, Zenon
<1>10. /\ seqArray' = flags /\ headPos' = headPos
       /\ process' = IF took.failed THEN "exit" ELSE process
  BY <1>9 DEF Late
<1> QED
  <2> HIDE DEF at, flags, data
  <2>1. forwardDistance(headPos, tailPos) - 0 <= reorderSize
    BY <1>2, <1>3
  <2> QED
    BY <1>0, <1>1, <1>2, <1>6, <1>7, <1>8, <1>10, <2>1, AfterTake
(* Storing a packet d numbers ahead makes the window d places longer: the  *)
(* old ones, those of the numbers it jumps over, and its own.              *)
LEMMA StoreIs ==
  ASSUME NEW h, h = forwardDistance(headPos, tailPos), h <= reorderSize,
         headPos \in Pos, tailPos \in Pos,
         NEW d \in 1 .. reorderSize,
         NEW at, at = forward(headPos, d - 1),
         NEW head, head = forward(at, 1)
  PROVE  /\ at \in Pos /\ head \in Pos
         /\ forwardDistance(head, tailPos) = h + d
         /\ forward(head, arraySize - 1) = at
         /\ \A i \in 0 .. h - 1 :
              /\ forward(tailPos, i) \in Pos
              /\ \A j \in 0 .. d - 1 : forward(tailPos, i) # forward(headPos, j)
         /\ \A i \in h .. h + d - 1 :
              forward(tailPos, i) = forward(headPos, i - h)
         /\ \A j \in 0 .. d - 2 : forward(headPos, j) # at
<1>1. /\ h = IF headPos >= tailPos THEN headPos - tailPos
                                   ELSE headPos - tailPos + arraySize
      /\ h \in 0 .. arraySize - 1
  BY DistanceIs
<1>2. h + d < arraySize /\ h \in Nat
  BY <1>1, SizeIs
<1>3. ASSUME NEW p \in Pos, NEW i \in 0 .. h + d
      PROVE  /\ forward(p, i) \in Pos
             /\ forward(p, i) = IF p + i < arraySize THEN p + i ELSE p + i - arraySize
  <2>1. i \in Int /\ 0 <= i /\ i <= arraySize
    BY <1>2, SizeIs
  <2> QED
    BY <2>1, ForwardIs
<1>4. at \in Pos /\ at = IF headPos + (d - 1) < arraySize THEN headPos + (d - 1)
                           ELSE headPos + (d - 1) - arraySize
  <2>1. d - 1 \in 0 .. h + d
    BY <1>2
  <2> QED
    BY <1>3, <2>1
<1>5. head \in Pos /\ head = IF at + 1 < arraySize THEN at + 1 ELSE at + 1 - arraySize
  <2>1. 1 \in 0 .. h + d
    BY <1>2
  <2> QED
    BY <1>3, <1>4, <2>1
<1>6. forwardDistance(head, tailPos) = h + d
  <2>1. forwardDistance(head, tailPos) =
          IF head >= tailPos THEN head - tailPos ELSE head - tailPos + arraySize
    BY <1>5, DistanceIs
  <2> QED
    BY <2>1, <1>1, <1>2, <1>4, <1>5, SizeIs
<1>7. forward(head, arraySize - 1) = at
  <2>1. arraySize - 1 \in Int /\ 0 <= arraySize - 1 /\ arraySize - 1 <= arraySize
    BY SizeIs
  <2>2. forward(head, arraySize - 1) =
          IF head + (arraySize - 1) < arraySize THEN head + (arraySize - 1)
            ELSE head + (arraySize - 1) - arraySize
    BY <2>1, <1>5, ForwardIs
  <2> QED
    BY <2>2, <1>4, <1>5, SizeIs
<1>8. ASSUME NEW i \in h .. h + d - 1
      PROVE  forward(tailPos, i) = forward(headPos, i - h)
  <2>1. i \in 0 .. h + d /\ i - h \in 0 .. h + d
    BY <1>2
  <2>2. /\ forward(tailPos, i) = IF tailPos + i < arraySize THEN tailPos + i
                                  ELSE tailPos + i - arraySize
        /\ forward(headPos, i - h) =
             IF headPos + (i - h) < arraySize THEN headPos + (i - h)
               ELSE headPos + (i - h) - arraySize
    BY <2>1, <1>3
  <2> QED
    BY <2>1, <2>2, <1>1, <1>2, SizeIs
<1>9. ASSUME NEW i \in 0 .. h + d - 1, NEW j \in 0 .. h + d - 1, i # j
      PROVE  forward(tailPos, i) # forward(tailPos, j)
  <2>1. i \in 0 .. h + d /\ j \in 0 .. h + d
    BY <1>2
  <2>2. /\ forward(tailPos, i) = IF tailPos + i < arraySize THEN tailPos + i
                                  ELSE tailPos + i - arraySize
        /\ forward(tailPos, j) = IF tailPos + j < arraySize THEN tailPos + j
                                  ELSE tailPos + j - arraySize
    BY <2>1, <1>3
  <2> QED
    BY <2>1, <2>2, <1>2, <1>9, SizeIs
<1>10. \A j \in 0 .. d - 1 :
         /\ h + j \in 0 .. h + d - 1
         /\ forward(headPos, j) = forward(tailPos, h + j)
  <2> SUFFICES ASSUME NEW j \in 0 .. d - 1
               PROVE  /\ h + j \in 0 .. h + d - 1
                      /\ forward(headPos, j) = forward(tailPos, h + j)
    OBVIOUS
  <2>1. h + j \in h .. h + d - 1 /\ (h + j) - h = j
    BY <1>2
  <2> QED
    BY <2>1, <1>2, <1>8
<1>11. ASSUME NEW i \in 0 .. h - 1
       PROVE  /\ forward(tailPos, i) \in Pos
              /\ \A j \in 0 .. d - 1 : forward(tailPos, i) # forward(headPos, j)
  <2>1. i \in 0 .. h + d /\ i \in 0 .. h + d - 1
    BY <1>2
  <2>2. \A j \in 0 .. d - 1 : i # h + j
    BY <1>2
  <2> QED
    BY <2>1, <2>2, <1>3, <1>9, <1>10
<1>12. \A j \in 0 .. d - 2 : forward(headPos, j) # at
  <2>1. \A j \in 0 .. d - 2 : j \in 0 .. d - 1 /\ h + j # h + (d - 1)
    BY <1>2
  <2>2. d - 1 \in 0 .. d - 1
    OBVIOUS
  <2> QED
    BY <2>1, <2>2, <1>9, <1>10
<1> QED
  BY <1>4, <1>5, <1>6, <1>7, <1>8, <1>11, <1>12

LEMMA StoreStep == ASSUME IInv, NEW s \in SeqNum, Store(s) PROVE IInv'
<1> DEFINE d     == Diff(s)
           h     == forwardDistance(headPos, tailPos)
           at    == forward(headPos, d - 1)
           over  == {forward(headPos, i) : i \in 0 .. d - 2}
           flags == [p \in Pos |-> p = at \/ (p \notin over /\ seqArray[p])]
           data  == [rtpDataArray EXCEPT ![at] = s]
           head  == forward(at, 1)
           forceRange == forwardDistance(head, tailPos) - reorderSize
<1>1. /\ d \in 1 .. reorderSize
      /\ d = 1 => tailPos # headPos
      /\ seqArray' = flags /\ headPos' = head /\ lastSeq' = s
      /\ \/ \E took \in {takeRtps(flags, data, head, tailPos, forceRange)} :
              /\ rtpDataArray' = took.data /\ tailPos' = took.tail
              /\ ExitIf(took.failed)
         \/ forceRange <= 0 /\ rtpDataArray' = data /\ UNCHANGED <<tailPos, process>>
  BY DEF Store
<1>2. /\ headPos \in Pos /\ tailPos \in Pos
      /\ seqArray \in [Pos -> BOOLEAN]
      /\ rtpDataArray \in [Pos -> SeqNum \cup {NoData, Stale}]
      /\ Broken(seqArray, rtpDataArray, headPos, tailPos) = {}
      /\ tailPos # headPos => h <= reorderSize /\ ~seqArray[tailPos]
      /\ process = "up"
  BY DEF IInv, TypeOK, HeldBriefly
<1>3. h \in 0 .. arraySize - 1 /\ (h = 0 <=> headPos = tailPos) /\ h <= reorderSize
  <2>1. h \in 0 .. arraySize - 1 /\ (h = 0 <=> headPos = tailPos)
    BY <1>2, DistanceIs
  <2> QED
    BY <2>1, <1>2, SizeIs
<1> HIDE DEF d, h
<1>4. /\ at \in Pos /\ head \in Pos
      /\ forwardDistance(head, tailPos) = h + d
      /\ forward(head, arraySize - 1) = at
      /\ \A i \in 0 .. h - 1 :
           /\ forward(tailPos, i) \in Pos
           /\ \A j \in 0 .. d - 1 : forward(tailPos, i) # forward(headPos, j)
      /\ \A i \in h .. h + d - 1 : forward(tailPos, i) = forward(headPos, i - h)
      /\ \A j \in 0 .. d - 2 : forward(headPos, j) # at
  <2>1. h = forwardDistance(headPos, tailPos)
    BY DEF h
  <2> QED
    BY <2>1, <1>1, <1>2, <1>3, StoreIs
<1>5. d - 1 \in 0 .. d - 1 /\ \A j \in 0 .. d - 2 : j \in 0 .. d - 1
  BY <1>1
<1>6. ASSUME NEW i \in 0 .. h - 1
      PROVE  /\ forward(tailPos, i) \in Pos
             /\ forward(tailPos, i) # at /\ forward(tailPos, i) \notin over
  BY <1>4, <1>5
<1> HIDE DEF at
<1>7. flags \in [Pos -> BOOLEAN] /\ data \in [Pos -> SeqNum \cup {NoData, Stale}]
  BY <1>2, <1>4
<1>8. Broken(flags, data, head, tailPos) = {}
  <2>0. ASSUME NEW i \in Broken(flags, data, head, tailPos)
        PROVE  /\ i \in 0 .. h + d - 1
               /\ flags[forward(tailPos, i)]
               /\ data[forward(tailPos, i)] = NoData
    <3>1. forwardDistance(head, tailPos) = h + d
      BY <1>4
    <3> HIDE DEF flags, data, head
    <3>2. /\ i \in 0 .. forwardDistance(head, tailPos) - 1
          /\ flags[forward(tailPos, i)]
          /\ data[forward(tailPos, i)] = NoData
      BY <2>0, Zenon DEF Broken
    <3>3. i \in 0 .. h + d - 1
      BY <3>1, <3>2, <1>1, <1>3
    <3> QED
      BY <3>2, <3>3, Zenon
  <2> SUFFICES ASSUME NEW i \in 0 .. h + d - 1,
                      flags[forward(tailPos, i)],
                      data[forward(tailPos, i)] = NoData
               PROVE  FALSE
    <3> HIDE DEF flags, data, head
    <3> QED
      BY <2>0
  <2>1. CASE i \in 0 .. h - 1
    <3>1. flags[forward(tailPos, i)] => seqArray[forward(tailPos, i)]
      BY <1>6, <2>1
    <3>2. data[forward(tailPos, i)] = rtpDataArray[forward(tailPos, i)]
      BY <1>2, <1>6, <2>1
    <3> QED
      BY <1>2, <2>1, <3>1, <3>2 DEF Broken, h
  <2>2. CASE i \in h .. h + d - 2
    <3>1. i \in h .. h + d - 1 /\ i - h \in 0 .. d - 2
      BY <1>1, <1>3, <2>2
    <3>2. forward(tailPos, i) = forward(headPos, i - h) /\ forward(tailPos, i) \in over
      BY <1>4, <3>1
    <3>3. forward(tailPos, i) # at
      BY <1>4, <3>1, <3>2
    <3>4. forward(tailPos, i) \in Pos => ~flags[forward(tailPos, i)]
      BY <3>2, <3>3
    <3>5. forward(tailPos, i) \in Pos
      <4>1. i - h \in Int /\ 0 <= i - h /\ i - h <= arraySize
        BY <1>1, <3>1, SizeIs
      <4> QED
        BY <4>1, <3>2, <1>2, ForwardIs
    <3> QED
      BY <3>4, <3>5
  <2>3. CASE i = h + d - 1
    <3>1. i \in h .. h + d - 1 /\ i - h = d - 1
      BY <1>1, <1>3, <2>3
    <3>2. forward(tailPos, i) = at
      BY <1>4, <3>1 DEF at
    <3> QED
      BY <1>2, <1>4, <3>2 DEF SeqNum, NoData
  <2> QED
    BY <2>1, <2>2, <2>3, <1>1, <1>3
<1>9. lastSeq' \in SeqNum /\ data[forward(head, arraySize - 1)] = lastSeq'
  BY <1>1, <1>2, <1>4
<1>10. forceRange = h + d - reorderSize /\ forceRange \in Int
  BY <1>1, <1>3, <1>4, SizeIs
<1>11. CASE \E took \in {takeRtps(flags, data, head, tailPos, forceRange)} :
              /\ rtpDataArray' = took.data /\ tailPos' = took.tail
              /\ ExitIf(took.failed)
  <2>1. PICK took : /\ took = takeRtps(flags, data, head, tailPos, forceRange)
                    /\ rtpDataArray' = took.data /\ tailPos' = took.tail
                    /\ process' = IF took.failed THEN "exit" ELSE process
    BY <1>11 DEF ExitIf
  <2>2. forwardDistance(head, tailPos) - forceRange <= reorderSize
    BY <1>1, <1>3, <1>4, <1>10, SizeIs
  <2> HIDE DEF flags, data, head, forceRange
  <2> QED
    BY <1>1, <1>2, <1>4, <1>7, <1>8, <1>9, <1>10, <2>1, <2>2, AfterTake
<1>12. CASE forceRange <= 0 /\ rtpDataArray' = data /\ UNCHANGED <<tailPos, process>>
  <2>1. h + d <= reorderSize
    BY <1>12, <1>1, <1>3, <1>10, SizeIs
  <2>2. tailPos # at
    <3>1. CASE h = 0
      <4>1. 0 \in 0 .. d - 2
        BY <1>1, <1>3, <3>1
      <4>2. forward(headPos, 0) = headPos
        BY <1>2, SizeIs, ForwardIs
      <4> QED
        BY <4>1, <4>2, <1>3, <1>4, <3>1
    <3>2. CASE h # 0
      <4>1. 0 \in 0 .. h - 1
        BY <1>3, <3>2
      <4>2. forward(tailPos, 0) = tailPos
        BY <1>2, SizeIs, ForwardIs
      <4> QED
        BY <4>1, <4>2, <1>6
    <3> QED
      BY <3>1, <3>2
  <2>3. ~flags[tailPos]
    <3>1. CASE h = 0
      <4>1. 0 \in 0 .. d - 2
        BY <1>1, <1>3, <3>1
      <4>2. forward(headPos, 0) = headPos
        BY <1>2, SizeIs, ForwardIs
      <4>3. tailPos \in over
        BY <4>1, <4>2, <1>3, <3>1
      <4> QED
        BY <4>3, <2>2, <1>2
    <3>2. CASE h # 0
      BY <3>2, <2>2, <1>2, <1>3
    <3> QED
      BY <3>1, <3>2
  <2> HIDE DEF flags, data, head, forceRange
  <2>4. TypeOK'
    BY <1>1, <1>2, <1>4, <1>7, <1>9, <1>12 DEF TypeOK
  <2>5. HeldBriefly'
    BY <1>1, <1>4, <1>9, <1>12, <2>1, <2>3 DEF HeldBriefly
  <2>6. lastSeq' # -1
    BY <1>9 DEF SeqNum
  <2>7. Broken(seqArray', rtpDataArray', headPos', tailPos') = {}
    BY <1>1, <1>8, <1>12
  <2> QED
    BY <1>2, <1>12, <2>4, <2>5, <2>6, <2>7 DEF IInv
<1> QED
  BY <1>1, <1>11, <1>12

-----------------------------------------------------------------------------
(* The invariant holds in every behaviour.                                 *)
LEMMA Invariance == Spec => []IInv
<1>1. IInv /\ [Next]_vars => IInv'
  <2> SUFFICES ASSUME IInv, [Next]_vars PROVE IInv'
    OBVIOUS
  <2>1. CASE UNCHANGED vars
    <3>1. UNCHANGED <<ringVars, lastSeq, process>>
      BY <2>1 DEF vars
    <3> QED
      BY <3>1, IdleStep
  <2>2. CASE Next
    <3>1. PICK s \in SeqNum : updateData(s)
      BY <2>2 DEF Next
    <3>2. CASE Direct(s)
      BY <3>2, DirectStep
    <3>3. CASE Store(s)
      BY <3>3, StoreStep
    <3>4. CASE Gap(s)
      BY <3>4, GapStep
    <3>5. CASE Late(s)
      BY <3>5, LateStep
    <3>6. CASE Duplicated(s) \/ Old(s)
      BY <3>6, IdleStep DEF Duplicated, Old
    <3>7. CASE Invalid(s)
      BY <3>7, InvalidStep
    <3> QED
      BY <3>1, <3>2, <3>3, <3>4, <3>5, <3>6, <3>7 DEF updateData
  <2> QED
    BY <2>1, <2>2
<1> QED
  BY <1>1, InitIInv, PTL DEF Spec

(* The positions and the numbers stay in their ranges.                     *)
THEOREM TypeCorrect == Spec => []TypeOK
<1>1. IInv => TypeOK
  BY DEF IInv
<1> QED
  BY <1>1, Invariance, PTL

(* A packet waits for at most reorderSize newer numbers: the window never  *)
(* grows longer, it begins with a missing packet and ends with the newest. *)
THEOREM WindowBounded == Spec => []HeldBriefly
<1>1. IInv => HeldBriefly
  BY DEF IInv
<1> QED
  BY <1>1, Invariance, PTL

(* No sequence of packets makes updateData end the server: a flag in the   *)
(* window always has its packet.                                           *)
THEOREM ServerSurvives == Spec => []NeverExits
<1>1. IInv => NeverExits
  <2> SUFFICES ASSUME IInv PROVE NoData \notin Held
    BY DEF IInv, NeverExits
  <2> QED
    BY DEF IInv, Held, Window, Broken
<1> QED
  BY <1>1, Invariance, PTL

-----------------------------------------------------------------------------
(***************************************************************************)
(* InOrder and NothingLost.  Every packet in the window is the one whose   *)
(* number belongs to its place, counted back from the newest; the number   *)
(* handed over last lies g places before the window, and some packet in    *)
(* the window is close enough behind it that their distance, and that of   *)
(* every packet before it, is measured the right way round.                *)
(***************************************************************************)

(* The number k before x.                                                  *)
Before(x, k) == IF x >= k THEN x - k ELSE x - k + SeqMod

(* A window of held places, which of them are here and their packets, the   *)
(* newest number, and the number handed over last.                         *)
Counted(here, val, held, last, given) ==
  /\ given \in SeqNum
  /\ held = 0 => given = last
  /\ \A i \in 0 .. held - 1 : here[i] => val[i] = Before(last, held - 1 - i)
  /\ held > 0 => here[held - 1]
  /\ held > 0 => \E g \in 0 .. 2 * reorderSize :
       /\ given = Before(last, g + held)
       /\ \E j \in 0 .. held - 1 : here[j] /\ g + 1 + j <= 2 * reorderSize

(* The first n places of a window, on the ring.                            *)
Places(ring, tail, n) == [a \in 0 .. n - 1 |-> ring[forward(tail, a)]]

Numbered(flags, data, head, tail, last, given) ==
  LET held == forwardDistance(head, tail)
  IN  Counted(Places(flags, tail, held), Places(data, tail, held), held, last, given)

OrderInv ==
  IF lastSeq = -1 THEN delivered = -1
  ELSE Numbered(seqArray, rtpDataArray, headPos, tailPos, lastSeq, delivered)

-----------------------------------------------------------------------------
(* What Handed returns.                                                    *)
Datum == SeqNum \cup {NoData, Stale}

(* The sequence out holds the packets val[a] of the first n places that    *)
(* are here, all of them, in the order of the places.                      *)
GivenIs(out, here, val, n) ==
  /\ out \in Seq(Datum)
  /\ \A i \in 1 .. Len(out) : \E a \in 0 .. n - 1 : here[a] /\ out[i] = val[a]
  /\ \A a \in 0 .. n - 1 : here[a] => \E i \in 1 .. Len(out) : out[i] = val[a]
  /\ \A i \in 2 .. Len(out) : \E a, b \in 0 .. n - 1 :
       a < b /\ here[a] /\ here[b] /\ out[i - 1] = val[a] /\ out[i] = val[b]
  /\ Len(out) > 0 => \E a \in 0 .. n - 1 :
       here[a] /\ out[1] = val[a] /\ \A b \in 0 .. n - 1 : here[b] => a <= b
  /\ Len(out) > 0 => \E a \in 0 .. n - 1 :
       here[a] /\ out[Len(out)] = val[a] /\ \A b \in 0 .. n - 1 : here[b] => b <= a

(* One more place.                                                         *)
LEMMA OneMoreGiven ==
  ASSUME NEW here, NEW val, NEW n \in Nat, NEW out, GivenIs(out, here, val, n),
         val[n] \in Datum
  PROVE  GivenIs(IF here[n] THEN Append(out, val[n]) ELSE out, here, val, n + 1)
<1>1. /\ out \in Seq(Datum) /\ Len(out) \in Nat
      /\ \A a \in 0 .. n : a = n \/ a \in 0 .. n - 1
      /\ \A a \in 0 .. n - 1 : a \in 0 .. n /\ a < n
      /\ n \in 0 .. n /\ (n + 1) - 1 = n
  BY LenProperties DEF GivenIs
<1>2. CASE ~here[n]
  <2>1. \A a \in 0 .. n : here[a] => a \in 0 .. n - 1
    BY <1>1, <1>2
  <2>2. GivenIs(out, here, val, n + 1)
    <3>1. \A i \in 1 .. Len(out) : \E a \in 0 .. n : here[a] /\ out[i] = val[a]
      BY <1>1 DEF GivenIs
    <3>2. \A a \in 0 .. n : here[a] => \E i \in 1 .. Len(out) : out[i] = val[a]
      BY <2>1 DEF GivenIs
    <3>3. \A i \in 2 .. Len(out) : \E a, b \in 0 .. n :
            a < b /\ here[a] /\ here[b] /\ out[i - 1] = val[a] /\ out[i] = val[b]
      BY <1>1 DEF GivenIs
    <3>4. Len(out) > 0 => \E a \in 0 .. n :
            here[a] /\ out[1] = val[a] /\ \A b \in 0 .. n : here[b] => a <= b
      BY <1>1, <2>1 DEF GivenIs
    <3>5. Len(out) > 0 => \E a \in 0 .. n :
            here[a] /\ out[Len(out)] = val[a] /\ \A b \in 0 .. n : here[b] => b <= a
      BY <1>1, <2>1 DEF GivenIs
    <3> QED
      BY <1>1, <3>1, <3>2, <3>3, <3>4, <3>5 DEF GivenIs
  <2> QED
    BY <1>2, <2>2
<1>3. CASE here[n]
  <2>1. PICK m : m = Len(out)
    OBVIOUS
  <2>2. PICK o : o = Append(out, val[n])
    OBVIOUS
  <2>3. /\ o \in Seq(Datum) /\ Len(o) = m + 1 /\ m \in Nat
        /\ \A i \in 1 .. m : o[i] = out[i]
        /\ o[m + 1] = val[n]
    BY <1>1, <2>1, <2>2, AppendProperties
  <2>4. \A i \in 1 .. m + 1 : i = m + 1 \/ i \in 1 .. m
    BY <2>3
  <2>5. \A i \in 1 .. m + 1 : \E a \in 0 .. n : here[a] /\ o[i] = val[a]
    <3> SUFFICES ASSUME NEW i \in 1 .. m + 1
                 PROVE  \E a \in 0 .. n : here[a] /\ o[i] = val[a]
      OBVIOUS
    <3>1. CASE i = m + 1
      BY <1>1, <1>3, <2>3, <3>1
    <3>2. CASE i \in 1 .. m
      <4>1. PICK a \in 0 .. n - 1 : here[a] /\ out[i] = val[a]
        BY <2>1, <3>2 DEF GivenIs
      <4>2. a \in 0 .. n /\ o[i] = val[a]
        BY <1>1, <2>3, <3>2, <4>1
      <4> QED
        BY <4>1, <4>2
    <3> QED
      BY <2>4, <3>1, <3>2
  <2>6. \A a \in 0 .. n : here[a] => \E i \in 1 .. m + 1 : o[i] = val[a]
    <3> SUFFICES ASSUME NEW a \in 0 .. n, here[a]
                 PROVE  \E i \in 1 .. m + 1 : o[i] = val[a]
      OBVIOUS
    <3>1. CASE a = n
      <4>1. m + 1 \in 1 .. m + 1
        BY <2>3
      <4> QED
        BY <2>3, <3>1, <4>1
    <3>2. CASE a # n
      <4>1. PICK i \in 1 .. m : out[i] = val[a]
        BY <1>1, <2>1, <3>2 DEF GivenIs
      <4>2. i \in 1 .. m + 1 /\ o[i] = val[a]
        BY <2>3, <4>1
      <4> QED
        BY <4>2
    <3> QED
      BY <3>1, <3>2
  <2>7. \A i \in 2 .. m + 1 : \E a, b \in 0 .. n :
          a < b /\ here[a] /\ here[b] /\ o[i - 1] = val[a] /\ o[i] = val[b]
    <3> SUFFICES ASSUME NEW i \in 2 .. m + 1
                 PROVE  \E a, b \in 0 .. n :
                          a < b /\ here[a] /\ here[b] /\ o[i - 1] = val[a] /\ o[i] = val[b]
      OBVIOUS
    <3>1. CASE i = m + 1
      <4>1. m > 0 /\ m \in 1 .. m /\ i - 1 = m
        BY <2>3, <3>1
      <4>2. PICK a \in 0 .. n - 1 : here[a] /\ out[m] = val[a]
        BY <2>1, <4>1 DEF GivenIs
      <4>3. a \in 0 .. n /\ a < n /\ o[i - 1] = val[a] /\ o[i] = val[n]
        BY <1>1, <2>3, <3>1, <4>1, <4>2
      <4> QED
        BY <1>1, <1>3, <4>2, <4>3
    <3>2. CASE i # m + 1
      <4>1. i \in 2 .. m /\ i \in 1 .. m /\ i - 1 \in 1 .. m
        BY <2>3, <3>2
      <4>2. PICK a, b \in 0 .. n - 1 :
              a < b /\ here[a] /\ here[b] /\ out[i - 1] = val[a] /\ out[i] = val[b]
        BY <2>1, <4>1 DEF GivenIs
      <4>3. a \in 0 .. n /\ b \in 0 .. n /\ o[i - 1] = val[a] /\ o[i] = val[b]
        BY <1>1, <2>3, <4>1, <4>2
      <4> QED
        BY <4>2, <4>3
    <3> QED
      BY <3>1, <3>2
  <2>8. \E a \in 0 .. n : here[a] /\ o[1] = val[a] /\ \A b \in 0 .. n : here[b] => a <= b
    <3>1. CASE m = 0
      <4>1. \A a \in 0 .. n - 1 : ~here[a]
        BY <2>1, <3>1 DEF GivenIs
      <4>2. \A b \in 0 .. n : here[b] => n <= b
        BY <1>1, <4>1
      <4> QED
        BY <1>1, <1>3, <2>3, <3>1, <4>2
    <3>2. CASE m # 0
      <4>1. m > 0 /\ 1 \in 1 .. m
        BY <2>3, <3>2
      <4>2. PICK a \in 0 .. n - 1 :
              here[a] /\ out[1] = val[a] /\ \A b \in 0 .. n - 1 : here[b] => a <= b
        BY <2>1, <4>1 DEF GivenIs
      <4>3. \A b \in 0 .. n : here[b] => a <= b
        BY <1>1, <4>2
      <4> QED
        BY <1>1, <2>3, <4>1, <4>2, <4>3
    <3> QED
      BY <3>1, <3>2
  <2>9. here[n] /\ o[m + 1] = val[n] /\ \A b \in 0 .. n : here[b] => b <= n
    BY <1>1, <1>3, <2>3
  <2>10. GivenIs(o, here, val, n + 1)
    <3>1. m + 1 > 0
      BY <2>3
    <3>2. \E a \in 0 .. n : here[a] /\ o[m + 1] = val[a]
                             /\ \A b \in 0 .. n : here[b] => b <= a
      BY <1>1, <2>9
    <3>3. Len(o) = m + 1 /\ (n + 1) - 1 = n
      BY <1>1, <2>3
    <3>4. \A i \in 1 .. Len(o) : \E a \in 0 .. (n + 1) - 1 : here[a] /\ o[i] = val[a]
      BY <2>5, <3>3, Zenon
    <3>5. \A a \in 0 .. (n + 1) - 1 : here[a] => \E i \in 1 .. Len(o) : o[i] = val[a]
      BY <2>6, <3>3, Zenon
    <3>6. \A i \in 2 .. Len(o) : \E a, b \in 0 .. (n + 1) - 1 :
            a < b /\ here[a] /\ here[b] /\ o[i - 1] = val[a] /\ o[i] = val[b]
      BY <2>7, <3>3, Zenon
    <3>7. \E a \in 0 .. (n + 1) - 1 :
            here[a] /\ o[1] = val[a] /\ \A b \in 0 .. (n + 1) - 1 : here[b] => a <= b
      BY <2>8, <3>3, Zenon
    <3>8. \E a \in 0 .. (n + 1) - 1 :
            here[a] /\ o[Len(o)] = val[a] /\ \A b \in 0 .. (n + 1) - 1 : here[b] => b <= a
      BY <3>2, <3>3, Zenon
    <3> QED
      BY <2>3, <3>4, <3>5, <3>6, <3>7, <3>8, Zenon DEF GivenIs
  <2> QED
    BY <1>3, <2>2, <2>10
<1> QED
  BY <1>2, <1>3

(* Only the first n places matter.                                         *)
Alike(here, val, h, v, n) ==
  \A a \in 0 .. n - 1 : (h[a] <=> here[a]) /\ v[a] = val[a]

LEMMA SameGiven ==
  ASSUME NEW here, NEW val, NEW h, NEW v, NEW n, NEW out,
         Alike(here, val, h, v, n), GivenIs(out, h, v, n)
  PROVE  GivenIs(out, here, val, n)
<1> USE DEF Alike
<1>1. out \in Seq(Datum)
  BY DEF GivenIs
<1>2. ASSUME NEW i \in 1 .. Len(out)
      PROVE  \E a \in 0 .. n - 1 : here[a] /\ out[i] = val[a]
  <2>1. PICK a \in 0 .. n - 1 : h[a] /\ out[i] = v[a]
    BY Zenon DEF GivenIs
  <2> QED
    BY <2>1, Zenon
<1>3. ASSUME NEW a \in 0 .. n - 1, here[a]
      PROVE  \E i \in 1 .. Len(out) : out[i] = val[a]
  <2>1. h[a] /\ v[a] = val[a]
    BY <1>3, Zenon
  <2>2. PICK i \in 1 .. Len(out) : out[i] = v[a]
    BY <2>1, Zenon DEF GivenIs
  <2> QED
    BY <2>1, <2>2, Zenon
<1>4. ASSUME NEW i \in 2 .. Len(out)
      PROVE  \E a, b \in 0 .. n - 1 :
        a < b /\ here[a] /\ here[b] /\ out[i - 1] = val[a] /\ out[i] = val[b]
  <2>1. PICK a, b \in 0 .. n - 1 :
          a < b /\ h[a] /\ h[b] /\ out[i - 1] = v[a] /\ out[i] = v[b]
    BY Zenon DEF GivenIs
  <2>2. here[a] /\ here[b] /\ out[i - 1] = val[a] /\ out[i] = val[b]
    BY <2>1, Zenon
  <2> QED
    BY <2>1, <2>2, Zenon
<1>5. ASSUME Len(out) > 0
      PROVE  \E a \in 0 .. n - 1 :
        here[a] /\ out[1] = val[a] /\ \A b \in 0 .. n - 1 : here[b] => a <= b
  <2>1. PICK a \in 0 .. n - 1 :
          h[a] /\ out[1] = v[a] /\ \A b \in 0 .. n - 1 : h[b] => a <= b
    BY <1>5, Zenon DEF GivenIs
  <2> QED
    BY <2>1, Zenon
<1>6. ASSUME Len(out) > 0
      PROVE  \E a \in 0 .. n - 1 :
        here[a] /\ out[Len(out)] = val[a] /\ \A b \in 0 .. n - 1 : here[b] => b <= a
  <2>1. PICK a \in 0 .. n - 1 :
          h[a] /\ out[Len(out)] = v[a] /\ \A b \in 0 .. n - 1 : h[b] => b <= a
    BY <1>6, Zenon DEF GivenIs
  <2> QED
    BY <2>1, Zenon
<1> QED
  BY <1>1, <1>2, <1>3, <1>4, <1>5, <1>6, Zenon DEF GivenIs

(* The recursion of Handed, for what is here and its packets.              *)
HandStep(here, val, g, i) ==
  IF i = 0 THEN <<>>
  ELSE IF here[i - 1] THEN Append(g[i - 1], val[i - 1]) ELSE g[i - 1]

(* It has a solution for every number of places.                           *)
Solves(here, val, n, g) == g = [i \in 0 .. n |-> HandStep(here, val, g, i)]

LEMMA RecursionExists ==
  ASSUME NEW here, NEW val
  PROVE  \A n \in Nat : \E g : Solves(here, val, n, g)
<1> DEFINE Bad == {n \in Nat : ~\E g : g = [i \in 0 .. n |-> HandStep(here, val, g, i)]}
<1> SUFFICES ASSUME Bad # {} PROVE FALSE
  BY DEF Solves
<1>1. PICK n : n \in Bad /\ \A k \in Bad : n <= k
  <2>1. Bad \subseteq Nat
    OBVIOUS
  <2> HIDE DEF Bad
  <2> QED
    BY <2>1, MinIs
<1>2. n \in Nat /\ ~\E g : g = [i \in 0 .. n |-> HandStep(here, val, g, i)]
  BY <1>1
<1>3. CASE n = 0
  <2>1. PICK g : g = [i \in 0 .. 0 |-> <<>>]
    OBVIOUS
  <2>2. \A i \in 0 .. 0 : HandStep(here, val, g, i) = <<>>
    BY DEF HandStep
  <2>3. g = [i \in 0 .. 0 |-> HandStep(here, val, g, i)]
    <3> HIDE DEF HandStep
    <3> QED
      BY <2>1, <2>2
  <2> QED
    BY <1>2, <1>3, <2>3
<1>4. CASE n # 0
  <2>1. n - 1 \in Nat /\ n - 1 \notin Bad
    <3>1. n - 1 \in Nat /\ ~(n <= n - 1)
      BY <1>2, <1>4
    <3> HIDE DEF Bad
    <3> QED
      BY <1>1, <3>1
  <2>2. PICK g : g = [i \in 0 .. n - 1 |-> HandStep(here, val, g, i)]
    BY <2>1
  <2>3. PICK f : f = [i \in 0 .. n |-> IF i = n THEN HandStep(here, val, g, n) ELSE g[i]]
    OBVIOUS
  <2>4. \A i \in 0 .. n : i # n => i \in 0 .. n - 1 /\ f[i] = g[i]
    BY <1>2, <2>3
  <2>5. \A i \in 0 .. n : i # 0 => f[i - 1] = g[i - 1]
    <3>1. \A i \in 0 .. n : i # 0 => i - 1 \in 0 .. n /\ i - 1 # n
      BY <1>2
    <3> QED
      BY <2>4, <3>1
  <2>6. \A i \in 0 .. n : HandStep(here, val, f, i) = HandStep(here, val, g, i)
    BY <2>5 DEF HandStep
  <2>7. ASSUME NEW i \in 0 .. n PROVE f[i] = HandStep(here, val, g, i)
    <3> HIDE DEF HandStep
    <3>1. CASE i = n
      BY <2>3, <3>1
    <3>2. CASE i # n
      BY <2>2, <2>4, <3>2
    <3> QED
      BY <3>1, <3>2
  <2>8. f = [i \in 0 .. n |-> HandStep(here, val, f, i)]
    <3> HIDE DEF HandStep
    <3> QED
      BY <2>3, <2>6, <2>7
  <2> QED
    BY <1>2, <2>8
<1> QED
  BY <1>3, <1>4

(* A solution of the recursion gives the packets of every first m places.  *)
LEMMA RecursionGives ==
  ASSUME NEW here, NEW val, NEW n \in Nat, \A a \in 0 .. n - 1 : val[a] \in Datum,
         NEW g, g = [i \in 0 .. n |-> HandStep(here, val, g, i)]
  PROVE  \A m \in 0 .. n : GivenIs(g[m], here, val, m)
<1> DEFINE Bad == {m \in 0 .. n : ~GivenIs(g[m], here, val, m)}
<1> SUFFICES ASSUME Bad # {} PROVE FALSE
  OBVIOUS
<1>1. PICK m : m \in Bad /\ \A k \in Bad : m <= k
  <2>1. Bad \subseteq Nat
    OBVIOUS
  <2> HIDE DEF Bad
  <2> QED
    BY <2>1, MinIs
<1>2. m \in 0 .. n /\ ~GivenIs(g[m], here, val, m) /\ g[m] = HandStep(here, val, g, m)
  BY <1>1
<1>3. CASE m = 0
  <2>1. g[0] = <<>>
    BY <1>2, <1>3 DEF HandStep
  <2>2. GivenIs(<<>>, here, val, 0)
    <3>1. <<>> \in Seq(Datum) /\ Len(<<>>) = 0
      BY EmptySeq
    <3> QED
      BY <3>1 DEF GivenIs
  <2> QED
    BY <1>2, <1>3, <2>1, <2>2
<1>4. CASE m # 0
  <2>1. PICK k : k = m - 1 /\ k \in 0 .. n - 1 /\ k \in 0 .. n /\ k \in Nat /\ k + 1 = m /\ ~(m <= k)
    BY <1>2, <1>4
  <2>2. GivenIs(g[k], here, val, k)
    <3>1. k \notin Bad
      <4> HIDE DEF Bad
      <4> QED
        BY <1>1, <2>1
    <3> QED
      BY <2>1, <3>1
  <2>3. g[m] = IF here[k] THEN Append(g[k], val[k]) ELSE g[k]
    BY <1>2, <1>4, <2>1 DEF HandStep
  <2>4. GivenIs(IF here[k] THEN Append(g[k], val[k]) ELSE g[k], here, val, k + 1)
    BY <2>1, <2>2, OneMoreGiven
  <2> QED
    BY <1>2, <2>1, <2>3, <2>4
<1> QED
  BY <1>3, <1>4

LEMMA HandedIs ==
  ASSUME NEW flags, NEW data \in [Pos -> Datum], NEW tail, NEW n \in Nat,
         \A a \in 0 .. n - 1 : forward(tail, a) \in Pos,
         NEW here, here = Places(flags, tail, n),
         NEW val, val = Places(data, tail, n)
  PROVE  GivenIs(Handed(flags, data, tail, n), here, val, n)
<1>1. \A g : \A i \in 0 .. n :
        HandStep(here, val, g, i) =
          IF i = 0 THEN <<>>
          ELSE IF flags[forward(tail, i - 1)]
               THEN Append(g[i - 1], data[forward(tail, i - 1)])
               ELSE g[i - 1]
  <2> SUFFICES ASSUME NEW g, NEW i \in 0 .. n, i # 0
               PROVE  here[i - 1] = flags[forward(tail, i - 1)]
                      /\ val[i - 1] = data[forward(tail, i - 1)]
    BY DEF HandStep
  <2>1. i - 1 \in 0 .. n - 1
    OBVIOUS
  <2> QED
    BY <2>1 DEF Places
<1> DEFINE F(g) == [i \in 0 .. n |->
                      IF i = 0 THEN <<>>
                      ELSE IF flags[forward(tail, i - 1)]
                           THEN Append(g[i - 1], data[forward(tail, i - 1)])
                           ELSE g[i - 1]]
           f == CHOOSE g : g = F(g)
<1>2. \A g : [i \in 0 .. n |-> HandStep(here, val, g, i)] = F(g)
  BY <1>1
<1>3. Handed(flags, data, tail, n) = f[n]
  BY DEF Handed
<1>4. \E g : g = F(g)
  <2>1. PICK g : Solves(here, val, n, g)
    BY RecursionExists, Zenon
  <2>2. g = F(g)
    <3> HIDE DEF F
    <3> QED
      BY <1>2, <2>1 DEF Solves
  <2> QED
    BY <2>2
<1>5. f = F(f)
  <2> HIDE DEF F
  <2> QED
    BY <1>4
<1>6. f = [i \in 0 .. n |-> HandStep(here, val, f, i)]
  <2> HIDE DEF F, f
  <2> QED
    BY <1>2, <1>5
<1>7. \A a \in 0 .. n - 1 : val[a] \in Datum
  BY DEF Places
<1>8. n \in 0 .. n
  OBVIOUS
<1> HIDE DEF f
<1>9. GivenIs(f[n], here, val, n)
  BY <1>6, <1>7, <1>8, RecursionGives
<1> QED
  BY <1>3, <1>9

-----------------------------------------------------------------------------
(* The places of the window are positions of the ring, all different.      *)
Span(head, tail, held) ==
  /\ held \in Nat /\ held < arraySize
  /\ held = 0 <=> tail = head
  /\ \A i \in 0 .. held : forward(tail, i) \in Pos
  /\ \A i, j \in 0 .. held : forward(tail, i) = forward(tail, j) => i = j

LEMMA PlacesAre ==
  ASSUME NEW head \in Pos, NEW tail \in Pos
  PROVE  Span(head, tail, forwardDistance(head, tail))
<1>0. PICK held : held = forwardDistance(head, tail)
  OBVIOUS
<1>1. held \in Nat
  BY <1>0, DistanceIs, SizeIs
<1>2. held \in 0 .. held /\ 0 \in 0 .. held
  BY <1>1
<1>3. Span(head, tail, held)
  BY <1>0, <1>1, <1>2, WindowIs DEF Span
<1> QED
  BY <1>0, <1>3

(* How far takeRtps goes in a sound window, and what it hands over.        *)
TakenTo(count, took, held, here, val, data, tail, forceRange) ==
  /\ count = held \/ (count >= forceRange /\ ~here[count])
  /\ GivenIs(took.out, here, val, count)
  /\ took.tail = forward(tail, count)
  /\ \A i \in count .. held - 1 :
       took.data[forward(tail, i)] = data[forward(tail, i)]

LEMMA TakeOut ==
  ASSUME NEW flags \in [Pos -> BOOLEAN], NEW data \in [Pos -> Datum],
         NEW head \in Pos, NEW tail \in Pos,
         Broken(flags, data, head, tail) = {},
         NEW forceRange \in Int,
         NEW took, took = takeRtps(flags, data, head, tail, forceRange),
         NEW held, held = forwardDistance(head, tail),
         NEW here, here = Places(flags, tail, held),
         NEW val, val = Places(data, tail, held)
  PROVE  \E count \in 0 .. held : TakenTo(count, took, held, here, val, data, tail, forceRange)
<1> DEFINE stops == Stops(flags, head, tail, forceRange)
           broken == Broken(flags, data, head, tail)
           count == Min(stops \cup broken)
<1>1. /\ held \in Nat /\ held < arraySize
      /\ \A i \in 0 .. held : forward(tail, i) \in Pos
      /\ \A i, j \in 0 .. held : forward(tail, i) = forward(tail, j) => i = j
  <2>1. Span(head, tail, held)
    BY PlacesAre, Zenon
  <2> QED
    BY <2>1, Zenon DEF Span
<1>2. stops \subseteq 0 .. held /\ held \in stops
  BY <1>1 DEF Stops
<1>3. count \in 0 .. held /\ count \in stops
  <2>1. stops \cup broken = stops
    OBVIOUS
  <2>2. stops \subseteq Nat /\ stops # {}
    BY <1>1, <1>2
  <2> HIDE DEF stops, broken
  <2> QED
    BY <1>2, <2>1, <2>2, MinIs
<1>4. count = held \/ (count >= forceRange /\ ~flags[forward(tail, count)])
  BY <1>3 DEF Stops
<1> DEFINE passed == {forward(tail, i) : i \in 0 .. count - 1}
<1>5. /\ took.tail = forward(tail, count)
      /\ took.data = [p \in Pos |-> IF p \in passed /\ flags[p] THEN NoData ELSE data[p]]
      /\ took.out = Handed(flags, data, tail, count)
  BY DEF takeRtps
<1> HIDE DEF count, stops, broken
<1>8. \A i \in count .. held - 1 : took.data[forward(tail, i)] = data[forward(tail, i)]
  <2> SUFFICES ASSUME NEW i \in count .. held - 1
               PROVE  /\ forward(tail, i) \in Pos
                      /\ forward(tail, i) \notin passed
    BY <1>5
  <2>1. i \in 0 .. held
    BY <1>1, <1>3
  <2>2. \A j \in 0 .. count - 1 : j \in 0 .. held /\ j # i
    BY <1>1, <1>3
  <2> QED
    BY <2>1, <2>2, <1>1
<1>9. GivenIs(took.out, here, val, count)
  <2>1. PICK n : n = count /\ n \in Nat /\ \A a \in 0 .. n - 1 : a \in 0 .. held - 1 /\ a \in 0 .. held
    BY <1>1, <1>3
  <2>2. PICK ch : ch = Places(flags, tail, n)
    OBVIOUS
  <2>3. PICK cv : cv = Places(data, tail, n)
    OBVIOUS
  <2>4. \A a \in 0 .. n - 1 : forward(tail, a) \in Pos
    BY <1>1, <2>1
  <2>5. GivenIs(Handed(flags, data, tail, n), ch, cv, n)
    BY <2>1, <2>2, <2>3, <2>4, HandedIs
  <2>6. Alike(here, val, ch, cv, n)
    BY <2>1, <2>2, <2>3 DEF Alike, Places
  <2>7. PICK out : out = took.out /\ GivenIs(out, ch, cv, n)
    BY <1>5, <2>1, <2>5
  <2>8. GivenIs(out, here, val, n)
    BY <2>6, <2>7, SameGiven, Zenon
  <2> QED
    BY <2>1, <2>7, <2>8
<1>10. count = held \/ (count >= forceRange /\ ~here[count])
  <2>1. count # held => count \in 0 .. held - 1
    BY <1>1, <1>3
  <2> QED
    BY <1>4, <2>1 DEF Places
<1> QED
  BY <1>3, <1>5, <1>8, <1>9, <1>10 DEF TakenTo

-----------------------------------------------------------------------------
(* Numbers counted back from another.                                      *)
Half == (SeqMod - 1) \div 2

LEMMA HalfIs == /\ SeqMod \in Nat /\ Half \in Nat /\ 2 * Half < SeqMod
                /\ SeqMod <= 2 * Half + 2
                /\ 2 * reorderSize < Half /\ 4 * reorderSize < SeqMod
                /\ MAX_DIFF \in Nat /\ MAX_DIFF <= Half
                /\ reorderSize \in Nat \ {0}
BY RtpPipeAssumption DEF Half

LEMMA BeforeIs ==
  ASSUME NEW x \in SeqNum, NEW k \in Nat, k < SeqMod
  PROVE  Before(x, k) \in SeqNum
BY HalfIs DEF Before, SeqNum

LEMMA BeforeTwice ==
  ASSUME NEW x \in SeqNum, NEW k \in Nat, NEW l \in Nat, k + l < SeqMod
  PROVE  Before(Before(x, k), l) = Before(x, k + l)
BY HalfIs DEF Before, SeqNum

LEMMA DistanceInt ==
  ASSUME NEW x \in SeqNum, NEW y \in SeqNum
  PROVE  getSeqDistance(x, y) \in Int
BY HalfIs DEF getSeqDistance, Half, SeqNum

LEMMA BeforeNone == ASSUME NEW x \in SeqNum PROVE Before(x, 0) = x
BY DEF Before, SeqNum

(* Two numbers counted back are as far apart as the counts.                *)
LEMMA BeforeApart ==
  ASSUME NEW x \in SeqNum, NEW k \in Nat, NEW l \in Nat, k < SeqMod,
         l <= k, k - l <= Half
  PROVE  getSeqDistance(Before(x, l), Before(x, k)) = k - l
<1>1. getSeqDistance(Before(x, l), Before(x, k)) =
        LET diff == Before(x, l) - Before(x, k)
        IN  IF diff > Half THEN diff - SeqMod
            ELSE IF diff < -Half THEN diff + SeqMod ELSE diff
  BY HalfIs, BeforeIs DEF getSeqDistance, Half, SeqNum
<1> QED
  BY <1>1, HalfIs DEF Before, SeqNum

(* The distance of two numbers says how far one is counted back.           *)
LEMMA BeforeByDistance ==
  ASSUME NEW x \in SeqNum, NEW y \in SeqNum, getSeqDistance(x, y) > 0
  PROVE  /\ y = Before(x, getSeqDistance(x, y))
         /\ getSeqDistance(x, y) \in Nat
<1>1. getSeqDistance(x, y) =
        LET diff == x - y
        IN  IF diff > Half THEN diff - SeqMod
            ELSE IF diff < -Half THEN diff + SeqMod ELSE diff
  BY HalfIs DEF getSeqDistance, Half, SeqNum
<1> QED
  BY <1>1, HalfIs DEF Before, SeqNum

LEMMA BeforeByLateness ==
  ASSUME NEW x \in SeqNum, NEW y \in SeqNum, getSeqDistance(x, y) < 0
  PROVE  x = Before(y, -getSeqDistance(x, y))
<1>1. getSeqDistance(x, y) =
        LET diff == x - y
        IN  IF diff > Half THEN diff - SeqMod
            ELSE IF diff < -Half THEN diff + SeqMod ELSE diff
  BY HalfIs DEF getSeqDistance, Half, SeqNum
<1> QED
  BY <1>1, HalfIs DEF Before, SeqNum

-----------------------------------------------------------------------------
(* What is handed over of a window, and what is left of it.                *)

(* The numbers of out grow, from the one before them on.                   *)
Rising(given, out) ==
  /\ \A i \in 2 .. Len(out) : getSeqDistance(out[i], out[i - 1]) > 0
  /\ Len(out) > 0 => getSeqDistance(out[1], given) > 0

LastOf(given, out) == IF out = <<>> THEN given ELSE out[Len(out)]
Packets(here, val, n) == {val[i] : i \in {j \in 0 .. n - 1 : here[j]}}
OutSet(out) == {out[i] : i \in DOMAIN out}

(* The packets of a numbered window are numbers, in their order.           *)
LEMMA CountedIs ==
  ASSUME NEW held \in Nat, held <= 2 * reorderSize, NEW here, NEW val,
         NEW last \in SeqNum, NEW given, Counted(here, val, held, last, given)
  PROVE  /\ \A i \in 0 .. held - 1 : here[i] => val[i] \in SeqNum
         /\ \A a, b \in 0 .. held - 1 :
              a < b /\ here[a] /\ here[b] => getSeqDistance(val[b], val[a]) > 0
         /\ \A a \in 0 .. held - 1 :
              here[a] /\ (\A b \in 0 .. held - 1 : here[b] => a <= b)
                => getSeqDistance(val[a], given) > 0
<1>1. \A i \in 0 .. held - 1 : here[i] =>
        /\ val[i] = Before(last, held - 1 - i)
        /\ held - 1 - i \in Nat /\ held - 1 - i < held /\ held - 1 - i < SeqMod
  <2> SUFFICES ASSUME NEW i \in 0 .. held - 1, here[i]
               PROVE  /\ val[i] = Before(last, held - 1 - i)
                      /\ held - 1 - i \in Nat /\ held - 1 - i < held
                      /\ held - 1 - i < SeqMod
    OBVIOUS
  <2>1. val[i] = Before(last, held - 1 - i)
    BY DEF Counted
  <2> QED
    BY <2>1, HalfIs
<1>2. \A i \in 0 .. held - 1 : here[i] => val[i] \in SeqNum
  BY <1>1, BeforeIs
<1>3. ASSUME NEW a \in 0 .. held - 1, NEW b \in 0 .. held - 1,
             a < b, here[a], here[b]
      PROVE  getSeqDistance(val[b], val[a]) > 0
  <2>1. PICK k : k = held - 1 - a
    OBVIOUS
  <2>2. PICK l : l = held - 1 - b
    OBVIOUS
  <2>3. /\ val[a] = Before(last, k) /\ val[b] = Before(last, l)
        /\ k \in Nat /\ l \in Nat /\ k < SeqMod
    BY <1>1, <1>3, <2>1, <2>2
  <2>4. l <= k /\ k - l <= Half /\ k - l > 0
    BY <1>3, <2>1, <2>2, HalfIs
  <2>5. getSeqDistance(Before(last, l), Before(last, k)) = k - l
    BY <2>3, <2>4, BeforeApart
  <2> QED
    BY <2>3, <2>4, <2>5
<1>4. ASSUME NEW a \in 0 .. held - 1, here[a], \A b \in 0 .. held - 1 : here[b] => a <= b
      PROVE  getSeqDistance(val[a], given) > 0
  <2>1. PICK g \in 0 .. 2 * reorderSize :
          /\ given = Before(last, g + held)
          /\ \E j \in 0 .. held - 1 : here[j] /\ g + 1 + j <= 2 * reorderSize
    BY <1>4 DEF Counted
  <2>2. PICK j \in 0 .. held - 1 : here[j] /\ g + 1 + j <= 2 * reorderSize
    BY <2>1
  <2>3. a <= j
    BY <1>4, <2>2
  <2>4. PICK k : k = g + held
    OBVIOUS
  <2>5. PICK l : l = held - 1 - a
    OBVIOUS
  <2>6. /\ k \in Nat /\ l \in Nat /\ k < SeqMod
        /\ l <= k /\ k - l <= Half /\ k - l > 0
    BY <2>2, <2>3, <2>4, <2>5, HalfIs
  <2>7. val[a] = Before(last, l)
    BY <1>1, <1>4, <2>5
  <2>8. getSeqDistance(Before(last, l), Before(last, k)) = k - l
    BY <2>6, BeforeApart
  <2> QED
    BY <2>1, <2>4, <2>6, <2>7, <2>8
<1> QED
  BY <1>2, <1>3, <1>4

LEMMA OutIs ==
  ASSUME NEW held \in Nat, held <= 2 * reorderSize, NEW here, NEW val,
         NEW last \in SeqNum, NEW given, Counted(here, val, held, last, given),
         NEW count \in 0 .. held, count = held \/ ~here[count],
         NEW out, GivenIs(out, here, val, count)
  PROVE  /\ out \in Seq(SeqNum)
         /\ Rising(given, out)
         /\ OutSet(out) = Packets(here, val, count)
<1>0. \A a \in 0 .. count - 1 : a \in 0 .. held - 1
  OBVIOUS
<1>1. out \in Seq(Datum) /\ Len(out) \in Nat /\ DOMAIN out = 1 .. Len(out)
  BY LenProperties DEF GivenIs
<1>2. \A i \in 1 .. Len(out) : out[i] \in SeqNum
  <2> SUFFICES ASSUME NEW i \in 1 .. Len(out) PROVE out[i] \in SeqNum
    OBVIOUS
  <2>1. PICK a \in 0 .. count - 1 : here[a] /\ out[i] = val[a]
    BY DEF GivenIs
  <2>2. \A k \in 0 .. held - 1 : here[k] => val[k] \in SeqNum
    BY CountedIs
  <2> QED
    BY <1>0, <2>1, <2>2
<1>3. out \in Seq(SeqNum)
  BY <1>1, <1>2, SeqDef
<1>4. ASSUME NEW i \in 2 .. Len(out)
      PROVE  getSeqDistance(out[i], out[i - 1]) > 0
  <2>1. PICK a, b \in 0 .. count - 1 :
          a < b /\ here[a] /\ here[b] /\ out[i - 1] = val[a] /\ out[i] = val[b]
    BY DEF GivenIs
  <2>2. \A k, l \in 0 .. held - 1 :
          k < l /\ here[k] /\ here[l] => getSeqDistance(val[l], val[k]) > 0
    BY CountedIs
  <2>3. getSeqDistance(val[b], val[a]) > 0
    BY <1>0, <2>1, <2>2
  <2> QED
    BY <2>1, <2>3
<1>5. ASSUME Len(out) > 0
      PROVE  getSeqDistance(out[1], given) > 0
  <2>1. PICK a \in 0 .. count - 1 :
          here[a] /\ out[1] = val[a] /\ \A b \in 0 .. count - 1 : here[b] => a <= b
    BY <1>5 DEF GivenIs
  <2>2. \A k \in 0 .. held - 1 :
          here[k] /\ (\A b \in 0 .. held - 1 : here[b] => k <= b)
            => getSeqDistance(val[k], given) > 0
    BY CountedIs
  <2>3. \A b \in 0 .. held - 1 : here[b] => a <= b
    <3> SUFFICES ASSUME NEW b \in 0 .. held - 1, here[b] PROVE a <= b
      OBVIOUS
    <3>1. b \in 0 .. count - 1 \/ b >= count
      OBVIOUS
    <3> QED
      BY <2>1, <3>1
  <2> QED
    BY <1>0, <2>1, <2>2, <2>3
<1>6. OutSet(out) = Packets(here, val, count)
  <2>1. ASSUME NEW x \in OutSet(out) PROVE x \in Packets(here, val, count)
    <3>1. PICK i \in 1 .. Len(out) : x = out[i]
      BY <1>1, <2>1 DEF OutSet
    <3>2. PICK a \in 0 .. count - 1 : here[a] /\ out[i] = val[a]
      BY DEF GivenIs
    <3> QED
      BY <3>1, <3>2 DEF Packets
  <2>2. ASSUME NEW x \in Packets(here, val, count) PROVE x \in OutSet(out)
    <3>1. PICK a \in 0 .. count - 1 : here[a] /\ x = val[a]
      BY <2>2 DEF Packets
    <3>2. PICK i \in 1 .. Len(out) : out[i] = val[a]
      BY <3>1 DEF GivenIs
    <3> QED
      BY <1>1, <3>1, <3>2 DEF OutSet
  <2> QED
    BY <2>1, <2>2
<1> QED
  BY <1>3, <1>4, <1>5, <1>6 DEF Rising

(* The window that is left is numbered again.                              *)
Shifted(h, v, here, val, count, n) ==
  \A i \in 0 .. n - 1 : (h[i] <=> here[count + i]) /\ v[i] = val[count + i]

LEMMA RestIs ==
  ASSUME NEW held \in Nat, held <= 2 * reorderSize, NEW here, NEW val,
         NEW last \in SeqNum, NEW given, Counted(here, val, held, last, given),
         NEW count \in 0 .. held,
         NEW out, GivenIs(out, here, val, count),
         NEW h, NEW v,
         Shifted(h, v, here, val, count, held - count)
  PROVE  /\ Counted(h, v, held - count, last, LastOf(given, out))
         /\ Packets(here, val, held)
              = Packets(h, v, held - count) \cup Packets(here, val, count)
<1>1. PICK rest : rest = held - count /\ rest \in Nat /\ rest <= held /\ count = held - rest
  OBVIOUS
<1>2. ASSUME NEW i \in 0 .. rest - 1
      PROVE  /\ (h[i] <=> here[count + i]) /\ v[i] = val[count + i]
             /\ count + i \in 0 .. held - 1 /\ count + i \in Nat
  BY <1>1, <1>2 DEF Shifted
<1>3. out \in Seq(Datum) /\ Len(out) \in Nat /\ (out = <<>> <=> Len(out) = 0)
  BY LenProperties, EmptySeq DEF GivenIs
<1>4. PICK g2 : g2 = LastOf(given, out)
  OBVIOUS
<1>5. Packets(here, val, held) = Packets(h, v, rest) \cup Packets(here, val, count)
  <2>1. \A j \in 0 .. held - 1 :
          \/ j \in 0 .. count - 1
          \/ \E i \in 0 .. rest - 1 : j = count + i
    <3> SUFFICES ASSUME NEW j \in 0 .. held - 1, j \notin 0 .. count - 1
                 PROVE  \E i \in 0 .. rest - 1 : j = count + i
      OBVIOUS
    <3>1. j - count \in 0 .. rest - 1 /\ j = count + (j - count)
      BY <1>1
    <3> QED
      BY <3>1
  <2>2. \A j \in 0 .. count - 1 : j \in 0 .. held - 1
    OBVIOUS
  <2>3. ASSUME NEW x \in Packets(here, val, held)
        PROVE  x \in Packets(h, v, rest) \cup Packets(here, val, count)
    <3>1. PICK j \in 0 .. held - 1 : here[j] /\ x = val[j]
      BY <2>3 DEF Packets
    <3> QED
      BY <2>1, <3>1, <1>2 DEF Packets
  <2>4. ASSUME NEW x \in Packets(h, v, rest)
        PROVE  x \in Packets(here, val, held)
    <3>1. PICK i \in 0 .. rest - 1 : h[i] /\ x = v[i]
      BY <2>4 DEF Packets
    <3> QED
      BY <3>1, <1>2 DEF Packets
  <2>5. ASSUME NEW x \in Packets(here, val, count)
        PROVE  x \in Packets(here, val, held)
    BY <2>2 DEF Packets
  <2> QED
    BY <2>3, <2>4, <2>5
<1>6. \A i \in 0 .. rest - 1 : h[i] => v[i] = Before(last, rest - 1 - i)
  <2> SUFFICES ASSUME NEW i \in 0 .. rest - 1, h[i]
               PROVE  v[i] = Before(last, rest - 1 - i)
    OBVIOUS
  <2>1. v[i] = val[count + i] /\ here[count + i] /\ count + i \in 0 .. held - 1
    BY <1>2
  <2>2. val[count + i] = Before(last, held - 1 - (count + i))
    BY <2>1 DEF Counted
  <2>3. held - 1 - (count + i) = rest - 1 - i
    BY <1>1
  <2> QED
    BY <2>1, <2>2, <2>3
<1>7. rest > 0 => h[rest - 1]
  <2> SUFFICES ASSUME rest > 0 PROVE h[rest - 1]
    OBVIOUS
  <2>1. rest - 1 \in 0 .. rest - 1 /\ count + (rest - 1) = held - 1 /\ held > 0
    BY <1>1
  <2>2. here[held - 1]
    BY <2>1 DEF Counted
  <2> QED
    BY <1>2, <2>1, <2>2
<1>8. CASE Len(out) = 0
  <2>1. g2 = given /\ \A a \in 0 .. count - 1 : ~here[a]
    <3>1. \A i : i \notin 1 .. Len(out)
      BY <1>8
    <3> QED
      BY <1>3, <1>4, <1>8, <3>1 DEF GivenIs, LastOf
  <2>2. rest = 0 => g2 = last
    <3> SUFFICES ASSUME rest = 0, held > 0 PROVE FALSE
      BY <1>1, <2>1 DEF Counted
    <3>1. held - 1 \in 0 .. count - 1
      BY <1>1
    <3> QED
      BY <2>1, <3>1 DEF Counted
  <2>3. ASSUME rest > 0
        PROVE  \E g \in 0 .. 2 * reorderSize :
                 /\ g2 = Before(last, g + rest)
                 /\ \E j \in 0 .. rest - 1 : h[j] /\ g + 1 + j <= 2 * reorderSize
    <3>1. PICK g \in 0 .. 2 * reorderSize :
            /\ given = Before(last, g + held)
            /\ \E j \in 0 .. held - 1 : here[j] /\ g + 1 + j <= 2 * reorderSize
      BY <1>1, <2>3 DEF Counted
    <3>2. PICK j \in 0 .. held - 1 : here[j] /\ g + 1 + j <= 2 * reorderSize
      BY <3>1
    <3>3. j >= count
      BY <2>1, <3>2
    <3>4. /\ g + count \in 0 .. 2 * reorderSize
          /\ (g + count) + rest = g + held
          /\ j - count \in 0 .. rest - 1 /\ count + (j - count) = j
          /\ (g + count) + 1 + (j - count) <= 2 * reorderSize
      BY <1>1, <3>2, <3>3, HalfIs
    <3>5. h[j - count]
      BY <1>2, <3>2, <3>4
    <3> QED
      BY <2>1, <3>1, <3>4, <3>5
  <2>4. g2 \in SeqNum
    BY <2>1 DEF Counted
  <2> QED
    BY <1>1, <1>4, <1>5, <1>6, <1>7, <2>2, <2>3, <2>4 DEF Counted
<1>9. CASE Len(out) > 0
  <2>1. PICK a \in 0 .. count - 1 :
          here[a] /\ out[Len(out)] = val[a] /\ \A b \in 0 .. count - 1 : here[b] => b <= a
    BY <1>9 DEF GivenIs
  <2>2. a \in 0 .. held - 1 /\ g2 = val[a]
    BY <1>3, <1>4, <1>9, <2>1 DEF LastOf
  <2>3. g2 = Before(last, held - 1 - a)
    BY <2>1, <2>2 DEF Counted
  <2>4. g2 \in SeqNum
    BY <2>1, <2>2, CountedIs
  <2>5. rest = 0 => g2 = last
    <3> SUFFICES ASSUME rest = 0 PROVE g2 = last
      OBVIOUS
    <3>1. held - 1 \in 0 .. count - 1 /\ held > 0
      BY <1>1, <2>2
    <3>2. held - 1 <= a
      BY <2>1, <3>1 DEF Counted
    <3>3. held - 1 - a = 0
      BY <2>2, <3>2
    <3> QED
      BY <2>3, <3>3, BeforeNone
  <2>6. ASSUME rest > 0
        PROVE  \E g \in 0 .. 2 * reorderSize :
                 /\ g2 = Before(last, g + rest)
                 /\ \E j \in 0 .. rest - 1 : h[j] /\ g + 1 + j <= 2 * reorderSize
    <3>1. PICK g : g = count - 1 - a
      OBVIOUS
    <3>2. /\ g \in 0 .. 2 * reorderSize /\ g + rest = held - 1 - a
          /\ rest - 1 \in 0 .. rest - 1
          /\ g + 1 + (rest - 1) <= 2 * reorderSize
      BY <1>1, <2>1, <2>6, <3>1, HalfIs
    <3>3. h[rest - 1]
      BY <1>7, <2>6
    <3> QED
      BY <2>3, <3>2, <3>3
  <2> QED
    BY <1>1, <1>4, <1>5, <1>6, <1>7, <2>4, <2>5, <2>6 DEF Counted
<1> QED
  BY <1>3, <1>8, <1>9

(* The packets that wait on a ring.                                        *)
Waiting(flags, data, head, tail) ==
  LET held == forwardDistance(head, tail)
  IN  Packets(Places(flags, tail, held), Places(data, tail, held), held)

(* takeRtps on a numbered window.                                          *)
LEMMA OrderAfter ==
  ASSUME NEW flags \in [Pos -> BOOLEAN], NEW data \in [Pos -> Datum],
         NEW head \in Pos, NEW tail \in Pos,
         Broken(flags, data, head, tail) = {},
         NEW forceRange \in Int,
         NEW took, took = takeRtps(flags, data, head, tail, forceRange),
         NEW last \in SeqNum, NEW given,
         Numbered(flags, data, head, tail, last, given),
         forwardDistance(head, tail) <= 2 * reorderSize
  PROVE  /\ took.out \in Seq(SeqNum)
         /\ Rising(given, took.out)
         /\ Numbered(flags, took.data, head, took.tail, last, LastOf(given, took.out))
         /\ Waiting(flags, data, head, tail)
              = Waiting(flags, took.data, head, took.tail) \cup OutSet(took.out)
         /\ forwardDistance(head, tail) <= forceRange => took.tail = head
<1>1. PICK held : held = forwardDistance(head, tail)
  OBVIOUS
<1>2. PICK here : here = Places(flags, tail, held)
  OBVIOUS
<1>3. PICK val : val = Places(data, tail, held)
  OBVIOUS
<1>4. PICK count \in 0 .. held :
           /\ count = held \/ (count >= forceRange /\ ~here[count])
           /\ GivenIs(took.out, here, val, count)
           /\ took.tail = forward(tail, count)
           /\ \A i \in count .. held - 1 :
                took.data[forward(tail, i)] = data[forward(tail, i)]
  <2>1. \E count \in 0 .. held : TakenTo(count, took, held, here, val, data, tail, forceRange)
    BY <1>1, <1>2, <1>3, TakeOut
  <2> QED
    BY <2>1 DEF TakenTo
<1>5. Counted(here, val, held, last, given)
  BY <1>1, <1>2, <1>3 DEF Numbered
<1>6. held \in Nat /\ held <= 2 * reorderSize /\ held < arraySize
  <2>1. Span(head, tail, held)
    BY <1>1, PlacesAre
  <2> QED
    BY <1>1, <2>1 DEF Span
<1>7. PICK rest : rest = held - count /\ rest \in Nat
  BY <1>4, <1>6
<1>8. /\ forwardDistance(head, took.tail) = rest
      /\ \A i \in 0 .. rest : forward(took.tail, i) = forward(tail, count + i)
  <2>1. forwardDistance(head, forward(tail, count)) = held - count
    BY <1>1, <1>4, WindowIs
  <2>2. \A i \in 0 .. held - count :
          forward(forward(tail, count), i) = forward(tail, count + i)
    BY <1>1, <1>4, WindowIs
  <2> QED
    BY <1>4, <1>7, <2>1, <2>2
<1>9. PICK h : h = Places(flags, took.tail, rest)
  OBVIOUS
<1>10. PICK v : v = Places(took.data, took.tail, rest)
  OBVIOUS
<1>11. Shifted(h, v, here, val, count, held - count)
  <2> SUFFICES ASSUME NEW i \in 0 .. rest - 1
               PROVE  (h[i] <=> here[count + i]) /\ v[i] = val[count + i]
    BY <1>7 DEF Shifted
  <2>1. /\ i \in 0 .. rest /\ count + i \in 0 .. held - 1
        /\ count + i \in count .. held - 1
    BY <1>4, <1>6, <1>7
  <2>2. h[i] = flags[forward(tail, count + i)] /\ v[i] = data[forward(tail, count + i)]
    BY <1>4, <1>8, <1>9, <1>10, <2>1 DEF Places
  <2>3. /\ here[count + i] = flags[forward(tail, count + i)]
        /\ val[count + i] = data[forward(tail, count + i)]
    BY <1>2, <1>3, <2>1 DEF Places
  <2> QED
    BY <2>2, <2>3
<1>12. PICK out : out = took.out /\ GivenIs(out, here, val, count)
  BY <1>4
<1>13. /\ out \in Seq(SeqNum)
       /\ Rising(given, out)
       /\ OutSet(out) = Packets(here, val, count)
  BY <1>4, <1>5, <1>6, <1>12, OutIs
<1>14. /\ Counted(h, v, held - count, last, LastOf(given, out))
       /\ Packets(here, val, held)
            = Packets(h, v, held - count) \cup Packets(here, val, count)
  BY <1>4, <1>5, <1>6, <1>11, <1>12, RestIs
<1>15. Numbered(flags, took.data, head, took.tail, last, LastOf(given, took.out))
  <2>1. Counted(h, v, rest, last, LastOf(given, took.out))
    BY <1>7, <1>12, <1>14
  <2> QED
    BY <1>8, <1>9, <1>10, <2>1, Zenon DEF Numbered
<1>16. Waiting(flags, data, head, tail)
         = Waiting(flags, took.data, head, took.tail) \cup OutSet(took.out)
  <2>1. Waiting(flags, data, head, tail) = Packets(here, val, held)
    BY <1>1, <1>2, <1>3 DEF Waiting
  <2>2. Waiting(flags, took.data, head, took.tail) = Packets(h, v, rest)
    BY <1>8, <1>9, <1>10, Zenon DEF Waiting
  <2> QED
    BY <2>1, <2>2, <1>7, <1>12, <1>13, <1>14
<1>17. forwardDistance(head, tail) <= forceRange => took.tail = head
  <2> SUFFICES ASSUME held <= forceRange PROVE took.tail = head
    BY <1>1
  <2>1. count = held
    BY <1>4, <1>6
  <2>2. forwardDistance(head, took.tail) = 0 /\ took.tail \in Pos
    <3>1. \A i \in 0 .. held : forward(tail, i) \in Pos
      <4>1. Span(head, tail, held)
        BY <1>1, PlacesAre
      <4> QED
        BY <4>1 DEF Span
    <3> QED
      BY <1>4, <1>6, <1>7, <1>8, <2>1, <3>1
  <2> QED
    BY <2>2, DistanceIs
<1> QED
  BY <1>12, <1>13, <1>15, <1>16, <1>17, Zenon

-----------------------------------------------------------------------------
(* What a step has to give for the two properties, and what it keeps.      *)
Ordered(out) ==
  /\ out \in Seq(SeqNum)
  /\ delivered >= 0 => Rising(delivered, out)
  /\ \A i \in 2 .. Len(out) : getSeqDistance(out[i], out[i - 1]) > 0

RisingStep ==
  LET given == (IF delivered < 0 THEN <<>> ELSE <<delivered>>) \o outQueue'
  IN  \A i \in 2 .. Len(given) : getSeqDistance(given[i], given[i - 1]) > 0

KeepingStep ==
  lastSeq' >= 0 =>
    Held \cup accepted' = Held' \cup {outQueue'[i] : i \in DOMAIN outQueue'}

LEMMA OrderedRises ==
  ASSUME Ordered(outQueue'), delivered \in SeqNum \cup {-1}
  PROVE  RisingStep
<1>1. PICK out : out = outQueue'
  OBVIOUS
<1>2. out \in Seq(SeqNum) /\ Len(out) \in Nat
  BY <1>1, LenProperties DEF Ordered
<1>3. CASE delivered = -1
  <2>1. (IF delivered < 0 THEN <<>> ELSE <<delivered>>) \o out = out
    BY <1>2, <1>3, ConcatEmptySeq
  <2> QED
    BY <1>1, <2>1, Zenon DEF RisingStep, Ordered
<1>4. CASE delivered \in SeqNum
  <2>1. delivered >= 0 /\ ~(delivered < 0)
    BY <1>4 DEF SeqNum
  <2>2. PICK given : given = <<delivered>> \o out
    OBVIOUS
  <2>3. /\ Len(given) = Len(out) + 1 /\ given[1] = delivered
        /\ \A i \in 2 .. Len(given) : given[i] = out[i - 1]
    <3>1. <<delivered>> \in Seq(SeqNum) /\ Len(<<delivered>>) = 1 /\ <<delivered>>[1] = delivered
      BY <1>4
    <3>2. Len(given) = Len(out) + 1
      BY <1>2, <2>2, <3>1, ConcatProperties
    <3>3. \A i \in 1 .. Len(given) : given[i] = IF i <= 1 THEN <<delivered>>[i] ELSE out[i - 1]
      BY <1>2, <2>2, <3>1, ConcatProperties
    <3> QED
      BY <1>2, <3>1, <3>2, <3>3
  <2>4. ASSUME NEW i \in 2 .. Len(given)
        PROVE  getSeqDistance(given[i], given[i - 1]) > 0
    <3>1. CASE i = 2
      <4>1. Len(out) > 0 /\ given[2] = out[1] /\ given[1] = delivered /\ i - 1 = 1
        BY <1>2, <2>3, <3>1
      <4>2. getSeqDistance(out[1], delivered) > 0
        BY <1>1, <2>1, <4>1 DEF Ordered, Rising
      <4> QED
        BY <3>1, <4>1, <4>2
    <3>2. CASE i # 2
      <4>1. PICK j : j = i - 1 /\ j \in 2 .. Len(given) /\ j \in 2 .. Len(out)
        BY <1>2, <2>3, <3>2
      <4>2. getSeqDistance(out[j], out[j - 1]) > 0
        BY <1>1, <4>1 DEF Ordered
      <4> QED
        BY <2>3, <4>1, <4>2
    <3> QED
      BY <3>1, <3>2
  <2> QED
    BY <1>1, <2>1, <2>2, <2>4 DEF RisingStep
<1> QED
  BY <1>3, <1>4

LEMMA WaitingIs ==
  ASSUME NEW flags, NEW data, NEW head, NEW tail
  PROVE  {data[p] : p \in {q \in {forward(tail, i) : i \in 0 .. forwardDistance(head, tail) - 1} : flags[q]}}
           = Waiting(flags, data, head, tail)
<1>1. PICK held : held = forwardDistance(head, tail)
  OBVIOUS
<1> DEFINE W == {data[p] : p \in {q \in {forward(tail, i) : i \in 0 .. held - 1} : flags[q]}}
<1>2. ASSUME NEW x \in W PROVE x \in Waiting(flags, data, head, tail)
  <2>1. PICK i \in 0 .. held - 1 : flags[forward(tail, i)] /\ x = data[forward(tail, i)]
    BY <1>2
  <2> QED
    BY <1>1, <2>1 DEF Waiting, Packets, Places
<1>3. ASSUME NEW x \in Waiting(flags, data, head, tail) PROVE x \in W
  <2>1. PICK i \in 0 .. held - 1 : flags[forward(tail, i)] /\ x = data[forward(tail, i)]
    BY <1>1, <1>3 DEF Waiting, Packets, Places
  <2> QED
    BY <2>1
<1> QED
  BY <1>1, <1>2, <1>3

(* The goal of every step that leaves the stream started.                  *)
StepGoal == OrderInv' /\ RisingStep /\ KeepingStep

LEMMA DeliveredIs ==
  ASSUME OrderInv
  PROVE  /\ delivered \in SeqNum \cup {-1}
         /\ lastSeq = -1 => delivered = -1
         /\ lastSeq # -1 => delivered \in SeqNum /\ delivered >= 0
BY DEF OrderInv, Numbered, Counted, SeqNum

LEMMA StepGoalIs ==
  ASSUME OrderInv, lastSeq' \in SeqNum,
         Numbered(seqArray', rtpDataArray', headPos', tailPos', lastSeq', delivered'),
         Ordered(outQueue'),
         Waiting(seqArray, rtpDataArray, headPos, tailPos) \cup accepted'
           = Waiting(seqArray', rtpDataArray', headPos', tailPos') \cup OutSet(outQueue')
  PROVE  StepGoal
<1>1. OrderInv'
  <2>1. lastSeq' # -1
    BY DEF SeqNum
  <2> QED
    BY <2>1, Zenon DEF OrderInv
<1>2. RisingStep
  BY DeliveredIs, OrderedRises
<1>3. KeepingStep
  <2>1. Held = Waiting(seqArray, rtpDataArray, headPos, tailPos)
    BY WaitingIs, Zenon DEF Held, Window
  <2>2. Held' = Waiting(seqArray', rtpDataArray', headPos', tailPos')
    BY WaitingIs, Zenon DEF Held, Window
  <2> QED
    BY <2>1, <2>2, Zenon DEF KeepingStep, OutSet
<1> QED
  BY <1>1, <1>2, <1>3 DEF StepGoal

(* Between a position and itself nothing waits.                            *)
LEMMA NumberedEmpty ==
  ASSUME NEW flags, NEW data, NEW p \in Pos
  PROVE  /\ \A x \in SeqNum : Numbered(flags, data, p, p, x, x)
         /\ \A x, y : Numbered(flags, data, p, p, x, y) => x = y
         /\ Waiting(flags, data, p, p) = {}
<1>1. forwardDistance(p, p) = 0
  BY DistanceIs
<1>2. \A i : i \notin 0 .. 0 - 1
  OBVIOUS
<1>3. \A x \in SeqNum : Numbered(flags, data, p, p, x, x)
  BY <1>1, <1>2 DEF Numbered, Counted
<1>4. \A x, y : Numbered(flags, data, p, p, x, y) => x = y
  BY <1>1 DEF Numbered, Counted
<1>5. Waiting(flags, data, p, p) = {}
  BY <1>1, <1>2 DEF Waiting, Packets
<1> QED
  BY <1>3, <1>4, <1>5

(* A numbered window has no flag without its packet.                       *)
LEMMA NumberedUnbroken ==
  ASSUME NEW flags, NEW data, NEW head \in Pos, NEW tail \in Pos,
         NEW last \in SeqNum, NEW given,
         Numbered(flags, data, head, tail, last, given),
         forwardDistance(head, tail) <= 2 * reorderSize
  PROVE  Broken(flags, data, head, tail) = {}
<1>1. PICK held : held = forwardDistance(head, tail)
  OBVIOUS
<1>2. held \in Nat
  BY <1>1, DistanceIs, SizeIs
<1>3. PICK here : here = Places(flags, tail, held)
  OBVIOUS
<1>4. PICK val : val = Places(data, tail, held)
  OBVIOUS
<1>5. Counted(here, val, held, last, given)
  BY <1>1, <1>3, <1>4 DEF Numbered
<1>6. \A i \in 0 .. held - 1 : here[i] => val[i] \in SeqNum
  BY <1>1, <1>2, <1>5, CountedIs
<1> SUFFICES ASSUME NEW i \in 0 .. held - 1,
                    flags[forward(tail, i)], data[forward(tail, i)] = NoData
             PROVE  FALSE
  BY <1>1 DEF Broken
<1>7. here[i] /\ val[i] = NoData
  BY <1>3, <1>4 DEF Places
<1> QED
  BY <1>6, <1>7 DEF SeqNum, NoData

(* One sequence of one packet, and with one packet more.                   *)
LEMMA OneMore ==
  ASSUME NEW out \in Seq(SeqNum), NEW given, NEW s \in SeqNum, Rising(given, out),
         getSeqDistance(s, LastOf(given, out)) > 0
  PROVE  /\ Append(out, s) \in Seq(SeqNum)
         /\ Rising(given, Append(out, s))
         /\ LastOf(given, Append(out, s)) = s
         /\ OutSet(Append(out, s)) = OutSet(out) \cup {s}
<1>1. PICK o : o = Append(out, s)
  OBVIOUS
<1>2. PICK m : m = Len(out)
  OBVIOUS
<1>3. /\ o \in Seq(SeqNum) /\ Len(o) = m + 1 /\ m \in Nat
      /\ DOMAIN o = 1 .. m + 1 /\ DOMAIN out = 1 .. m
      /\ \A i \in 1 .. m : o[i] = out[i]
      /\ o[m + 1] = s /\ (out = <<>> <=> m = 0) /\ o # <<>>
  BY <1>1, <1>2, AppendProperties, LenProperties, EmptySeq
<1>4. LastOf(given, o) = s
  BY <1>3 DEF LastOf
<1>5. ASSUME NEW i \in 2 .. m + 1
      PROVE  getSeqDistance(o[i], o[i - 1]) > 0
  <2>1. CASE i = m + 1
    <3>1. m # 0 /\ i - 1 = m /\ m \in 1 .. m
      BY <1>3, <2>1
    <3>2. LastOf(given, out) = out[m] /\ o[i - 1] = out[m] /\ o[i] = s
      BY <1>2, <1>3, <2>1, <3>1 DEF LastOf
    <3> QED
      BY <3>2
  <2>2. CASE i # m + 1
    <3>1. i \in 2 .. m /\ i \in 1 .. m /\ i - 1 \in 1 .. m
      BY <1>3, <2>2
    <3> QED
      BY <1>2, <1>3, <3>1 DEF Rising
  <2> QED
    BY <2>1, <2>2
<1>6. getSeqDistance(o[1], given) > 0
  <2>1. CASE m = 0
    BY <1>2, <1>3, <2>1 DEF LastOf
  <2>2. CASE m # 0
    <3>1. m > 0 /\ 1 \in 1 .. m
      BY <1>3, <2>2
    <3> QED
      BY <1>2, <1>3, <3>1 DEF Rising
  <2> QED
    BY <2>1, <2>2
<1>7. OutSet(o) = OutSet(out) \cup {s}
  <2>1. \A i \in 1 .. m + 1 : i \in 1 .. m \/ i = m + 1
    BY <1>3
  <2>2. \A i \in 1 .. m : i \in 1 .. m + 1
    BY <1>3
  <2>3. m + 1 \in 1 .. m + 1
    BY <1>3
  <2>4. OutSet(o) \subseteq OutSet(out) \cup {s}
    BY <1>3, <2>1 DEF OutSet
  <2>5. OutSet(out) \subseteq OutSet(o)
    BY <1>3, <2>2 DEF OutSet
  <2>6. s \in OutSet(o)
    BY <1>3, <2>3 DEF OutSet
  <2> QED
    BY <2>4, <2>5, <2>6
<1>8. Rising(given, o)
  BY <1>3, <1>5, <1>6 DEF Rising
<1> QED
  BY <1>1, <1>3, <1>4, <1>7, <1>8

LEMMA NothingMore ==
  ASSUME NEW given
  PROVE  /\ <<>> \in Seq(SeqNum) /\ Rising(given, <<>>)
         /\ LastOf(given, <<>>) = given /\ OutSet(<<>>) = {}
<1>1. <<>> \in Seq(SeqNum) /\ Len(<<>>) = 0 /\ DOMAIN <<>> = {}
  BY EmptySeq
<1>2. LastOf(given, <<>>) = given /\ OutSet(<<>>) = {}
  BY <1>1 DEF LastOf, OutSet
<1>3. Rising(given, <<>>)
  BY <1>1 DEF Rising
<1> QED
  BY <1>1, <1>2, <1>3
-----------------------------------------------------------------------------
(* A window into which a packet comes: at its end, or in its place.        *)

LEMMA CountedMore ==
  ASSUME NEW held \in Nat, held <= reorderSize, NEW here, NEW val,
         NEW last \in SeqNum, NEW given, Counted(here, val, held, last, given),
         NEW d \in 1 .. reorderSize, NEW s \in SeqNum, last = Before(s, d),
         NEW h, NEW v,
         \A i \in 0 .. held - 1 : (h[i] <=> here[i]) /\ v[i] = val[i],
         \A i \in held .. held + d - 2 : ~h[i],
         h[held + d - 1], v[held + d - 1] = s
  PROVE  /\ Counted(h, v, held + d, s, given)
         /\ Packets(h, v, held + d) = Packets(here, val, held) \cup {s}
<1>1. PICK more : more = held + d /\ more \in Nat /\ more > 0 /\ more - 1 \in 0 .. more - 1
  OBVIOUS
<1>2. \A i \in 0 .. more - 1 :
        i \in 0 .. held - 1 \/ i \in held .. held + d - 2 \/ i = more - 1
  BY <1>1
<1>3. ASSUME NEW k \in Nat, k <= 3 * reorderSize
      PROVE  Before(last, k) = Before(s, k + d)
  <2>1. d \in Nat /\ d + k < SeqMod /\ d + k = k + d
    BY <1>3, HalfIs
  <2> QED
    BY <1>3, <2>1, BeforeTwice
<1>4. ASSUME NEW i \in 0 .. more - 1, h[i]
      PROVE  v[i] = Before(s, more - 1 - i)
  <2>1. CASE i = more - 1
    BY <1>1, <2>1, BeforeNone
  <2>2. CASE i \in 0 .. held - 1
    <3>1. v[i] = Before(last, held - 1 - i)
      BY <1>4, <2>2 DEF Counted
    <3>2. PICK k : k = held - 1 - i
      OBVIOUS
    <3>3. k \in Nat /\ k <= 3 * reorderSize /\ k + d = more - 1 - i
      BY <1>1, <2>2, <3>2, HalfIs
    <3>4. Before(last, k) = Before(s, k + d)
      BY <1>3, <3>3
    <3> QED
      BY <3>1, <3>2, <3>3, <3>4
  <2> QED
    BY <1>1, <1>2, <1>4, <2>1, <2>2
<1>5. \E g \in 0 .. 2 * reorderSize :
        /\ given = Before(s, g + more)
        /\ \E j \in 0 .. more - 1 : h[j] /\ g + 1 + j <= 2 * reorderSize
  <2>1. CASE held = 0
    <3>1. given = Before(s, 0 + more)
      BY <1>1, <2>1 DEF Counted
    <3>2. 0 \in 0 .. 2 * reorderSize /\ 0 + 1 + (more - 1) <= 2 * reorderSize
      BY <1>1, <2>1, HalfIs
    <3> QED
      BY <1>1, <3>1, <3>2
  <2>2. CASE held > 0
    <3>1. PICK g \in 0 .. 2 * reorderSize :
            /\ given = Before(last, g + held)
            /\ \E j \in 0 .. held - 1 : here[j] /\ g + 1 + j <= 2 * reorderSize
      BY <2>2 DEF Counted
    <3>2. PICK j \in 0 .. held - 1 : here[j] /\ g + 1 + j <= 2 * reorderSize
      BY <3>1
    <3>3. PICK k : k = g + held
      OBVIOUS
    <3>4. k \in Nat /\ k <= 3 * reorderSize /\ k + d = g + more /\ j \in 0 .. more - 1
      BY <1>1, <3>3, HalfIs
    <3>5. given = Before(s, g + more)
      BY <1>3, <3>1, <3>3, <3>4
    <3> QED
      BY <3>2, <3>4, <3>5
  <2> QED
    BY <2>1, <2>2
<1>6. Counted(h, v, more, s, given)
  <2>1. given \in SeqNum
    BY DEF Counted
  <2> QED
    BY <1>1, <1>4, <1>5, <2>1 DEF Counted
<1>7. Packets(h, v, more) = Packets(here, val, held) \cup {s}
  <2>1. ASSUME NEW x \in Packets(h, v, more)
        PROVE  x \in Packets(here, val, held) \cup {s}
    <3>1. PICK i \in 0 .. more - 1 : h[i] /\ x = v[i]
      BY <2>1 DEF Packets
    <3>2. CASE i \in 0 .. held - 1
      BY <3>1, <3>2 DEF Packets
    <3> QED
      BY <1>1, <1>2, <3>1, <3>2
  <2>2. ASSUME NEW x \in Packets(here, val, held)
        PROVE  x \in Packets(h, v, more)
    <3>1. PICK i \in 0 .. held - 1 : here[i] /\ x = val[i]
      BY <2>2 DEF Packets
    <3>2. i \in 0 .. more - 1
      BY <1>1
    <3> QED
      BY <3>1, <3>2 DEF Packets
  <2>3. s \in Packets(h, v, more)
    BY <1>1 DEF Packets
  <2> QED
    BY <2>1, <2>2, <2>3
<1> QED
  BY <1>1, <1>6, <1>7

LEMMA CountedFilled ==
  ASSUME NEW held \in Nat, NEW here, NEW val,
         NEW last \in SeqNum, NEW given, Counted(here, val, held, last, given),
         NEW m \in 0 .. held - 1, NEW s, s = Before(last, held - 1 - m), ~here[m],
         NEW h, NEW v, h[m], v[m] = s,
         \A i \in 0 .. held - 1 : i # m => (h[i] <=> here[i]) /\ v[i] = val[i]
  PROVE  /\ Counted(h, v, held, last, given)
         /\ Packets(h, v, held) = Packets(here, val, held) \cup {s}
<1>1. \A i \in 0 .. held - 1 : here[i] => h[i] /\ v[i] = val[i]
  OBVIOUS
<1>2. \A i \in 0 .. held - 1 : h[i] => i = m \/ (here[i] /\ v[i] = val[i])
  OBVIOUS
<1>3. \A i \in 0 .. held - 1 : h[i] => v[i] = Before(last, held - 1 - i)
  BY <1>2 DEF Counted
<1>4. held > 0 => h[held - 1]
  <2> SUFFICES ASSUME held > 0 PROVE h[held - 1]
    OBVIOUS
  <2>1. held - 1 \in 0 .. held - 1
    OBVIOUS
  <2> QED
    BY <1>1, <2>1 DEF Counted
<1>5. held > 0 => \E g \in 0 .. 2 * reorderSize :
        /\ given = Before(last, g + held)
        /\ \E j \in 0 .. held - 1 : h[j] /\ g + 1 + j <= 2 * reorderSize
  BY <1>1, Zenon DEF Counted
<1>6. Counted(h, v, held, last, given)
  <2>1. given \in SeqNum /\ (held = 0 => given = last)
    BY DEF Counted
  <2> QED
    BY <1>3, <1>4, <1>5, <2>1, Zenon DEF Counted
<1>7. Packets(h, v, held) = Packets(here, val, held) \cup {s}
  <2>1. ASSUME NEW x \in Packets(h, v, held)
        PROVE  x \in Packets(here, val, held) \cup {s}
    <3>1. PICK i \in 0 .. held - 1 : h[i] /\ x = v[i]
      BY <2>1 DEF Packets
    <3>2. CASE here[i] /\ v[i] = val[i]
      BY <3>1, <3>2 DEF Packets
    <3> QED
      BY <1>2, <3>1, <3>2
  <2>2. ASSUME NEW x \in Packets(here, val, held)
        PROVE  x \in Packets(h, v, held)
    <3>1. PICK i \in 0 .. held - 1 : here[i] /\ x = val[i]
      BY <2>2 DEF Packets
    <3> QED
      BY <1>1, <3>1 DEF Packets
  <2>3. s \in Packets(h, v, held)
    BY DEF Packets
  <2> QED
    BY <2>1, <2>2, <2>3
<1> QED
  BY <1>6, <1>7
-----------------------------------------------------------------------------
(* The steps.                                                              *)

LEMMA DirectOrder ==
  ASSUME IInv, OrderInv, NEW s \in SeqNum, Direct(s) PROVE StepGoal
<1>1. tailPos = headPos /\ headPos \in Pos /\ headPos' = tailPos' /\ headPos' \in Pos
  <2>1. lastSeq < 0 => lastSeq = -1
    BY DEF IInv, TypeOK, SeqNum
  <2>2. tailPos = headPos /\ headPos \in Pos
    BY <2>1 DEF IInv, TypeOK, Direct
  <2> QED
    BY <2>2, SizeIs, ForwardIs DEF Direct
<1>2. lastSeq' = s /\ accepted' = {s} /\ outQueue' = <<s>>
  BY DEF Direct, Give
<1>3. delivered' = s
  <2>1. <<s>> # <<>> /\ Len(<<s>>) = 1 /\ <<s>>[1] = s
    OBVIOUS
  <2> QED
    BY <2>1 DEF Direct, Give
<1>4. Numbered(seqArray', rtpDataArray', headPos', tailPos', lastSeq', delivered')
  BY <1>1, <1>2, <1>3, NumberedEmpty
<1>5. Ordered(outQueue')
  <2>1. delivered >= 0 => getSeqDistance(s, delivered) > 0
    <3> SUFFICES ASSUME delivered >= 0 PROVE getSeqDistance(s, delivered) > 0
      OBVIOUS
    <3>1. lastSeq # -1 /\ lastSeq \in SeqNum
      BY DeliveredIs DEF IInv, TypeOK
    <3>2. delivered = lastSeq
      BY <1>1, <3>1, NumberedEmpty DEF OrderInv
    <3>3. Diff(s) = 1
      BY <3>1 DEF Direct, SeqNum
    <3> QED
      BY <3>2, <3>3 DEF Diff
  <2>2. <<s>> \in Seq(SeqNum) /\ Len(<<s>>) = 1 /\ <<s>>[1] = s
    OBVIOUS
  <2> QED
    BY <1>2, <2>1, <2>2 DEF Ordered, Rising
<1>6. /\ Waiting(seqArray, rtpDataArray, headPos, tailPos) = {}
      /\ Waiting(seqArray', rtpDataArray', headPos', tailPos') = {}
  BY <1>1, NumberedEmpty
<1>7. OutSet(<<s>>) = {s}
  <2>1. DOMAIN <<s>> = {1} /\ <<s>>[1] = s
    OBVIOUS
  <2> QED
    BY <2>1 DEF OutSet
<1> QED
  BY <1>2, <1>4, <1>5, <1>6, <1>7, StepGoalIs

(* takeRtps ends the step.                                                 *)
LEMMA TakeOrder ==
  ASSUME OrderInv, lastSeq \in SeqNum,
         NEW flags \in [Pos -> BOOLEAN], NEW data \in [Pos -> Datum],
         NEW head \in Pos, NEW tail \in Pos, NEW s \in SeqNum,
         forwardDistance(head, tail) <= 2 * reorderSize,
         NEW forceRange \in Int,
         NEW took, took = takeRtps(flags, data, head, tail, forceRange),
         lastSeq' \in SeqNum,
         Numbered(flags, data, head, tail, lastSeq', delivered),
         Waiting(flags, data, head, tail)
           = Waiting(seqArray, rtpDataArray, headPos, tailPos) \cup {s},
         seqArray' = flags, rtpDataArray' = took.data,
         headPos' = head, tailPos' = took.tail, Give({s}, took.out)
  PROVE  StepGoal
<1>1. Broken(flags, data, head, tail) = {}
  BY NumberedUnbroken
<1>2. /\ took.out \in Seq(SeqNum)
      /\ Rising(delivered, took.out)
      /\ Numbered(flags, took.data, head, took.tail, lastSeq', LastOf(delivered, took.out))
      /\ Waiting(flags, data, head, tail)
           = Waiting(flags, took.data, head, took.tail) \cup OutSet(took.out)
  <2>1. PICK last \in SeqNum : last = lastSeq'
    OBVIOUS
  <2>2. Numbered(flags, data, head, tail, last, delivered)
    BY <2>1
  <2>3. /\ took.out \in Seq(SeqNum)
        /\ Rising(delivered, took.out)
        /\ Numbered(flags, took.data, head, took.tail, last, LastOf(delivered, took.out))
        /\ Waiting(flags, data, head, tail)
             = Waiting(flags, took.data, head, took.tail) \cup OutSet(took.out)
    BY <1>1, <2>2, OrderAfter
  <2> QED
    BY <2>1, <2>3
<1>3. /\ outQueue' = took.out /\ accepted' = {s}
      /\ delivered' = LastOf(delivered, took.out)
  BY DEF Give, LastOf
<1>4. Ordered(outQueue')
  BY <1>2, <1>3 DEF Ordered, Rising
<1>5. Numbered(seqArray', rtpDataArray', headPos', tailPos', lastSeq', delivered')
  BY <1>2, <1>3, Zenon
<1>6. Waiting(seqArray, rtpDataArray, headPos, tailPos) \cup accepted'
        = Waiting(seqArray', rtpDataArray', headPos', tailPos') \cup OutSet(outQueue')
  BY <1>2, <1>3, Zenon
<1> QED
  BY <1>4, <1>5, <1>6, StepGoalIs

LEMMA IdleOrder ==
  ASSUME IInv, OrderInv, NEW s \in SeqNum, Duplicated(s) \/ Old(s) PROVE StepGoal
<1>1. /\ lastSeq \in SeqNum /\ lastSeq # -1
      /\ seqArray' = seqArray /\ rtpDataArray' = rtpDataArray
      /\ headPos' = headPos /\ tailPos' = tailPos /\ lastSeq' = lastSeq
      /\ accepted' = {} /\ outQueue' = <<>> /\ delivered' = delivered
  BY DEF Duplicated, Old, Started, Give, ringVars, IInv, TypeOK, SeqNum
<1>2. Numbered(seqArray, rtpDataArray, headPos, tailPos, lastSeq, delivered)
  BY <1>1 DEF OrderInv
<1>3. Ordered(outQueue')
  <2>1. Len(<<>>) = 0
    BY EmptySeq
  <2> QED
    BY <1>1, <2>1, NothingMore DEF Ordered
<1>4. OutSet(outQueue') = {}
  BY <1>1, NothingMore
<1>5. Numbered(seqArray', rtpDataArray', headPos', tailPos', lastSeq', delivered')
  BY <1>1, <1>2, Zenon
<1>6. Waiting(seqArray, rtpDataArray, headPos, tailPos) \cup accepted'
        = Waiting(seqArray', rtpDataArray', headPos', tailPos') \cup OutSet(outQueue')
  BY <1>1, <1>4, Zenon
<1> QED
  BY <1>1, <1>3, <1>5, <1>6, StepGoalIs

LEMMA InvalidOrder ==
  ASSUME IInv, OrderInv, NEW s \in SeqNum, Invalid(s) PROVE StepGoal
<1>1. lastSeq' = -1 /\ delivered' = -1 /\ outQueue' = <<>>
  BY DEF Invalid
<1>2. OrderInv'
  BY <1>1 DEF OrderInv
<1>3. RisingStep
  <2>1. Len(<<>>) = 0
    BY EmptySeq
  <2>2. Ordered(outQueue')
    BY <1>1, <2>1, NothingMore DEF Ordered
  <2> QED
    BY <2>2, DeliveredIs, OrderedRises
<1>4. KeepingStep
  BY <1>1 DEF KeepingStep
<1> QED
  BY <1>2, <1>3, <1>4 DEF StepGoal

(* Gap hands over the whole window, then the packet.                       *)
LEMMA GapOrder ==
  ASSUME IInv, OrderInv, NEW s \in SeqNum, Gap(s) PROVE StepGoal
<1>1. PICK took \in {takeRtps(seqArray, rtpDataArray, headPos, tailPos, reorderSize)} :
        Give({s}, Append(took.out, s))
  BY DEF Gap
<1>2. /\ headPos' = 1 /\ tailPos' = 1 /\ lastSeq' = s /\ 1 \in Pos
      /\ lastSeq \in SeqNum /\ lastSeq # -1 /\ Diff(s) > reorderSize
  BY SizeIs DEF Gap, Started, IInv, TypeOK, SeqNum
<1>3. /\ seqArray \in [Pos -> BOOLEAN] /\ rtpDataArray \in [Pos -> Datum]
      /\ headPos \in Pos /\ tailPos \in Pos
      /\ Broken(seqArray, rtpDataArray, headPos, tailPos) = {}
      /\ forwardDistance(headPos, tailPos) <= reorderSize
  <2>1. tailPos = headPos => forwardDistance(headPos, tailPos) = 0
    BY DistanceIs DEF IInv, TypeOK
  <2> QED
    BY <2>1, SizeIs DEF IInv, TypeOK, HeldBriefly, Datum
<1>4. Numbered(seqArray, rtpDataArray, headPos, tailPos, lastSeq, delivered)
  BY <1>2 DEF OrderInv
<1>5. forwardDistance(headPos, tailPos) <= 2 * reorderSize /\ reorderSize \in Int
  <2>1. forwardDistance(headPos, tailPos) \in 0 .. arraySize - 1
    BY <1>3, DistanceIs
  <2> QED
    BY <1>3, <2>1, SizeIs
<1>6. /\ took.out \in Seq(SeqNum)
      /\ Rising(delivered, took.out)
      /\ Numbered(seqArray, took.data, headPos, took.tail, lastSeq, LastOf(delivered, took.out))
      /\ Waiting(seqArray, rtpDataArray, headPos, tailPos)
           = Waiting(seqArray, took.data, headPos, took.tail) \cup OutSet(took.out)
      /\ took.tail = headPos
  BY <1>2, <1>3, <1>4, <1>5, OrderAfter
<1>7. PICK given : given = LastOf(delivered, took.out)
  OBVIOUS
<1>8. /\ given = lastSeq
      /\ Waiting(seqArray, took.data, headPos, took.tail) = {}
  BY <1>3, <1>6, <1>7, NumberedEmpty
<1>9. getSeqDistance(s, given) > 0
  BY <1>2, <1>8, HalfIs, DistanceInt DEF Diff
<1>10. PICK out : out = Append(took.out, s)
  OBVIOUS
<1>11. /\ out \in Seq(SeqNum) /\ Rising(delivered, out)
       /\ LastOf(delivered, out) = s
       /\ OutSet(out) = OutSet(took.out) \cup {s}
  BY <1>6, <1>7, <1>9, <1>10, OneMore
<1>12. outQueue' = out /\ accepted' = {s} /\ delivered' = s
  BY <1>1, <1>10, <1>11 DEF Give, LastOf
<1>13. Numbered(seqArray', rtpDataArray', headPos', tailPos', lastSeq', delivered')
  BY <1>2, <1>12, NumberedEmpty
<1>14. Waiting(seqArray', rtpDataArray', headPos', tailPos') = {}
  BY <1>2, NumberedEmpty
<1>15. Ordered(outQueue')
  BY <1>11, <1>12 DEF Ordered, Rising
<1> QED
  BY <1>2, <1>6, <1>8, <1>11, <1>12, <1>13, <1>14, <1>15, StepGoalIs

(* What a started stream has when a packet comes.                          *)
LEMMA StartedIs ==
  ASSUME IInv, OrderInv, Started
  PROVE  /\ seqArray \in [Pos -> BOOLEAN] /\ rtpDataArray \in [Pos -> Datum]
         /\ headPos \in Pos /\ tailPos \in Pos
         /\ lastSeq \in SeqNum
         /\ forwardDistance(headPos, tailPos) \in Nat
         /\ forwardDistance(headPos, tailPos) <= reorderSize
         /\ Numbered(seqArray, rtpDataArray, headPos, tailPos, lastSeq, delivered)
<1>1. headPos \in Pos /\ tailPos \in Pos
  BY DEF IInv, TypeOK
<1>2. lastSeq \in SeqNum /\ lastSeq # -1
  BY DEF IInv, TypeOK, Started, SeqNum
<1>3. /\ forwardDistance(headPos, tailPos) \in Nat
      /\ tailPos = headPos => forwardDistance(headPos, tailPos) = 0
  BY <1>1, DistanceIs, SizeIs
<1>4. forwardDistance(headPos, tailPos) <= reorderSize
  BY <1>3, SizeIs DEF IInv, HeldBriefly
<1>5. Numbered(seqArray, rtpDataArray, headPos, tailPos, lastSeq, delivered)
  BY <1>2 DEF OrderInv
<1> QED
  BY <1>1, <1>2, <1>3, <1>4, <1>5 DEF IInv, TypeOK, Datum

(* Store makes the window longer, up to the new packet.                    *)
Stored(s, d, at, over, flags, data, head) ==
  /\ at = forward(headPos, d - 1)
  /\ over = {forward(headPos, i) : i \in 0 .. d - 2}
  /\ flags = [p \in Pos |-> p = at \/ (p \notin over /\ seqArray[p])]
  /\ data = [rtpDataArray EXCEPT ![at] = s]
  /\ head = forward(at, 1)

LEMMA StoreNumbered ==
  ASSUME NEW h, h = forwardDistance(headPos, tailPos), h \in Nat, h <= reorderSize,
         headPos \in Pos, tailPos \in Pos, lastSeq \in SeqNum,
         seqArray \in [Pos -> BOOLEAN], rtpDataArray \in [Pos -> Datum],
         Numbered(seqArray, rtpDataArray, headPos, tailPos, lastSeq, delivered),
         NEW s \in SeqNum, NEW d \in 1 .. reorderSize, lastSeq = Before(s, d),
         NEW at, NEW over, NEW flags, NEW data, NEW head,
         Stored(s, d, at, over, flags, data, head)
  PROVE  /\ flags \in [Pos -> BOOLEAN] /\ data \in [Pos -> Datum] /\ head \in Pos
         /\ forwardDistance(head, tailPos) = h + d
         /\ Numbered(flags, data, head, tailPos, s, delivered)
         /\ Waiting(flags, data, head, tailPos)
              = Waiting(seqArray, rtpDataArray, headPos, tailPos) \cup {s}
<1> USE DEF Stored
<1>1. /\ at \in Pos /\ head \in Pos
      /\ forwardDistance(head, tailPos) = h + d
      /\ \A i \in 0 .. h - 1 :
           /\ forward(tailPos, i) \in Pos
           /\ \A j \in 0 .. d - 1 : forward(tailPos, i) # forward(headPos, j)
      /\ \A i \in h .. h + d - 1 : forward(tailPos, i) = forward(headPos, i - h)
      /\ \A j \in 0 .. d - 2 : forward(headPos, j) # at
  BY StoreIs
<1>2. flags \in [Pos -> BOOLEAN] /\ data \in [Pos -> Datum]
  BY <1>1 DEF Datum
<1>3. d - 1 \in 0 .. d - 1 /\ \A j \in 0 .. d - 2 : j \in 0 .. d - 1
  OBVIOUS
<1>4. PICK more : more = h + d
  OBVIOUS
<1>5. PICK here : here = Places(seqArray, tailPos, h)
  OBVIOUS
<1>6. PICK val : val = Places(rtpDataArray, tailPos, h)
  OBVIOUS
<1>7. PICK f : f = Places(flags, tailPos, more)
  OBVIOUS
<1>8. PICK v : v = Places(data, tailPos, more)
  OBVIOUS
<1>9. \A i \in 0 .. h - 1 : (f[i] <=> here[i]) /\ v[i] = val[i]
  <2> SUFFICES ASSUME NEW i \in 0 .. h - 1
               PROVE  (f[i] <=> here[i]) /\ v[i] = val[i]
    OBVIOUS
  <2>1. PICK p \in Pos : p = forward(tailPos, i) /\ p # at /\ p \notin over
    BY <1>1, <1>3
  <2>2. (flags[p] <=> seqArray[p]) /\ data[p] = rtpDataArray[p]
    BY <1>1, <2>1
  <2>3. i \in 0 .. more - 1
    BY <1>4
  <2>4. f[i] = flags[p] /\ here[i] = seqArray[p] /\ v[i] = data[p] /\ val[i] = rtpDataArray[p]
    BY <1>5, <1>6, <1>7, <1>8, <2>1, <2>3 DEF Places
  <2> QED
    BY <2>2, <2>4
<1>10. \A i \in h .. h + d - 2 : ~f[i]
  <2> SUFFICES ASSUME NEW i \in h .. h + d - 2 PROVE ~f[i]
    OBVIOUS
  <2>1. i - h \in 0 .. d - 2 /\ i \in h .. h + d - 1 /\ i \in 0 .. more - 1
    BY <1>4
  <2>2. PICK p : p = forward(tailPos, i) /\ p = forward(headPos, i - h)
    BY <1>1, <2>1
  <2>3. p \in over /\ p # at
    BY <1>1, <2>1, <2>2
  <2>4. p \in Pos
    <3>1. i - h \in Int /\ 0 <= i - h /\ i - h <= arraySize
      BY <2>1, SizeIs
    <3> QED
      BY <3>1, <2>2, ForwardIs
  <2>5. f[i] = flags[p]
    BY <1>7, <2>1, <2>2 DEF Places
  <2> QED
    BY <2>3, <2>4, <2>5
<1>11. f[h + d - 1] /\ v[h + d - 1] = s
  <2>1. PICK i : i = h + d - 1 /\ i \in h .. h + d - 1 /\ i - h = d - 1 /\ i \in 0 .. more - 1
    BY <1>4
  <2>2. forward(tailPos, i) = at
    BY <1>1, <2>1
  <2>3. f[i] = flags[at] /\ v[i] = data[at]
    BY <1>7, <1>8, <2>1, <2>2 DEF Places
  <2>4. flags[at] /\ data[at] = s
    BY <1>1
  <2> QED
    BY <2>1, <2>3, <2>4
<1>12. Counted(here, val, h, lastSeq, delivered)
  BY <1>5, <1>6 DEF Numbered
<1>13. /\ Counted(f, v, h + d, s, delivered)
       /\ Packets(f, v, h + d) = Packets(here, val, h) \cup {s}
  <2> HIDE DEF Counted
  <2>1. PICK last \in SeqNum : last = lastSeq
    OBVIOUS
  <2>2. PICK given : given = delivered
    OBVIOUS
  <2>3. Counted(here, val, h, last, given) /\ last = Before(s, d)
    BY <1>12, <2>1, <2>2
  <2>4. /\ Counted(f, v, h + d, s, given)
        /\ Packets(f, v, h + d) = Packets(here, val, h) \cup {s}
    BY <1>9, <1>10, <1>11, <2>3, CountedMore
  <2> QED
    BY <2>2, <2>4
<1>14. Numbered(flags, data, head, tailPos, s, delivered)
  BY <1>1, <1>4, <1>7, <1>8, <1>13 DEF Numbered
<1>15. Waiting(flags, data, head, tailPos)
         = Waiting(seqArray, rtpDataArray, headPos, tailPos) \cup {s}
  BY <1>1, <1>4, <1>5, <1>6, <1>7, <1>8, <1>13 DEF Waiting
<1> QED
  BY <1>1, <1>2, <1>14, <1>15

LEMMA StoreOrder ==
  ASSUME IInv, OrderInv, NEW s \in SeqNum, Store(s) PROVE StepGoal
<1>0. Started
  BY DEF Store
<1>1. PICK h : h = forwardDistance(headPos, tailPos)
  OBVIOUS
<1>2. /\ seqArray \in [Pos -> BOOLEAN] /\ rtpDataArray \in [Pos -> Datum]
      /\ headPos \in Pos /\ tailPos \in Pos
      /\ lastSeq \in SeqNum /\ h \in Nat /\ h <= reorderSize
      /\ Numbered(seqArray, rtpDataArray, headPos, tailPos, lastSeq, delivered)
  BY <1>0, <1>1, StartedIs
<1>3. PICK d : d = Diff(s)
  OBVIOUS
<1>4. PICK at : at = forward(headPos, d - 1)
  OBVIOUS
<1>5. PICK over : over = {forward(headPos, i) : i \in 0 .. d - 2}
  OBVIOUS
<1>6. PICK flags : flags = [p \in Pos |-> p = at \/ (p \notin over /\ seqArray[p])]
  OBVIOUS
<1>7. PICK data : data = [rtpDataArray EXCEPT ![at] = s]
  OBVIOUS
<1>8. PICK head : head = forward(at, 1)
  OBVIOUS
<1>9. PICK forceRange : forceRange = forwardDistance(head, tailPos) - reorderSize
  OBVIOUS
<1>10. /\ d \in 1 .. reorderSize
       /\ seqArray' = flags /\ headPos' = head /\ lastSeq' = s
       /\ \/ \E took \in {takeRtps(flags, data, head, tailPos, forceRange)} :
               /\ rtpDataArray' = took.data /\ tailPos' = took.tail
               /\ Give({s}, took.out)
          \/ rtpDataArray' = data /\ tailPos' = tailPos /\ Give({s}, <<>>)
  BY <1>3, <1>4, <1>5, <1>6, <1>7, <1>8, <1>9 DEF Store
<1>11. lastSeq = Before(s, d)
  <2>1. getSeqDistance(s, lastSeq) > 0
    BY <1>3, <1>10 DEF Diff
  <2> QED
    BY <1>2, <1>3, <2>1, BeforeByDistance DEF Diff
<1>12. /\ flags \in [Pos -> BOOLEAN] /\ data \in [Pos -> Datum] /\ head \in Pos
       /\ forwardDistance(head, tailPos) = h + d
       /\ Numbered(flags, data, head, tailPos, s, delivered)
       /\ Waiting(flags, data, head, tailPos)
            = Waiting(seqArray, rtpDataArray, headPos, tailPos) \cup {s}
  <2>1. Stored(s, d, at, over, flags, data, head)
    BY <1>4, <1>5, <1>6, <1>7, <1>8 DEF Stored
  <2> QED
    BY <1>1, <1>2, <1>10, <1>11, <2>1, StoreNumbered
<1>13. forwardDistance(head, tailPos) <= 2 * reorderSize /\ forceRange \in Int
  BY <1>2, <1>9, <1>10, <1>12, SizeIs
<1>14. CASE \E took \in {takeRtps(flags, data, head, tailPos, forceRange)} :
               /\ rtpDataArray' = took.data /\ tailPos' = took.tail
               /\ Give({s}, took.out)
  <2>1. PICK took : /\ took = takeRtps(flags, data, head, tailPos, forceRange)
                    /\ rtpDataArray' = took.data /\ tailPos' = took.tail
                    /\ Give({s}, took.out)
    BY <1>14
  <2>2. lastSeq' \in SeqNum /\ Numbered(flags, data, head, tailPos, lastSeq', delivered)
    BY <1>10, <1>12
  <2> QED
    BY <1>2, <1>10, <1>12, <1>13, <2>1, <2>2, TakeOrder
<1>15. CASE rtpDataArray' = data /\ tailPos' = tailPos /\ Give({s}, <<>>)
  <2>1. outQueue' = <<>> /\ accepted' = {s} /\ delivered' = delivered
    BY <1>15 DEF Give
  <2>2. Ordered(outQueue') /\ OutSet(outQueue') = {}
    <3>1. Len(<<>>) = 0
      BY EmptySeq
    <3> QED
      BY <2>1, <3>1, NothingMore DEF Ordered
  <2>3. Numbered(seqArray', rtpDataArray', headPos', tailPos', lastSeq', delivered')
    BY <1>10, <1>12, <1>15, <2>1
  <2>4. Waiting(seqArray, rtpDataArray, headPos, tailPos) \cup accepted'
          = Waiting(seqArray', rtpDataArray', headPos', tailPos') \cup OutSet(outQueue')
    BY <1>10, <1>12, <1>15, <2>1, <2>2
  <2>5. lastSeq' \in SeqNum
    BY <1>10
  <2> QED
    BY <2>2, <2>3, <2>4, <2>5, StepGoalIs
<1> QED
  BY <1>10, <1>14, <1>15

(* Late fills its place.                                                   *)
LEMMA LateOrder ==
  ASSUME IInv, OrderInv, NEW s \in SeqNum, Late(s) PROVE StepGoal
<1>0. Started
  BY DEF Late
<1>1. PICK h : h = forwardDistance(headPos, tailPos)
  OBVIOUS
<1>2. /\ seqArray \in [Pos -> BOOLEAN] /\ rtpDataArray \in [Pos -> Datum]
      /\ headPos \in Pos /\ tailPos \in Pos
      /\ lastSeq \in SeqNum /\ h \in Nat /\ h <= reorderSize
      /\ Numbered(seqArray, rtpDataArray, headPos, tailPos, lastSeq, delivered)
  BY <1>0, <1>1, StartedIs
<1>3. PICK k : k = -Diff(s)
  OBVIOUS
<1>4. PICK at : at = getPos(Diff(s))
  OBVIOUS
<1>5. PICK flags : flags = [seqArray EXCEPT ![at] = TRUE]
  OBVIOUS
<1>6. PICK data : data = [rtpDataArray EXCEPT ![at] = s]
  OBVIOUS
<1>7. PICK took : /\ took = takeRtps(flags, data, headPos, tailPos, 0)
                  /\ rtpDataArray' = took.data /\ tailPos' = took.tail
                  /\ Give({s}, took.out)
  BY <1>4, <1>5, <1>6 DEF Late
<1>8. /\ ~seqArray[at] /\ seqArray' = flags /\ headPos' = headPos /\ lastSeq' = lastSeq
      /\ Diff(s) \in -reorderSize .. -1
  BY <1>4, <1>5 DEF Late
<1>9. k \in 1 .. reorderSize /\ k <= h - 1 /\ at = forward(tailPos, h - 1 - k)
  BY <1>1, <1>3, <1>4, LatePlace
<1>10. PICK m : m = h - 1 - k /\ m \in 0 .. h - 1 /\ h - 1 - m = k
  BY <1>2, <1>9, SizeIs
<1>11. s = Before(lastSeq, h - 1 - m)
  <2>1. getSeqDistance(s, lastSeq) < 0
    BY <1>8, SizeIs DEF Diff
  <2> QED
    BY <1>2, <1>3, <1>10, <2>1, BeforeByLateness DEF Diff
<1>12. /\ \A i \in 0 .. h : forward(tailPos, i) \in Pos
       /\ \A i, j \in 0 .. h : forward(tailPos, i) = forward(tailPos, j) => i = j
  <2>1. Span(headPos, tailPos, h)
    BY <1>1, <1>2, PlacesAre
  <2> QED
    BY <2>1 DEF Span
<1>13. at \in Pos /\ at = forward(tailPos, m)
  BY <1>2, <1>9, <1>10, <1>12
<1>14. flags \in [Pos -> BOOLEAN] /\ data \in [Pos -> Datum] /\ s \in Datum
  BY <1>2, <1>5, <1>6 DEF Datum
<1>15. PICK here : here = Places(seqArray, tailPos, h)
  OBVIOUS
<1>16. PICK val : val = Places(rtpDataArray, tailPos, h)
  OBVIOUS
<1>17. PICK f : f = Places(flags, tailPos, h)
  OBVIOUS
<1>18. PICK v : v = Places(data, tailPos, h)
  OBVIOUS
<1>19. f[m] /\ v[m] = s /\ ~here[m]
  <2>1. f[m] = flags[at] /\ v[m] = data[at] /\ here[m] = seqArray[at]
    BY <1>10, <1>13, <1>15, <1>17, <1>18 DEF Places
  <2>2. flags[at] /\ data[at] = s
    BY <1>2, <1>5, <1>6, <1>13
  <2> QED
    BY <1>8, <2>1, <2>2
<1>20. \A i \in 0 .. h - 1 : i # m => (f[i] <=> here[i]) /\ v[i] = val[i]
  <2> SUFFICES ASSUME NEW i \in 0 .. h - 1, i # m
               PROVE  (f[i] <=> here[i]) /\ v[i] = val[i]
    OBVIOUS
  <2>1. i \in 0 .. h /\ m \in 0 .. h
    BY <1>2, <1>10
  <2>2. PICK p \in Pos : p = forward(tailPos, i) /\ p # at
    BY <1>12, <1>13, <2>1
  <2>3. flags[p] = seqArray[p] /\ data[p] = rtpDataArray[p]
    BY <1>2, <1>5, <1>6, <2>2
  <2>4. f[i] = flags[p] /\ here[i] = seqArray[p] /\ v[i] = data[p] /\ val[i] = rtpDataArray[p]
    BY <1>15, <1>16, <1>17, <1>18, <2>2 DEF Places
  <2> QED
    BY <2>3, <2>4
<1>21. Counted(here, val, h, lastSeq, delivered)
  BY <1>1, <1>2, <1>15, <1>16 DEF Numbered
<1>22. /\ Counted(f, v, h, lastSeq, delivered)
       /\ Packets(f, v, h) = Packets(here, val, h) \cup {s}
  <2>1. PICK last \in SeqNum : last = lastSeq
    BY <1>2
  <2>2. PICK given : given = delivered
    OBVIOUS
  <2>3. Counted(here, val, h, last, given) /\ s = Before(last, h - 1 - m)
    BY <1>11, <1>21, <2>1, <2>2
  <2>4. /\ Counted(f, v, h, last, given)
        /\ Packets(f, v, h) = Packets(here, val, h) \cup {s}
    BY <1>2, <1>10, <1>19, <1>20, <2>3, CountedFilled
  <2> QED
    BY <2>1, <2>2, <2>4
<1>23. Numbered(flags, data, headPos, tailPos, lastSeq', delivered)
  BY <1>1, <1>8, <1>17, <1>18, <1>22 DEF Numbered
<1>24. Waiting(flags, data, headPos, tailPos)
         = Waiting(seqArray, rtpDataArray, headPos, tailPos) \cup {s}
  BY <1>1, <1>15, <1>16, <1>17, <1>18, <1>22 DEF Waiting
<1>25. forwardDistance(headPos, tailPos) <= 2 * reorderSize /\ 0 \in Int /\ lastSeq' \in SeqNum
  BY <1>1, <1>2, <1>8, SizeIs
<1> QED
  BY <1>2, <1>7, <1>8, <1>14, <1>23, <1>24, <1>25, TakeOrder

-----------------------------------------------------------------------------
LEMMA OrderStep ==
  ASSUME IInv, OrderInv, Next
  PROVE  StepGoal
<1>1. PICK s \in SeqNum : updateData(s)
  BY DEF Next
<1> QED
  BY <1>1, DirectOrder, StoreOrder, GapOrder, LateOrder, IdleOrder, InvalidOrder, Zenon
     DEF updateData

LEMMA OrderIdle ==
  ASSUME OrderInv, UNCHANGED vars
  PROVE  OrderInv'
BY DEF OrderInv, vars, ringVars

LEMMA OrderInit == Init => OrderInv
BY DEF Init, OrderInv

LEMMA OrderInvariance == Spec => []OrderInv
<1>1. IInv /\ OrderInv /\ [Next]_vars => OrderInv'
  BY OrderStep, OrderIdle, Zenon DEF StepGoal
<1> QED
  BY <1>1, Invariance, OrderInit, PTL DEF Spec

(* The numbers that updateData hands over only grow until a reset, over    *)
(* all its calls and across the wrap of the 16-bit number: reordering      *)
(* never lets one packet overtake another, and gives none twice.           *)
THEOREM HandedOverInOrder == Spec => InOrder
<1>1. IInv /\ OrderInv /\ [Next]_vars => [RisingStep]_vars
  BY OrderStep, Zenon DEF StepGoal
<1>2. InOrder <=> [][RisingStep]_vars
  BY PTL DEF InOrder, RisingStep
<1> QED
  BY <1>1, <1>2, Invariance, OrderInvariance, PTL DEF Spec

(* updateData neither drops nor invents a packet short of a reset: what    *)
(* waited in the ring and what the call took in is handed over by the call *)
(* or waits on.                                                            *)
THEOREM PacketsConserved == Spec => NothingLost
<1>1. IInv /\ OrderInv /\ [Next]_vars => [KeepingStep]_vars
  BY OrderStep, Zenon DEF StepGoal
<1>2. NothingLost <=> [][KeepingStep]_vars
  BY PTL DEF NothingLost, KeepingStep
<1> QED
  BY <1>1, <1>2, Invariance, OrderInvariance, PTL DEF Spec
=============================================================================
