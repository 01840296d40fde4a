------------------------------- MODULE RtpPipe -------------------------------
(***************************************************************************)
(* The reordering of one RTP stream (src/inc/rtpTrs/RtpPipe.hpp): a window *)
(* of the last sequence numbers, in a ring of 2 * reorderSize + 1 flags    *)
(* and packets between tailPos (the first one not handed over) and headPos *)
(* (the one after the newest).  The channels use a reorderSize of 32 and   *)
(* no reordering of leading packets, so that branch is left out.           *)
(*                                                                         *)
(* A packet is its sequence number.  One step is one call of updateData,   *)
(* which runs under the mutex of the pipe.                                 *)
(***************************************************************************)
EXTENDS Integers, Sequences, FiniteSetsExt

CONSTANTS
  SeqMod,      \* number of sequence numbers: 65536
  reorderSize, \* 32
  MAX_DIFF     \* 5000

ASSUME RtpPipeAssumption ==
  /\ SeqMod \in Nat /\ reorderSize \in Nat \ {0} /\ MAX_DIFF \in Nat
  /\ reorderSize < MAX_DIFF
  /\ 2 * (MAX_DIFF + reorderSize) < SeqMod

VARIABLES
  seqArray,     \* position -> is the packet of this number here or handed over
  rtpDataArray, \* position -> packet, NoData (an empty or moved-from vector)
                \* or Stale (a packet from before a reset, whichever it was)
  headPos, tailPos,
  lastSeq,      \* newest sequence number, -1 before the first packet
  outQueue,     \* the packets the last call handed over
  accepted,     \* history: the packets the last call took in: its own or none
  delivered,    \* history: the last packet handed over since resetPos, or -1
  process       \* "exit" after exit(0)

ringVars == <<seqArray, rtpDataArray, headPos, tailPos>>
vars == <<ringVars, lastSeq, outQueue, accepted, delivered, process>>

SeqNum    == 0 .. SeqMod - 1
NoData    == -1
Stale     == -2
arraySize == 2 * reorderSize + 1
Pos       == 0 .. arraySize - 1

getSeqDistance(a, b) ==
  LET diff == a - b
      half == (SeqMod - 1) \div 2
  IN  CASE diff > half  -> diff - SeqMod
        [] diff < -half -> diff + SeqMod
        [] OTHER        -> diff

forward(pos, distance) == (pos + distance) % arraySize

(* Mutation: the padding of a wrapped distance is one short.               *)
shortDistance(pos1, pos2) ==
  IF pos2 > pos1 THEN pos1 - pos2 + arraySize - 1 ELSE pos1 - pos2

forwardDistance(pos1, pos2) == (pos1 - pos2 + arraySize) % arraySize
getPos(diff) == forward(headPos + diff - 1, arraySize)

-----------------------------------------------------------------------------
(* The places where takeRtps may stop: at the head, or, once past the      *)
(* numbers it is forced over, at a number that is missing ...              *)
Stops(flags, head, tail, forceRange) ==
  LET held == forwardDistance(head, tail)
  IN  {i \in 0 .. held : \/ i = held
                         \/ i >= forceRange /\ ~flags[forward(tail, i)]}

(* ... and where it has to: at a flag without its packet.                  *)
Broken(flags, data, head, tail) ==
  {i \in 0 .. forwardDistance(head, tail) - 1 :
     flags[forward(tail, i)] /\ data[forward(tail, i)] = NoData}

(* The packets of the first n places from the tail on, in their order,     *)
(* without those that are missing.                                         *)
Handed(flags, data, tail, n) ==
  LET first[i \in 0 .. n] ==
        IF i = 0 THEN <<>>
        ELSE IF flags[forward(tail, i - 1)]
             THEN Append(first[i - 1], data[forward(tail, i - 1)])
             ELSE first[i - 1]
  IN  first[n]

(* takeRtps on a ring with these flags, packets and positions: it passes   *)
(* forceRange numbers, received or not, then every received one in a row.  *)
(* count is how far the tail goes.                                         *)
takeRtps(flags, data, head, tail, forceRange) ==
  LET broken == Broken(flags, data, head, tail)
      count  == Min(Stops(flags, head, tail, forceRange) \cup broken)
      passed == {forward(tail, i) : i \in 0 .. count - 1}
  IN  [out    |-> Handed(flags, data, tail, count),
       tail   |-> forward(tail, count),
       data   |-> [p \in Pos |-> IF p \in passed /\ flags[p] THEN NoData ELSE data[p]],
       failed |-> count \in broken]

NoFlags == [p \in Pos |-> FALSE]

Init ==
  /\ seqArray = NoFlags
  /\ rtpDataArray = [p \in Pos |-> NoData]
  /\ headPos = 0 /\ tailPos = 0
  /\ lastSeq = -1
  /\ outQueue = <<>> /\ accepted = {}
  /\ delivered = -1
  /\ process = "up"

(* The call takes the packets in and hands the packets out over.           *)
Give(in, out) ==
  /\ accepted' = in
  /\ outQueue' = out
  /\ delivered' = IF out = <<>> THEN delivered ELSE out[Len(out)]

(* A negative result of takeRtps, where updateData looks at it.            *)
ExitIf(failed) == process' = IF failed THEN "exit" ELSE process

Diff(s) == getSeqDistance(s, lastSeq)
Started == lastSeq >= 0 /\ process = "up"

-----------------------------------------------------------------------------
(* Mutation: the next packet goes out at once, also past those that wait.  *)
DirectAlways(s) ==
  /\ process = "up"
  /\ lastSeq < 0 \/ Diff(s) = 1
  /\ seqArray' = [seqArray EXCEPT ![headPos] = TRUE]
  /\ headPos' = forward(headPos, 1)
  /\ tailPos' = forward(tailPos, 1)
  /\ lastSeq' = s
  /\ Give({s}, <<s>>)
  /\ UNCHANGED <<rtpDataArray, process>>

(* The first packet, or the next one with none waiting: handed over.       *)
Direct(s) ==
  /\ process = "up"
  /\ lastSeq < 0 \/ (Diff(s) = 1 /\ tailPos = headPos)
  /\ seqArray' = [seqArray EXCEPT ![headPos] = TRUE]
  /\ headPos' = forward(headPos, 1)
  /\ tailPos' = forward(tailPos, 1)
  /\ lastSeq' = s
  /\ Give({s}, <<s>>)
  /\ UNCHANGED <<rtpDataArray, process>>

(* A newer packet within the window, the numbers it jumps over missing.    *)
Store(s) ==
  /\ Started
  /\ Diff(s) \in 1 .. reorderSize
  /\ Diff(s) = 1 => tailPos # headPos
  /\ LET at    == forward(headPos, Diff(s) - 1)
         over  == {forward(headPos, i) : i \in 0 .. Diff(s) - 2}
         flags == [p \in Pos |-> p = at \/ (p \notin over /\ seqArray[p])]
         data  == [rtpDataArray EXCEPT ![at] = s]
         head  == forward(at, 1)
         forceRange == forwardDistance(head, tailPos) - reorderSize
     IN  /\ seqArray' = flags
         /\ headPos' = head
         /\ \/ /\ forceRange > 0
               /\ \E took \in {takeRtps(flags, data, head, tailPos, forceRange)} :
                     /\ rtpDataArray' = took.data /\ tailPos' = took.tail
                     /\ Give({s}, took.out)
                     /\ ExitIf(took.failed)
            \/ /\ forceRange <= 0
               /\ rtpDataArray' = data
               /\ Give({s}, <<>>)
               /\ UNCHANGED <<tailPos, process>>
  /\ lastSeq' = s

(* Mutation: the new packet goes out and what waits is dropped.            *)
GapDrops(s) ==
  /\ Started
  /\ Diff(s) > reorderSize /\ Diff(s) < MAX_DIFF
  /\ \E took \in {takeRtps(seqArray, rtpDataArray, headPos, tailPos, reorderSize)} :
         /\ rtpDataArray' = took.data
         /\ Give({s}, <<s>>)
         /\ ExitIf(took.failed)
  /\ seqArray' = [NoFlags EXCEPT ![0] = TRUE]
  /\ headPos' = 1 /\ tailPos' = 1
  /\ lastSeq' = s

(* A newer packet beyond the window: what waits is handed over, then it.   *)
Gap(s) ==
  /\ Started
  /\ Diff(s) > reorderSize /\ Diff(s) < MAX_DIFF
  /\ \E took \in {takeRtps(seqArray, rtpDataArray, headPos, tailPos, reorderSize)} :
         /\ rtpDataArray' = took.data
         /\ Give({s}, Append(took.out, s))
         /\ ExitIf(took.failed)
  /\ seqArray' = [NoFlags EXCEPT ![0] = TRUE]
  /\ headPos' = 1 /\ tailPos' = 1
  /\ lastSeq' = s

InWindow(s) ==
  LET ahead == forwardDistance(forward(headPos, arraySize - 1), tailPos)
  IN  headPos # tailPos /\ -Diff(s) <= ahead

(* Mutation: the flag of a late packet is set, the packet is not stored.   *)
LateUnstored(s) ==
  /\ Started
  /\ Diff(s) \in -reorderSize .. -1
  /\ ~seqArray[getPos(Diff(s))]
  /\ InWindow(s)
  /\ seqArray' = [seqArray EXCEPT ![getPos(Diff(s))] = TRUE]
  /\ \E took \in {takeRtps(seqArray', rtpDataArray, headPos, tailPos, 0)} :
       /\ rtpDataArray' = took.data /\ tailPos' = took.tail
       /\ Give({s}, took.out)
  /\ UNCHANGED <<headPos, lastSeq, process>>

(* An older packet that fills one of the places that wait for it.          *)
Late(s) ==
  /\ Started
  /\ Diff(s) \in -reorderSize .. -1
  /\ ~seqArray[getPos(Diff(s))]
  /\ InWindow(s)
  /\ seqArray' = [seqArray EXCEPT ![getPos(Diff(s))] = TRUE]
  /\ LET data == [rtpDataArray EXCEPT ![getPos(Diff(s))] = s]
     IN  \E took \in {takeRtps(seqArray', data, headPos, tailPos, 0)} :
         /\ rtpDataArray' = took.data /\ tailPos' = took.tail
         /\ Give({s}, took.out)
  /\ UNCHANGED <<headPos, lastSeq, process>>

(* A packet that is here already, or was.                                  *)
Duplicated(s) ==
  /\ Started
  /\ \/ Diff(s) = 0
     \/ Diff(s) \in -reorderSize .. -1 /\ seqArray[getPos(Diff(s))]
  /\ Give({}, <<>>)
  /\ UNCHANGED <<ringVars, lastSeq, process>>

(* A packet whose place the window has passed.                             *)
Old(s) ==
  /\ Started
  /\ \/ /\ Diff(s) \in -reorderSize .. -1
        /\ ~seqArray[getPos(Diff(s))]
        /\ ~InWindow(s)
     \/ Diff(s) < -reorderSize /\ Diff(s) > -MAX_DIFF
  /\ Give({}, <<>>)
  /\ UNCHANGED <<ringVars, lastSeq, process>>

(* A packet from nowhere: resetPos, and what waits is never handed over.   *)
Invalid(s) ==
  /\ Started
  /\ Diff(s) >= MAX_DIFF \/ Diff(s) <= -MAX_DIFF
  /\ seqArray' = NoFlags
  /\ headPos' = 0 /\ tailPos' = 0
  /\ lastSeq' = -1
  /\ outQueue' = <<>> /\ accepted' = {}
  /\ delivered' = -1
  /\ rtpDataArray' = [p \in Pos |-> IF rtpDataArray[p] = NoData THEN NoData ELSE Stale]
  /\ UNCHANGED process

updateData(s) ==
  \/ Direct(s) \/ Store(s) \/ Gap(s) \/ Late(s)
  \/ Duplicated(s) \/ Old(s) \/ Invalid(s)

Next == \E s \in SeqNum : updateData(s)
Spec == Init /\ [][Next]_vars

-----------------------------------------------------------------------------
(* The packets that wait in the window.                                    *)
Window == {forward(tailPos, i) : i \in 0 .. forwardDistance(headPos, tailPos) - 1}
Held   == {rtpDataArray[p] : p \in {q \in Window : seqArray[q]}}

(* The ring and the newest number keep their types: no position and no     *)
(* number ever leaves its range.                                           *)
TypeOK ==
  /\ seqArray \in [Pos -> BOOLEAN]
  /\ rtpDataArray \in [Pos -> SeqNum \cup {NoData, Stale}]
  /\ headPos \in Pos /\ tailPos \in Pos
  /\ lastSeq \in SeqNum \cup {-1}

(* The window is never longer than reorderSize numbers, so that a packet   *)
(* waits for at most so many newer ones; it starts with a missing number   *)
(* and ends with the newest packet, so that nothing waits without a reason *)
(* (takeRtps; getPos would look at the wrong number if the ring overran).  *)
HeldBriefly ==
  tailPos # headPos =>
    /\ forwardDistance(headPos, tailPos) <= reorderSize
    /\ ~seqArray[tailPos]
    /\ rtpDataArray[forward(headPos, arraySize - 1)] = lastSeq

(* A flag in the window always has its packet: takeRtps never returns the  *)
(* negative value on which updateData ends the whole server with exit(0).  *)
NeverExits ==
  /\ process = "up"
  /\ NoData \notin Held

(* Until a reset, the numbers handed over only grow, over all calls and    *)
(* across the wrap at SeqMod: no packet overtakes another, none twice.     *)
InOrder ==
  [][LET given == (IF delivered < 0 THEN <<>> ELSE <<delivered>>) \o outQueue'
     IN  \A i \in 2 .. Len(given) : getSeqDistance(given[i], given[i - 1]) > 0]_vars

(* Packets are conserved: what waited and what is accepted is handed over  *)
(* now or waits still; only a reset loses packets.                         *)
NothingLost ==
  [][lastSeq' >= 0 =>
       Held \cup accepted' = Held' \cup {outQueue'[i] : i \in DOMAIN outQueue'}]_vars

=============================================================================
