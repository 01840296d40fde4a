----------------------------- MODULE RtpReceive -----------------------------
(***************************************************************************)
(* The receive path of one open RtpTransceiver and its close()             *)
(* (src/inc/rtpTrs/rtpTrs.hpp, UdpReceiver.hpp): a chain of asynchronous   *)
(* receives on the threads of the io_context puts datagrams into the ring  *)
(* of OneOnePipe; the worker takes them out, passes them through the       *)
(* reordering (RtpPipe) and queues what that hands over; the thread of the *)
(* channel polls for them; the destructor closes it all.  As the channels  *)
(* use it: RTP only, a reorderSize that is not 0, no raw UDP.              *)
(***************************************************************************)
EXTENDS OneOnePipe, FiniteSets

CONSTANTS
  Thread,      \* the threads of the io_context: 4
  MaxReceives  \* bound: receives that complete; a datagram is the number of its

ASSUME RtpReceiveAssumption ==
  /\ MaxReceives \in Nat /\ 1 .. MaxReceives \subseteq Item
  /\ IsFiniteSet(Thread)

VARIABLES
  closed, recvTasks,  \* of the UdpReceiver
  receiver,           \* "alive", "deleted" or "leaked"
  socket,             \* "open" or "closed"
  receives,           \* the asynchronous receives not handed to a thread yet
  completed,          \* how many have been
  handler,            \* thread -> where its completion handler is
  from,               \* thread -> the datagram it handles
  workerPc, stopRecvWorker,
  rtpWorkingQueue,
  held,               \* what waits in the RtpPipes, oldest first
  recvRtpQueue, recvRtpQueueEmpty,
  userPc,             \* the channel thread in receiveRtp
  closePc,
  arrived,            \* history: datagrams the ring accepted
  done                \* history: datagrams received or dropped by a pipe

receiverVars == <<closed, recvTasks, receiver, socket, receives, completed, handler, from>>
workerVars   == <<workerPc, rtpWorkingQueue, held>>
queueVars    == <<recvRtpQueue, recvRtpQueueEmpty, userPc>>
closeVars    == <<closePc, stopRecvWorker>>
vars == <<ringVars, receiverVars, workerVars, queueVars, closeVars, arrived, done>>

ToSet(q) == {q[i] : i \in DOMAIN q}

(* After open: start() has issued the first receive.                       *)
Init ==
  /\ RingInit
  /\ closed = FALSE /\ recvTasks = 1
  /\ receiver = "alive" /\ socket = "open"
  /\ receives = {"pending"} /\ completed = 0
  /\ handler = [t \in Thread |-> "none"]
  /\ from = [t \in Thread |-> NoItem]
  /\ workerPc = "drain" /\ stopRecvWorker = FALSE
  /\ rtpWorkingQueue = <<>> /\ held = <<>>
  /\ recvRtpQueue = <<>> /\ recvRtpQueueEmpty = TRUE
  /\ userPc = "idle" /\ closePc = "open"
  /\ arrived = {} /\ done = {}

-----------------------------------------------------------------------------
(* The socket: a pending receive completes with a datagram or an error.    *)
Complete ==
  /\ completed < MaxReceives
  /\ "pending" \in receives
  /\ socket = "open"
  /\ \E result \in {"data", "error"} :
       receives' = (receives \ {"pending"}) \cup {result}
  /\ completed' = completed + 1
  /\ UNCHANGED <<ringVars, closed, recvTasks, receiver, socket, handler, from,
                 workerVars, queueVars, closeVars, arrived, done>>

(* cancel and close of a socket complete what is pending on it.            *)
Abort(rs) == {IF r = "pending" THEN "aborted" ELSE r : r \in rs}

HandlerGoto(t, pc) == handler' = [handler EXCEPT ![t] = pc]

(* Mutation: the next receive is issued before the datagram is pushed.     *)
FinishIssues(t) ==
  /\ handler[t] = "none"
  /\ \E r \in receives \ {"pending"} :
       /\ closed' = (closed \/ r # "data")
       /\ HandlerGoto(t, IF closed' THEN "leave" ELSE "push")
       /\ from' = [from EXCEPT ![t] = IF closed' THEN NoItem ELSE completed]
       /\ receives' = (receives \ {r}) \cup (IF closed' THEN {} ELSE {"pending"})
       /\ recvTasks' = IF closed' THEN recvTasks ELSE recvTasks + 1
  /\ UNCHANGED <<ringVars, receiver, socket, completed, workerVars,
                 queueVars, closeVars, arrived, done>>

(* A thread of the io_context picks a completion up: finishReceive.        *)
Finish(t) ==
  /\ handler[t] = "none"
  /\ \E r \in receives \ {"pending"} :
       /\ receives' = receives \ {r}
       /\ closed' = (closed \/ r # "data")
       /\ HandlerGoto(t, IF closed' THEN "leave" ELSE "push")
       /\ from' = [from EXCEPT ![t] = IF closed' THEN NoItem ELSE completed]
  /\ UNCHANGED <<ringVars, recvTasks, receiver, socket, completed, workerVars,
                 queueVars, closeVars, arrived, done>>

(* pushUdp, a step at a time.                                              *)
PushEnter(t) ==
  /\ handler[t] = "push"
  /\ EnqLoad(from[t])
  /\ HandlerGoto(t, "pushing")
  /\ UNCHANGED <<closed, recvTasks, receiver, socket, receives, completed, from,
                 workerVars, queueVars, closeVars, arrived, done>>

Pushed(t) ==
  /\ HandlerGoto(t, "start")
  /\ from' = [from EXCEPT ![t] = NoItem]

Push(t) ==
  /\ handler[t] = "pushing"
  /\ \/ EnqWrite /\ UNCHANGED <<handler, from, arrived>>
     \/ EnqRefuse /\ Pushed(t) /\ UNCHANGED arrived
     \/ EnqPublish /\ Pushed(t) /\ arrived' = arrived \cup {from[t]}
  /\ UNCHANGED <<closed, recvTasks, receiver, socket, receives, completed,
                 workerVars, queueVars, closeVars, done>>

(* startReceive: counted first, tested second, issued third.               *)
StartCount(t) ==
  /\ handler[t] = "start"
  /\ recvTasks' = recvTasks + 1
  /\ HandlerGoto(t, "test")
  /\ UNCHANGED <<ringVars, closed, receiver, socket, receives, completed, from,
                 workerVars, queueVars, closeVars, arrived, done>>

(* Mutation: the receive that is not issued stays counted.                 *)
StartTestKeeps(t) ==
  /\ handler[t] = "test"
  /\ HandlerGoto(t, IF closed THEN "leave" ELSE "issue")
  /\ UNCHANGED <<ringVars, closed, recvTasks, receiver, socket, receives, completed,
                 from, workerVars, queueVars, closeVars, arrived, done>>

StartTest(t) ==
  /\ handler[t] = "test"
  /\ \/ closed /\ recvTasks' = recvTasks - 1 /\ HandlerGoto(t, "leave")
     \/ ~closed /\ HandlerGoto(t, "issue") /\ UNCHANGED recvTasks
  /\ UNCHANGED <<ringVars, closed, receiver, socket, receives, completed, from,
                 workerVars, queueVars, closeVars, arrived, done>>

(* On a closed socket the receive fails at once.                           *)
StartIssue(t) ==
  /\ handler[t] = "issue"
  /\ receives' = receives \cup {IF socket = "open" THEN "pending" ELSE "error"}
  /\ HandlerGoto(t, "leave")
  /\ UNCHANGED <<ringVars, closed, recvTasks, receiver, socket, completed, from,
                 workerVars, queueVars, closeVars, arrived, done>>

(* The end of the handler, maybe while the next one runs already.          *)
Leave(t) ==
  /\ handler[t] = "leave"
  /\ recvTasks' = recvTasks - 1
  /\ HandlerGoto(t, "none")
  /\ UNCHANGED <<ringVars, closed, receiver, socket, receives, completed, from,
                 workerVars, queueVars, closeVars, arrived, done>>

-----------------------------------------------------------------------------
(* recvWorker: drain the ring ...                                          *)
Drain ==
  /\ workerPc = "drain"
  /\ \/ (DeqLoad \/ DeqMove) /\ UNCHANGED <<workerPc, rtpWorkingQueue>>
     \/ /\ DeqStore
        /\ rtpWorkingQueue' = outputs
        /\ workerPc' = IF outputs = <<>> THEN "wait" ELSE "work"
  /\ UNCHANGED <<receiverVars, held, queueVars, closeVars, arrived, done>>

(* Mutation: the flag is computed before the packets are appended.         *)
ReorderFlagFirst(p) ==
  \/ /\ held' \in {held, <<>>}
     /\ done' = done \cup {p} \cup (ToSet(held) \ ToSet(held'))
     /\ UNCHANGED <<recvRtpQueue, recvRtpQueueEmpty>>
  \/ \E all \in {Append(held, p), <<p>> \o held}, k \in 0 .. Len(held) + 1 :
       /\ held' = SubSeq(all, k + 1, Len(all))
       /\ recvRtpQueue' = recvRtpQueue \o SubSeq(all, 1, k)
       /\ recvRtpQueueEmpty' = (recvRtpQueue = <<>>)
       /\ UNCHANGED done

(* ... reorder packet by packet, and queue what is handed over: an RtpPipe *)
(* drops the packet (invalid, old, here already), keeps it, or hands some  *)
(* of what it keeps over, this packet first (it filled a gap) or last; a   *)
(* reset forgets what is kept.                                             *)
Reorder(p) ==
  \/ /\ held' \in {held, <<>>}
     /\ done' = done \cup {p} \cup (ToSet(held) \ ToSet(held'))
     /\ UNCHANGED <<recvRtpQueue, recvRtpQueueEmpty>>
  \/ \E all \in {Append(held, p), <<p>> \o held}, k \in 0 .. Len(held) + 1 :
       /\ held' = SubSeq(all, k + 1, Len(all))
       /\ recvRtpQueue' = recvRtpQueue \o SubSeq(all, 1, k)
       /\ recvRtpQueueEmpty' = (recvRtpQueue' = <<>>)
       /\ UNCHANGED done

Work ==
  /\ workerPc = "work"
  /\ \/ /\ rtpWorkingQueue # <<>>
        /\ Reorder(Head(rtpWorkingQueue))
        /\ rtpWorkingQueue' = Tail(rtpWorkingQueue)
        /\ UNCHANGED workerPc
     \/ /\ rtpWorkingQueue = <<>>
        /\ workerPc' = "drain"
        /\ UNCHANGED <<rtpWorkingQueue, held, recvRtpQueue, recvRtpQueueEmpty, done>>
  /\ UNCHANGED <<ringVars, receiverVars, userPc, closeVars, arrived>>

(* With an empty ring: wait for 100 ms or a notification, look at the flag.*)
Wait ==
  /\ workerPc = "wait"
  /\ workerPc' = IF stopRecvWorker THEN "gone" ELSE "drain"
  /\ UNCHANGED <<ringVars, receiverVars, rtpWorkingQueue, held, queueVars,
                 closeVars, arrived, done>>

-----------------------------------------------------------------------------
(* receiveRtp by the channel thread: the flag without the lock, then the   *)
(* swap with it.                                                           *)
ReadFlag ==
  /\ userPc = "idle"
  /\ ~recvRtpQueueEmpty
  /\ userPc' = "swap"
  /\ UNCHANGED <<ringVars, receiverVars, workerVars, recvRtpQueue,
                 recvRtpQueueEmpty, closeVars, arrived, done>>

Swap ==
  /\ userPc = "swap"
  /\ done' = done \cup ToSet(recvRtpQueue)
  /\ recvRtpQueue' = <<>>
  /\ recvRtpQueueEmpty' = TRUE
  /\ userPc' = "idle"
  /\ UNCHANGED <<ringVars, receiverVars, workerVars, closeVars, arrived>>

(* The channel thread ends.                                                *)
UserEnd ==
  /\ userPc = "idle"
  /\ userPc' = "gone"
  /\ UNCHANGED <<ringVars, receiverVars, workerVars, recvRtpQueue,
                 recvRtpQueueEmpty, closeVars, arrived, done>>

-----------------------------------------------------------------------------
(* close(), from the destructor of the channel, whose thread is joined.    *)
CloseStep(old, new) == closePc = old /\ closePc' = new

CloseFlag ==
  /\ userPc = "gone"
  /\ CloseStep("open", "flagged")
  /\ closed' = TRUE
  /\ UNCHANGED <<ringVars, recvTasks, receiver, socket, receives, completed,
                 handler, from, workerVars, queueVars, stopRecvWorker, arrived, done>>

CloseStopWorker ==
  /\ CloseStep("flagged", "cancel")
  /\ stopRecvWorker' = TRUE
  /\ UNCHANGED <<ringVars, receiverVars, workerVars, queueVars, arrived, done>>

CloseCancel ==
  /\ CloseStep("cancel", "stopping")
  /\ receives' = Abort(receives)
  /\ UNCHANGED <<ringVars, closed, recvTasks, receiver, socket, completed, handler,
                 from, workerVars, queueVars, stopRecvWorker, arrived, done>>

(* Mutation: the receives are not looked at.                               *)
isStoppedFlag == closed

isStopped == closed /\ recvTasks = 0

(* Mutation: the wait for the receiver has no limit.                       *)
CloseReceiverWaits ==
  /\ CloseStep("stopping", "closing")
  /\ isStopped
  /\ receiver' = "deleted"
  /\ UNCHANGED <<ringVars, closed, recvTasks, socket, receives, completed, handler,
                 from, workerVars, queueVars, stopRecvWorker, arrived, done>>

(* The receiver stops in time and is deleted, or does not in 6 seconds: the*)
(* handlers are through by then, only a receive can still be pending.      *)
CloseReceiver ==
  /\ CloseStep("stopping", "closing")
  /\ \/ isStopped /\ receiver' = "deleted"
     \/ /\ ~isStopped
        /\ receives = {"pending"}
        /\ \A t \in Thread : handler[t] = "none"
        /\ receiver' = "leaked"
  /\ UNCHANGED <<ringVars, closed, recvTasks, socket, receives, completed, handler,
                 from, workerVars, queueVars, stopRecvWorker, arrived, done>>

CloseSocket ==
  /\ CloseStep("closing", "joining")
  /\ socket' = "closed"
  /\ receives' = Abort(receives)
  /\ UNCHANGED <<ringVars, closed, recvTasks, receiver, completed, handler, from,
                 workerVars, queueVars, stopRecvWorker, arrived, done>>

(* Join the worker, then clear the pipes.                                  *)
CloseJoin ==
  /\ workerPc = "gone"
  /\ CloseStep("joining", "closed")
  /\ done' = done \cup ToSet(held)
  /\ held' = <<>>
  /\ UNCHANGED <<ringVars, receiverVars, workerPc, rtpWorkingQueue, queueVars,
                 stopRecvWorker, arrived>>

-----------------------------------------------------------------------------
Handler(t) ==
  \/ Finish(t) \/ PushEnter(t) \/ Push(t)
  \/ StartCount(t) \/ StartTest(t) \/ StartIssue(t) \/ Leave(t)
Worker == Drain \/ Work \/ Wait
User   == ReadFlag \/ Swap
Close  ==
  \/ CloseFlag \/ CloseStopWorker \/ CloseCancel
  \/ CloseReceiver \/ CloseSocket \/ CloseJoin

Next ==
  \/ Complete \/ UserEnd
  \/ \E t \in Thread : Handler(t)
  \/ Worker \/ User \/ Close

Spec == Init /\ [][Next]_vars

(* The threads run; nothing need arrive, and the channel need not end.     *)
FairSpec ==
  /\ Spec
  /\ \A t \in Thread : WF_vars(Handler(t))
  /\ WF_vars(Worker) /\ WF_vars(User) /\ WF_vars(Close)

-----------------------------------------------------------------------------
Waiting ==
  ToSet(Content) \cup ToSet(rtpWorkingQueue) \cup ToSet(held) \cup ToSet(recvRtpQueue)

(* Types, and the count of receives: one for each that is under way, in a  *)
(* handler or about to be issued.                                          *)
TypeOK ==
  /\ closed \in BOOLEAN /\ stopRecvWorker \in BOOLEAN /\ recvRtpQueueEmpty \in BOOLEAN
  /\ receiver \in {"alive", "deleted", "leaked"} /\ socket \in {"open", "closed"}
  /\ receives \subseteq {"pending", "data", "error", "aborted"}
  /\ completed \in 0 .. MaxReceives
  /\ handler \in [Thread -> {"none", "push", "pushing", "start", "test", "issue", "leave"}]
  /\ from \in [Thread -> Item \cup {NoItem}]
  /\ recvTasks = Cardinality(receives)
               + Cardinality({t \in Thread : handler[t] # "none"})
               + Cardinality({t \in Thread : handler[t] \in {"test", "issue"}})
  /\ workerPc \in {"drain", "work", "wait", "gone"}
  /\ rtpWorkingQueue \in Seq(Item) /\ held \in Seq(Item) /\ recvRtpQueue \in Seq(Item)
  /\ userPc \in {"idle", "swap", "gone"}
  /\ closePc \in {"open", "flagged", "cancel", "stopping", "closing", "joining", "closed"}
  /\ arrived \subseteq Item /\ done \subseteq Item

(* The ring has one producer although four threads run the handlers, and   *)
(* the buffer of the receiver is not overwritten while it is copied: no    *)
(* receive is under way before pushUdp is through (finishReceive).         *)
OneProducer ==
  LET pushing == {t \in Thread : handler[t] \in {"push", "pushing"}}
  IN  /\ Cardinality(pushing) <= 1
      /\ pushing # {} => receives = {}

(* No datagram the ring accepted is lost or twice in the transceiver: it   *)
(* is received, dropped by the reordering, or in exactly one of the queues.*)
Conserved ==
  /\ arrived = done \cup Waiting
  /\ Cardinality(done) + Len(Content) + Len(rtpWorkingQueue) + Len(held)
       + Len(recvRtpQueue) = Cardinality(arrived)

(* close() deletes the receiver only when no receive is under way and no   *)
(* handler will touch it again (isStopped). And when close() has returned, *)
(* which is before the transceiver is freed, no thread uses the            *)
(* transceiver: also where the receiver was leaked, with a receive under   *)
(* way, what is left of it only reads the receiver.                        *)
ReceiverSafe ==
  /\ receiver = "deleted" =>
       /\ receives = {}
       /\ \A t \in Thread : handler[t] = "none"
  /\ closePc = "closed" =>
       /\ workerPc = "gone" /\ enqPc = "idle"
       /\ \A t \in Thread : handler[t] \in {"none", "leave"}

(* Whatever reaches the queue of the transceiver is received, as long as   *)
(* the channel thread polls: the flag it reads without the lock does not   *)
(* hide a packet for good (receiveRtp).                                    *)
Delivered ==
  \A x \in Item : x \in Waiting \ ToSet(held) ~>
                    x \in done \cup ToSet(held) \/ userPc = "gone"

(* close() returns, also when a receive was issued too late to be cancelled*)
(* and when the worker finds the flag only after another round.            *)
CloseEnds == closePc # "open" ~> closePc = "closed"
=============================================================================
