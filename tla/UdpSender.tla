------------------------------ MODULE UdpSender ------------------------------
(***************************************************************************)
(* The sender of a transceiver (src/inc/rtpTrs/UdpSender.hpp): callers     *)
(* queue bursts of packets, and one asynchronous send after the other puts *)
(* the packets on the wire from the single buffer sendBuff; each completes *)
(* on some thread of the io_context, which starts the next.  wqMutex       *)
(* guards the queue; isSending, closed and sendTasks are atomic and also   *)
(* looked at without it.  The server never sets a bandwidth, so the byte   *)
(* counter and the pacing timer are left out.                              *)
(***************************************************************************)
EXTENDS Integers, Sequences, FiniteSets

CONSTANTS
  Caller,      \* threads that send: the work thread of a MediaProcessUnit
  Thread,      \* the threads of the io_context
  MaxBurst,    \* bound: packets of one call
  MaxPackets,  \* bound: packets ever queued
  MAX_WAITING_QUEUE_SIZE  \* 3000

ASSUME UdpSenderAssumption ==
  /\ MaxBurst \in Nat /\ MaxPackets \in Nat /\ MAX_WAITING_QUEUE_SIZE \in Nat
  /\ IsFiniteSet(Caller) /\ IsFiniteSet(Thread)

VARIABLES
  waitingQueue,    \* bursts, each the sequence of its packets not yet sent
  isSending, closed, sendTasks,
  sendBuff,        \* the packet in the buffer, 0 for none
  pending,         \* sends under way
  completed,       \* results of those that are not handed to a thread yet
  caller, handler, \* thread -> where it is in send, in its handler
  result,          \* thread -> the result its handler got
  closePc,         \* where close() of the transceiver is
  queued,          \* history: packets ever queued, numbered in that order
  wire,            \* history: the packets sent, in order
  lost             \* history: packets thrown away or not sent

queueVars == <<waitingQueue, isSending, sendTasks, sendBuff, pending, lost>>
vars == <<queueVars, closed, completed, caller, handler, result, closePc, queued, wire>>

Packet == 1 .. MaxPackets
ToSet(q) == {q[i] : i \in DOMAIN q}
WaitingPackets == UNION {ToSet(waitingQueue[i]) : i \in DOMAIN waitingQueue}

Init ==
  /\ waitingQueue = <<>> /\ isSending = FALSE /\ closed = FALSE
  /\ sendTasks = 0 /\ sendBuff = 0
  /\ pending = 0 /\ completed = <<>>
  /\ caller = [c \in Caller |-> "idle"]
  /\ handler = [t \in Thread |-> "none"]
  /\ result = [t \in Thread |-> "none"]
  /\ closePc = "open"
  /\ queued = 0 /\ wire = <<>> /\ lost = {}

-----------------------------------------------------------------------------
(* Mutation: the look at isSending is not repeated under the lock.         *)
DoSendUnchecked ==
  \/ /\ closed \/ waitingQueue = <<>>
     /\ sendTasks' = sendTasks - 1
     /\ UNCHANGED <<waitingQueue, isSending, sendBuff, pending, lost>>
  \/ /\ ~closed /\ waitingQueue # <<>>
     /\ isSending' = TRUE
     /\ sendBuff' = Head(Head(waitingQueue))
     /\ pending' = pending + 1
     /\ waitingQueue' = IF Len(Head(waitingQueue)) = 1 THEN Tail(waitingQueue)
                        ELSE <<Tail(Head(waitingQueue))>> \o Tail(waitingQueue)
     /\ UNCHANGED <<sendTasks, lost>>

(* doSend, all of it under wqMutex: nothing to do, too much to do, or the  *)
(* next packet, whose completion then carries the count of the caller.     *)
DoSend ==
  \/ /\ closed \/ waitingQueue = <<>> \/ isSending
     /\ sendTasks' = sendTasks - 1
     /\ UNCHANGED <<waitingQueue, isSending, sendBuff, pending, lost>>
  \/ /\ ~closed /\ ~isSending
     /\ Len(waitingQueue) > MAX_WAITING_QUEUE_SIZE
     /\ lost' = lost \cup WaitingPackets
     /\ waitingQueue' = <<>>
     /\ sendTasks' = sendTasks - 1
     /\ UNCHANGED <<isSending, sendBuff, pending>>
  \/ /\ ~closed /\ ~isSending
     /\ Len(waitingQueue) \in 1 .. MAX_WAITING_QUEUE_SIZE
     /\ isSending' = TRUE
     /\ sendBuff' = Head(Head(waitingQueue))
     /\ pending' = pending + 1
     /\ waitingQueue' = IF Len(Head(waitingQueue)) = 1 THEN Tail(waitingQueue)
                        ELSE <<Tail(Head(waitingQueue))>> \o Tail(waitingQueue)
     /\ UNCHANGED <<sendTasks, lost>>

-----------------------------------------------------------------------------
(* send(): count the call, look at closed, queue the burst, look at        *)
(* isSending, send unless somebody does.                                   *)
CallerStep(c, old, new) == caller[c] = old /\ caller' = [caller EXCEPT ![c] = new]

SendCount(c) ==
  /\ closePc = "open"
  /\ CallerStep(c, "idle", "counted")
  /\ sendTasks' = sendTasks + 1
  /\ UNCHANGED <<waitingQueue, isSending, sendBuff, pending, lost, closed,
                 completed, handler, result, closePc, queued, wire>>

SendRefuse(c) ==
  /\ closed
  /\ CallerStep(c, "counted", "idle")
  /\ sendTasks' = sendTasks - 1
  /\ UNCHANGED <<waitingQueue, isSending, sendBuff, pending, lost, closed,
                 completed, handler, result, closePc, queued, wire>>

SendAccept(c) ==
  /\ ~closed
  /\ CallerStep(c, "counted", "accepted")
  /\ UNCHANGED <<queueVars, closed, completed, handler, result, closePc, queued, wire>>

SendQueue(c) ==
  /\ CallerStep(c, "accepted", "queued")
  /\ \E n \in 0 .. MaxBurst :
       /\ queued + n <= MaxPackets
       /\ queued' = queued + n
       /\ waitingQueue' = IF n = 0 THEN waitingQueue
                          ELSE Append(waitingQueue, [i \in 1 .. n |-> queued + i])
  /\ UNCHANGED <<isSending, sendTasks, sendBuff, pending, lost, closed, completed,
                 handler, result, closePc, wire>>

SendLeave(c) ==
  /\ isSending
  /\ CallerStep(c, "queued", "idle")
  /\ sendTasks' = sendTasks - 1
  /\ UNCHANGED <<waitingQueue, isSending, sendBuff, pending, lost, closed,
                 completed, handler, result, closePc, queued, wire>>

SendTry(c) ==
  /\ ~isSending
  /\ CallerStep(c, "queued", "trying")
  /\ UNCHANGED <<queueVars, closed, completed, handler, result, closePc, queued, wire>>

SendDo(c) ==
  /\ CallerStep(c, "trying", "idle")
  /\ DoSend
  /\ UNCHANGED <<closed, completed, handler, result, closePc, queued, wire>>

-----------------------------------------------------------------------------
(* The socket: what it sends is what is in the buffer by then.             *)
Transmit ==
  /\ pending > 0
  /\ pending' = pending - 1
  /\ \/ /\ wire' = Append(wire, sendBuff)
        /\ completed' = Append(completed, "sent")
        /\ UNCHANGED lost
     \/ /\ lost' = lost \cup {sendBuff}
        /\ completed' = Append(completed, "failed")
        /\ UNCHANGED wire
  /\ UNCHANGED <<waitingQueue, isSending, sendTasks, sendBuff, closed, caller,
                 handler, result, closePc, queued>>

(* doSendFinish: count the handler a second time, clear isSending, then    *)
(* return after an error, return when closed, or send the next packet.     *)
HandlerStep(t, old, new) == handler[t] = old /\ handler' = [handler EXCEPT ![t] = new]

FinishCount(t) ==
  /\ completed # <<>>
  /\ HandlerStep(t, "none", "counted")
  /\ result' = [result EXCEPT ![t] = Head(completed)]
  /\ completed' = Tail(completed)
  /\ sendTasks' = sendTasks + 1
  /\ UNCHANGED <<waitingQueue, isSending, sendBuff, pending, lost, closed, caller,
                 closePc, queued, wire>>

FinishClear(t) ==
  /\ HandlerStep(t, "counted", "cleared")
  /\ isSending' = FALSE
  /\ UNCHANGED <<waitingQueue, sendTasks, sendBuff, pending, lost, closed, completed,
                 caller, result, closePc, queued, wire>>

(* Mutation: the count of a handler that ends early is kept.               *)
FinishReturnKeeps(t) ==
  /\ result[t] = "failed" \/ closed
  /\ HandlerStep(t, "cleared", "leave")
  /\ UNCHANGED <<queueVars, closed, completed, caller, result, closePc, queued, wire>>

FinishReturn(t) ==
  /\ result[t] = "failed" \/ closed
  /\ HandlerStep(t, "cleared", "leave")
  /\ sendTasks' = sendTasks - 1
  /\ UNCHANGED <<waitingQueue, isSending, sendBuff, pending, lost, closed, completed,
                 caller, result, closePc, queued, wire>>

(* Mutation: the handler does not start the next send.                     *)
FinishTryForgets(t) ==
  /\ result[t] = "sent" /\ ~closed
  /\ HandlerStep(t, "cleared", "leave")
  /\ sendTasks' = sendTasks - 1
  /\ UNCHANGED <<waitingQueue, isSending, sendBuff, pending, lost, closed, completed,
                 caller, result, closePc, queued, wire>>

FinishTry(t) ==
  /\ result[t] = "sent" /\ ~closed
  /\ HandlerStep(t, "cleared", "trying")
  /\ UNCHANGED <<queueVars, closed, completed, caller, result, closePc, queued, wire>>

FinishDo(t) ==
  /\ HandlerStep(t, "trying", "leave")
  /\ DoSend
  /\ UNCHANGED <<closed, completed, caller, result, closePc, queued, wire>>

(* The count of the send itself, given back last.                          *)
FinishLeave(t) ==
  /\ HandlerStep(t, "leave", "none")
  /\ result' = [result EXCEPT ![t] = "none"]
  /\ sendTasks' = sendTasks - 1
  /\ UNCHANGED <<waitingQueue, isSending, sendBuff, pending, lost, closed, completed,
                 caller, closePc, queued, wire>>

-----------------------------------------------------------------------------
(* close() of the transceiver: close the sender, cancel the socket, ask    *)
(* isStopped (which reads isSending, then sendTasks) until it says yes.    *)
(* SenderStops shows that the limit of 6 seconds is not needed.            *)
CloseStep(old, new) == closePc = old /\ closePc' = new

CloseFlag ==
  /\ CloseStep("open", "flagged")
  /\ closed' = TRUE
  /\ UNCHANGED <<queueVars, completed, caller, handler, result, queued, wire>>

CloseCancel ==
  /\ CloseStep("flagged", "asking")
  /\ lost' = IF pending > 0 THEN lost \cup {sendBuff} ELSE lost
  /\ completed' = completed \o [i \in 1 .. pending |-> "failed"]
  /\ pending' = 0
  /\ UNCHANGED <<waitingQueue, isSending, sendTasks, sendBuff, closed, caller,
                 handler, result, queued, wire>>

(* Mutation: isStopped does not look at the tasks.                         *)
isStoppedAtOnce == TRUE

isStoppedFirst == closed /\ ~isSending
isStoppedThen == sendTasks = 0

CloseAsk ==
  /\ isStoppedFirst
  /\ CloseStep("asking", "asked")
  /\ UNCHANGED <<queueVars, closed, completed, caller, handler, result, queued, wire>>

CloseAnswer ==
  /\ CloseStep("asked", IF isStoppedThen THEN "deleted" ELSE "asking")
  /\ UNCHANGED <<queueVars, closed, completed, caller, handler, result, queued, wire>>

-----------------------------------------------------------------------------
Send(c) ==
  \/ SendCount(c) \/ SendRefuse(c) \/ SendAccept(c)
  \/ SendQueue(c) \/ SendLeave(c) \/ SendTry(c) \/ SendDo(c)
Finish(t) ==
  \/ FinishCount(t) \/ FinishClear(t) \/ FinishReturn(t)
  \/ FinishTry(t) \/ FinishDo(t) \/ FinishLeave(t)
Close == CloseFlag \/ CloseCancel \/ CloseAsk \/ CloseAnswer

Next ==
  \/ \E c \in Caller : Send(c)
  \/ Transmit
  \/ \E t \in Thread : Finish(t)
  \/ Close

Spec == Init /\ [][Next]_vars

(* The threads run and the socket sends; nobody need send or close.        *)
FairSpec ==
  /\ Spec
  /\ \A c \in Caller : WF_vars(Send(c) /\ caller[c] # "idle")
  /\ \A t \in Thread : WF_vars(Finish(t))
  /\ WF_vars(Transmit)
  /\ WF_vars(Close /\ closePc # "open")

-----------------------------------------------------------------------------
Callers(pcs)  == Cardinality({c \in Caller : caller[c] \in pcs})
Handlers(pcs) == Cardinality({t \in Thread : handler[t] \in pcs})

(* Types, and the count of tasks: one for each call, one for each send     *)
(* until its handler has left, one more for a handler inside doSendFinish. *)
TypeOK ==
  /\ waitingQueue \in Seq(Seq(Packet))
  /\ isSending \in BOOLEAN /\ closed \in BOOLEAN
  /\ sendBuff \in Packet \cup {0} /\ pending \in Nat
  /\ completed \in Seq({"sent", "failed"})
  /\ caller \in [Caller -> {"idle", "counted", "accepted", "queued", "trying"}]
  /\ handler \in [Thread -> {"none", "counted", "cleared", "trying", "leave"}]
  /\ result \in [Thread -> {"none", "sent", "failed"}]
  /\ closePc \in {"open", "flagged", "asking", "asked", "deleted"}
  /\ sendTasks = Callers({"counted", "accepted", "queued", "trying"})
               + pending + Len(completed)
               + Handlers({"leave"}) + 2 * Handlers({"counted", "cleared", "trying"})

(* The buffer of a send under way is not overwritten: at any time there is *)
(* at most one send, and isSending says so until its handler clears it     *)
(* (doSend swaps the next packet into sendBuff).                           *)
OneInFlight ==
  LET inFlight == pending + Len(completed) + Handlers({"counted"})
  IN  inFlight <= 1 /\ (isSending <=> inFlight = 1)

(* Packets leave in the order in which they were queued, none twice, and   *)
(* none disappears: it is sent, waiting, in the buffer of the send under   *)
(* way, or one of those a failure or a queue too long has cost.            *)
SentInOrder ==
  /\ \A i, j \in DOMAIN wire : i < j => wire[i] < wire[j]
  /\ 1 .. queued = ToSet(wire) \cup lost \cup WaitingPackets
                     \cup (IF pending > 0 THEN {sendBuff} ELSE {})

(* The sender is deleted only when no call, no send and no handler will    *)
(* touch it again, although isStopped reads its flags one after the other. *)
SenderSafe ==
  closePc = "deleted" =>
    /\ pending = 0 /\ completed = <<>>
    /\ \A c \in Caller : caller[c] = "idle"
    /\ \A t \in Thread : handler[t] = "none"

(* What waits is sent while somebody sends or is about to: a caller that   *)
(* finds isSending set and leaves can rely on the handler to find its      *)
(* packets.  Only after a failed send do they wait for the next call.      *)
Drained ==
  waitingQueue # <<>> /\ (isSending \/ Callers({"queued", "trying"}) > 0) ~>
    waitingQueue = <<>> \/ closed \/ \E t \in Thread : result[t] = "failed"

(* close() always ends by deleting the sender: no send is started after    *)
(* the cancel that would have to be waited for.                            *)
SenderStops == closePc # "open" ~> closePc = "deleted"
=============================================================================
