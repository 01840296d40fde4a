---------------------------- MODULE AudioChannel ----------------------------
(***************************************************************************)
(* One AudioPorcessChnl (src/src/apc.cpp) from open() to close(): its       *)
(* thread, which receives RTP packets, decodes them and buffers the frames *)
(* for the mixer, with the InvokeTimer it starts and cancels, and what     *)
(* others do to it meanwhile: the event thread of the MPU, which switches  *)
(* the microphone and closes it, its work thread, which takes frames, and  *)
(* the RtpTransceiver, in whose queue packets arrive.                      *)
(*                                                                         *)
(* MediaProcess sees a channel as one of seven states, a microphone and a  *)
(* buffer; AudioChannelSeen maps this module to that view.                 *)
(***************************************************************************)
EXTENDS Integers, Sequences

CONSTANTS
  Ssrc,      \* the numbers of the sources that may send to the channel's port
  Cap,       \* frames the buffer holds before it is cut (6 or 20)
  MaxFrame,  \* the frames buffered are numbered 1..MaxFrame, cyclically
  MaxQueue,  \* bound: packets received and not taken by the channel
  Failing    \* what may go wrong: subset of {"bind", "resample", "decode"}

ASSUME AudioChannelAssumption ==
  /\ Cap \in Nat \ {0} /\ MaxFrame \in Nat \ {0} /\ MaxQueue \in Nat \ {0}
  /\ Failing \subseteq {"bind", "resample", "decode"}
  /\ Ssrc \subseteq Nat

VARIABLES
  status,           \* TaskStatus
  pc,               \* where workingLoop is
  closer,           \* where close() is
  micType, micOpenNeedClear,
  micSet,           \* has setMicType made both its assignments
  recvRtpQueue,     \* packets the transceiver holds
  recvQueue,        \* packets the thread holds
  lastSsrc,         \* the source locked; 0, a source as any other, is also none
  srcBuffer,        \* frames decoded and not taken
  arrived,          \* the number of the next frame
  timer, periodic, owner, late  \* of printTimer

micVars   == <<micType, micOpenNeedClear, micSet>>
queueVars == <<recvRtpQueue, recvQueue>>
bufVars   == <<lastSsrc, srcBuffer, arrived>>
timerVars == <<timer, periodic, owner, late>>
vars == <<status, pc, closer, micVars, queueVars, bufVars, timerVars>>

printTimer == INSTANCE InvokeTimer

(* A packet decodes to a frame, to nothing (getFrame returns -1), or it    *)
(* ends the thread (-2, or no data at all). The source matters of a frame. *)
Packet == [ssrc : Ssrc, is : {"frame"}] \cup [ssrc : {0}, is : {"noise", "fatal"}]
Frame  == [ssrc : Ssrc, n : 1..MaxFrame]

MicOff == micType = "off"
Bound  == pc \notin {"open", "failed"}
Ready  == pc \notin {"open", "failed", "timer"}

Init ==
  /\ status = "run" /\ pc = "open" /\ closer = "none"
  /\ micType = "off" /\ micOpenNeedClear = FALSE /\ micSet = TRUE
  /\ recvRtpQueue = <<>> /\ recvQueue = <<>>
  /\ lastSsrc = 0 /\ srcBuffer = <<>> /\ arrived = 1
  /\ printTimer!Init

-----------------------------------------------------------------------------
(* The others. The event thread switches the microphone and closes the     *)
(* channel, one after the other; each in apcLocker, like getBuffer.        *)

SetMicType(v) ==
  /\ closer = "none" /\ micSet
  /\ micType' = v /\ micSet' = FALSE
  /\ UNCHANGED <<status, pc, closer, micOpenNeedClear, queueVars, bufVars, timerVars>>

SetMicNeedClear ==
  /\ ~micSet
  /\ micOpenNeedClear' = TRUE /\ micSet' = TRUE
  /\ UNCHANGED <<status, pc, closer, micType, queueVars, bufVars, timerVars>>

Close ==
  /\ closer = "none" /\ micSet
  /\ status' = "down" /\ closer' = "join"
  /\ UNCHANGED <<pc, micVars, queueVars, bufVars, timerVars>>

CloseEnd ==
  /\ closer = "join" /\ pc \in {"failed", "done"}
  /\ status' = "end" /\ closer' = "end"
  /\ UNCHANGED <<pc, micVars, queueVars, bufVars, timerVars>>

GetBuffer ==
  /\ closer = "none" /\ Ready /\ srcBuffer # <<>>
  /\ srcBuffer' = Tail(srcBuffer)
  /\ UNCHANGED <<status, pc, closer, micVars, queueVars, lastSsrc, arrived, timerVars>>

Arrive(p) ==
  /\ p.is = "fatal" => "decode" \in Failing
  /\ Bound /\ closer # "end"
  /\ Len(recvRtpQueue) + Len(recvQueue) < MaxQueue  \* bound only
  /\ recvRtpQueue' = Append(recvRtpQueue, p)
  /\ UNCHANGED <<status, pc, closer, micVars, recvQueue, bufVars, timerVars>>

-----------------------------------------------------------------------------
(* workingLoop.                                                            *)

Goto(old, new) == pc = old /\ pc' = new

Open ==
  /\ \/ Goto("open", "timer") /\ UNCHANGED status
     \/ "bind" \in Failing /\ Goto("open", "failed") /\ status' = "exce"
  /\ UNCHANGED <<closer, micVars, queueVars, bufVars, timerVars>>

(* A resampler that cannot be had ends the thread without a timer.         *)
StartTimer ==
  /\ \/ Goto("timer", "loop") /\ printTimer!Start /\ UNCHANGED status
     \/ /\ "resample" \in Failing /\ Goto("timer", "failed") /\ status' = "exce"
        /\ UNCHANGED timerVars
  /\ UNCHANGED <<closer, micVars, queueVars, bufVars>>

LoopEnd ==
  /\ status # "run"
  /\ Goto("loop", "exit")
  /\ UNCHANGED <<status, closer, micVars, queueVars, bufVars, timerVars>>

(* Mutation: a muted channel only waits.                                   *)
LookWaits ==
  /\ status = "run" /\ ~MicOff
  /\ Goto("loop", "recv")
  /\ UNCHANGED <<status, closer, micVars, queueVars, bufVars, timerVars>>

(* A muted channel with an empty buffer looks again a little later.        *)
Look ==
  /\ status = "run"
  /\ \/ MicOff /\ srcBuffer # <<>> /\ Goto("loop", "clear")
     \/ ~MicOff /\ Goto("loop", "recv")
  /\ UNCHANGED <<status, closer, micVars, queueVars, bufVars, timerVars>>

Clear ==
  /\ Goto("clear", "loop")
  /\ srcBuffer' = <<>>
  /\ UNCHANGED <<status, closer, micVars, queueVars, lastSsrc, arrived, timerVars>>

(* receiveRtp, which throws if the caller still has packets.               *)
Receive ==
  /\ \/ /\ recvQueue # <<>>
        /\ Goto("recv", "exit") /\ status' = "exce"
        /\ UNCHANGED queueVars
     \/ /\ recvQueue = <<>>
        /\ Goto("recv", "got") /\ UNCHANGED status
        /\ recvQueue' = recvRtpQueue /\ recvRtpQueue' = <<>>
  /\ UNCHANGED <<closer, micVars, bufVars, timerVars>>

(* The waiting loop, which receives again every millisecond, and the two   *)
(* tests behind it: a thread that finds the microphone closed starts over  *)
(* with the packets it has received.                                       *)
Got ==
  /\ \/ recvQueue = <<>> /\ status = "run" /\ ~MicOff /\ Goto("got", "recv")
     \/ MicOff /\ Goto("got", "loop")
     \/ ~MicOff /\ status # "run" /\ Goto("got", "exit")
     \/ ~MicOff /\ status = "run" /\ recvQueue # <<>> /\ Goto("got", "process")
  /\ UNCHANGED <<status, closer, micVars, queueVars, bufVars, timerVars>>

(* Mutation: any source is decoded.                                        *)
ForeignNever(p) == FALSE

Foreign(p) == lastSsrc # 0 /\ lastSsrc # p.ssrc

(* Mutation: the newest half of a full buffer is given up.                 *)
KeptOldest ==
  IF Len(srcBuffer) <= Cap
  THEN srcBuffer
  ELSE IF micOpenNeedClear THEN <<>> ELSE SubSeq(srcBuffer, 1, Len(srcBuffer) \div 2)

(* What stays of the buffer when a frame is put behind it: nothing or the  *)
(* newer half if it is over the cap.                                       *)
Kept ==
  IF Len(srcBuffer) <= Cap
  THEN srcBuffer
  ELSE IF micOpenNeedClear THEN <<>>
                           ELSE SubSeq(srcBuffer, Len(srcBuffer) \div 2 + 1, Len(srcBuffer))

ProcessFrame(p) ==
  /\ p.is = "frame" /\ ~Foreign(p)
  /\ lastSsrc' = IF lastSsrc = 0 THEN p.ssrc ELSE lastSsrc
  /\ srcBuffer' = Append(Kept, [ssrc |-> p.ssrc, n |-> arrived])
  /\ arrived' = (arrived % MaxFrame) + 1
  /\ micOpenNeedClear' = (micOpenNeedClear /\ Len(srcBuffer) <= Cap)
  /\ UNCHANGED <<micType, micSet>>

(* One packet. No data is found out before the source is looked at, what   *)
(* the decoder cannot be for after it; both end the thread.                *)
Process ==
  /\ pc = "process" /\ recvQueue # <<>>
  /\ LET p == Head(recvQueue)
     IN  \/ /\ \/ ProcessFrame(p)
               \/ /\ p.is = "noise" \/ Foreign(p)
                  /\ UNCHANGED <<micVars, bufVars>>
            /\ recvQueue' = Tail(recvQueue)
            /\ UNCHANGED <<pc, status>>
         \/ /\ p.is = "fatal"
            /\ pc' = "exit" /\ status' = "exce"
            /\ UNCHANGED <<micVars, bufVars, recvQueue>>
  /\ UNCHANGED <<closer, recvRtpQueue, timerVars>>

ProcessEnd ==
  /\ recvQueue = <<>> /\ Goto("process", "loop")
  /\ UNCHANGED <<status, closer, micVars, queueVars, bufVars, timerVars>>

(* printTimer->Cancel() on every way out but the first.                    *)
CancelTimer ==
  /\ \/ Goto("exit", "cancel") /\ printTimer!CancelFlag
     \/ Goto("cancel", "cancel") /\ printTimer!CancelWait
     \/ Goto("cancel", "done") /\ printTimer!CancelJoin
  /\ UNCHANGED <<status, closer, micVars, queueVars, bufVars>>

WorkingLoop ==
  \/ Open \/ StartTimer
  \/ LoopEnd \/ Look \/ Clear \/ Receive \/ Got \/ Process \/ ProcessEnd
  \/ CancelTimer

(* The timer's thread, whose callback is statistics.                       *)
Timer ==
  /\ printTimer!TimerThread
  /\ UNCHANGED <<status, pc, closer, micVars, queueVars, bufVars>>

Next ==
  \/ \E v \in {"on", "off"} : SetMicType(v)
  \/ SetMicNeedClear \/ Close \/ CloseEnd \/ GetBuffer
  \/ \E p \in Packet : Arrive(p)
  \/ WorkingLoop
  \/ Timer

Spec == Init /\ [][Next]_vars

(* The threads run, time passes for the timer, and a close under way goes  *)
(* on; nobody has to switch, to close or to send.                          *)
Fairness ==
  /\ WF_vars(WorkingLoop) /\ WF_vars(Timer)
  /\ WF_vars(SetMicNeedClear) /\ WF_vars(CloseEnd)

FairSpec == Spec /\ Fairness

-----------------------------------------------------------------------------
TypeOK ==
  /\ status \in {"run", "down", "end", "exce"}
  /\ pc \in {"open", "failed", "timer", "loop", "clear", "recv", "got", "process", "exit",
             "cancel", "done"}
  /\ closer \in {"none", "join", "end"}
  /\ micType \in {"on", "off"} /\ micOpenNeedClear \in BOOLEAN /\ micSet \in BOOLEAN
  /\ recvRtpQueue \in Seq(Packet) /\ recvQueue \in Seq(Packet)
  /\ lastSsrc \in Ssrc \cup {0}
  /\ srcBuffer \in Seq(Frame) /\ Len(srcBuffer) <= Cap + 1
  /\ arrived \in 1..MaxFrame
  /\ timer \in {"idle", "wait", "expired", "callback", "rearm", "aborted", "exit"}
  /\ periodic \in BOOLEAN /\ owner \in {"new", "running", "flagged", "joining", "gone"}
  /\ late \in 0..2

(* LockedStream: however sources and packets that do not decode follow one *)
(* another, what waits in the buffer is of the first source that was       *)
(* decoded. The exception is the source 0, which locks nothing: one more   *)
(* source is decoded after it, and its frames wait behind those of 0,      *)
(* never among them.                                                       *)
LockedStream ==
  \A i, j \in DOMAIN srcBuffer :
    /\ srcBuffer[i].ssrc \in {0, lastSsrc}
    /\ i < j /\ srcBuffer[j].ssrc = 0 => srcBuffer[i].ssrc = 0

(* CallbackInLife: the statistics callback, which works on the variables   *)
(* of workingLoop, never runs after workingLoop has returned, and close()  *)
(* waits for one more callback at most.                                    *)
CallbackInLife == (pc = "done" => timer = "exit") /\ late <= 1

(* MuteDrains: after the microphone is closed the buffer is emptied, also  *)
(* if packets were being decoded at that moment.                           *)
MuteDrains ==
  (MicOff /\ Ready /\ status = "run")
    ~> (srcBuffer = <<>> \/ ~MicOff \/ status # "run")

(* ChannelCloses: close() returns, wherever the thread and its timer are,  *)
(* also if the thread gave up before or gives up meanwhile.                *)
ChannelCloses == closer = "join" ~> closer = "end"
=============================================================================
