------------------------- MODULE AudioChannelProofs -------------------------
(***************************************************************************)
(* For every cap, set of sources and length of queue: the buffer of a      *)
(* channel is bounded and, the source 0 apart, of one source, and its      *)
(* statistics callback stays within the life of its thread. The detailed   *)
(* channel implements the one the rest of the MPU sees: every step of its  *)
(* thread, callers, timer and closer is a step of AudioChannelSeen's       *)
(* specification of a MediaProcess channel, or none.                       *)
(***************************************************************************)
EXTENDS AudioChannelSeen, SequenceTheorems, TLAPS

(* The buffer that a frame is put behind is over the cap by one at most,   *)
(* the half that is given up is not empty, and what is kept is the end of  *)
(* the buffer, in its order.                                               *)
LEMMA KeptIsShort ==
  ASSUME TypeOK
  PROVE  /\ Kept \in Seq(Frame) /\ Len(Kept) <= Cap /\ Len(Kept) <= Len(srcBuffer)
         /\ \A i \in 1 .. Len(Kept) : Kept[i] = srcBuffer[Len(srcBuffer) - Len(Kept) + i]
<1> DEFINE n == Len(srcBuffer)  m == n \div 2 + 1
<1>1. n \in Nat /\ n <= Cap + 1 /\ Cap \in Nat \ {0} /\ srcBuffer \in Seq(Frame)
  BY LenProperties, AudioChannelAssumption DEF TypeOK
<1>2. CASE n <= Cap
  <2>1. Kept = srcBuffer /\ \A i \in 1 .. n : n - n + i = i
    BY <1>1, <1>2 DEF Kept
  <2> QED
    BY <2>1, <1>1, <1>2
<1>3. CASE n > Cap /\ micOpenNeedClear
  <2>1. Kept = <<>>
    BY <1>1, <1>3 DEF Kept
  <2> QED
    BY <2>1, <1>1
<1>4. CASE n > Cap /\ ~micOpenNeedClear
  <2>1. Kept = SubSeq(srcBuffer, m, n)
    BY <1>4, <1>1 DEF Kept
  <2>2. n = Cap + 1 /\ m \in 2 .. n
    BY <1>1, <1>4
  <2>3. \A i \in m .. n : srcBuffer[i] \in Frame
    BY <1>1, <2>2, ElementOfSeq
  <2>4. /\ SubSeq(srcBuffer, m, n) \in Seq(Frame)
        /\ Len(SubSeq(srcBuffer, m, n)) = n - m + 1
        /\ \A i \in 1 .. n - m + 1 : SubSeq(srcBuffer, m, n)[i] = srcBuffer[m + i - 1]
    <3> HIDE DEF m, n
    <3> QED
      BY <2>2, <2>3, <1>1, SubSeqProperties
  <2>5. \A i \in 1 .. n - m + 1 : m + i - 1 = n - (n - m + 1) + i
    BY <1>1, <2>2
  <2>6. n - m + 1 <= Cap /\ n - m + 1 <= n
    BY <1>1, <2>2
  <2> HIDE DEF m, n
  <2> QED
    BY <2>1, <2>4, <2>5, <2>6 DEF n
<1> QED
  BY <1>1, <1>2, <1>3, <1>4

(* A frame that is put into the buffer leaves it bounded and in order: if  *)
(* no source is locked all before it are of 0, and if one is it is the     *)
(* frame's.                                                                *)
LEMMA FrameStep ==
  ASSUME TypeOK, LockedStream, NEW p \in Packet, ProcessFrame(p)
  PROVE  /\ srcBuffer' \in Seq(Frame) /\ Len(srcBuffer') <= Cap + 1
         /\ lastSsrc' \in Ssrc \cup {0} /\ arrived' \in 1 .. MaxFrame
         /\ micOpenNeedClear' \in BOOLEAN
         /\ LockedStream'
<1> DEFINE f == [ssrc |-> p.ssrc, n |-> arrived]  k == Len(Kept)  d == Len(srcBuffer) - k
<1>1. p.ssrc \in Ssrc /\ f \in Frame /\ f.ssrc = p.ssrc
  BY DEF Packet, ProcessFrame, Frame, TypeOK
<1>2. /\ Kept \in Seq(Frame) /\ k \in Nat /\ k <= Cap
      /\ Len(srcBuffer) \in Nat /\ d \in Nat
      /\ \A i \in 1 .. k : Kept[i] = srcBuffer[d + i]
  BY KeptIsShort, LenProperties DEF TypeOK
<1>3. srcBuffer' = Append(Kept, f)
  BY DEF ProcessFrame
<1>4. /\ srcBuffer' \in Seq(Frame) /\ Len(srcBuffer') = k + 1
      /\ \A i \in 1 .. k : srcBuffer'[i] = Kept[i]
      /\ srcBuffer'[k + 1] = f
  BY <1>1, <1>2, <1>3
<1>5. lastSsrc' = p.ssrc /\ (lastSsrc = 0 \/ lastSsrc = p.ssrc)
  BY DEF ProcessFrame, Foreign
<1>6. \A i \in 1 .. k : /\ d + i \in DOMAIN srcBuffer
                        /\ srcBuffer'[i] = srcBuffer[d + i]
  BY <1>2, <1>4, LenProperties DEF TypeOK
<1>7. \A i \in 1 .. k : srcBuffer'[i].ssrc \in {0, p.ssrc}
  BY <1>5, <1>6 DEF LockedStream
<1>8. \A i, j \in 1 .. k : i < j /\ srcBuffer'[j].ssrc = 0 => srcBuffer'[i].ssrc = 0
  <2> SUFFICES ASSUME NEW i \in 1 .. k, NEW j \in 1 .. k, i < j, srcBuffer'[j].ssrc = 0
               PROVE  srcBuffer'[i].ssrc = 0
    OBVIOUS
  <2>1. d + i < d + j
    BY <1>2
  <2> QED
    BY <2>1, <1>6 DEF LockedStream
<1>9. \A i, j \in 1 .. k + 1 :
        /\ srcBuffer'[i].ssrc \in {0, p.ssrc}
        /\ i < j /\ srcBuffer'[j].ssrc = 0 => srcBuffer'[i].ssrc = 0
  <2> SUFFICES ASSUME NEW i \in 1 .. k + 1, NEW j \in 1 .. k + 1
               PROVE  /\ srcBuffer'[i].ssrc \in {0, p.ssrc}
                      /\ i < j /\ srcBuffer'[j].ssrc = 0 => srcBuffer'[i].ssrc = 0
    OBVIOUS
  <2>1. (i \in 1 .. k \/ i = k + 1) /\ (j \in 1 .. k \/ j = k + 1) /\ (i < j => i \in 1 .. k)
    BY <1>2
  <2>2. srcBuffer'[i].ssrc \in {0, p.ssrc}
    BY <2>1, <1>1, <1>4, <1>7
  <2>3. ASSUME i < j, srcBuffer'[j].ssrc = 0 PROVE srcBuffer'[i].ssrc = 0
    <3>1. CASE j \in 1 .. k
      BY <2>1, <2>3, <3>1, <1>8
    <3>2. CASE j = k + 1
      BY <2>1, <2>3, <3>2, <1>1, <1>4, <1>7
    <3> QED
      BY <2>1, <3>1, <3>2
  <2> QED
    BY <2>2, <2>3
<1>10. LockedStream'
  BY <1>4, <1>5, <1>9, LenProperties DEF LockedStream
<1>11. arrived' \in 1 .. MaxFrame
  BY AudioChannelAssumption DEF ProcessFrame, TypeOK
<1>12. micOpenNeedClear' \in BOOLEAN /\ lastSsrc' \in Ssrc \cup {0}
  BY <1>1, <1>5 DEF ProcessFrame
<1> QED
  BY <1>2, <1>4, <1>10, <1>11, <1>12, AudioChannelAssumption

-----------------------------------------------------------------------------
(* Type correctness and LockedStream, which are proved together: that the  *)
(* order survives the cut needs the type of the buffer.                    *)
BufferInv == TypeOK /\ LockedStream

LEMMA InitBuffer == Init => BufferInv
<1> SUFFICES ASSUME Init PROVE BufferInv
  OBVIOUS
<1>1. srcBuffer \in Seq(Frame) /\ Len(srcBuffer) <= Cap + 1 /\ LockedStream
  BY AudioChannelAssumption DEF Init, LockedStream
<1>2. recvRtpQueue \in Seq(Packet) /\ recvQueue \in Seq(Packet) /\ arrived \in 1..MaxFrame
  BY AudioChannelAssumption DEF Init
<1>3. micOpenNeedClear \in BOOLEAN /\ micSet \in BOOLEAN /\ periodic \in BOOLEAN
  BY Zenon DEF Init, printTimer!Init
<1>4. /\ status = "run" /\ pc = "open" /\ closer = "none" /\ micType = "off"
      /\ lastSsrc = 0 /\ timer = "idle" /\ owner = "new" /\ late = 0
  BY Zenon DEF Init, printTimer!Init
<1>5. TypeOK
  BY <1>1, <1>2, <1>3, <1>4 DEF TypeOK
<1> QED
  BY <1>1, <1>5 DEF BufferInv

LEMMA TimerStep ==
  ASSUME TypeOK, printTimer!TimerThread
  PROVE  /\ timer' \in {"idle", "wait", "expired", "callback", "rearm", "aborted", "exit"}
         /\ late' \in 0 .. 2 /\ periodic' = periodic /\ owner' = owner
BY DEF TypeOK, printTimer!TimerThread, printTimer!Expire, printTimer!Trigger,
       printTimer!TestFlag, printTimer!Rearm, printTimer!Abort

LEMMA StepBuffer == BufferInv /\ [Next]_vars => BufferInv'
<1> SUFFICES ASSUME BufferInv, [Next]_vars PROVE BufferInv'
  OBVIOUS
<1> USE AudioChannelAssumption
<1>1. CASE \E v \in {"on", "off"} : SetMicType(v)
  <2>1. /\ UNCHANGED <<status, pc, closer, micOpenNeedClear, queueVars, bufVars, timerVars>>
        /\ micType' \in {"on", "off"} /\ micSet' \in BOOLEAN
    BY <1>1 DEF SetMicType
  <2> QED
    BY <2>1 DEF queueVars, bufVars, timerVars, BufferInv, TypeOK, LockedStream
<1>2. CASE SetMicNeedClear \/ Close \/ CloseEnd
  <2>1. /\ UNCHANGED <<pc, micType, queueVars, bufVars, timerVars>>
        /\ status' \in {status, "down", "end"} /\ closer' \in {closer, "join", "end"}
    BY <1>2 DEF SetMicNeedClear, Close, CloseEnd, micVars
  <2>2. LockedStream'
    BY <2>1 DEF bufVars, BufferInv, LockedStream
  <2>3. micOpenNeedClear' \in BOOLEAN /\ micSet' \in BOOLEAN
    BY <1>2, Zenon DEF SetMicNeedClear, Close, CloseEnd, micVars, BufferInv, TypeOK
  <2>4. TypeOK'
    BY <2>1, <2>3 DEF queueVars, bufVars, timerVars, BufferInv, TypeOK
  <2> QED
    BY <2>2, <2>4 DEF BufferInv
<1>3. CASE GetBuffer
  <2>1. /\ srcBuffer' \in Seq(Frame) /\ Len(srcBuffer') = Len(srcBuffer) - 1
        /\ \A i \in 1 .. Len(srcBuffer') : srcBuffer'[i] = srcBuffer[i + 1]
    BY <1>3, HeadTailProperties DEF GetBuffer, BufferInv, TypeOK
  <2>2. Len(srcBuffer) \in Nat /\ DOMAIN srcBuffer = 1 .. Len(srcBuffer)
        /\ DOMAIN srcBuffer' = 1 .. Len(srcBuffer')
    BY <2>1, LenProperties DEF BufferInv, TypeOK
  <2>3. lastSsrc' = lastSsrc
    BY <1>3 DEF GetBuffer
  <2>4. \A i \in 1 .. Len(srcBuffer') : i + 1 \in 1 .. Len(srcBuffer)
    BY <2>1, <2>2
  <2>5. \A i, j \in 1 .. Len(srcBuffer) :
          /\ srcBuffer[i].ssrc \in {0, lastSsrc}
          /\ i < j /\ srcBuffer[j].ssrc = 0 => srcBuffer[i].ssrc = 0
    BY <2>2 DEF LockedStream, BufferInv
  <2>6. \A i, j \in 1 .. Len(srcBuffer') :
          /\ srcBuffer'[i].ssrc \in {0, lastSsrc}
          /\ i < j /\ srcBuffer'[j].ssrc = 0 => srcBuffer'[i].ssrc = 0
    <3>1. \A i, j \in 1 .. Len(srcBuffer') : i < j => i + 1 < j + 1
      BY <2>2
    <3> QED
      BY <3>1, <2>1, <2>4, <2>5
  <2>7. LockedStream'
    BY <2>2, <2>3, <2>6 DEF LockedStream
  <2>8. TypeOK'
    BY <1>3, <2>1, <2>2 DEF GetBuffer, micVars, queueVars, timerVars, BufferInv, TypeOK
  <2> QED
    BY <2>7, <2>8 DEF BufferInv
<1>4. CASE \E p \in Packet : Arrive(p)
  BY <1>4 DEF Arrive, micVars, bufVars, timerVars, BufferInv, TypeOK, LockedStream
<1>5. CASE Open \/ LoopEnd \/ Look \/ Got \/ ProcessEnd
  BY <1>5 DEF Open, LoopEnd, Look, Got, ProcessEnd, Goto, micVars, queueVars, bufVars, timerVars,
              BufferInv, TypeOK, LockedStream
<1>6. CASE StartTimer
  <2>1. UNCHANGED <<closer, micVars, queueVars, bufVars>>
    BY <1>6 DEF StartTimer
  <2>2. pc' \in {"loop", "failed"} /\ status' \in {status, "exce"}
    BY <1>6, Zenon DEF StartTimer, Goto
  <2>3. \/ printTimer!Start \/ UNCHANGED timerVars
    BY <1>6, Zenon DEF StartTimer
  <2>4. /\ timer' \in {timer, "wait"} /\ owner' \in {owner, "running"} /\ late' = late
        /\ periodic' \in BOOLEAN
    BY <2>3 DEF printTimer!Start, timerVars, BufferInv, TypeOK
  <2>5. LockedStream'
    BY <2>1 DEF bufVars, BufferInv, LockedStream
  <2>6. TypeOK'
    BY <2>1, <2>2, <2>4 DEF micVars, queueVars, bufVars, BufferInv, TypeOK
  <2> QED
    BY <2>5, <2>6 DEF BufferInv
<1>7. CASE Clear
  <2>1. srcBuffer' = <<>>
    BY <1>7 DEF Clear
  <2>2. srcBuffer' \in Seq(Frame) /\ Len(srcBuffer') <= Cap + 1 /\ LockedStream'
    BY <2>1 DEF LockedStream
  <2>3. TypeOK'
    BY <1>7, <2>2 DEF Clear, Goto, micVars, queueVars, timerVars, BufferInv, TypeOK
  <2> QED
    BY <2>2, <2>3 DEF BufferInv
<1>8. CASE Receive
  BY <1>8 DEF Receive, Goto, micVars, queueVars, bufVars, timerVars, BufferInv, TypeOK, LockedStream
<1>9. CASE Process
  <2> DEFINE p == Head(recvQueue)
  <2>1. recvQueue \in Seq(Packet) /\ recvQueue # <<>>
    BY <1>9 DEF Process, BufferInv, TypeOK
  <2>2. p \in Packet /\ Tail(recvQueue) \in Seq(Packet)
    BY <2>1, HeadTailProperties
  <2>3. recvQueue' \in Seq(Packet)
    BY <1>9, <2>1, <2>2 DEF Process
  <2>4. /\ pc' \in {"process", "exit"} /\ status' \in {status, "exce"}
        /\ UNCHANGED <<closer, recvRtpQueue, timerVars>>
    BY <1>9 DEF Process
  <2>5. CASE ProcessFrame(p)
    <3>1. /\ srcBuffer' \in Seq(Frame) /\ Len(srcBuffer') <= Cap + 1
          /\ lastSsrc' \in Ssrc \cup {0} /\ arrived' \in 1 .. MaxFrame
          /\ micOpenNeedClear' \in BOOLEAN /\ LockedStream'
      BY <2>2, <2>5, FrameStep DEF BufferInv
    <3>2. micType' = micType /\ micSet' = micSet
      BY <2>5 DEF ProcessFrame
    <3> QED
      BY <2>3, <2>4, <3>1, <3>2 DEF timerVars, BufferInv, TypeOK
  <2>6. CASE UNCHANGED <<micVars, bufVars>>
    BY <2>3, <2>4, <2>6 DEF micVars, bufVars, timerVars, BufferInv, TypeOK, LockedStream
  <2> QED
    BY <1>9, <2>5, <2>6 DEF Process
<1>10. CASE CancelTimer
  <2>1. UNCHANGED <<status, closer, micVars, queueVars, bufVars>> /\ pc' \in {"cancel", "done"}
    BY <1>10 DEF CancelTimer, Goto
  <2>2. /\ timer' \in {timer, "aborted"} /\ periodic' \in BOOLEAN /\ late' = late
        /\ owner' \in {"flagged", "joining", "gone"}
    BY <1>10 DEF CancelTimer, printTimer!CancelFlag, printTimer!CancelWait,
                 printTimer!CancelJoin, BufferInv, TypeOK
  <2> QED
    BY <2>1, <2>2 DEF micVars, queueVars, bufVars, BufferInv, TypeOK, LockedStream
<1>11. CASE Timer
  <2>1. UNCHANGED <<status, pc, closer, micVars, queueVars, bufVars>>
    BY <1>11 DEF Timer
  <2> QED
    BY <1>11, <2>1, TimerStep DEF Timer, micVars, queueVars, bufVars, BufferInv, TypeOK, LockedStream
<1>12. CASE UNCHANGED vars
  BY <1>12 DEF vars, micVars, queueVars, bufVars, timerVars, BufferInv, TypeOK, LockedStream
<1> QED
  BY <1>1, <1>2, <1>3, <1>4, <1>5, <1>6, <1>7, <1>8, <1>9, <1>10, <1>11, <1>12
  DEF Next, WorkingLoop

(* TypeCorrect: the variables keep their types, and the buffer never holds *)
(* more than one frame over the cap, whatever the mixer takes.             *)
THEOREM TypeCorrect == Spec => []TypeOK
<1>1. BufferInv => TypeOK
  BY DEF BufferInv
<1> QED
  BY InitBuffer, StepBuffer, <1>1, PTL DEF Spec

(* BufferIsLocked: what is buffered is of the first source decoded and,    *)
(* before it, of the source 0 if that sends too, however many send to the  *)
(* port and in whatever order.                                             *)
THEOREM BufferIsLocked == Spec => []LockedStream
<1>1. BufferInv => LockedStream
  BY DEF BufferInv
<1> QED
  BY InitBuffer, StepBuffer, <1>1, PTL DEF Spec

-----------------------------------------------------------------------------
(* The inductive invariant of the timer: how far Cancel is, where the      *)
(* timer's thread may be then, and that a callback begun after the flag    *)
(* was taken down finds it down.                                           *)
TimerInv ==
  /\ owner = "new" <=> pc \in {"open", "failed", "timer"}
  /\ owner \in {"flagged", "joining"} <=> pc = "cancel"
  /\ owner = "gone" <=> pc = "done"
  /\ owner \in {"new", "running", "flagged", "joining", "gone"}
  /\ periodic <=> owner \in {"new", "running"}
  /\ periodic \in BOOLEAN
  /\ timer = "exit" => ~periodic
  /\ timer = "aborted" => owner \in {"joining", "gone"} /\ late = 0
  /\ owner = "gone" => timer = "exit"
  /\ late \in {0, 1}
  /\ owner \in {"new", "running"} => late = 0
  /\ late = 1 => timer \in {"callback", "exit"}

LEMMA InitTimer == Init => TimerInv
BY DEF Init, printTimer!Init, TimerInv

LEMMA StepTimer == TimerInv /\ [Next]_vars => TimerInv'
<1> SUFFICES ASSUME TimerInv, [Next]_vars PROVE TimerInv'
  OBVIOUS
<1>1. ASSUME NEW v \in {"on", "off"}, SetMicType(v) PROVE TimerInv'
  BY <1>1 DEF SetMicType, timerVars, TimerInv
<1>2. CASE SetMicNeedClear \/ Close \/ CloseEnd \/ GetBuffer
  BY <1>2 DEF SetMicNeedClear, Close, CloseEnd, GetBuffer, timerVars, TimerInv
<1>3. ASSUME NEW p \in Packet, Arrive(p) PROVE TimerInv'
  BY <1>3 DEF Arrive, timerVars, TimerInv
<1>4. CASE Open
  BY <1>4 DEF Open, Goto, timerVars, TimerInv
<1>5. CASE LoopEnd \/ Look \/ Clear \/ Receive \/ Got \/ Process \/ ProcessEnd
  <2>1. /\ pc \in {"loop", "clear", "recv", "got", "process"}
        /\ pc' \in {"loop", "clear", "recv", "got", "process", "exit"}
        /\ UNCHANGED timerVars
    BY <1>5 DEF LoopEnd, Look, Clear, Receive, Got, Process, ProcessEnd, Goto
  <2> QED
    BY <2>1 DEF timerVars, TimerInv
<1>6. CASE StartTimer
  <2>1. CASE Goto("timer", "loop") /\ printTimer!Start
    BY <2>1 DEF Goto, printTimer!Start, TimerInv
  <2>2. CASE Goto("timer", "failed") /\ UNCHANGED timerVars
    BY <2>2 DEF Goto, timerVars, TimerInv
  <2> QED
    BY <1>6, <2>1, <2>2, Zenon DEF StartTimer
<1>7. CASE CancelTimer
  <2>1. CASE Goto("exit", "cancel") /\ printTimer!CancelFlag
    BY <2>1 DEF Goto, printTimer!CancelFlag, TimerInv
  <2>2. CASE Goto("cancel", "cancel") /\ printTimer!CancelWait
    BY <2>2 DEF Goto, printTimer!CancelWait, TimerInv
  <2>3. CASE Goto("cancel", "done") /\ printTimer!CancelJoin
    BY <2>3 DEF Goto, printTimer!CancelJoin, TimerInv
  <2> QED
    BY <1>7, <2>1, <2>2, <2>3 DEF CancelTimer
<1>8. CASE Timer
  <2>1. pc' = pc /\ owner' = owner /\ periodic' = periodic
    BY <1>8 DEF Timer, printTimer!TimerThread, printTimer!Expire, printTimer!Trigger,
                printTimer!TestFlag, printTimer!Rearm, printTimer!Abort
  <2>2. CASE printTimer!Expire \/ printTimer!Rearm \/ printTimer!Abort
    BY <2>1, <2>2 DEF printTimer!Expire, printTimer!Rearm, printTimer!Abort, TimerInv
  <2>3. CASE printTimer!Trigger
    BY <2>1, <2>3 DEF printTimer!Trigger, TimerInv
  <2>4. CASE printTimer!TestFlag
    BY <2>1, <2>4 DEF printTimer!TestFlag, TimerInv
  <2> QED
    BY <1>8, <2>2, <2>3, <2>4 DEF Timer, printTimer!TimerThread
<1>9. CASE UNCHANGED vars
  BY <1>9 DEF vars, timerVars, TimerInv
<1> QED
  BY <1>1, <1>2, <1>3, <1>4, <1>5, <1>6, <1>7, <1>8, <1>9 DEF Next, WorkingLoop

(* TimerWithinLife: the callback never runs after workingLoop returned,    *)
(* and Cancel waits for at most one more, wherever the two threads are.    *)
THEOREM TimerWithinLife == Spec => []CallbackInLife
<1>1. TimerInv => CallbackInLife
  BY DEF TimerInv, CallbackInLife
<1> QED
  BY InitTimer, StepTimer, <1>1, PTL DEF Spec

-----------------------------------------------------------------------------
(***************************************************************************)
(* AsSeen: the reduction of a channel in MediaProcess.  It needs of the    *)
(* channel that, while nobody closes it, its thread has left the loop when *)
(* the status is no longer "run".                                          *)
(***************************************************************************)
LifeInv ==
  closer = "none" =>
    /\ status \in {"run", "exce"}
    /\ status = "exce" => pc \in {"failed", "exit", "cancel", "done"}

LEMMA InitLife == Init => LifeInv
BY DEF Init, LifeInv

LEMMA StepLife == LifeInv /\ [Next]_vars => LifeInv'
<1> SUFFICES ASSUME LifeInv, [Next]_vars PROVE LifeInv'
  OBVIOUS
<1>1. ASSUME NEW v \in {"on", "off"}, SetMicType(v) PROVE LifeInv'
  BY <1>1 DEF SetMicType, LifeInv
<1>2. CASE SetMicNeedClear \/ Close \/ CloseEnd \/ GetBuffer
  BY <1>2 DEF SetMicNeedClear, Close, CloseEnd, GetBuffer, LifeInv
<1>3. ASSUME NEW p \in Packet, Arrive(p) PROVE LifeInv'
  BY <1>3 DEF Arrive, LifeInv
<1>4. CASE WorkingLoop
  <2>1. CASE Open \/ StartTimer
    BY <2>1 DEF Open, StartTimer, Goto, LifeInv
  <2>2. CASE LoopEnd \/ Look \/ Clear \/ Receive \/ Got \/ Process \/ ProcessEnd
    <3>1. /\ pc \in {"loop", "clear", "recv", "got", "process"}
          /\ closer' = closer
          /\ \/ status' = status
             \/ status' = "exce" /\ pc' = "exit"
      BY <2>2 DEF LoopEnd, Look, Clear, Receive, Got, Process, ProcessEnd, Goto
    <3> QED
      BY <3>1 DEF LifeInv
  <2>3. CASE CancelTimer
    BY <2>3 DEF CancelTimer, Goto, LifeInv
  <2> QED
    BY <1>4, <2>1, <2>2, <2>3 DEF WorkingLoop
<1>5. CASE Timer
  BY <1>5 DEF Timer, LifeInv
<1>6. CASE UNCHANGED vars
  BY <1>6 DEF vars, LifeInv
<1> QED
  BY <1>1, <1>2, <1>3, <1>4, <1>5, <1>6 DEF Next

(* The numbers of a sequence of frames.                                    *)
Numbers(s) == [i \in DOMAIN s |-> s[i].n]

LEMMA NumbersAre ==
  ASSUME NEW s \in Seq(Frame)
  PROVE  /\ Numbers(s) \in Seq(1 .. MaxFrame) /\ Len(Numbers(s)) = Len(s)
         /\ Numbers(s) = <<>> <=> s = <<>>
<1>1. /\ Len(s) \in Nat /\ DOMAIN s = 1 .. Len(s)
      /\ \A i \in 1 .. Len(s) : s[i].n \in 1 .. MaxFrame
  <2>1. Len(s) \in Nat /\ DOMAIN s = 1 .. Len(s)
    BY LenProperties
  <2>2. \A i \in 1 .. Len(s) : s[i] \in Frame
    BY ElementOfSeq
  <2>3. \A f \in Frame : f.n \in 1 .. MaxFrame
    BY DEF Frame
  <2> QED
    BY <2>1, <2>2, <2>3
<1>2. Numbers(s) = [i \in 1 .. Len(s) |-> s[i].n]
  BY <1>1 DEF Numbers
<1>3. Numbers(s) \in Seq(1 .. MaxFrame) /\ DOMAIN Numbers(s) = 1 .. Len(s)
  BY <1>1, <1>2, SeqDef
<1>4. Len(Numbers(s)) = Len(s)
  BY <1>1, <1>3, LenProperties
<1> QED
  BY <1>3, <1>4, EmptySeq

LEMMA NumbersOfAppend ==
  ASSUME NEW s \in Seq(Frame), NEW f \in Frame
  PROVE  Numbers(Append(s, f)) = Append(Numbers(s), f.n)
<1>1. PICK m : m = Len(s) /\ m \in Nat /\ DOMAIN s = 1 .. m
  BY LenProperties
<1>2. PICK o : o = Append(s, f)
  OBVIOUS
<1>3. /\ o \in Seq(Frame) /\ Len(o) = m + 1 /\ DOMAIN o = 1 .. m + 1
      /\ o[m + 1] = f /\ \A i \in 1 .. m : o[i] = s[i]
  BY <1>1, <1>2, AppendProperties, LenProperties
<1>4. /\ Numbers(s) \in Seq(1 .. MaxFrame) /\ Len(Numbers(s)) = m
      /\ \A i \in 1 .. m : Numbers(s)[i] = s[i].n
  BY <1>1, NumbersAre DEF Numbers
<1>5. f.n \in 1 .. MaxFrame
  BY DEF Frame
<1>6. PICK a : a = Append(Numbers(s), f.n)
  OBVIOUS
<1>7. /\ a \in Seq(1 .. MaxFrame) /\ Len(a) = m + 1
      /\ a[m + 1] = f.n /\ \A i \in 1 .. m : a[i] = s[i].n
  BY <1>4, <1>5, <1>6, AppendProperties
<1>8. PICK b : b = Numbers(o)
  OBVIOUS
<1>9. /\ b \in Seq(1 .. MaxFrame) /\ Len(b) = m + 1
      /\ b[m + 1] = f.n /\ \A i \in 1 .. m : b[i] = s[i].n
  <2>1. \A i \in 1 .. m + 1 : b[i] = o[i].n
    BY <1>3, <1>8 DEF Numbers
  <2>2. m + 1 \in 1 .. m + 1 /\ \A i \in 1 .. m : i \in 1 .. m + 1
    BY <1>1
  <2> QED
    BY <1>3, <1>8, <2>1, <2>2, NumbersAre
<1>10. \A i \in 1 .. m + 1 : i = m + 1 \/ i \in 1 .. m
  BY <1>1
<1>11. \A i \in 1 .. Len(a) : a[i] = b[i]
  BY <1>7, <1>9, <1>10
<1>12. a = b
  BY <1>7, <1>9, <1>11, SeqEqual
<1> QED
  BY <1>2, <1>6, <1>8, <1>12

LEMMA NumbersOfHalf ==
  ASSUME NEW s \in Seq(Frame), NEW m \in 1 .. Len(s)
  PROVE  Numbers(SubSeq(s, m, Len(s))) = SubSeq(Numbers(s), m, Len(s))
<1>1. PICK n : n = Len(s) /\ n \in Nat /\ DOMAIN s = 1 .. n
  BY LenProperties
<1>2. PICK t : t = SubSeq(s, m, n)
  OBVIOUS
<1>3. \A i \in m .. n : s[i] \in Frame /\ i \in 1 .. n
  BY <1>1, ElementOfSeq
<1>4. /\ t \in Seq(Frame) /\ Len(t) = n - m + 1
      /\ \A i \in 1 .. n - m + 1 : t[i] = s[m + i - 1]
  BY <1>1, <1>2, <1>3, SubSeqProperties
<1>5. /\ Numbers(s) \in Seq(1 .. MaxFrame) /\ Len(Numbers(s)) = n
      /\ \A i \in 1 .. n : Numbers(s)[i] = s[i].n
  BY <1>1, NumbersAre DEF Numbers
<1>6. PICK a : a = SubSeq(Numbers(s), m, n)
  OBVIOUS
<1>7. \A i \in m .. n : Numbers(s)[i] \in 1 .. MaxFrame
  BY <1>3, <1>5, ElementOfSeq
<1>8. /\ a \in Seq(1 .. MaxFrame) /\ Len(a) = n - m + 1
      /\ \A i \in 1 .. n - m + 1 : a[i] = Numbers(s)[m + i - 1]
  BY <1>1, <1>5, <1>6, <1>7, SubSeqProperties
<1>9. PICK b : b = Numbers(t)
  OBVIOUS
<1>10. b \in Seq(1 .. MaxFrame) /\ Len(b) = n - m + 1
  BY <1>4, <1>9, NumbersAre
<1>11. \A i \in 1 .. n - m + 1 : b[i] = t[i].n
  BY <1>4, <1>9, LenProperties DEF Numbers
<1>12. \A i \in 1 .. n - m + 1 : m + i - 1 \in 1 .. n
  BY <1>1
<1>13. \A i \in 1 .. Len(a) : a[i] = b[i]
  BY <1>4, <1>5, <1>8, <1>11, <1>12
<1>14. a = b
  BY <1>8, <1>10, <1>13, SeqEqual
<1> QED
  BY <1>1, <1>2, <1>6, <1>9, <1>14

(* ProcessFrame is ChannelFrame: what it keeps of the buffer is one of the *)
(* two that ChannelFrame may keep, or all of a buffer within the cap.      *)
LEMMA FrameSeen ==
  ASSUME TypeOK, NEW p \in Packet, ProcessFrame(p), pc = "process", pc' = "process",
         closer = "none", closer' = "none"
  PROVE  Seen!ChannelFrame("channel")
<1> DEFINE n == Len(srcBuffer)  f == [ssrc |-> p.ssrc, n |-> arrived]
<1>1. f \in Frame /\ f.n = arrived
  BY DEF Packet, ProcessFrame, Frame, TypeOK
<1>2. /\ Kept \in Seq(Frame)
      /\ srcBuffer \in Seq(Frame) /\ Cap \in Nat
      /\ n \in Nat
  BY KeptIsShort, LenProperties, AudioChannelAssumption DEF TypeOK
<1>3. /\ srcBuffer' = Append(Kept, f)
      /\ arrived' = (arrived % MaxFrame) + 1
      /\ micType' = micType
  BY DEF ProcessFrame
<1> DEFINE b == Numbers(srcBuffer)
<1>4. Len(b) = n
  BY <1>2, NumbersAre
<1>5. Numbers(Kept) \in IF n > Cap THEN {<<>>, SubSeq(b, n \div 2 + 1, n)} ELSE {b}
  <2>1. CASE n <= Cap
    BY <1>2, <2>1 DEF Kept
  <2>2. CASE n > Cap
    <3>1. n \div 2 + 1 \in 1 .. n
      BY <1>2, <2>2
    <3>2. Numbers(SubSeq(srcBuffer, n \div 2 + 1, n)) = SubSeq(b, n \div 2 + 1, n)
      BY <1>2, <3>1, NumbersOfHalf
    <3>3. Numbers(<<>>) = <<>>
      BY EmptySeq, NumbersAre
    <3>4. Kept \in {<<>>, SubSeq(srcBuffer, n \div 2 + 1, n)} /\ ~(n <= Cap)
      BY <1>2, <2>2 DEF Kept
    <3> HIDE DEF b, n
    <3> QED
      BY <2>2, <3>2, <3>3, <3>4
  <2> QED
    BY <1>2, <2>1, <2>2
<1>6. Numbers(srcBuffer') = Append(Numbers(Kept), arrived)
  BY <1>1, <1>2, <1>3, NumbersOfAppend
<1>7. /\ SeenBuffer = b /\ SeenBuffer' = Numbers(srcBuffer')
      /\ SeenMic = micType /\ SeenMic' = micType
      /\ SeenState = "receiving" /\ SeenState' = "receiving"
  BY <1>3 DEF SeenBuffer, SeenMic, SeenState, Numbers
<1> HIDE DEF b
<1>8. /\ Only(SeenState)["channel"] = "receiving"
      /\ Only(arrived') = [Only(arrived) EXCEPT !["channel"] = (@ % MaxFrame) + 1]
      /\ Only(SeenBuffer)["channel"] = b
      /\ \A kept : Only(Append(kept, arrived)) =
           [Only(SeenBuffer) EXCEPT !["channel"] = Append(kept, Only(arrived)["channel"])]
  BY <1>3, <1>7 DEF Only
<1>9. Only(SeenBuffer') =
        [Only(SeenBuffer) EXCEPT !["channel"] = Append(Numbers(Kept), Only(arrived)["channel"])]
  BY <1>6, <1>7, <1>8
<1> QED
  BY <1>4, <1>5, <1>7, <1>8, <1>9 DEF Seen!ChannelFrame, Seen!mixVars, Seen!roundVars, Seen!evVars
(* Every step is one of MediaProcess's channel, one of the MPU's own       *)
(* threads, or leaves the view alone.                                      *)
SeenStep ==
  \/ Seen!ChannelThread("channel")
  \/ Seen!ChannelFrame("channel")
  \/ Seen!ChannelFail("channel")
  \/ SeenByOthers
  \/ UNCHANGED SeenView

(* While the channel is being closed it stays absent.                      *)
LEMMA ClosedSeen ==
  ASSUME closer # "none", closer' # "none"
  PROVE  UNCHANGED SeenView
BY DEF SeenView, SeenState, SeenMic, SeenBuffer

(* The channel's thread opens, mutes, receives and fails as MediaProcess   *)
(* has it.                                                                 *)
LEMMA ThreadSeen ==
  ASSUME TypeOK, closer = "none", closer' = "none", micType' = micType, arrived' = arrived,
         \/ srcBuffer' = srcBuffer /\ SeenState' = SeenState
         \/ srcBuffer' = srcBuffer /\ SeenState = "opening"
              /\ SeenState' \in {"ready", "failed"}
         \/ srcBuffer' = srcBuffer /\ SeenState = "ready" /\ SeenState' = "muting"
              /\ micType = "off" /\ srcBuffer # <<>>
         \/ srcBuffer' = <<>> /\ SeenState = "muting" /\ SeenState' = "ready"
         \/ srcBuffer' = srcBuffer /\ SeenState = "ready" /\ SeenState' = "receiving"
              /\ micType = "on"
         \/ srcBuffer' = srcBuffer /\ SeenState = "receiving"
              /\ SeenState' \in {"ready", "exce"}
  PROVE  SeenStep
<1>1. /\ SeenMic = micType /\ SeenMic' = micType
      /\ SeenBuffer = Numbers(srcBuffer) /\ SeenBuffer' = Numbers(srcBuffer')
  BY DEF SeenMic, SeenBuffer, Numbers
<1>2. Numbers(<<>>) = <<>> /\ (Numbers(srcBuffer) = <<>> <=> srcBuffer = <<>>)
  BY NumbersAre, EmptySeq DEF TypeOK
<1>3. \A x, y : /\ Only(x)["channel"] = x
                /\ [Only(x) EXCEPT !["channel"] = y] = Only(y)
  BY DEF Only
<1> USE DEF Seen!mixVars, Seen!roundVars, Seen!evVars
<1>4. CASE srcBuffer' = srcBuffer /\ SeenState' = SeenState
  BY <1>1, <1>4 DEF SeenStep, SeenView
<1>5. CASE srcBuffer' = srcBuffer /\ SeenState = "opening" /\ SeenState' \in {"ready", "failed"}
  <2>1. Seen!ChannelOpen("channel")
    BY <1>1, <1>3, <1>5 DEF Seen!ChannelOpen
  <2> QED
    BY <2>1 DEF SeenStep, Seen!ChannelThread
<1>6. CASE srcBuffer' = srcBuffer /\ SeenState = "ready" /\ SeenState' = "muting"
             /\ micType = "off" /\ srcBuffer # <<>>
  <2>1. Seen!ChannelMute("channel")
    BY <1>1, <1>2, <1>3, <1>6 DEF Seen!ChannelMute
  <2> QED
    BY <2>1 DEF SeenStep, Seen!ChannelThread
<1>7. CASE srcBuffer' = <<>> /\ SeenState = "muting" /\ SeenState' = "ready"
  <2>1. Seen!ChannelMute("channel")
    BY <1>1, <1>2, <1>3, <1>7 DEF Seen!ChannelMute
  <2> QED
    BY <2>1 DEF SeenStep, Seen!ChannelThread
<1>8. CASE srcBuffer' = srcBuffer /\ SeenState = "ready" /\ SeenState' = "receiving"
             /\ micType = "on"
  <2>1. Seen!ChannelReceive("channel")
    BY <1>1, <1>3, <1>8 DEF Seen!ChannelReceive
  <2> QED
    BY <2>1 DEF SeenStep, Seen!ChannelThread
<1>9. CASE srcBuffer' = srcBuffer /\ SeenState = "receiving" /\ SeenState' \in {"ready", "exce"}
  <2>1. CASE SeenState' = "ready"
    <3>1. Seen!ChannelReceive("channel")
      BY <1>1, <1>3, <1>9, <2>1 DEF Seen!ChannelReceive
    <3> QED
      BY <3>1 DEF SeenStep, Seen!ChannelThread
  <2>2. CASE SeenState' = "exce"
    <3>1. Seen!ChannelFail("channel")
      BY <1>1, <1>3, <1>9, <2>2 DEF Seen!ChannelFail
    <3> QED
      BY <3>1 DEF SeenStep
  <2> QED
    BY <1>9, <2>1, <2>2
<1> QED
  BY <1>4, <1>5, <1>6, <1>7, <1>8, <1>9

LEMMA StepSeen == BufferInv /\ LifeInv /\ [Next]_vars => SeenStep
<1> SUFFICES ASSUME BufferInv, LifeInv, [Next]_vars PROVE SeenStep
  OBVIOUS
<1>0. TypeOK
  BY DEF BufferInv
<1>1. CASE \E v \in {"on", "off"} : SetMicType(v)
  BY <1>1 DEF SeenStep, SeenByOthers
<1>2. CASE Close \/ GetBuffer
  BY <1>2 DEF SeenStep, SeenByOthers
<1>3. CASE SetMicNeedClear
  BY <1>3 DEF SetMicNeedClear, bufVars, SeenStep, SeenView, SeenState, SeenMic, SeenBuffer
<1>4. CASE CloseEnd
  BY <1>4, ClosedSeen DEF CloseEnd, SeenStep
<1>5. CASE \E p \in Packet : Arrive(p)
  BY <1>5 DEF Arrive, micVars, bufVars, SeenStep, SeenView, SeenState, SeenMic, SeenBuffer
<1>6. CASE WorkingLoop
  <2>1. closer' = closer
    BY <1>6 DEF WorkingLoop, Open, StartTimer, LoopEnd, Look, Clear, Receive, Got, Process,
                ProcessEnd, CancelTimer
  <2>2. CASE closer # "none"
    BY <2>1, <2>2, ClosedSeen DEF SeenStep
  <2>3. CASE closer = "none"
    <3>1. closer' = "none"
      BY <2>1, <2>3
    <3>2. /\ status = "run" \/ pc \in {"failed", "exit", "cancel", "done"}
          /\ micType \in {"on", "off"}
      BY <1>0, <2>3 DEF LifeInv, TypeOK
    <3>3. CASE Open
      <4>1. /\ micType' = micType /\ arrived' = arrived /\ srcBuffer' = srcBuffer
            /\ pc = "open" /\ pc' \in {"timer", "failed"}
        BY <3>3 DEF Open, Goto, micVars, bufVars
      <4>2. SeenState = "opening" /\ SeenState' \in {"opening", "failed"}
        BY <2>3, <3>1, <4>1 DEF SeenState
      <4> QED
        BY <1>0, <2>3, <3>1, <4>1, <4>2, ThreadSeen
    <3>4. CASE StartTimer
      <4>1. /\ micType' = micType /\ arrived' = arrived /\ srcBuffer' = srcBuffer
            /\ pc = "timer" /\ pc' \in {"loop", "failed"}
        BY <3>4 DEF StartTimer, Goto, micVars, bufVars
      <4>2. SeenState = "opening" /\ SeenState' \in {"ready", "failed"}
        BY <2>3, <3>1, <4>1 DEF SeenState
      <4> QED
        BY <1>0, <2>3, <3>1, <4>1, <4>2, ThreadSeen
    <3>5. CASE LoopEnd
      BY <3>2, <3>5 DEF LoopEnd, Goto
    <3>6. CASE Look
      <4>1. /\ micType' = micType /\ arrived' = arrived /\ srcBuffer' = srcBuffer
            /\ pc = "loop"
            /\ \/ micType = "off" /\ srcBuffer # <<>> /\ pc' = "clear"
               \/ micType = "on" /\ pc' = "recv"
        BY <3>2, <3>6 DEF Look, Goto, MicOff, micVars, bufVars
      <4>2. /\ SeenState = "ready"
            /\ pc' = "clear" => SeenState' = "muting"
            /\ pc' = "recv" => SeenState' = "receiving"
        BY <2>3, <3>1, <4>1 DEF SeenState
      <4> QED
        BY <1>0, <2>3, <3>1, <4>1, <4>2, ThreadSeen
    <3>7. CASE Clear
      <4>1. /\ micType' = micType /\ arrived' = arrived /\ srcBuffer' = <<>>
            /\ pc = "clear" /\ pc' = "loop"
        BY <3>7 DEF Clear, Goto, micVars
      <4>2. SeenState = "muting" /\ SeenState' = "ready"
        BY <2>3, <3>1, <4>1 DEF SeenState
      <4> QED
        BY <1>0, <2>3, <3>1, <4>1, <4>2, ThreadSeen
    <3>8. CASE Receive \/ Got \/ ProcessEnd
      <4>1. /\ micType' = micType /\ arrived' = arrived /\ srcBuffer' = srcBuffer
            /\ pc \in {"recv", "got", "process"}
            /\ pc' \in {"recv", "got", "process", "loop", "exit"}
        BY <3>8 DEF Receive, Got, ProcessEnd, Goto, micVars, bufVars
      <4>2. /\ SeenState = "receiving"
            /\ SeenState' \in {"receiving", "ready", "exce"}
        BY <2>3, <3>1, <4>1 DEF SeenState
      <4> QED
        BY <1>0, <2>3, <3>1, <4>1, <4>2, ThreadSeen
    <3>9. CASE Process
      <4>1. CASE ProcessFrame(Head(recvQueue)) /\ pc' = pc
        <5>1. recvQueue \in Seq(Packet) /\ recvQueue # <<>> /\ pc = "process"
          BY <1>0, <3>9 DEF Process, TypeOK
        <5>2. Head(recvQueue) \in Packet
          BY <5>1, HeadTailProperties
        <5>3. Seen!ChannelFrame("channel")
          BY <1>0, <2>3, <3>1, <4>1, <5>1, <5>2, FrameSeen
        <5> QED
          BY <5>3 DEF SeenStep
      <4>2. CASE UNCHANGED <<micVars, bufVars>>
        <5>1. /\ micType' = micType /\ arrived' = arrived /\ srcBuffer' = srcBuffer
              /\ pc = "process" /\ pc' \in {"process", "exit"}
          BY <3>9, <4>2 DEF Process, micVars, bufVars
        <5>2. SeenState = "receiving" /\ SeenState' \in {"receiving", "exce"}
          BY <2>3, <3>1, <5>1 DEF SeenState
        <5> QED
          BY <1>0, <2>3, <3>1, <5>1, <5>2, ThreadSeen
      <4> QED
        BY <3>9, <4>1, <4>2 DEF Process
    <3>10. CASE CancelTimer
      <4>1. /\ micType' = micType /\ arrived' = arrived /\ srcBuffer' = srcBuffer
            /\ pc \in {"exit", "cancel"} /\ pc' \in {"cancel", "done"}
        BY <3>10 DEF CancelTimer, Goto, micVars, bufVars
      <4>2. SeenState = "exce" /\ SeenState' = "exce"
        BY <2>3, <3>1, <4>1 DEF SeenState
      <4> QED
        BY <1>0, <2>3, <3>1, <4>1, <4>2, ThreadSeen
    <3> QED
      BY <1>6, <3>3, <3>4, <3>5, <3>6, <3>7, <3>8, <3>9, <3>10 DEF WorkingLoop
  <2> QED
    BY <2>2, <2>3
<1>7. CASE Timer
  BY <1>7 DEF Timer, micVars, bufVars, SeenStep, SeenView, SeenState, SeenMic, SeenBuffer
<1>8. CASE UNCHANGED vars
  BY <1>8 DEF vars, micVars, bufVars, SeenStep, SeenView, SeenState, SeenMic, SeenBuffer
<1> QED
  BY <1>1, <1>2, <1>3, <1>4, <1>5, <1>6, <1>7, <1>8 DEF Next

(* ChannelAsSeen: MediaProcess's channel of seven states is a faithful     *)
(* reduction of workingLoop, for every cap, set of sources and order of    *)
(* packets, switches and timer expiries: each step of the channel either   *)
(* does not show or is one that MediaProcess has.                          *)
THEOREM ChannelAsSeen == Spec => AsSeen
<1>1. BufferInv /\ LifeInv /\ [Next]_vars =>
        [ \/ Seen!ChannelThread("channel")
          \/ Seen!ChannelFrame("channel")
          \/ Seen!ChannelFail("channel")
          \/ SeenByOthers ]_SeenView
  BY StepSeen, Zenon DEF SeenStep
<1> QED
  BY <1>1, InitBuffer, StepBuffer, InitLife, StepLife, PTL DEF Spec, AsSeen
=============================================================================
