-------------------------- MODULE JobControlProofs --------------------------
(***************************************************************************)
(* The job table never loses or duplicates an MPU, for any set of jobs,    *)
(* MPU objects and clients. The inductive invariant adds to OneOwner where *)
(* the AutoClose thread stands while a destructor runs, that an object     *)
(* which does not exist has no threads, and what a caller's local          *)
(* variables hold at each of its positions.                                *)
(*                                                                         *)
(* Then the other invariants, each with the invariant it needs: an MPU is  *)
(* told to stop once (StopOnce); runningJob is the number of existing      *)
(* MPUs, up to the step that creation and destruction lag behind           *)
(* (JobAccounting); and, when requests come from one thread and no loop    *)
(* throws, both loops of an MPU in "end" are joined or never started and   *)
(* no call goes through a freed object (EndMeansQuiet, NeverCrashes). With *)
(* two clients the code breaks EndMeansQuiet, as a run shows.              *)
(***************************************************************************)
EXTENDS JobControl, FiniteSetTheorems, SequenceTheorems, TLAPS

(* An MPU that does not exist has no event, work or stop thread.           *)
ThreadsOfLive ==
  \A m \in Mpu : ~Live(m) =>
    eventTh[m] = "none" /\ workTh[m] = "none" /\ stopTh[m] = "none" /\ dtor[m] = "none"

(* One destructor runs at a time, inside the scan of the closing set.      *)
CloserInv ==
  /\ todo \subseteq tmpCloseForm
  /\ \A m \in Mpu : Dying(m) => closer = "destroy"
  /\ \A m, n \in Mpu : Dying(m) /\ Dying(n) => m = n

(* What the local variables of a request hold where they are used.         *)
CallInv ==
  \A t \in Caller :
    /\ pc[t] \in {"report", "handOver", "deref", "push"} => held[t] \in Mpu
    /\ pc[t] \in {"emplace", "count"} => reqJob[t] \in Job

(* The event thread handles an event only while its batch has one.         *)
BatchInv == \A m \in Mpu : eventTh[m] \in {"act", "check"} => batch[m] # <<>>

IInv == TypeOK /\ OneOwner /\ ThreadsOfLive /\ CloserInv /\ CallInv /\ BatchInv

-----------------------------------------------------------------------------
LEMMA InitIInv == Init => IInv
<1> SUFFICES ASSUME Init PROVE IInv
  OBVIOUS
<1> USE JobControlAssumption DEF JobControlAssumption
<1>1. TypeOK
  BY DEF Init, TypeOK
<1>2. \A m \in Mpu : ~Live(m) /\ ~InTable(m) /\ ~InEnd(m) /\ ~Dying(m)
  BY DEF Init, Live, InTable, InEnd, Ending, Dying, Caller
<1>3. OneOwner
  BY <1>2 DEF Init, OneOwner, InTable, InEnd
<1>4. ThreadsOfLive /\ CloserInv /\ CallInv /\ BatchInv
  BY <1>2 DEF Init, ThreadsOfLive, CloserInv, CallInv, BatchInv, Caller
<1>5. QED
  BY <1>1, <1>3, <1>4 DEF IInv

(***************************************************************************)
(* Type correctness, and with it what the callers and the event threads    *)
(* know, action by action.                                                 *)
(***************************************************************************)
LocalInv == TypeOK /\ CallInv /\ BatchInv

LEMMA LocalStep == LocalInv /\ [Next]_vars => LocalInv'
<1> SUFFICES ASSUME LocalInv, [Next]_vars PROVE LocalInv'
  OBVIOUS
<1> USE DEF LocalInv, TypeOK, CallInv, BatchInv, Alive
<1>1. ASSUME NEW c \in Client, Request(c) PROVE LocalInv'
  <2>1. ASSUME NEW j \in Job, CreateLookup(c, j) PROVE LocalInv'
    BY <2>1 DEF CreateLookup, Goto, Caller, mcuVars, closeVars, mpuVars
  <2>2. ASSUME NEW j \in Job, FindJob(c, j) PROVE LocalInv'
    BY <2>2 DEF FindJob, Goto, Caller, mcuVars, closeVars, mpuVars
  <2>3. QED
    BY <1>1, <2>1, <2>2 DEF Request
<1>2. ASSUME NEW t \in Caller, NEW j \in Job, EndTake(t, j) PROVE LocalInv'
  <2>1. CASE mpus[j] # None
    <3>1. /\ held' = [held EXCEPT ![t] = mpus[j]]
          /\ mpus' = [mpus EXCEPT ![j] = None]
          /\ pc' = [pc EXCEPT ![t] = "report"]
          /\ UNCHANGED <<reqJob, closeMpus, runningJob, closeVars, mpuVars, process>>
      BY <1>2, <2>1 DEF EndTake
    <3>2. QED
      BY <2>1, <3>1 DEF closeVars, mpuVars
  <2>2. CASE mpus[j] = None
    <3>1. Return(t) /\ UNCHANGED <<mcuVars, closeVars, mpuVars, process>>
      BY <1>2, <2>2 DEF EndTake, mcuVars
    <3>2. QED
      BY <3>1 DEF Return, mcuVars, closeVars, mpuVars
  <2>3. QED
    BY <2>1, <2>2
<1>3. ASSUME NEW t \in Caller, Call(t) PROVE LocalInv'
  <2>1. CASE CreateEmplace(t)
    <3>1. CASE mpus[reqJob[t]] = None
      <4>1. PICK m \in Mpu :
              /\ mpus' = [mpus EXCEPT ![reqJob[t]] = m]
              /\ status' = [status EXCEPT ![m] = "run"]
              /\ jobId' = [jobId EXCEPT ![m] = reqJob[t]]
              /\ eventTh' = [eventTh EXCEPT ![m] = "loop"]
              /\ pc' = [pc EXCEPT ![t] = "count"]
              /\ UNCHANGED <<reqJob, held, process, closeMpus, runningJob, closeVars,
                             eventQue, batch, workTh, stopTh, dtor>>
        BY <2>1, <3>1 DEF CreateEmplace, Lose
      <4>2. reqJob[t] \in Job
        BY <2>1 DEF CreateEmplace, Lose
      <4>3. TypeOK'
        BY <4>1, <4>2 DEF closeVars
      <4>4. QED
        BY <4>1, <4>2, <4>3 DEF closeVars
    <3>2. CASE mpus[reqJob[t]] # None
      <4>1. Return(t) /\ UNCHANGED <<mcuVars, closeVars, mpuVars, process>>
        BY <2>1, <3>2 DEF CreateEmplace, Lose, mcuVars, mpuVars
      <4>2. QED
        BY <4>1 DEF Return, mcuVars, closeVars, mpuVars
    <3>3. QED
      BY <3>1, <3>2
  <2>2. CASE CreateCount(t)
    BY <2>2 DEF CreateCount, Return, closeVars, mpuVars
  <2>3. CASE EndReport(t)
    BY <2>3 DEF EndReport, Goto, mcuVars, closeVars
  <2>4. CASE EndHandOver(t)
    BY <2>4 DEF EndHandOver, Return, closeVars, mpuVars
  <2>5. CASE DerefJob(t)
    <3>1. TypeOK'
      BY <2>5 DEF DerefJob, Crash, Return, mcuVars, closeVars, mpuVars, callVars
    <3>2. CallInv'
      BY <2>5 DEF DerefJob, Crash, Return, mcuVars, closeVars, mpuVars, callVars
    <3>3. BatchInv'
      BY <2>5 DEF DerefJob, Crash, Return, mcuVars, closeVars, mpuVars, callVars
    <3>4. QED
      BY <3>1, <3>2, <3>3
  <2>6. CASE PushEvent(t)
    <3>1. CASE Live(held[t])
      <4>1. /\ eventQue' = [eventQue EXCEPT ![held[t]] = Append(@, "channel")]
            /\ Return(t)
            /\ UNCHANGED <<mcuVars, closeVars, status, jobId, batch, eventTh, workTh, stopTh,
                           dtor, process>>
        BY <2>6, <3>1 DEF PushEvent
      <4>2. eventQue' \in [Mpu -> Seq({"stop", "channel"})]
        <5>1. eventQue[held[t]] \in Seq({"stop", "channel"})
          BY <2>6 DEF PushEvent
        <5>2. Append(eventQue[held[t]], "channel") \in Seq({"stop", "channel"})
          BY <5>1
        <5>3. QED
          BY <4>1, <5>2
      <4>3. TypeOK'
        BY <4>1, <4>2 DEF Return, mcuVars, closeVars
      <4>4. QED
        BY <4>1, <4>3 DEF Return
    <3>2. CASE ~Live(held[t])
      <4>1. process' = "dead" /\ UNCHANGED <<mcuVars, closeVars, mpuVars, callVars>>
        BY <2>6, <3>2 DEF PushEvent, Crash, mpuVars
      <4>2. QED
        BY <4>1 DEF mcuVars, closeVars, mpuVars, callVars
    <3>3. QED
      BY <3>1, <3>2
  <2>7. QED
    BY <1>3, <2>1, <2>2, <2>3, <2>4, <2>5, <2>6 DEF Call
<1>4. ASSUME NEW m \in Mpu, EventThread(m) PROVE LocalInv'
  <2>1. CASE EventSwap(m)
    BY <2>1 DEF EventSwap, mcuVars, closeVars, callVars
  <2>2. CASE EventCheck(m)
    <3>1. CASE status[m] = "run"
      BY <2>2, <3>1 DEF EventCheck, mcuVars, closeVars, callVars
    <3>2. CASE status[m] # "run"
      <4>1. /\ eventTh' = [eventTh EXCEPT ![m] = "loop"]
            /\ batch' = [batch EXCEPT ![m] = <<>>]
            /\ UNCHANGED <<mcuVars, closeVars, status, jobId, eventQue, workTh, stopTh, dtor,
                           callVars, process>>
        BY <2>2, <3>2 DEF EventCheck
      <4>2. QED
        BY <4>1 DEF mcuVars, closeVars, callVars
    <3>3. QED
      BY <3>1, <3>2
  <2>3. CASE EventStop(m)
    <3>1. TypeOK'
      BY <2>3 DEF EventStop, EventNext, mcuVars, closeVars, callVars
    <3>2. CallInv'
      BY <2>3 DEF EventStop, EventNext, mcuVars, closeVars, callVars
    <3>3. BatchInv'
      BY <2>3 DEF EventStop, EventNext, mcuVars, closeVars, callVars
    <3>4. QED
      BY <3>1, <3>2, <3>3
  <2>4. CASE EventChannel(m)
    <3>1. TypeOK'
      <4>1. workTh' \in [Mpu -> {"none", "run", "done", "joined"}]
        BY <2>4 DEF EventChannel
      <4>2. /\ batch' \in [Mpu -> Seq({"stop", "channel"})]
            /\ eventTh' \in [Mpu -> {"none", "loop", "check", "act", "failed", "done", "joined"}]
        BY <2>4 DEF EventChannel, EventNext
      <4>3. UNCHANGED <<mcuVars, closeVars, status, jobId, eventQue, stopTh, dtor, callVars,
                        process>>
        BY <2>4 DEF EventChannel
      <4>4. QED
        BY <4>1, <4>2, <4>3 DEF mcuVars, closeVars, callVars
    <3>2. CallInv'
      BY <2>4 DEF EventChannel, callVars
    <3>3. BatchInv'
      BY <2>4 DEF EventChannel, EventNext
    <3>4. QED
      BY <3>1, <3>2, <3>3
  <2>5. CASE EventFail(m)
    BY <2>5 DEF EventFail, Goto, mcuVars, closeVars, Caller
  <2>6. CASE EventExit(m)
    BY <2>6 DEF EventExit, mcuVars, closeVars, callVars
  <2>7. QED
    BY <1>4, <2>1, <2>2, <2>3, <2>4, <2>5, <2>6 DEF EventThread
<1>5. ASSUME NEW m \in Mpu, WorkThread(m) PROVE LocalInv'
  BY <1>5 DEF WorkThread, WorkExit, WorkFail, mcuVars, closeVars, callVars
<1>6. ASSUME NEW m \in Mpu, Destroy(m) PROVE LocalInv'
  <2>1. CASE DestroyJoinStop(m)
    <3>1. TypeOK'
      BY <2>1 DEF DestroyJoinStop, mcuVars, closeVars, callVars
    <3>2. CallInv'
      BY <2>1 DEF DestroyJoinStop, mcuVars, closeVars, callVars
    <3>3. BatchInv'
      BY <2>1 DEF DestroyJoinStop, mcuVars, closeVars, callVars
    <3>4. QED
      BY <3>1, <3>2, <3>3
  <2>2. CASE DestroyEnd(m)
    <3>1. CASE process' = "dead"
      <4>1. UNCHANGED <<mcuVars, closeVars, mpuVars, callVars>>
        BY <2>2, <3>1 DEF DestroyEnd, closeVars
      <4>2. QED
        BY <3>1, <4>1 DEF mcuVars, closeVars, mpuVars, callVars
    <3>2. CASE process' # "dead"
      <4>1. /\ closer' = "uncount"
            /\ status' = [status EXCEPT ![m] = "nil"]
            /\ jobId' = [jobId EXCEPT ![m] = None]
            /\ eventQue' = [eventQue EXCEPT ![m] = <<>>]
            /\ batch' = [batch EXCEPT ![m] = <<>>]
            /\ eventTh' = [eventTh EXCEPT ![m] = "none"]
            /\ workTh' = [workTh EXCEPT ![m] = "none"]
            /\ stopTh' = [stopTh EXCEPT ![m] = "none"]
            /\ dtor' = [dtor EXCEPT ![m] = "none"]
            /\ UNCHANGED <<process, mcuVars, tmpCloseForm, todo, callVars>>
        BY <2>2, <3>2 DEF DestroyEnd, Crash
      <4>2. QED
        BY <4>1 DEF mcuVars, callVars
    <3>3. QED
      BY <3>1, <3>2
  <2>3. QED
    BY <1>6, <2>1, <2>2 DEF Destroy
<1>7. ASSUME NEW x \in Executor, NEW m \in Mpu, Stop(x, m) PROVE LocalInv'
  <2>1. CASE StopEnter(x, m)
    BY <2>1 DEF StopEnter, StopGoto, mcuVars, closeVars, callVars
  <2>2. CASE StopJoinWork(x, m)
    BY <2>2 DEF StopJoinWork, StopGoto, mcuVars, closeVars, callVars
  <2>3. CASE StopJoinEvent(x, m)
    BY <2>3 DEF StopJoinEvent, StopGoto, mcuVars, closeVars, callVars
  <2>4. QED
    BY <1>7, <2>1, <2>2, <2>3 DEF Stop
<1>8. CASE AutoClose
  <2>1. CASE CloserWake
    BY <2>1 DEF CloserWake, CloserNext, mpuVars, callVars
  <2>2. CASE CloserCount
    BY <2>2 DEF CloserCount, CloserNext, mpuVars, callVars
  <2>3. ASSUME NEW m \in Mpu, CloserSkip(m) PROVE LocalInv'
    BY <2>3 DEF CloserSkip, CloserNext, mcuVars, mpuVars, callVars
  <2>4. ASSUME NEW m \in Mpu, CloserDestroy(m) PROVE LocalInv'
    BY <2>4 DEF CloserDestroy, mcuVars, callVars
  <2>5. QED
    BY <1>8, <2>1, <2>2, <2>3, <2>4 DEF AutoClose
<1>9. CASE UNCHANGED vars
  BY <1>9 DEF vars, mcuVars, closeVars, mpuVars, callVars
<1>10. QED
  BY <1>1, <1>2, <1>3, <1>4, <1>5, <1>6, <1>7, <1>8, <1>9 DEF Next, Dead

(***************************************************************************)
(* Ownership. A step that moves no MPU keeps OneOwner; the seven that move *)
(* one are taken one by one.                                               *)
(***************************************************************************)
OwnInv == OneOwner /\ ThreadsOfLive /\ CloserInv

(* What a step that moves no MPU leaves as it was.                         *)
Unmoved ==
  /\ UNCHANGED <<mpus, closeMpus, tmpCloseForm>>
  /\ \A m \in Mpu : (Live(m)' <=> Live(m)) /\ (Dying(m)' <=> Dying(m))
  /\ \A t \in Caller, m \in Mpu : Ending(t, m)' <=> Ending(t, m)

LEMMA UnmovedOwner == OneOwner /\ Unmoved => OneOwner'
<1> SUFFICES ASSUME OneOwner, Unmoved PROVE OneOwner'
  OBVIOUS
<1>1. \A m \in Mpu : (InTable(m)' <=> InTable(m)) /\ (InEnd(m)' <=> InEnd(m))
  BY DEF Unmoved, InTable, InEnd
<1>2. QED
  BY <1>1 DEF Unmoved, OneOwner

(* Requests that do not touch the threads or the sets.                     *)
LEMMA CallUnmoved ==
  ASSUME OwnInv, mpus' = mpus, closeMpus' = closeMpus, closeVars' = closeVars,
         status' = status, eventTh' = eventTh, workTh' = workTh, stopTh' = stopTh, dtor' = dtor,
         \A t \in Caller, m \in Mpu : Ending(t, m)' <=> Ending(t, m)
  PROVE  OwnInv'
<1>1. Unmoved
  BY DEF Unmoved, Live, Dying, closeVars
<1>2. ThreadsOfLive' /\ CloserInv'
  BY DEF OwnInv, ThreadsOfLive, CloserInv, Live, Dying, closeVars
<1>3. QED
  BY <1>1, <1>2, UnmovedOwner DEF OwnInv

(* Threads of an MPU that step, start or end while it exists.              *)
LEMMA ThreadUnmoved ==
  ASSUME OwnInv, mcuVars' = mcuVars, closeVars' = closeVars,
         \A t \in Caller, m \in Mpu : Ending(t, m)' <=> Ending(t, m),
         NEW m \in Mpu, Live(m), Live(m)', Dying(m)' <=> Dying(m),
         \A n \in Mpu \ {m} :
           /\ status'[n] = status[n] /\ eventTh'[n] = eventTh[n] /\ workTh'[n] = workTh[n]
           /\ stopTh'[n] = stopTh[n] /\ dtor'[n] = dtor[n]
  PROVE  OwnInv'
<1>1. \A n \in Mpu : (Live(n)' <=> Live(n)) /\ (Dying(n)' <=> Dying(n))
  BY DEF Live, Dying
<1>2. Unmoved
  BY <1>1 DEF Unmoved, mcuVars, closeVars
<1>3. ThreadsOfLive'
  BY <1>1 DEF OwnInv, ThreadsOfLive, Live
<1>4. CloserInv'
  BY <1>1 DEF OwnInv, CloserInv, closeVars
<1>5. QED
  BY <1>2, <1>3, <1>4, UnmovedOwner DEF OwnInv

LEMMA OwnStep == IInv /\ [Next]_vars => OwnInv'
<1> SUFFICES ASSUME IInv, [Next]_vars PROVE OwnInv'
  OBVIOUS
<1>0. LocalInv /\ OwnInv
  BY DEF IInv, LocalInv, OwnInv
<1>1. ASSUME NEW c \in Client, Request(c) PROVE OwnInv'
  <2>1. \A t \in Caller, m \in Mpu : Ending(t, m)' <=> Ending(t, m)
    BY <1>0, <1>1 DEF Request, CreateLookup, FindJob, Goto, Ending, LocalInv, TypeOK
  <2>2. QED
    BY <1>0, <1>1, <2>1, CallUnmoved DEF Request, CreateLookup, FindJob, mcuVars, mpuVars
<1>2. ASSUME NEW t \in Caller, NEW j \in Job, EndTake(t, j) PROVE OwnInv'
  <2>1. CASE mpus[j] = None
    <3>1. Return(t) /\ UNCHANGED <<mcuVars, closeVars, mpuVars>>
      BY <1>2, <2>1 DEF EndTake, mcuVars
    <3>2. pc[t] \in {"idle", "callback"}
      BY <1>2 DEF EndTake, Calls
    <3>3. \A u \in Caller, m \in Mpu : Ending(u, m)' <=> Ending(u, m)
      BY <1>0, <3>1, <3>2 DEF Return, Ending, LocalInv, TypeOK
    <3>4. QED
      BY <1>0, <3>1, <3>3, CallUnmoved DEF mcuVars, mpuVars
  <2>2. CASE mpus[j] # None
    <3> DEFINE k == mpus[j]
    <3>1. /\ k \in Mpu /\ pc[t] \notin {"report", "handOver"}
          /\ held' = [held EXCEPT ![t] = k]
          /\ mpus' = [mpus EXCEPT ![j] = None]
          /\ pc' = [pc EXCEPT ![t] = "report"]
          /\ UNCHANGED <<closeMpus, closeVars, mpuVars>>
      BY <1>0, <1>2, <2>2 DEF EndTake, Calls, LocalInv, TypeOK
    <3>2. \A u \in Caller, m \in Mpu : Ending(u, m)' <=> (Ending(u, m) \/ (u = t /\ m = k))
      BY <1>0, <3>1 DEF Ending, LocalInv, TypeOK
    <3>3. \A m \in Mpu : InEnd(m)' <=> (InEnd(m) \/ m = k)
      BY <3>2 DEF InEnd
    <3>4. \A m \in Mpu : InTable(m)' <=> (InTable(m) /\ m # k)
      BY <1>0, <3>1, JobControlAssumption
         DEF InTable, OwnInv, OneOwner, LocalInv, TypeOK, JobControlAssumption
    <3>5. InTable(k)
      BY DEF InTable
    <3>6. OneOwner'
      <4>1. \A m \in Mpu : (Live(m)' <=> Live(m)) /\ (Dying(m)' <=> Dying(m))
        BY <3>1 DEF Live, Dying, mpuVars
      <4>2. closeMpus' = closeMpus /\ tmpCloseForm' = tmpCloseForm
        BY <3>1 DEF closeVars
      <4>3. \A m \in Mpu, i1, i2 \in Job : mpus'[i1] = m /\ mpus'[i2] = m => i1 = i2
        BY <1>0, <3>1, JobControlAssumption
           DEF OwnInv, OneOwner, LocalInv, TypeOK, JobControlAssumption
      <4>4. \A m \in Mpu, u, w \in Caller : Ending(u, m)' /\ Ending(w, m)' => u = w
        BY <1>0, <3>1, <3>2, <3>5 DEF OwnInv, OneOwner, InEnd
      <4>5. QED
        BY <1>0, <3>1, <3>3, <3>4, <3>5, <4>1, <4>2, <4>3, <4>4 DEF OwnInv, OneOwner
    <3>7. ThreadsOfLive' /\ CloserInv'
      BY <1>0, <3>1 DEF OwnInv, ThreadsOfLive, CloserInv, Live, Dying, closeVars, mpuVars
    <3>8. QED
      BY <3>6, <3>7 DEF OwnInv
  <2>3. QED
    BY <2>1, <2>2
<1>3. ASSUME NEW t \in Caller, Call(t) PROVE OwnInv'
  <2>1. CASE CreateEmplace(t)
    <3>1. CASE mpus[reqJob[t]] # None
      <4>1. Return(t) /\ UNCHANGED <<mcuVars, closeVars, mpuVars>> /\ pc[t] = "emplace"
        BY <2>1, <3>1 DEF CreateEmplace, Lose, mcuVars, mpuVars
      <4>2. \A u \in Caller, m \in Mpu : Ending(u, m)' <=> Ending(u, m)
        BY <1>0, <4>1 DEF Return, Ending, LocalInv, TypeOK
      <4>3. QED
        BY <1>0, <4>1, <4>2, CallUnmoved DEF mcuVars, mpuVars
    <3>2. CASE mpus[reqJob[t]] = None
      <4> DEFINE j == reqJob[t]
      <4>1. PICK k \in Mpu :
              /\ ~Live(k)
              /\ mpus' = [mpus EXCEPT ![j] = k]
              /\ status' = [status EXCEPT ![k] = "run"]
              /\ eventTh' = [eventTh EXCEPT ![k] = "loop"]
              /\ pc' = [pc EXCEPT ![t] = "count"]
              /\ UNCHANGED <<held, closeMpus, closeVars, workTh, stopTh, dtor>>
        BY <2>1, <3>2 DEF CreateEmplace, Lose
      <4>2. j \in Job /\ pc[t] = "emplace"
        BY <1>0, <2>1 DEF CreateEmplace, Lose, LocalInv, CallInv
      <4>3. \A u \in Caller, m \in Mpu : Ending(u, m)' <=> Ending(u, m)
        BY <1>0, <4>1, <4>2 DEF Ending, LocalInv, TypeOK
      <4>4. \A m \in Mpu : InEnd(m)' <=> InEnd(m)
        BY <4>3 DEF InEnd
      <4>5. \A m \in Mpu : (Live(m)' <=> (Live(m) \/ m = k)) /\ (Dying(m)' <=> Dying(m))
        BY <1>0, <4>1 DEF Live, Dying, LocalInv, TypeOK
      <4>6. /\ ~InTable(k) /\ ~InEnd(k) /\ ~Dying(k)
            /\ k \notin closeMpus /\ k \notin tmpCloseForm
        BY <1>0, <4>1 DEF OwnInv, OneOwner
      <4>7. \A m \in Mpu : InTable(m)' <=> (InTable(m) \/ m = k)
        BY <1>0, <3>2, <4>1, <4>2, JobControlAssumption
           DEF InTable, LocalInv, TypeOK, JobControlAssumption
      <4>8. \A m \in Mpu, i1, i2 \in Job : mpus'[i1] = m /\ mpus'[i2] = m => i1 = i2
        BY <1>0, <4>1, <4>2, <4>6 DEF OwnInv, OneOwner, InTable, LocalInv, TypeOK
      <4>9. OneOwner'
        <5>1. closeMpus' = closeMpus /\ tmpCloseForm' = tmpCloseForm
          BY <4>1 DEF closeVars
        <5>2. QED
          BY <1>0, <4>3, <4>4, <4>5, <4>6, <4>7, <4>8, <5>1 DEF OwnInv, OneOwner
      <4>10. ThreadsOfLive' /\ CloserInv'
        BY <1>0, <4>1, <4>5 DEF OwnInv, ThreadsOfLive, CloserInv, closeVars, LocalInv, TypeOK
      <4>11. QED
        BY <4>9, <4>10 DEF OwnInv
    <3>3. QED
      BY <3>1, <3>2
  <2>2. CASE CreateCount(t)
    <3>1. \A u \in Caller, m \in Mpu : Ending(u, m)' <=> Ending(u, m)
      BY <1>0, <2>2 DEF CreateCount, Return, Ending, LocalInv, TypeOK
    <3>2. QED
      BY <1>0, <2>2, <3>1, CallUnmoved DEF CreateCount, mpuVars
  <2>3. CASE EndReport(t)
    <3>1. \A u \in Caller, m \in Mpu : Ending(u, m)' <=> Ending(u, m)
      BY <1>0, <2>3 DEF EndReport, Goto, Ending, LocalInv, TypeOK
    <3>2. QED
      BY <1>0, <2>3, <3>1, CallUnmoved DEF EndReport, mcuVars
  <2>4. CASE EndHandOver(t)
    <3> DEFINE k == held[t]
    <3>1. /\ pc[t] = "handOver" /\ Return(t)
          /\ closeMpus' = closeMpus \cup {k}
          /\ UNCHANGED <<mpus, closeVars, mpuVars>>
      BY <2>4 DEF EndHandOver
    <3>2. k \in Mpu /\ Ending(t, k) /\ InEnd(k)
      BY <1>0, <3>1 DEF LocalInv, CallInv, Ending, InEnd
    <3>3. \A u \in Caller, m \in Mpu : Ending(u, m)' <=> (Ending(u, m) /\ u # t)
      BY <1>0, <3>1 DEF Return, Ending, LocalInv, TypeOK
    <3>4. \A m \in Mpu : InEnd(m)' <=> (InEnd(m) /\ m # k)
      <4>1. \A m \in Mpu, u \in Caller : Ending(u, m) /\ u # t => m # k
        BY <1>0, <3>2 DEF OwnInv, OneOwner
      <4>2. \A m \in Mpu : Ending(t, m) => m = k
        BY DEF Ending
      <4>3. QED
        BY <3>3, <4>1, <4>2 DEF InEnd
    <3>5. \A m \in Mpu : /\ InTable(m)' <=> InTable(m)
                         /\ Live(m)' <=> Live(m)
                         /\ Dying(m)' <=> Dying(m)
      BY <3>1 DEF InTable, Live, Dying, mpuVars
    <3>6. OneOwner'
      <4>1. mpus' = mpus /\ tmpCloseForm' = tmpCloseForm
        BY <3>1 DEF closeVars
      <4>2. QED
        BY <1>0, <3>1, <3>2, <3>3, <3>4, <3>5, <4>1 DEF OwnInv, OneOwner
    <3>7. ThreadsOfLive' /\ CloserInv'
      BY <1>0, <3>1 DEF OwnInv, ThreadsOfLive, CloserInv, Live, Dying, closeVars, mpuVars
    <3>8. QED
      BY <3>6, <3>7 DEF OwnInv
  <2>5. CASE DerefJob(t)
    <3>1. \A u \in Caller, m \in Mpu : Ending(u, m)' <=> Ending(u, m)
      BY <1>0, <2>5 DEF DerefJob, Return, callVars, Ending, LocalInv, TypeOK
    <3>2. QED
      BY <1>0, <2>5, <3>1, CallUnmoved DEF DerefJob, mcuVars, mpuVars
  <2>6. CASE PushEvent(t)
    <3>1. \A u \in Caller, m \in Mpu : Ending(u, m)' <=> Ending(u, m)
      BY <1>0, <2>6 DEF PushEvent, Return, callVars, Ending, LocalInv, TypeOK
    <3>2. QED
      BY <1>0, <2>6, <3>1, CallUnmoved DEF PushEvent, mcuVars
  <2>7. QED
    BY <1>3, <2>1, <2>2, <2>3, <2>4, <2>5, <2>6 DEF Call
<1>4. ASSUME NEW m \in Mpu, EventThread(m) PROVE OwnInv'
  <2>1. \A u \in Caller, n \in Mpu : Ending(u, n)' <=> Ending(u, n)
    <3>1. CASE EventFail(m)
      BY <1>0, <3>1 DEF EventFail, Goto, Ending, LocalInv, TypeOK
    <3>2. CASE ~EventFail(m)
      <4>1. UNCHANGED callVars
        BY <1>4, <3>2
           DEF EventThread, EventSwap, EventCheck, EventStop, EventChannel, EventExit
      <4>2. QED
        BY <4>1 DEF callVars, Ending
    <3>3. QED
      BY <3>1, <3>2
  <2>2. /\ eventTh[m] \notin {"none"} /\ Live(m)
        /\ mcuVars' = mcuVars /\ closeVars' = closeVars /\ dtor' = dtor
    BY <1>0, <1>4 DEF EventThread, EventSwap, EventCheck, EventStop, EventChannel, EventFail,
                      EventExit, OwnInv, ThreadsOfLive
  <2>3. Live(m)' /\ \A n \in Mpu \ {m} : status'[n] = status[n]
    BY <1>0, <1>4, <2>2 DEF EventThread, EventSwap, EventCheck, EventStop, EventChannel, EventFail,
                      EventExit, Live, LocalInv, TypeOK
  <2>4. \A n \in Mpu \ {m} : /\ eventTh'[n] = eventTh[n]
                             /\ workTh'[n] = workTh[n]
                             /\ stopTh'[n] = stopTh[n]
    BY <1>0, <1>4 DEF EventThread, EventSwap, EventCheck, EventStop, EventChannel, EventFail,
                      EventExit, EventNext, LocalInv, TypeOK
  <2>5. QED
    BY <1>0, <2>1, <2>2, <2>3, <2>4, ThreadUnmoved DEF Dying
<1>5. ASSUME NEW m \in Mpu, WorkThread(m) PROVE OwnInv'
  <2>1. /\ workTh[m] = "run" /\ Live(m)
        /\ UNCHANGED <<mcuVars, closeVars, callVars, eventTh, stopTh, dtor>>
    BY <1>0, <1>5 DEF WorkThread, WorkExit, WorkFail, OwnInv, ThreadsOfLive
  <2>2. Live(m)' /\ \A n \in Mpu \ {m} : status'[n] = status[n] /\ workTh'[n] = workTh[n]
    BY <1>0, <1>5, <2>1 DEF WorkThread, WorkExit, WorkFail, Live, LocalInv, TypeOK
  <2>3. QED
    BY <1>0, <2>1, <2>2, ThreadUnmoved DEF Dying, Ending, callVars
<1>6. ASSUME NEW m \in Mpu, Destroy(m) PROVE OwnInv'
  <2>1. CASE DestroyJoinStop(m)
    <3>1. /\ dtor[m] = "joinStop" /\ dtor' = [dtor EXCEPT ![m] = "enter"] /\ Live(m)
          /\ UNCHANGED <<mcuVars, closeVars, callVars, status, eventTh, workTh>>
      BY <1>0, <2>1 DEF DestroyJoinStop, OwnInv, ThreadsOfLive
    <3>2. Live(m)' /\ (Dying(m)' <=> Dying(m))
      BY <1>0, <3>1 DEF Live, Dying, LocalInv, TypeOK
    <3>3. \A n \in Mpu \ {m} : dtor'[n] = dtor[n] /\ stopTh'[n] = stopTh[n]
      BY <1>0, <2>1 DEF DestroyJoinStop, LocalInv, TypeOK
    <3>4. QED
      BY <1>0, <3>1, <3>2, <3>3, ThreadUnmoved DEF Ending, callVars
  <2>2. CASE DestroyEnd(m)
    <3>1. CASE process' = "dead"
      <4>1. UNCHANGED <<mcuVars, closeVars, mpuVars, callVars>>
        BY <2>2, <3>1 DEF DestroyEnd, closeVars
      <4>2. QED
        BY <1>0, <4>1, CallUnmoved DEF mcuVars, mpuVars, callVars, Ending
    <3>2. CASE process' # "dead"
      <4>1. /\ dtor[m] = "done"
            /\ closer' = "uncount"
            /\ status' = [status EXCEPT ![m] = "nil"]
            /\ eventTh' = [eventTh EXCEPT ![m] = "none"]
            /\ workTh' = [workTh EXCEPT ![m] = "none"]
            /\ stopTh' = [stopTh EXCEPT ![m] = "none"]
            /\ dtor' = [dtor EXCEPT ![m] = "none"]
            /\ UNCHANGED <<mcuVars, tmpCloseForm, todo, callVars>>
        BY <2>2, <3>2 DEF DestroyEnd, Crash
      <4>2. Dying(m)
        BY <4>1 DEF Dying
      <4>3. \A n \in Mpu : /\ Live(n)' <=> (Live(n) /\ n # m)
                           /\ ~Dying(n)'
        BY <1>0, <4>1, <4>2 DEF Live, Dying, OwnInv, CloserInv, LocalInv, TypeOK
      <4>4. /\ \A n \in Mpu : (InTable(n)' <=> InTable(n)) /\ (InEnd(n)' <=> InEnd(n))
            /\ \A u \in Caller, n \in Mpu : Ending(u, n)' <=> Ending(u, n)
        BY <4>1 DEF InTable, InEnd, Ending, mcuVars, callVars
      <4>5. \A n \in Mpu : Dying(n) => n = m
        BY <1>0, <4>2 DEF OwnInv, CloserInv
      <4>6. OneOwner'
        <5>1. mpus' = mpus /\ closeMpus' = closeMpus /\ tmpCloseForm' = tmpCloseForm
          BY <4>1 DEF mcuVars
        <5>2. QED
          BY <1>0, <4>2, <4>3, <4>4, <4>5, <5>1 DEF OwnInv, OneOwner
      <4>7. ThreadsOfLive'
        BY <1>0, <4>1, <4>3 DEF OwnInv, ThreadsOfLive, LocalInv, TypeOK
      <4>8. CloserInv'
        BY <1>0, <4>1, <4>3 DEF OwnInv, CloserInv
      <4>9. QED
        BY <4>6, <4>7, <4>8 DEF OwnInv
    <3>3. QED
      BY <3>1, <3>2
  <2>3. QED
    BY <1>6, <2>1, <2>2 DEF Destroy
<1>7. ASSUME NEW x \in Executor, NEW m \in Mpu, Stop(x, m) PROVE OwnInv'
  <2>1. PICK a \in {"enter", "joinWork", "joinEvent"}, b \in {"joinWork", "joinEvent", "done"} :
          StopGoto(x, m, a, b)
    BY <1>7 DEF Stop, StopEnter, StopJoinWork, StopJoinEvent
  <2>2. UNCHANGED <<mcuVars, closeVars, callVars>>
    BY <1>7 DEF Stop, StopEnter, StopJoinWork, StopJoinEvent
  <2>3. Live(m)
    BY <1>0, <2>1 DEF StopGoto, OwnInv, ThreadsOfLive
  <2>4. Live(m)' /\ \A n \in Mpu \ {m} : status'[n] = status[n]
    BY <1>0, <1>7, <2>3 DEF Stop, StopEnter, StopJoinWork, StopJoinEvent, Live, LocalInv, TypeOK
  <2>5. \A n \in Mpu \ {m} : eventTh'[n] = eventTh[n] /\ workTh'[n] = workTh[n]
    BY <1>0, <1>7 DEF Stop, StopEnter, StopJoinWork, StopJoinEvent, LocalInv, TypeOK
  <2>6. /\ \A n \in Mpu \ {m} : stopTh'[n] = stopTh[n] /\ dtor'[n] = dtor[n]
        /\ Dying(m)' <=> Dying(m)
    BY <1>0, <2>1 DEF StopGoto, Dying, LocalInv, TypeOK
  <2>7. QED
    BY <1>0, <2>2, <2>3, <2>4, <2>5, <2>6, ThreadUnmoved DEF Ending, callVars
<1>8. CASE AutoClose
  <2> USE <1>0 DEF OwnInv
  <2>1. CASE CloserWake
    <3>1. /\ closer = "wait" /\ tmpCloseForm' = closeMpus /\ closeMpus' = tmpCloseForm
          /\ todo' = closeMpus /\ UNCHANGED <<mpus, mpuVars, callVars>>
      BY <2>1 DEF CloserWake
    <3>2. \A m \in Mpu : ~Dying(m)
      BY <3>1 DEF CloserInv
    <3>3. /\ \A m \in Mpu : /\ Live(m)' <=> Live(m)
                            /\ Dying(m)' <=> Dying(m)
                            /\ InTable(m)' <=> InTable(m)
                            /\ InEnd(m)' <=> InEnd(m)
          /\ \A u \in Caller, m \in Mpu : Ending(u, m)' <=> Ending(u, m)
      BY <3>1 DEF Live, Dying, InTable, InEnd, Ending, mpuVars, callVars
    <3>4. OneOwner'
      BY <3>1, <3>3 DEF OneOwner
    <3>5. ThreadsOfLive' /\ CloserInv'
      BY <3>1, <3>2, <3>3 DEF ThreadsOfLive, CloserInv, mpuVars
    <3>6. QED
      BY <3>4, <3>5
  <2>2. CASE CloserCount
    <3>1. /\ closer = "uncount"
          /\ UNCHANGED <<mpus, closeMpus, tmpCloseForm, todo, mpuVars, callVars>>
      BY <2>2 DEF CloserCount
    <3>2. Unmoved
      BY <3>1 DEF Unmoved, Live, Dying, Ending, mpuVars, callVars
    <3>3. ThreadsOfLive' /\ CloserInv'
      BY <3>1 DEF ThreadsOfLive, CloserInv, Live, Dying, mpuVars
    <3>4. QED
      BY <3>2, <3>3, UnmovedOwner
  <2>3. ASSUME NEW m \in Mpu, CloserSkip(m) PROVE OwnInv'
    <3>1. /\ closer = "scan" /\ todo' = todo \ {m}
          /\ UNCHANGED <<mpus, closeMpus, tmpCloseForm, mpuVars, callVars>>
      BY <2>3 DEF CloserSkip, mcuVars
    <3>2. Unmoved
      BY <3>1 DEF Unmoved, Live, Dying, Ending, mpuVars, callVars
    <3>3. ThreadsOfLive' /\ CloserInv'
      BY <3>1 DEF ThreadsOfLive, CloserInv, Live, Dying, mpuVars
    <3>4. QED
      BY <3>2, <3>3, UnmovedOwner
  <2>4. ASSUME NEW m \in Mpu, CloserDestroy(m) PROVE OwnInv'
    <3>1. /\ closer = "scan" /\ m \in todo /\ closer' = "destroy"
          /\ todo' = todo \ {m} /\ tmpCloseForm' = tmpCloseForm \ {m}
          /\ dtor' = [dtor EXCEPT ![m] = "joinStop"]
          /\ UNCHANGED <<mcuVars, status, eventTh, workTh, stopTh, callVars>>
      BY <2>4 DEF CloserDestroy
    <3>2. m \in tmpCloseForm /\ \A n \in Mpu : ~Dying(n)
      BY <3>1 DEF CloserInv
    <3>3. /\ \A n \in Mpu : /\ Live(n)' <=> Live(n)
                            /\ Dying(n)' <=> n = m
                            /\ InTable(n)' <=> InTable(n)
                            /\ InEnd(n)' <=> InEnd(n)
          /\ \A u \in Caller, n \in Mpu : Ending(u, n)' <=> Ending(u, n)
      BY <3>1, <3>2 DEF Live, Dying, InTable, InEnd, Ending, mcuVars, callVars, LocalInv, TypeOK
    <3>4. OneOwner'
      <4>1. mpus' = mpus /\ closeMpus' = closeMpus
        BY <3>1 DEF mcuVars
      <4>2. QED
        BY <3>1, <3>2, <3>3, <4>1 DEF OneOwner
    <3>5. Live(m)
      BY <3>2 DEF OneOwner
    <3>6. ThreadsOfLive' /\ CloserInv'
      BY <3>1, <3>2, <3>3, <3>5 DEF ThreadsOfLive, CloserInv, LocalInv, TypeOK
    <3>7. QED
      BY <3>4, <3>6
  <2>5. QED
    BY <1>8, <2>1, <2>2, <2>3, <2>4 DEF AutoClose
<1>9. CASE UNCHANGED vars
  BY <1>0, <1>9, CallUnmoved DEF vars, mcuVars, mpuVars, callVars, Ending
<1>10. QED
  BY <1>1, <1>2, <1>3, <1>4, <1>5, <1>6, <1>7, <1>8, <1>9 DEF Next, Dead

-----------------------------------------------------------------------------
LEMMA StepIInv == IInv /\ [Next]_vars => IInv'
  BY LocalStep, OwnStep DEF IInv, LocalInv, OwnInv

(* TypeCorrect: every variable of the job model keeps its type.            *)
THEOREM TypeCorrect == Spec => []TypeOK
<1>1. IInv => TypeOK
  BY DEF IInv
<1>2. QED
  BY <1>1, InitIInv, StepIInv, PTL DEF Spec

(* Ownership: no interleaving of creations, ends and the AutoClose thread  *)
(* loses or duplicates the unique_ptr to an MPU.                           *)
THEOREM Ownership == Spec => []OneOwner
<1>1. IInv => OneOwner
  BY DEF IInv
<1>2. QED
  BY <1>1, InitIInv, StepIInv, PTL DEF Spec

-----------------------------------------------------------------------------
(***************************************************************************)
(* StopOnce. Whoever moves an MPU out of the table is the only one to      *)
(* report its stop event: until then no stop event exists for the MPU and  *)
(* its stopTh was not started, and afterwards there is at most one of the  *)
(* three (one queued, one in the batch, stopTh started).                   *)
(***************************************************************************)
HasStop(s) == \E i \in DOMAIN s : s[i] = "stop"
OneStop(s) == \A i, k \in DOMAIN s : s[i] = "stop" /\ s[k] = "stop" => i = k

(* Nobody has told m to stop yet: it is in the table, or whoever took it   *)
(* out is about to.                                                        *)
Untold(m) == InTable(m) \/ \E t \in Caller : pc[t] = "report" /\ held[t] = m

StopOf(m) ==
  /\ OneStop(batch[m]) /\ OneStop(eventQue[m])
  /\ ~(HasStop(batch[m]) /\ HasStop(eventQue[m]))
  /\ stopTh[m] # "none" \/ Untold(m) => ~HasStop(batch[m]) /\ ~HasStop(eventQue[m])
  /\ Untold(m) => stopTh[m] = "none"
  /\ ~Live(m) => batch[m] = <<>> /\ eventQue[m] = <<>>

StopInv == \A m \in Mpu : StopOf(m)

Event == {"stop", "channel"}

LEMMA NoEvents == ~HasStop(<<>>) /\ OneStop(<<>>)
  BY DEF HasStop, OneStop

(* What appending an event does to the stop events of a queue.             *)
LEMMA AppendEvent ==
  ASSUME NEW s \in Seq(Event)
  PROVE  /\ HasStop(Append(s, "channel")) <=> HasStop(s)
         /\ OneStop(s) => OneStop(Append(s, "channel"))
         /\ ~HasStop(s) => OneStop(Append(s, "stop"))
<1>1. \A e \in Event : /\ DOMAIN Append(s, e) = 1..(Len(s) + 1)
                       /\ Append(s, e)[Len(s) + 1] = e
                       /\ \A i \in 1..Len(s) : Append(s, e)[i] = s[i]
  OBVIOUS
<1>2. DOMAIN s = 1..Len(s) /\ Len(s) \in Nat
  OBVIOUS
<1>3. \A i \in 1..(Len(s) + 1) : i \in 1..Len(s) \/ i = Len(s) + 1
  BY <1>2
<1>4. \A i \in 1..Len(s) : i \in 1..(Len(s) + 1)
  BY <1>2
<1>5. "channel" \in Event /\ "stop" \in Event /\ "channel" # "stop"
  BY DEF Event
<1>6. HasStop(Append(s, "channel")) <=> HasStop(s)
  BY <1>1, <1>2, <1>3, <1>4, <1>5 DEF HasStop
<1>7. OneStop(s) => OneStop(Append(s, "channel"))
  BY <1>1, <1>2, <1>3, <1>4, <1>5 DEF OneStop
<1>8. ~HasStop(s) => OneStop(Append(s, "stop"))
  BY <1>1, <1>2, <1>3, <1>4, <1>5 DEF OneStop, HasStop
<1>9. QED
  BY <1>6, <1>7, <1>8

(* ... and what taking the first one away does.                            *)
LEMMA TailEvent ==
  ASSUME NEW s \in Seq(Event), s # <<>>, OneStop(s)
  PROVE  /\ OneStop(Tail(s))
         /\ HasStop(Tail(s)) => HasStop(s) /\ Head(s) # "stop"
<1>1. /\ DOMAIN Tail(s) = 1..(Len(s) - 1) /\ DOMAIN s = 1..Len(s)
      /\ Len(s) \in Nat /\ Len(s) # 0
      /\ Head(s) = s[1]
      /\ \A i \in 1..(Len(s) - 1) : Tail(s)[i] = s[i + 1]
  OBVIOUS
<1>2. \A i \in 1..(Len(s) - 1) : i + 1 \in 1..Len(s) /\ i + 1 # 1
  BY <1>1
<1>3. 1 \in 1..Len(s)
  BY <1>1
<1>4. OneStop(Tail(s))
  <2> SUFFICES ASSUME NEW i \in DOMAIN Tail(s), NEW k \in DOMAIN Tail(s),
                      Tail(s)[i] = "stop", Tail(s)[k] = "stop"
               PROVE  i = k
    BY DEF OneStop
  <2>1. i + 1 = k + 1
    BY <1>1, <1>2 DEF OneStop
  <2>2. QED
    BY <2>1, <1>1
<1>5. HasStop(Tail(s)) => HasStop(s) /\ Head(s) # "stop"
  BY <1>1, <1>2, <1>3 DEF OneStop, HasStop
<1>6. QED
  BY <1>4, <1>5

(* A step that leaves the queues and the stop thread of m alone, and takes *)
(* it neither into the table nor out of existence.                         *)
LEMMA StopFrame ==
  ASSUME NEW m \in Mpu, StopOf(m),
         batch'[m] = batch[m], eventQue'[m] = eventQue[m], stopTh'[m] = stopTh[m],
         Untold(m)' => Untold(m), Live(m) => Live(m)'
  PROVE  StopOf(m)'
  BY DEF StopOf

LEMMA InitStopInv == Init => StopInv
<1> SUFFICES ASSUME Init PROVE StopInv
  OBVIOUS
<1>1. \A m \in Mpu : ~Untold(m)
  BY JobControlAssumption DEF Init, Untold, InTable, JobControlAssumption
<1>2. QED
  BY <1>1, NoEvents DEF Init, StopInv, StopOf

(* A request that reports nothing and moves no MPU.                        *)
LEMMA StopCall ==
  ASSUME StopInv, UNCHANGED <<mpus, batch, eventQue, stopTh, status>>,
         \A t \in Caller, m \in Mpu :
           pc'[t] = "report" /\ held'[t] = m => pc[t] = "report" /\ held[t] = m
  PROVE  StopInv'
<1> SUFFICES ASSUME NEW m \in Mpu PROVE StopOf(m)'
  BY DEF StopInv
<1>1. Untold(m)' => Untold(m)
  BY DEF Untold, InTable
<1>2. QED
  BY <1>1, StopFrame DEF StopInv, Live

(* A thread of an MPU that leaves the queues and stopTh alone.             *)
LEMMA StopThread ==
  ASSUME StopInv, mpus' = mpus, batch' = batch, eventQue' = eventQue, stopTh' = stopTh,
         \A t \in Caller, m \in Mpu :
           pc'[t] = "report" /\ held'[t] = m => pc[t] = "report" /\ held[t] = m,
         \A m \in Mpu : Live(m) => Live(m)'
  PROVE  StopInv'
<1> SUFFICES ASSUME NEW m \in Mpu PROVE StopOf(m)'
  BY DEF StopInv
<1>1. Untold(m)' => Untold(m)
  BY DEF Untold, InTable
<1>2. QED
  BY <1>1, StopFrame DEF StopInv

LEMMA StopStep == IInv /\ StopInv /\ [Next]_vars => StopInv'
<1> SUFFICES ASSUME IInv, StopInv, [Next]_vars PROVE StopInv'
  OBVIOUS
<1>0. TypeOK /\ CallInv /\ BatchInv /\ OneOwner /\ ThreadsOfLive
  BY DEF IInv
<1>1. ASSUME NEW c \in Client, Request(c) PROVE StopInv'
  <2>1. \A t \in Caller, m \in Mpu :
          pc'[t] = "report" /\ held'[t] = m => pc[t] = "report" /\ held[t] = m
    BY <1>0, <1>1 DEF Request, CreateLookup, FindJob, Goto, TypeOK
  <2>2. QED
    BY <1>1, <2>1, StopCall DEF Request, CreateLookup, FindJob, mcuVars, mpuVars
<1>2. ASSUME NEW t \in Caller, NEW j \in Job, EndTake(t, j) PROVE StopInv'
  <2>1. CASE mpus[j] = None
    <3>1. Return(t) /\ UNCHANGED <<mcuVars, closeVars, mpuVars>>
      BY <1>2, <2>1 DEF EndTake, mcuVars
    <3>2. \A u \in Caller, m \in Mpu :
            pc'[u] = "report" /\ held'[u] = m => pc[u] = "report" /\ held[u] = m
      BY <1>0, <3>1 DEF Return, TypeOK
    <3>3. QED
      BY <3>1, <3>2, StopCall DEF mcuVars, mpuVars
  <2>2. CASE mpus[j] # None
    <3>1. /\ held' = [held EXCEPT ![t] = mpus[j]]
          /\ mpus' = [mpus EXCEPT ![j] = None]
          /\ pc' = [pc EXCEPT ![t] = "report"]
          /\ UNCHANGED mpuVars
      BY <1>2, <2>2 DEF EndTake
    <3> SUFFICES ASSUME NEW m \in Mpu PROVE StopOf(m)'
      BY DEF StopInv
    <3>2. Untold(m)' => Untold(m)
      BY <1>0, <2>2, <3>1, JobControlAssumption
         DEF Untold, InTable, TypeOK, JobControlAssumption
    <3>3. QED
      BY <3>1, <3>2, StopFrame DEF StopInv, Live, mpuVars
  <2>3. QED
    BY <2>1, <2>2
<1>3. ASSUME NEW t \in Caller, Call(t) PROVE StopInv'
  <2>1. CASE CreateEmplace(t)
    <3>1. CASE mpus[reqJob[t]] # None
      <4>1. Return(t) /\ UNCHANGED <<mcuVars, closeVars, mpuVars>>
        BY <2>1, <3>1 DEF CreateEmplace, Lose, mcuVars, mpuVars
      <4>2. \A u \in Caller, m \in Mpu :
              pc'[u] = "report" /\ held'[u] = m => pc[u] = "report" /\ held[u] = m
        BY <1>0, <4>1 DEF Return, TypeOK
      <4>3. QED
        BY <4>1, <4>2, StopCall DEF mcuVars, mpuVars
    <3>2. CASE mpus[reqJob[t]] = None
      <4>1. PICK k \in Mpu :
              /\ ~Live(k)
              /\ mpus' = [mpus EXCEPT ![reqJob[t]] = k]
              /\ status' = [status EXCEPT ![k] = "run"]
              /\ pc' = [pc EXCEPT ![t] = "count"]
              /\ UNCHANGED <<held, eventQue, batch, stopTh>>
        BY <2>1, <3>2 DEF CreateEmplace, Lose
      <4> SUFFICES ASSUME NEW m \in Mpu PROVE StopOf(m)'
        BY DEF StopInv
      <4>2. CASE m = k
        <5>1. stopTh'[k] = "none" /\ batch'[k] = <<>> /\ eventQue'[k] = <<>>
          BY <1>0, <4>1 DEF StopInv, StopOf, ThreadsOfLive
        <5>2. QED
          BY <4>2, <5>1, NoEvents DEF StopOf
      <4>3. CASE m # k
        <5>1. Untold(m)' => Untold(m)
          BY <1>0, <4>1, <4>3 DEF Untold, InTable, TypeOK
        <5>2. QED
          BY <1>0, <4>1, <4>3, <5>1, StopFrame DEF StopInv, Live, TypeOK
      <4>4. QED
        BY <4>2, <4>3
    <3>3. QED
      BY <3>1, <3>2
  <2>2. CASE CreateCount(t)
    <3>1. \A u \in Caller, m \in Mpu :
            pc'[u] = "report" /\ held'[u] = m => pc[u] = "report" /\ held[u] = m
      BY <1>0, <2>2 DEF CreateCount, Return, TypeOK
    <3>2. QED
      BY <2>2, <3>1, StopCall DEF CreateCount, mpuVars
  <2>3. CASE EndReport(t)
    <3>0. PICK k \in Mpu : k = held[t]
      BY <1>0, <2>3 DEF EndReport, Goto, CallInv
    <3>1. /\ pc[t] = "report" /\ pc' = [pc EXCEPT ![t] = "handOver"]
          /\ k = held[t] /\ UNCHANGED <<mpus, status, batch, stopTh, held>>
          /\ eventQue' = IF status[k] = "run"
                         THEN [eventQue EXCEPT ![k] = Append(@, "stop")] ELSE eventQue
      BY <2>3, <3>0 DEF EndReport, Goto, mcuVars
    <3>2. Ending(t, k) /\ InEnd(k)
      BY <3>1 DEF Ending, InEnd
    <3> SUFFICES ASSUME NEW m \in Mpu PROVE StopOf(m)'
      BY DEF StopInv
    <3>3. Untold(m)' => Untold(m)
      BY <1>0, <3>1 DEF Untold, InTable, TypeOK
    <3>4. CASE m # k \/ status[k] # "run"
      BY <1>0, <3>1, <3>3, <3>4, StopFrame DEF StopInv, Live, TypeOK
    <3>5. CASE m = k /\ status[k] = "run"
      <4>1. ~Untold(k)'
        <5>1. ~InTable(k)'
          BY <1>0, <3>1, <3>2 DEF OneOwner, InTable
        <5>2. \A u \in Caller : Ending(u, k) => u = t
          BY <1>0, <3>1, <3>2 DEF OneOwner
        <5>3. QED
          BY <1>0, <3>1, <5>1, <5>2 DEF Untold, Ending, TypeOK
      <4>2. Untold(k)
        BY <3>1 DEF Untold
      <4>3. eventQue[k] \in Seq(Event) /\ eventQue'[k] = Append(eventQue[k], "stop")
        BY <1>0, <3>1, <3>5 DEF TypeOK, Event
      <4>4. Live(k)'
        BY <3>1, <3>5 DEF Live
      <4>5. stopTh[k] = "none" /\ ~HasStop(batch[k]) /\ ~HasStop(eventQue[k]) /\ OneStop(batch[k])
        BY <3>1, <4>2 DEF StopInv, StopOf
      <4>6. OneStop(eventQue'[k])
        BY <4>3, <4>5, AppendEvent
      <4>7. stopTh'[k] = "none" /\ batch'[k] = batch[k]
        BY <3>1, <4>5
      <4>8. QED
        BY <3>5, <4>1, <4>4, <4>5, <4>6, <4>7 DEF StopOf
    <3>6. QED
      BY <3>4, <3>5
  <2>4. CASE EndHandOver(t)
    <3>1. \A u \in Caller, m \in Mpu :
            pc'[u] = "report" /\ held'[u] = m => pc[u] = "report" /\ held[u] = m
      BY <1>0, <2>4 DEF EndHandOver, Return, TypeOK
    <3>2. QED
      BY <2>4, <3>1, StopCall DEF EndHandOver, mpuVars
  <2>5. CASE DerefJob(t)
    <3>1. \A u \in Caller, m \in Mpu :
            pc'[u] = "report" /\ held'[u] = m => pc[u] = "report" /\ held[u] = m
      BY <1>0, <2>5 DEF DerefJob, Return, callVars, TypeOK
    <3>2. QED
      BY <2>5, <3>1, StopCall DEF DerefJob, mcuVars, mpuVars
  <2>6. CASE PushEvent(t)
    <3>1. \A u \in Caller, m \in Mpu :
            pc'[u] = "report" /\ held'[u] = m => pc[u] = "report" /\ held[u] = m
      BY <1>0, <2>6 DEF PushEvent, Return, callVars, TypeOK
    <3>0. PICK k \in Mpu : k = held[t]
      BY <1>0, <2>6 DEF PushEvent, CallInv
    <3>2. k = held[t] /\ UNCHANGED <<mpus, status, batch, stopTh>>
      BY <2>6, <3>0 DEF PushEvent, mcuVars
    <3>3. CASE ~Live(k)
      BY <2>6, <3>1, <3>2, <3>3, StopCall DEF PushEvent
    <3>4. CASE Live(k)
      <4>1. eventQue' = [eventQue EXCEPT ![k] = Append(@, "channel")]
        BY <2>6, <3>2, <3>4 DEF PushEvent
      <4> SUFFICES ASSUME NEW m \in Mpu PROVE StopOf(m)'
        BY DEF StopInv
      <4>2. Untold(m)' => Untold(m)
        BY <3>1, <3>2 DEF Untold, InTable
      <4>3. CASE m # k
        BY <1>0, <3>2, <4>1, <4>2, <4>3, StopFrame DEF StopInv, Live, TypeOK
      <4>4. CASE m = k
        <5>1. eventQue[k] \in Seq(Event) /\ eventQue'[k] = Append(eventQue[k], "channel")
          BY <1>0, <3>2, <4>1 DEF TypeOK, Event
        <5>2. /\ HasStop(eventQue'[k]) <=> HasStop(eventQue[k])
              /\ OneStop(eventQue[k]) => OneStop(eventQue'[k])
          BY <5>1, AppendEvent
        <5>3. Live(k)'
          BY <3>2, <3>4 DEF Live
        <5>4. batch'[k] = batch[k] /\ stopTh'[k] = stopTh[k]
          BY <3>2
        <5>5. StopOf(k)
          BY <3>2 DEF StopInv
        <5>6. QED
          BY <4>2, <4>4, <5>2, <5>3, <5>4, <5>5 DEF StopOf
      <4>5. QED
        BY <4>3, <4>4
    <3>5. QED
      BY <3>3, <3>4
  <2>7. QED
    BY <1>3, <2>1, <2>2, <2>3, <2>4, <2>5, <2>6 DEF Call
<1>4. ASSUME NEW k \in Mpu, EventThread(k) PROVE StopInv'
  <2>1. \A t \in Caller, m \in Mpu :
          pc'[t] = "report" /\ held'[t] = m => pc[t] = "report" /\ held[t] = m
    BY <1>0, <1>4 DEF EventThread, EventSwap, EventCheck, EventStop, EventChannel, EventFail,
                      EventExit, Goto, callVars, TypeOK
  <2>2. /\ UNCHANGED mpus
        /\ Live(k) /\ \A m \in Mpu : Live(m) => Live(m)'
    BY <1>0, <1>4 DEF EventThread, EventSwap, EventCheck, EventStop, EventChannel, EventFail,
                      EventExit, mcuVars, Live, ThreadsOfLive, TypeOK
  <2>3. \A m \in Mpu : Untold(m)' => Untold(m)
    BY <2>1, <2>2 DEF Untold, InTable
  <2>4. \A m \in Mpu \ {k} :
          batch'[m] = batch[m] /\ eventQue'[m] = eventQue[m] /\ stopTh'[m] = stopTh[m]
    BY <1>0, <1>4 DEF EventThread, EventSwap, EventCheck, EventStop, EventChannel, EventFail,
                      EventExit, EventNext, TypeOK
  <2>5. StopOf(k) /\ Live(k)'
    BY <2>2 DEF StopInv
  <2>6. batch[k] \in Seq(Event) /\ eventQue[k] \in Seq(Event)
    BY <1>0 DEF TypeOK, Event
  <2>7. StopOf(k)'
    <3>1. CASE EventSwap(k)
      <4>1. batch'[k] = eventQue[k] /\ eventQue'[k] = <<>> /\ stopTh' = stopTh
        BY <1>0, <3>1 DEF EventSwap, TypeOK
      <4>2. QED
        BY <2>3, <2>5, <4>1, NoEvents DEF StopOf
    <3>2. CASE EventCheck(k) \/ EventFail(k) \/ EventExit(k)
      <4>1. /\ batch'[k] = batch[k] \/ batch'[k] = <<>>
            /\ eventQue' = eventQue /\ stopTh' = stopTh
        BY <1>0, <3>2 DEF EventCheck, EventFail, EventExit, TypeOK
      <4>2. QED
        BY <2>3, <2>5, <4>1, NoEvents DEF StopOf
    <3>3. CASE EventStop(k)
      <4>1. /\ Head(batch[k]) = "stop" /\ batch[k] # <<>>
            /\ batch'[k] = Tail(batch[k]) /\ eventQue' = eventQue
            /\ stopTh'[k] = "enter"
        BY <1>0, <3>3 DEF EventStop, EventNext, BatchInv, TypeOK
      <4>2. HasStop(batch[k])
        BY <2>6, <4>1 DEF HasStop
      <4>3. OneStop(batch'[k]) /\ ~HasStop(batch'[k])
        BY <2>5, <2>6, <4>1, TailEvent DEF StopOf
      <4>4. ~HasStop(eventQue'[k]) /\ OneStop(eventQue'[k]) /\ ~Untold(k)
        BY <2>5, <4>1, <4>2 DEF StopOf
      <4>5. QED
        BY <2>3, <2>5, <4>3, <4>4 DEF StopOf
    <3>4. CASE EventChannel(k)
      <4>1. /\ batch[k] # <<>> /\ batch'[k] = Tail(batch[k])
            /\ eventQue' = eventQue /\ stopTh' = stopTh
        BY <1>0, <3>4 DEF EventChannel, EventNext, BatchInv, TypeOK
      <4>2. OneStop(batch'[k]) /\ (HasStop(batch'[k]) => HasStop(batch[k]))
        BY <2>5, <2>6, <4>1, TailEvent DEF StopOf
      <4>3. QED
        BY <2>3, <2>5, <4>1, <4>2 DEF StopOf
    <3>5. QED
      BY <1>4, <3>1, <3>2, <3>3, <3>4 DEF EventThread
  <2>8. \A m \in Mpu \ {k} : StopOf(m)'
    BY <2>2, <2>3, <2>4, StopFrame DEF StopInv
  <2>9. QED
    BY <2>7, <2>8 DEF StopInv
<1>5. ASSUME NEW k \in Mpu, WorkThread(k) PROVE StopInv'
  <2>1. /\ UNCHANGED <<mpus, batch, eventQue, stopTh, callVars>>
        /\ \A m \in Mpu : Live(m) => Live(m)'
    BY <1>0, <1>5 DEF WorkThread, WorkExit, WorkFail, mcuVars, Live, TypeOK
  <2>2. QED
    BY <2>1, StopThread DEF callVars
<1>6. ASSUME NEW k \in Mpu, Destroy(k) PROVE StopInv'
  <2>1. UNCHANGED <<mpus, callVars>>
    BY <1>6 DEF Destroy, DestroyJoinStop, DestroyEnd, mcuVars
  <2>2. \A m \in Mpu : Untold(m)' <=> Untold(m)
    BY <2>1 DEF Untold, InTable, callVars
  <2>3. CASE DestroyJoinStop(k)
    <3>1. /\ UNCHANGED <<batch, eventQue, status>>
          /\ \A m \in Mpu : stopTh'[m] = "none" <=> stopTh[m] = "none"
      BY <1>0, <2>3 DEF DestroyJoinStop, Joinable, TypeOK
    <3>2. QED
      BY <2>2, <3>1 DEF StopInv, StopOf, Live
  <2>4. CASE DestroyEnd(k)
    <3>1. CASE process' = "dead"
      <4>1. UNCHANGED mpuVars
        BY <2>4, <3>1 DEF DestroyEnd
      <4>2. QED
        BY <2>1, <4>1, StopCall DEF mpuVars, callVars
    <3>2. CASE process' # "dead"
      <4>1. /\ status' = [status EXCEPT ![k] = "nil"]
            /\ eventQue' = [eventQue EXCEPT ![k] = <<>>]
            /\ batch' = [batch EXCEPT ![k] = <<>>]
            /\ stopTh' = [stopTh EXCEPT ![k] = "none"]
        BY <2>4, <3>2 DEF DestroyEnd, Crash
      <4>2. StopOf(k)'
        <5>1. stopTh'[k] = "none" /\ batch'[k] = <<>> /\ eventQue'[k] = <<>>
          BY <1>0, <4>1 DEF TypeOK
        <5>2. QED
          BY <5>1, NoEvents DEF StopOf
      <4>3. \A m \in Mpu \ {k} : StopOf(m)'
        BY <1>0, <2>2, <4>1, StopFrame DEF StopInv, Live, TypeOK
      <4>4. QED
        BY <4>2, <4>3 DEF StopInv
    <3>3. QED
      BY <3>1, <3>2
  <2>5. QED
    BY <1>6, <2>3, <2>4 DEF Destroy
<1>7. ASSUME NEW x \in Executor, NEW k \in Mpu, Stop(x, k) PROVE StopInv'
  <2>1. UNCHANGED <<mpus, batch, eventQue, callVars>>
    BY <1>7 DEF Stop, StopEnter, StopJoinWork, StopJoinEvent, mcuVars
  <2>2. \A m \in Mpu : Untold(m)' <=> Untold(m)
    BY <2>1 DEF Untold, InTable, callVars
  <2>3. /\ \A m \in Mpu : stopTh'[m] = "none" <=> stopTh[m] = "none"
        /\ \A m \in Mpu : Live(m) => Live(m)'
    BY <1>0, <1>7 DEF Stop, StopEnter, StopJoinWork, StopJoinEvent, StopGoto, Live, TypeOK
  <2>4. QED
    BY <2>1, <2>2, <2>3 DEF StopInv, StopOf
<1>8. CASE AutoClose
  <2>1. UNCHANGED <<mpus, batch, eventQue, stopTh, status, callVars>>
    BY <1>8 DEF AutoClose, CloserWake, CloserCount, CloserSkip, CloserDestroy, mcuVars, mpuVars
  <2>2. QED
    BY <2>1, StopCall DEF callVars
<1>9. CASE UNCHANGED vars
  BY <1>9, StopCall DEF vars, mcuVars, mpuVars, callVars
<1>10. QED
  BY <1>1, <1>2, <1>3, <1>4, <1>5, <1>6, <1>7, <1>8, <1>9 DEF Next, Dead

(* The stop events of the two queues, counted as StopOnce counts them.     *)
LEMMA StopCounted ==
  ASSUME NEW b \in Seq(Event), NEW q \in Seq(Event), OneStop(b), OneStop(q),
         ~(HasStop(b) /\ HasStop(q))
  PROVE  LET n == Cardinality({i \in DOMAIN (b \o q) : (b \o q)[i] = "stop"})
         IN  n \in {0, 1} /\ (n = 1 => HasStop(b) \/ HasStop(q))
<1> DEFINE S == {i \in DOMAIN (b \o q) : (b \o q)[i] = "stop"}
<1>1. /\ DOMAIN (b \o q) = 1..(Len(b) + Len(q))
      /\ Len(b) \in Nat /\ Len(q) \in Nat
      /\ DOMAIN b = 1..Len(b) /\ DOMAIN q = 1..Len(q)
      /\ \A i \in 1..(Len(b) + Len(q)) :
           (b \o q)[i] = IF i <= Len(b) THEN b[i] ELSE q[i - Len(b)]
  OBVIOUS
<1>2. \A i \in S : \/ i \in DOMAIN b /\ b[i] = "stop"
                   \/ i - Len(b) \in DOMAIN q /\ q[i - Len(b)] = "stop" /\ i \in Int
  BY <1>1
<1>3. \A i, k \in S : i = k
  <2> TAKE i \in S, k \in S
  <2>1. CASE HasStop(b)
    <3>1. \A n \in DOMAIN q : q[n] # "stop"
      BY <2>1 DEF HasStop
    <3>2. QED
      BY <1>2, <3>1 DEF OneStop
  <2>2. CASE ~HasStop(b)
    <3>1. \A n \in DOMAIN b : b[n] # "stop"
      BY <2>2 DEF HasStop
    <3>2. i - Len(b) = k - Len(b) /\ i \in Int /\ k \in Int
      BY <1>2, <3>1 DEF OneStop
    <3>3. QED
      BY <1>1, <3>2
  <2>3. QED
    BY <2>1, <2>2
<1>4. S # {} => HasStop(b) \/ HasStop(q)
  BY <1>2 DEF HasStop
<1>5. S = {} \/ \E i : S = {i}
  BY <1>3
<1>6. Cardinality(S) = IF S = {} THEN 0 ELSE 1
  <2> HIDE DEF S
  <2>1. S = {} => Cardinality(S) = 0
    BY FS_EmptySet, Zenon
  <2>2. ASSUME NEW i, S = {i} PROVE Cardinality(S) = 1
    BY <2>2, FS_Singleton, Zenon
  <2>3. S # {} => Cardinality(S) = 1
    BY <1>5, <2>2, Zenon
  <2>4. QED
    BY <2>1, <2>3
<1>7. Cardinality(S) \in {0, 1} /\ (Cardinality(S) = 1 => HasStop(b) \/ HasStop(q))
  <2> HIDE DEF S
  <2> QED
    BY <1>4, <1>6
<1>8. QED
  BY <1>7, Zenon

(* ToldOnce: whoever ends a job, an MPU is told to stop once at most.      *)
THEOREM ToldOnce == Spec => []StopOnce
<1>1. TypeOK /\ StopInv => StopOnce
  <2> SUFFICES ASSUME TypeOK, StopInv, NEW m \in Mpu
               PROVE  Cardinality({i \in DOMAIN (batch[m] \o eventQue[m]) :
                                     (batch[m] \o eventQue[m])[i] = "stop"})
                        + (IF stopTh[m] = "none" THEN 0 ELSE 1) <= 1
    BY DEF StopOnce
  <2> DEFINE n == Cardinality({i \in DOMAIN (batch[m] \o eventQue[m]) :
                                 (batch[m] \o eventQue[m])[i] = "stop"})
  <2>1. batch[m] \in Seq(Event) /\ eventQue[m] \in Seq(Event)
    BY DEF TypeOK, Event
  <2>2. StopOf(m)
    BY DEF StopInv
  <2>3. n \in {0, 1} /\ (n = 1 => HasStop(batch[m]) \/ HasStop(eventQue[m]))
    BY <2>1, <2>2, StopCounted DEF StopOf
  <2>4. stopTh[m] # "none" => n = 0
    BY <2>2, <2>3 DEF StopOf
  <2> HIDE DEF n
  <2>5. n + (IF stopTh[m] = "none" THEN 0 ELSE 1) <= 1
    BY <2>3, <2>4
  <2>6. QED
    BY <2>5 DEF n
<1>2. IInv => TypeOK
  BY DEF IInv
<1>3. QED
  BY <1>1, <1>2, InitIInv, StepIInv, InitStopInv, StopStep, PTL DEF Spec

-----------------------------------------------------------------------------
(***************************************************************************)
(* JobAccounting. Each side of the equation moves in two steps of the same *)
(* thread: createMpu inserts and then counts, autoClose destroys and then  *)
(* uncounts.                                                               *)
(***************************************************************************)
Existing == {m \in Mpu : Live(m)}
Inserted == {t \in Caller : pc[t] = "count"}
Uncounted == IF closer = "uncount" THEN 1 ELSE 0

LEMMA FiniteParts ==
  /\ IsFiniteSet(Existing) /\ Cardinality(Existing) \in Nat
  /\ IsFiniteSet(Inserted) /\ Cardinality(Inserted) \in Nat
<1>1. IsFiniteSet(Mpu) /\ IsFiniteSet(Client)
  BY JobControlAssumption DEF JobControlAssumption
<1>2. IsFiniteSet(Caller)
  BY <1>1, FS_Union DEF Caller
<1>3. Existing \in SUBSET Mpu /\ Inserted \in SUBSET Caller
  BY DEF Existing, Inserted
<1>4. IsFiniteSet(Existing) /\ IsFiniteSet(Inserted)
  BY <1>1, <1>2, <1>3, FS_Subset
<1>5. QED
  BY <1>4, FS_CardinalityType

LEMMA AccountIs ==
  /\ JobAccounting <=> runningJob = Cardinality(Existing) - Cardinality(Inserted) + Uncounted
  /\ JobAccounting' <=>
       runningJob' = Cardinality(Existing)' - Cardinality(Inserted)' + Uncounted'
  BY DEF JobAccounting, Existing, Inserted, Uncounted

(* A step that creates, counts and destroys nothing.                       *)
LEMMA AccountKept ==
  ASSUME JobAccounting, runningJob' = runningJob,
         \A m \in Mpu : Live(m)' <=> Live(m),
         \A t \in Caller : pc'[t] = "count" <=> pc[t] = "count",
         closer' = "uncount" <=> closer = "uncount"
  PROVE  JobAccounting'
<1>1. Existing' = Existing /\ Inserted' = Inserted /\ Uncounted' = Uncounted
  BY DEF Existing, Inserted, Uncounted
<1>2. QED
  BY <1>1, AccountIs

LEMMA InitAccounting == Init => JobAccounting
<1> SUFFICES ASSUME Init PROVE JobAccounting
  OBVIOUS
<1>1. Existing = {} /\ Inserted = {} /\ Uncounted = 0 /\ runningJob = 0
  BY DEF Init, Existing, Inserted, Uncounted, Live, Caller
<1>2. Cardinality(Existing) = 0 /\ Cardinality(Inserted) = 0
  BY <1>1, FS_EmptySet
<1>3. QED
  BY <1>1, <1>2, AccountIs

LEMMA AccountingStep == IInv /\ JobAccounting /\ [Next]_vars => JobAccounting'
<1> SUFFICES ASSUME IInv, JobAccounting, [Next]_vars PROVE JobAccounting'
  OBVIOUS
<1>0. TypeOK /\ CallInv /\ CloserInv /\ ThreadsOfLive
  BY DEF IInv
<1>1. ASSUME NEW c \in Client, Request(c) PROVE JobAccounting'
  <2>1. \A t \in Caller : pc'[t] = "count" <=> pc[t] = "count"
    BY <1>0, <1>1 DEF Request, CreateLookup, FindJob, Goto, TypeOK
  <2>2. UNCHANGED <<status, runningJob, closer>>
    BY <1>1 DEF Request, CreateLookup, FindJob, mcuVars, mpuVars, closeVars
  <2>3. QED
    BY <2>1, <2>2, AccountKept DEF Live
<1>2. ASSUME NEW t \in Caller, NEW j \in Job, EndTake(t, j) PROVE JobAccounting'
  <2>1. pc[t] \in {"idle", "callback"}
    BY <1>2 DEF EndTake, Calls
  <2>2. \A u \in Caller : pc'[u] = "count" <=> pc[u] = "count"
    BY <1>0, <1>2, <2>1 DEF EndTake, Return, TypeOK
  <2>3. UNCHANGED <<status, runningJob, closer>>
    BY <1>2 DEF EndTake, mpuVars, closeVars
  <2>4. QED
    BY <2>2, <2>3, AccountKept DEF Live
<1>3. ASSUME NEW t \in Caller, Call(t) PROVE JobAccounting'
  <2>1. CASE CreateEmplace(t)
    <3>0. pc[t] = "emplace" /\ UNCHANGED <<runningJob, closer>>
      BY <2>1 DEF CreateEmplace, closeVars
    <3>1. CASE mpus[reqJob[t]] # None
      <4>1. Return(t) /\ UNCHANGED status
        BY <2>1, <3>1 DEF CreateEmplace, Lose
      <4>2. \A u \in Caller : pc'[u] = "count" <=> pc[u] = "count"
        BY <1>0, <3>0, <4>1 DEF Return, TypeOK
      <4>3. QED
        BY <3>0, <4>1, <4>2, AccountKept DEF Live
    <3>2. CASE mpus[reqJob[t]] = None
      <4>1. PICK k \in Mpu :
              /\ ~Live(k)
              /\ status' = [status EXCEPT ![k] = "run"]
              /\ pc' = [pc EXCEPT ![t] = "count"]
        BY <2>1, <3>2 DEF CreateEmplace, Lose
      <4>2. Existing' = Existing \cup {k} /\ k \notin Existing
        BY <1>0, <4>1 DEF Existing, Live, TypeOK
      <4>3. Inserted' = Inserted \cup {t} /\ t \notin Inserted
        BY <1>0, <3>0, <4>1 DEF Inserted, TypeOK
      <4>4. /\ Cardinality(Existing)' = Cardinality(Existing) + 1
            /\ Cardinality(Inserted)' = Cardinality(Inserted) + 1
        BY <4>2, <4>3, FiniteParts, FS_AddElement
      <4>5. Uncounted' = Uncounted
        BY <3>0 DEF Uncounted
      <4>6. runningJob' = Cardinality(Existing)' - Cardinality(Inserted)' + Uncounted'
        BY <3>0, <4>4, <4>5, AccountIs, FiniteParts DEF Uncounted
      <4>7. QED
        BY <4>6, AccountIs
    <3>3. QED
      BY <3>1, <3>2
  <2>2. CASE CreateCount(t)
    <3>1. /\ pc[t] = "count" /\ Return(t) /\ runningJob' = runningJob + 1
          /\ UNCHANGED <<status, closer>>
      BY <2>2 DEF CreateCount, mpuVars, closeVars
    <3>2. Inserted' = Inserted \ {t} /\ t \in Inserted
      BY <1>0, <3>1 DEF Inserted, Return, TypeOK
    <3>3. Cardinality(Inserted)' = Cardinality(Inserted) - 1
      BY <3>2, FiniteParts, FS_RemoveElement
    <3>4. Existing' = Existing /\ Uncounted' = Uncounted
      BY <3>1 DEF Existing, Live, Uncounted
    <3>5. runningJob' = Cardinality(Existing)' - Cardinality(Inserted)' + Uncounted'
      BY <3>1, <3>3, <3>4, AccountIs, FiniteParts DEF Uncounted
    <3>6. QED
      BY <3>5, AccountIs
  <2>3. CASE ~CreateEmplace(t) /\ ~CreateCount(t)
    <3>1. \A u \in Caller : pc'[u] = "count" <=> pc[u] = "count"
      BY <1>0, <1>3, <2>3 DEF Call, EndReport, EndHandOver, DerefJob, PushEvent, Goto, Return,
                              callVars, TypeOK
    <3>2. UNCHANGED <<status, runningJob, closer>>
      BY <1>3, <2>3 DEF Call, EndReport, EndHandOver, DerefJob, PushEvent, mcuVars, mpuVars,
                        closeVars
    <3>3. QED
      BY <3>1, <3>2, AccountKept DEF Live
  <2>4. QED
    BY <2>1, <2>2, <2>3
<1>4. ASSUME NEW k \in Mpu, EventThread(k) PROVE JobAccounting'
  <2>1. UNCHANGED <<runningJob, closer>>
    BY <1>4 DEF EventThread, EventSwap, EventCheck, EventStop, EventChannel, EventFail,
                EventExit, mcuVars, closeVars
  <2>2. \A u \in Caller : pc'[u] = "count" <=> pc[u] = "count"
    BY <1>0, <1>4 DEF EventThread, EventSwap, EventCheck, EventStop, EventChannel, EventFail,
                      EventExit, Goto, callVars, TypeOK
  <2>3. \A m \in Mpu : Live(m)' <=> Live(m)
    BY <1>0, <1>4 DEF EventThread, EventSwap, EventCheck, EventStop, EventChannel, EventFail,
                      EventExit, Live, ThreadsOfLive, TypeOK
  <2>4. QED
    BY <2>1, <2>2, <2>3, AccountKept
<1>5. ASSUME NEW k \in Mpu, WorkThread(k) PROVE JobAccounting'
  <2>1. UNCHANGED <<runningJob, closer, pc>>
    BY <1>5 DEF WorkThread, WorkExit, WorkFail, mcuVars, closeVars, callVars
  <2>2. \A m \in Mpu : Live(m)' <=> Live(m)
    BY <1>0, <1>5 DEF WorkThread, WorkExit, WorkFail, Live, ThreadsOfLive, TypeOK
  <2>3. QED
    BY <2>1, <2>2, AccountKept
<1>6. ASSUME NEW k \in Mpu, Destroy(k) PROVE JobAccounting'
  <2>1. CASE DestroyJoinStop(k)
    BY <2>1, AccountKept DEF DestroyJoinStop, Live, mcuVars, closeVars, callVars
  <2>2. CASE DestroyEnd(k)
    <3>1. CASE process' = "dead"
      <4>1. UNCHANGED <<runningJob, closer, pc, status>>
        BY <2>2, <3>1 DEF DestroyEnd, mcuVars, mpuVars, callVars
      <4>2. QED
        BY <4>1, AccountKept DEF Live
    <3>2. CASE process' # "dead"
      <4>1. /\ dtor[k] = "done" /\ closer' = "uncount"
            /\ status' = [status EXCEPT ![k] = "nil"]
            /\ UNCHANGED <<runningJob, pc>>
        BY <2>2, <3>2 DEF DestroyEnd, Crash, mcuVars, callVars
      <4>2. Live(k) /\ closer = "destroy"
        BY <1>0, <4>1 DEF ThreadsOfLive, CloserInv, Dying
      <4>3. Existing' = Existing \ {k} /\ k \in Existing
        BY <1>0, <4>1, <4>2 DEF Existing, Live, TypeOK
      <4>4. Cardinality(Existing)' = Cardinality(Existing) - 1
        BY <4>3, FiniteParts, FS_RemoveElement
      <4>5. Inserted' = Inserted /\ Uncounted = 0 /\ Uncounted' = 1
        BY <4>1, <4>2 DEF Inserted, Uncounted
      <4>6. runningJob' = Cardinality(Existing)' - Cardinality(Inserted)' + Uncounted'
        BY <4>1, <4>4, <4>5, AccountIs, FiniteParts
      <4>7. QED
        BY <4>6, AccountIs
    <3>3. QED
      BY <3>1, <3>2
  <2>3. QED
    BY <1>6, <2>1, <2>2 DEF Destroy
<1>7. ASSUME NEW x \in Executor, NEW k \in Mpu, Stop(x, k) PROVE JobAccounting'
  <2>1. UNCHANGED <<runningJob, closer, pc>>
    BY <1>7 DEF Stop, StopEnter, StopJoinWork, StopJoinEvent, mcuVars, closeVars, callVars
  <2>2. \A m \in Mpu : Live(m)' <=> Live(m)
    BY <1>0, <1>7 DEF Stop, StopEnter, StopJoinWork, StopJoinEvent, StopGoto, Live,
                      ThreadsOfLive, TypeOK
  <2>3. QED
    BY <2>1, <2>2, AccountKept
<1>8. CASE AutoClose
  <2>1. UNCHANGED <<status, pc>>
    BY <1>8 DEF AutoClose, CloserWake, CloserCount, CloserSkip, CloserDestroy, mpuVars, callVars
  <2>2. CASE CloserCount
    <3>1. closer = "uncount" /\ closer' # "uncount" /\ runningJob' = runningJob - 1
      BY <2>2 DEF CloserCount, CloserNext
    <3>2. Existing' = Existing /\ Inserted' = Inserted /\ Uncounted = 1 /\ Uncounted' = 0
      BY <2>1, <3>1 DEF Existing, Inserted, Live, Uncounted
    <3>3. runningJob' = Cardinality(Existing)' - Cardinality(Inserted)' + Uncounted'
      BY <3>1, <3>2, AccountIs, FiniteParts
    <3>4. QED
      BY <3>3, AccountIs
  <2>3. CASE ~CloserCount
    <3>1. runningJob' = runningJob /\ closer # "uncount" /\ closer' # "uncount"
      BY <1>8, <2>3 DEF AutoClose, CloserWake, CloserSkip, CloserDestroy, CloserNext, mcuVars
    <3>2. QED
      BY <2>1, <3>1, AccountKept DEF Live
  <2>4. QED
    BY <2>2, <2>3
<1>9. CASE UNCHANGED vars
  BY <1>9, AccountKept DEF vars, mcuVars, closeVars, mpuVars, callVars, Live
<1>10. QED
  BY <1>1, <1>2, <1>3, <1>4, <1>5, <1>6, <1>7, <1>8, <1>9 DEF Next, Dead

(* Accounting: no request that loses a race leaves the counter of running  *)
(* jobs off by one.                                                        *)
THEOREM Accounting == Spec => []JobAccounting
  BY InitIInv, StepIInv, InitAccounting, AccountingStep, PTL DEF Spec

-----------------------------------------------------------------------------
(***************************************************************************)
(* The SIP front end alone: its receive loop is the one thread that serves *)
(* requests. While no loop throws, nothing ends the process and "end"      *)
(* means what autoClose takes it to mean. With one client an MPU is told   *)
(* to stop after everything else it is told, so that its event thread      *)
(* handles nothing more once stopTh runs, and starts no work thread that   *)
(* stop() has already looked for.                                          *)
(***************************************************************************)
SoleClient == (\A c, d \in Client : c = d) /\ Failing = {}

StopLast(s) == \A i \in DOMAIN s : s[i] = "stop" => i = Len(s)

(* What a request found is still in the table when it is dereferenced.     *)
FindInv ==
  \A c \in Client :
    pc[c] \in {"deref", "push"} => reqJob[c] \in Job /\ mpus[reqJob[c]] = held[c]

QuietOf(m) ==
  /\ StopLast(batch[m]) /\ StopLast(eventQue[m])
  /\ HasStop(batch[m]) => eventQue[m] = <<>>
  /\ stopTh[m] # "none" => batch[m] = <<>> /\ eventQue[m] = <<>>
  /\ status[m] # "exce"
  /\ stopTh[m] \in {"none", "enter"} => status[m] \in {"nil", "run"}
  /\ stopTh[m] \in {"joinWork", "joinEvent"} => status[m] = "down"
  /\ stopTh[m] = "joinEvent" => ~Joinable(workTh[m])
  /\ stopTh[m] \in {"done", "joined"} =>
       status[m] = "end" /\ ~Joinable(workTh[m]) /\ ~Joinable(eventTh[m])
  /\ dtor[m] # "none" => dtor[m] \in {"joinStop", "enter", "done"} /\ status[m] = "end"
  /\ dtor[m] \in {"enter", "done"} => ~Joinable(stopTh[m])

SoleInv ==
  /\ NeverCrashes
  /\ \A m \in Mpu : pc[m] = "idle"
  /\ FindInv
  /\ \A m \in Mpu : QuietOf(m)

LEMMA InitSoleInv == Init => SoleInv
<1> SUFFICES ASSUME Init PROVE SoleInv
  OBVIOUS
<1>1. \A s : s = <<>> => StopLast(s) /\ ~HasStop(s)
  BY DEF StopLast, HasStop
<1>2. \A m \in Mpu : QuietOf(m)
  BY <1>1 DEF Init, QuietOf
<1>3. QED
  BY <1>2 DEF Init, SoleInv, NeverCrashes, FindInv, Caller

LEMMA AppendLast ==
  ASSUME NEW s \in Seq(Event), ~HasStop(s), NEW e \in Event
  PROVE  StopLast(Append(s, e))
<1>1. /\ DOMAIN Append(s, e) = 1..(Len(s) + 1) /\ Len(Append(s, e)) = Len(s) + 1
      /\ \A i \in 1..Len(s) : Append(s, e)[i] = s[i]
      /\ DOMAIN s = 1..Len(s) /\ Len(s) \in Nat
  OBVIOUS
<1>2. \A i \in 1..(Len(s) + 1) : i \in 1..Len(s) \/ i = Len(s) + 1
  BY <1>1
<1>3. QED
  BY <1>1, <1>2 DEF HasStop, StopLast

LEMMA TailLast ==
  ASSUME NEW s \in Seq(Event), s # <<>>, StopLast(s)
  PROVE  /\ StopLast(Tail(s))
         /\ Head(s) = "stop" => Tail(s) = <<>>
<1>1. /\ DOMAIN Tail(s) = 1..(Len(s) - 1) /\ DOMAIN s = 1..Len(s)
      /\ Len(Tail(s)) = Len(s) - 1
      /\ Len(s) \in Nat /\ Len(s) # 0
      /\ Head(s) = s[1]
      /\ \A i \in 1..(Len(s) - 1) : Tail(s)[i] = s[i + 1]
  OBVIOUS
<1>2. \A i \in 1..(Len(s) - 1) : i + 1 \in 1..Len(s)
  BY <1>1
<1>3. StopLast(Tail(s))
  BY <1>1, <1>2 DEF StopLast
<1>4. ASSUME Head(s) = "stop" PROVE Tail(s) = <<>>
  <2>1. Len(s) = 1
    BY <1>1, <1>4 DEF StopLast
  <2>2. Tail(s) \in Seq(Event) /\ Len(Tail(s)) = 0
    BY <1>1, <2>1
  <2>3. QED
    BY <2>2, EmptySeq
<1>5. QED
  BY <1>3, <1>4

(* A step that leaves the threads and the queues of m alone.               *)
LEMMA QuietFrame ==
  ASSUME NEW m \in Mpu, QuietOf(m),
         batch'[m] = batch[m], eventQue'[m] = eventQue[m], status'[m] = status[m],
         eventTh'[m] = eventTh[m], workTh'[m] = workTh[m], stopTh'[m] = stopTh[m],
         dtor'[m] = dtor[m]
  PROVE  QuietOf(m)'
  BY DEF QuietOf

LEMMA QuietAll ==
  ASSUME \A m \in Mpu : QuietOf(m),
         UNCHANGED <<batch, eventQue, status, eventTh, workTh, stopTh, dtor>>
  PROVE  \A m \in Mpu : QuietOf(m)'
  BY QuietFrame

(* A step of a thread of an MPU.                                           *)
LEMMA SoleThread ==
  ASSUME SoleInv, NeverCrashes', UNCHANGED <<mpus, pc, reqJob, held>>,
         \A m \in Mpu : QuietOf(m)'
  PROVE  SoleInv'
  BY DEF SoleInv, FindInv

LEMMA SoleStep == SoleClient /\ IInv /\ StopInv /\ SoleInv /\ [Next]_vars => SoleInv'
<1> SUFFICES ASSUME SoleClient, IInv, StopInv, SoleInv, [Next]_vars PROVE SoleInv'
  OBVIOUS
<1>0. /\ TypeOK /\ CallInv /\ BatchInv /\ OneOwner /\ ThreadsOfLive
      /\ Failing = {} /\ \A c, d \in Client : c = d
      /\ \A m \in Mpu : pc[m] = "idle"
      /\ FindInv /\ \A m \in Mpu : QuietOf(m)
      /\ process = "up"
  BY DEF IInv, SoleClient, SoleInv, NeverCrashes
<1>1. ASSUME NEW c \in Client, Request(c) PROVE SoleInv'
  <2>1. UNCHANGED <<mpus, mpuVars, process>>
    BY <1>1 DEF Request, CreateLookup, FindJob, mcuVars, Alive
  <2>2. /\ c \in Caller /\ c \notin Mpu
        /\ \A d \in Client : d = c
    BY <1>0, JobControlAssumption DEF Caller, JobControlAssumption
  <2>3. (\A m \in Mpu : pc'[m] = "idle") /\ FindInv'
    <3>1. ASSUME NEW j \in Job, CreateLookup(c, j)
          PROVE  (\A m \in Mpu : pc'[m] = "idle") /\ FindInv'
      BY <1>0, <2>2, <3>1 DEF CreateLookup, Goto, FindInv, Caller, TypeOK
    <3>2. ASSUME NEW j \in Job, FindJob(c, j)
          PROVE  (\A m \in Mpu : pc'[m] = "idle") /\ FindInv'
      BY <1>0, <2>1, <2>2, <3>2 DEF FindJob, Goto, FindInv, Caller, TypeOK
    <3>3. QED
      BY <1>1, <3>1, <3>2 DEF Request
  <2>4. \A m \in Mpu : QuietOf(m)'
    BY <1>0, <2>1, QuietAll DEF mpuVars
  <2>5. QED
    BY <1>0, <2>1, <2>3, <2>4 DEF SoleInv, NeverCrashes
<1>2. ASSUME NEW t \in Caller, NEW j \in Job, EndTake(t, j) PROVE SoleInv'
  <2>1. t \in Client /\ t \notin Mpu /\ pc[t] = "idle" /\ \A d \in Client : d = t
    BY <1>0, <1>2, JobControlAssumption DEF EndTake, Calls, JobControlAssumption
  <2>2. /\ pc' = [pc EXCEPT ![t] = "report"]
        /\ UNCHANGED <<mpuVars, process>>
    BY <1>2, <2>1 DEF EndTake, Alive
  <2>3. (\A m \in Mpu : pc'[m] = "idle") /\ FindInv'
    BY <1>0, <2>1, <2>2 DEF FindInv, TypeOK, Caller
  <2>4. \A m \in Mpu : QuietOf(m)'
    BY <1>0, <2>2, QuietAll DEF mpuVars
  <2>5. QED
    BY <1>0, <2>2, <2>3, <2>4 DEF SoleInv, NeverCrashes
<1>3. ASSUME NEW t \in Caller, Call(t) PROVE SoleInv'
  <2>1. /\ t \in Client /\ t \notin Mpu /\ \A d \in Client : d = t
        /\ \A m \in Mpu : m # t
    <3>1. pc[t] # "idle"
      BY <1>3 DEF Call, CreateEmplace, CreateCount, EndReport, EndHandOver, DerefJob, PushEvent,
                  Goto
    <3>2. QED
      BY <1>0, <3>1 DEF Caller
  <2>2. \A m \in Mpu : pc'[m] = "idle"
    <3>1. \A u \in Caller : u # t => pc'[u] = pc[u]
      BY <1>0, <1>3 DEF Call, CreateEmplace, Lose, CreateCount, EndReport, EndHandOver,
                        DerefJob, PushEvent, Goto, Return, callVars, TypeOK
    <3>2. QED
      BY <1>0, <2>1, <3>1 DEF Caller
  <2>3. CASE CreateEmplace(t)
    <3>1. pc'[t] \in {"count", "idle"}
      BY <1>0, <2>3 DEF CreateEmplace, Lose, Return, TypeOK
    <3>2. FindInv'
      BY <2>1, <3>1 DEF FindInv
    <3>3. \A m \in Mpu : QuietOf(m)'
      <4>1. CASE mpus[reqJob[t]] # None
        <5>1. UNCHANGED <<batch, eventQue, status, eventTh, workTh, stopTh, dtor>>
          BY <2>3, <4>1 DEF CreateEmplace, Lose
        <5>2. QED
          BY <1>0, <5>1, QuietAll
      <4>2. CASE mpus[reqJob[t]] = None
        <5>1. PICK k \in Mpu :
                /\ ~Live(k)
                /\ status' = [status EXCEPT ![k] = "run"]
                /\ eventTh' = [eventTh EXCEPT ![k] = "loop"]
                /\ UNCHANGED <<eventQue, batch, workTh, stopTh, dtor>>
          BY <2>3, <4>2 DEF CreateEmplace, Lose
        <5>2. QuietOf(k)'
          <6>1. status'[k] = "run" /\ stopTh'[k] = "none" /\ dtor'[k] = "none"
            BY <1>0, <5>1 DEF ThreadsOfLive, TypeOK
          <6>2. batch'[k] = batch[k] /\ eventQue'[k] = eventQue[k] /\ QuietOf(k)
            BY <1>0, <5>1
          <6>3. QED
            BY <6>1, <6>2 DEF QuietOf
        <5>3. \A m \in Mpu \ {k} : QuietOf(m)'
          BY <1>0, <5>1, QuietFrame DEF TypeOK
        <5>4. QED
          BY <5>2, <5>3
      <4>3. QED
        BY <4>1, <4>2
    <3>4. QED
      BY <1>0, <2>2, <2>3, <3>2, <3>3 DEF SoleInv, NeverCrashes, CreateEmplace, Alive
  <2>4. CASE CreateCount(t) \/ EndHandOver(t)
    <3>1. pc'[t] = "idle" /\ UNCHANGED <<process, mpuVars>>
      BY <1>0, <2>4 DEF CreateCount, EndHandOver, Return, Alive, TypeOK
    <3>2. FindInv'
      BY <2>1, <3>1 DEF FindInv
    <3>3. \A m \in Mpu : QuietOf(m)'
      BY <1>0, <3>1, QuietAll DEF mpuVars
    <3>4. QED
      BY <1>0, <2>2, <3>1, <3>2, <3>3 DEF SoleInv, NeverCrashes
  <2>5. CASE EndReport(t)
    <3>1. PICK k \in Mpu : k = held[t]
      BY <1>0, <2>5 DEF EndReport, Goto, CallInv
    <3>2. /\ pc[t] = "report" /\ pc'[t] = "handOver"
          /\ UNCHANGED <<process, status, batch, eventTh, workTh, stopTh, dtor>>
          /\ eventQue' = IF status[k] = "run"
                         THEN [eventQue EXCEPT ![k] = Append(@, "stop")] ELSE eventQue
      BY <1>0, <2>5, <3>1 DEF EndReport, Goto, Alive, TypeOK
    <3>3. FindInv'
      BY <2>1, <3>2 DEF FindInv
    <3>4. \A m \in Mpu : QuietOf(m)'
      <4>1. Untold(k) /\ StopOf(k)
        BY <3>1, <3>2 DEF Untold, StopInv
      <4>2. stopTh[k] = "none" /\ ~HasStop(batch[k]) /\ ~HasStop(eventQue[k])
        BY <4>1 DEF StopOf
      <4>3. eventQue[k] \in Seq(Event)
        BY <1>0 DEF TypeOK, Event
      <4>4. StopLast(Append(eventQue[k], "stop"))
        BY <4>2, <4>3, AppendLast DEF Event
      <4>5. eventQue'[k] = Append(eventQue[k], "stop") \/ eventQue'[k] = eventQue[k]
        BY <1>0, <3>2 DEF TypeOK
      <4>6. QuietOf(k)'
        BY <1>0, <3>2, <4>2, <4>4, <4>5 DEF QuietOf
      <4>7. \A m \in Mpu \ {k} : QuietOf(m)'
        BY <1>0, <3>2, QuietFrame DEF TypeOK
      <4>8. QED
        BY <4>6, <4>7
    <3>5. QED
      BY <1>0, <2>2, <3>2, <3>3, <3>4 DEF SoleInv, NeverCrashes
  <2>6. CASE DerefJob(t)
    <3>1. mpus[reqJob[t]] = held[t]
      BY <1>0, <2>1, <2>6 DEF DerefJob, FindInv
    <3>2. UNCHANGED <<process, mpuVars, mpus>> /\ (pc'[t] = "push" \/ pc'[t] = "idle")
      BY <1>0, <2>6, <3>1 DEF DerefJob, Return, TypeOK, mcuVars
    <3>3. pc'[t] = "push" => UNCHANGED <<reqJob, held>> /\ pc[t] = "deref"
      BY <1>0, <2>6, <3>1 DEF DerefJob, Return, TypeOK
    <3>4. FindInv'
      BY <1>0, <2>1, <3>2, <3>3 DEF FindInv
    <3>5. \A m \in Mpu : QuietOf(m)'
      BY <1>0, <3>2, QuietAll DEF mpuVars
    <3>6. QED
      BY <1>0, <2>2, <3>2, <3>4, <3>5 DEF SoleInv, NeverCrashes
  <2>7. CASE PushEvent(t)
    <3>1. PICK k \in Mpu : k = held[t]
      BY <1>0, <2>7 DEF PushEvent, CallInv
    <3>2. InTable(k)
      BY <1>0, <2>1, <2>7, <3>1 DEF PushEvent, FindInv, InTable
    <3>3. Live(k)
      BY <1>0, <3>2 DEF OneOwner
    <3>4. /\ eventQue' = [eventQue EXCEPT ![k] = Append(@, "channel")] /\ pc'[t] = "idle"
          /\ UNCHANGED <<process, status, batch, eventTh, workTh, stopTh, dtor>>
      BY <1>0, <2>7, <3>1, <3>3 DEF PushEvent, Return, TypeOK
    <3>5. FindInv'
      BY <2>1, <3>4 DEF FindInv
    <3>6. \A m \in Mpu : QuietOf(m)'
      <4>1. Untold(k) /\ StopOf(k)
        BY <3>2 DEF Untold, StopInv
      <4>2. stopTh[k] = "none" /\ ~HasStop(batch[k]) /\ ~HasStop(eventQue[k])
        BY <4>1 DEF StopOf
      <4>3. eventQue[k] \in Seq(Event)
        BY <1>0 DEF TypeOK, Event
      <4>4. StopLast(Append(eventQue[k], "channel"))
        BY <4>2, <4>3, AppendLast DEF Event
      <4>5. eventQue'[k] = Append(eventQue[k], "channel")
        BY <1>0, <3>4 DEF TypeOK
      <4>6. QuietOf(k)'
        BY <1>0, <3>4, <4>2, <4>4, <4>5 DEF QuietOf
      <4>7. \A m \in Mpu \ {k} : QuietOf(m)'
        BY <1>0, <3>4, QuietFrame DEF TypeOK
      <4>8. QED
        BY <4>6, <4>7
    <3>7. QED
      BY <1>0, <2>2, <3>4, <3>5, <3>6 DEF SoleInv, NeverCrashes
  <2>8. QED
    BY <1>3, <2>3, <2>4, <2>5, <2>6, <2>7 DEF Call
<1>4. ASSUME NEW k \in Mpu, EventThread(k) PROVE SoleInv'
  <2>1. ~EventFail(k)
    BY <1>0 DEF EventFail
  <2>2. UNCHANGED <<mpus, pc, reqJob, held, process, status, dtor>>
    BY <1>4, <2>1 DEF EventThread, EventSwap, EventCheck, EventStop, EventChannel, EventExit,
                      Alive, mcuVars, callVars
  <2>3. \A m \in Mpu \ {k} : /\ batch'[m] = batch[m] /\ eventQue'[m] = eventQue[m]
                             /\ eventTh'[m] = eventTh[m] /\ workTh'[m] = workTh[m]
                             /\ stopTh'[m] = stopTh[m]
    BY <1>0, <1>4, <2>1 DEF EventThread, EventSwap, EventCheck, EventStop, EventChannel, EventExit,
                            EventNext, TypeOK
  <2>4. QuietOf(k) /\ StopOf(k) /\ batch[k] \in Seq(Event) /\ eventQue[k] \in Seq(Event)
    BY <1>0 DEF StopInv, TypeOK, Event
  <2>5. StopLast(<<>>) /\ ~HasStop(<<>>)
    BY NoEvents DEF StopLast
  <2>6. QuietOf(k)'
    <3>1. CASE EventSwap(k)
      <4>1. /\ eventTh[k] = "loop" /\ status[k] = "run" /\ eventQue[k] # <<>>
            /\ batch'[k] = eventQue[k] /\ eventQue'[k] = <<>>
            /\ UNCHANGED <<stopTh, workTh>>
        BY <1>0, <3>1 DEF EventSwap, TypeOK
      <4>2. stopTh[k] = "none"
        BY <2>4, <4>1 DEF QuietOf
      <4>3. QED
        BY <2>2, <2>4, <2>5, <4>1, <4>2 DEF QuietOf
    <3>2. CASE EventCheck(k)
      <4>1. /\ eventTh[k] = "check" /\ batch[k] # <<>>
            /\ batch'[k] = batch[k] \/ batch'[k] = <<>>
            /\ UNCHANGED <<eventQue, stopTh, workTh>>
        BY <1>0, <3>2 DEF EventCheck, BatchInv, TypeOK
      <4>2. stopTh[k] = "none"
        BY <2>4, <4>1 DEF QuietOf
      <4>3. QED
        BY <2>2, <2>4, <2>5, <4>1, <4>2 DEF QuietOf
    <3>3. CASE EventStop(k)
      <4>1. /\ Head(batch[k]) = "stop" /\ batch[k] # <<>>
            /\ batch'[k] = Tail(batch[k]) /\ stopTh'[k] = "enter"
            /\ UNCHANGED <<eventQue, workTh>>
        BY <1>0, <3>3 DEF EventStop, EventNext, BatchInv, TypeOK
      <4>2. HasStop(batch[k])
        BY <2>4, <4>1 DEF HasStop
      <4>3. stopTh[k] = "none" /\ eventQue[k] = <<>>
        BY <2>4, <4>2 DEF StopOf, QuietOf
      <4>4. batch'[k] = <<>>
        BY <2>4, <4>1, TailLast DEF QuietOf
      <4>5. status[k] \in {"nil", "run"} /\ dtor[k] = "none"
        BY <2>4, <4>3 DEF QuietOf
      <4>6. QED
        BY <2>2, <2>4, <2>5, <4>1, <4>3, <4>4, <4>5 DEF QuietOf
    <3>4. CASE EventChannel(k)
      <4>1. /\ batch[k] # <<>> /\ batch'[k] = Tail(batch[k])
            /\ UNCHANGED <<eventQue, stopTh>>
        BY <1>0, <3>4 DEF EventChannel, EventNext, BatchInv, TypeOK
      <4>2. stopTh[k] = "none"
        BY <2>4, <4>1 DEF QuietOf
      <4>3. StopLast(batch'[k])
        BY <2>4, <4>1, TailLast DEF QuietOf
      <4>4. HasStop(batch'[k]) => HasStop(batch[k])
        BY <2>4, <4>1, TailEvent DEF StopOf
      <4>5. QED
        BY <2>2, <2>4, <4>1, <4>2, <4>3, <4>4 DEF QuietOf
    <3>5. CASE EventExit(k)
      <4>1. /\ eventTh[k] \in {"loop", "failed"}
            /\ UNCHANGED <<batch, eventQue, stopTh, workTh>>
        BY <3>5 DEF EventExit
      <4>2. stopTh[k] \notin {"done", "joined"}
        BY <2>4, <4>1 DEF QuietOf, Joinable
      <4>3. QED
        BY <2>2, <2>4, <4>1, <4>2 DEF QuietOf
    <3>6. QED
      BY <1>4, <2>1, <3>1, <3>2, <3>3, <3>4, <3>5 DEF EventThread
  <2>7. \A m \in Mpu \ {k} : QuietOf(m)'
    BY <1>0, <2>2, <2>3, QuietFrame
  <2>8. QED
    BY <1>0, <2>2, <2>6, <2>7, SoleThread DEF NeverCrashes
<1>5. ASSUME NEW k \in Mpu, WorkThread(k) PROVE SoleInv'
  <2>1. /\ workTh[k] = "run" /\ workTh' = [workTh EXCEPT ![k] = "done"]
        /\ UNCHANGED <<mpus, pc, reqJob, held, process, status, batch, eventQue, eventTh,
                       stopTh, dtor>>
    BY <1>0, <1>5 DEF WorkThread, WorkExit, WorkFail, Alive, mcuVars, callVars
  <2>2. QuietOf(k)'
    <3>1. stopTh[k] \notin {"done", "joined", "joinEvent"} /\ QuietOf(k)
      BY <1>0, <2>1 DEF QuietOf, Joinable
    <3>2. QED
      BY <2>1, <3>1 DEF QuietOf
  <2>3. \A m \in Mpu \ {k} : QuietOf(m)'
    BY <1>0, <2>1, QuietFrame DEF TypeOK
  <2>4. QED
    BY <1>0, <2>1, <2>2, <2>3, SoleThread DEF NeverCrashes
<1>6. ASSUME NEW k \in Mpu, Destroy(k) PROVE SoleInv'
  <2>1. UNCHANGED <<mpus, pc, reqJob, held>>
    BY <1>6 DEF Destroy, DestroyJoinStop, DestroyEnd, mcuVars, callVars
  <2>2. QuietOf(k)
    BY <1>0
  <2>3. CASE DestroyJoinStop(k)
    <3>1. /\ dtor[k] = "joinStop" /\ dtor' = [dtor EXCEPT ![k] = "enter"]
          /\ UNCHANGED <<process, status, batch, eventQue, eventTh, workTh>>
          /\ \/ ~Joinable(stopTh[k]) /\ stopTh' = stopTh
             \/ stopTh[k] = "done" /\ stopTh' = [stopTh EXCEPT ![k] = "joined"]
      BY <2>3 DEF DestroyJoinStop, Alive
    <3>2. status[k] = "end"
      BY <2>2, <3>1 DEF QuietOf
    <3>3. stopTh[k] \in {"done", "joined"} /\ ~Joinable(workTh[k]) /\ ~Joinable(eventTh[k])
      BY <1>0, <2>2, <3>2 DEF QuietOf, TypeOK
    <3>4. stopTh'[k] = "joined" /\ dtor'[k] = "enter"
      BY <1>0, <3>1, <3>3 DEF Joinable, TypeOK
    <3>5. QuietOf(k)'
      BY <2>2, <3>1, <3>2, <3>3, <3>4 DEF QuietOf, Joinable
    <3>6. \A m \in Mpu \ {k} : QuietOf(m)'
      BY <1>0, <3>1, QuietFrame DEF TypeOK
    <3>7. QED
      BY <1>0, <2>1, <3>1, <3>5, <3>6, SoleThread DEF NeverCrashes
  <2>4. CASE DestroyEnd(k)
    <3>1. status[k] = "end" /\ ~Joinable(stopTh[k])
      BY <2>2, <2>4 DEF QuietOf, DestroyEnd
    <3>2. ~Joinable(workTh[k]) /\ ~Joinable(eventTh[k])
      BY <1>0, <2>2, <3>1 DEF QuietOf, TypeOK
    <3>3. /\ status' = [status EXCEPT ![k] = "nil"]
          /\ eventQue' = [eventQue EXCEPT ![k] = <<>>]
          /\ batch' = [batch EXCEPT ![k] = <<>>]
          /\ eventTh' = [eventTh EXCEPT ![k] = "none"]
          /\ workTh' = [workTh EXCEPT ![k] = "none"]
          /\ stopTh' = [stopTh EXCEPT ![k] = "none"]
          /\ dtor' = [dtor EXCEPT ![k] = "none"]
          /\ process' = process
      BY <2>4, <3>1, <3>2 DEF DestroyEnd
    <3>4. QuietOf(k)'
      <4>1. /\ status'[k] = "nil" /\ eventQue'[k] = <<>> /\ batch'[k] = <<>>
            /\ stopTh'[k] = "none" /\ dtor'[k] = "none"
        BY <1>0, <3>3 DEF TypeOK
      <4>2. StopLast(<<>>) /\ ~HasStop(<<>>)
        BY NoEvents DEF StopLast
      <4>3. QED
        BY <4>1, <4>2 DEF QuietOf
    <3>5. \A m \in Mpu \ {k} : QuietOf(m)'
      BY <1>0, <3>3, QuietFrame DEF TypeOK
    <3>6. QED
      BY <1>0, <2>1, <3>3, <3>4, <3>5, SoleThread DEF NeverCrashes
  <2>5. QED
    BY <1>6, <2>3, <2>4 DEF Destroy
<1>7. ASSUME NEW x \in Executor, NEW k \in Mpu, Stop(x, k) PROVE SoleInv'
  <2>1. UNCHANGED <<mpus, pc, reqJob, held, process, batch, eventQue>>
    BY <1>7 DEF Stop, StopEnter, StopJoinWork, StopJoinEvent, Alive, mcuVars, callVars
  <2>2. QuietOf(k)
    BY <1>0
  <2>3. \A m \in Mpu \ {k} : /\ status'[m] = status[m] /\ eventTh'[m] = eventTh[m]
                             /\ workTh'[m] = workTh[m] /\ stopTh'[m] = stopTh[m]
                             /\ dtor'[m] = dtor[m]
    BY <1>0, <1>7 DEF Stop, StopEnter, StopJoinWork, StopJoinEvent, StopGoto, TypeOK
  <2>4. QuietOf(k)'
    <3>1. CASE x = "stopTh" /\ StopEnter(x, k)
      <4>1. /\ stopTh[k] = "enter" /\ UNCHANGED <<dtor, workTh, eventTh>>
            /\ stopTh'[k] = IF status[k] = "end" THEN "done" ELSE "joinWork"
            /\ status'[k] = IF status[k] = "end" THEN status[k] ELSE "down"
        BY <1>0, <3>1 DEF StopEnter, StopGoto, TypeOK
      <4>2. status[k] # "end" /\ dtor[k] = "none"
        BY <2>2, <4>1 DEF QuietOf
      <4>3. QED
        BY <2>1, <2>2, <4>1, <4>2 DEF QuietOf
    <3>2. CASE x = "stopTh" /\ StopJoinWork(x, k)
      <4>1. /\ stopTh[k] = "joinWork" /\ stopTh'[k] = "joinEvent"
            /\ UNCHANGED <<dtor, status, eventTh>>
            /\ ~Joinable(workTh'[k])
        BY <1>0, <3>2 DEF StopJoinWork, StopGoto, Joinable, TypeOK
      <4>2. QED
        BY <2>1, <2>2, <4>1 DEF QuietOf
    <3>3. CASE x = "stopTh" /\ StopJoinEvent(x, k)
      <4>1. /\ stopTh[k] = "joinEvent" /\ stopTh'[k] = "done"
            /\ UNCHANGED <<dtor, workTh>>
            /\ status'[k] = "end" /\ ~Joinable(eventTh'[k])
        BY <1>0, <3>3 DEF StopJoinEvent, StopGoto, Joinable, TypeOK
      <4>2. dtor[k] = "none"
        BY <2>2, <4>1 DEF QuietOf
      <4>3. QED
        BY <2>1, <2>2, <4>1, <4>2 DEF QuietOf
    <3>4. CASE x = "dtor"
      <4>1. dtor[k] = "enter" /\ StopEnter(x, k)
        BY <1>7, <2>2, <3>4 DEF Stop, StopEnter, StopJoinWork, StopJoinEvent, StopGoto, QuietOf
      <4>2. status[k] = "end" /\ ~Joinable(stopTh[k])
        BY <2>2, <4>1 DEF QuietOf
      <4>3. /\ dtor'[k] = "done" /\ UNCHANGED <<stopTh, workTh, eventTh, status>>
        BY <1>0, <3>4, <4>1, <4>2 DEF StopEnter, StopGoto, TypeOK
      <4>4. QED
        BY <2>1, <2>2, <4>2, <4>3 DEF QuietOf
    <3>5. QED
      BY <1>7, <3>1, <3>2, <3>3, <3>4 DEF Stop, Executor
  <2>5. \A m \in Mpu \ {k} : QuietOf(m)'
    BY <1>0, <2>1, <2>3, QuietFrame
  <2>6. QED
    BY <1>0, <2>1, <2>4, <2>5, SoleThread DEF NeverCrashes
<1>8. CASE AutoClose
  <2>1. UNCHANGED <<mpus, pc, reqJob, held, process>>
    BY <1>8 DEF AutoClose, CloserWake, CloserCount, CloserSkip, CloserDestroy, Alive, mcuVars,
                callVars
  <2>2. UNCHANGED <<batch, eventQue, status, eventTh, workTh, stopTh>>
    BY <1>8 DEF AutoClose, CloserWake, CloserCount, CloserSkip, CloserDestroy, mpuVars
  <2>3. CASE UNCHANGED dtor
    <3>1. \A m \in Mpu : QuietOf(m)'
      BY <1>0, <2>2, <2>3, QuietAll
    <3>2. QED
      BY <1>0, <2>1, <3>1, SoleThread DEF NeverCrashes
  <2>4. ASSUME NEW k \in Mpu, CloserDestroy(k) PROVE SoleInv'
    <3>1. /\ status[k] \in {"end", "exce"} /\ dtor' = [dtor EXCEPT ![k] = "joinStop"]
      BY <2>4 DEF CloserDestroy, Destroyable
    <3>2. QuietOf(k)'
      <4>1. QuietOf(k) /\ status[k] = "end" /\ dtor'[k] = "joinStop"
        BY <1>0, <3>1 DEF QuietOf, TypeOK
      <4>2. QED
        BY <2>2, <4>1 DEF QuietOf
    <3>3. \A m \in Mpu \ {k} : QuietOf(m)'
      BY <1>0, <2>2, <3>1, QuietFrame DEF TypeOK
    <3>4. QED
      BY <1>0, <2>1, <3>2, <3>3, SoleThread DEF NeverCrashes
  <2>5. QED
    BY <1>8, <2>3, <2>4 DEF AutoClose, CloserWake, CloserCount, CloserSkip, mpuVars
<1>9. CASE UNCHANGED vars
  <2>1. UNCHANGED <<mpus, pc, reqJob, held, process, batch, eventQue, status, eventTh, workTh,
                    stopTh, dtor>>
    BY <1>9 DEF vars, mcuVars, mpuVars, callVars
  <2>2. \A m \in Mpu : QuietOf(m)'
    BY <1>0, <2>1, QuietAll
  <2>3. QED
    BY <1>0, <2>1, <2>2, SoleThread DEF NeverCrashes
<1>10. QED
  BY <1>1, <1>2, <1>3, <1>4, <1>5, <1>6, <1>7, <1>8, <1>9 DEF Next, Dead

LEMMA SoleAlways == ASSUME SoleClient PROVE Spec => [](IInv /\ SoleInv)
  BY InitIInv, StepIInv, InitStopInv, StopStep, InitSoleInv, SoleStep, PTL DEF Spec

(* SoleEndMeansQuiet: with the SIP receive loop as the only client and no  *)
(* loop throwing, an MPU whose status is "end" has no loop left.           *)
THEOREM SoleEndMeansQuiet == ASSUME SoleClient PROVE Spec => []EndMeansQuiet
<1>1. IInv /\ SoleInv => EndMeansQuiet
  <2> SUFFICES ASSUME IInv, SoleInv, NEW m \in Mpu, status[m] = "end"
               PROVE  ~Joinable(workTh[m]) /\ ~Joinable(eventTh[m])
    BY DEF EndMeansQuiet
  <2>1. QuietOf(m) /\ TypeOK
    BY DEF IInv, SoleInv
  <2>2. stopTh[m] \in {"done", "joined"}
    BY <2>1 DEF QuietOf, TypeOK
  <2>3. QED
    BY <2>1, <2>2 DEF QuietOf
<1>2. QED
  BY <1>1, SoleAlways, PTL

(* SoleNeverCrashes: ... and no request, event or destructor meets an      *)
(* erased table entry, a destroyed MPU or a thread that was not joined.    *)
THEOREM SoleNeverCrashes == ASSUME SoleClient PROVE Spec => []NeverCrashes
<1>1. SoleInv => NeverCrashes
  BY DEF SoleInv
<1>2. QED
  BY <1>1, SoleAlways, PTL
=============================================================================
