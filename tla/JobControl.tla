----------------------------- MODULE JobControl -----------------------------
(***************************************************************************)
(* The life of a conference job: the job table of MediaControlUnit         *)
(* (src/src/mcu.cpp), the threads of each MediaProcessUnit                 *)
(* (src/src/mpu.cpp) as far as creating, stopping and destroying it goes,  *)
(* and the AutoClose thread that destroys what has been closed.            *)
(*                                                                         *)
(* Requests run on any number of threads (the HTTP pool, the SIP receive   *)
(* loop), each a Caller with its own position in createMpu, endMpu or one  *)
(* of the operations that look a job up and then report an event to it.    *)
(* The event thread of an MPU is a Caller too: an exception in it calls    *)
(* endMpu back.                                                            *)
(***************************************************************************)
EXTENDS Integers, Sequences, FiniteSets

CONSTANTS
  Job,       \* job ids
  Mpu,       \* MediaProcessUnit objects the allocator can hand out
  Client,    \* threads that serve signalling requests
  Failing,   \* which loops may throw: a subset of {"work", "event"}
  MaxQueue,  \* bound: no channel request starts while so many events of
             \* some MPU are on their way or queued
  MaxFailed, \* bound: so many MPUs are in the state an exception leaves
  None       \* no object

ASSUME JobControlAssumption ==
  /\ Client \cap Mpu = {}
  /\ None \notin Mpu \cup Job
  /\ Failing \subseteq {"work", "event"}
  /\ MaxQueue \in Nat /\ MaxFailed \in Nat
  /\ IsFiniteSet(Client) /\ IsFiniteSet(Mpu)

Caller == Client \cup Mpu

(* The two threads that can be inside MediaProcessUnit::stop() for one MPU:*)
(* its own stopTh, and the AutoClose thread inside the destructor.         *)
Executor == {"stopTh", "dtor"}

VARIABLES
  mpus,         \* the job table: job id -> MPU
  closeMpus,    \* MPUs handed over for destruction
  tmpCloseForm, \* the AutoClose thread's own set, swapped with closeMpus
  todo,         \* part of tmpCloseForm its loop has still to visit
  closer,       \* position of the AutoClose thread
  runningJob,   \* MCUStatus::runningJob; a negative value is a wrapped uint64
  process,      \* "dead" once std::terminate or a dead pointer ended it
  status,       \* TaskStatus of each MPU; "nil" when the object does not exist
  jobId,        \* ctx->jobId
  eventQue,     \* events reported and not yet taken
  batch,        \* eventHandleQue, the events the event thread is handling
  eventTh, workTh, \* the two loops of an MPU
  stopTh,       \* the position in stop() of the thread an EndEvent starts
  dtor,         \* the position of the destructor, which also calls stop()
  pc, reqJob, held  \* a Caller's position and local variables

mcuVars   == <<mpus, closeMpus, runningJob>>
closeVars == <<tmpCloseForm, todo, closer>>
mpuVars   == <<status, jobId, eventQue, batch, eventTh, workTh, stopTh, dtor>>
callVars  == <<pc, reqJob, held>>
vars == <<mcuVars, closeVars, mpuVars, callVars, process>>

Live(m) == status[m] # "nil"
Joinable(th) == th \notin {"none", "joined"}

-----------------------------------------------------------------------------
Init ==
  /\ mpus = [j \in Job |-> None]
  /\ closeMpus = {} /\ tmpCloseForm = {} /\ todo = {}
  /\ closer = "wait"
  /\ runningJob = 0
  /\ process = "up"
  /\ status = [m \in Mpu |-> "nil"]
  /\ jobId = [m \in Mpu |-> None]
  /\ eventQue = [m \in Mpu |-> <<>>]
  /\ batch = [m \in Mpu |-> <<>>]
  /\ eventTh = [m \in Mpu |-> "none"]
  /\ workTh = [m \in Mpu |-> "none"]
  /\ stopTh = [m \in Mpu |-> "none"]
  /\ dtor = [m \in Mpu |-> "none"]
  /\ pc = [t \in Caller |-> "idle"]
  /\ reqJob = [t \in Caller |-> None]
  /\ held = [t \in Caller |-> None]

(* A caller moves from one position of its request to the next.            *)
Goto(t, from, to) ==
  /\ pc[t] = from
  /\ pc' = [pc EXCEPT ![t] = to]

(* Its request is over and its local variables are gone.                   *)
Return(t) ==
  /\ pc' = [pc EXCEPT ![t] = "idle"]
  /\ reqJob' = [reqJob EXCEPT ![t] = None]
  /\ held' = [held EXCEPT ![t] = None]

Crash == process' = "dead"

(* The process has not died, and this step does not kill it.               *)
Alive == process = "up" /\ UNCHANGED process

-----------------------------------------------------------------------------
(* createMpu: the job is looked up under the read lock, then the lock is   *)
(* dropped; the insertion takes the write lock and can still find the id   *)
(* taken, in which case the MPU built for it dies inside the insertion.    *)

CreateLookup(c, j) ==
  /\ Alive
  /\ mpus[j] = None
  /\ Goto(c, "idle", "emplace")
  /\ reqJob' = [reqJob EXCEPT ![c] = j]
  /\ UNCHANGED <<mcuVars, closeVars, mpuVars, held>>

(* Mutation: a creation that finds the id taken is counted all the same.   *)
LoseCounted(c) ==
  /\ mpus[reqJob[c]] # None
  /\ pc' = [pc EXCEPT ![c] = "count"]
  /\ UNCHANGED <<mpus, status, jobId, eventTh, reqJob, held>>

Lose(c) ==
  /\ mpus[reqJob[c]] # None
  /\ Return(c)
  /\ UNCHANGED <<mpus, status, jobId, eventTh>>

CreateEmplace(c) ==
  /\ Alive
  /\ pc[c] = "emplace"
  /\ \/ /\ mpus[reqJob[c]] = None
        /\ \E m \in Mpu :
             /\ ~Live(m)
             /\ mpus' = [mpus EXCEPT ![reqJob[c]] = m]
             /\ status' = [status EXCEPT ![m] = "run"]
             /\ jobId' = [jobId EXCEPT ![m] = reqJob[c]]
             /\ eventTh' = [eventTh EXCEPT ![m] = "loop"]
        /\ pc' = [pc EXCEPT ![c] = "count"]
        /\ UNCHANGED <<reqJob, held>>
     \/ Lose(c)
  /\ UNCHANGED <<closeMpus, runningJob, closeVars, eventQue, batch, workTh, stopTh, dtor>>

CreateCount(c) ==
  /\ Alive
  /\ pc[c] = "count"
  /\ runningJob' = runningJob + 1
  /\ Return(c)
  /\ UNCHANGED <<mpus, closeMpus, closeVars, mpuVars>>

-----------------------------------------------------------------------------
(* endMpu, called by a request or by an MPU's event thread through         *)
(* autoCloseCallback: the table entry is moved out under the write lock,   *)
(* the EndEvent reported (reportMediaInfo drops it unless the MPU runs),   *)
(* and the MPU handed to the AutoClose thread.                             *)

Calls(t, j) ==
  \/ t \in Client /\ pc[t] = "idle"
  \/ t \in Mpu /\ pc[t] = "callback" /\ j = jobId[t]

(* Mutation: the MPU is moved out and its table entry stays.               *)
EndTakeKeepsEntry(t, j) ==
  /\ Alive
  /\ Calls(t, j)
  /\ mpus[j] # None
  /\ held' = [held EXCEPT ![t] = mpus[j]]
  /\ pc' = [pc EXCEPT ![t] = "report"]
  /\ UNCHANGED <<mcuVars, closeVars, mpuVars, reqJob>>

EndTake(t, j) ==
  /\ Alive
  /\ Calls(t, j)
  /\ \/ /\ mpus[j] # None
        /\ held' = [held EXCEPT ![t] = mpus[j]]
        /\ mpus' = [mpus EXCEPT ![j] = None]
        /\ pc' = [pc EXCEPT ![t] = "report"]
        /\ UNCHANGED reqJob
     \/ /\ mpus[j] = None
        /\ t \in Mpu  \* a client's request that finds nothing changes nothing
        /\ Return(t)
        /\ UNCHANGED mpus
  /\ UNCHANGED <<closeMpus, runningJob, closeVars, mpuVars>>

EndReport(t) ==
  /\ Alive
  /\ Goto(t, "report", "handOver")
  /\ eventQue' = IF status[held[t]] = "run"
                 THEN [eventQue EXCEPT ![held[t]] = Append(@, "stop")]
                 ELSE eventQue
  /\ UNCHANGED <<mcuVars, closeVars, status, jobId, batch, eventTh, workTh, stopTh, dtor,
                 reqJob, held>>

EndHandOver(t) ==
  /\ Alive
  /\ pc[t] = "handOver"
  /\ closeMpus' = closeMpus \cup {held[t]}
  /\ Return(t)
  /\ UNCHANGED <<mpus, runningJob, closeVars, mpuVars>>

-----------------------------------------------------------------------------
(* addChnl, removeChnl, openMic, closeMic and updateDestition: the         *)
(* iterator found under the read lock is dereferenced after the lock is    *)
(* gone. Once the entry is erased the unique_ptr in it has been moved      *)
(* from, so the dereference ends the process. What the five report is one  *)
(* kind of event here, "channel".                                          *)

InFlight(m) ==
  Len(eventQue[m]) + Len(batch[m])
  + Cardinality({t \in Client : pc[t] \in {"deref", "push"} /\ held[t] = m})

FindJob(c, j) ==
  /\ Alive
  /\ mpus[j] # None
  /\ \A m \in Mpu : InFlight(m) < MaxQueue  \* bound only
  /\ Goto(c, "idle", "deref")
  /\ reqJob' = [reqJob EXCEPT ![c] = j]
  /\ held' = [held EXCEPT ![c] = mpus[j]]
  /\ UNCHANGED <<mcuVars, closeVars, mpuVars>>

(* it->second->reportMediaInfo(...), up to its test of the status.         *)
DerefJob(c) ==
  /\ process = "up"
  /\ pc[c] = "deref"
  /\ \/ /\ mpus[reqJob[c]] # held[c]
        /\ Crash /\ UNCHANGED callVars
     \/ /\ mpus[reqJob[c]] = held[c] /\ status[held[c]] = "run"
        /\ pc' = [pc EXCEPT ![c] = "push"]
        /\ UNCHANGED <<reqJob, held, process>>
     \/ /\ mpus[reqJob[c]] = held[c] /\ status[held[c]] # "run"
        /\ Return(c) /\ UNCHANGED process
  /\ UNCHANGED <<mcuVars, closeVars, mpuVars>>

(* ... and its push, on an object that may meanwhile have been destroyed.  *)
PushEvent(c) ==
  /\ process = "up"
  /\ pc[c] = "push"
  /\ \/ /\ Live(held[c])
        /\ eventQue' = [eventQue EXCEPT ![held[c]] = Append(@, "channel")]
        /\ Return(c) /\ UNCHANGED process
     \/ /\ ~Live(held[c])
        /\ Crash /\ UNCHANGED <<eventQue, callVars>>
  /\ UNCHANGED <<mcuVars, closeVars, status, jobId, batch, eventTh, workTh, stopTh, dtor>>

-----------------------------------------------------------------------------
(* eventHandle: the event thread of an MPU.                                *)

(* A round of the loop: everything queued becomes the batch.               *)
EventSwap(m) ==
  /\ Alive
  /\ eventTh[m] = "loop" /\ status[m] = "run" /\ eventQue[m] # <<>>
  /\ batch' = [batch EXCEPT ![m] = eventQue[m]]
  /\ eventQue' = [eventQue EXCEPT ![m] = <<>>]
  /\ eventTh' = [eventTh EXCEPT ![m] = "act"]
  /\ UNCHANGED <<mcuVars, closeVars, status, jobId, workTh, stopTh, dtor, callVars>>

(* The status is tested again before each further event; what is left of   *)
(* the batch when it is no longer "run" is dropped.                        *)
EventCheck(m) ==
  /\ Alive
  /\ eventTh[m] = "check"
  /\ IF status[m] = "run"
     THEN eventTh' = [eventTh EXCEPT ![m] = "act"] /\ UNCHANGED batch
     ELSE /\ eventTh' = [eventTh EXCEPT ![m] = "loop"]
          /\ batch' = [batch EXCEPT ![m] = <<>>]
  /\ UNCHANGED <<mcuVars, closeVars, status, jobId, eventQue, workTh, stopTh, dtor, callVars>>

(* The event just handled leaves the batch.                                *)
EventNext(m) ==
  /\ batch' = [batch EXCEPT ![m] = Tail(@)]
  /\ eventTh' = [eventTh EXCEPT ![m] = IF Tail(batch[m]) = <<>> THEN "loop" ELSE "check"]

(* The stop event starts stopTh.                                           *)
EventStop(m) ==
  /\ Alive
  /\ eventTh[m] = "act" /\ Head(batch[m]) = "stop"
  /\ stopTh' = [stopTh EXCEPT ![m] = "enter"]
  /\ EventNext(m)
  /\ UNCHANGED <<mcuVars, closeVars, status, jobId, eventQue, workTh, dtor, callVars>>

(* A channel event: addChannel starts workTh if it is not joinable (unless *)
(* the channel could not be added); the other four leave it alone.         *)
EventChannel(m) ==
  /\ Alive
  /\ eventTh[m] = "act" /\ Head(batch[m]) = "channel"
  /\ \/ /\ ~Joinable(workTh[m])
        /\ workTh' = [workTh EXCEPT ![m] = "run"]
     \/ UNCHANGED workTh
  /\ EventNext(m)
  /\ UNCHANGED <<mcuVars, closeVars, status, jobId, eventQue, stopTh, dtor, callVars>>

MayFail(m) == Cardinality({n \in Mpu \ {m} : status[n] = "exce"}) < MaxFailed  \* bound only

(* An exception while an event is handled: the MPU is exce and its job is  *)
(* ended by name, from this thread.                                        *)
EventFail(m) ==
  /\ Alive
  /\ "event" \in Failing /\ MayFail(m)
  /\ eventTh[m] = "act"
  /\ status' = [status EXCEPT ![m] = "exce"]
  /\ batch' = [batch EXCEPT ![m] = <<>>]
  /\ eventTh' = [eventTh EXCEPT ![m] = "failed"]
  /\ Goto(m, "idle", "callback")
  /\ UNCHANGED <<mcuVars, closeVars, jobId, eventQue, workTh, stopTh, dtor, reqJob, held>>

EventExit(m) ==
  /\ Alive
  /\ \/ eventTh[m] = "loop" /\ status[m] # "run"
     \/ eventTh[m] = "failed" /\ pc[m] = "idle"
  /\ eventTh' = [eventTh EXCEPT ![m] = "done"]
  /\ UNCHANGED <<mcuVars, closeVars, status, jobId, eventQue, batch, workTh, stopTh, dtor, callVars>>

-----------------------------------------------------------------------------
(* workingLoop, reduced to how it ends.                                    *)

WorkExit(m) ==
  /\ Alive
  /\ workTh[m] = "run" /\ status[m] # "run"
  /\ workTh' = [workTh EXCEPT ![m] = "done"]
  /\ UNCHANGED <<mcuVars, closeVars, status, jobId, eventQue, batch, eventTh, stopTh, dtor, callVars>>

(* An exception anywhere in an iteration, also one begun before the status *)
(* changed: the handler overwrites whatever the status is.                 *)
WorkFail(m) ==
  /\ Alive
  /\ "work" \in Failing /\ MayFail(m)
  /\ workTh[m] = "run"
  /\ status' = [status EXCEPT ![m] = "exce"]
  /\ workTh' = [workTh EXCEPT ![m] = "done"]
  /\ UNCHANGED <<mcuVars, closeVars, jobId, eventQue, batch, eventTh, stopTh, dtor, callVars>>

-----------------------------------------------------------------------------
(* stop(), by either executor. Joining a thread that is not joinable is    *)
(* skipped; two threads joining the same one is undefined behaviour whose  *)
(* benign outcome is kept here (the process ends in StopTh's destructor    *)
(* anyway, see DestroyEnd).                                                *)

StopGoto(x, m, from, to) ==
  \/ /\ x = "stopTh" /\ stopTh[m] = from
     /\ stopTh' = [stopTh EXCEPT ![m] = to] /\ UNCHANGED dtor
  \/ /\ x = "dtor" /\ dtor[m] = from
     /\ dtor' = [dtor EXCEPT ![m] = to] /\ UNCHANGED stopTh

StopEnter(x, m) ==
  /\ Alive
  /\ StopGoto(x, m, "enter", IF status[m] = "end" THEN "done" ELSE "joinWork")
  /\ status' = IF status[m] = "end" THEN status ELSE [status EXCEPT ![m] = "down"]
  /\ UNCHANGED <<mcuVars, closeVars, jobId, eventQue, batch, eventTh, workTh, callVars>>

(* Mutation: the work thread is not waited for.                            *)
StopSkipsWork(x, m) ==
  /\ Alive
  /\ StopGoto(x, m, "joinWork", "joinEvent")
  /\ UNCHANGED <<mcuVars, closeVars, status, jobId, eventQue, batch, eventTh, workTh, callVars>>

StopJoinWork(x, m) ==
  /\ Alive
  /\ StopGoto(x, m, "joinWork", "joinEvent")
  /\ \/ ~Joinable(workTh[m]) /\ UNCHANGED workTh
     \/ workTh[m] = "done" /\ workTh' = [workTh EXCEPT ![m] = "joined"]
  /\ UNCHANGED <<mcuVars, closeVars, status, jobId, eventQue, batch, eventTh, callVars>>

(* ... then the channels are closed and the MPU is at its end.             *)
StopJoinEvent(x, m) ==
  /\ Alive
  /\ StopGoto(x, m, "joinEvent", "done")
  /\ \/ ~Joinable(eventTh[m]) /\ UNCHANGED eventTh
     \/ eventTh[m] = "done" /\ eventTh' = [eventTh EXCEPT ![m] = "joined"]
  /\ status' = [status EXCEPT ![m] = "end"]
  /\ UNCHANGED <<mcuVars, closeVars, jobId, eventQue, batch, workTh, callVars>>

-----------------------------------------------------------------------------
(* autoClose: every interval the thread swaps its set with closeMpus, so   *)
(* that what it could not destroy goes back and returns a round later.     *)

(* The loop goes to the next element, or waits for the next interval.      *)
CloserNext(rest) == closer' = IF rest = {} THEN "wait" ELSE "scan"

(* Mutation: what could not be destroyed is cleared, not swapped back.     *)
CloserWakeForgets ==
  /\ Alive
  /\ closer = "wait"
  /\ tmpCloseForm' = closeMpus
  /\ closeMpus' = {}
  /\ todo' = closeMpus
  /\ CloserNext(closeMpus)
  /\ UNCHANGED <<mpus, runningJob, mpuVars, callVars>>

CloserWake ==
  /\ Alive
  /\ closer = "wait"
  /\ closeMpus \cup tmpCloseForm # {}
  /\ tmpCloseForm' = closeMpus
  /\ closeMpus' = tmpCloseForm
  /\ todo' = closeMpus
  /\ CloserNext(closeMpus)
  /\ UNCHANGED <<mpus, runningJob, mpuVars, callVars>>

(* Mutation: the status is not looked at.                                  *)
DestroyableAtOnce(m) == TRUE

Destroyable(m) == status[m] \in {"end", "exce"}

CloserSkip(m) ==
  /\ Alive
  /\ closer = "scan" /\ m \in todo
  /\ ~Destroyable(m)
  /\ todo' = todo \ {m}
  /\ CloserNext(todo')
  /\ UNCHANGED <<mcuVars, tmpCloseForm, mpuVars, callVars>>

(* erase() runs the destructor, which first joins stopTh if there is one.  *)
CloserDestroy(m) ==
  /\ Alive
  /\ closer = "scan" /\ m \in todo
  /\ Destroyable(m)
  /\ todo' = todo \ {m}
  /\ tmpCloseForm' = tmpCloseForm \ {m}
  /\ closer' = "destroy"
  /\ dtor' = [dtor EXCEPT ![m] = "joinStop"]
  /\ UNCHANGED <<mcuVars, status, jobId, eventQue, batch, eventTh, workTh, stopTh, callVars>>

DestroyJoinStop(m) ==
  /\ Alive
  /\ dtor[m] = "joinStop"
  /\ dtor' = [dtor EXCEPT ![m] = "enter"]
  /\ \/ ~Joinable(stopTh[m]) /\ UNCHANGED stopTh
     \/ stopTh[m] = "done" /\ stopTh' = [stopTh EXCEPT ![m] = "joined"]
  /\ UNCHANGED <<mcuVars, closeVars, status, jobId, eventQue, batch, eventTh, workTh, callVars>>

(* The members are destroyed: a std::thread that is still joinable ends    *)
(* the process.                                                            *)
DestroyEnd(m) ==
  /\ process = "up"
  /\ dtor[m] = "done"
  /\ \/ /\ Joinable(stopTh[m]) \/ Joinable(workTh[m]) \/ Joinable(eventTh[m])
        /\ Crash /\ UNCHANGED <<closer, mpuVars>>
     \/ /\ ~Joinable(stopTh[m]) /\ ~Joinable(workTh[m]) /\ ~Joinable(eventTh[m])
        /\ closer' = "uncount"
        /\ status' = [status EXCEPT ![m] = "nil"]
        /\ jobId' = [jobId EXCEPT ![m] = None]
        /\ eventQue' = [eventQue EXCEPT ![m] = <<>>]
        /\ batch' = [batch EXCEPT ![m] = <<>>]
        /\ eventTh' = [eventTh EXCEPT ![m] = "none"]
        /\ workTh' = [workTh EXCEPT ![m] = "none"]
        /\ stopTh' = [stopTh EXCEPT ![m] = "none"]
        /\ dtor' = [dtor EXCEPT ![m] = "none"]
        /\ UNCHANGED process
  /\ UNCHANGED <<mcuVars, tmpCloseForm, todo, callVars>>

CloserCount ==
  /\ Alive
  /\ closer = "uncount"
  /\ runningJob' = runningJob - 1
  /\ CloserNext(todo)
  /\ UNCHANGED <<mpus, closeMpus, tmpCloseForm, todo, mpuVars, callVars>>

-----------------------------------------------------------------------------
Request(c) ==
  \/ \E j \in Job : CreateLookup(c, j)
  \/ \E j \in Job : FindJob(c, j)

Call(t) ==
  \/ CreateEmplace(t) \/ CreateCount(t)
  \/ EndReport(t) \/ EndHandOver(t)
  \/ DerefJob(t) \/ PushEvent(t)

EventThread(m) ==
  EventSwap(m) \/ EventCheck(m) \/ EventStop(m) \/ EventChannel(m) \/ EventFail(m) \/ EventExit(m)

WorkThread(m) == WorkExit(m) \/ WorkFail(m)

Stop(x, m) ==
  StopEnter(x, m) \/ StopJoinWork(x, m) \/ StopJoinEvent(x, m)

Destroy(m) == DestroyJoinStop(m) \/ DestroyEnd(m)

AutoClose ==
  \/ CloserWake \/ CloserCount
  \/ \E m \in Mpu : CloserSkip(m) \/ CloserDestroy(m)

(* After a crash nothing happens any more.                                 *)
Dead == process = "dead" /\ UNCHANGED vars

Next ==
  \/ \E c \in Client : Request(c)
  \/ \E t \in Caller, j \in Job : EndTake(t, j)
  \/ \E t \in Caller : Call(t)
  \/ \E m \in Mpu : EventThread(m) \/ WorkThread(m) \/ Destroy(m)
  \/ \E x \in Executor, m \in Mpu : Stop(x, m)
  \/ AutoClose
  \/ Dead

Spec == Init /\ [][Next]_vars

(* Every thread that has a step to take eventually takes it: they are all  *)
(* preemptively scheduled std::threads, their waits are timed (1 ms in     *)
(* eventHandle, auto_check_interval in autoClose) and the locks they take  *)
(* are held for a few statements only. Nothing makes a client send a       *)
(* request, and nothing makes an exception occur.                          *)
Fairness ==
  /\ \A t \in Caller : WF_vars(Call(t))
  /\ \A m \in Mpu :
       /\ WF_vars(\E j \in Job : EndTake(m, j))
       /\ WF_vars(EventThread(m))
       /\ WF_vars(WorkExit(m))
       /\ WF_vars(Destroy(m))
       /\ \A x \in Executor : WF_vars(Stop(x, m))
  /\ WF_vars(AutoClose)

FairSpec == Spec /\ Fairness

-----------------------------------------------------------------------------
TypeOK ==
  /\ mpus \in [Job -> Mpu \cup {None}]
  /\ closeMpus \subseteq Mpu /\ tmpCloseForm \subseteq Mpu /\ todo \subseteq Mpu
  /\ closer \in {"wait", "scan", "destroy", "uncount"}
  /\ runningJob \in Int
  /\ process \in {"up", "dead"}
  /\ status \in [Mpu -> {"nil", "run", "down", "end", "exce"}]
  /\ jobId \in [Mpu -> Job \cup {None}]
  /\ eventQue \in [Mpu -> Seq({"stop", "channel"})]
  /\ batch \in [Mpu -> Seq({"stop", "channel"})]
  /\ eventTh \in [Mpu -> {"none", "loop", "check", "act", "failed", "done", "joined"}]
  /\ workTh \in [Mpu -> {"none", "run", "done", "joined"}]
  /\ stopTh \in [Mpu -> {"none", "enter", "joinWork", "joinEvent", "done", "joined"}]
  /\ dtor \in [Mpu -> {"none", "joinStop", "enter", "joinWork", "joinEvent", "done"}]
  /\ pc \in [Caller -> {"idle", "emplace", "count", "report", "handOver",
                        "deref", "push", "callback"}]
  /\ reqJob \in [Caller -> Job \cup {None}]
  /\ held \in [Caller -> Mpu \cup {None}]

InTable(m) == \E j \in Job : mpus[j] = m
Ending(t, m) == pc[t] \in {"report", "handOver"} /\ held[t] = m
InEnd(m) == \E t \in Caller : Ending(t, m)
Dying(m) == dtor[m] # "none"

(* OneOwner: the unique_ptr to an MPU is never lost and never duplicated   *)
(* on its way from the job table through endMpu, closeMpus and the         *)
(* AutoClose thread's swapped set to its destructor, whatever the          *)
(* interleaving: each existing MPU is at exactly one of these places, and  *)
(* nothing at them is already destroyed.                                   *)
OneOwner ==
  \A m \in Mpu :
    /\ Live(m) <=> InTable(m) \/ InEnd(m) \/ m \in closeMpus \/ m \in tmpCloseForm \/ Dying(m)
    /\ InTable(m) => ~InEnd(m) /\ m \notin closeMpus \cup tmpCloseForm /\ ~Dying(m)
    /\ InEnd(m) => m \notin closeMpus \cup tmpCloseForm /\ ~Dying(m)
    /\ m \in closeMpus => m \notin tmpCloseForm
    /\ Dying(m) => m \notin closeMpus \cup tmpCloseForm
    /\ \A j, k \in Job : mpus[j] = m /\ mpus[k] = m => j = k
    /\ \A t, u \in Caller : Ending(t, m) /\ Ending(u, m) => t = u

(* JobAccounting: the running-job counter the statistics report is the     *)
(* number of MPUs that exist, less those createMpu has inserted and not    *)
(* counted yet, plus the one autoClose has destroyed and not counted yet.  *)
(* No request that loses a race (two creations, two ends) moves it.        *)
JobAccounting ==
  runningJob = Cardinality({m \in Mpu : Live(m)})
               - Cardinality({t \in Caller : pc[t] = "count"})
               + (IF closer = "uncount" THEN 1 ELSE 0)

(* StopOnce: an MPU is told to stop once at most, whether by a request, by *)
(* its own failing event thread or by both: its event thread would assign  *)
(* stopTh a second time, and ends the process if the first still runs.     *)
StopOnce ==
  \A m \in Mpu :
    Cardinality({i \in DOMAIN (batch[m] \o eventQue[m]) : (batch[m] \o eventQue[m])[i] = "stop"})
      + (IF stopTh[m] = "none" THEN 0 ELSE 1) <= 1

(* EndMeansQuiet: an MPU whose status is "end" has no loop left that could *)
(* touch it: "end" is what tells autoClose that it may be destroyed.       *)
EndMeansQuiet ==
  \A m \in Mpu : status[m] = "end" => ~Joinable(workTh[m]) /\ ~Joinable(eventTh[m])

(* NeverCrashes: no request dereferences a dead iterator or MPU, and no    *)
(* MPU is destroyed with a thread that was not joined.                     *)
NeverCrashes == process = "up"

(* ClosedIsDestroyed: an MPU handed to the AutoClose thread is destroyed,  *)
(* although the scan that meets it too early sends it back to closeMpus.   *)
ClosedIsDestroyed ==
  \A m \in Mpu : (m \in closeMpus) ~> (~Live(m) \/ process = "dead")

=============================================================================
