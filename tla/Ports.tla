-------------------------------- MODULE Ports --------------------------------
(***************************************************************************)
(* How ports are given out and come back: PortTool                         *)
(* (src/core/MediaControlUnit.h), the request that adds a channel          *)
(* (MediaControlUnit::addChnl), the jobs whose event threads add and       *)
(* remove channels (src/src/mpu.cpp), the channel that frees its port when *)
(* it is closed (src/src/apc.cpp), and the AutoClose thread, which frees   *)
(* what a job still has in data.portList.  Of a job's life this keeps what *)
(* touches ports; JobControl has the rest.                                 *)
(***************************************************************************)
EXTENDS Integers, Sequences, FiniteSets

CONSTANTS
  Mpu,        \* jobs
  Channel,    \* channel ids of a job
  Client,     \* threads that make requests
  portPoint,  \* the first port
  portRange,  \* length of the range; every other port is used
  Int16Max,   \* the largest int16_t
  Ending,     \* the jobs that may end or fail
  MaxQueue,   \* bound: requests for one job under way or in its queue
  None

ASSUME PortsAssumption ==
  /\ portPoint \in Nat \ {0} /\ portRange \in Nat \ {0} /\ portRange % 2 = 0
  /\ Int16Max \in Nat /\ MaxQueue \in Nat
  /\ Ending \subseteq Mpu
  /\ None \notin Mpu
  /\ IsFiniteSet(Client) /\ IsFiniteSet(Mpu) /\ IsFiniteSet(Channel)

VARIABLES
  ports, portIndex,  \* of the PortTool
  pc, port, failNum, \* client -> where it is in addChnl, the locals of applyPort
  req,               \* client -> the job and the channel it asks for
  status, inTable,   \* job -> its status, is it in the job table
  stopping,          \* job -> has its stop thread been started
  eventQue, APCs, portList,
  closing,           \* the job AutoClose has freed the list of, or None
  unowned            \* history: ports AutoClose has freed under their holder

toolVars   == <<ports, portIndex>>
clientVars == <<pc, port, failNum, req>>
jobVars    == <<status, inTable, stopping, eventQue, APCs, portList>>
vars == <<toolVars, clientVars, jobVars, closing, unowned>>

NoPort == -1
NoReq  == [mpu |-> None, chan |-> None]

(* What getPort returns of a port: an int16_t, which for a large port is   *)
(* negative, and as port_t again differs from every port.                  *)
getPort(p) == IF p <= Int16Max THEN p ELSE NoPort

PortsOf(m)  == {APCs[m][ch] : ch \in Channel} \ {NoPort}
QueuedOf(m) == {eventQue[m][i].port : i \in DOMAIN eventQue[m]} \ {NoPort}

UnderWay(m) == Len(eventQue[m]) + Cardinality({c \in Client : req[c].mpu = m})

Init ==
  /\ ports = {} /\ portIndex = 0
  /\ pc = [c \in Client |-> "idle"]
  /\ port = [c \in Client |-> NoPort]
  /\ failNum = [c \in Client |-> 0]
  /\ req = [c \in Client |-> NoReq]
  /\ status = [m \in Mpu |-> "nil"]
  /\ inTable = [m \in Mpu |-> FALSE]
  /\ stopping = [m \in Mpu |-> FALSE]
  /\ eventQue = [m \in Mpu |-> <<>>]
  /\ APCs = [m \in Mpu |-> [ch \in Channel |-> NoPort]]
  /\ portList = [m \in Mpu |-> {}]
  /\ closing = None
  /\ unowned = {}

-----------------------------------------------------------------------------
(* applyPort: look at the index, set it back at the end of the range, take *)
(* and advance it, then claim the port under the lock, or try the next.    *)
Goto(c, old, new) == pc[c] = old /\ pc' = [pc EXCEPT ![c] = new]

(* Mutation: the index is never set back.                                  *)
ApplyTestNever(c) ==
  /\ Goto(c, "test", "fetch")
  /\ portIndex < 2 * portRange
  /\ UNCHANGED <<toolVars, port, failNum, req, jobVars, closing, unowned>>

ApplyTest(c) ==
  /\ Goto(c, "test", IF portIndex >= portRange THEN "reset" ELSE "fetch")
  /\ UNCHANGED <<toolVars, port, failNum, req, jobVars, closing, unowned>>

ApplyReset(c) ==
  /\ Goto(c, "reset", "fetch")
  /\ portIndex' = 0
  /\ UNCHANGED <<ports, port, failNum, req, jobVars, closing, unowned>>

ApplyFetch(c) ==
  /\ Goto(c, "fetch", "claim")
  /\ port' = [port EXCEPT ![c] = portIndex + portPoint]
  /\ portIndex' = portIndex + 2
  /\ UNCHANGED <<ports, failNum, req, jobVars, closing, unowned>>

(* Mutation: a port that is taken is given out as well.                    *)
ApplyClaimAlways(c) ==
  /\ Goto(c, "claim", "applied")
  /\ ports' = ports \cup {port[c]}
  /\ failNum' = [failNum EXCEPT ![c] = 0]
  /\ UNCHANGED <<portIndex, port, req, jobVars, closing, unowned>>

ApplyClaim(c) ==
  /\ port[c] \notin ports
  /\ Goto(c, "claim", "applied")
  /\ ports' = ports \cup {port[c]}
  /\ failNum' = [failNum EXCEPT ![c] = 0]
  /\ UNCHANGED <<portIndex, port, req, jobVars, closing, unowned>>

ApplyNext(c) ==
  /\ port[c] \in ports
  /\ failNum[c] + 2 <= portRange
  /\ Goto(c, "claim", "test")
  /\ failNum' = [failNum EXCEPT ![c] = failNum[c] + 2]
  /\ port' = [port EXCEPT ![c] = NoPort]
  /\ UNCHANGED <<toolVars, req, jobVars, closing, unowned>>

Done(c) ==
  /\ port' = [port EXCEPT ![c] = NoPort]
  /\ failNum' = [failNum EXCEPT ![c] = 0]
  /\ req' = [req EXCEPT ![c] = NoReq]

(* No port: addChnl frees -1, which is nobody's, and returns.              *)
ApplyFail(c) ==
  /\ port[c] \in ports
  /\ failNum[c] + 2 > portRange
  /\ Goto(c, "claim", "idle")
  /\ Done(c)
  /\ UNCHANGED <<toolVars, jobVars, closing, unowned>>

-----------------------------------------------------------------------------
(* addChnl before and after applyPort.                                     *)
AddLookup(c) ==
  /\ Goto(c, "idle", "test")
  /\ \E m \in Mpu, ch \in Channel :
       /\ inTable[m] /\ UnderWay(m) < MaxQueue
       /\ req' = [req EXCEPT ![c] = [mpu |-> m, chan |-> ch]]
  /\ UNCHANGED <<toolVars, port, failNum, jobVars, closing, unowned>>

(* A sample rate or a codec that does not fit: the port is forgotten.      *)
AddRefuse(c) ==
  /\ Goto(c, "applied", "idle")
  /\ Done(c)
  /\ UNCHANGED <<toolVars, jobVars, closing, unowned>>

(* reportMediaInfo drops the event, and the port in it, when the job does  *)
(* not run any more (what becomes of a destroyed job is up to JobControl). *)
AddReport(c) ==
  /\ Goto(c, "applied", "idle")
  /\ LET m == req[c].mpu
         event == [type |-> "add", chan |-> req[c].chan, port |-> port[c]]
     IN  \/ /\ status[m] = "run"
            /\ eventQue' = [eventQue EXCEPT ![m] = Append(@, event)]
         \/ /\ status[m] # "run"
            /\ UNCHANGED eventQue
  /\ Done(c)
  /\ UNCHANGED <<toolVars, status, inTable, stopping, APCs, portList, closing, unowned>>

(* The other requests that matter here, at once: createMpu, removeChnl and *)
(* endMpu.  A job is not created in the place of one a request refers to.  *)
Create(m) ==
  /\ status[m] = "nil"
  /\ \A c \in Client : req[c].mpu # m
  /\ status' = [status EXCEPT ![m] = "run"]
  /\ inTable' = [inTable EXCEPT ![m] = TRUE]
  /\ UNCHANGED <<toolVars, clientVars, stopping, eventQue, APCs, portList,
                 closing, unowned>>

RequestRemove(m) ==
  /\ inTable[m] /\ status[m] = "run" /\ UnderWay(m) < MaxQueue
  /\ \E ch \in Channel :
       eventQue' = [eventQue EXCEPT ![m] =
                      Append(@, [type |-> "remove", chan |-> ch, port |-> NoPort])]
  /\ UNCHANGED <<toolVars, clientVars, status, inTable, stopping, APCs, portList,
                 closing, unowned>>

RequestEnd(m) ==
  /\ m \in Ending /\ inTable[m]
  /\ inTable' = [inTable EXCEPT ![m] = FALSE]
  /\ eventQue' = IF status[m] # "run" THEN eventQue
                 ELSE [eventQue EXCEPT ![m] =
                         Append(@, [type |-> "stop", chan |-> None, port |-> NoPort])]
  /\ UNCHANGED <<toolVars, clientVars, status, stopping, APCs, portList,
                 closing, unowned>>

-----------------------------------------------------------------------------
(* The event thread of a job.  An event whose turn came while the job ran  *)
(* is handled even when stop() changes the status meanwhile.               *)
Event(m, type) ==
  /\ status[m] \in {"run", "down"}
  /\ eventQue[m] # <<>>
  /\ Head(eventQue[m]).type = type
  /\ eventQue' = [eventQue EXCEPT ![m] = Tail(@)]

HandleAdd(m) ==
  /\ Event(m, "add")
  /\ LET event == Head(eventQue[m]) IN
       /\ APCs[m][event.chan] = NoPort
       /\ APCs' = [APCs EXCEPT ![m][event.chan] = event.port]
       /\ portList' = [portList EXCEPT ![m] = @ \cup {event.port}]
  /\ UNCHANGED <<toolVars, clientVars, status, inTable, stopping, closing, unowned>>

(* Mutation: the port of a channel that was not added is forgotten.        *)
HandleAddAgainForgets(m) ==
  /\ Event(m, "add")
  /\ UNCHANGED <<toolVars, clientVars, status, inTable, stopping, APCs, portList,
                 closing, unowned>>

(* The id is there already, or the codecs cannot be opened: the channel    *)
(* just made is destroyed again, which frees its port.                     *)
HandleAddAgain(m) ==
  /\ Event(m, "add")
  /\ ports' = ports \ {Head(eventQue[m]).port}
  /\ UNCHANGED <<portIndex, clientVars, status, inTable, stopping, APCs, portList,
                 closing, unowned>>

HandleRemove(m) ==
  /\ Event(m, "remove")
  /\ LET ch == Head(eventQue[m]).chan
         p  == APCs[m][ch]
     IN  /\ ports' = ports \ {p}
         /\ APCs' = [APCs EXCEPT ![m][ch] = NoPort]
         /\ portList' = [portList EXCEPT ![m] = @ \ {getPort(p)}]
  /\ UNCHANGED <<portIndex, clientVars, status, inTable, stopping, closing, unowned>>

HandleStop(m) ==
  /\ Event(m, "stop")
  /\ stopping' = [stopping EXCEPT ![m] = TRUE]
  /\ UNCHANGED <<toolVars, clientVars, status, inTable, APCs, portList,
                 closing, unowned>>

(* An event fails: the job becomes exce and ends itself (endMpu).  What is *)
(* still queued is never looked at again, and its ports are forgotten.     *)
EventFail(m) ==
  /\ m \in Ending /\ status[m] \in {"run", "down"} /\ eventQue[m] # <<>>
  /\ status' = [status EXCEPT ![m] = "exce"]
  /\ inTable' = [inTable EXCEPT ![m] = FALSE]
  /\ eventQue' = [eventQue EXCEPT ![m] = <<>>]
  /\ UNCHANGED <<toolVars, clientVars, stopping, APCs, portList,
                 closing, unowned>>

(* stop(): first the status, then, with the threads joined, the channels,  *)
(* each of which frees its port; their entries in portList stay.           *)
StopDown(m) ==
  /\ stopping[m] /\ status[m] \in {"run", "exce"}
  /\ status' = [status EXCEPT ![m] = "down"]
  /\ UNCHANGED <<toolVars, clientVars, inTable, stopping, eventQue, APCs, portList,
                 closing, unowned>>

StopClear(m) ==
  /\ status[m] = "down"
  /\ ports' = ports \ PortsOf(m)
  /\ APCs' = [APCs EXCEPT ![m] = [ch \in Channel |-> NoPort]]
  /\ status' = [status EXCEPT ![m] = "end"]
  /\ UNCHANGED <<portIndex, clientVars, inTable, stopping, eventQue, portList,
                 closing, unowned>>

-----------------------------------------------------------------------------
Claimed == {c \in Client : pc[c] = "applied"}
HeldPorts ==
  {port[c] : c \in Claimed} \cup UNION {PortsOf(m) \cup QueuedOf(m) : m \in Mpu}

(* AutoClose: the ports in the list first, then the job itself; what its   *)
(* destructor still has to stop frees its ports after that.                *)
AutoFree(m) ==
  /\ closing = None
  /\ ~inTable[m] /\ status[m] \in {"end", "exce"}
  /\ closing' = m
  /\ ports' = ports \ portList[m]
  /\ unowned' = unowned \cup (portList[m] \cap HeldPorts)
  /\ UNCHANGED <<portIndex, clientVars, jobVars>>

AutoDestroy(m) ==
  /\ closing = m
  /\ stopping[m] => status[m] = "end"
  /\ ports' = ports \ PortsOf(m)
  /\ APCs' = [APCs EXCEPT ![m] = [ch \in Channel |-> NoPort]]
  /\ eventQue' = [eventQue EXCEPT ![m] = <<>>]
  /\ portList' = [portList EXCEPT ![m] = {}]
  /\ stopping' = [stopping EXCEPT ![m] = FALSE]
  /\ status' = [status EXCEPT ![m] = "nil"]
  /\ closing' = None
  /\ UNCHANGED <<portIndex, clientVars, inTable, unowned>>

-----------------------------------------------------------------------------
Apply(c) ==
  \/ ApplyTest(c) \/ ApplyReset(c) \/ ApplyFetch(c)
  \/ ApplyClaim(c) \/ ApplyNext(c) \/ ApplyFail(c)
AddChnl(c) == AddLookup(c) \/ Apply(c) \/ AddRefuse(c) \/ AddReport(c)
Job(m) ==
  \/ Create(m) \/ RequestRemove(m) \/ RequestEnd(m)
  \/ HandleAdd(m) \/ HandleAddAgain(m) \/ HandleRemove(m) \/ HandleStop(m) \/ EventFail(m)
  \/ StopDown(m) \/ StopClear(m)
  \/ AutoFree(m) \/ AutoDestroy(m)

Next == (\E c \in Client : AddChnl(c)) \/ (\E m \in Mpu : Job(m))
Spec == Init /\ [][Next]_vars

-----------------------------------------------------------------------------
(* The last port that can be given out: each thread that saw the index in  *)
(* the range before the others advanced it adds 2 (applyPort tests the     *)
(* index, resets it and advances it in three steps).                       *)
LastPort == portPoint + portRange - 2 + 2 * (Cardinality(Client) - 1)
Port == {p \in portPoint .. LastPort : p % 2 = portPoint % 2}

(* Types; a port outside Port would show that the overrun adds up.         *)
TypeOK ==
  /\ ports \subseteq Port
  /\ portIndex \in 0 .. portRange + 2 * (Cardinality(Client) - 1)
  /\ pc \in [Client -> {"idle", "test", "reset", "fetch", "claim", "applied"}]
  /\ port \in [Client -> Port \cup {NoPort}]
  /\ failNum \in [Client -> 0 .. portRange]
  /\ req \in [Client -> [mpu : Mpu \cup {None}, chan : Channel \cup {None}]]
  /\ status \in [Mpu -> {"nil", "run", "down", "end", "exce"}]
  /\ inTable \in [Mpu -> BOOLEAN] /\ stopping \in [Mpu -> BOOLEAN]
  /\ eventQue \in [Mpu -> Seq([type : {"add", "remove", "stop"},
                               chan : Channel \cup {None}, port : Port \cup {NoPort}])]
  /\ APCs \in [Mpu -> [Channel -> Port \cup {NoPort}]]
  /\ portList \in [Mpu -> SUBSET Port]
  /\ closing \in Mpu \cup {None}
  /\ unowned \subseteq Port

(* What holds a port: a request that was given it, an event, a channel.    *)
Holders(p) ==
  LET requests == {c \in Claimed : port[c] = p}
      events   == {e \in Mpu \X (1 .. MaxQueue + 1) :
                     /\ e[2] \in DOMAIN eventQue[e[1]]
                     /\ eventQue[e[1]][e[2]].port = p}
      channels == {e \in Mpu \X Channel : APCs[e[1]][e[2]] = p}
  IN  Cardinality(requests) + Cardinality(events) + Cardinality(channels)

(* No port is held twice, and none that is held can be given out again,    *)
(* unless AutoClose has freed it under its holder: applyPort, the rejected *)
(* channel, the removed one and the cleared job keep it so among them.     *)
HeldOnce ==
  \A p \in Port \ unowned : Holders(p) <= 1 /\ (Holders(p) = 1 => p \in ports)

(* Ports come back: when the last holder of a taken port lets go of it, it *)
(* is free again, except where a request is refused or its event dropped,  *)
(* and where an event loop fails, or a job is destroyed, with the event in *)
(* the queue: these forget their port, which nobody can ever free          *)
(* (addChnl, reportMediaInfo, MediaProcessUnit::eventLoop).                *)
PortsComeBack ==
  [][\A p \in ports \cap ports' :
       Holders(p) > 0 /\ Holders(p)' = 0 =>
         \/ \E c \in Client : pc[c] = "applied" /\ port[c] = p /\ pc'[c] = "idle"
         \/ \E m \in Mpu : p \in QueuedOf(m) /\ status[m] # status'[m] /\ status'[m] \in {"exce", "nil"}]_vars
=============================================================================
