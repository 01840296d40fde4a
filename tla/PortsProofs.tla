----------------------------- MODULE PortsProofs -----------------------------
(***************************************************************************)
(* Theorems about Ports, for every range of ports and every finite number  *)
(* of requests, jobs and channels: the overrun of the index does not add   *)
(* up, a port that AutoClose has not freed under its holder is held once   *)
(* and taken, and ports come back.                                         *)
(***************************************************************************)
EXTENDS Ports, FiniteSetTheorems, SequenceTheorems, TLAPS

-----------------------------------------------------------------------------
(* The index. A client at "fetch" will advance it once more, whatever it   *)
(* has become meanwhile; that is why the clients there count.              *)
Fetching == {c \in Client : pc[c] = "fetch"}

ToolInv ==
  /\ ports \subseteq Port
  /\ portIndex \in Nat /\ portIndex % 2 = 0
  /\ portIndex + 2 * Cardinality(Fetching) <= portRange + 2 * (Cardinality(Client) - 1)

(* What the requests and the queues hold.                                  *)
Request == [mpu : Mpu, chan : Channel]

EventType ==
  [type : {"add"}, chan : Channel, port : Port]
    \cup [type : {"remove"}, chan : Channel, port : {NoPort}]
    \cup [type : {"stop"}, chan : {None}, port : {NoPort}]

AddPc == {"idle", "test", "reset", "fetch", "claim", "applied"}

ClientTypes ==
  /\ pc \in [Client -> AddPc]
  /\ port \in [Client -> Port \cup {NoPort}]
  /\ failNum \in [Client -> 0 .. portRange]
  /\ req \in [Client -> Request \cup {NoReq}]
  /\ \A c \in Client : pc[c] # "idle" => req[c] \in Request
  /\ \A c \in Client : pc[c] \in {"claim", "applied"} => port[c] \in Port

JobTypes ==
  /\ status \in [Mpu -> {"nil", "run", "down", "end", "exce"}]
  /\ inTable \in [Mpu -> BOOLEAN] /\ stopping \in [Mpu -> BOOLEAN]
  /\ eventQue \in [Mpu -> Seq(EventType)]
  /\ APCs \in [Mpu -> [Channel -> Port \cup {NoPort}]]
  /\ portList \in [Mpu -> SUBSET Port]
  /\ closing \in Mpu \cup {None}
  /\ closing # None => status[closing] # "nil"
  /\ unowned \subseteq Port

-----------------------------------------------------------------------------
(* Who holds a port: a request, a place in a queue, a channel.             *)
HoldsReq(c, p)    == pc[c] = "applied" /\ port[c] = p
HoldsEv(m, i, p)  == i \in DOMAIN eventQue[m] /\ eventQue[m][i].port = p
HoldsCh(m, ch, p) == APCs[m][ch] = p

OneHolder(p) ==
  /\ \A c, d \in Client : HoldsReq(c, p) /\ HoldsReq(d, p) => c = d
  /\ \A m, n \in Mpu, i, j \in Nat : HoldsEv(m, i, p) /\ HoldsEv(n, j, p) => m = n /\ i = j
  /\ \A m, n \in Mpu, ch, k \in Channel :
       HoldsCh(m, ch, p) /\ HoldsCh(n, k, p) => m = n /\ ch = k
  /\ \A c \in Client, m \in Mpu, i \in Nat : ~(HoldsReq(c, p) /\ HoldsEv(m, i, p))
  /\ \A c \in Client, m \in Mpu, ch \in Channel : ~(HoldsReq(c, p) /\ HoldsCh(m, ch, p))
  /\ \A m, n \in Mpu, i \in Nat, ch \in Channel : ~(HoldsEv(m, i, p) /\ HoldsCh(n, ch, p))

InUse(p) ==
  \/ \E c \in Client : HoldsReq(c, p)
  \/ \E m \in Mpu, i \in Nat : HoldsEv(m, i, p)
  \/ \E m \in Mpu, ch \in Channel : HoldsCh(m, ch, p)

HeldInv == \A p \in Port \ unowned : OneHolder(p) /\ (InUse(p) => p \in ports)

PortsInv == ToolInv /\ ClientTypes /\ JobTypes /\ HeldInv

-----------------------------------------------------------------------------
(* Numbers.                                                                *)
LEMMA PortFacts ==
  /\ Cardinality(Client) \in Nat /\ LastPort \in Int
  /\ NoPort \notin Port /\ portPoint \in Nat /\ portRange \in Nat
<1>1. Cardinality(Client) \in Nat
  BY PortsAssumption, FS_CardinalityType
<1>2. LastPort \in Int
  BY <1>1, PortsAssumption DEF LastPort
<1> QED
  BY <1>1, <1>2, PortsAssumption DEF Port, NoPort

(* A client more, or one less, at "fetch".                                 *)
LEMMA FetchingIs ==
  /\ IsFiniteSet(Fetching) /\ Cardinality(Fetching) \in Nat
  /\ Cardinality(Fetching) <= Cardinality(Client)
<1>1. Fetching \in SUBSET Client
  BY DEF Fetching
<1> QED
  BY <1>1, PortsAssumption, FS_Subset, FS_CardinalityType

LEMMA FetchingNext ==
  /\ IsFiniteSet(Fetching') /\ Cardinality(Fetching') \in Nat
  /\ Cardinality(Fetching') <= Cardinality(Client)
<1>1. Fetching' \in SUBSET Client
  BY DEF Fetching
<1> QED
  BY <1>1, PortsAssumption, FS_Subset, FS_CardinalityType

LEMMA FetchingLeaves ==
  ASSUME NEW c \in Client, pc \in [Client -> AddPc], pc[c] = "fetch",
         NEW new \in AddPc, new # "fetch", pc' = [pc EXCEPT ![c] = new]
  PROVE  Cardinality(Fetching') = Cardinality(Fetching) - 1
<1>1. Fetching' = Fetching \ {c} /\ c \in Fetching
  BY DEF Fetching
<1> QED
  BY <1>1, FetchingIs, FS_RemoveElement

LEMMA FetchingKept ==
  ASSUME NEW c \in Client, pc \in [Client -> AddPc], pc[c] # "fetch",
         NEW new \in AddPc, new # "fetch", pc' = [pc EXCEPT ![c] = new]
  PROVE  Fetching' = Fetching
BY DEF Fetching

(* Queues of events.                                                       *)
LEMMA QueueFacts ==
  ASSUME NEW q \in Seq(EventType), NEW e \in EventType
  PROVE  /\ Append(q, e) \in Seq(EventType)
         /\ Len(q) \in Nat /\ DOMAIN q = 1 .. Len(q)
         /\ \A i \in 1 .. Len(q) : q[i] \in EventType
         /\ q # <<>> => /\ Head(q) \in EventType /\ Head(q) = q[1]
                        /\ Tail(q) \in Seq(EventType)
         /\ <<>> \in Seq(EventType)
BY AppendProperties, HeadTailProperties, LenProperties, ElementOfSeq, EmptySeq

LEMMA InitPortsInv == Init => PortsInv
<1> SUFFICES ASSUME Init PROVE PortsInv
  OBVIOUS
<1> USE DEF Init
<1>1. ToolInv
  <2>1. Fetching = {}
    BY DEF Fetching
  <2>2. Cardinality(Fetching) = 0
    BY <2>1, FS_EmptySet
  <2>3. portRange >= 2
    BY PortsAssumption
  <2> QED
    BY <2>2, <2>3, PortFacts DEF ToolInv
<1>2. ClientTypes
  BY PortsAssumption DEF ClientTypes, AddPc, NoReq
<1>3. JobTypes
  BY EmptySeq DEF JobTypes
<1>4. HeldInv
  BY PortFacts DEF HeldInv, OneHolder, InUse, HoldsReq, HoldsEv, HoldsCh
<1> QED
  BY <1>1, <1>2, <1>3, <1>4 DEF PortsInv

(* The steps of applyPort keep the index in its bounds: a client passes    *)
(* the test only with the index in the range, so that however many do      *)
(* before it is advanced, each adds 2 only once.                           *)
LEMMA ToolStep == ToolInv /\ ClientTypes /\ [Next]_vars => ToolInv'
<1> SUFFICES ASSUME ToolInv, ClientTypes, [Next]_vars PROVE ToolInv'
  OBVIOUS
<1>1. pc \in [Client -> AddPc]
  BY DEF ClientTypes
<1>2. ASSUME NEW c \in Client, ApplyTest(c) PROVE ToolInv'
  <2>1. CASE portIndex >= portRange
    <3>1. Fetching' = Fetching
      BY <1>1, <1>2, <2>1, FetchingKept DEF ApplyTest, Goto, AddPc
    <3> QED
      BY <1>2, <3>1 DEF ApplyTest, toolVars, ToolInv
  <2>2. CASE ~(portIndex >= portRange)
    <3>1. portIndex <= portRange - 2
      BY <2>2, PortsAssumption DEF ToolInv
    <3> QED
      BY <1>2, <3>1, PortFacts, FetchingNext DEF ApplyTest, toolVars, ToolInv
  <2> QED
    BY <2>1, <2>2
<1>3. ASSUME NEW c \in Client, ApplyReset(c) PROVE ToolInv'
  <2>1. portRange >= 2
    BY PortsAssumption
  <2> QED
    BY <1>3, <2>1, PortFacts, FetchingNext DEF ApplyReset, ToolInv
<1>4. ASSUME NEW c \in Client, ApplyFetch(c) PROVE ToolInv'
  <2>1. Cardinality(Fetching') = Cardinality(Fetching) - 1
    BY <1>1, <1>4, FetchingLeaves DEF ApplyFetch, Goto, AddPc
  <2>2. portIndex' = portIndex + 2 /\ ports' = ports
    BY <1>4 DEF ApplyFetch
  <2>3. /\ portIndex' \in Nat /\ portIndex' % 2 = 0
        /\ portIndex' + 2 * Cardinality(Fetching') = portIndex + 2 * Cardinality(Fetching)
    BY <2>1, <2>2, FetchingIs DEF ToolInv
  <2> QED
    BY <2>2, <2>3 DEF ToolInv, Port, LastPort
<1>5. ASSUME NEW c \in Client, ApplyClaim(c) PROVE ToolInv'
  <2>1. Fetching' = Fetching
    BY <1>1, <1>5, FetchingKept DEF ApplyClaim, Goto, AddPc
  <2>2. port[c] \in Port
    BY <1>5 DEF ApplyClaim, Goto, ClientTypes
  <2> QED
    BY <1>5, <2>1, <2>2 DEF ApplyClaim, ToolInv
<1>6. ASSUME NEW c \in Client,
             ApplyNext(c) \/ ApplyFail(c) \/ AddLookup(c) \/ AddRefuse(c) \/ AddReport(c)
      PROVE  ToolInv'
  <2>1. Fetching' = Fetching
    BY <1>1, <1>6, FetchingKept DEF ApplyNext, ApplyFail, AddLookup, AddRefuse, AddReport, Goto,
                                  AddPc
  <2> QED
    BY <1>6, <2>1 DEF ApplyNext, ApplyFail, AddLookup, AddRefuse, AddReport, toolVars, ToolInv
<1>7. ASSUME NEW m \in Mpu, Job(m) PROVE ToolInv'
  <2>1. Fetching' = Fetching /\ portIndex' = portIndex
    BY <1>7 DEF Job, Create, RequestRemove, RequestEnd, HandleAdd, HandleAddAgain, HandleRemove,
                HandleStop, EventFail, StopDown, StopClear, AutoFree, AutoDestroy,
                toolVars, clientVars, Fetching
  <2>2. ports' \subseteq ports
    BY <1>7 DEF Job, Create, RequestRemove, RequestEnd, HandleAdd, HandleAddAgain, HandleRemove,
                HandleStop, EventFail, StopDown, StopClear, AutoFree, AutoDestroy, toolVars
  <2> QED
    BY <2>1, <2>2 DEF ToolInv
<1>8. CASE UNCHANGED vars
  BY <1>8 DEF vars, toolVars, clientVars, ToolInv, Fetching
<1> QED
  BY <1>2, <1>3, <1>4, <1>5, <1>6, <1>7, <1>8 DEF Next, AddChnl, Apply

(* The port a request fetches is one that can be given out.                *)
LEMMA FetchedIsPort ==
  ASSUME ToolInv, NEW c \in Client, pc[c] = "fetch"
  PROVE  portIndex + portPoint \in Port
<1>1. c \in Fetching
  BY DEF Fetching
<1>2. Cardinality(Fetching) # 0
  BY <1>1, FetchingIs, FS_EmptySet
<1>3. portIndex + 2 <= portRange + 2 * (Cardinality(Client) - 1)
  BY <1>2, FetchingIs, PortFacts DEF ToolInv
<1>4. portIndex + portPoint \in portPoint .. LastPort
  BY <1>3, PortFacts DEF LastPort, ToolInv
<1>5. (portIndex + portPoint) % 2 = portPoint % 2
  BY PortFacts DEF ToolInv
<1> QED
  BY <1>4, <1>5 DEF Port

LEMMA ClientStep == ToolInv /\ ClientTypes /\ [Next]_vars => ClientTypes'
<1> SUFFICES ASSUME ToolInv, ClientTypes, [Next]_vars PROVE ClientTypes'
  OBVIOUS
<1> USE DEF ClientTypes, AddPc
<1>1. ASSUME NEW c \in Client, ApplyTest(c) \/ ApplyReset(c) PROVE ClientTypes'
  BY <1>1 DEF ApplyTest, ApplyReset, Goto, Port
<1>2. ASSUME NEW c \in Client, ApplyFetch(c) PROVE ClientTypes'
  <2>1. portIndex + portPoint \in Port
    BY <1>2, FetchedIsPort DEF ApplyFetch, Goto
  <2>2. /\ pc[c] = "fetch" /\ pc' = [pc EXCEPT ![c] = "claim"]
        /\ port' = [port EXCEPT ![c] = portIndex + portPoint]
        /\ UNCHANGED <<failNum, req>>
    BY <1>2 DEF ApplyFetch, Goto
  <2> QED
    BY <2>1, <2>2 DEF Port, LastPort
<1>3. ASSUME NEW c \in Client, ApplyClaim(c) PROVE ClientTypes'
  BY <1>3, PortFacts DEF ApplyClaim, Goto
<1>4. ASSUME NEW c \in Client, ApplyNext(c) PROVE ClientTypes'
  <2>1. failNum[c] + 2 \in 0 .. portRange
    BY <1>4, PortFacts DEF ApplyNext
  <2> QED
    BY <1>4, <2>1 DEF ApplyNext, Goto
<1>5. ASSUME NEW c \in Client, ApplyFail(c) \/ AddRefuse(c) \/ AddReport(c) PROVE ClientTypes'
  <2>1. /\ pc' = [pc EXCEPT ![c] = "idle"]
        /\ port' = [port EXCEPT ![c] = NoPort]
        /\ failNum' = [failNum EXCEPT ![c] = 0]
        /\ req' = [req EXCEPT ![c] = NoReq]
    BY <1>5 DEF ApplyFail, AddRefuse, AddReport, Goto, Done
  <2> QED
    BY <2>1, PortFacts
<1>6. ASSUME NEW c \in Client, AddLookup(c) PROVE ClientTypes'
  <2>1. PICK m \in Mpu, ch \in Channel : req' = [req EXCEPT ![c] = [mpu |-> m, chan |-> ch]]
    BY <1>6 DEF AddLookup
  <2>2. [mpu |-> m, chan |-> ch] \in Request
    BY DEF Request
  <2>3. pc' = [pc EXCEPT ![c] = "test"] /\ UNCHANGED <<port, failNum>>
    BY <1>6 DEF AddLookup, Goto
  <2> QED
    BY <2>1, <2>2, <2>3
<1>7. ASSUME NEW m \in Mpu, Job(m) PROVE ClientTypes'
  <2>1. UNCHANGED clientVars
    BY <1>7 DEF Job, Create, RequestRemove, RequestEnd, HandleAdd, HandleAddAgain, HandleRemove,
                HandleStop, EventFail, StopDown, StopClear, AutoFree, AutoDestroy
  <2> QED
    BY <2>1 DEF clientVars
<1>8. CASE UNCHANGED vars
  BY <1>8 DEF vars, clientVars
<1> QED
  BY <1>1, <1>2, <1>3, <1>4, <1>5, <1>6, <1>7, <1>8 DEF Next, AddChnl, Apply

(* The events in the queues are as the requests make them.                 *)
LEMMA JobStep == ClientTypes /\ JobTypes /\ [Next]_vars => JobTypes'
<1> SUFFICES ASSUME ClientTypes, JobTypes, [Next]_vars PROVE JobTypes'
  OBVIOUS
<1> USE DEF JobTypes
<1>1. ASSUME NEW c \in Client, Apply(c) \/ AddLookup(c) \/ AddRefuse(c) PROVE JobTypes'
  <2>1. UNCHANGED <<jobVars, closing, unowned>>
    BY <1>1 DEF Apply, ApplyTest, ApplyReset, ApplyFetch, ApplyClaim, ApplyNext, ApplyFail,
                AddLookup, AddRefuse
  <2> QED
    BY <2>1 DEF jobVars
<1>2. ASSUME NEW c \in Client, AddReport(c) PROVE JobTypes'
  <2> DEFINE m == req[c].mpu
             event == [type |-> "add", chan |-> req[c].chan, port |-> port[c]]
  <2>1. m \in Mpu /\ event \in EventType
    <3>1. pc[c] = "applied"
      BY <1>2 DEF AddReport, Goto
    <3> QED
      BY <3>1 DEF ClientTypes, Request, EventType
  <2>2. Append(eventQue[m], event) \in Seq(EventType)
    BY <2>1, QueueFacts
  <2>3. eventQue' = [eventQue EXCEPT ![m] = Append(@, event)] \/ UNCHANGED eventQue
    BY <1>2 DEF AddReport
  <2>4. UNCHANGED <<status, inTable, stopping, APCs, portList, closing, unowned>>
    BY <1>2 DEF AddReport
  <2> QED
    BY <2>1, <2>2, <2>3, <2>4
<1>3. ASSUME NEW m \in Mpu, Create(m) \/ StopDown(m) \/ AutoFree(m) PROVE JobTypes'
  <2>1. CASE Create(m) \/ StopDown(m)
    <3>1. PICK new \in {"run", "down"} : status' = [status EXCEPT ![m] = new]
      BY <2>1 DEF Create, StopDown
    <3>2. /\ inTable' \in [Mpu -> BOOLEAN]
          /\ UNCHANGED <<stopping, eventQue, APCs, portList, closing, unowned>>
      BY <2>1 DEF Create, StopDown
    <3>3. closing # None => status'[closing] # "nil"
      BY <3>1
    <3>4. status' \in [Mpu -> {"nil", "run", "down", "end", "exce"}]
      BY <3>1
    <3> QED
      BY <3>2, <3>3, <3>4
  <2>2. CASE AutoFree(m)
    <3>1. /\ closing' = m /\ m # None /\ status[m] # "nil"
          /\ unowned' \subseteq unowned \cup portList[m]
          /\ UNCHANGED jobVars
      BY <2>2, PortsAssumption DEF AutoFree
    <3> QED
      BY <3>1 DEF jobVars
  <2> QED
    BY <1>3, <2>1, <2>2
<1>4. ASSUME NEW m \in Mpu, RequestRemove(m) PROVE JobTypes'
  <2>1. PICK ch \in Channel :
          eventQue' = [eventQue EXCEPT ![m] =
                         Append(@, [type |-> "remove", chan |-> ch, port |-> NoPort])]
    BY <1>4 DEF RequestRemove
  <2>2. [type |-> "remove", chan |-> ch, port |-> NoPort] \in EventType
    BY DEF EventType
  <2>3. Append(eventQue[m], [type |-> "remove", chan |-> ch, port |-> NoPort]) \in Seq(EventType)
    BY <2>2, QueueFacts
  <2> QED
    BY <1>4, <2>1, <2>3 DEF RequestRemove
<1>5. ASSUME NEW m \in Mpu, RequestEnd(m) PROVE JobTypes'
  <2>1. [type |-> "stop", chan |-> None, port |-> NoPort] \in EventType
    BY DEF EventType
  <2>2. Append(eventQue[m], [type |-> "stop", chan |-> None, port |-> NoPort]) \in Seq(EventType)
    BY <2>1, QueueFacts
  <2> QED
    BY <1>5, <2>2 DEF RequestEnd
<1>6. ASSUME NEW m \in Mpu, NEW type, Event(m, type)
      PROVE  /\ Head(eventQue[m]) \in EventType /\ Tail(eventQue[m]) \in Seq(EventType)
             /\ eventQue' \in [Mpu -> Seq(EventType)]
  BY <1>6, HeadTailProperties DEF Event
<1>7. ASSUME NEW m \in Mpu, HandleAdd(m) PROVE JobTypes'
  <2>1. /\ Head(eventQue[m]) \in EventType /\ Head(eventQue[m]).type = "add"
        /\ eventQue' \in [Mpu -> Seq(EventType)]
    BY <1>6, <1>7 DEF HandleAdd, Event
  <2>2. Head(eventQue[m]).chan \in Channel /\ Head(eventQue[m]).port \in Port
    BY <2>1 DEF EventType
  <2> QED
    BY <1>7, <2>1, <2>2 DEF HandleAdd
<1>8. ASSUME NEW m \in Mpu, HandleAddAgain(m) \/ HandleStop(m) PROVE JobTypes'
  <2>1. eventQue' \in [Mpu -> Seq(EventType)]
    BY <1>6, <1>8 DEF HandleAddAgain, HandleStop
  <2> QED
    BY <1>8, <2>1 DEF HandleAddAgain, HandleStop
<1>9. ASSUME NEW m \in Mpu, HandleRemove(m) PROVE JobTypes'
  <2>1. eventQue' \in [Mpu -> Seq(EventType)]
    BY <1>6, <1>9 DEF HandleRemove
  <2> QED
    BY <1>9, <2>1 DEF HandleRemove
<1>10. ASSUME NEW m \in Mpu, EventFail(m) \/ StopClear(m) \/ AutoDestroy(m) PROVE JobTypes'
  <2>1. CASE EventFail(m)
    BY <2>1, EmptySeq DEF EventFail
  <2>2. CASE StopClear(m)
    BY <2>2 DEF StopClear
  <2>3. CASE AutoDestroy(m)
    <3>1. closing' = None
      BY <2>3 DEF AutoDestroy
    <3> QED
      BY <2>3, <3>1, EmptySeq DEF AutoDestroy
  <2> QED
    BY <1>10, <2>1, <2>2, <2>3
<1>11. CASE UNCHANGED vars
  BY <1>11 DEF vars, jobVars
<1> QED
  BY <1>1, <1>2, <1>3, <1>4, <1>5, <1>7, <1>8, <1>9, <1>10, <1>11 DEF Next, AddChnl, Job

-----------------------------------------------------------------------------
(* A step after which every holder of p was one before, in the same place  *)
(* or, in a queue, s places further back.                                  *)
LEMMA HolderFrame ==
  ASSUME NEW p, OneHolder(p), NEW s \in [Mpu -> Nat],
         \A c \in Client : HoldsReq(c, p)' => HoldsReq(c, p),
         \A m \in Mpu, i \in Nat : HoldsEv(m, i, p)' => HoldsEv(m, i + s[m], p),
         \A m \in Mpu, ch \in Channel : HoldsCh(m, ch, p)' => HoldsCh(m, ch, p)
  PROVE  OneHolder(p)' /\ (InUse(p)' => InUse(p))
<1>1. \A m \in Mpu, i \in Nat : i + s[m] \in Nat
  OBVIOUS
<1>2. \A m \in Mpu, i, j \in Nat : i + s[m] = j + s[m] => i = j
  OBVIOUS
<1>3. \A m, n \in Mpu, i, j \in Nat : HoldsEv(m, i, p)' /\ HoldsEv(n, j, p)' => m = n /\ i = j
  <2> SUFFICES ASSUME NEW m \in Mpu, NEW n \in Mpu, NEW i \in Nat, NEW j \in Nat,
                      HoldsEv(m, i, p)', HoldsEv(n, j, p)'
               PROVE  m = n /\ i = j
    OBVIOUS
  <2>1. /\ HoldsEv(m, i + s[m], p) /\ HoldsEv(n, j + s[n], p)
        /\ i + s[m] \in Nat /\ j + s[n] \in Nat
    OBVIOUS
  <2>2. m = n /\ i + s[m] = j + s[n]
    BY <2>1 DEF OneHolder
  <2> QED
    BY <2>2
<1>4. OneHolder(p)'
  <2>1. \A c, d \in Client : HoldsReq(c, p)' /\ HoldsReq(d, p)' => c = d
    BY DEF OneHolder
  <2>2. \A m, n \in Mpu, ch, k \in Channel :
          HoldsCh(m, ch, p)' /\ HoldsCh(n, k, p)' => m = n /\ ch = k
    BY DEF OneHolder
  <2>3. \A c \in Client, m \in Mpu, i \in Nat : ~(HoldsReq(c, p)' /\ HoldsEv(m, i, p)')
    BY <1>1 DEF OneHolder
  <2>4. \A c \in Client, m \in Mpu, ch \in Channel : ~(HoldsReq(c, p)' /\ HoldsCh(m, ch, p)')
    BY DEF OneHolder
  <2>5. \A m, n \in Mpu, i \in Nat, ch \in Channel : ~(HoldsEv(m, i, p)' /\ HoldsCh(n, ch, p)')
    BY <1>1 DEF OneHolder
  <2> QED
    BY <1>3, <2>1, <2>2, <2>3, <2>4, <2>5 DEF OneHolder
<1>5. InUse(p)' => InUse(p)
  BY <1>1, Zenon DEF InUse
<1> QED
  BY <1>4, <1>5

(* The places of the events when the first one is taken.                   *)
LEMMA TakenEvent ==
  ASSUME NEW q \in Seq(EventType), q # <<>>, NEW i \in Nat, i \in DOMAIN Tail(q)
  PROVE  i + 1 \in DOMAIN q /\ Tail(q)[i] = q[i + 1]
<1>1. /\ Tail(q) \in Seq(EventType) /\ Len(Tail(q)) = Len(q) - 1 /\ Len(q) \in Nat
      /\ DOMAIN Tail(q) = 1 .. Len(Tail(q)) /\ DOMAIN q = 1 .. Len(q)
      /\ \A k \in 1 .. Len(q) - 1 : Tail(q)[k] = q[k + 1]
  BY HeadTailProperties, LenProperties
<1> QED
  BY <1>1

(* A job takes an event: the others in its queue move up by one.           *)
Shift(m) == [n \in Mpu |-> IF n = m THEN 1 ELSE 0]

LEMMA EventTaken ==
  ASSUME JobTypes, NEW p, NEW m \in Mpu, NEW type, Event(m, type)
  PROVE  /\ Head(eventQue[m]) \in EventType /\ Head(eventQue[m]).type = type
         /\ Shift(m) \in [Mpu -> Nat]
         /\ HoldsEv(m, 1, p) <=> Head(eventQue[m]).port = p
         /\ \A n \in Mpu, i \in Nat : HoldsEv(n, i, p)' => /\ HoldsEv(n, i + Shift(m)[n], p)
                                                           /\ ~(n = m /\ i = 0)
<1>1. eventQue[m] \in Seq(EventType) /\ eventQue[m] # <<>>
  BY DEF Event, JobTypes
<1>2. Shift(m) \in [Mpu -> Nat]
  BY DEF Shift
<1>3. Head(eventQue[m]) \in EventType /\ Head(eventQue[m]) = eventQue[m][1]
      /\ 1 \in DOMAIN eventQue[m]
  <2>1. Len(eventQue[m]) \in Nat \ {0} /\ DOMAIN eventQue[m] = 1 .. Len(eventQue[m])
    BY <1>1, LenProperties, EmptySeq
  <2> QED
    BY <1>1, <2>1, HeadTailProperties, ElementOfSeq
<1>4. HoldsEv(m, 1, p) <=> Head(eventQue[m]).port = p
  BY <1>3 DEF HoldsEv
<1>5. ASSUME NEW n \in Mpu, NEW i \in Nat, HoldsEv(n, i, p)'
      PROVE  HoldsEv(n, i + Shift(m)[n], p) /\ ~(n = m /\ i = 0)
  <2>1. CASE n = m
    <3>1. i \in DOMAIN Tail(eventQue[m]) /\ Tail(eventQue[m])[i].port = p
      BY <1>5, <2>1 DEF HoldsEv, Event, JobTypes
    <3>2. i + 1 \in DOMAIN eventQue[m] /\ Tail(eventQue[m])[i] = eventQue[m][i + 1]
      BY <1>1, <3>1, TakenEvent
    <3>3. i # 0
      <4>1. Tail(eventQue[m]) \in Seq(EventType)
        BY <1>1, HeadTailProperties
      <4>2. DOMAIN Tail(eventQue[m]) = 1 .. Len(Tail(eventQue[m]))
        BY <4>1, LenProperties
      <4> QED
        BY <3>1, <4>2
    <3> QED
      BY <2>1, <3>1, <3>2, <3>3 DEF HoldsEv, Shift
  <2>2. CASE n # m
    <3>1. eventQue'[n] = eventQue[n] /\ Shift(m)[n] = 0
      BY <2>2 DEF Event, JobTypes, Shift
    <3> QED
      BY <1>5, <2>2, <3>1 DEF HoldsEv
  <2> QED
    BY <2>1, <2>2
<1> QED
  BY <1>2, <1>3, <1>4, <1>5 DEF Event

(* A port nobody holds, and one that an event or a channel holds.          *)
LEMMA NobodyHolds == \A p : ~InUse(p)' => OneHolder(p)'
BY DEF InUse, OneHolder

LEMMA OnlyEvent ==
  ASSUME NEW p, OneHolder(p), NEW m \in Mpu, NEW i \in Nat, HoldsEv(m, i, p)
  PROVE  /\ \A c \in Client : ~HoldsReq(c, p)
         /\ \A n \in Mpu, ch \in Channel : ~HoldsCh(n, ch, p)
         /\ \A n \in Mpu, j \in Nat : HoldsEv(n, j, p) => n = m /\ j = i
BY DEF OneHolder

LEMMA OnlyChannel ==
  ASSUME NEW p, OneHolder(p), NEW m \in Mpu, NEW ch \in Channel, HoldsCh(m, ch, p)
  PROVE  /\ \A c \in Client : ~HoldsReq(c, p)
         /\ \A n \in Mpu, i \in Nat : ~HoldsEv(n, i, p)
         /\ \A n \in Mpu, k \in Channel : HoldsCh(n, k, p) => n = m /\ k = ch
BY DEF OneHolder

LEMMA OnlyRequest ==
  ASSUME NEW p, OneHolder(p), NEW c \in Client, HoldsReq(c, p)
  PROVE  /\ \A d \in Client : HoldsReq(d, p) => d = c
         /\ \A n \in Mpu, i \in Nat : ~HoldsEv(n, i, p)
         /\ \A n \in Mpu, ch \in Channel : ~HoldsCh(n, ch, p)
BY DEF OneHolder

(* No queue gains a holder.                                                *)
Unmoved == [n \in Mpu |-> 0]

LEMMA StillFrame ==
  ASSUME NEW p, OneHolder(p),
         \A c \in Client : HoldsReq(c, p)' => HoldsReq(c, p),
         \A m \in Mpu, i \in Nat : HoldsEv(m, i, p)' => HoldsEv(m, i, p),
         \A m \in Mpu, ch \in Channel : HoldsCh(m, ch, p)' => HoldsCh(m, ch, p)
  PROVE  OneHolder(p)' /\ (InUse(p)' => InUse(p))
<1>1. Unmoved \in [Mpu -> Nat] /\ \A m \in Mpu, i \in Nat : i + Unmoved[m] = i
  BY DEF Unmoved
<1> QED
  BY <1>1, HolderFrame

LEMMA UnownedGrows == [Next]_vars => unowned \subseteq unowned'
<1> SUFFICES ASSUME [Next]_vars PROVE unowned \subseteq unowned'
  OBVIOUS
<1>1. ASSUME NEW c \in Client, AddChnl(c) PROVE UNCHANGED unowned
  BY <1>1 DEF AddChnl, Apply, ApplyTest, ApplyReset, ApplyFetch, ApplyClaim, ApplyNext,
              ApplyFail, AddLookup, AddRefuse, AddReport
<1>2. ASSUME NEW m \in Mpu, Job(m) PROVE unowned \subseteq unowned'
  BY <1>2 DEF Job, Create, RequestRemove, RequestEnd, HandleAdd, HandleAddAgain, HandleRemove,
              HandleStop, EventFail, StopDown, StopClear, AutoFree, AutoDestroy
<1> QED
  BY <1>1, <1>2 DEF Next, vars

(* What the steps of a request do to the holders of a port.                *)
LEMMA RequestHolders ==
  ASSUME ClientTypes, JobTypes, NEW p \in Port, OneHolder(p), InUse(p) => p \in ports,
         NEW c \in Client, AddChnl(c)
  PROVE  OneHolder(p)' /\ (InUse(p)' => p \in ports')
<1>1. CASE ApplyTest(c) \/ ApplyReset(c) \/ ApplyFetch(c) \/ ApplyNext(c) \/ ApplyFail(c)
             \/ AddLookup(c) \/ AddRefuse(c)
  <2>1. UNCHANGED <<eventQue, APCs, ports>>
    BY <1>1 DEF ApplyTest, ApplyReset, ApplyFetch, ApplyNext, ApplyFail, AddLookup, AddRefuse,
                toolVars, jobVars
  <2>2. \A d \in Client : HoldsReq(d, p)' => HoldsReq(d, p)
    BY <1>1, PortFacts DEF ApplyTest, ApplyReset, ApplyFetch, ApplyNext, ApplyFail, AddLookup,
                AddRefuse, Done, Goto, ClientTypes, HoldsReq
  <2>3. /\ \A m \in Mpu, i \in Nat : HoldsEv(m, i, p)' => HoldsEv(m, i, p)
        /\ \A m \in Mpu, ch \in Channel : HoldsCh(m, ch, p)' => HoldsCh(m, ch, p)
    BY <2>1 DEF HoldsEv, HoldsCh
  <2> QED
    BY <2>1, <2>2, <2>3, StillFrame
<1>2. CASE ApplyClaim(c)
  <2>1. UNCHANGED <<eventQue, APCs, port>> /\ port[c] \notin ports
        /\ ports' = ports \cup {port[c]} /\ pc' = [pc EXCEPT ![c] = "applied"]
    BY <1>2 DEF ApplyClaim, Goto, jobVars
  <2>2. /\ \A m \in Mpu, i \in Nat : HoldsEv(m, i, p)' => HoldsEv(m, i, p)
        /\ \A m \in Mpu, ch \in Channel : HoldsCh(m, ch, p)' => HoldsCh(m, ch, p)
        /\ \A d \in Client : HoldsReq(d, p)' => HoldsReq(d, p) \/ (d = c /\ p = port[c])
    BY <2>1 DEF ClientTypes, HoldsReq, HoldsEv, HoldsCh
  <2>3. CASE p = port[c]
    <3>1. ~InUse(p)
      BY <2>1, <2>3
    <3>2. /\ \A m \in Mpu, i \in Nat : ~HoldsEv(m, i, p)'
          /\ \A m \in Mpu, ch \in Channel : ~HoldsCh(m, ch, p)'
          /\ \A d \in Client : HoldsReq(d, p)' => d = c
      BY <2>2, <3>1 DEF InUse
    <3>3. OneHolder(p)'
      BY <3>2 DEF OneHolder
    <3> QED
      BY <2>1, <2>3, <3>3
  <2>4. CASE p # port[c]
    BY <2>1, <2>2, <2>4, StillFrame
  <2> QED
    BY <2>3, <2>4
<1>3. CASE AddReport(c)
  <2> DEFINE m == req[c].mpu
             event == [type |-> "add", chan |-> req[c].chan, port |-> port[c]]
  <2>1. /\ pc[c] = "applied" /\ pc' = [pc EXCEPT ![c] = "idle"]
        /\ port' = [port EXCEPT ![c] = NoPort] /\ UNCHANGED <<APCs, ports>>
        /\ eventQue' = [eventQue EXCEPT ![m] = Append(@, event)] \/ UNCHANGED eventQue
    BY <1>3 DEF AddReport, Goto, Done, toolVars
  <2>2. m \in Mpu /\ event \in EventType
    BY <2>1 DEF ClientTypes, Request, EventType
  <2>3. /\ \A d \in Client : HoldsReq(d, p)' => HoldsReq(d, p) /\ d # c
        /\ \A n \in Mpu, ch \in Channel : HoldsCh(n, ch, p)' => HoldsCh(n, ch, p)
    BY <2>1 DEF ClientTypes, HoldsReq, HoldsCh, AddPc
  <2>4. CASE UNCHANGED eventQue
    <3>1. \A n \in Mpu, i \in Nat : HoldsEv(n, i, p)' => HoldsEv(n, i, p)
      BY <2>4 DEF HoldsEv
    <3> QED
      BY <2>1, <2>3, <3>1, StillFrame
  <2>5. CASE eventQue' = [eventQue EXCEPT ![m] = Append(@, event)]
    <3>1. PICK k \in Nat : k = Len(eventQue[m]) + 1
      BY <2>2, LenProperties DEF JobTypes
    <3>2. /\ Len(eventQue[m]) \in Nat /\ DOMAIN eventQue[m] = 1 .. Len(eventQue[m])
          /\ DOMAIN Append(eventQue[m], event) = 1 .. k
          /\ \A i \in 1 .. Len(eventQue[m]) : Append(eventQue[m], event)[i] = eventQue[m][i]
          /\ Append(eventQue[m], event)[k] = event
      BY <2>2, <3>1, AppendProperties, LenProperties DEF JobTypes
    <3>3. ASSUME NEW n \in Mpu, NEW i \in Nat, HoldsEv(n, i, p)'
          PROVE  HoldsEv(n, i, p) \/ (n = m /\ i = k /\ p = port[c])
      <4>1. CASE n = m
        <5>1. i \in 1 .. k /\ Append(eventQue[m], event)[i].port = p
          BY <2>5, <3>2, <3>3, <4>1 DEF HoldsEv, JobTypes
        <5>2. CASE i = k
          BY <3>2, <4>1, <5>1, <5>2
        <5>3. CASE i # k
          <6>1. i \in 1 .. Len(eventQue[m])
            BY <3>1, <3>2, <5>1, <5>3
          <6> QED
            BY <3>2, <4>1, <5>1, <6>1 DEF HoldsEv
        <5> QED
          BY <5>2, <5>3
      <4>2. CASE n # m
        <5>1. eventQue'[n] = eventQue[n]
          BY <2>5, <4>2 DEF JobTypes
        <5> QED
          BY <3>3, <5>1 DEF HoldsEv
      <4> QED
        BY <4>1, <4>2
    <3>4. CASE p = port[c]
      <4>1. HoldsReq(c, p)
        BY <2>1, <3>4 DEF HoldsReq
      <4>2. /\ \A d \in Client : ~HoldsReq(d, p)'
            /\ \A n \in Mpu, ch \in Channel : ~HoldsCh(n, ch, p)'
            /\ \A n \in Mpu, i \in Nat : HoldsEv(n, i, p)' => n = m /\ i = k
        BY <2>3, <3>3, <4>1, OnlyRequest
      <4>3. OneHolder(p)'
        BY <4>2 DEF OneHolder
      <4>4. p \in ports
        BY <4>1 DEF InUse
      <4> QED
        BY <2>1, <4>3, <4>4
    <3>5. CASE p # port[c]
      BY <2>1, <2>3, <3>3, <3>5, StillFrame
    <3> QED
      BY <3>4, <3>5
  <2> QED
    BY <2>1, <2>4, <2>5
<1> QED
  BY <1>1, <1>2, <1>3 DEF AddChnl, Apply

(* What the steps of a job do to the holders of a port.                    *)
LEMMA JobHolders ==
  ASSUME JobTypes, NEW p \in Port, OneHolder(p), InUse(p) => p \in ports,
         NEW m \in Mpu, Job(m), p \notin unowned'
  PROVE  OneHolder(p)' /\ (InUse(p)' => p \in ports')
<1>1. \A c \in Client : HoldsReq(c, p)' => HoldsReq(c, p)
  <2>1. UNCHANGED clientVars
    BY DEF Job, Create, RequestRemove, RequestEnd, HandleAdd, HandleAddAgain, HandleRemove,
           HandleStop, EventFail, StopDown, StopClear, AutoFree, AutoDestroy
  <2> QED
    BY <2>1 DEF clientVars, HoldsReq
<1>2. CASE Create(m) \/ StopDown(m)
  <2>1. UNCHANGED <<eventQue, APCs, ports>>
    BY <1>2 DEF Create, StopDown, toolVars
  <2> QED
    BY <1>1, <2>1, StillFrame DEF HoldsEv, HoldsCh
<1>3. CASE RequestRemove(m) \/ RequestEnd(m)
  <2>1. UNCHANGED <<APCs, ports>>
    BY <1>3 DEF RequestRemove, RequestEnd, toolVars
  <2>2. \/ UNCHANGED eventQue
        \/ \E e \in EventType : e.port = NoPort /\ eventQue' = [eventQue EXCEPT ![m] = Append(@, e)]
    <3>1. CASE RequestRemove(m)
      <4>1. PICK ch \in Channel :
              eventQue' = [eventQue EXCEPT ![m] =
                             Append(@, [type |-> "remove", chan |-> ch, port |-> NoPort])]
        BY <3>1 DEF RequestRemove
      <4>2. [type |-> "remove", chan |-> ch, port |-> NoPort] \in EventType
        BY DEF EventType
      <4> QED
        BY <4>1, <4>2
    <3>2. CASE RequestEnd(m)
      <4>1. [type |-> "stop", chan |-> None, port |-> NoPort] \in EventType
        BY DEF EventType
      <4> QED
        BY <3>2, <4>1 DEF RequestEnd
    <3> QED
      BY <1>3, <3>1, <3>2
  <2>3. ASSUME NEW e \in EventType, e.port = NoPort,
               eventQue' = [eventQue EXCEPT ![m] = Append(@, e)],
               NEW n \in Mpu, NEW i \in Nat, HoldsEv(n, i, p)'
        PROVE  HoldsEv(n, i, p)
    <3>1. CASE n = m
      <4>1. i \in DOMAIN Append(eventQue[m], e) /\ Append(eventQue[m], e)[i].port = p
        BY <2>3, <3>1 DEF HoldsEv, JobTypes
      <4>2. /\ Len(eventQue[m]) \in Nat /\ DOMAIN eventQue[m] = 1 .. Len(eventQue[m])
            /\ DOMAIN Append(eventQue[m], e) = 1 .. Len(eventQue[m]) + 1
            /\ \A k \in 1 .. Len(eventQue[m]) : Append(eventQue[m], e)[k] = eventQue[m][k]
            /\ Append(eventQue[m], e)[Len(eventQue[m]) + 1] = e
        BY AppendProperties, LenProperties DEF JobTypes
      <4>3. i # Len(eventQue[m]) + 1
        BY <2>3, <4>1, <4>2, PortFacts
      <4>4. i \in 1 .. Len(eventQue[m])
        BY <4>1, <4>2, <4>3
      <4> QED
        BY <3>1, <4>1, <4>2, <4>4 DEF HoldsEv
    <3>2. CASE n # m
      <4>1. eventQue'[n] = eventQue[n]
        BY <2>3, <3>2 DEF JobTypes
      <4> QED
        BY <2>3, <4>1 DEF HoldsEv
    <3> QED
      BY <3>1, <3>2
  <2>4. \A n \in Mpu, i \in Nat : HoldsEv(n, i, p)' => HoldsEv(n, i, p)
    <3>1. CASE UNCHANGED eventQue
      BY <3>1 DEF HoldsEv
    <3>2. CASE ~UNCHANGED eventQue
      BY <2>2, <2>3, <3>2
    <3> QED
      BY <3>1, <3>2
  <2>5. \A n \in Mpu, ch \in Channel : HoldsCh(n, ch, p)' => HoldsCh(n, ch, p)
    BY <2>1 DEF HoldsCh
  <2> QED
    BY <1>1, <2>1, <2>4, <2>5, StillFrame
<1>4. CASE HandleAdd(m)
  <2> DEFINE e == Head(eventQue[m])
  <2>1. /\ Event(m, "add") /\ APCs[m][e.chan] = NoPort
        /\ APCs' = [APCs EXCEPT ![m][e.chan] = e.port] /\ UNCHANGED ports
    BY <1>4 DEF HandleAdd, toolVars
  <2>2. /\ e \in EventType /\ e.type = "add" /\ Shift(m) \in [Mpu -> Nat]
        /\ HoldsEv(m, 1, p) <=> e.port = p
        /\ \A n \in Mpu, i \in Nat : HoldsEv(n, i, p)' => /\ HoldsEv(n, i + Shift(m)[n], p)
                                                          /\ ~(n = m /\ i = 0)
    BY <2>1, EventTaken
  <2>3. e.chan \in Channel
    BY <2>2 DEF EventType
  <2>4. \A n \in Mpu, ch \in Channel :
          HoldsCh(n, ch, p)' => HoldsCh(n, ch, p) \/ (n = m /\ ch = e.chan /\ e.port = p)
    BY <2>1, <2>3 DEF HoldsCh, JobTypes
  <2>5. CASE e.port = p
    <3>1. /\ HoldsEv(m, 1, p)
          /\ \A c \in Client : ~HoldsReq(c, p)
          /\ \A n \in Mpu, ch \in Channel : ~HoldsCh(n, ch, p)
          /\ \A n \in Mpu, j \in Nat : HoldsEv(n, j, p) => n = m /\ j = 1
      BY <2>2, <2>5, OnlyEvent
    <3>2. \A n \in Mpu, i \in Nat : ~HoldsEv(n, i, p)'
      <4> SUFFICES ASSUME NEW n \in Mpu, NEW i \in Nat, HoldsEv(n, i, p)' PROVE FALSE
        OBVIOUS
      <4>1. HoldsEv(n, i + Shift(m)[n], p) /\ ~(n = m /\ i = 0) /\ i + Shift(m)[n] \in Nat
        BY <2>2
      <4>2. n = m /\ i + Shift(m)[n] = 1
        BY <3>1, <4>1
      <4> QED
        BY <4>1, <4>2 DEF Shift
    <3>3. OneHolder(p)'
      BY <1>1, <2>4, <3>1, <3>2 DEF OneHolder
    <3>4. p \in ports'
      BY <2>1, <3>1 DEF InUse
    <3> QED
      BY <3>3, <3>4
  <2>6. CASE e.port # p
    BY <1>1, <2>1, <2>2, <2>4, <2>6, HolderFrame
  <2> QED
    BY <2>5, <2>6
<1>5. CASE HandleAddAgain(m) \/ HandleStop(m)
  <2> DEFINE e == Head(eventQue[m])
  <2>1. PICK type \in {"add", "stop"} : Event(m, type)
    BY <1>5 DEF HandleAddAgain, HandleStop
  <2>2. /\ e \in EventType /\ Shift(m) \in [Mpu -> Nat]
        /\ HoldsEv(m, 1, p) <=> e.port = p
        /\ \A n \in Mpu, i \in Nat : HoldsEv(n, i, p)' => /\ HoldsEv(n, i + Shift(m)[n], p)
                                                          /\ ~(n = m /\ i = 0)
    BY <2>1, EventTaken
  <2>3. UNCHANGED APCs /\ ports' \in {ports, ports \ {e.port}}
    BY <1>5 DEF HandleAddAgain, HandleStop, toolVars
  <2>4. \A n \in Mpu, ch \in Channel : HoldsCh(n, ch, p)' => HoldsCh(n, ch, p)
    BY <2>3 DEF HoldsCh
  <2>5. OneHolder(p)' /\ (InUse(p)' => InUse(p))
    BY <1>1, <2>2, <2>4, HolderFrame
  <2>6. CASE e.port = p
    <3>1. /\ \A c \in Client : ~HoldsReq(c, p)
          /\ \A n \in Mpu, ch \in Channel : ~HoldsCh(n, ch, p)
          /\ \A n \in Mpu, j \in Nat : HoldsEv(n, j, p) => n = m /\ j = 1
      BY <2>2, <2>6, OnlyEvent
    <3>2. \A n \in Mpu, i \in Nat : ~HoldsEv(n, i, p)'
      <4> SUFFICES ASSUME NEW n \in Mpu, NEW i \in Nat, HoldsEv(n, i, p)' PROVE FALSE
        OBVIOUS
      <4>1. HoldsEv(n, i + Shift(m)[n], p) /\ ~(n = m /\ i = 0) /\ i + Shift(m)[n] \in Nat
        BY <2>2
      <4>2. n = m /\ i + Shift(m)[n] = 1
        BY <3>1, <4>1
      <4> QED
        BY <4>1, <4>2 DEF Shift
    <3>3. ~InUse(p)'
      BY <1>1, <2>4, <3>1, <3>2 DEF InUse
    <3> QED
      BY <2>5, <3>3
  <2>7. CASE e.port # p
    BY <2>3, <2>5, <2>7
  <2> QED
    BY <2>6, <2>7
<1>6. CASE HandleRemove(m)
  <2> DEFINE e == Head(eventQue[m])
             q == APCs[m][e.chan]
  <2>1. /\ Event(m, "remove") /\ ports' = ports \ {q}
        /\ APCs' = [APCs EXCEPT ![m][e.chan] = NoPort]
    BY <1>6 DEF HandleRemove
  <2>2. /\ e \in EventType /\ e.type = "remove" /\ Shift(m) \in [Mpu -> Nat]
        /\ \A n \in Mpu, i \in Nat : HoldsEv(n, i, p)' => HoldsEv(n, i + Shift(m)[n], p)
    BY <2>1, EventTaken
  <2>3. e.chan \in Channel
    BY <2>2 DEF EventType
  <2>4. \A n \in Mpu, ch \in Channel :
          HoldsCh(n, ch, p)' => HoldsCh(n, ch, p) /\ ~(n = m /\ ch = e.chan)
    BY <2>1, <2>3, PortFacts DEF HoldsCh, JobTypes
  <2>5. OneHolder(p)' /\ (InUse(p)' => InUse(p))
    BY <1>1, <2>2, <2>4, HolderFrame
  <2>6. CASE q = p
    <3>1. HoldsCh(m, e.chan, p)
      BY <2>6 DEF HoldsCh
    <3>2. /\ \A c \in Client : ~HoldsReq(c, p)
          /\ \A n \in Mpu, i \in Nat : ~HoldsEv(n, i, p)
          /\ \A n \in Mpu, k \in Channel : HoldsCh(n, k, p) => n = m /\ k = e.chan
      BY <2>3, <3>1, OnlyChannel
    <3>3. \A n \in Mpu, i \in Nat : i + Shift(m)[n] \in Nat
      BY <2>2
    <3>4. ~InUse(p)'
      BY <1>1, <2>2, <2>4, <3>2, <3>3 DEF InUse
    <3> QED
      BY <2>5, <3>4
  <2>7. CASE q # p
    BY <2>1, <2>5, <2>7
  <2> QED
    BY <2>6, <2>7
<1>7. CASE EventFail(m)
  <2>1. eventQue' = [eventQue EXCEPT ![m] = <<>>] /\ UNCHANGED <<APCs, ports>>
    BY <1>7 DEF EventFail, toolVars
  <2>2. \A n \in Mpu, i \in Nat : HoldsEv(n, i, p)' => HoldsEv(n, i, p)
    BY <2>1 DEF HoldsEv, JobTypes
  <2>3. \A n \in Mpu, ch \in Channel : HoldsCh(n, ch, p)' => HoldsCh(n, ch, p)
    BY <2>1 DEF HoldsCh
  <2> QED
    BY <1>1, <2>1, <2>2, <2>3, StillFrame
<1>8. CASE StopClear(m) \/ AutoDestroy(m)
  <2>1. /\ ports' = ports \ PortsOf(m)
        /\ APCs' = [APCs EXCEPT ![m] = [ch \in Channel |-> NoPort]]
        /\ eventQue' = eventQue \/ eventQue' = [eventQue EXCEPT ![m] = <<>>]
    BY <1>8 DEF StopClear, AutoDestroy
  <2>2. \A n \in Mpu, i \in Nat : HoldsEv(n, i, p)' => HoldsEv(n, i, p)
    <3>1. CASE eventQue' = eventQue
      BY <3>1 DEF HoldsEv
    <3>2. CASE eventQue' = [eventQue EXCEPT ![m] = <<>>]
      BY <3>2 DEF HoldsEv, JobTypes
    <3> QED
      BY <2>1, <3>1, <3>2
  <2>3. \A n \in Mpu, ch \in Channel : HoldsCh(n, ch, p)' => HoldsCh(n, ch, p) /\ n # m
    BY <2>1, PortFacts DEF HoldsCh, JobTypes
  <2>4. OneHolder(p)' /\ (InUse(p)' => InUse(p))
    BY <1>1, <2>2, <2>3, StillFrame
  <2>5. CASE p \in PortsOf(m)
    <3>1. PICK ch \in Channel : HoldsCh(m, ch, p)
      BY <2>5 DEF PortsOf, HoldsCh
    <3>2. /\ \A c \in Client : ~HoldsReq(c, p)
          /\ \A n \in Mpu, i \in Nat : ~HoldsEv(n, i, p)
          /\ \A n \in Mpu, k \in Channel : HoldsCh(n, k, p) => n = m
      BY <3>1, OnlyChannel
    <3>3. ~InUse(p)'
      BY <1>1, <2>2, <2>3, <3>2 DEF InUse
    <3> QED
      BY <2>4, <3>3
  <2>6. CASE p \notin PortsOf(m)
    BY <2>1, <2>4, <2>6
  <2> QED
    BY <2>5, <2>6
<1>9. CASE AutoFree(m)
  <2>1. /\ ports' = ports \ portList[m] /\ UNCHANGED <<eventQue, APCs>>
        /\ p \notin portList[m] \cap HeldPorts
    BY <1>9 DEF AutoFree, jobVars
  <2>2. OneHolder(p)' /\ (InUse(p)' => InUse(p))
    BY <1>1, <2>1, StillFrame DEF HoldsEv, HoldsCh
  <2>3. InUse(p) => p \in HeldPorts
    <3>1. \A c \in Client : HoldsReq(c, p) => p \in HeldPorts
      BY DEF HoldsReq, HeldPorts, Claimed
    <3>2. \A n \in Mpu, i \in Nat : HoldsEv(n, i, p) => p \in HeldPorts
      <4>1. \A n \in Mpu, i \in Nat : HoldsEv(n, i, p) => p \in QueuedOf(n)
        BY PortFacts DEF HoldsEv, QueuedOf
      <4> QED
        BY <4>1 DEF HeldPorts
    <3>3. \A n \in Mpu, ch \in Channel : HoldsCh(n, ch, p) => p \in HeldPorts
      <4>1. \A n \in Mpu, ch \in Channel : HoldsCh(n, ch, p) => p \in PortsOf(n)
        BY PortFacts DEF HoldsCh, PortsOf
      <4> QED
        BY <4>1 DEF HeldPorts
    <3> QED
      BY <3>1, <3>2, <3>3 DEF InUse
  <2> QED
    BY <2>1, <2>2, <2>3
<1> QED
  BY <1>2, <1>3, <1>4, <1>5, <1>6, <1>7, <1>8, <1>9 DEF Job

LEMMA HeldStep == ClientTypes /\ JobTypes /\ HeldInv /\ [Next]_vars => HeldInv'
<1> SUFFICES ASSUME ClientTypes, JobTypes, HeldInv, [Next]_vars,
                    NEW p \in Port, p \notin unowned'
             PROVE  OneHolder(p)' /\ (InUse(p)' => p \in ports')
  BY DEF HeldInv
<1>1. OneHolder(p) /\ (InUse(p) => p \in ports)
  BY UnownedGrows DEF HeldInv
<1>2. ASSUME NEW c \in Client, AddChnl(c) PROVE OneHolder(p)' /\ (InUse(p)' => p \in ports')
  BY <1>1, <1>2, RequestHolders
<1>3. ASSUME NEW m \in Mpu, Job(m) PROVE OneHolder(p)' /\ (InUse(p)' => p \in ports')
  BY <1>1, <1>3, JobHolders
<1>4. CASE UNCHANGED vars
  <2>1. UNCHANGED <<pc, port, eventQue, APCs, ports>>
    BY <1>4 DEF vars, toolVars, clientVars, jobVars
  <2> QED
    BY <1>1, <2>1, StillFrame DEF HoldsReq, HoldsEv, HoldsCh
<1> QED
  BY <1>2, <1>3, <1>4 DEF Next

LEMMA PortsInvariance == Spec => []PortsInv
<1>1. PortsInv /\ [Next]_vars => PortsInv'
  BY ToolStep, ClientStep, JobStep, HeldStep DEF PortsInv
<1> QED
  BY InitPortsInv, <1>1, PTL DEF Spec

-----------------------------------------------------------------------------
(* PortsTypeCorrect: every variable keeps its type; above all, no port     *)
(* beyond LastPort is ever given out, so that the tests of applyPort that  *)
(* race with each other do not add up over time.                           *)
THEOREM PortsTypeCorrect == Spec => []TypeOK
<1>1. PortsInv => TypeOK
  <2> SUFFICES ASSUME PortsInv PROVE TypeOK
    OBVIOUS
  <2>1. portIndex \in 0 .. portRange + 2 * (Cardinality(Client) - 1)
    <3>1. /\ portIndex \in Nat /\ Cardinality(Fetching) \in Nat
          /\ portIndex + 2 * Cardinality(Fetching) <= portRange + 2 * (Cardinality(Client) - 1)
      BY FetchingIs DEF PortsInv, ToolInv
    <3>2. portIndex <= portRange + 2 * (Cardinality(Client) - 1)
      BY <3>1, PortFacts
    <3> QED
      BY <3>1, <3>2, PortFacts
  <2>2. Request \cup {NoReq} \subseteq [mpu : Mpu \cup {None}, chan : Channel \cup {None}]
    BY DEF Request, NoReq
  <2>3. req \in [Client -> [mpu : Mpu \cup {None}, chan : Channel \cup {None}]]
    BY <2>2 DEF PortsInv, ClientTypes
  <2> DEFINE Ev == [type : {"add", "remove", "stop"},
                    chan : Channel \cup {None}, port : Port \cup {NoPort}]
  <2>4. EventType \subseteq Ev
    BY DEF EventType
  <2>5. eventQue \in [Mpu -> Seq(Ev)]
    <3>1. ASSUME NEW q \in Seq(EventType) PROVE q \in Seq(Ev)
      <4>1. Len(q) \in Nat /\ \A i \in 1 .. Len(q) : q[i] \in Ev
        BY <2>4, LenProperties, ElementOfSeq
      <4> HIDE DEF Ev
      <4>2. q \in [1 .. Len(q) -> Ev]
        BY <4>1, LenProperties
      <4> QED
        BY <4>1, <4>2, SeqDef
    <3> HIDE DEF Ev
    <3> QED
      BY <3>1 DEF PortsInv, JobTypes
  <2> QED
    BY <2>1, <2>3, <2>5 DEF PortsInv, ToolInv, ClientTypes, JobTypes, AddPc, TypeOK
<1> QED
  BY <1>1, PortsInvariance, PTL

(* The three parts of Holders.                                             *)
Requests(p) == {c \in Claimed : port[c] = p}
Events(p) ==
  {e \in Mpu \X (1 .. MaxQueue + 1) :
     /\ e[2] \in DOMAIN eventQue[e[1]]
     /\ eventQue[e[1]][e[2]].port = p}
Channels(p) == {e \in Mpu \X Channel : APCs[e[1]][e[2]] = p}

LEMMA HoldersAre ==
  \A p : /\ Holders(p) = Cardinality(Requests(p)) + Cardinality(Events(p)) + Cardinality(Channels(p))
         /\ \A c : c \in Requests(p) <=> c \in Client /\ HoldsReq(c, p)
         /\ \A e : e \in Events(p) <=> e \in Mpu \X (1 .. MaxQueue + 1) /\ HoldsEv(e[1], e[2], p)
         /\ \A e : e \in Channels(p) <=> e \in Mpu \X Channel /\ HoldsCh(e[1], e[2], p)
BY DEF Holders, Requests, Events, Channels, Claimed, HoldsReq, HoldsEv, HoldsCh

LEMMA AtMostOne ==
  ASSUME NEW S, \A a, b \in S : a = b
  PROVE  /\ Cardinality(S) \in {0, 1}
         /\ Cardinality(S) = 1 => S # {}
         /\ S = {} => Cardinality(S) = 0
<1>1. CASE S = {}
  BY <1>1, FS_EmptySet
<1>2. CASE S # {}
  <2>1. PICK a : S = {a}
    BY <1>2
  <2> QED
    BY <2>1, FS_Singleton
<1> QED
  BY <1>1, <1>2

(* OneHolderAtMost: no port is held twice and none that is held can be     *)
(* given out again, for any number of jobs and channels and queues of any  *)
(* length, but for the ports AutoClose has freed under their holder.       *)
THEOREM OneHolderAtMost == Spec => []HeldOnce
<1>1. HeldInv => HeldOnce
  <2> SUFFICES ASSUME HeldInv, NEW p \in Port \ unowned
               PROVE  Holders(p) <= 1 /\ (Holders(p) = 1 => p \in ports)
    BY DEF HeldOnce
  <2>1. OneHolder(p) /\ (InUse(p) => p \in ports)
    BY DEF HeldInv
  <2>2. MaxQueue \in Nat /\ \A i \in 1 .. MaxQueue + 1 : i \in Nat
    BY PortsAssumption
  <2>3. \A e \in Events(p) : e = <<e[1], e[2]>> /\ e[1] \in Mpu /\ e[2] \in Nat /\ HoldsEv(e[1], e[2], p)
    BY <2>2, HoldersAre
  <2>4. \A e \in Channels(p) : e = <<e[1], e[2]>> /\ e[1] \in Mpu /\ e[2] \in Channel /\ HoldsCh(e[1], e[2], p)
    BY HoldersAre
  <2>5. \A c \in Requests(p) : c \in Client /\ HoldsReq(c, p)
    BY HoldersAre
  <2>6. \A c, d \in Requests(p) : c = d
    BY <2>1, <2>5 DEF OneHolder
  <2>7. \A e, f \in Events(p) : e = f
    <3> SUFFICES ASSUME NEW e \in Events(p), NEW f \in Events(p) PROVE e = f
      OBVIOUS
    <3>1. e[1] = f[1] /\ e[2] = f[2]
      BY <2>1, <2>3 DEF OneHolder
    <3> QED
      BY <2>3, <3>1
  <2>8. \A e, f \in Channels(p) : e = f
    <3> SUFFICES ASSUME NEW e \in Channels(p), NEW f \in Channels(p) PROVE e = f
      OBVIOUS
    <3>1. e[1] = f[1] /\ e[2] = f[2]
      BY <2>1, <2>4 DEF OneHolder
    <3> QED
      BY <2>4, <3>1
  <2>9. /\ Requests(p) = {} \/ Events(p) = {}
        /\ Requests(p) = {} \/ Channels(p) = {}
        /\ Events(p) = {} \/ Channels(p) = {}
    BY <2>1, <2>3, <2>4, <2>5 DEF OneHolder
  <2>10. (Requests(p) # {} \/ Events(p) # {} \/ Channels(p) # {}) => InUse(p)
    BY <2>3, <2>4, <2>5 DEF InUse
  <2>11. /\ Cardinality(Requests(p)) \in {0, 1} /\ Cardinality(Events(p)) \in {0, 1}
         /\ Cardinality(Channels(p)) \in {0, 1}
         /\ Cardinality(Requests(p)) = 1 => Requests(p) # {}
         /\ Cardinality(Events(p)) = 1 => Events(p) # {}
         /\ Cardinality(Channels(p)) = 1 => Channels(p) # {}
    BY <2>6, <2>7, <2>8, AtMostOne
  <2>12. Holders(p) = Cardinality(Requests(p)) + Cardinality(Events(p)) + Cardinality(Channels(p))
    BY HoldersAre
  <2> QED
    BY <2>1, <2>9, <2>10, <2>11, <2>12
<1> QED
  BY <1>1, PortsInvariance, PTL DEF PortsInv

-----------------------------------------------------------------------------
(* Holders is zero only when nobody holds the port.                        *)
HeldSomewhere(p) ==
  \/ \E c \in Client : HoldsReq(c, p)
  \/ \E m \in Mpu, i \in 1 .. MaxQueue + 1 : HoldsEv(m, i, p)
  \/ \E m \in Mpu, ch \in Channel : HoldsCh(m, ch, p)

LEMMA HoldersZero ==
  /\ \A p : Holders(p) \in Nat /\ (Holders(p) = 0 <=> ~HeldSomewhere(p))
  /\ (\A p : Holders(p) \in Nat /\ (Holders(p) = 0 <=> ~HeldSomewhere(p)))'
<1>1. ASSUME NEW p PROVE Holders(p) \in Nat /\ (Holders(p) = 0 <=> ~HeldSomewhere(p))
  <2>1. IsFiniteSet(Mpu \X Channel) /\ IsFiniteSet(Mpu \X (1 .. MaxQueue + 1))
    <3>1. 1 \in Int /\ MaxQueue + 1 \in Int
      BY PortsAssumption
    <3>2. IsFiniteSet(1 .. MaxQueue + 1)
      BY <3>1, FS_Interval, Zenon
    <3> QED
      BY <3>2, PortsAssumption, FS_Product
  <2>2. /\ Requests(p) \in SUBSET Client /\ Events(p) \in SUBSET (Mpu \X (1 .. MaxQueue + 1))
        /\ Channels(p) \in SUBSET (Mpu \X Channel)
    BY HoldersAre
  <2>3. IsFiniteSet(Requests(p)) /\ IsFiniteSet(Events(p)) /\ IsFiniteSet(Channels(p))
    BY <2>1, <2>2, PortsAssumption, FS_Subset
  <2>4. /\ Cardinality(Requests(p)) \in Nat /\ (Cardinality(Requests(p)) = 0 <=> Requests(p) = {})
        /\ Cardinality(Events(p)) \in Nat /\ (Cardinality(Events(p)) = 0 <=> Events(p) = {})
        /\ Cardinality(Channels(p)) \in Nat /\ (Cardinality(Channels(p)) = 0 <=> Channels(p) = {})
    BY <2>3, FS_CardinalityType, FS_EmptySet
  <2>5. /\ Requests(p) = {} <=> ~\E c \in Client : HoldsReq(c, p)
        /\ Events(p) = {} <=> ~\E m \in Mpu, i \in 1 .. MaxQueue + 1 : HoldsEv(m, i, p)
        /\ Channels(p) = {} <=> ~\E m \in Mpu, ch \in Channel : HoldsCh(m, ch, p)
    <3>1. Requests(p) = {} <=> ~\E c \in Client : HoldsReq(c, p)
      BY HoldersAre
    <3>2. Events(p) = {} <=> ~\E m \in Mpu, i \in 1 .. MaxQueue + 1 : HoldsEv(m, i, p)
      <4>1. ASSUME NEW m \in Mpu, NEW i \in 1 .. MaxQueue + 1, HoldsEv(m, i, p)
            PROVE  <<m, i>> \in Events(p)
        BY <4>1, HoldersAre
      <4>2. ASSUME NEW e \in Events(p)
            PROVE  e[1] \in Mpu /\ e[2] \in 1 .. MaxQueue + 1 /\ HoldsEv(e[1], e[2], p)
        BY HoldersAre
      <4> QED
        BY <4>1, <4>2
    <3>3. Channels(p) = {} <=> ~\E m \in Mpu, ch \in Channel : HoldsCh(m, ch, p)
      <4>1. ASSUME NEW m \in Mpu, NEW ch \in Channel, HoldsCh(m, ch, p)
            PROVE  <<m, ch>> \in Channels(p)
        BY <4>1, HoldersAre
      <4>2. ASSUME NEW e \in Channels(p)
            PROVE  e[1] \in Mpu /\ e[2] \in Channel /\ HoldsCh(e[1], e[2], p)
        BY HoldersAre
      <4> QED
        BY <4>1, <4>2
    <3> QED
      BY <3>1, <3>2, <3>3
  <2>6. Holders(p) = Cardinality(Requests(p)) + Cardinality(Events(p)) + Cardinality(Channels(p))
    BY HoldersAre
  <2>7. Holders(p) \in Nat
    BY <2>4, <2>6
  <2>8. Holders(p) = 0 <=> Requests(p) = {} /\ Events(p) = {} /\ Channels(p) = {}
    BY <2>4, <2>6
  <2> QED
    BY <2>5, <2>7, <2>8 DEF HeldSomewhere
<1>2. \A p : Holders(p) \in Nat /\ (Holders(p) = 0 <=> ~HeldSomewhere(p))
  BY <1>1
<1> QED
  BY <1>2, PTL

(* The steps that may forget a port.                                       *)
Forgets(p) ==
  \/ \E c \in Client : pc[c] = "applied" /\ port[c] = p /\ pc'[c] = "idle"
  \/ \E m \in Mpu : p \in QueuedOf(m) /\ status[m] # status'[m] /\ status'[m] \in {"exce", "nil"}

(* A request only lets go of its port at its end.                          *)
LEMMA RequestLetsGo ==
  ASSUME ClientTypes, [Next]_vars, NEW p, NEW c \in Client, HoldsReq(c, p), ~HoldsReq(c, p)'
  PROVE  Forgets(p)
<1>1. ASSUME NEW d \in Client, AddChnl(d) PROVE Forgets(p)
  <2>1. CASE AddRefuse(d) \/ AddReport(d)
    <3>1. /\ pc[d] = "applied" /\ pc' = [pc EXCEPT ![d] = "idle"]
          /\ port' = [port EXCEPT ![d] = NoPort]
      BY <2>1 DEF AddRefuse, AddReport, Goto, Done
    <3>2. c = d
      BY <3>1 DEF ClientTypes, HoldsReq
    <3>3. pc'[c] = "idle"
      BY <3>1, <3>2 DEF ClientTypes
    <3> QED
      BY <3>3 DEF Forgets, HoldsReq
  <2>2. CASE AddLookup(d) \/ Apply(d)
    <3>1. /\ pc[d] # "applied"
          /\ \A e \in Client \ {d} : pc'[e] = pc[e] /\ port'[e] = port[e]
      BY <2>2 DEF AddLookup, Apply, ApplyTest, ApplyReset, ApplyFetch, ApplyClaim, ApplyNext,
                  ApplyFail, Goto, Done, ClientTypes
    <3> QED
      BY <3>1 DEF HoldsReq
  <2> QED
    BY <1>1, <2>1, <2>2 DEF AddChnl
<1>2. CASE (\E m \in Mpu : Job(m)) \/ UNCHANGED vars
  <2>1. UNCHANGED clientVars
    BY <1>2 DEF Job, Create, RequestRemove, RequestEnd, HandleAdd, HandleAddAgain, HandleRemove,
                HandleStop, EventFail, StopDown, StopClear, AutoFree, AutoDestroy, vars
  <2> QED
    BY <2>1 DEF clientVars, HoldsReq
<1> QED
  BY <1>1, <1>2 DEF Next

(* Appending leaves the events that are there where they are.              *)
LEMMA AppendedEvent ==
  ASSUME JobTypes, NEW n \in Mpu, NEW e \in EventType, NEW m \in Mpu, NEW i, NEW p,
         HoldsEv(m, i, p), eventQue' = [eventQue EXCEPT ![n] = Append(@, e)]
  PROVE  HoldsEv(m, i, p)'
<1>1. CASE m = n
  <2>1. /\ Len(eventQue[m]) \in Nat /\ DOMAIN eventQue[m] = 1 .. Len(eventQue[m])
        /\ DOMAIN Append(eventQue[m], e) = 1 .. Len(eventQue[m]) + 1
        /\ \A k \in 1 .. Len(eventQue[m]) : Append(eventQue[m], e)[k] = eventQue[m][k]
    BY AppendProperties, LenProperties DEF JobTypes
  <2>2. i \in DOMAIN Append(eventQue[m], e) /\ Append(eventQue[m], e)[i].port = p
    BY <2>1 DEF HoldsEv
  <2>3. eventQue'[m] = Append(eventQue[m], e)
    BY <1>1 DEF JobTypes
  <2> QED
    BY <2>2, <2>3 DEF HoldsEv
<1>2. CASE m # n
  BY <1>2 DEF HoldsEv, JobTypes
<1> QED
  BY <1>1, <1>2

(* An event that is not the first one moves up.                            *)
LEMMA MovedEvent ==
  ASSUME JobTypes, NEW m \in Mpu, NEW type, Event(m, type), NEW p,
         NEW i \in 1 .. MaxQueue + 1, HoldsEv(m, i, p), i # 1
  PROVE  i - 1 \in 1 .. MaxQueue + 1 /\ HoldsEv(m, i - 1, p)'
<1>1. eventQue[m] \in Seq(EventType) /\ eventQue[m] # <<>> /\ eventQue'[m] = Tail(eventQue[m])
  BY DEF Event, JobTypes
<1>2. /\ Tail(eventQue[m]) \in Seq(EventType)
      /\ Len(Tail(eventQue[m])) = Len(eventQue[m]) - 1 /\ Len(eventQue[m]) \in Nat
      /\ DOMAIN eventQue[m] = 1 .. Len(eventQue[m])
      /\ DOMAIN Tail(eventQue[m]) = 1 .. Len(Tail(eventQue[m]))
      /\ \A k \in 1 .. Len(eventQue[m]) - 1 : Tail(eventQue[m])[k] = eventQue[m][k + 1]
  BY <1>1, HeadTailProperties, LenProperties
<1>3. i \in 1 .. Len(eventQue[m]) /\ eventQue[m][i].port = p
  BY <1>2 DEF HoldsEv
<1>4. i - 1 \in 1 .. MaxQueue + 1 /\ i - 1 \in 1 .. Len(eventQue[m]) - 1 /\ (i - 1) + 1 = i
  BY <1>2, <1>3, PortsAssumption
<1>5. i - 1 \in DOMAIN Tail(eventQue[m]) /\ Tail(eventQue[m])[i - 1].port = p
  BY <1>2, <1>3, <1>4
<1> QED
  BY <1>1, <1>4, <1>5 DEF HoldsEv

(* An event is only handled, or forgotten with its queue.                  *)
LEMMA EventLetsGo ==
  ASSUME ClientTypes, JobTypes, [Next]_vars, NEW p \in Port, p \in ports',
         NEW m \in Mpu, NEW i \in 1 .. MaxQueue + 1, HoldsEv(m, i, p), ~HeldSomewhere(p)'
  PROVE  Forgets(p)
<1>1. \A j \in 1 .. MaxQueue + 1 : ~HoldsEv(m, j, p)'
  BY DEF HeldSomewhere
<1>2. \A ch \in Channel : ~HoldsCh(m, ch, p)'
  BY DEF HeldSomewhere
<1>3. eventQue'[m] # eventQue[m]
  BY <1>1 DEF HoldsEv
<1>4. p \in QueuedOf(m)
  BY PortFacts DEF HoldsEv, QueuedOf
<1>5. ASSUME NEW c \in Client, AddChnl(c) PROVE FALSE
  <2>1. CASE AddReport(c)
    <3> DEFINE event == [type |-> "add", chan |-> req[c].chan, port |-> port[c]]
    <3>1. req[c].mpu \in Mpu /\ event \in EventType
      <4>1. pc[c] = "applied"
        BY <2>1 DEF AddReport, Goto
      <4> QED
        BY <4>1 DEF ClientTypes, Request, EventType
    <3>2. eventQue' = [eventQue EXCEPT ![req[c].mpu] = Append(@, event)]
      BY <1>3, <2>1 DEF AddReport
    <3> QED
      BY <1>1, <3>1, <3>2, AppendedEvent
  <2>2. CASE AddLookup(c) \/ Apply(c) \/ AddRefuse(c)
    <3>1. UNCHANGED eventQue
      BY <2>2 DEF AddLookup, Apply, ApplyTest, ApplyReset, ApplyFetch, ApplyClaim, ApplyNext,
                  ApplyFail, AddRefuse, jobVars
    <3> QED
      BY <1>3, <3>1
  <2> QED
    BY <1>5, <2>1, <2>2 DEF AddChnl
<1>6. ASSUME NEW n \in Mpu, RequestRemove(n) \/ RequestEnd(n) PROVE FALSE
  <2>1. PICK e \in EventType : eventQue' = [eventQue EXCEPT ![n] = Append(@, e)]
    <3>1. CASE RequestRemove(n)
      <4>1. PICK ch \in Channel :
              eventQue' = [eventQue EXCEPT ![n] =
                             Append(@, [type |-> "remove", chan |-> ch, port |-> NoPort])]
        BY <3>1 DEF RequestRemove
      <4>2. [type |-> "remove", chan |-> ch, port |-> NoPort] \in EventType
        BY DEF EventType
      <4> QED
        BY <4>1, <4>2
    <3>2. CASE RequestEnd(n)
      <4>1. [type |-> "stop", chan |-> None, port |-> NoPort] \in EventType
        BY DEF EventType
      <4> QED
        BY <1>3, <3>2, <4>1 DEF RequestEnd
    <3> QED
      BY <1>6, <3>1, <3>2
  <2> QED
    BY <1>1, <2>1, AppendedEvent
<1>7. ASSUME NEW n \in Mpu,
             Create(n) \/ StopDown(n) \/ StopClear(n) \/ AutoFree(n)
      PROVE  FALSE
  BY <1>3, <1>7 DEF Create, StopDown, StopClear, AutoFree, jobVars
<1>8. ASSUME NEW n \in Mpu, NEW type, Event(n, type)
      PROVE  n = m /\ i = 1 /\ Head(eventQue[m]).port = p /\ Head(eventQue[m]) \in EventType
             /\ Head(eventQue[m]).type = type
  <2>1. n = m
    BY <1>3, <1>8 DEF Event, JobTypes
  <2>2. i = 1
    BY <1>1, <1>8, <2>1, MovedEvent
  <2> QED
    BY <1>8, <2>1, <2>2, EventTaken
<1>9. ASSUME NEW n \in Mpu, HandleAdd(n) PROVE FALSE
  <2>1. /\ n = m /\ Head(eventQue[m]).port = p
        /\ Head(eventQue[m]) \in EventType /\ Head(eventQue[m]).type = "add"
    BY <1>8, <1>9 DEF HandleAdd
  <2>2. Head(eventQue[m]).chan \in Channel
    BY <2>1 DEF EventType
  <2>3. PICK k \in Channel : APCs' = [APCs EXCEPT ![m][k] = p]
    BY <1>9, <2>1, <2>2 DEF HandleAdd
  <2>4. HoldsCh(m, k, p)'
    BY <2>3 DEF JobTypes, HoldsCh
  <2> QED
    BY <1>2, <2>4
<1>10. ASSUME NEW n \in Mpu, HandleAddAgain(n) PROVE FALSE
  <2>1. n = m /\ Head(eventQue[m]).port = p
    BY <1>8, <1>10 DEF HandleAddAgain
  <2> QED
    BY <1>10, <2>1 DEF HandleAddAgain
<1>11. ASSUME NEW n \in Mpu, HandleRemove(n) \/ HandleStop(n) PROVE FALSE
  <2>1. PICK type \in {"remove", "stop"} : Event(n, type)
    BY <1>11 DEF HandleRemove, HandleStop
  <2>2. /\ Head(eventQue[m]).port = p /\ Head(eventQue[m]) \in EventType
        /\ Head(eventQue[m]).type \in {"remove", "stop"}
    BY <1>8, <2>1
  <2>3. Head(eventQue[m]).port = NoPort
    BY <2>2 DEF EventType
  <2> QED
    BY <2>2, <2>3, PortFacts
<1>12. ASSUME NEW n \in Mpu, EventFail(n) \/ AutoDestroy(n) PROVE Forgets(p)
  <2>1. n = m
    BY <1>3, <1>12 DEF EventFail, AutoDestroy, JobTypes
  <2>2. status[m] # status'[m] /\ status'[m] \in {"exce", "nil"}
    <3>1. CASE EventFail(m)
      BY <3>1 DEF EventFail, JobTypes
    <3>2. CASE AutoDestroy(m)
      <4>1. closing = m /\ m # None
        BY <3>2, PortsAssumption DEF AutoDestroy
      <4> QED
        BY <3>2, <4>1 DEF AutoDestroy, JobTypes
    <3> QED
      BY <1>12, <2>1, <3>1, <3>2
  <2> QED
    BY <1>4, <2>2 DEF Forgets
<1>13. CASE UNCHANGED vars
  BY <1>3, <1>13 DEF vars, jobVars
<1> QED
  BY <1>5, <1>6, <1>7, <1>9, <1>10, <1>11, <1>12, <1>13 DEF Next, Job

(* A channel frees its port when it goes.                                  *)
LEMMA ChannelLetsGo ==
  ASSUME JobTypes, [Next]_vars, NEW p \in Port, p \in ports',
         NEW m \in Mpu, NEW ch \in Channel, HoldsCh(m, ch, p)
  PROVE  HoldsCh(m, ch, p)'
<1>1. APCs[m][ch] = p /\ p # NoPort
  BY PortFacts DEF HoldsCh
<1>2. ASSUME NEW c \in Client, AddChnl(c) PROVE HoldsCh(m, ch, p)'
  <2>1. UNCHANGED APCs
    BY <1>2 DEF AddChnl, AddLookup, Apply, ApplyTest, ApplyReset, ApplyFetch, ApplyClaim,
                ApplyNext, ApplyFail, AddRefuse, AddReport, jobVars
  <2> QED
    BY <2>1 DEF HoldsCh
<1>3. ASSUME NEW n \in Mpu,
             Create(n) \/ RequestRemove(n) \/ RequestEnd(n) \/ HandleAddAgain(n) \/ HandleStop(n)
               \/ EventFail(n) \/ StopDown(n) \/ AutoFree(n)
      PROVE  HoldsCh(m, ch, p)'
  <2>1. UNCHANGED APCs
    BY <1>3 DEF Create, RequestRemove, RequestEnd, HandleAddAgain, HandleStop, EventFail,
                StopDown, AutoFree, jobVars
  <2> QED
    BY <2>1 DEF HoldsCh
<1>4. ASSUME NEW n \in Mpu, HandleAdd(n) PROVE HoldsCh(m, ch, p)'
  <2>1. PICK k, q : /\ APCs[n][k] = NoPort
                    /\ APCs' = [APCs EXCEPT ![n][k] = q]
    BY <1>4 DEF HandleAdd
  <2>2. ~(n = m /\ k = ch)
    BY <1>1, <2>1
  <2> QED
    BY <1>1, <2>1, <2>2 DEF HoldsCh, JobTypes
<1>5. ASSUME NEW n \in Mpu, HandleRemove(n) PROVE HoldsCh(m, ch, p)'
  <2>1. PICK k : /\ ports' = ports \ {APCs[n][k]}
                 /\ APCs' = [APCs EXCEPT ![n][k] = NoPort]
    BY <1>5 DEF HandleRemove
  <2>2. ~(n = m /\ k = ch)
    BY <1>1, <2>1
  <2> QED
    BY <1>1, <2>1, <2>2 DEF HoldsCh, JobTypes
<1>6. ASSUME NEW n \in Mpu, StopClear(n) \/ AutoDestroy(n) PROVE HoldsCh(m, ch, p)'
  <2>1. /\ ports' = ports \ PortsOf(n)
        /\ APCs' = [APCs EXCEPT ![n] = [k \in Channel |-> NoPort]]
    BY <1>6 DEF StopClear, AutoDestroy
  <2>2. p \in PortsOf(m)
    BY <1>1 DEF PortsOf
  <2>3. n # m
    BY <2>1, <2>2
  <2> QED
    BY <1>1, <2>1, <2>3 DEF HoldsCh, JobTypes
<1>7. CASE UNCHANGED vars
  BY <1>7 DEF vars, jobVars, HoldsCh
<1> QED
  BY <1>2, <1>3, <1>4, <1>5, <1>6, <1>7 DEF Next, Job

(* LetGoOnlyFrees: when the last holder of a taken port lets go of it, the *)
(* port is free again, but for the two ways the code forgets one.          *)
THEOREM LetGoOnlyFrees == Spec => PortsComeBack
<1>1. PortsInv /\ [Next]_vars =>
        \A p \in ports \cap ports' : Holders(p) > 0 /\ Holders(p)' = 0 => Forgets(p)
  <2> SUFFICES ASSUME PortsInv, [Next]_vars, NEW p \in ports, p \in ports',
                      Holders(p) > 0, Holders(p)' = 0
               PROVE  Forgets(p)
    OBVIOUS
  <2>1. p \in Port /\ ClientTypes /\ JobTypes
    BY DEF PortsInv, ToolInv
  <2>2. HeldSomewhere(p) /\ ~HeldSomewhere(p)'
    BY HoldersZero
  <2>3. ASSUME NEW c \in Client, HoldsReq(c, p) PROVE Forgets(p)
    BY <2>1, <2>2, <2>3, RequestLetsGo DEF HeldSomewhere
  <2>4. ASSUME NEW m \in Mpu, NEW i \in 1 .. MaxQueue + 1, HoldsEv(m, i, p) PROVE Forgets(p)
    BY <2>1, <2>2, <2>4, EventLetsGo
  <2>5. ASSUME NEW m \in Mpu, NEW ch \in Channel, HoldsCh(m, ch, p) PROVE FALSE
    BY <2>1, <2>2, <2>5, ChannelLetsGo DEF HeldSomewhere
  <2> QED
    BY <2>2, <2>3, <2>4, <2>5 DEF HeldSomewhere
<1> QED
  BY <1>1, PortsInvariance, PTL DEF Spec, PortsComeBack, Forgets
=============================================================================
