-------------------------- MODULE SignallingProofs --------------------------
(***************************************************************************)
(* Signalling, for any ports and bounds and any finite number of users:    *)
(* the types, among them that a user whose call is up was told a port and  *)
(* that the job is there as long as the receive thread works on an INVITE  *)
(* for it; that the channel of a user whose call is up listens, or will,   *)
(* where the user was told (SessionAgrees); that no channel is left of a   *)
(* user that has hung up (NoGhost); and that, until the first fault, the   *)
(* channels are counted right (CountAgrees).                               *)
(*                                                                         *)
(* The last three speak of what a channel will be once the queued events   *)
(* are handled. Lemmas about After say what reporting an event at the end  *)
(* of a queue and handling the one at its head make of that; ProtocolInv   *)
(* then says for each user in which phase of a call it is.                 *)
(***************************************************************************)
EXTENDS Signalling, FiniteSetTheorems, SequenceTheorems, WellFoundedInduction, TLAPS

-----------------------------------------------------------------------------
(* The inductive invariant, a part per group of variables. Beyond TypeOK   *)
(* it says that an answer to an INVITE names a port, as does the receive   *)
(* thread's local variable from addChnl to the answer.                     *)
ClientOK ==
  /\ client \in [User -> {"idle", "calling", "up", "ending"}]
  /\ calls \in [User -> Nat]
  /\ told \in [User -> Port \cup {None}]
  /\ \A u \in User : told[u] # None <=> client[u] = "up"

NetOK ==
  /\ net \subseteq Datagram
  /\ \A d \in net : d.type = "INVITE OK" => d.port \in Port

ServedBy == [at : {"recv", "add", "open", "answer", "remove"}, req : Datagram,
             port : Port \cup {None}]

JobOK == job \in 0..born /\ born \in 0..MaxJobs /\ runningChnl \in Int

ServerOK ==
  /\ srv \in ServedBy
  /\ srv.at \in {"add", "open", "answer"} => job # 0 /\ srv.req.type = "INVITE"
  /\ srv.at \in {"open", "answer"} => srv.port \in Port
  /\ srv.at = "remove" => srv.req.type = "BYE"

Chnl == [port : Port \cup {None}, mic : BOOLEAN]
QueueOK == eventQue \in [Mpu -> Seq(Event)]
ChnlOK  == APCs \in [Mpu -> [User -> Chnl]]

FaultOK == faults \in 0..MaxFault /\ upset \subseteq User /\ calm \in BOOLEAN

IInv == ClientOK /\ NetOK /\ JobOK /\ ServerOK /\ QueueOK /\ ChnlOK /\ FaultOK

(* What a step does not touch stays as it is.                              *)
LEMMA Frame ==
  ASSUME IInv
  PROVE  /\ UNCHANGED clientVars => ClientOK'
         /\ UNCHANGED net => NetOK'
         /\ UNCHANGED mcuVars => JobOK'
         /\ UNCHANGED <<srv, job>> => ServerOK'
         /\ UNCHANGED eventQue => QueueOK'
         /\ UNCHANGED APCs => ChnlOK'
         /\ UNCHANGED faultVars => FaultOK'
<1> USE DEF IInv, clientVars, mcuVars, faultVars
<1>1. UNCHANGED clientVars => ClientOK'
  BY DEF ClientOK
<1>2. UNCHANGED net => NetOK'
  BY DEF NetOK
<1>3. UNCHANGED mcuVars => JobOK'
  BY DEF JobOK
<1>4. UNCHANGED <<srv, job>> => ServerOK'
  BY DEF ServerOK
<1>5. (UNCHANGED eventQue => QueueOK') /\ (UNCHANGED APCs => ChnlOK')
  BY DEF QueueOK, ChnlOK
<1>6. UNCHANGED faultVars => FaultOK'
  BY DEF FaultOK
<1> QED
  BY <1>1, <1>2, <1>3, <1>4, <1>5, <1>6

(* Faults are counted up to their bound.                                   *)
LEMMA FaultCount ==
  ASSUME IInv, UNCHANGED faults \/ (faults < MaxFault /\ faults' = faults + 1)
  PROVE  faults' \in 0..MaxFault
BY SignallingAssumption DEF IInv, FaultOK

LEMMA IdleIs == Idle \in ServedBy /\ Idle.at = "recv"
<1>1. MESSAGE("close") \in Datagram
  BY DEF Datagram
<1> QED
  BY <1>1 DEF Idle, ServedBy

LEMMA InitOK == Init => IInv
<1> SUFFICES ASSUME Init PROVE IInv
  OBVIOUS
<1>1. ClientOK /\ NetOK /\ FaultOK
  BY SignallingAssumption DEF Init, ClientOK, NetOK, FaultOK
<1>2. JobOK /\ ServerOK
  BY IdleIs, SignallingAssumption DEF Init, JobOK, ServerOK
<1>3. NoChnl \in Chnl
  BY DEF NoChnl, Chnl
<1>4. QueueOK /\ ChnlOK
  BY <1>3 DEF Init, QueueOK, ChnlOK
<1> QED
  BY <1>1, <1>2, <1>4 DEF IInv

-----------------------------------------------------------------------------
(* Datagrams.                                                              *)

(* All but the two MESSAGEs are of a user's call.                          *)
LEMMA DatagramIs ==
  ASSUME NEW d \in Datagram, d.type \notin {"audio", "close"}
  PROVE  d.user \in User /\ d.call \in Nat
<1>1. MESSAGE("audio").type = "audio" /\ MESSAGE("close").type = "close"
  BY DEF MESSAGE, Request
<1>2. d \in [type : RequestType \cup ResponseType, user : User, call : Nat,
             port : Port \cup {None}]
  BY <1>1 DEF Datagram
<1> QED
  BY <1>2

LEMMA Requests ==
  ASSUME NEW u \in User, NEW n \in Nat, NEW type \in RequestType
  PROVE  Request(type, u, n) \in Datagram /\ Request(type, u, n).type = type
<1>1. Request(type, u, n) \in [type : RequestType \cup ResponseType, user : User, call : Nat,
                              port : Port \cup {None}]
  BY DEF Request
<1> QED
  BY <1>1 DEF Datagram, Request

LEMMA Messages ==
  ASSUME NEW type \in {"audio", "close"}
  PROVE  MESSAGE(type) \in Datagram /\ MESSAGE(type).type = type
BY DEF MESSAGE, Request, Datagram

LEMMA Responses ==
  ASSUME NEW u \in User, NEW n \in Nat, NEW type \in ResponseType, NEW p \in Port \cup {None}
  PROVE  Response(type, u, n, p) \in Datagram
<1>1. Response(type, u, n, p) \in [type : RequestType \cup ResponseType, user : User, call : Nat,
                                  port : Port \cup {None}]
  BY DEF Response
<1> QED
  BY <1>1 DEF Datagram

LEMMA PushType ==
  ASSUME IInv, job # 0, NEW type, NEW u, NEW p,
         [type |-> type, user |-> u, port |-> p] \in Event, Push(type, u, p)
  PROVE  QueueOK'
<1>1. job \in Mpu
  BY SignallingAssumption DEF IInv, JobOK, Mpu
<1>2. Append(eventQue[job], [type |-> type, user |-> u, port |-> p]) \in Seq(Event)
  BY <1>1 DEF IInv, QueueOK
<1> QED
  BY <1>1, <1>2 DEF Push, IInv, QueueOK

-----------------------------------------------------------------------------
(* The users and the network.                                              *)
LEMMA UserStep ==
  ASSUME IInv, NEW u \in User, Invite(u) \/ HangUp(u) \/ Repeat(u) \/ GiveUp(u)
  PROVE  IInv'
<1> USE DEF mcuVars, mpuVars, faultVars, clientVars
<1>1. calls[u] \in Nat /\ calls[u] + 1 \in Nat
  BY DEF IInv, ClientOK
<1>2. ASSUME NEW type \in RequestType, NEW n \in Nat, net' = net \cup {Request(type, u, n)}
      PROVE  NetOK'
  BY <1>2, Requests DEF IInv, NetOK, RequestType
<1>3. JobOK' /\ ServerOK' /\ QueueOK' /\ ChnlOK'
  BY Frame DEF Invite, HangUp, Repeat, GiveUp
<1>4. ClientOK'
  <2>1. CASE Invite(u)
    BY <2>1, <1>1 DEF Invite, IInv, ClientOK
  <2>2. CASE HangUp(u)
    BY <2>2 DEF HangUp, IInv, ClientOK
  <2>3. CASE Repeat(u)
    BY <2>3, Frame DEF Repeat
  <2>4. CASE GiveUp(u)
    BY <2>4 DEF GiveUp, IInv, ClientOK
  <2> QED
    BY <2>1, <2>2, <2>3, <2>4
<1>5. NetOK'
  <2>1. CASE Invite(u)
    BY <2>1, <1>1, <1>2 DEF Invite, RequestType
  <2>2. CASE HangUp(u)
    BY <2>2, <1>1, <1>2 DEF HangUp, RequestType
  <2>3. CASE Repeat(u)
    BY <2>3, <1>1, <1>2 DEF Repeat, RequestType
  <2>4. CASE GiveUp(u)
    BY <2>4 DEF GiveUp, IInv, NetOK
  <2> QED
    BY <2>1, <2>2, <2>3, <2>4
<1>6. FaultOK'
  <2>1. faults' \in 0..MaxFault
    BY FaultCount DEF Invite, HangUp, Repeat, GiveUp
  <2>2. upset' \subseteq User /\ calm' \in BOOLEAN
    BY DEF Invite, HangUp, Repeat, GiveUp, Upsets, IInv, FaultOK
  <2> QED
    BY <2>1, <2>2 DEF FaultOK
<1> QED
  BY <1>3, <1>4, <1>5, <1>6 DEF IInv

LEMMA NetStep ==
  ASSUME IInv,
         \/ \E u \in User, d \in net : Answered(u, d) \/ HungUp(u, d)
         \/ \E type \in {"audio", "close"} : SendMESSAGE(type)
         \/ \E d \in net : Lose(d)
  PROVE  IInv'
<1> USE DEF mcuVars, mpuVars, faultVars, clientVars
<1>1. ASSUME NEW u \in User, NEW d \in net, Answered(u, d) PROVE IInv'
  <2>1. d.port \in Port /\ d.port # None
    BY <1>1, SignallingAssumption DEF Answered, IInv, NetOK
  <2>2. ClientOK' /\ NetOK'
    BY <1>1, <2>1 DEF Answered, IInv, ClientOK, NetOK
  <2> QED
    BY <1>1, <2>2, Frame DEF Answered, IInv
<1>2. ASSUME NEW u \in User, NEW d \in net, HungUp(u, d) PROVE IInv'
  <2>1. ClientOK' /\ NetOK'
    BY <1>2 DEF HungUp, IInv, ClientOK, NetOK
  <2> QED
    BY <1>2, <2>1, Frame DEF HungUp, IInv
<1>3. ASSUME NEW type \in {"audio", "close"}, SendMESSAGE(type) PROVE IInv'
  <2>1. NetOK'
    BY <1>3, Messages DEF SendMESSAGE, IInv, NetOK
  <2> QED
    BY <1>3, <2>1, Frame DEF SendMESSAGE, IInv
<1>4. ASSUME NEW d \in net, Lose(d) PROVE IInv'
  <2>1. d.type = "INVITE OK" => d.user \in User
    BY DatagramIs DEF IInv, NetOK
  <2>2. NetOK' /\ upset' \subseteq User /\ calm' \in BOOLEAN
    BY <1>4, <2>1 DEF Lose, IInv, NetOK, FaultOK
  <2>3. faults' \in 0..MaxFault
    BY <1>4, FaultCount DEF Lose
  <2>4. FaultOK'
    BY <2>2, <2>3 DEF FaultOK
  <2> QED
    BY <1>4, <2>2, <2>4, Frame DEF Lose, IInv
<1> QED
  BY <1>1, <1>2, <1>3, <1>4

-----------------------------------------------------------------------------
(* The receive thread.                                                     *)
LEMMA ReceiveStep ==
  ASSUME IInv, ReceiveThread
  PROVE  IInv'
<1> USE DEF mcuVars, mpuVars, faultVars, clientVars
<1>1. ASSUME NEW d, Receive(d) PROVE NetOK' /\ faults' \in 0..MaxFault
  <2>1. NetOK'
    BY <1>1 DEF Receive, IInv, NetOK
  <2> QED
    BY <1>1, <2>1, FaultCount DEF Receive
<1>2. ASSUME NEW us \in SUBSET User, Upsets(us), faults' \in 0..MaxFault PROVE FaultOK'
  BY <1>2 DEF Upsets, IInv, FaultOK
<1>3. ASSUME NEW d \in net, ReceiveINVITE(d) PROVE IInv'
  <2>1. d \in Datagram /\ d.user \in User
    BY <1>3, DatagramIs DEF ReceiveINVITE, IInv, NetOK
  <2>2. srv' = [at |-> IF job = 0 THEN "recv" ELSE "add", req |-> d, port |-> None]
    BY <1>3 DEF ReceiveINVITE
  <2>3. Doubled \subseteq User
    BY <2>1, <2>2 DEF Doubled
  <2>4. NetOK' /\ FaultOK'
    BY <1>1, <1>2, <1>3, <2>3 DEF ReceiveINVITE
  <2>5. ServerOK'
    BY <1>3, <2>1, <2>2 DEF ReceiveINVITE, ServerOK, ServedBy
  <2> QED
    BY <1>3, <2>4, <2>5, Frame DEF ReceiveINVITE, IInv
<1>4. ASSUME NEW d \in net, ReceiveBYE(d) PROVE IInv'
  <2>1. d \in Datagram /\ d.user \in User /\ d.type = "BYE" /\ d.type \in RequestType
    BY <1>4, DatagramIs DEF ReceiveBYE, IInv, NetOK, RequestType
  <2>2. srv' = [at |-> "remove", req |-> d, port |-> None]
    BY <1>4 DEF ReceiveBYE
  <2>3. Doubled \subseteq User
    BY <2>1, <2>2 DEF Doubled
  <2>4. \A r \in Reply("BYE OK", d, None) : r \in Datagram /\ r.type = "BYE OK"
    <3>1. d.call \in Nat
      BY <2>1, DatagramIs
    <3>2. Response("BYE OK", d.user, d.call, None) \in Datagram
      BY <2>1, <3>1, Responses DEF ResponseType
    <3>3. \A r \in Reply("BYE OK", d, None) : r = Response("BYE OK", d.user, d.call, None)
      BY DEF Reply
    <3>4. Response("BYE OK", d.user, d.call, None).type = "BYE OK"
      BY DEF Response
    <3> QED
      BY <3>2, <3>3, <3>4
  <2>5. net' \subseteq net \cup Reply("BYE OK", d, None)
    BY <1>4 DEF ReceiveBYE
  <2>6. NetOK'
    BY <2>4, <2>5 DEF IInv, NetOK
  <2>7. faults' \in 0..MaxFault
    BY <1>4, FaultCount DEF ReceiveBYE
  <2>8. FaultOK'
    BY <1>2, <1>4, <2>3, <2>7 DEF ReceiveBYE
  <2>9. ServerOK'
    BY <2>1, <2>2 DEF ServerOK, ServedBy
  <2> QED
    BY <1>4, <2>6, <2>8, <2>9, Frame DEF ReceiveBYE, IInv
<1>5. CASE AddChnl
  <2>0. srv.req.user \in User /\ job # 0 /\ srv.req.type = "INVITE" /\ srv \in ServedBy
    BY <1>5, DatagramIs DEF AddChnl, IInv, ServerOK, ServedBy
  <2>1. ASSUME NEW p \in Port \ PortsInUse, Push("add", srv.req.user, p),
               srv' = [srv EXCEPT !.at = "open", !.port = p], runningChnl' = runningChnl + 1
        PROVE  QueueOK' /\ ServerOK' /\ JobOK'
    <3>1. [type |-> "add", user |-> srv.req.user, port |-> p] \in Event
      BY <2>0, <2>1 DEF Event
    <3>2. QueueOK'
      BY <2>0, <2>1, <3>1, PushType
    <3>3. ServerOK'
      BY <1>5, <2>0, <2>1 DEF AddChnl, ServerOK, ServedBy
    <3>4. JobOK'
      <4>1. UNCHANGED <<job, born>>
        BY <1>5 DEF AddChnl
      <4>2. runningChnl' \in Int
        BY <2>1 DEF IInv, JobOK
      <4> QED
        BY <4>1, <4>2 DEF IInv, JobOK
    <3> QED
      BY <3>2, <3>3, <3>4
  <2>2. ASSUME Goto("recv"), UNCHANGED <<eventQue, runningChnl>>
        PROVE  QueueOK' /\ ServerOK' /\ JobOK'
    <3>1. ServerOK'
      BY <2>0, <2>2 DEF Goto, ServerOK, ServedBy
    <3> QED
      BY <1>5, <2>2, <3>1, Frame DEF AddChnl
  <2>3. QueueOK' /\ ServerOK' /\ JobOK'
    BY <1>5, <2>1, <2>2 DEF AddChnl
  <2> QED
    BY <1>5, <2>3, Frame DEF AddChnl, IInv
<1>6. CASE OpenMic
  <2>1. srv.req.user \in User /\ job # 0 /\ srv \in ServedBy
    BY <1>6, DatagramIs DEF OpenMic, IInv, ServerOK, ServedBy
  <2>2. [type |-> "open", user |-> srv.req.user, port |-> None] \in Event
    BY <2>1 DEF Event
  <2>3. QueueOK'
    BY <1>6, <2>1, <2>2, PushType DEF OpenMic
  <2>4. ServerOK'
    BY <1>6, <2>1 DEF OpenMic, Goto, IInv, ServerOK, ServedBy
  <2> QED
    BY <1>6, <2>3, <2>4, Frame DEF OpenMic, IInv
<1>7. CASE AnswerINVITE
  <2>1. srv.req \in Datagram /\ srv.req.type \in RequestType /\ srv.port \in Port
    BY <1>7 DEF AnswerINVITE, IInv, ServerOK, ServedBy, RequestType
  <2>2. ASSUME NEW r \in Reply("INVITE OK", srv.req, srv.port)
        PROVE  r \in Datagram /\ r.port \in Port
    <3>1. srv.req.user \in User /\ srv.req.call \in Nat
      BY <2>1, DatagramIs DEF RequestType
    <3>2. r = Response("INVITE OK", srv.req.user, srv.req.call, srv.port)
      BY <2>2 DEF Reply
    <3>3. r \in Datagram
      BY <2>1, <3>1, <3>2, Responses DEF ResponseType
    <3> QED
      BY <2>1, <3>2, <3>3 DEF Response
  <2>3. NetOK'
    BY <1>7, <2>2 DEF AnswerINVITE, IInv, NetOK
  <2>4. ServerOK'
    BY <1>7, IdleIs DEF AnswerINVITE, ServerOK
  <2> QED
    BY <1>7, <2>3, <2>4, Frame DEF AnswerINVITE, IInv
<1>8. CASE RemoveChnl
  <2>1. ServerOK'
    BY <1>8, IdleIs DEF RemoveChnl, ServerOK
  <2>2. ASSUME job # 0, Push("remove", srv.req.user, None) PROVE QueueOK'
    <3>1. srv.req.user \in User
      BY <1>8, DatagramIs DEF RemoveChnl, IInv, ServerOK, ServedBy
    <3>2. [type |-> "remove", user |-> srv.req.user, port |-> None] \in Event
      BY <3>1 DEF Event
    <3> QED
      BY <2>2, <3>2, PushType
  <2>3. QueueOK'
    BY <1>8, <2>2, Frame DEF RemoveChnl
  <2>4. JobOK'
    BY <1>8 DEF RemoveChnl, IInv, JobOK
  <2> QED
    BY <1>8, <2>1, <2>3, <2>4, Frame DEF RemoveChnl, IInv
<1>9. CASE CreateMpu
  <2>1. NetOK' /\ FaultOK'
    BY <1>1, <1>9 DEF CreateMpu, IInv, FaultOK
  <2>2. JobOK'
    BY <1>9, SignallingAssumption DEF CreateMpu, IInv, JobOK
  <2>3. ServerOK'
    BY <1>9 DEF CreateMpu, Receive, IInv, ServerOK
  <2> QED
    BY <1>9, <2>1, <2>2, <2>3, Frame DEF CreateMpu, IInv
<1>10. CASE EndMpu
  <2>1. NetOK' /\ FaultOK'
    BY <1>1, <1>2, <1>10 DEF EndMpu, IInv, FaultOK
  <2>2. JobOK'
    BY <1>10, SignallingAssumption DEF EndMpu, IInv, JobOK
  <2>3. ServerOK'
    BY <1>10 DEF EndMpu, Receive, IInv, ServerOK
  <2>4. QueueOK'
    <3>1. [type |-> "stop", user |-> None, port |-> None] \in Event
      BY DEF Event
    <3> QED
      BY <1>10, <3>1, PushType, Frame DEF EndMpu
  <2> QED
    BY <1>10, <2>1, <2>2, <2>3, <2>4, Frame DEF EndMpu, IInv
<1> QED
  BY <1>3, <1>4, <1>5, <1>6, <1>7, <1>8, <1>9, <1>10 DEF ReceiveThread

-----------------------------------------------------------------------------
(* The event threads.                                                      *)
LEMMA EventStep ==
  ASSUME IInv, NEW m \in Mpu, EventThread(m)
  PROVE  IInv'
<1> USE DEF mcuVars, mpuVars, faultVars, clientVars
<1>1. NoChnl \in Chnl
  BY DEF NoChnl, Chnl
<1>2. ASSUME NEW type, NEW u, Handles(m, type, u), ChnlOK' PROVE IInv'
  <2>1. Tail(eventQue[m]) \in Seq(Event)
    BY <1>2 DEF Handles, IInv, QueueOK
  <2>2. QueueOK'
    BY <1>2, <2>1 DEF Handles, IInv, QueueOK
  <2> QED
    BY <1>2, <2>2, Frame DEF Handles, IInv
<1>3. ASSUME NEW u \in User, HandleAdd(m, u) PROVE ChnlOK'
  <2>1. Head(eventQue[m]) \in Event
    BY <1>3 DEF HandleAdd, Handles, IInv, QueueOK
  <2>2. Head(eventQue[m]).port \in Port \cup {None}
    BY <2>1 DEF Event
  <2>3. [port |-> Head(eventQue[m]).port, mic |-> FALSE] \in Chnl
    BY <2>2 DEF Chnl
  <2> QED
    BY <1>3, <2>3 DEF HandleAdd, IInv, ChnlOK
<1>4. ASSUME NEW u \in User, HandleOpen(m, u) PROVE ChnlOK'
  <2>1. APCs[m][u] \in Chnl
    BY DEF IInv, ChnlOK
  <2>2. [APCs[m][u] EXCEPT !.mic = TRUE] \in Chnl
    BY <2>1 DEF Chnl
  <2>3. CASE APCs[m][u] = NoChnl
    BY <1>4, <2>3, Frame DEF HandleOpen
  <2>4. CASE APCs[m][u] # NoChnl
    <3>1. APCs' = [APCs EXCEPT ![m] = [APCs[m] EXCEPT ![u] = [APCs[m][u] EXCEPT !.mic = TRUE]]]
      BY <1>4, <2>4 DEF HandleOpen
    <3>2. [APCs[m] EXCEPT ![u] = [APCs[m][u] EXCEPT !.mic = TRUE]] \in [User -> Chnl]
      BY <2>2 DEF IInv, ChnlOK
    <3> QED
      BY <3>1, <3>2 DEF IInv, ChnlOK
  <2> QED
    BY <2>3, <2>4
<1>5. ASSUME NEW u \in User, HandleRemove(m, u) PROVE ChnlOK'
  BY <1>1, <1>5 DEF HandleRemove, IInv, ChnlOK
<1>6. ASSUME HandleStop(m) PROVE ChnlOK'
  BY <1>1, <1>6 DEF HandleStop, IInv, ChnlOK
<1> QED
  BY <1>2, <1>3, <1>4, <1>5, <1>6 DEF EventThread, HandleAdd, HandleOpen, HandleRemove, HandleStop

-----------------------------------------------------------------------------
LEMMA TypeStep == IInv /\ [Next]_vars => IInv'
<1> SUFFICES ASSUME IInv, [Next]_vars PROVE IInv'
  OBVIOUS
<1>1. CASE Next
  BY <1>1, UserStep, NetStep, ReceiveStep, EventStep DEF Next
<1>2. CASE UNCHANGED vars
  BY <1>2, Frame DEF vars, mcuVars, mpuVars, IInv
<1> QED
  BY <1>1, <1>2

(* TypeOK holds in every behaviour: with it, a user whose call is up was   *)
(* told a port and the job does not go while an INVITE for it is served    *)
(* (handleINVITE).                                                         *)
THEOREM TypeCorrect == Spec => []TypeOK
<1>1. IInv => TypeOK
  BY DEF IInv, ClientOK, NetOK, JobOK, ServerOK, ServedBy, QueueOK, ChnlOK, Chnl, FaultOK, TypeOK
<1> QED
  BY InitOK, TypeStep, <1>1, PTL DEF Spec

-----------------------------------------------------------------------------
(***************************************************************************)
(* What handling events leaves of a channel. After is a recursive function *)
(* on the places of a queue; the lemmas take its definition apart at the   *)
(* end of the queue, where events are reported, and at its head, where     *)
(* they are handled.                                                       *)
(***************************************************************************)

(* A set of naturals that is not empty has a least element.                *)
LEMMA LeastIs ==
  ASSUME NEW S, S \subseteq Nat, S # {}
  PROVE  \E n \in S : \A k \in S : n <= k
<1> DEFINE R == {ss \in Nat \X Nat : ss[1] < ss[2]}
<1>1. IsWellFoundedOn(R, Nat)
  BY NatLessThanWellFounded, Zenon DEF OpToRel
<1>2. PICK x \in S : \A y \in S : ~(<<y, x>> \in R)
  <2> HIDE DEF R
  <2> QED
    BY <1>1, WFMin, Zenon
<1>3. ASSUME NEW y \in S PROVE x <= y
  <2>1. x \in Nat /\ y \in Nat /\ ~(<<y, x>> \in R)
    BY <1>2
  <2>2. \A a, b \in Nat : a < b => <<a, b>> \in R
    OBVIOUS
  <2> QED
    BY <2>1, <2>2
<1> QED
  BY <1>3

(* One step of the recursion, and its solutions on the first n events.     *)
StepOf(events, u, chnl, f, i) ==
  IF i = 0 THEN chnl ELSE Effect(events[i], u, f[i - 1])

Solves(events, u, chnl, n, f) == f = [i \in 0 .. n |-> StepOf(events, u, chnl, f, i)]

LEMMA SolutionExists ==
  ASSUME NEW events, NEW u, NEW chnl
  PROVE  \A n \in Nat : \E f : Solves(events, u, chnl, n, f)
<1> DEFINE S(f, i) == StepOf(events, u, chnl, f, i)
           Bad == {n \in Nat : ~\E f : f = [i \in 0 .. n |-> S(f, i)]}
<1> SUFFICES ASSUME Bad # {} PROVE FALSE
  BY DEF Solves
<1>1. PICK n : n \in Bad /\ \A k \in Bad : n <= k
  <2>1. Bad \subseteq Nat
    OBVIOUS
  <2> HIDE DEF Bad
  <2> QED
    BY <2>1, LeastIs
<1>2. n \in Nat /\ ~\E f : f = [i \in 0 .. n |-> S(f, i)]
  BY <1>1
<1>3. CASE n = 0
  <2>1. PICK f : f = [i \in 0 .. 0 |-> chnl]
    OBVIOUS
  <2>2. \A i \in 0 .. 0 : S(f, i) = chnl
    BY DEF StepOf
  <2>3. f = [i \in 0 .. 0 |-> S(f, i)]
    <3> HIDE DEF S
    <3> QED
      BY <2>1, <2>2
  <2> QED
    BY <1>2, <1>3, <2>3
<1>4. CASE n # 0
  <2>1. n - 1 \in Nat /\ n - 1 \notin Bad
    <3>1. n - 1 \in Nat /\ ~(n <= n - 1)
      BY <1>2, <1>4
    <3> HIDE DEF Bad
    <3> QED
      BY <1>1, <3>1
  <2>2. PICK g : g = [i \in 0 .. n - 1 |-> S(g, i)]
    BY <2>1
  <2>3. PICK f : f = [i \in 0 .. n |-> IF i = n THEN S(g, n) ELSE g[i]]
    OBVIOUS
  <2>4. \A i \in 0 .. n : i # n => i \in 0 .. n - 1 /\ f[i] = g[i]
    BY <1>2, <2>3
  <2>5. \A i \in 0 .. n : i # 0 => f[i - 1] = g[i - 1]
    <3>1. \A i \in 0 .. n : i # 0 => i - 1 \in 0 .. n /\ i - 1 # n
      BY <1>2
    <3> QED
      BY <2>4, <3>1
  <2>6. \A i \in 0 .. n : S(f, i) = S(g, i)
    BY <2>5 DEF StepOf
  <2>7. ASSUME NEW i \in 0 .. n PROVE f[i] = S(g, i)
    <3> HIDE DEF S
    <3>1. CASE i = n
      BY <2>3, <3>1
    <3>2. CASE i # n
      BY <2>2, <2>4, <3>2
    <3> QED
      BY <3>1, <3>2
  <2>8. f = [i \in 0 .. n |-> S(f, i)]
    <3> HIDE DEF S
    <3> QED
      BY <2>3, <2>6, <2>7
  <2> QED
    BY <1>2, <2>8
<1> QED
  BY <1>3, <1>4

(* f[i] is what the first i events leave.                                  *)
LeavesIs(f, events, u, chnl) ==
  /\ f[0] = chnl
  /\ \A i \in 1 .. Len(events) : f[i] = Effect(events[i], u, f[i - 1])

LEMMA AfterIs ==
  ASSUME NEW events \in Seq(Event), NEW u, NEW chnl
  PROVE  \E f : LeavesIs(f, events, u, chnl) /\ After(events, u, chnl) = f[Len(events)]
<1> DEFINE n == Len(events)
           F(g) == [i \in 0 .. n |-> IF i = 0 THEN chnl ELSE Effect(events[i], u, g[i - 1])]
           f == CHOOSE g : g = F(g)
<1>0. n \in Nat
  OBVIOUS
<1>1. After(events, u, chnl) = f[n]
  BY DEF After
<1>2. \A g : [i \in 0 .. n |-> StepOf(events, u, chnl, g, i)] = F(g)
  BY DEF StepOf
<1>3. \E g : g = F(g)
  <2>1. PICK g : Solves(events, u, chnl, n, g)
    <3> HIDE DEF n
    <3> QED
      BY <1>0, SolutionExists, Zenon
  <2>2. g = F(g)
    <3> HIDE DEF F, n
    <3> QED
      BY <1>2, <2>1 DEF Solves
  <2> QED
    BY <2>2
<1>4. f = F(f)
  <2> HIDE DEF F
  <2> QED
    BY <1>3
<1>5. LeavesIs(f, events, u, chnl)
  <2> HIDE DEF f
  <2>1. \A i \in 0 .. n : f[i] = IF i = 0 THEN chnl ELSE Effect(events[i], u, f[i - 1])
    <3>1. \A i \in 0 .. n : F(f)[i] = IF i = 0 THEN chnl ELSE Effect(events[i], u, f[i - 1])
      OBVIOUS
    <3> HIDE DEF F
    <3> QED
      BY <1>4, <3>1
  <2>2. 0 \in 0 .. n /\ \A i \in 1 .. n : i \in 0 .. n /\ i # 0
    BY <1>0
  <2> QED
    BY <2>1, <2>2 DEF LeavesIs
<1> HIDE DEF f
<1> QED
  BY <1>1, <1>5

(* The events q are those of r from the place k on, and g goes with them.  *)
Follows(q, r, k, u, g) ==
  \A i \in 1 .. Len(q) : r[k + i] = q[i] /\ g[k + i] = Effect(r[k + i], u, g[k + i - 1])

Agree(f, g, k, n) == \A i \in 0 .. n : g[k + i] = f[i]

(* The same events, k places further on and from what the k before them    *)
(* left, leave the same.                                                   *)
LEMMA SameEvents ==
  ASSUME NEW q \in Seq(Event), NEW r, NEW k \in Nat, NEW u, NEW f, NEW g,
         LeavesIs(f, q, u, g[k]), Follows(q, r, k, u, g)
  PROVE  Agree(f, g, k, Len(q))
<1> DEFINE Bad == {i \in 0 .. Len(q) : g[k + i] # f[i]}
<1> SUFFICES ASSUME Bad # {} PROVE FALSE
  BY DEF Agree
<1>1. PICK n : n \in Bad /\ \A i \in Bad : n <= i
  <2>1. Bad \subseteq Nat
    OBVIOUS
  <2> HIDE DEF Bad
  <2> QED
    BY <2>1, LeastIs
<1>2. n \in 0 .. Len(q) /\ g[k + n] # f[n] /\ Len(q) \in Nat
  BY <1>1
<1>3. CASE n = 0
  <2>1. k + 0 = k
    OBVIOUS
  <2> QED
    BY <1>2, <1>3, <2>1 DEF LeavesIs
<1>4. CASE n # 0
  <2>1. n \in 1 .. Len(q) /\ n - 1 \in 0 .. Len(q) /\ ~(n <= n - 1) /\ k + n - 1 = k + (n - 1)
    BY <1>2, <1>4
  <2>2. g[k + (n - 1)] = f[n - 1]
    BY <1>1, <2>1
  <2>3. f[n] = Effect(q[n], u, f[n - 1])
    BY <2>1 DEF LeavesIs
  <2>4. g[k + n] = Effect(q[n], u, g[k + (n - 1)])
    BY <2>1 DEF Follows
  <2> QED
    BY <1>2, <2>2, <2>3, <2>4
<1> QED
  BY <1>3, <1>4

LEMMA AfterNone == \A u, chnl : After(<<>>, u, chnl) = chnl
<1> SUFFICES ASSUME NEW u, NEW chnl PROVE After(<<>>, u, chnl) = chnl
  OBVIOUS
<1>1. <<>> \in Seq(Event) /\ Len(<<>>) = 0
  OBVIOUS
<1>2. PICK f : LeavesIs(f, <<>>, u, chnl) /\ After(<<>>, u, chnl) = f[Len(<<>>)]
  BY <1>1, AfterIs
<1> QED
  BY <1>1, <1>2 DEF LeavesIs

(* The last event to be reported takes effect last ...                     *)
LEMMA AfterAppend ==
  ASSUME NEW q \in Seq(Event), NEW e \in Event, NEW u, NEW chnl
  PROVE  After(Append(q, e), u, chnl) = Effect(e, u, After(q, u, chnl))
<1> DEFINE r == Append(q, e)
<1>1. /\ r \in Seq(Event) /\ Len(q) \in Nat /\ Len(r) = Len(q) + 1 /\ r[Len(q) + 1] = e
      /\ \A i \in 1 .. Len(q) : r[i] = q[i]
  OBVIOUS
<1> HIDE DEF r
<1>2. PICK f : LeavesIs(f, q, u, chnl) /\ After(q, u, chnl) = f[Len(q)]
  BY AfterIs
<1>3. PICK g : LeavesIs(g, r, u, chnl) /\ After(r, u, chnl) = g[Len(r)]
  BY <1>1, AfterIs
<1>4. \A i \in 1 .. Len(q) : 0 + i = i /\ 0 + i - 1 = i - 1 /\ i \in 1 .. Len(r)
  BY <1>1
<1>5. Follows(q, r, 0, u, g) /\ g[0] = chnl
  BY <1>1, <1>3, <1>4 DEF LeavesIs, Follows
<1>6. Agree(f, g, 0, Len(q))
  <2>1. 0 \in Nat
    OBVIOUS
  <2>2. LeavesIs(f, q, u, g[0])
    BY <1>2, <1>5
  <2> QED
    BY <1>5, <2>1, <2>2, SameEvents, Zenon
<1>7. g[Len(q)] = f[Len(q)]
  <2>1. Len(q) \in 0 .. Len(q) /\ 0 + Len(q) = Len(q)
    BY <1>1
  <2> QED
    BY <1>6, <2>1 DEF Agree
<1>8. Len(r) \in 1 .. Len(r) /\ Len(r) - 1 = Len(q)
  BY <1>1
<1>9. g[Len(r)] = Effect(e, u, g[Len(q)])
  BY <1>1, <1>3, <1>8 DEF LeavesIs
<1> QED
  BY <1>2, <1>3, <1>7, <1>9 DEF r

(* ... and the first one to be handled has taken effect before the rest.   *)
LEMMA AfterHead ==
  ASSUME NEW r \in Seq(Event), r # <<>>, NEW u, NEW chnl
  PROVE  After(r, u, chnl) = After(Tail(r), u, Effect(Head(r), u, chnl))
<1> DEFINE q == Tail(r)  left == Effect(Head(r), u, chnl)
<1>1. /\ q \in Seq(Event) /\ Len(q) \in Nat /\ Len(r) = 1 + Len(q) /\ Head(r) = r[1]
      /\ \A i \in 1 .. Len(q) : r[1 + i] = q[i]
  OBVIOUS
<1> HIDE DEF q
<1>2. PICK f : LeavesIs(f, q, u, left) /\ After(q, u, left) = f[Len(q)]
  <2> HIDE DEF left
  <2> QED
    BY <1>1, AfterIs
<1>3. PICK g : LeavesIs(g, r, u, chnl) /\ After(r, u, chnl) = g[Len(r)]
  BY AfterIs
<1>4. g[1] = left
  <2>1. 1 \in 1 .. Len(r) /\ 1 - 1 = 0
    BY <1>1
  <2> QED
    BY <1>1, <1>3, <2>1 DEF LeavesIs
<1> HIDE DEF left
<1>5. \A i \in 1 .. Len(q) : 1 + i \in 1 .. Len(r)
  BY <1>1
<1>6. Follows(q, r, 1, u, g)
  BY <1>1, <1>3, <1>5 DEF LeavesIs, Follows
<1>7. Agree(f, g, 1, Len(q))
  <2>1. 1 \in Nat
    OBVIOUS
  <2>2. LeavesIs(f, q, u, g[1])
    BY <1>2, <1>4
  <2> QED
    BY <1>1, <1>6, <2>1, <2>2, SameEvents, Zenon
<1>8. Len(q) \in 0 .. Len(q)
  BY <1>1
<1> QED
  BY <1>1, <1>2, <1>3, <1>7, <1>8 DEF Agree, q, left

-----------------------------------------------------------------------------
(* What the steps make of the channel that a user has, or will have.       *)
LEMMA AddEffect ==
  ASSUME NEW u \in User, NEW p
  PROVE  Effect([type |-> "add", user |-> u, port |-> p], u, NoChnl) = [port |-> p, mic |-> FALSE]
BY SignallingAssumption DEF Effect

LEMMA OpenEffect ==
  ASSUME NEW u \in User, NEW p, NEW c, c # NoChnl
  PROVE  Effect([type |-> "open", user |-> u, port |-> p], u, c) = [c EXCEPT !.mic = TRUE]
BY SignallingAssumption DEF Effect

LEMMA Opened ==
  ASSUME NEW p \in Port
  PROVE  [[port |-> p, mic |-> FALSE] EXCEPT !.mic = TRUE] = [port |-> p, mic |-> TRUE]
<1> DEFINE c == [port |-> p, mic |-> FALSE]  d == [c EXCEPT !.mic = TRUE]
<1>1. c \in Chnl /\ c.port = p
  BY DEF Chnl
<1> HIDE DEF c
<1>2. d \in Chnl /\ d.mic = TRUE /\ d.port = p
  BY <1>1 DEF Chnl
<1> HIDE DEF d
<1>3. d = [port |-> d.port, mic |-> d.mic]
  BY <1>2 DEF Chnl
<1>4. d = [port |-> p, mic |-> TRUE]
  BY <1>2, <1>3
<1> QED
  BY <1>4, Zenon DEF d, c

LEMMA RemoveEffect ==
  ASSUME NEW u \in User, NEW p, NEW c
  PROVE  Effect([type |-> "remove", user |-> u, port |-> p], u, c) = NoChnl
BY SignallingAssumption DEF Effect

LEMMA NoEffect ==
  ASSUME NEW u \in User, NEW v \in User, v # u, NEW type, NEW p, NEW c
  PROVE  Effect([type |-> type, user |-> v, port |-> p], u, c) = c
BY SignallingAssumption DEF Effect

LEMMA ChnlKept ==
  ASSUME UNCHANGED <<job, eventQue, APCs>>
  PROVE  \A u \in User : ChnlOf(u)' = ChnlOf(u)
BY DEF ChnlOf, Becomes

LEMMA ChnlPushed ==
  ASSUME IInv, job # 0, NEW type, NEW v, NEW p,
         [type |-> type, user |-> v, port |-> p] \in Event,
         Push(type, v, p), UNCHANGED <<job, APCs>>
  PROVE  \A u \in User :
           ChnlOf(u)' = Effect([type |-> type, user |-> v, port |-> p], u, ChnlOf(u))
<1> DEFINE e == [type |-> type, user |-> v, port |-> p]
<1> SUFFICES ASSUME NEW u \in User PROVE ChnlOf(u)' = Effect(e, u, ChnlOf(u))
  OBVIOUS
<1>1. job \in Mpu /\ eventQue[job] \in Seq(Event)
  BY SignallingAssumption DEF IInv, JobOK, QueueOK, Mpu
<1>2. eventQue'[job] = Append(eventQue[job], e)
  BY <1>1 DEF Push, IInv, QueueOK
<1>3. After(Append(eventQue[job], e), u, APCs[job][u])
        = Effect(e, u, After(eventQue[job], u, APCs[job][u]))
  BY <1>1, AfterAppend
<1> HIDE DEF e
<1> QED
  BY <1>2, <1>3 DEF ChnlOf, Becomes

LEMMA ChnlHandled ==
  ASSUME IInv, NEW m \in Mpu, EventThread(m)
  PROVE  \A u \in User : ChnlOf(u)' = ChnlOf(u)
<1> SUFFICES ASSUME NEW u \in User PROVE Becomes(job, u)' = Becomes(job, u) \/ job = 0
  BY DEF ChnlOf, EventThread, HandleStop, HandleAdd, HandleOpen, HandleRemove, Handles, mcuVars
<1> SUFFICES ASSUME job # 0 PROVE Becomes(job, u)' = Becomes(job, u)
  OBVIOUS
<1>0. /\ job' = job /\ job \in Mpu
      /\ eventQue[m] # <<>> /\ eventQue[m] \in Seq(Event)
      /\ eventQue' = [eventQue EXCEPT ![m] = Tail(@)]
  BY SignallingAssumption
  DEF EventThread, HandleStop, HandleAdd, HandleOpen, HandleRemove, Handles, mcuVars,
      IInv, JobOK, QueueOK, Mpu
<1> DEFINE e == Head(eventQue[m])
<1>1. e \in Event
  BY <1>0
<1>2. /\ APCs \in [Mpu -> [User -> Chnl]] /\ None \notin User
      /\ e.type = "stop" <=> e.user = None
  BY <1>1, SignallingAssumption DEF IInv, ChnlOK, Event
<1>3. APCs'[m][u] = Effect(e, u, APCs[m][u])
  <2> HIDE DEF e
  <2>1. CASE HandleStop(m)
    <3>1. e.type = "stop" /\ e.user = None
      BY <2>1 DEF HandleStop, Handles, e
    <3>2. APCs'[m][u] = NoChnl
      BY <2>1, <1>2 DEF HandleStop
    <3> QED
      BY <3>1, <3>2 DEF Effect
  <2>2. ASSUME NEW v \in User, v # u, HandleAdd(m, v) \/ HandleOpen(m, v) \/ HandleRemove(m, v)
        PROVE  APCs'[m][u] = Effect(e, u, APCs[m][u])
    <3>1. e.user = v
      BY <2>2 DEF HandleAdd, HandleOpen, HandleRemove, Handles, e
    <3>2. APCs'[m][u] = APCs[m][u]
      BY <2>2, <1>2 DEF HandleAdd, HandleOpen, HandleRemove
    <3> QED
      BY <2>2, <3>1, <3>2, <1>2 DEF Effect
  <2>3. CASE HandleAdd(m, u)
    <3>1. e.type = "add" /\ e.user = u
      BY <2>3 DEF HandleAdd, Handles, e
    <3>2. APCs'[m][u] = IF APCs[m][u] = NoChnl THEN [port |-> e.port, mic |-> FALSE] ELSE APCs[m][u]
      BY <2>3, <1>2 DEF HandleAdd, e
    <3> QED
      BY <3>1, <3>2 DEF Effect
  <2>4. CASE HandleOpen(m, u)
    <3>1. e.type = "open" /\ e.user = u
      BY <2>4 DEF HandleOpen, Handles, e
    <3>2. APCs'[m][u] = IF APCs[m][u] = NoChnl THEN APCs[m][u] ELSE [APCs[m][u] EXCEPT !.mic = TRUE]
      BY <2>4, <1>2 DEF HandleOpen
    <3> QED
      BY <3>1, <3>2 DEF Effect
  <2>5. CASE HandleRemove(m, u)
    <3>1. e.type = "remove" /\ e.user = u
      BY <2>5 DEF HandleRemove, Handles, e
    <3>2. APCs'[m][u] = NoChnl
      BY <2>5, <1>2 DEF HandleRemove
    <3> QED
      BY <3>1, <3>2 DEF Effect
  <2> QED
    BY <2>1, <2>2, <2>3, <2>4, <2>5 DEF EventThread
<1>4. After(eventQue[m], u, APCs[m][u]) = After(Tail(eventQue[m]), u, Effect(e, u, APCs[m][u]))
  BY <1>0, AfterHead
<1>5. CASE m = job
  <2>1. eventQue'[m] = Tail(eventQue[m])
    BY <1>0 DEF IInv, QueueOK
  <2> HIDE DEF e
  <2> QED
    BY <1>0, <1>3, <1>4, <1>5, <2>1 DEF Becomes
<1>6. CASE m # job
  <2>1. eventQue'[job] = eventQue[job]
    BY <1>0, <1>6 DEF IInv, QueueOK
  <2>2. APCs'[job] = APCs[job]
    BY <1>0, <1>2, <1>6 DEF EventThread, HandleStop, HandleAdd, HandleOpen, HandleRemove
  <2> QED
    BY <1>0, <2>1, <2>2 DEF Becomes
<1> QED
  BY <1>5, <1>6

(* An MPU that has not been created has no events and no channels.         *)
NewInv ==
  \A m \in Mpu : m > born => eventQue[m] = <<>> /\ APCs[m] = [u \in User |-> NoChnl]

LEMMA ChnlCreated ==
  ASSUME IInv, NewInv, CreateMpu
  PROVE  \A u \in User : ChnlOf(u)' = ChnlOf(u)
<1>1. UNCHANGED <<eventQue, APCs>> /\ born \in 0 .. MaxJobs /\ MaxJobs \in Nat
  BY SignallingAssumption DEF CreateMpu, mpuVars, IInv, JobOK
<1>2. CASE job = 0 /\ born < MaxJobs
  <2>1. job' = born + 1 /\ job' # 0 /\ job' \in Mpu /\ job' > born
    BY <1>1, <1>2 DEF CreateMpu, Mpu
  <2>2. eventQue'[job'] = <<>> /\ \A u \in User : APCs'[job'][u] = NoChnl
    BY <1>1, <2>1 DEF NewInv
  <2>3. \A u \in User : After(eventQue'[job'], u, APCs'[job'][u]) = NoChnl
    BY <2>2, AfterNone
  <2>4. \A u \in User : ChnlOf(u) = NoChnl /\ ChnlOf(u)' = After(eventQue'[job'], u, APCs'[job'][u])
    BY <1>2, <2>1 DEF ChnlOf, Becomes
  <2> QED
    BY <2>3, <2>4
<1>3. CASE ~(job = 0 /\ born < MaxJobs)
  BY <1>1, <1>3, ChnlKept DEF CreateMpu
<1> QED
  BY <1>2, <1>3

LEMMA NewStep == IInv /\ NewInv /\ [Next]_vars => NewInv'
<1> SUFFICES ASSUME IInv, NewInv, [Next]_vars PROVE NewInv'
  OBVIOUS
<1> USE DEF mcuVars, mpuVars, clientVars, faultVars
<1>0. /\ born \in 0 .. MaxJobs /\ MaxJobs \in Nat /\ job \in 0 .. born
      /\ eventQue \in [Mpu -> Seq(Event)] /\ APCs \in [Mpu -> [User -> Chnl]]
  BY SignallingAssumption DEF IInv, JobOK, QueueOK, ChnlOK
<1>1. ASSUME UNCHANGED mpuVars, born' \in Nat, born' >= born PROVE NewInv'
  BY <1>0, <1>1 DEF NewInv, Mpu
<1>2. ASSUME NEW type, NEW v, NEW p, Push(type, v, p), UNCHANGED <<born, APCs>>, job # 0
      PROVE  NewInv'
  <2>1. \A m \in Mpu : m > born => m # job
    BY <1>0 DEF Mpu
  <2>2. \A m \in Mpu : m # job => eventQue'[m] = eventQue[m]
    BY <1>0, <1>2 DEF Push
  <2> QED
    BY <1>2, <2>1, <2>2 DEF NewInv
<1>3. ASSUME NEW m \in Mpu, EventThread(m) PROVE NewInv'
  <2>1. born' = born /\ eventQue[m] # <<>> /\ eventQue' = [eventQue EXCEPT ![m] = Tail(@)]
    BY <1>3 DEF EventThread, HandleStop, HandleAdd, HandleOpen, HandleRemove, Handles
  <2>2. \A n \in Mpu : n > born => n # m
    BY <2>1 DEF NewInv
  <2>3. \A n \in Mpu : n # m => eventQue'[n] = eventQue[n]
    BY <1>0, <2>1
  <2>4. \A n \in Mpu : n # m => APCs'[n] = APCs[n]
    BY <1>0, <1>3 DEF EventThread, HandleStop, HandleAdd, HandleOpen, HandleRemove
  <2> QED
    BY <2>1, <2>2, <2>3, <2>4 DEF NewInv
<1>4. CASE ReceiveThread
  <2>1. ASSUME NEW d \in net, ReceiveINVITE(d) \/ ReceiveBYE(d) PROVE NewInv'
    <3>1. UNCHANGED mpuVars /\ born' = born
      BY <2>1 DEF ReceiveINVITE, ReceiveBYE
    <3> QED
      BY <1>0, <1>1, <3>1
  <2>2. CASE AddChnl
    <3>1. job # 0
      BY <2>2 DEF AddChnl, IInv, ServerOK
    <3> QED
      <4>1. ASSUME NEW p \in Port \ PortsInUse, Push("add", srv.req.user, p) PROVE NewInv'
        BY <1>2, <2>2, <3>1, <4>1 DEF AddChnl
      <4>2. CASE UNCHANGED <<eventQue, runningChnl>>
        <5>1. UNCHANGED mpuVars /\ born' = born
          BY <2>2, <4>2 DEF AddChnl
        <5> QED
          BY <1>0, <1>1, <5>1
      <4> QED
        BY <2>2, <4>1, <4>2 DEF AddChnl
  <2>3. CASE OpenMic
    <3>1. job # 0
      BY <2>3 DEF OpenMic, IInv, ServerOK
    <3> QED
      BY <1>2, <2>3, <3>1 DEF OpenMic
  <2>4. CASE AnswerINVITE
    <3>1. UNCHANGED mpuVars /\ born' = born
      BY <2>4 DEF AnswerINVITE
    <3> QED
      BY <1>0, <1>1, <3>1
  <2>5. CASE RemoveChnl
    BY <1>0, <1>1, <1>2, <2>5 DEF RemoveChnl
  <2>6. CASE CreateMpu
    <3>1. born' = born \/ born' = born + 1
      BY <2>6 DEF CreateMpu
    <3> QED
      BY <1>0, <1>1, <2>6, <3>1 DEF CreateMpu
  <2>7. CASE EndMpu
    BY <1>0, <1>1, <1>2, <2>7 DEF EndMpu
  <2> QED
    BY <1>4, <2>1, <2>2, <2>3, <2>4, <2>5, <2>6, <2>7 DEF ReceiveThread
<1>5. ASSUME NEW u \in User, Invite(u) \/ HangUp(u) \/ Repeat(u) \/ GiveUp(u) PROVE NewInv'
  BY <1>0, <1>1, <1>5 DEF Invite, HangUp, Repeat, GiveUp
<1>6. ASSUME NEW u \in User, NEW d \in net, Answered(u, d) \/ HungUp(u, d) PROVE NewInv'
  <2>1. UNCHANGED mpuVars /\ born' = born
    BY <1>6 DEF Answered, HungUp
  <2> QED
    BY <1>0, <1>1, <2>1
<1>7. ASSUME NEW type \in {"audio", "close"}, SendMESSAGE(type) PROVE NewInv'
  BY <1>0, <1>1, <1>7 DEF SendMESSAGE
<1>8. ASSUME NEW d \in net, Lose(d) PROVE NewInv'
  <2>1. UNCHANGED mpuVars /\ born' = born
    BY <1>8 DEF Lose
  <2> QED
    BY <1>0, <1>1, <2>1
<1>9. CASE UNCHANGED vars
  BY <1>0, <1>1, <1>9 DEF vars
<1> QED
  BY <1>3, <1>4, <1>5, <1>6, <1>7, <1>8, <1>9 DEF Next

-----------------------------------------------------------------------------
(***************************************************************************)
(* The protocol, one user at a time: what the user is doing, what of it is *)
(* under way, where the receive thread is with a request of it, and what   *)
(* its channel will be, for a user that met no fault since its last clean  *)
(* call. A datagram of an earlier call is not under way, and there is one  *)
(* datagram at most; but a user may call again while the receive thread is *)
(* still removing its last channel.                                        *)
(***************************************************************************)
At(u) == IF Served(u) THEN srv.at ELSE "recv"

Phase(cl, n, to, mine, at, call, p, chnl) ==
  /\ \A d, e \in mine : d = e
  /\ \A d \in mine : d.call = n
  /\ cl = "idle" => mine = {} /\ at \in {"recv", "remove"} /\ (at = "recv" => chnl = NoChnl)
  /\ cl = "up" => mine = {} /\ at = "recv" /\ chnl = [port |-> to, mic |-> TRUE]
  /\ cl = "ending" =>
       /\ at \in {"recv", "remove"}
       /\ \A d \in mine : d.type = "BYE OK" \/ (d.type = "BYE" /\ at = "recv")
       /\ \A d \in mine : at = "recv" /\ d.type = "BYE OK" => chnl = NoChnl
  /\ cl = "calling" =>
       /\ at \in {"add", "open", "answer"} => mine = {} /\ call = n
       /\ \A d \in mine : \/ d.type = "INVITE"
                          \/ /\ d.type = "INVITE OK" /\ at = "recv"
                             /\ chnl = [port |-> d.port, mic |-> TRUE]
       /\ at = "recv" /\ (\A d \in mine : d.type = "INVITE") => chnl = NoChnl
       /\ at = "add" => chnl = NoChnl
       /\ at = "open" => chnl = [port |-> p, mic |-> FALSE]
       /\ at = "answer" => chnl = [port |-> p, mic |-> TRUE]

(* As long as it is calm, what is removed is a channel, and a channel that *)
(* is to be removed is there.                                              *)
Counts(cl, mine, at, chnl) ==
  /\ at = "remove" => chnl # NoChnl
  /\ cl = "ending" /\ at = "remove" => mine # {}
  /\ cl = "ending" /\ at = "recv" /\ (\A d \in mine : d.type = "BYE") => chnl # NoChnl

UserOK(u) ==
  u \notin upset =>
    Phase(client[u], calls[u], told[u], OfUser(u), At(u), srv.req.call, srv.port, ChnlOf(u))
CountOK(u) == calm => Counts(client[u], OfUser(u), At(u), ChnlOf(u))

WithChnl == {u \in User : ChnlOf(u) # NoChnl}

ProtocolInv ==
  /\ NewInv
  /\ \A u \in User : UserOK(u) /\ CountOK(u)
  /\ calm => upset = {} /\ runningChnl = Cardinality(WithChnl)

-----------------------------------------------------------------------------
(* What does not concern a user leaves it where it was.                    *)
Same(u) ==
  /\ client'[u] = client[u] /\ calls'[u] = calls[u] /\ told'[u] = told[u]
  /\ OfUser(u)' = OfUser(u) /\ ChnlOf(u)' = ChnlOf(u)
  /\ At(u)' = At(u) /\ (At(u) # "recv" => srv' = srv)

LEMMA PhaseAtRecv ==
  ASSUME NEW cl, NEW n, NEW to, NEW mine, NEW c, NEW call, NEW p, NEW call2, NEW p2,
         Phase(cl, n, to, mine, "recv", call, p, c)
  PROVE  Phase(cl, n, to, mine, "recv", call2, p2, c)
BY DEF Phase

LEMMA SameKeeps ==
  ASSUME NEW u \in User, Same(u), u \in upset => u \in upset', calm' => calm,
         UserOK(u) /\ CountOK(u)
  PROVE  UserOK(u)' /\ CountOK(u)'
<1>1. CountOK(u)'
  BY DEF Same, CountOK
<1>2. CASE At(u) = "recv"
  <2>1. u \notin upset' =>
          Phase(client[u], calls[u], told[u], OfUser(u), "recv", srv'.req.call, srv'.port, ChnlOf(u))
    BY <1>2, PhaseAtRecv DEF UserOK
  <2> QED
    BY <1>1, <1>2, <2>1 DEF Same, UserOK
<1>3. CASE At(u) # "recv"
  BY <1>1, <1>3 DEF Same, UserOK
<1> QED
  BY <1>2, <1>3

(* calm is given up for good when the first user is upset.                 *)
HistoryOK == calm' => calm /\ upset' = {}

LEMMA HistoryStep ==
  ASSUME IInv, calm => upset = {}, [Next]_vars
  PROVE  HistoryOK
<1> USE DEF faultVars, HistoryOK
<1>0. calm \in BOOLEAN
  BY DEF IInv, FaultOK
<1>1. ASSUME NEW us, Upsets(us) PROVE HistoryOK
  BY <1>0, <1>1 DEF Upsets
<1>2. ASSUME UNCHANGED calm, upset' \subseteq upset PROVE HistoryOK
  BY <1>0, <1>2
<1>3. ASSUME NEW u \in User, Invite(u) \/ HangUp(u) \/ Repeat(u) \/ GiveUp(u) PROVE HistoryOK
  BY <1>1, <1>2, <1>3 DEF Invite, HangUp, Repeat, GiveUp
<1>4. ASSUME NEW u \in User, NEW d \in net, Answered(u, d) \/ HungUp(u, d) PROVE HistoryOK
  BY <1>2, <1>4 DEF Answered, HungUp
<1>5. ASSUME NEW type \in {"audio", "close"}, SendMESSAGE(type) PROVE HistoryOK
  BY <1>2, <1>5 DEF SendMESSAGE
<1>6. ASSUME NEW d \in net, Lose(d) PROVE HistoryOK
  BY <1>0, <1>6 DEF Lose, ResponseType
<1>7. CASE ReceiveThread
  BY <1>1, <1>2, <1>7 DEF ReceiveThread, ReceiveINVITE, ReceiveBYE, AddChnl, OpenMic, AnswerINVITE,
     RemoveChnl, CreateMpu, EndMpu
<1>8. ASSUME NEW m \in Mpu, EventThread(m) PROVE HistoryOK
  BY <1>2, <1>8 DEF EventThread, HandleStop, HandleAdd, HandleOpen, HandleRemove, Handles
<1>9. CASE UNCHANGED vars
  BY <1>2, <1>9 DEF vars
<1> QED
  BY <1>3, <1>4, <1>5, <1>6, <1>7, <1>8, <1>9 DEF Next

(* What is under way of a user when a datagram goes or comes.              *)
LEMMA MineLess ==
  ASSUME NEW u \in User, NEW d, net' = net \ {d}
  PROVE  OfUser(u)' = OfUser(u) \ {d}
BY DEF OfUser

LEMMA MineMore ==
  ASSUME NEW u \in User, NEW r, net' = net \cup {r}
  PROVE  OfUser(u)' = IF r.user = u THEN OfUser(u) \cup {r} ELSE OfUser(u)
BY DEF OfUser

LEMMA MESSAGEs == \A type : MESSAGE(type).user \notin User
BY SignallingAssumption DEF MESSAGE, Request

LEMMA CountKept ==
  ASSUME UNCHANGED runningChnl, \A u \in User : ChnlOf(u)' = ChnlOf(u)
  PROVE  runningChnl = Cardinality(WithChnl) => runningChnl' = Cardinality(WithChnl')
<1>1. WithChnl' = WithChnl
  BY DEF WithChnl
<1> QED
  BY <1>1

-----------------------------------------------------------------------------
(* The users and the network. Nothing here touches a channel.              *)
UsersOK == \A u \in User : UserOK(u) /\ CountOK(u)

LEMMA UserProtocol ==
  ASSUME IInv, ProtocolInv, HistoryOK,
         NEW u \in User, Invite(u) \/ HangUp(u) \/ Repeat(u) \/ GiveUp(u)
  PROVE  UsersOK'
<1> USE DEF mcuVars, mpuVars, faultVars, clientVars
<1>0. /\ client \in [User -> {"idle", "calling", "up", "ending"}] /\ calls \in [User -> Nat]
      /\ told \in [User -> Port \cup {None}]
      /\ told[u] # None <=> client[u] = "up"
      /\ upset \subseteq User /\ calm \in BOOLEAN
  BY DEF IInv, ClientOK, FaultOK
<1>1. (\A w \in User : ChnlOf(w)' = ChnlOf(w)) /\ srv' = srv
  <2>1. UNCHANGED <<job, eventQue, APCs, srv>>
    BY DEF Invite, HangUp, Repeat, GiveUp
  <2> QED
    BY <2>1, ChnlKept
<1>2. \A w \in User : At(w)' = At(w)
  BY <1>1 DEF At, Served
<1>3. UserOK(u) /\ CountOK(u) /\ (calm => upset = {})
  BY DEF ProtocolInv
<1>4. ASSUME NEW w \in User, w # u PROVE UserOK(w)' /\ CountOK(w)'
  <2>1. client'[w] = client[w] /\ calls'[w] = calls[w] /\ told'[w] = told[w]
    BY <1>0, <1>4 DEF Invite, HangUp, Repeat, GiveUp
  <2>2. OfUser(w)' = OfUser(w)
    <3>1. ASSUME NEW type, NEW n, net' = net \cup {Request(type, u, n)} PROVE OfUser(w)' = OfUser(w)
      BY <1>4, <3>1, MineMore DEF Request
    <3>2. CASE GiveUp(u)
      BY <1>4, <3>2 DEF GiveUp, OfUser
    <3> QED
      BY <3>1, <3>2 DEF Invite, HangUp, Repeat
  <2>3. w \in upset => w \in upset'
    BY <1>4 DEF Invite, HangUp, Repeat, GiveUp, Upsets
  <2>4. Same(w)
    BY <1>1, <1>2, <2>1, <2>2 DEF Same
  <2> QED
    BY <2>3, <2>4, SameKeeps DEF ProtocolInv, HistoryOK
<1> SUFFICES UserOK(u)' /\ CountOK(u)'
  BY <1>4 DEF UsersOK
<1>5. CASE Invite(u)
  <2> DEFINE r == Request("INVITE", u, calls[u] + 1)
  <2>1. /\ client[u] = "idle" /\ client'[u] = "calling" /\ calls'[u] = calls[u] + 1
        /\ told'[u] = told[u] /\ OfUser(u)' = OfUser(u) \cup {r} /\ r.call = calls[u] + 1
        /\ r.type = "INVITE"
    BY <1>0, <1>5, MineMore DEF Invite, Request
  <2>2. ASSUME u \notin upset'
        PROVE  OfUser(u) = {} /\ At(u) \in {"recv", "remove"} /\ (At(u) = "recv" => ChnlOf(u) = NoChnl)
    <3>1. CASE u \in upset
      <4>1. Clean(u)
        BY <1>5, <2>2, <3>1 DEF Invite
      <4> QED
        BY <4>1 DEF Clean, At
    <3>2. CASE u \notin upset
      BY <1>3, <2>1, <3>2 DEF UserOK, Phase
    <3> QED
      BY <3>1, <3>2
  <2> HIDE DEF r
  <2>3. u \notin upset' =>
          Phase("calling", calls[u] + 1, told[u], OfUser(u) \cup {r}, At(u), srv.req.call,
                srv.port, ChnlOf(u))
    BY <2>1, <2>2 DEF Phase
  <2>4. calm' => Counts("calling", OfUser(u) \cup {r}, At(u), ChnlOf(u))
    BY <1>3 DEF HistoryOK, CountOK, Counts
  <2> QED
    BY <1>1, <1>2, <2>1, <2>3, <2>4 DEF UserOK, CountOK
<1>6. CASE HangUp(u)
  <2> DEFINE r == Request("BYE", u, calls[u])
  <2>1. /\ client[u] = "up" /\ client'[u] = "ending" /\ calls'[u] = calls[u]
        /\ told'[u] = None /\ OfUser(u)' = OfUser(u) \cup {r} /\ r.call = calls[u]
        /\ r.type = "BYE" /\ upset' = upset
    BY <1>0, <1>6, MineMore DEF HangUp, Request
  <2> HIDE DEF r
  <2>2. u \notin upset =>
          OfUser(u) = {} /\ At(u) = "recv" /\ ChnlOf(u) = [port |-> told[u], mic |-> TRUE]
    BY <1>3, <2>1 DEF UserOK, Phase
  <2>3. u \notin upset' =>
          Phase("ending", calls[u], None, OfUser(u) \cup {r}, At(u), srv.req.call,
                srv.port, ChnlOf(u))
    BY <2>1, <2>2 DEF Phase
  <2>4. calm' => Counts("ending", OfUser(u) \cup {r}, At(u), ChnlOf(u))
    <3>1. [port |-> told[u], mic |-> TRUE] # NoChnl
      BY <1>0, <2>1 DEF NoChnl
    <3> QED
      BY <1>3, <2>1, <2>2, <3>1 DEF HistoryOK, Counts
  <2> QED
    BY <1>1, <1>2, <2>1, <2>3, <2>4 DEF UserOK, CountOK
<1>7. CASE Repeat(u)
  <2> DEFINE r == Request(IF client[u] = "calling" THEN "INVITE" ELSE "BYE", u, calls[u])
  <2>1. /\ client[u] \in {"calling", "ending"} /\ client'[u] = client[u] /\ calls'[u] = calls[u]
        /\ told'[u] = told[u] /\ OfUser(u)' = OfUser(u) \cup {r} /\ r.call = calls[u]
        /\ r.type = IF client[u] = "calling" THEN "INVITE" ELSE "BYE"
        /\ upset' = upset /\ At(u) = "recv" /\ ~\E d \in OfUser(u) : d.call = calls[u]
    BY <1>0, <1>7, MineMore DEF Repeat, Request, At
  <2> HIDE DEF r
  <2>2. u \notin upset => OfUser(u) = {}
    BY <1>3, <2>1 DEF UserOK, Phase
  <2>3. u \notin upset' =>
          Phase(client[u], calls[u], told[u], OfUser(u) \cup {r}, At(u), srv.req.call,
                srv.port, ChnlOf(u))
    BY <1>3, <2>1, <2>2 DEF UserOK, Phase
  <2>4. calm' => Counts(client[u], OfUser(u) \cup {r}, At(u), ChnlOf(u))
    BY <1>3, <2>1, <2>2 DEF HistoryOK, CountOK, Counts
  <2> QED
    BY <1>1, <1>2, <2>1, <2>3, <2>4 DEF UserOK, CountOK
<1>8. CASE GiveUp(u)
  <2>1. u \in upset' /\ calm' = FALSE
    BY <1>8 DEF GiveUp, Upsets
  <2> QED
    BY <2>1 DEF UserOK, CountOK
<1> QED
  BY <1>5, <1>6, <1>7, <1>8

LEMMA NetProtocol ==
  ASSUME IInv, ProtocolInv, HistoryOK,
         \/ \E u \in User, d \in net : Answered(u, d) \/ HungUp(u, d)
         \/ \E type \in {"audio", "close"} : SendMESSAGE(type)
         \/ \E d \in net : Lose(d)
  PROVE  UsersOK'
<1> USE DEF mcuVars, mpuVars, faultVars, clientVars
<1>0. /\ client \in [User -> {"idle", "calling", "up", "ending"}] /\ calls \in [User -> Nat]
      /\ told \in [User -> Port \cup {None}] /\ calm \in BOOLEAN
  BY DEF IInv, ClientOK, FaultOK
<1>1. (\A w \in User : ChnlOf(w)' = ChnlOf(w)) /\ srv' = srv
  <2>1. UNCHANGED <<job, eventQue, APCs, srv>>
    BY DEF Answered, HungUp, SendMESSAGE, Lose
  <2> QED
    BY <2>1, ChnlKept
<1>2. \A w \in User : At(w)' = At(w)
  BY <1>1 DEF At, Served
<1>3. \A u \in User : UserOK(u) /\ CountOK(u)
  BY DEF ProtocolInv
<1>4. calm => upset = {}
  BY DEF ProtocolInv
<1>5. ASSUME NEW u \in User, NEW d \in net, d.user = u, net' = net \ {d}, u \notin upset
      PROVE  d \in OfUser(u) /\ OfUser(u)' = {} /\ OfUser(u) = {d}
  <2>1. d \in OfUser(u)
    BY <1>5 DEF OfUser
  <2>2. \A e \in OfUser(u) : e = d
    <3>1. Phase(client[u], calls[u], told[u], OfUser(u), At(u), srv.req.call, srv.port, ChnlOf(u))
      BY <1>3, <1>5 DEF UserOK
    <3>2. \A e, f \in OfUser(u) : e = f
      BY <3>1 DEF Phase
    <3> QED
      BY <2>1, <3>2
  <2> QED
    BY <1>5, <2>1, <2>2, MineLess
<1>6. ASSUME NEW u \in User, NEW d \in net, Answered(u, d) PROVE UsersOK'
  <2>1. /\ client[u] = "calling" /\ client'[u] = "up" /\ calls'[u] = calls[u]
        /\ told'[u] = d.port /\ upset' = upset /\ d.type = "INVITE OK" /\ d.user = u
        /\ net' = net \ {d}
    BY <1>0, <1>6 DEF Answered
  <2>2. ASSUME NEW w \in User, w # u PROVE UserOK(w)' /\ CountOK(w)'
    <3>1. OfUser(w)' = OfUser(w)
      BY <2>1, <2>2, MineLess DEF OfUser
    <3>2. client'[w] = client[w] /\ calls'[w] = calls[w] /\ told'[w] = told[w]
      BY <1>0, <1>6, <2>2 DEF Answered
    <3>3. Same(w)
      BY <1>1, <1>2, <3>1, <3>2 DEF Same
    <3> QED
      BY <1>3, <2>1, <3>3, SameKeeps DEF HistoryOK
  <2> SUFFICES UserOK(u)' /\ CountOK(u)'
    BY <2>2 DEF UsersOK
  <2>3. u \notin upset => OfUser(u) = {d} /\ OfUser(u)' = {}
    BY <1>5, <2>1
  <2>4. u \notin upset => At(u) = "recv" /\ ChnlOf(u) = [port |-> d.port, mic |-> TRUE]
    BY <1>3, <2>1, <2>3 DEF UserOK, Phase
  <2>5. u \notin upset =>
          Phase("up", calls[u], d.port, {}, At(u), srv.req.call, srv.port, ChnlOf(u))
    BY <2>4 DEF Phase
  <2>6. calm' => Counts("up", {}, At(u), ChnlOf(u))
    BY <1>3 DEF HistoryOK, CountOK, Counts
  <2> QED
    BY <1>1, <1>2, <1>4, <2>1, <2>3, <2>5, <2>6 DEF UserOK, CountOK, HistoryOK
<1>7. ASSUME NEW u \in User, NEW d \in net, HungUp(u, d) PROVE UsersOK'
  <2>1. /\ client[u] = "ending" /\ client'[u] = "idle" /\ calls'[u] = calls[u]
        /\ told'[u] = told[u] /\ upset' = upset /\ d.type = "BYE OK" /\ d.user = u
        /\ net' = net \ {d}
    BY <1>0, <1>7 DEF HungUp
  <2>2. ASSUME NEW w \in User, w # u PROVE UserOK(w)' /\ CountOK(w)'
    <3>1. OfUser(w)' = OfUser(w)
      BY <2>1, <2>2, MineLess DEF OfUser
    <3>2. client'[w] = client[w] /\ calls'[w] = calls[w] /\ told'[w] = told[w]
      BY <1>0, <1>7, <2>2 DEF HungUp
    <3>3. Same(w)
      BY <1>1, <1>2, <3>1, <3>2 DEF Same
    <3> QED
      BY <1>3, <2>1, <3>3, SameKeeps DEF HistoryOK
  <2> SUFFICES UserOK(u)' /\ CountOK(u)'
    BY <2>2 DEF UsersOK
  <2>3. u \notin upset => OfUser(u) = {d} /\ OfUser(u)' = {}
    BY <1>5, <2>1
  <2>4. u \notin upset =>
          At(u) \in {"recv", "remove"} /\ (At(u) = "recv" => ChnlOf(u) = NoChnl)
    BY <1>3, <2>1, <2>3 DEF UserOK, Phase
  <2>5. u \notin upset =>
          Phase("idle", calls[u], told[u], {}, At(u), srv.req.call, srv.port, ChnlOf(u))
    BY <2>4 DEF Phase
  <2>6. calm' => Counts("idle", {}, At(u), ChnlOf(u))
    BY <1>3 DEF HistoryOK, CountOK, Counts
  <2> QED
    BY <1>1, <1>2, <1>4, <2>1, <2>3, <2>5, <2>6 DEF UserOK, CountOK, HistoryOK
<1>8. ASSUME NEW type \in {"audio", "close"}, SendMESSAGE(type) PROVE UsersOK'
  <2> SUFFICES ASSUME NEW w \in User PROVE UserOK(w)' /\ CountOK(w)'
    BY DEF UsersOK
  <2>1. OfUser(w)' = OfUser(w)
    BY <1>8, MineMore, MESSAGEs DEF SendMESSAGE
  <2>2. Same(w) /\ upset' = upset
    BY <1>1, <1>2, <1>8, <2>1 DEF Same, SendMESSAGE
  <2> QED
    BY <1>3, <2>2, SameKeeps DEF HistoryOK
<1>9. ASSUME NEW d \in net, Lose(d) PROVE UsersOK'
  <2>1. /\ UNCHANGED <<client, calls, told>> /\ net' = net \ {d}
        /\ upset' = IF d.type = "INVITE OK" THEN upset \cup {d.user} ELSE upset
        /\ calm' => d.type \notin ResponseType
    BY <1>9 DEF Lose
  <2> SUFFICES ASSUME NEW w \in User PROVE UserOK(w)' /\ CountOK(w)'
    BY DEF UsersOK
  <2>2. CASE d.user # w
    <3>1. OfUser(w)' = OfUser(w)
      <4>1. d \notin OfUser(w)
        BY <2>2 DEF OfUser
      <4>2. OfUser(w)' = OfUser(w) \ {d}
        BY <2>1, MineLess
      <4> QED
        BY <4>1, <4>2
    <3>2. Same(w) /\ (w \in upset => w \in upset')
      BY <1>1, <1>2, <2>1, <3>1 DEF Same
    <3> QED
      BY <1>3, <3>2, SameKeeps DEF HistoryOK
  <2>3. CASE d.user = w
    <3>1. w \notin upset' => w \notin upset /\ d.type # "INVITE OK"
      BY <2>1, <2>3
    <3>2. w \notin upset => OfUser(w) = {d} /\ OfUser(w)' = {}
      BY <1>5, <2>1, <2>3
    <3>3. w \notin upset =>
            Phase(client[w], calls[w], told[w], {d}, At(w), srv.req.call, srv.port, ChnlOf(w))
      BY <1>3, <3>2 DEF UserOK
    <3>4. w \notin upset' =>
            Phase(client[w], calls[w], told[w], {}, At(w), srv.req.call, srv.port, ChnlOf(w))
      BY <3>1, <3>3 DEF Phase
    <3>5. calm' => w \notin upset /\ Counts(client[w], {d}, At(w), ChnlOf(w))
      BY <1>3, <1>4, <3>2 DEF HistoryOK, CountOK
    <3>6. calm' => Counts(client[w], {}, At(w), ChnlOf(w))
      <4>1. calm' /\ client[w] = "ending" => d.type = "BYE" /\ At(w) = "recv"
        BY <2>1, <3>3, <3>5 DEF Phase, ResponseType
      <4> QED
        BY <3>5, <4>1 DEF Counts
    <3> QED
      BY <1>1, <1>2, <2>1, <3>1, <3>2, <3>4, <3>5, <3>6 DEF UserOK, CountOK
  <2> QED
    BY <2>2, <2>3
<1> QED
  BY <1>6, <1>7, <1>8, <1>9

-----------------------------------------------------------------------------
(* The receive thread takes a datagram.                                    *)
LEMMA TakenIs ==
  ASSUME IInv, NEW d \in net, d.type \in RequestType, srv.at = "recv", srv'.req = d
  PROVE  /\ d.user \in User
         /\ \A w \in User : At(w) = "recv"
         /\ \A w \in User : w # d.user => At(w)' = "recv"
         /\ At(d.user)' = srv'.at
<1>1. d.user \in User
  BY DatagramIs DEF IInv, NetOK, RequestType
<1> QED
  BY <1>1 DEF At, Served

LEMMA FaultShows == IInv /\ faults' = faults + 1 => faults' # faults
BY SignallingAssumption DEF IInv, FaultOK

LEMMA InviteProtocol ==
  ASSUME IInv, ProtocolInv, HistoryOK, NEW d \in net, ReceiveINVITE(d)
  PROVE  UsersOK'
<1> USE DEF mcuVars, mpuVars, faultVars, clientVars
<1> DEFINE u == d.user
<1>1. /\ d.type = "INVITE" /\ srv.at = "recv" /\ UNCHANGED <<client, calls, told>>
      /\ srv' = [at |-> IF job = 0 THEN "recv" ELSE "add", req |-> d, port |-> None]
      /\ UNCHANGED <<job, eventQue, APCs>> /\ Upsets(Doubled)
      /\ net' = net \ {d} \/ (net' = net /\ faults' = faults + 1)
  BY DEF ReceiveINVITE, Receive
<1>2. srv'.req = d /\ srv'.at \in {"recv", "add"}
  BY <1>1
<1>3. /\ u \in User /\ \A w \in User : At(w) = "recv"
      /\ \A w \in User : w # u => At(w)' = "recv"
      /\ At(u)' = srv'.at
  BY <1>1, <1>2, TakenIs DEF RequestType
<1> HIDE DEF u
<1>4. \A w \in User : ChnlOf(w)' = ChnlOf(w)
  BY <1>1, ChnlKept
<1>5. \A w \in User : UserOK(w) /\ CountOK(w)
  BY DEF ProtocolInv
<1>6. \A w \in User : w \in upset => w \in upset'
  BY <1>1 DEF Upsets
<1>7. ASSUME NEW w \in User, w # u PROVE UserOK(w)' /\ CountOK(w)'
  <2>1. OfUser(w)' = OfUser(w)
    <3>1. d \notin OfUser(w)
      BY <1>7 DEF OfUser, u
    <3>2. CASE net' = net \ {d}
      BY <3>1, <3>2, MineLess
    <3>3. CASE net' = net
      BY <3>3 DEF OfUser
    <3> QED
      BY <1>1, <3>2, <3>3
  <2>2. Same(w)
    BY <1>1, <1>3, <1>4, <1>7, <2>1 DEF Same
  <2> QED
    BY <1>5, <1>6, <2>2, SameKeeps DEF HistoryOK
<1> SUFFICES UserOK(u)' /\ CountOK(u)'
  BY <1>7 DEF UsersOK
<1>8. CASE net' = net /\ faults' = faults + 1
  <2>1. u # None
    BY <1>3, SignallingAssumption
  <2>2. Doubled = {u}
    BY <1>2, <1>8, <2>1, FaultShows DEF Doubled, u
  <2>3. u \in upset' /\ ~calm'
    BY <1>1, <2>2 DEF Upsets
  <2> QED
    BY <2>3 DEF UserOK, CountOK
<1>9. CASE net' = net \ {d}
  <2>1. d \in OfUser(u)
    BY DEF OfUser, u
  <2>2. OfUser(u)' = OfUser(u) \ {d}
    BY <1>3, <1>9, MineLess
  <2>3. u \notin upset =>
          Phase(client[u], calls[u], told[u], OfUser(u), "recv", srv.req.call, srv.port, ChnlOf(u))
    BY <1>3, <1>5 DEF UserOK
  <2>4. u \notin upset => OfUser(u) = {d}
    BY <2>1, <2>3 DEF Phase
  <2>5. u \notin upset => client[u] = "calling" /\ ChnlOf(u) = NoChnl /\ d.call = calls[u]
    <3>1. client[u] \in {"idle", "calling", "up", "ending"}
      BY <1>3 DEF IInv, ClientOK
    <3> QED
      BY <1>1, <2>3, <2>4, <3>1 DEF Phase
  <2>6. u \notin upset =>
          Phase("calling", calls[u], told[u], {}, srv'.at, d.call, None, NoChnl)
    BY <1>2, <2>5 DEF Phase
  <2>7. UserOK(u)'
    <3>1. ASSUME u \notin upset'
          PROVE  Phase(client[u], calls[u], told[u], OfUser(u)', At(u)', srv'.req.call, srv'.port,
                       ChnlOf(u)')
      <4>1. u \notin upset
        BY <1>3, <1>6, <3>1
      <4>2. OfUser(u)' = {} /\ srv'.port = None
        BY <1>1, <2>2, <2>4, <4>1
      <4>3. ChnlOf(u)' = NoChnl
        BY <1>3, <1>4, <2>5, <4>1
      <4> QED
        BY <1>2, <1>3, <2>5, <2>6, <4>1, <4>2, <4>3
    <3> QED
      BY <1>1, <3>1 DEF UserOK
  <2>8. CountOK(u)'
    <3>1. calm' => u \notin upset
      BY <1>3 DEF HistoryOK, ProtocolInv
    <3>2. calm' => client'[u] = "calling" /\ At(u)' # "remove"
      BY <1>1, <1>2, <1>3, <2>5, <3>1
    <3> QED
      BY <3>2 DEF CountOK, Counts
  <2> QED
    BY <2>7, <2>8
<1> QED
  BY <1>1, <1>8, <1>9

LEMMA ByeProtocol ==
  ASSUME IInv, ProtocolInv, HistoryOK, NEW d \in net, ReceiveBYE(d)
  PROVE  UsersOK'
<1> USE DEF mcuVars, mpuVars, faultVars, clientVars
<1> DEFINE u == d.user  R == Reply("BYE OK", d, None)
<1>1. /\ d.type = "BYE" /\ srv.at = "recv" /\ UNCHANGED <<client, calls, told>>
      /\ srv' = [at |-> "remove", req |-> d, port |-> None]
      /\ UNCHANGED <<job, eventQue, APCs>> /\ Upsets(Doubled)
      /\ net' = (net \ {d}) \cup R \/ (net' = net \cup R /\ faults' = faults + 1)
  BY DEF ReceiveBYE
<1>2. srv'.req = d /\ srv'.at = "remove"
  BY <1>1
<1>3. /\ u \in User /\ \A w \in User : At(w) = "recv"
      /\ \A w \in User : w # u => At(w)' = "recv"
      /\ At(u)' = "remove"
  BY <1>1, <1>2, TakenIs DEF RequestType
<1>4. \A r \in R : r.user = u /\ r.type = "BYE OK" /\ r.call = d.call
  <2>1. \A r \in R : r = Response("BYE OK", u, d.call, None)
    BY DEF Reply
  <2>2. LET r == Response("BYE OK", u, d.call, None)
        IN  r.user = u /\ r.type = "BYE OK" /\ r.call = d.call
    BY DEF Response
  <2> QED
    BY <2>1, <2>2
<1>5. client[u] # "idle" /\ calls[u] = d.call => R # {}
  BY DEF Reply
<1>51. \A r, s \in R : r = s
  BY DEF Reply
<1> HIDE DEF u, R
<1>6. \A w \in User : ChnlOf(w)' = ChnlOf(w)
  BY <1>1, ChnlKept
<1>7. \A w \in User : UserOK(w) /\ CountOK(w)
  BY DEF ProtocolInv
<1>8. \A w \in User : w \in upset => w \in upset'
  BY <1>1 DEF Upsets
<1>9. ASSUME NEW w \in User, w # u PROVE UserOK(w)' /\ CountOK(w)'
  <2>1. d.user # w /\ \A r \in R : r.user # w
    BY <1>4, <1>9 DEF u
  <2>2. OfUser(w)' = OfUser(w)
    BY <1>1, <2>1 DEF OfUser
  <2>3. Same(w)
    BY <1>1, <1>3, <1>6, <1>9, <2>2 DEF Same
  <2> QED
    BY <1>7, <1>8, <2>3, SameKeeps DEF HistoryOK
<1> SUFFICES UserOK(u)' /\ CountOK(u)'
  BY <1>9 DEF UsersOK
<1>10. CASE net' = net \cup R /\ faults' = faults + 1
  <2>1. u # None
    BY <1>3, SignallingAssumption
  <2>2. Doubled = {u}
    BY <1>2, <1>10, <2>1, FaultShows DEF Doubled, u
  <2>3. u \in upset' /\ ~calm'
    BY <1>1, <2>2 DEF Upsets
  <2> QED
    BY <2>3 DEF UserOK, CountOK
<1>11. CASE net' = (net \ {d}) \cup R
  <2>1. d \in OfUser(u)
    BY DEF OfUser, u
  <2>2. OfUser(u)' = (OfUser(u) \ {d}) \cup R
    BY <1>4, <1>11 DEF OfUser
  <2>3. u \notin upset =>
          Phase(client[u], calls[u], told[u], OfUser(u), "recv", srv.req.call, srv.port, ChnlOf(u))
    BY <1>3, <1>7 DEF UserOK
  <2>4. u \notin upset => OfUser(u) = {d}
    BY <2>1, <2>3 DEF Phase
  <2>5. u \notin upset => client[u] = "ending" /\ d.call = calls[u]
    <3>1. client[u] \in {"idle", "calling", "up", "ending"}
      BY <1>3 DEF IInv, ClientOK
    <3> QED
      BY <1>1, <2>3, <2>4, <3>1 DEF Phase
  <2>6. u \notin upset =>
          Phase("ending", calls[u], told[u], R, "remove", d.call, None, ChnlOf(u))
    BY <1>4, <1>51, <2>5 DEF Phase
  <2>7. UserOK(u)'
    <3>1. ASSUME u \notin upset'
          PROVE  Phase(client[u], calls[u], told[u], OfUser(u)', At(u)', srv'.req.call, srv'.port,
                       ChnlOf(u)')
      <4>1. u \notin upset
        BY <1>3, <1>8, <3>1
      <4>2. OfUser(u)' = R /\ srv'.port = None
        BY <1>1, <2>2, <2>4, <4>1
      <4>3. ChnlOf(u)' = ChnlOf(u)
        BY <1>3, <1>6
      <4> QED
        BY <1>2, <1>3, <2>5, <2>6, <4>1, <4>2, <4>3
    <3> QED
      BY <1>1, <3>1 DEF UserOK
  <2>8. CountOK(u)'
    <3> SUFFICES ASSUME calm' PROVE Counts(client[u], OfUser(u)', "remove", ChnlOf(u))
      BY <1>1, <1>3, <1>6 DEF CountOK
    <3>1. calm /\ u \notin upset
      BY <1>3 DEF HistoryOK, ProtocolInv
    <3>2. OfUser(u)' # {}
      BY <1>5, <2>2, <2>5, <3>1
    <3>3. ChnlOf(u) # NoChnl
      <4>1. Counts("ending", {d}, "recv", ChnlOf(u))
        BY <1>3, <1>7, <2>4, <2>5, <3>1 DEF CountOK
      <4> QED
        BY <1>1, <4>1 DEF Counts
    <3> QED
      BY <3>2, <3>3 DEF Counts
  <2> QED
    BY <2>7, <2>8
<1> QED
  BY <1>1, <1>10, <1>11

-----------------------------------------------------------------------------
(* The receive thread works on a request.                                  *)
LEMMA ServedIs ==
  ASSUME IInv, srv.at # "recv", srv.at = "remove" \/ srv.req.type = "INVITE"
  PROVE  /\ srv.req.user \in User
         /\ At(srv.req.user) = srv.at
         /\ \A w \in User : w # srv.req.user => At(w) = "recv"
<1>1. srv.req \in Datagram /\ srv.req.type \notin {"audio", "close"}
  BY DEF IInv, ServerOK, ServedBy
<1>2. srv.req.user \in User
  BY <1>1, DatagramIs
<1> QED
  BY <1>2 DEF At, Served

(* The others see nothing of it.                                           *)
OthersSee(u) ==
  \A w \in User : w # u =>
    /\ client'[w] = client[w] /\ calls'[w] = calls[w] /\ told'[w] = told[w]
    /\ OfUser(w)' = OfUser(w) /\ ChnlOf(w)' = ChnlOf(w) /\ At(w) = "recv" /\ At(w)' = "recv"

LEMMA OthersKeep ==
  ASSUME ProtocolInv, HistoryOK, UNCHANGED upset, NEW u \in User, OthersSee(u),
         UserOK(u)' /\ CountOK(u)'
  PROVE  UsersOK'
<1> SUFFICES ASSUME NEW w \in User, w # u PROVE UserOK(w)' /\ CountOK(w)'
  BY DEF UsersOK
<1>1. Same(w)
  BY DEF OthersSee, Same
<1> QED
  BY <1>1, SameKeeps DEF HistoryOK, ProtocolInv

(* The channels when that of u changes.                                    *)
LEMMA ChannelsAre ==
  ASSUME NEW u \in User, \A w \in User : w # u => ChnlOf(w)' = ChnlOf(w)
  PROVE  /\ IsFiniteSet(WithChnl) /\ Cardinality(WithChnl) \in Nat
         /\ (ChnlOf(u) = NoChnl <=> ChnlOf(u)' = NoChnl) =>
              Cardinality(WithChnl') = Cardinality(WithChnl)
         /\ ChnlOf(u) = NoChnl /\ ChnlOf(u)' # NoChnl =>
              Cardinality(WithChnl') = Cardinality(WithChnl) + 1
         /\ ChnlOf(u) # NoChnl /\ ChnlOf(u)' = NoChnl =>
              Cardinality(WithChnl') = Cardinality(WithChnl) - 1
<1>1. WithChnl \subseteq User
  BY DEF WithChnl
<1>2. IsFiniteSet(WithChnl) /\ Cardinality(WithChnl) \in Nat
  BY <1>1, SignallingAssumption, FS_Subset, FS_CardinalityType
<1>3. (ChnlOf(u) = NoChnl <=> ChnlOf(u)' = NoChnl) => WithChnl' = WithChnl
  BY DEF WithChnl
<1>4. ASSUME ChnlOf(u) = NoChnl, ChnlOf(u)' # NoChnl
      PROVE  Cardinality(WithChnl') = Cardinality(WithChnl) + 1
  <2>1. WithChnl' = WithChnl \cup {u} /\ u \notin WithChnl
    BY <1>4 DEF WithChnl
  <2> QED
    BY <1>2, <2>1, FS_AddElement
<1>5. ASSUME ChnlOf(u) # NoChnl, ChnlOf(u)' = NoChnl
      PROVE  Cardinality(WithChnl') = Cardinality(WithChnl) - 1
  <2>1. WithChnl' = WithChnl \ {u} /\ u \in WithChnl
    BY <1>5 DEF WithChnl
  <2> QED
    BY <1>2, <2>1, FS_RemoveElement
<1> QED
  BY <1>2, <1>3, <1>4, <1>5

CountedOK == calm => runningChnl = Cardinality(WithChnl)

(* addChnl.                                                                *)
LEMMA AddProtocol ==
  ASSUME IInv, ProtocolInv, HistoryOK, AddChnl
  PROVE  UsersOK' /\ CountedOK'
<1> USE DEF mcuVars, mpuVars, faultVars, clientVars
<1>1. /\ srv.at = "add" /\ job # 0 /\ srv.req.type = "INVITE"
      /\ UNCHANGED <<client, calls, told, net, job, APCs, upset>>
  BY DEF AddChnl, IInv, ServerOK
<1>2. PICK u \in User : /\ u = srv.req.user /\ At(u) = "add"
                        /\ \A w \in User : w # u => At(w) = "recv"
  BY <1>1, ServedIs
<1>20. PICK n : n = calls[u]
  OBVIOUS
<1>3. u \notin upset =>
        Phase(client[u], n, told[u], OfUser(u), "add", srv.req.call, srv.port, ChnlOf(u))
  BY <1>2, <1>20 DEF ProtocolInv, UserOK
<1>4. u \notin upset =>
        client[u] = "calling" /\ OfUser(u) = {} /\ srv.req.call = n /\ ChnlOf(u) = NoChnl
  <2>1. client[u] \in {"idle", "calling", "up", "ending"}
    BY <1>2 DEF IInv, ClientOK
  <2> QED
    BY <1>3, <2>1 DEF Phase
<1>5. /\ calm' => calm /\ u \notin upset /\ runningChnl = Cardinality(WithChnl)
      /\ \A w \in User : OfUser(w)' = OfUser(w)
  BY <1>1, <1>2 DEF HistoryOK, ProtocolInv, OfUser
<1>6. ASSUME NEW p \in Port \ PortsInUse, Push("add", u, p),
             srv' = [srv EXCEPT !.at = "open", !.port = p], runningChnl' = runningChnl + 1
      PROVE  UsersOK' /\ CountedOK'
  <2>1. srv'.at = "open" /\ srv'.port = p /\ srv'.req = srv.req
    BY <1>1, <1>6 DEF IInv, ServerOK, ServedBy
  <2>2. At(u)' = "open" /\ \A w \in User : w # u => At(w)' = "recv"
    BY <1>2, <2>1 DEF At, Served
  <2>3. [type |-> "add", user |-> u, port |-> p] \in Event
    BY <1>2 DEF Event
  <2>4. \A w \in User : ChnlOf(w)' = Effect([type |-> "add", user |-> u, port |-> p], w, ChnlOf(w))
    BY <1>1, <1>2, <1>6, <2>3, ChnlPushed
  <2>5. \A w \in User : w # u => ChnlOf(w)' = ChnlOf(w)
    BY <1>2, <2>4, NoEffect
  <2>6. u \notin upset => ChnlOf(u)' = [port |-> p, mic |-> FALSE]
    BY <1>2, <1>4, <2>4, AddEffect
  <2>7. [port |-> p, mic |-> FALSE] # NoChnl
    BY SignallingAssumption DEF NoChnl
  <2>8. u \notin upset =>
          Phase("calling", n, told[u], {}, "open", n, p, [port |-> p, mic |-> FALSE])
    BY DEF Phase
  <2>9. UserOK(u)'
    <3>1. ASSUME u \notin upset
          PROVE  Phase(client[u], n, told[u], OfUser(u)', At(u)', srv'.req.call, srv'.port,
                       ChnlOf(u)')
      BY <1>2, <1>4, <1>5, <2>1, <2>2, <2>6, <2>8, <3>1
    <3> QED
      BY <1>1, <1>20, <3>1 DEF UserOK
  <2>10. CountOK(u)'
    <3>1. calm' => client'[u] = "calling"
      BY <1>1, <1>4, <1>5
    <3> QED
      BY <2>2, <3>1 DEF CountOK, Counts
  <2>11. OthersSee(u)
    BY <1>1, <1>2, <1>5, <2>2, <2>5 DEF OthersSee
  <2>12. UsersOK'
    BY <1>1, <1>2, <2>9, <2>10, <2>11, OthersKeep
  <2>13. ASSUME calm' PROVE runningChnl' = Cardinality(WithChnl')
    <3>1. ChnlOf(u) = NoChnl /\ ChnlOf(u)' # NoChnl
      BY <1>4, <1>5, <2>6, <2>7, <2>13
    <3>2. Cardinality(WithChnl') = Cardinality(WithChnl) + 1
      BY <1>2, <2>5, <3>1, ChannelsAre
    <3> QED
      BY <1>5, <1>6, <2>13, <3>2
  <2> QED
    BY <2>12, <2>13 DEF CountedOK
<1>7. ASSUME Goto("recv"), UNCHANGED <<eventQue, runningChnl>>
      PROVE  UsersOK' /\ CountedOK'
  <2>1. srv'.at = "recv"
    BY <1>1, <1>7 DEF Goto, IInv, ServerOK, ServedBy
  <2>2. \A w \in User : At(w)' = "recv"
    BY <2>1 DEF At, Served
  <2>3. \A w \in User : ChnlOf(w)' = ChnlOf(w)
    BY <1>1, <1>7, ChnlKept
  <2>4. \A c, p : u \notin upset => Phase("calling", n, told[u], {}, "recv", c, p, NoChnl)
    BY DEF Phase
  <2>5. UserOK(u)'
    <3>1. ASSUME u \notin upset
          PROVE  Phase(client[u], n, told[u], OfUser(u)', At(u)', srv'.req.call, srv'.port,
                       ChnlOf(u)')
      <4>1. ChnlOf(u)' = NoChnl /\ OfUser(u)' = {}
        BY <1>2, <1>4, <1>5, <2>3, <3>1
      <4> QED
        BY <1>2, <1>4, <2>2, <2>4, <3>1, <4>1
    <3> QED
      BY <1>1, <1>20, <3>1 DEF UserOK
  <2>6. CountOK(u)'
    <3>1. calm' => client'[u] = "calling"
      BY <1>1, <1>4, <1>5
    <3> QED
      BY <1>2, <2>2, <3>1 DEF CountOK, Counts
  <2>7. OthersSee(u)
    BY <1>1, <1>2, <1>5, <2>2, <2>3 DEF OthersSee
  <2>8. UsersOK'
    BY <1>1, <1>2, <2>5, <2>6, <2>7, OthersKeep
  <2> QED
    BY <1>5, <1>7, <2>3, <2>8, CountKept DEF CountedOK
<1> QED
  BY <1>2, <1>6, <1>7 DEF AddChnl

(* openMic.                                                                *)
LEMMA OpenProtocol ==
  ASSUME IInv, ProtocolInv, HistoryOK, OpenMic
  PROVE  UsersOK' /\ CountedOK'
<1> USE DEF mcuVars, mpuVars, faultVars, clientVars
<1>1. /\ srv.at = "open" /\ job # 0 /\ srv.req.type = "INVITE" /\ srv.port \in Port
      /\ UNCHANGED <<client, calls, told, net, job, APCs, upset, runningChnl>>
      /\ Push("open", srv.req.user, None) /\ Goto("answer")
  BY DEF OpenMic, IInv, ServerOK
<1>2. PICK u \in User : /\ u = srv.req.user /\ At(u) = "open"
                        /\ \A w \in User : w # u => At(w) = "recv"
  BY <1>1, ServedIs
<1>20. PICK n, p : n = calls[u] /\ p = srv.port
  OBVIOUS
<1>3. u \notin upset =>
        Phase(client[u], n, told[u], OfUser(u), "open", srv.req.call, p, ChnlOf(u))
  BY <1>2, <1>20 DEF ProtocolInv, UserOK
<1>4. u \notin upset =>
        /\ client[u] = "calling" /\ OfUser(u) = {} /\ srv.req.call = n
        /\ ChnlOf(u) = [port |-> p, mic |-> FALSE]
  <2>1. client[u] \in {"idle", "calling", "up", "ending"}
    BY <1>2 DEF IInv, ClientOK
  <2> QED
    BY <1>3, <2>1 DEF Phase
<1>5. /\ calm' => calm /\ u \notin upset /\ runningChnl = Cardinality(WithChnl)
      /\ \A w \in User : OfUser(w)' = OfUser(w)
  BY <1>1, <1>2 DEF HistoryOK, ProtocolInv, OfUser
<1>6. srv'.at = "answer" /\ srv'.port = p /\ srv'.req = srv.req
  BY <1>1, <1>20 DEF Goto, IInv, ServerOK, ServedBy
<1>7. At(u)' = "answer" /\ \A w \in User : w # u => At(w)' = "recv"
  BY <1>2, <1>6 DEF At, Served
<1>8. [type |-> "open", user |-> u, port |-> None] \in Event
  BY <1>2 DEF Event
<1>9. \A w \in User : ChnlOf(w)' = Effect([type |-> "open", user |-> u, port |-> None], w, ChnlOf(w))
  BY <1>1, <1>2, <1>8, ChnlPushed
<1>10. \A w \in User : w # u => ChnlOf(w)' = ChnlOf(w)
  BY <1>2, <1>9, NoEffect
<1>11. /\ [port |-> p, mic |-> FALSE] # NoChnl /\ [port |-> p, mic |-> TRUE] # NoChnl
       /\ [[port |-> p, mic |-> FALSE] EXCEPT !.mic = TRUE] = [port |-> p, mic |-> TRUE]
  <2>1. p # None
    BY <1>1, <1>20, SignallingAssumption
  <2>2. [port |-> p, mic |-> FALSE] # NoChnl /\ [port |-> p, mic |-> TRUE] # NoChnl
    BY <2>1 DEF NoChnl
  <2>3. [[port |-> p, mic |-> FALSE] EXCEPT !.mic = TRUE] = [port |-> p, mic |-> TRUE]
    BY <1>1, <1>20, Opened
  <2> QED
    BY <2>2, <2>3
<1>12. u \notin upset => ChnlOf(u)' = [port |-> p, mic |-> TRUE]
  <2>1. ASSUME u \notin upset PROVE ChnlOf(u)' = [ChnlOf(u) EXCEPT !.mic = TRUE]
    <3>1. ChnlOf(u) # NoChnl
      BY <1>4, <1>11, <2>1
    <3> QED
      BY <1>2, <1>9, <3>1, OpenEffect
  <2> QED
    BY <1>4, <1>11, <2>1
<1>13. u \notin upset =>
         Phase("calling", n, told[u], {}, "answer", n, p, [port |-> p, mic |-> TRUE])
  BY DEF Phase
<1>14. UserOK(u)'
  <2>1. ASSUME u \notin upset
        PROVE  Phase(client[u], n, told[u], OfUser(u)', At(u)', srv'.req.call, srv'.port, ChnlOf(u)')
    BY <1>2, <1>4, <1>5, <1>6, <1>7, <1>12, <1>13, <2>1
  <2> QED
    BY <1>1, <1>20, <2>1 DEF UserOK
<1>15. CountOK(u)'
  <2>1. calm' => client'[u] = "calling"
    BY <1>1, <1>4, <1>5
  <2> QED
    BY <1>7, <2>1 DEF CountOK, Counts
<1>16. OthersSee(u)
  BY <1>1, <1>2, <1>5, <1>7, <1>10 DEF OthersSee
<1>17. UsersOK'
  BY <1>1, <1>2, <1>14, <1>15, <1>16, OthersKeep
<1>18. ASSUME calm' PROVE runningChnl' = Cardinality(WithChnl')
  <2>1. ChnlOf(u) # NoChnl /\ ChnlOf(u)' # NoChnl
    BY <1>4, <1>5, <1>11, <1>12, <1>18
  <2>2. Cardinality(WithChnl') = Cardinality(WithChnl)
    BY <1>2, <1>10, <2>1, ChannelsAre
  <2> QED
    BY <1>1, <1>5, <1>18, <2>2
<1> QED
  BY <1>17, <1>18 DEF CountedOK

(* The answer to an INVITE.                                                *)
LEMMA AnswerProtocol ==
  ASSUME IInv, ProtocolInv, HistoryOK, AnswerINVITE
  PROVE  UsersOK'
<1> USE DEF mcuVars, mpuVars, faultVars, clientVars
<1>1. /\ srv.at = "answer" /\ job # 0 /\ srv.req.type = "INVITE"
      /\ UNCHANGED <<client, calls, told, job, APCs, eventQue, upset>>
      /\ net' = net \cup Reply("INVITE OK", srv.req, srv.port) /\ srv' = Idle
  BY DEF AnswerINVITE, IInv, ServerOK
<1>2. PICK u \in User : /\ u = srv.req.user /\ At(u) = "answer"
                        /\ \A w \in User : w # u => At(w) = "recv"
  BY <1>1, ServedIs
<1>3. PICK n, p, R : n = calls[u] /\ p = srv.port /\ R = Reply("INVITE OK", srv.req, p)
  OBVIOUS
<1>4. \A r \in R : r.user = u /\ r.type = "INVITE OK" /\ r.call = srv.req.call /\ r.port = p
  <2>1. \A r \in R : r = Response("INVITE OK", u, srv.req.call, p)
    BY <1>2, <1>3 DEF Reply
  <2>2. LET r == Response("INVITE OK", u, srv.req.call, p)
        IN  r.user = u /\ r.type = "INVITE OK" /\ r.call = srv.req.call /\ r.port = p
    BY DEF Response
  <2> QED
    BY <2>1, <2>2
<1>5. client[u] # "idle" /\ n = srv.req.call => R # {}
  BY <1>2, <1>3 DEF Reply
<1>6. \A r, s \in R : r = s
  BY <1>3 DEF Reply
<1>7. u \notin upset =>
        Phase(client[u], n, told[u], OfUser(u), "answer", srv.req.call, p, ChnlOf(u))
  BY <1>2, <1>3 DEF ProtocolInv, UserOK
<1>8. u \notin upset =>
        /\ client[u] = "calling" /\ OfUser(u) = {} /\ srv.req.call = n
        /\ ChnlOf(u) = [port |-> p, mic |-> TRUE]
  <2>1. client[u] \in {"idle", "calling", "up", "ending"}
    BY <1>2 DEF IInv, ClientOK
  <2> QED
    BY <1>7, <2>1 DEF Phase
<1>9. \A w \in User : At(w)' = "recv"
  BY <1>1 DEF At, Served, Idle
<1>10. \A w \in User : ChnlOf(w)' = ChnlOf(w)
  BY <1>1, ChnlKept
<1>11. /\ OfUser(u)' = OfUser(u) \cup R
       /\ \A w \in User : w # u => OfUser(w)' = OfUser(w)
  BY <1>1, <1>3, <1>4 DEF OfUser
<1>12. \A c, q : u \notin upset =>
         Phase("calling", n, told[u], R, "recv", c, q, [port |-> p, mic |-> TRUE])
  <2>1. ASSUME u \notin upset PROVE R # {} /\ \A r \in R : r.call = n
    BY <1>4, <1>5, <1>8, <2>1
  <2> QED
    BY <1>4, <1>6, <2>1 DEF Phase
<1>13. UserOK(u)'
  <2>1. ASSUME u \notin upset
        PROVE  Phase(client[u], n, told[u], OfUser(u)', At(u)', srv'.req.call, srv'.port, ChnlOf(u)')
    <3>1. OfUser(u)' = R /\ ChnlOf(u)' = [port |-> p, mic |-> TRUE]
      BY <1>2, <1>8, <1>10, <1>11, <2>1
    <3> QED
      BY <1>2, <1>8, <1>9, <1>12, <2>1, <3>1
  <2> QED
    BY <1>1, <1>3, <2>1 DEF UserOK
<1>14. CountOK(u)'
  <2>1. calm' => client'[u] = "calling"
    BY <1>1, <1>2, <1>8 DEF HistoryOK, ProtocolInv
  <2> QED
    BY <1>2, <1>9, <2>1 DEF CountOK, Counts
<1>15. OthersSee(u)
  BY <1>1, <1>2, <1>9, <1>10, <1>11 DEF OthersSee
<1> QED
  BY <1>1, <1>2, <1>13, <1>14, <1>15, OthersKeep

(* removeChnl.                                                             *)
LEMMA RemoveProtocol ==
  ASSUME IInv, ProtocolInv, HistoryOK, RemoveChnl
  PROVE  UsersOK' /\ CountedOK'
<1> USE DEF mcuVars, mpuVars, faultVars, clientVars
<1>1. /\ srv.at = "remove"
      /\ UNCHANGED <<client, calls, told, net, job, APCs, upset>> /\ srv' = Idle
      /\ IF job = 0
         THEN UNCHANGED <<eventQue, runningChnl>>
         ELSE Push("remove", srv.req.user, None) /\ runningChnl' = runningChnl - 1
  BY DEF RemoveChnl
<1>2. PICK u \in User : /\ u = srv.req.user /\ At(u) = "remove"
                        /\ \A w \in User : w # u => At(w) = "recv"
  BY <1>1, ServedIs
<1>3. PICK n : n = calls[u]
  OBVIOUS
<1>4. u \notin upset =>
        Phase(client[u], n, told[u], OfUser(u), "remove", srv.req.call, srv.port, ChnlOf(u))
  BY <1>2, <1>3 DEF ProtocolInv, UserOK
<1>5. \A c, q : u \notin upset =>
        Phase(client[u], n, told[u], OfUser(u), "recv", c, q, NoChnl)
  BY <1>4 DEF Phase
<1>6. \A w \in User : At(w)' = "recv" /\ OfUser(w)' = OfUser(w)
  BY <1>1 DEF At, Served, Idle, OfUser
<1>7. ChnlOf(u)' = NoChnl /\ \A w \in User : w # u => ChnlOf(w)' = ChnlOf(w)
  <2>1. CASE job = 0
    <3>1. \A w \in User : ChnlOf(w)' = ChnlOf(w)
      BY <1>1, <2>1, ChnlKept
    <3>2. ChnlOf(u) = NoChnl
      BY <2>1 DEF ChnlOf
    <3> QED
      BY <1>2, <3>1, <3>2
  <2>2. CASE job # 0
    <3>1. [type |-> "remove", user |-> u, port |-> None] \in Event
      BY <1>2 DEF Event
    <3>2. Push("remove", u, None)
      BY <1>1, <1>2, <2>2
    <3>3. \A w \in User :
            ChnlOf(w)' = Effect([type |-> "remove", user |-> u, port |-> None], w, ChnlOf(w))
      BY <1>1, <2>2, <3>1, <3>2, ChnlPushed
    <3>4. ChnlOf(u)' = NoChnl
      BY <1>2, <3>3, RemoveEffect
    <3>5. \A w \in User : w # u => ChnlOf(w)' = ChnlOf(w)
      BY <1>2, <3>3, NoEffect
    <3> QED
      BY <3>4, <3>5
  <2> QED
    BY <2>1, <2>2
<1>8. calm' => /\ u \notin upset /\ runningChnl = Cardinality(WithChnl)
               /\ Counts(client[u], OfUser(u), "remove", ChnlOf(u))
  BY <1>2 DEF HistoryOK, ProtocolInv, CountOK
<1>9. UserOK(u)'
  <2>1. ASSUME u \notin upset
        PROVE  Phase(client[u], n, told[u], OfUser(u)', At(u)', srv'.req.call, srv'.port, ChnlOf(u)')
    BY <1>2, <1>5, <1>6, <1>7, <2>1
  <2> QED
    BY <1>1, <1>3, <2>1 DEF UserOK
<1>10. CountOK(u)'
  <2> SUFFICES ASSUME calm' PROVE Counts(client[u], OfUser(u), "recv", NoChnl)
    BY <1>1, <1>2, <1>6, <1>7 DEF CountOK
  <2>1. client[u] = "ending" => OfUser(u) # {} /\ \A d \in OfUser(u) : d.type = "BYE OK"
    BY <1>4, <1>8 DEF Phase, Counts
  <2> QED
    BY <2>1 DEF Counts
<1>11. OthersSee(u)
  BY <1>1, <1>2, <1>6, <1>7 DEF OthersSee
<1>12. UsersOK'
  BY <1>1, <1>2, <1>9, <1>10, <1>11, OthersKeep
<1>13. ASSUME calm' PROVE runningChnl' = Cardinality(WithChnl')
  <2>1. ChnlOf(u) # NoChnl
    BY <1>8, <1>13 DEF Counts
  <2>2. job # 0
    BY <2>1 DEF ChnlOf
  <2>3. Cardinality(WithChnl') = Cardinality(WithChnl) - 1
    BY <1>2, <1>7, <2>1, ChannelsAre
  <2> QED
    BY <1>1, <1>8, <1>13, <2>2, <2>3
<1> QED
  BY <1>12, <1>13 DEF CountedOK

(***************************************************************************)
(* Jobs, and the event threads.                                            *)
(***************************************************************************)
LEMMA MESSAGETaken ==
  ASSUME NEW type, Receive(MESSAGE(type))
  PROVE  \A w \in User : OfUser(w)' = OfUser(w)
<1>1. net' = net \ {MESSAGE(type)} \/ net' = net
  BY DEF Receive
<1> QED
  BY <1>1, MESSAGEs DEF OfUser

(* createMpu: the new MediaProcessUnit has no channels, as the job had.    *)
LEMMA CreateProtocol ==
  ASSUME IInv, ProtocolInv, HistoryOK, CreateMpu
  PROVE  UsersOK' /\ CountedOK'
<1> USE DEF mpuVars, clientVars
<1>1. UNCHANGED <<client, calls, told, srv, upset, runningChnl>> /\ Receive(MESSAGE("audio"))
  BY DEF CreateMpu
<1>2. \A w \in User : ChnlOf(w)' = ChnlOf(w)
  BY ChnlCreated DEF ProtocolInv
<1>3. \A w \in User : OfUser(w)' = OfUser(w) /\ At(w)' = At(w)
  BY <1>1, MESSAGETaken DEF At, Served
<1>4. \A w \in User : Same(w)
  BY <1>1, <1>2, <1>3 DEF Same
<1>5. UsersOK'
  BY <1>1, <1>4, SameKeeps DEF UsersOK, ProtocolInv, HistoryOK
<1> QED
  BY <1>1, <1>2, <1>5, CountKept DEF CountedOK, ProtocolInv, HistoryOK

(* endMpu: every user is upset that the job ends.                          *)
LEMMA EndProtocol ==
  ASSUME IInv, ProtocolInv, HistoryOK, EndMpu
  PROVE  UsersOK' /\ CountedOK'
<1> USE DEF clientVars
<1>1. UNCHANGED <<client, calls, told, srv, runningChnl, APCs>> /\ Receive(MESSAGE("close"))
  BY DEF EndMpu
<1>2. CASE job = 0
  <2>1. UNCHANGED <<job, eventQue, upset>>
    BY <1>2 DEF EndMpu
  <2>2. \A w \in User : ChnlOf(w)' = ChnlOf(w)
    BY <1>1, <2>1, ChnlKept
  <2>3. \A w \in User : OfUser(w)' = OfUser(w) /\ At(w)' = At(w)
    BY <1>1, MESSAGETaken DEF At, Served
  <2>4. \A w \in User : Same(w)
    BY <1>1, <2>2, <2>3 DEF Same
  <2>5. UsersOK'
    BY <2>1, <2>4, SameKeeps DEF UsersOK, ProtocolInv, HistoryOK
  <2> QED
    BY <1>1, <2>2, <2>5, CountKept DEF CountedOK, ProtocolInv, HistoryOK
<1>3. CASE job # 0
  <2>1. upset' = upset \cup User /\ (calm' => calm /\ User = {})
    BY <1>3 DEF EndMpu, Upsets, IInv, FaultOK
  <2>2. UsersOK'
    BY <2>1 DEF UsersOK, UserOK, CountOK
  <2>3. ASSUME calm' PROVE runningChnl' = Cardinality(WithChnl')
    <3>1. WithChnl = {} /\ WithChnl' = {}
      BY <2>1, <2>3 DEF WithChnl
    <3>2. runningChnl = Cardinality(WithChnl)
      BY <2>1, <2>3 DEF ProtocolInv
    <3> QED
      BY <1>1, <3>1, <3>2
  <2> QED
    BY <2>2, <2>3 DEF CountedOK
<1> QED
  BY <1>2, <1>3

(* To handle an event changes nothing of what will be.                     *)
LEMMA EventProtocol ==
  ASSUME IInv, ProtocolInv, HistoryOK, NEW m \in Mpu, EventThread(m)
  PROVE  UsersOK' /\ CountedOK'
<1>1. UNCHANGED <<client, calls, told, net, srv, upset, runningChnl>>
  BY DEF EventThread, HandleStop, HandleAdd, HandleOpen, HandleRemove, Handles, clientVars, mcuVars,
     faultVars
<1>2. \A w \in User : ChnlOf(w)' = ChnlOf(w)
  BY ChnlHandled
<1>3. \A w \in User : OfUser(w)' = OfUser(w) /\ At(w)' = At(w)
  BY <1>1 DEF At, Served, OfUser
<1>4. \A w \in User : Same(w)
  BY <1>1, <1>2, <1>3 DEF Same
<1>5. UsersOK'
  BY <1>1, <1>4, SameKeeps DEF UsersOK, ProtocolInv, HistoryOK
<1> QED
  BY <1>1, <1>2, <1>5, CountKept DEF CountedOK, ProtocolInv, HistoryOK

-----------------------------------------------------------------------------
LEMMA InitProtocol == Init => ProtocolInv
<1> SUFFICES ASSUME Init PROVE ProtocolInv
  OBVIOUS
<1>1. NewInv
  BY DEF Init, NewInv
<1>2. \A u \in User : ChnlOf(u) = NoChnl /\ OfUser(u) = {} /\ At(u) = "recv"
  BY DEF Init, ChnlOf, OfUser, At, Served, Idle
<1>3. \A u \in User : client[u] = "idle" /\ calls[u] = 0 /\ told[u] = None
  BY DEF Init
<1>4. \A c, p : Phase("idle", 0, None, {}, "recv", c, p, NoChnl)
  BY DEF Phase
<1>5. Counts("idle", {}, "recv", NoChnl)
  BY DEF Counts
<1>6. \A u \in User : UserOK(u) /\ CountOK(u)
  BY <1>2, <1>3, <1>4, <1>5 DEF UserOK, CountOK
<1>7. WithChnl = {}
  BY <1>2 DEF WithChnl
<1>8. runningChnl = Cardinality(WithChnl) /\ upset = {}
  BY <1>7, FS_EmptySet DEF Init
<1> QED
  BY <1>1, <1>6, <1>8 DEF ProtocolInv

LEMMA ProtocolStep == IInv /\ ProtocolInv /\ [Next]_vars => ProtocolInv'
<1> SUFFICES ASSUME IInv, ProtocolInv, [Next]_vars PROVE ProtocolInv'
  OBVIOUS
<1>0. HistoryOK /\ NewInv'
  BY HistoryStep, NewStep DEF ProtocolInv
<1> SUFFICES UsersOK' /\ CountedOK'
  BY <1>0 DEF UsersOK, CountedOK, ProtocolInv, HistoryOK
<1>1. ASSUME UNCHANGED <<job, eventQue, APCs, runningChnl>> PROVE CountedOK'
  BY <1>0, <1>1, ChnlKept, CountKept DEF CountedOK, ProtocolInv, HistoryOK
<1>2. ASSUME NEW u \in User, Invite(u) \/ HangUp(u) \/ Repeat(u) \/ GiveUp(u)
      PROVE  UsersOK' /\ CountedOK'
  <2>1. UNCHANGED <<job, eventQue, APCs, runningChnl>>
    BY <1>2 DEF Invite, HangUp, Repeat, GiveUp, mcuVars, mpuVars
  <2> QED
    BY <1>0, <1>1, <1>2, <2>1, UserProtocol
<1>3. ASSUME \/ \E u \in User, d \in net : Answered(u, d) \/ HungUp(u, d)
             \/ \E type \in {"audio", "close"} : SendMESSAGE(type)
             \/ \E d \in net : Lose(d)
      PROVE  UsersOK' /\ CountedOK'
  <2>1. UNCHANGED <<job, eventQue, APCs, runningChnl>>
    BY <1>3 DEF Answered, HungUp, SendMESSAGE, Lose, mcuVars, mpuVars
  <2> QED
    BY <1>0, <1>1, <1>3, <2>1, NetProtocol
<1>4. ASSUME NEW d \in net, ReceiveINVITE(d) \/ ReceiveBYE(d) PROVE UsersOK' /\ CountedOK'
  <2>1. UNCHANGED <<job, eventQue, APCs, runningChnl>>
    BY <1>4 DEF ReceiveINVITE, ReceiveBYE, mcuVars, mpuVars
  <2> QED
    BY <1>0, <1>1, <1>4, <2>1, InviteProtocol, ByeProtocol
<1>5. CASE AnswerINVITE
  <2>1. UNCHANGED <<job, eventQue, APCs, runningChnl>>
    BY <1>5 DEF AnswerINVITE, mcuVars, mpuVars
  <2>2. CountedOK'
    BY <1>1, <2>1
  <2> QED
    BY <1>0, <2>1, <2>2, <1>5, AnswerProtocol
<1>6. ASSUME AddChnl \/ OpenMic \/ RemoveChnl \/ CreateMpu \/ EndMpu PROVE UsersOK' /\ CountedOK'
  BY <1>0, <1>6, AddProtocol, OpenProtocol, RemoveProtocol, CreateProtocol, EndProtocol
<1>7. CASE ReceiveThread
  <2>1. CASE \E d \in net : ReceiveINVITE(d) \/ ReceiveBYE(d)
    BY <1>4, <2>1
  <2>2. CASE AnswerINVITE
    BY <1>5, <2>2
  <2>3. CASE AddChnl \/ OpenMic \/ RemoveChnl \/ CreateMpu \/ EndMpu
    BY <1>6, <2>3
  <2> QED
    BY <1>7, <2>1, <2>2, <2>3 DEF ReceiveThread
<1>8. ASSUME NEW m \in Mpu, EventThread(m) PROVE UsersOK' /\ CountedOK'
  BY <1>0, <1>8, EventProtocol
<1>9. CASE UNCHANGED vars
  <2>1. UNCHANGED <<client, calls, told, net, srv, upset, calm, job, eventQue, APCs, runningChnl>>
    BY <1>9 DEF vars, clientVars, mcuVars, mpuVars, faultVars
  <2>2. \A w \in User : Same(w)
    BY <2>1, ChnlKept DEF Same, OfUser, At, Served
  <2>3. UsersOK'
    BY <2>1, <2>2, SameKeeps DEF UsersOK, ProtocolInv
  <2>4. CountedOK'
    BY <1>1, <2>1
  <2> QED
    BY <2>3, <2>4
<1> QED
  <2>1. CASE \E u \in User : Invite(u) \/ HangUp(u) \/ Repeat(u) \/ GiveUp(u)
    BY <1>2, <2>1
  <2>2. CASE \E m \in Mpu : EventThread(m)
    BY <1>8, <2>2
  <2> QED
    BY <1>3, <1>7, <1>9, <2>1, <2>2 DEF Next

LEMMA Protocol == Spec => [](IInv /\ ProtocolInv)
BY InitOK, TypeStep, InitProtocol, ProtocolStep, PTL DEF Spec

(* SessionAgrees holds in every behaviour: a user that met no fault since  *)
(* its last clean call and whose call is up is listened to, or will be, on *)
(* the port that handleINVITE told it.                                     *)
THEOREM SessionsAgree == Spec => []SessionAgrees
<1>1. ProtocolInv => SessionAgrees
  BY DEF ProtocolInv, UserOK, Phase, SessionAgrees
<1> QED
  BY <1>1, Protocol, PTL

(* NoGhost holds in every behaviour: such a user that is idle, and of      *)
(* which nothing is under way, has no channel left, whatever requests were *)
(* lost or repeated (handleBYE, removeChnl).                               *)
THEOREM NoGhosts == Spec => []NoGhost
<1>1. ProtocolInv => NoGhost
  BY DEF ProtocolInv, UserOK, Phase, At, NoGhost
<1> QED
  BY <1>1, Protocol, PTL

(* CountAgrees holds in every behaviour: until the first fault runningChnl *)
(* is the number of the channels there are, or will be (addChnl,           *)
(* removeChnl).                                                            *)
THEOREM CountsAgree == Spec => []CountAgrees
<1>1. ProtocolInv => CountAgrees
  BY DEF ProtocolInv, WithChnl, CountAgrees
<1> QED
  BY <1>1, Protocol, PTL
=============================================================================
