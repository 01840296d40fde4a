----------------------------- MODULE Signalling -----------------------------
(***************************************************************************)
(* A SIP call from end to end: the users and the network between them and  *)
(* the MCU, the receive thread of SipProcessUnit (src/src/spu.cpp), the    *)
(* operations of MediaControlUnit it calls (src/src/mcu.cpp) and the event *)
(* thread of each MediaProcessUnit (src/src/mpu.cpp), as far as it decides *)
(* which channels there are and which port each listens on.                *)
(*                                                                         *)
(* SIP runs over UDP: a datagram may be lost or arrive twice. The server   *)
(* keeps no transactions and no dialogs: it looks neither at the Call-ID   *)
(* nor at the CSeq, takes the user's name in From as the channel id,       *)
(* answers once and never retransmits. The users, external to this code,   *)
(* repeat a request that is not answered and may give up on one.           *)
(*                                                                         *)
(* The job is one conference; it may be ended and created again, and each  *)
(* time a new MediaProcessUnit serves it. Ports has what becomes of a port *)
(* and JobControl what becomes of a MediaProcessUnit.                      *)
(***************************************************************************)
EXTENDS Integers, Sequences, FiniteSets, FiniteSetsExt

CONSTANTS
  User,      \* users, and so channel ids
  Port,      \* the ports of the PortTool
  MaxJobs,   \* bound: how often the job is created
  MaxCalls,  \* bound: calls of all users together
  MaxFault,  \* bound: datagrams lost or doubled, calls given up
  None

ASSUME SignallingAssumption ==
  /\ MaxJobs \in Nat /\ MaxCalls \in Nat /\ MaxFault \in Nat
  /\ None \notin User \cup Port
  /\ IsFiniteSet(User)

VARIABLES
  client,      \* user -> "idle", "calling", "up" or "ending"
  calls,       \* user -> the number of its last call
  told,        \* user -> the port the answer named, while the call is up
  net,         \* datagrams under way
  job,         \* the MediaProcessUnit in the job table, 0 if none
  born,        \* how many there have been
  srv,         \* where the receive thread is, with which request and port
  runningChnl, \* MCUStatus::runningChnl; a negative value is a wrapped uint64
  eventQue,    \* MPU -> events it has not handled
  APCs,        \* MPU -> user -> its channel's port and microphone
  faults,      \* how many faults there have been
  upset,       \* history: users that met a fault since they last called from a clean state
  calm         \* history: no fault has met anybody yet

clientVars == <<client, calls, told>>
mcuVars    == <<job, born, runningChnl>>
mpuVars    == <<eventQue, APCs>>
faultVars  == <<faults, upset, calm>>
vars == <<clientVars, net, srv, mcuVars, mpuVars, faultVars>>

Mpu == 1..MaxJobs
NoChnl == [port |-> None, mic |-> FALSE]

Request(type, u, n) == [type |-> type, user |-> u, call |-> n, port |-> None]
Response(type, u, n, p) == [type |-> type, user |-> u, call |-> n, port |-> p]
MESSAGE(type) == Request(type, None, 0)
RequestType == {"INVITE", "BYE"}
ResponseType == {"INVITE OK", "BYE OK"}

Datagram ==
  [type : RequestType \cup ResponseType, user : User, call : Nat, port : Port \cup {None}]
    \cup {MESSAGE("audio"), MESSAGE("close")}

Idle == [at |-> "recv", req |-> MESSAGE("close"), port |-> None]
Event == [type : {"add", "open", "remove"}, user : User, port : Port \cup {None}]
           \cup {[type |-> "stop", user |-> None, port |-> None]}

Init ==
  /\ client = [u \in User |-> "idle"]
  /\ calls = [u \in User |-> 0]
  /\ told = [u \in User |-> None]
  /\ net = {}
  /\ job = 0 /\ born = 0 /\ runningChnl = 0
  /\ srv = Idle
  /\ eventQue = [m \in Mpu |-> <<>>]
  /\ APCs = [m \in Mpu |-> [u \in User |-> NoChnl]]
  /\ faults = 0 /\ upset = {} /\ calm = TRUE

-----------------------------------------------------------------------------
(* What the handling of an event leaves of the channel of u.               *)
Effect(e, u, chnl) ==
  IF e.user \notin {u, None} THEN chnl
  ELSE CASE e.type = "add" /\ chnl = NoChnl -> [port |-> e.port, mic |-> FALSE]
         [] e.type = "open" /\ chnl # NoChnl -> [chnl EXCEPT !.mic = TRUE]
         [] e.type \in {"remove", "stop"} -> NoChnl
         [] OTHER -> chnl

(* ... and the handling of these events, one after the other.              *)
After(events, u, chnl) ==
  LET upTo[i \in 0 .. Len(events)] ==
        IF i = 0 THEN chnl ELSE Effect(events[i], u, upTo[i - 1])
  IN  upTo[Len(events)]

(* What the channel of a user will be once m has handled its events.       *)
Becomes(m, u) == After(eventQue[m], u, APCs[m][u])

(* The channel the job has, or is about to have, for a user.               *)
ChnlOf(u) == IF job = 0 THEN NoChnl ELSE Becomes(job, u)

OfUser(u) == {d \in net : d.user = u}
Served(u) == srv.at # "recv" /\ srv.req.user = u

Clean(u) == OfUser(u) = {} /\ ~Served(u) /\ ChnlOf(u) = NoChnl

Upsets(us) == upset' = upset \cup us /\ calm' = (calm /\ us = {})

-----------------------------------------------------------------------------
(* The users.                                                              *)

Invite(u) ==
  /\ client[u] = "idle"
  /\ MapThenSumSet(LAMBDA v : calls[v], User) < MaxCalls  \* bound only
  /\ client' = [client EXCEPT ![u] = "calling"]
  /\ calls' = [calls EXCEPT ![u] = @ + 1]
  /\ net' = net \cup {Request("INVITE", u, calls[u] + 1)}
  /\ upset' = IF Clean(u) THEN upset \ {u} ELSE upset
  /\ UNCHANGED <<told, srv, mcuVars, mpuVars, faults, calm>>

Answered(u, d) ==
  /\ client[u] = "calling" /\ d \in net
  /\ d.type = "INVITE OK" /\ d.user = u /\ d.call = calls[u]
  /\ client' = [client EXCEPT ![u] = "up"]
  /\ told' = [told EXCEPT ![u] = d.port]
  /\ net' = net \ {d}
  /\ UNCHANGED <<calls, srv, mcuVars, mpuVars, faultVars>>

HangUp(u) ==
  /\ client[u] = "up"
  /\ client' = [client EXCEPT ![u] = "ending"]
  /\ told' = [told EXCEPT ![u] = None]
  /\ net' = net \cup {Request("BYE", u, calls[u])}
  /\ UNCHANGED <<calls, srv, mcuVars, mpuVars, faultVars>>

HungUp(u, d) ==
  /\ client[u] = "ending" /\ d \in net
  /\ d.type = "BYE OK" /\ d.user = u /\ d.call = calls[u]
  /\ client' = [client EXCEPT ![u] = "idle"]
  /\ net' = net \ {d}
  /\ UNCHANGED <<calls, told, srv, mcuVars, mpuVars, faultVars>>

(* A timer repeats the request when neither it nor an answer is under way. *)
Repeat(u) ==
  /\ client[u] \in {"calling", "ending"} /\ ~Served(u)
  /\ ~\E d \in OfUser(u) : d.call = calls[u]
  /\ net' = net \cup {Request(IF client[u] = "calling" THEN "INVITE" ELSE "BYE", u, calls[u])}
  /\ UNCHANGED <<clientVars, srv, mcuVars, mpuVars, faultVars>>

(* Another timer, or a crash: the user forgets its call. An answer nobody  *)
(* waits for any more is not kept.                                         *)
GiveUp(u) ==
  /\ client[u] # "idle" /\ faults < MaxFault
  /\ client' = [client EXCEPT ![u] = "idle"]
  /\ told' = [told EXCEPT ![u] = None]
  /\ faults' = faults + 1 /\ Upsets({u})
  /\ net' = {d \in net : d.user = u => d.type \in RequestType}
  /\ UNCHANGED <<calls, srv, mcuVars, mpuVars>>

(* Somebody creates the job, or ends it, by a MESSAGE.                     *)
SendMESSAGE(type) ==
  /\ \/ type = "audio" /\ job = 0 /\ born < MaxJobs  \* the last is a bound only
     \/ type = "close" /\ job # 0
  /\ net' = net \cup {MESSAGE(type)}
  /\ UNCHANGED <<clientVars, srv, mcuVars, mpuVars, faultVars>>

-----------------------------------------------------------------------------
(* The network. A lost request is repeated; what upsets a user is that the *)
(* server has handled its request and it does not know.                    *)

Lose(d) ==
  /\ faults < MaxFault
  /\ net' = net \ {d}
  /\ faults' = faults + 1
  /\ upset' = IF d.type = "INVITE OK" THEN upset \cup {d.user} ELSE upset
  /\ calm' = (calm /\ d.type \notin ResponseType)
  /\ UNCHANGED <<clientVars, srv, mcuVars, mpuVars>>

(* The receive thread takes a datagram, of which the network may keep a    *)
(* copy for later.                                                         *)
Receive(d) ==
  /\ srv.at = "recv" /\ d \in net
  /\ \/ net' = net \ {d} /\ UNCHANGED faults
     \/ faults < MaxFault /\ faults' = faults + 1 /\ UNCHANGED net

Doubled == IF faults' # faults THEN {srv'.req.user} \ {None} ELSE {}

-----------------------------------------------------------------------------
(* The receive thread of SipProcessUnit.                                   *)

(* reportMediaInfo; in this module the MPU of the table always runs.       *)
(* Mutation: events are taken last in, first out.                          *)
PushLifo(type, u, p) ==
  eventQue' = [eventQue EXCEPT ![job] = <<[type |-> type, user |-> u, port |-> p]>> \o @]

Push(type, u, p) ==
  eventQue' = [eventQue EXCEPT ![job] = Append(@, [type |-> type, user |-> u, port |-> p])]

(* What a response adds to the network.                                    *)
Reply(type, d, p) ==
  {Response(type, u, d.call, p) : u \in {v \in {d.user} : client[v] # "idle" /\ calls[v] = d.call}}

Goto(at) == srv' = [srv EXCEPT !.at = at]

(* handleINVITE: nobody is told when there is no such job.                 *)
ReceiveINVITE(d) ==
  /\ d.type = "INVITE" /\ Receive(d)
  /\ srv' = [at |-> IF job = 0 THEN "recv" ELSE "add", req |-> d, port |-> None]
  /\ Upsets(Doubled)
  /\ UNCHANGED <<clientVars, mcuVars, mpuVars>>

PortsInUse ==
  {APCs[m][u].port : m \in Mpu, u \in User}
    \cup UNION {{eventQue[m][i].port : i \in DOMAIN eventQue[m]} : m \in Mpu}

(* addChnl; without a port the user is not told either. Whether there is   *)
(* such a channel already is found out by the event thread.                *)
AddChnl ==
  /\ srv.at = "add"
  /\ \/ \E p \in Port \ PortsInUse :
          /\ Push("add", srv.req.user, p)
          /\ srv' = [srv EXCEPT !.at = "open", !.port = p]
          /\ runningChnl' = runningChnl + 1
     \/ /\ Port \subseteq PortsInUse
        /\ Goto("recv")
        /\ UNCHANGED <<eventQue, runningChnl>>
  /\ UNCHANGED <<clientVars, net, job, born, APCs, faultVars>>

OpenMic ==
  /\ srv.at = "open"
  /\ Push("open", srv.req.user, None)
  /\ Goto("answer")
  /\ UNCHANGED <<clientVars, net, mcuVars, APCs, faultVars>>

AnswerINVITE ==
  /\ srv.at = "answer"
  /\ net' = net \cup Reply("INVITE OK", srv.req, srv.port)
  /\ srv' = Idle
  /\ UNCHANGED <<clientVars, mcuVars, mpuVars, faultVars>>

(* handleBYE answers first; removeChnl then counts and reports, whether or *)
(* not there is such a channel.                                            *)
ReceiveBYE(d) ==
  /\ d.type = "BYE"
  /\ srv.at = "recv" /\ d \in net
  /\ \/ net' = (net \ {d}) \cup Reply("BYE OK", d, None) /\ UNCHANGED faults
     \/ /\ faults < MaxFault /\ faults' = faults + 1
        /\ net' = net \cup Reply("BYE OK", d, None)
  /\ srv' = [at |-> "remove", req |-> d, port |-> None]
  /\ Upsets(Doubled)
  /\ UNCHANGED <<clientVars, mcuVars, mpuVars>>

(* Mutation: the channel is not counted down.                              *)
RemoveChnlUncounted ==
  /\ srv.at = "remove" /\ srv' = Idle
  /\ IF job = 0 THEN UNCHANGED eventQue ELSE Push("remove", srv.req.user, None)
  /\ UNCHANGED <<clientVars, net, mcuVars, APCs, faultVars>>

RemoveChnl ==
  /\ srv.at = "remove" /\ srv' = Idle
  /\ IF job = 0
     THEN UNCHANGED <<eventQue, runningChnl>>
     ELSE Push("remove", srv.req.user, None) /\ runningChnl' = runningChnl - 1
  /\ UNCHANGED <<clientVars, net, job, born, APCs, faultVars>>

(* handleMESSAGE: createMpu, refused if the job exists ...                 *)
CreateMpu ==
  /\ Receive(MESSAGE("audio"))
  /\ IF job = 0 /\ born < MaxJobs  \* the second is a bound only
     THEN job' = born + 1 /\ born' = born + 1
     ELSE UNCHANGED <<job, born>>
  /\ UNCHANGED <<clientVars, srv, runningChnl, mpuVars, upset, calm>>

(* ... and endMpu, which takes the job off the table and leaves the        *)
(* channels to the thread that stops the MPU. They are not counted down.   *)
EndMpu ==
  /\ Receive(MESSAGE("close"))
  /\ IF job = 0
     THEN UNCHANGED <<job, eventQue, upset, calm>>
     ELSE job' = 0 /\ Push("stop", None, None) /\ Upsets(User)
  /\ UNCHANGED <<clientVars, srv, born, runningChnl, APCs>>

ReceiveThread ==
  \/ \E d \in net : ReceiveINVITE(d) \/ ReceiveBYE(d)
  \/ AddChnl \/ OpenMic \/ AnswerINVITE \/ RemoveChnl
  \/ CreateMpu \/ EndMpu

-----------------------------------------------------------------------------
(* The event thread of an MPU, which handles its events in order.          *)

Handles(m, type, u) ==
  /\ eventQue[m] # <<>> /\ Head(eventQue[m]).type = type /\ Head(eventQue[m]).user = u
  /\ eventQue' = [eventQue EXCEPT ![m] = Tail(@)]
  /\ UNCHANGED <<clientVars, net, srv, mcuVars, faultVars>>

(* addChannel: an id that exists keeps its channel, and the new port goes  *)
(* back.                                                                   *)
HandleAdd(m, u) ==
  /\ Handles(m, "add", u)
  /\ APCs' = IF APCs[m][u] = NoChnl
             THEN [APCs EXCEPT ![m][u] = [port |-> Head(eventQue[m]).port, mic |-> FALSE]]
             ELSE APCs

HandleOpen(m, u) ==
  /\ Handles(m, "open", u)
  /\ APCs' = IF APCs[m][u] = NoChnl THEN APCs ELSE [APCs EXCEPT ![m][u].mic = TRUE]

(* Mutation: a channel with its microphone open stays.                     *)
HandleRemoveMuted(m, u) ==
  /\ Handles(m, "remove", u)
  /\ APCs' = IF APCs[m][u].mic THEN APCs ELSE [APCs EXCEPT ![m][u] = NoChnl]

HandleRemove(m, u) ==
  /\ Handles(m, "remove", u)
  /\ APCs' = [APCs EXCEPT ![m][u] = NoChnl]

(* The stop event: stop() closes every channel.                            *)
HandleStop(m) ==
  /\ Handles(m, "stop", None)
  /\ APCs' = [APCs EXCEPT ![m] = [u \in User |-> NoChnl]]

EventThread(m) ==
  \/ HandleStop(m)
  \/ \E u \in User : HandleAdd(m, u) \/ HandleOpen(m, u) \/ HandleRemove(m, u)

-----------------------------------------------------------------------------
Next ==
  \/ \E u \in User : Invite(u) \/ HangUp(u) \/ Repeat(u) \/ GiveUp(u)
  \/ \E u \in User, d \in net : Answered(u, d) \/ HungUp(u, d)
  \/ \E type \in {"audio", "close"} : SendMESSAGE(type)
  \/ \E d \in net : Lose(d)
  \/ ReceiveThread
  \/ \E m \in Mpu : EventThread(m)

Spec == Init /\ [][Next]_vars

-----------------------------------------------------------------------------
TypeOK ==
  /\ client \in [User -> {"idle", "calling", "up", "ending"}]
  /\ calls \in [User -> Nat]
  /\ told \in [User -> Port \cup {None}]
  /\ \A u \in User : told[u] # None <=> client[u] = "up"
  /\ net \subseteq Datagram
  /\ job \in 0..born /\ born \in 0..MaxJobs /\ runningChnl \in Int
  /\ srv \in [at : {"recv", "add", "open", "answer", "remove"}, req : Datagram,
              port : Port \cup {None}]
  /\ srv.at \in {"add", "open", "answer"} => job # 0 /\ srv.req.type = "INVITE"
  /\ eventQue \in [Mpu -> Seq(Event)]
  /\ APCs \in [Mpu -> [User -> [port : Port \cup {None}, mic : BOOLEAN]]]
  /\ faults \in 0..MaxFault /\ upset \subseteq User /\ calm \in BOOLEAN

(* SessionAgrees: while its call is up, a user's channel listens, or will  *)
(* when the queued events are handled, on the port the user was told, with *)
(* its microphone open: however often it has called and hung up, whatever  *)
(* requests were lost on the way, and also when faults in earlier calls    *)
(* left the server wrong about it, once one hang-up has got through.       *)
SessionAgrees ==
  \A u \in User :
    client[u] = "up" /\ u \notin upset => ChnlOf(u) = [port |-> told[u], mic |-> TRUE]

(* CountAgrees: as long as no answer is lost, no request doubled, no call  *)
(* given up and no job ended, runningChnl is the number of the channels    *)
(* there are once the events are handled, though it is counted when an     *)
(* event is reported and not when it takes effect.                         *)
CountAgrees ==
  calm => runningChnl = Cardinality({u \in User : ChnlOf(u) # NoChnl})

(* NoGhost: when a user that met no fault since is idle and nothing of its *)
(* is under way, it has no channel that goes on listening and being mixed, *)
(* although the server looks at nothing but the user's name to tell an old *)
(* request from a new one.                                                 *)
NoGhost ==
  \A u \in User :
    client[u] = "idle" /\ u \notin upset /\ OfUser(u) = {} /\ ~Served(u) => ChnlOf(u) = NoChnl

(* PortIsListened: an INVITE is answered 200 OK when the MCU has processed *)
(* it, so the port the answer names is one it listens on for the user, as  *)
(* long as the job is there.                                               *)
PortIsListened ==
  \A u \in User : client[u] = "up" /\ job # 0 => ChnlOf(u).port = told[u]
=============================================================================
