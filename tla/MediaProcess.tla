---------------------------- MODULE MediaProcess ----------------------------
(***************************************************************************)
(* The media plane of one MediaProcessUnit (src/src/mpu.cpp): its event    *)
(* thread, which adds and removes channels and switches microphones, its   *)
(* work thread, which every round collects a frame of each open channel,   *)
(* mixes the loudest and sends each listener the mix of the others, and    *)
(* the thread of each AudioPorcessChnl (src/src/apc.cpp), reduced to what  *)
(* the other two see of it.                                                *)
(*                                                                         *)
(* apcLocker protects the channel table and mixerLocker the mixer; a step  *)
(* is one critical section, except that the work thread keeps apcLocker    *)
(* from Collect to Take, because a channel's buffer has its own lock and   *)
(* may change in between.                                                  *)
(*                                                                         *)
(* A frame is lengthStandard samples of one channel, numbered in the order *)
(* of arrival. A mix is the set of the frames added up in it, each with    *)
(* its place among those the mixer holds of its channel, so that a frame   *)
(* left behind is not taken for the new one; the empty set is silence.     *)
(***************************************************************************)
EXTENDS Integers, Sequences, FiniteSets, SequencesExt, FiniteSetsExt

CONSTANTS
  Channel,      \* channel ids
  MaxMix,       \* how many channels are mixed (5 in workingLoop)
  SilenceAfter, \* rounds without a source before silence is sent (5)
  Cap,          \* frames a channel's buffer holds before it is cut (6 or 20)
  Failing,      \* what may go wrong: subset of {"codec", "bind", "decode"}
  Requests,     \* bound on the kinds of event that clients cause
  MaxEvents,    \* bound on the events queued
  MaxFrame,     \* the frames of a channel are numbered 1..MaxFrame, cyclically
  None          \* no channel

ASSUME MediaProcessAssumption ==
  /\ MaxMix \in Nat \ {0} /\ SilenceAfter \in Nat \ {0} /\ Cap \in Nat \ {0}
  /\ Failing \subseteq {"codec", "bind", "decode"}
  /\ Requests \subseteq {"add", "remove", "open", "close"}
  /\ MaxEvents \in Nat /\ MaxFrame \in Nat \ {0}
  /\ None \notin Channel

VARIABLES
  status,   \* TaskStatus of the MPU; "crash" when a step was undefined
  eventQue, \* events reported and not yet handled
  evPc,     \* where the event thread is inside a handler
  evId,     \* the channel its handler works for
  users,    \* how often each channel stands in mpuInfo.userIdList
  apc,      \* state of each channel of the table APCs, "absent" if none
  mic,      \* micType of each channel
  srcBuffer,\* frames decoded and not yet taken, per channel
  arrived,  \* the number of a channel id's next frame
  streams,  \* the ids the mixer knows
  audioMap, \* what the mixer holds for each of them
  wpc,      \* where the work thread is in its round
  dst,      \* dstForm: the channels that get a frame this round
  sources,  \* chnlList: the channels whose frame is consumed this round
  loudest,  \* the first MaxMix of them
  took,     \* srcForm: the frames to be mixed this round
  toPush,   \* the part of srcForm not pushed yet
  out,      \* the values of dstForm: what each listener gets
  noNeedCount

chnlVars  == <<apc, mic, srcBuffer, arrived>>
mixVars   == <<streams, audioMap>>
roundVars == <<dst, sources, loudest, took, toPush, out, noNeedCount>>
evVars    == <<evPc, evId, users>>
vars == <<status, eventQue, evVars, chnlVars, mixVars, wpc, roundVars>>

Event == [type : {"add", "remove", "open", "close"}, id : Channel]
Present(c) == apc[c] # "absent"
Ready(c) == apc[c] \in {"ready", "muting", "receiving"}
ApcFree == wpc # "take"
NoFrames == [c \in {} |-> 0]

Init ==
  /\ status = "run"
  /\ eventQue = <<>> /\ evPc = "idle" /\ evId = None
  /\ users = [c \in Channel |-> 0]
  /\ apc = [c \in Channel |-> "absent"]
  /\ mic = [c \in Channel |-> "off"]
  /\ srcBuffer = [c \in Channel |-> <<>>]
  /\ arrived = [c \in Channel |-> 1]
  /\ streams = {} /\ audioMap = [c \in Channel |-> <<>>]
  /\ wpc = "none"
  /\ dst = {} /\ loudest = {} /\ sources = {} /\ took = NoFrames /\ toPush = {}
  /\ out = NoFrames
  /\ noNeedCount = 0

-----------------------------------------------------------------------------
(* Requests reach the MPU as events, dropped unless it runs.               *)
Report(e) ==
  /\ status = "run"
  /\ e.type \in Requests /\ Len(eventQue) < MaxEvents  \* bounds only
  /\ eventQue' = Append(eventQue, e)
  /\ UNCHANGED <<status, evVars, chnlVars, mixVars, wpc, roundVars>>

(* stop() asks both threads to end.                                        *)
StopDown ==
  /\ status \in {"run", "exce"}
  /\ status' = "down"
  /\ UNCHANGED <<eventQue, evVars, chnlVars, mixVars, wpc, roundVars>>

(* ... and clears the channel table once it has joined them, whatever the  *)
(* work thread has done to the status meanwhile. (That the event thread    *)
(* may start a work thread behind its back is the matter of JobControl.)   *)
StopEnd ==
  /\ status \in {"down", "exce"} /\ wpc \in {"none", "exit"} /\ evPc = "exit"
  /\ status' = "end"
  /\ apc' = [c \in Channel |-> "absent"]
  /\ mic' = [c \in Channel |-> "off"]
  /\ srcBuffer' = [c \in Channel |-> <<>>]
  /\ UNCHANGED <<eventQue, evVars, arrived, mixVars, wpc, roundVars>>

-----------------------------------------------------------------------------
(* The event thread. It looks at the status before each event, not while   *)
(* it handles one. A handler's first step, in apcLocker, takes the event   *)
(* off the queue; the second, in infoLocker and mixerLocker, follows only  *)
(* if the first changed the table. (Nobody else writes the user list.)     *)

EventCheck ==
  /\ status = "run" /\ evPc = "idle" /\ eventQue # <<>>
  /\ evPc' = "handle"
  /\ UNCHANGED <<status, eventQue, evId, users, chnlVars, mixVars, wpc, roundVars>>

Handles(type, c) ==
  /\ status # "crash" /\ evPc = "handle" /\ ApcFree
  /\ eventQue # <<>> /\ Head(eventQue) = [type |-> type, id |-> c]
  /\ eventQue' = Tail(eventQue)

HandlerDone == evPc' = "idle" /\ evId' = None

(* addChannel: try_emplace, then open, which may find no codec; the first  *)
(* channel starts the work thread.                                         *)
HandleAdd(c) ==
  /\ Handles("add", c)
  /\ \/ /\ ~Present(c)
        /\ apc' = [apc EXCEPT ![c] = "opening"]
        /\ evPc' = "mix" /\ evId' = c
        /\ wpc' = IF wpc = "none" THEN "top" ELSE wpc
     \/ /\ Present(c) \/ "codec" \in Failing
        /\ HandlerDone
        /\ UNCHANGED <<apc, wpc>>
  /\ UNCHANGED <<status, users, mic, srcBuffer, arrived, mixVars, roundVars>>

AddStreamId ==
  /\ status # "crash" /\ evPc = "mix"
  /\ users' = [users EXCEPT ![evId] = @ + 1]
  /\ IF evId \in streams
     THEN UNCHANGED mixVars
     ELSE /\ streams' = streams \cup {evId}
          /\ audioMap' = [audioMap EXCEPT ![evId] = <<>>]
  /\ HandlerDone
  /\ UNCHANGED <<status, eventQue, chnlVars, wpc, roundVars>>

(* removeChannel: erasing the channel joins its thread.                    *)
HandleRemove(c) ==
  /\ Handles("remove", c)
  /\ IF Present(c)
     THEN /\ apc' = [apc EXCEPT ![c] = "absent"]
          /\ mic' = [mic EXCEPT ![c] = "off"]
          /\ srcBuffer' = [srcBuffer EXCEPT ![c] = <<>>]
          /\ evPc' = "unmix" /\ evId' = c
     ELSE HandlerDone /\ UNCHANGED <<apc, mic, srcBuffer>>
  /\ UNCHANGED <<status, users, arrived, mixVars, wpc, roundVars>>

(* Mutation: the mixer is not told.                                        *)
RemoveIdForgets ==
  /\ status # "crash" /\ evPc = "unmix"
  /\ users' = [users EXCEPT ![evId] = IF @ = 0 THEN 0 ELSE @ - 1]
  /\ HandlerDone
  /\ UNCHANGED <<status, eventQue, chnlVars, mixVars, wpc, roundVars>>

RemoveId ==
  /\ status # "crash" /\ evPc = "unmix"
  /\ users' = [users EXCEPT ![evId] = IF @ = 0 THEN 0 ELSE @ - 1]
  /\ streams' = streams \ {evId}
  /\ audioMap' = [audioMap EXCEPT ![evId] = <<>>]
  /\ HandlerDone
  /\ UNCHANGED <<status, eventQue, chnlVars, wpc, roundVars>>

(* openChnlMic and closeChnlMic.                                           *)
HandleMic(type, c) ==
  /\ Handles(type, c)
  /\ mic' = IF Present(c)
            THEN [mic EXCEPT ![c] = IF type = "open" THEN "on" ELSE "off"]
            ELSE mic
  /\ HandlerDone
  /\ UNCHANGED <<status, users, apc, srcBuffer, arrived, mixVars, wpc, roundVars>>

EventExit ==
  /\ status \notin {"run", "crash"} /\ evPc = "idle"
  /\ evPc' = "exit"
  /\ UNCHANGED <<status, eventQue, evId, users, chnlVars, mixVars, wpc, roundVars>>

-----------------------------------------------------------------------------
(* The channel threads. With the microphone off a thread clears its buffer *)
(* ("muting": it has seen the switch and not cleared yet); with it on it   *)
(* receives, and the frames it has got go into the buffer whatever the     *)
(* switch does meanwhile ("receiving").                                    *)

ChannelOpen(c) ==
  /\ status # "crash"
  /\ apc[c] = "opening"
  /\ \/ apc' = [apc EXCEPT ![c] = "ready"]
     \/ "bind" \in Failing /\ apc' = [apc EXCEPT ![c] = "failed"]
  /\ UNCHANGED <<status, eventQue, evVars, mic, srcBuffer, arrived, mixVars, wpc, roundVars>>

ChannelFail(c) ==
  /\ status # "crash"
  /\ "decode" \in Failing
  /\ apc[c] = "receiving"
  /\ apc' = [apc EXCEPT ![c] = "exce"]
  /\ UNCHANGED <<status, eventQue, evVars, mic, srcBuffer, arrived, mixVars, wpc, roundVars>>

ChannelMute(c) ==
  /\ status # "crash"
  /\ \/ apc[c] = "ready" /\ mic[c] = "off" /\ srcBuffer[c] # <<>>
        /\ apc' = [apc EXCEPT ![c] = "muting"] /\ UNCHANGED srcBuffer
     \/ apc[c] = "muting"
        /\ apc' = [apc EXCEPT ![c] = "ready"]
        /\ srcBuffer' = [srcBuffer EXCEPT ![c] = <<>>]
  /\ UNCHANGED <<status, eventQue, evVars, mic, arrived, mixVars, wpc, roundVars>>

ChannelReceive(c) ==
  /\ status # "crash"
  /\ \/ apc[c] = "ready" /\ mic[c] = "on" /\ apc' = [apc EXCEPT ![c] = "receiving"]
     \/ apc[c] = "receiving" /\ apc' = [apc EXCEPT ![c] = "ready"]
  /\ UNCHANGED <<status, eventQue, evVars, mic, srcBuffer, arrived, mixVars, wpc, roundVars>>

(* A frame over the cap finds the buffer halved, or emptied if the         *)
(* microphone was switched since it was last emptied.                      *)
ChannelFrame(c) ==
  /\ status # "crash"
  /\ apc[c] = "receiving"
  /\ arrived' = [arrived EXCEPT ![c] = (@ % MaxFrame) + 1]
  /\ LET n == Len(srcBuffer[c])
     IN  \E kept \in IF n > Cap
                     THEN {<<>>, SubSeq(srcBuffer[c], n \div 2 + 1, n)}
                     ELSE {srcBuffer[c]} :
           srcBuffer' = [srcBuffer EXCEPT ![c] = Append(kept, arrived[c])]
  /\ UNCHANGED <<status, eventQue, evVars, apc, mic, mixVars, wpc, roundVars>>

-----------------------------------------------------------------------------
(* The work thread.                                                        *)

(* A round starts when there is a channel. A thread already waiting for    *)
(* one when the status changes does one more round before it ends.         *)
RoundStart ==
  /\ status # "crash" /\ wpc = "top"
  /\ (\E c \in Channel : Present(c)) \/ status # "run"
  /\ wpc' = "collect"
  /\ UNCHANGED <<status, eventQue, evVars, chnlVars, mixVars, roundVars>>

WorkExit ==
  /\ status \notin {"run", "crash"} /\ wpc = "top"
  /\ wpc' = "exit"
  /\ UNCHANGED <<status, eventQue, evVars, chnlVars, mixVars, roundVars>>

Broken == {c \in Channel : apc[c] = "exce"}
Listeners == {c \in Channel : Ready(c)}
Candidates == {c \in Listeners : mic[c] = "on" /\ srcBuffer[c] # <<>>}

(* A removal is reported for each broken channel, in every round.          *)
ReportBroken ==
  eventQue' = IF status = "run"
              THEN eventQue \o SetToSeq([type : {"remove"}, id : Broken])
              ELSE eventQue

(* Mutation: the count starts again in every round.                        *)
NoSourceForgets ==
  /\ noNeedCount' = 0
  /\ wpc' = "top"
  /\ dst' = {} /\ out' = NoFrames

(* Mutation: silence a round late.                                         *)
NoSourceLate ==
  \/ noNeedCount >= SilenceAfter /\ NoSourceForgets
  \/ /\ noNeedCount < SilenceAfter
     /\ noNeedCount' = noNeedCount + 1
     /\ wpc' = "top"
     /\ dst' = {} /\ out' = NoFrames

(* Without a source the round ends here, or silence is sent to everybody.  *)
NoSource ==
  \/ /\ noNeedCount + 1 >= SilenceAfter
     /\ noNeedCount' = 0
     /\ wpc' = "send"
     /\ dst' = Listeners /\ out' = [c \in Listeners |-> {}]
  \/ /\ noNeedCount + 1 < SilenceAfter
     /\ noNeedCount' = noNeedCount + 1
     /\ wpc' = "top"
     /\ dst' = {} /\ out' = NoFrames

(* The sort by volume is any choice of the loudest: volumes are data.      *)
Collect ==
  /\ status # "crash" /\ wpc = "collect"
  /\ Len(eventQue) + Cardinality(Broken) <= MaxEvents  \* bound only
  /\ ReportBroken
  /\ sources' = Candidates
  /\ \/ /\ Candidates = {}
        /\ NoSource
        /\ loudest' = {}
     \/ /\ Candidates # {}
        /\ noNeedCount' = 0
        /\ \E n \in 1..MaxMix : loudest' \in kSubset(n, Candidates)
        /\ Cardinality(loudest') = MaxMix \/ loudest' = Candidates
        /\ dst' = Listeners
        /\ wpc' = "take"
        /\ UNCHANGED out
  /\ UNCHANGED <<status, evVars, chnlVars, mixVars, took, toPush>>

(* Mutation: only what is mixed is consumed.                               *)
ConsumesMixedOnly == loudest

Consumes == sources

(* getBuffer: every source's oldest frame is consumed, those of the        *)
(* loudest are kept. A buffer cleared since Collect yields nothing.        *)
Take ==
  /\ status # "crash" /\ wpc = "take"
  /\ srcBuffer' = [c \in Channel |->
                     IF c \in Consumes /\ srcBuffer[c] # <<>> THEN Tail(srcBuffer[c])
                                                              ELSE srcBuffer[c]]
  /\ took' = [c \in {k \in loudest : srcBuffer[k] # <<>>} |-> Head(srcBuffer[c])]
  /\ toPush' = DOMAIN took'
  /\ sources' = {} /\ loudest' = {}  \* not read again in this round
  /\ wpc' = "mix"
  /\ UNCHANGED <<status, eventQue, evVars, apc, mic, arrived, mixVars, dst, out, noNeedCount>>

(* pushData, one call at a time, in any order; an unknown id is refused.   *)
PushData(c) ==
  /\ status # "crash" /\ wpc = "mix"
  /\ c \in toPush
  /\ toPush' = toPush \ {c}
  /\ audioMap' = IF c \in streams
                 THEN [audioMap EXCEPT ![c] = Append(@, took[c])]
                 ELSE audioMap
  /\ UNCHANGED <<status, eventQue, evVars, chnlVars, streams, wpc, dst, sources, loudest, took,
                 out, noNeedCount>>

(* Mutation: the mixer keeps what it has mixed.                            *)
ClearDataKeeps == UNCHANGED audioMap

ClearData == audioMap' = [c \in Channel |-> <<>>]

Held(c) == {<<c, i, audioMap[c][i]>> : i \in DOMAIN audioMap[c]}

(* Mutation: a listener is not left out of its own mix.                    *)
MixesEveryone(l) == dst

(* The ids mixed for a listener.                                           *)
Others(l) == dst \ {l}

(* getData(idForm): an id the mixer does not know ends the mix, and the    *)
(* log statement there dereferences audioMap.end().                        *)
MixAudio(l) ==
  IF Others(l) \subseteq streams THEN UNION {Held(c) : c \in Others(l)} ELSE {}

Mix ==
  /\ status # "crash" /\ wpc = "mix" /\ toPush = {}
  /\ \/ /\ out' = [l \in dst |-> MixAudio(l)]
        /\ ClearData
        /\ wpc' = "send"
        /\ UNCHANGED status
     \/ /\ \E l \in dst : ~(Others(l) \subseteq streams)
        /\ status' = "crash"
        /\ UNCHANGED <<out, audioMap, wpc>>
  /\ UNCHANGED <<eventQue, evVars, chnlVars, streams, dst, sources, loudest, took, toPush,
                 noNeedCount>>

(* sendRtp to those still in the table. A channel that was removed and     *)
(* added again since Collect may have no transceiver yet (a null pointer), *)
(* or one without a destination (an exception).                            *)
Send ==
  /\ status # "crash" /\ wpc = "send"
  /\ \/ /\ ~\E c \in dst : apc[c] = "failed"
        /\ wpc' = "top" /\ UNCHANGED status
     \/ /\ \E c \in dst : apc[c] \in {"opening", "failed"}
        /\ wpc' = "exit" /\ status' = "exce"
     \/ /\ \E c \in dst : apc[c] = "opening"
        /\ wpc' = "exit" /\ status' = "crash"
  /\ dst' = {} /\ took' = NoFrames /\ out' = NoFrames
  /\ UNCHANGED <<eventQue, evVars, chnlVars, mixVars, sources, loudest, toPush, noNeedCount>>

-----------------------------------------------------------------------------
EventThread ==
  \/ \E c \in Channel : HandleAdd(c) \/ HandleRemove(c)
  \/ \E c \in Channel, type \in {"open", "close"} : HandleMic(type, c)
  \/ EventCheck \/ AddStreamId \/ RemoveId \/ EventExit

WorkThread ==
  \/ RoundStart \/ WorkExit \/ Collect \/ Take \/ Mix \/ Send
  \/ \E c \in Channel : PushData(c)

ChannelThread(c) == ChannelOpen(c) \/ ChannelMute(c) \/ ChannelReceive(c)

(* The frames and the failures of a channel are its environment's.         *)
Next ==
  \/ \E e \in Event : Report(e)
  \/ StopDown \/ StopEnd
  \/ EventThread
  \/ WorkThread
  \/ \E c \in Channel : ChannelThread(c) \/ ChannelFrame(c) \/ ChannelFail(c)

Spec == Init /\ [][Next]_vars

(* The threads are preemptively scheduled and their waits are timed. The   *)
(* event thread gets apcLocker in the end: a round without a source sleeps *)
(* with the lock held and takes it again at once, but every round that     *)
(* sends, at the latest the one that sends silence, sleeps without it.     *)
Fairness ==
  /\ SF_vars(EventThread)
  /\ WF_vars(WorkThread)
  /\ \A c \in Channel : WF_vars(ChannelThread(c))

FairSpec == Spec /\ Fairness

-----------------------------------------------------------------------------
(* The frames of this round that some channels contributed, one each.      *)
Frames(ids) == {<<c, 1, took[c]>> : c \in ids \cap DOMAIN took}

TypeOK ==
  /\ status \in {"run", "down", "end", "exce", "crash"}
  /\ eventQue \in Seq(Event)
  /\ evPc \in {"idle", "handle", "mix", "unmix", "exit"}
  /\ evId \in Channel \cup {None} /\ (evPc \in {"mix", "unmix"} => evId # None)
  /\ users \in [Channel -> Nat]
  /\ apc \in [Channel -> {"absent", "opening", "ready", "muting", "receiving", "failed", "exce"}]
  /\ mic \in [Channel -> {"on", "off"}]
  /\ srcBuffer \in [Channel -> Seq(1..MaxFrame)]
  /\ arrived \in [Channel -> 1..MaxFrame]
  /\ streams \subseteq Channel /\ audioMap \in [Channel -> Seq(1..MaxFrame)]
  /\ wpc \in {"none", "top", "collect", "take", "mix", "send", "exit"}
  /\ dst \subseteq Channel /\ sources \subseteq dst /\ loudest \subseteq sources
  /\ DOMAIN took \subseteq dst /\ \A c \in DOMAIN took : took[c] \in 1..MaxFrame
  /\ toPush \subseteq DOMAIN took
  /\ DOMAIN out \subseteq dst /\ \A c \in DOMAIN out : out[c] \subseteq Channel \X (Nat \ {0}) \X (1..MaxFrame)
  /\ noNeedCount \in 0..(SilenceAfter - 1)

(* HearsOthers: whatever joins, leaves, mutes or clears its buffer during  *)
(* a round, what a listener is sent is made of frames taken in this very   *)
(* round, and never of its own: no echo, and no audio of an earlier round  *)
(* left behind in the mixer.                                               *)
HearsOthers ==
  wpc = "send" => \A l \in dst : out[l] \subseteq Frames(dst \ {l})

(* RosterAgrees: between two events the channel table, the mixer and the   *)
(* user list the queries report name the same channels, each once, though  *)
(* each is changed under a lock of its own and may refuse the change.      *)
RosterAgrees ==
  evPc \notin {"mix", "unmix"} /\ status # "end" =>
    /\ streams = {c \in Channel : Present(c)}
    /\ users = [c \in Channel |-> IF c \in streams THEN 1 ELSE 0]

(* ListenerServed: a channel that is ready to be sent audio gets a frame   *)
(* again and again, even if nobody speaks or everybody is muted.           *)
ListenerServed ==
  \A l \in Channel :
    (Ready(l) /\ status = "run") ~> (~Ready(l) \/ status # "run" \/ (wpc = "send" /\ l \in dst))

(* SourceDrained: a channel with its microphone open and audio waiting has *)
(* some of it consumed, also if others are always louder.                  *)
SourceDrained ==
  \A c \in Channel :
    (c \in Candidates /\ status = "run")
      ~> (c \notin Candidates \/ status # "run" \/ (wpc = "take" /\ c \in Consumes))

=============================================================================
