------------------------- MODULE MediaProcessProofs -------------------------
(***************************************************************************)
(* In a MediaProcessUnit nobody hears itself or an earlier round, and the  *)
(* three lists of channels agree between events, for any channels, any     *)
(* number of them mixed, any events and any failures. Type correctness has *)
(* an inductive invariant of its own.                                      *)
(***************************************************************************)
EXTENDS MediaProcess, FiniteSetTheorems, SequenceTheorems, TLAPS

-----------------------------------------------------------------------------
(* The inductive invariant.                                                *)

(* The channels the mixer and the user list should know of: those of the   *)
(* table, but for the one the event thread is about to add to or remove    *)
(* from these two.                                                         *)
Known ==
  LET table == {c \in Channel : Present(c)}
  IN  IF evPc = "mix" THEN table \ {evId}
      ELSE IF evPc = "unmix" THEN table \cup {evId}
      ELSE table

RosterInv ==
  /\ streams \subseteq Channel
  /\ apc = [c \in Channel |-> apc[c]]
  /\ evPc \in {"mix", "unmix"} => evId \in Channel
  /\ evPc = "mix" => Present(evId)
  /\ evPc = "unmix" => ~Present(evId)
  /\ status = "end" => evPc = "exit" /\ wpc \in {"none", "exit"}
  /\ status # "end" => streams = Known /\ users = [c \in Channel |-> IF c \in Known THEN 1 ELSE 0]

(* Outside the part of a round that fills it the mixer is empty; within it *)
(* it holds of each channel nothing, or the one frame pushed in the round. *)
MixerInv ==
  /\ audioMap = [c \in Channel |-> audioMap[c]]
  /\ toPush \subseteq DOMAIN took
  /\ wpc # "mix" => toPush = {}
  /\ \A c \in Channel :
       audioMap[c] # <<>> =>
         /\ wpc = "mix"
         /\ c \in DOMAIN took \ toPush
         /\ audioMap[c] = <<took[c]>>

IInv == RosterInv /\ MixerInv /\ HearsOthers

LEMMA InitOK == Init => IInv
<1> SUFFICES ASSUME Init PROVE IInv
  OBVIOUS
<1>1. RosterInv
  BY DEF Init, RosterInv, Known, Present
<1>2. MixerInv
  BY DEF Init, MixerInv
<1>3. HearsOthers
  BY DEF Init, HearsOthers
<1> QED
  BY <1>1, <1>2, <1>3 DEF IInv

-----------------------------------------------------------------------------
(* The lists of channels. What a step of the work thread, a channel's      *)
(* thread or a request leaves alone keeps them in agreement.               *)
LEMMA RosterKept ==
  ASSUME RosterInv, UNCHANGED <<evPc, evId, users, streams>>,
         apc' = [c \in Channel |-> apc'[c]],
         \A c \in Channel : apc'[c] = "absent" <=> apc[c] = "absent",
         status' = "end" <=> status = "end",
         wpc' = wpc \/ status # "end"
  PROVE  RosterInv'
<1>1. \A c \in Channel : Present(c)' <=> Present(c)
  BY DEF Present
<1>2. Known' = Known
  BY <1>1 DEF Known
<1>3. /\ streams' \subseteq Channel
      /\ evPc' \in {"mix", "unmix"} => evId' \in Channel
      /\ status' = "end" => evPc' = "exit" /\ wpc' \in {"none", "exit"}
  BY DEF RosterInv
<1>4. (evPc' = "mix" => Present(evId)') /\ (evPc' = "unmix" => ~Present(evId)')
  BY <1>1 DEF RosterInv, Present
<1> QED
  BY <1>2, <1>3, <1>4 DEF RosterInv

LEMMA RosterNext == RosterInv /\ [Next]_vars => RosterInv'
<1> SUFFICES ASSUME RosterInv, [Next]_vars PROVE RosterInv'
  OBVIOUS
<1> USE DEF evVars, chnlVars, mixVars, roundVars
<1>1. ASSUME NEW e \in Event, Report(e) PROVE RosterInv'
  BY <1>1, RosterKept DEF Report, RosterInv
<1>2. CASE StopDown
  BY <1>2, RosterKept DEF StopDown, RosterInv
<1>3. CASE StopEnd
  BY <1>3 DEF StopEnd, RosterInv, Present
<1>4. CASE EventCheck
  BY <1>4 DEF EventCheck, RosterInv, Known, Present
<1>5. ASSUME NEW c \in Channel, HandleAdd(c) PROVE RosterInv'
  <2> USE DEF Handles, HandlerDone
  <2>1. CASE ~Present(c) /\ apc' = [apc EXCEPT ![c] = "opening"] /\ evPc' = "mix" /\ evId' = c
    <3>1. \A d \in Channel : Present(d)' <=> Present(d) \/ d = c
      BY <2>1 DEF Present, RosterInv
    <3>2. Known' = Known
      BY <1>5, <2>1, <3>1 DEF Known, HandleAdd
    <3>3. UNCHANGED <<status, users, streams>> /\ status # "end"
      BY <1>5 DEF HandleAdd, RosterInv
    <3>4. apc' = [d \in Channel |-> apc'[d]]
      BY <2>1 DEF RosterInv
    <3>5. Present(evId)'
      BY <2>1 DEF Present, RosterInv
    <3> QED
      BY <2>1, <3>2, <3>3, <3>4, <3>5 DEF RosterInv
  <2>2. CASE HandlerDone /\ UNCHANGED <<apc, wpc>>
    <3>1. Known' = Known
      BY <1>5, <2>2 DEF Known, HandleAdd, Present
    <3> QED
      BY <1>5, <2>2, <3>1 DEF RosterInv, HandleAdd
  <2> QED
    BY <1>5, <2>1, <2>2 DEF HandleAdd
<1>6. CASE AddStreamId
  <2>1. evId \in Channel /\ Present(evId) /\ status # "end"
    BY <1>6 DEF AddStreamId, RosterInv
  <2>2. UNCHANGED <<status, apc, wpc>> /\ evPc' = "idle"
    BY <1>6 DEF AddStreamId, HandlerDone
  <2>3. Known' = Known \cup {evId} /\ evId \notin Known
    BY <1>6, <2>1, <2>2 DEF AddStreamId, Known, Present
  <2>4. streams' = streams \cup {evId}
    BY <1>6 DEF AddStreamId
  <2>5. users' = [d \in Channel |-> IF d \in Known' THEN 1 ELSE 0]
    <3>1. users = [d \in Channel |-> IF d \in Known THEN 1 ELSE 0]
      BY <2>1 DEF RosterInv
    <3>2. users' = [users EXCEPT ![evId] = users[evId] + 1]
      BY <1>6 DEF AddStreamId
    <3> HIDE DEF Known
    <3> QED
      BY <2>1, <2>3, <3>1, <3>2
  <2> QED
    BY <2>1, <2>2, <2>3, <2>4, <2>5 DEF RosterInv
<1>7. ASSUME NEW c \in Channel, HandleRemove(c) PROVE RosterInv'
  <2> USE DEF Handles, HandlerDone
  <2>0. UNCHANGED <<status, users, streams, wpc>> /\ status # "end"
    BY <1>7 DEF HandleRemove, RosterInv
  <2>1. CASE Present(c)
    <3>1. apc' = [apc EXCEPT ![c] = "absent"] /\ evPc' = "unmix" /\ evId' = c
      BY <1>7, <2>1 DEF HandleRemove
    <3>2. \A d \in Channel : Present(d)' <=> Present(d) /\ d # c
      BY <3>1 DEF Present, RosterInv
    <3>3. Known' = Known
      BY <1>7, <2>1, <3>1, <3>2 DEF Known, HandleRemove
    <3>4. apc' = [d \in Channel |-> apc'[d]] /\ ~Present(evId)'
      BY <3>1 DEF RosterInv, Present
    <3> QED
      BY <2>0, <3>1, <3>3, <3>4 DEF RosterInv
  <2>2. CASE ~Present(c)
    <3>1. evPc = "handle" /\ evPc' = "idle" /\ UNCHANGED apc
      BY <1>7, <2>2 DEF HandleRemove
    <3>2. Known' = Known
      BY <3>1 DEF Known, Present
    <3> QED
      BY <2>0, <3>1, <3>2 DEF RosterInv
  <2> QED
    BY <2>1, <2>2
<1>8. CASE RemoveId
  <2>1. evId \in Channel /\ ~Present(evId) /\ status # "end"
    BY <1>8 DEF RemoveId, RosterInv
  <2>2. UNCHANGED <<status, apc, wpc>> /\ evPc' = "idle"
    BY <1>8 DEF RemoveId, HandlerDone
  <2>3. Known' = Known \ {evId} /\ evId \in Known
    BY <1>8, <2>1, <2>2 DEF RemoveId, Known, Present
  <2>4. streams' = streams \ {evId}
    BY <1>8 DEF RemoveId
  <2>5. users' = [d \in Channel |-> IF d \in Known' THEN 1 ELSE 0]
    <3>1. users = [d \in Channel |-> IF d \in Known THEN 1 ELSE 0]
      BY <2>1 DEF RosterInv
    <3>2. users' = [users EXCEPT ![evId] = IF users[evId] = 0 THEN 0 ELSE users[evId] - 1]
      BY <1>8 DEF RemoveId
    <3> HIDE DEF Known
    <3> QED
      BY <2>1, <2>3, <3>1, <3>2
  <2> QED
    BY <2>1, <2>2, <2>3, <2>4, <2>5 DEF RosterInv
<1>9. ASSUME NEW c \in Channel, NEW type, HandleMic(type, c) PROVE RosterInv'
  <2>1. Known' = Known
    BY <1>9 DEF HandleMic, Handles, HandlerDone, Known, Present
  <2> QED
    BY <1>9, <2>1 DEF HandleMic, Handles, HandlerDone, RosterInv
<1>10. CASE EventExit
  <2>1. Known' = Known
    BY <1>10 DEF EventExit, Known, Present
  <2> QED
    BY <1>10, <2>1 DEF EventExit, RosterInv, Present
<1>11. ASSUME NEW c \in Channel,
              ChannelThread(c) \/ ChannelFrame(c) \/ ChannelFail(c)
       PROVE  RosterInv'
  <2>1. /\ UNCHANGED <<status, evPc, evId, users, streams, wpc>>
        /\ \/ UNCHANGED apc
           \/ \E s \in {"ready", "failed", "exce", "muting", "receiving"} :
                apc[c] # "absent" /\ apc' = [apc EXCEPT ![c] = s]
    <3>1. CASE ChannelOpen(c)
      BY <3>1 DEF ChannelOpen
    <3>2. CASE ChannelMute(c)
      BY <3>2 DEF ChannelMute
    <3>3. CASE ChannelReceive(c)
      BY <3>3 DEF ChannelReceive
    <3>4. CASE ChannelFrame(c)
      BY <3>4 DEF ChannelFrame
    <3>5. CASE ChannelFail(c)
      BY <3>5 DEF ChannelFail
    <3> QED
      BY <1>11, <3>1, <3>2, <3>3, <3>4, <3>5 DEF ChannelThread
  <2>2. apc' = [d \in Channel |-> apc'[d]]
    BY <2>1 DEF RosterInv
  <2>3. \A d \in Channel : apc'[d] = "absent" <=> apc[d] = "absent"
    BY <2>1 DEF RosterInv
  <2> QED
    BY <2>1, <2>2, <2>3, RosterKept
<1>12. CASE WorkThread
  <2>1. /\ UNCHANGED <<evPc, evId, users, streams, apc>>
        /\ status' = status \/ status' \in {"crash", "exce"}
        /\ wpc \notin {"none", "exit"}
    <3>1. CASE RoundStart
      BY <3>1 DEF RoundStart
    <3>2. CASE WorkExit
      BY <3>2 DEF WorkExit
    <3>3. CASE Collect
      BY <3>3 DEF Collect
    <3>4. CASE Take
      BY <3>4 DEF Take
    <3>5. CASE Mix
      BY <3>5 DEF Mix
    <3>6. CASE Send
      BY <3>6 DEF Send
    <3>7. CASE \E c \in Channel : PushData(c)
      BY <3>7 DEF PushData
    <3> QED
      BY <1>12, <3>1, <3>2, <3>3, <3>4, <3>5, <3>6, <3>7 DEF WorkThread
  <2>2. status # "end" /\ status' # "end"
    BY <2>1 DEF RosterInv
  <2> QED
    BY <2>1, <2>2, RosterKept DEF RosterInv
<1>13. CASE UNCHANGED vars
  BY <1>13, RosterKept DEF vars, RosterInv
<1> QED
  BY <1>1, <1>2, <1>3, <1>4, <1>5, <1>6, <1>7, <1>8, <1>9, <1>10, <1>11, <1>12, <1>13
  DEF Next, EventThread
-----------------------------------------------------------------------------
(* The mixer. Emptying a channel's queue, or none, keeps it as it should   *)
(* be, as long as the round does not go on.                                *)
LEMMA MixerKept ==
  ASSUME MixerInv, UNCHANGED <<wpc, took, toPush>>,
         audioMap' = [c \in Channel |-> audioMap'[c]],
         \A c \in Channel : audioMap'[c] \in {audioMap[c], <<>>}
  PROVE  MixerInv'
BY DEF MixerInv

(* Nor does anything happen to what is in it while it is empty.            *)
LEMMA MixerEmpty ==
  ASSUME MixerInv, wpc # "mix", UNCHANGED audioMap, 
         toPush' = {} \/ (wpc' = "mix" /\ toPush' \subseteq DOMAIN took')
  PROVE  MixerInv'
<1>1. \A c \in Channel : audioMap'[c] = <<>>
  BY DEF MixerInv
<1> QED
  BY <1>1 DEF MixerInv

LEMMA MixerNext == RosterInv /\ MixerInv /\ [Next]_vars => MixerInv'
<1> SUFFICES ASSUME RosterInv, MixerInv, [Next]_vars PROVE MixerInv'
  OBVIOUS
<1> USE DEF evVars, chnlVars, mixVars, roundVars
<1>1. CASE UNCHANGED <<wpc, took, toPush, audioMap>>
  BY <1>1, MixerKept DEF MixerInv
<1>2. CASE EventThread
  <2>1. ASSUME NEW c \in Channel, HandleAdd(c) PROVE MixerInv'
    <3>1. UNCHANGED <<audioMap, took, toPush>> /\ (wpc' = wpc \/ wpc = "none")
      BY <2>1 DEF HandleAdd
    <3>2. wpc = "none" => toPush' = {}
      BY <3>1 DEF MixerInv
    <3> QED
      BY <3>1, <3>2, <1>1, MixerEmpty
  <2>2. CASE AddStreamId
    <3>1. evId \in Channel
      BY <2>2 DEF AddStreamId, RosterInv
    <3>2. UNCHANGED <<wpc, took, toPush>>
      BY <2>2 DEF AddStreamId
    <3>3. audioMap' = audioMap \/ audioMap' = [audioMap EXCEPT ![evId] = <<>>]
      BY <2>2 DEF AddStreamId
    <3> QED
      BY <3>1, <3>2, <3>3, MixerKept DEF MixerInv
  <2>3. CASE RemoveId
    <3>1. evId \in Channel
      BY <2>3 DEF RemoveId, RosterInv
    <3>2. UNCHANGED <<wpc, took, toPush>> /\ audioMap' = [audioMap EXCEPT ![evId] = <<>>]
      BY <2>3 DEF RemoveId
    <3> QED
      BY <3>1, <3>2, MixerKept DEF MixerInv
  <2>4. ASSUME \/ EventCheck \/ EventExit
               \/ \E c \in Channel : HandleRemove(c)
               \/ \E c \in Channel, type \in {"open", "close"} : HandleMic(type, c)
        PROVE  MixerInv'
    BY <2>4, <1>1 DEF EventCheck, EventExit, HandleRemove, HandleMic
  <2> QED
    BY <1>2, <2>1, <2>2, <2>3, <2>4 DEF EventThread
<1>3. CASE WorkThread
  <2>1. CASE RoundStart \/ WorkExit \/ Collect \/ Take \/ Send
    <3>1. wpc # "mix" /\ UNCHANGED audioMap
      BY <2>1 DEF RoundStart, WorkExit, Collect, Take, Send
    <3>2. UNCHANGED toPush \/ (wpc' = "mix" /\ toPush' = DOMAIN took')
      BY <2>1 DEF RoundStart, WorkExit, Collect, Take, Send
    <3>3. toPush = {}
      BY <3>1 DEF MixerInv
    <3> QED
      BY <3>1, <3>2, <3>3, MixerEmpty
  <2>2. ASSUME NEW c \in Channel, PushData(c) PROVE MixerInv'
    <3>1. /\ wpc = "mix" /\ wpc' = "mix" /\ UNCHANGED took
          /\ c \in toPush /\ toPush' = toPush \ {c}
          /\ audioMap' \in {audioMap, [audioMap EXCEPT ![c] = Append(audioMap[c], took[c])]}
      BY <2>2 DEF PushData
    <3>2. audioMap[c] = <<>>
      BY <3>1 DEF MixerInv
    <3>3. audioMap' \in {audioMap, [audioMap EXCEPT ![c] = <<took[c]>>]}
      BY <3>1, <3>2
    <3>4. audioMap' = [d \in Channel |-> audioMap'[d]]
      BY <3>3 DEF MixerInv
    <3>5. c \in DOMAIN took
      BY <3>1 DEF MixerInv
    <3>6. ASSUME NEW d \in Channel, audioMap'[d] # <<>>
          PROVE  d \in DOMAIN took \ toPush' /\ audioMap'[d] = <<took[d]>>
      <4>1. CASE d = c
        BY <4>1, <3>1, <3>2, <3>3, <3>5, <3>6 DEF MixerInv
      <4>2. CASE d # c
        BY <4>2, <3>1, <3>3, <3>6 DEF MixerInv
      <4> QED
        BY <4>1, <4>2
    <3> QED
      BY <3>1, <3>4, <3>6 DEF MixerInv
  <2>3. CASE Mix
    BY <2>3 DEF Mix, ClearData, MixerInv
  <2> QED
    BY <1>3, <2>1, <2>2, <2>3 DEF WorkThread
<1>4. ASSUME NEW c \in Channel, ChannelThread(c) \/ ChannelFrame(c) \/ ChannelFail(c)
      PROVE  MixerInv'
  BY <1>4, <1>1
  DEF ChannelThread, ChannelOpen, ChannelMute, ChannelReceive, ChannelFrame, ChannelFail
<1>5. CASE StopDown \/ StopEnd \/ \E e \in Event : Report(e)
  BY <1>5, <1>1 DEF StopDown, StopEnd, Report
<1>6. CASE UNCHANGED vars
  BY <1>6, <1>1 DEF vars
<1> QED
  BY <1>2, <1>3, <1>4, <1>5, <1>6 DEF Next

-----------------------------------------------------------------------------
(* What a listener is sent.                                                *)

(* When everything taken has been pushed, the mix for a listener is made   *)
(* of this round's frames of the others.                                   *)
LEMMA MixOfOthers ==
  ASSUME RosterInv, MixerInv, NEW l
  PROVE  MixAudio(l) \subseteq Frames(dst \ {l})
<1>1. CASE ~(Others(l) \subseteq streams)
  BY <1>1 DEF MixAudio
<1>2. CASE Others(l) \subseteq streams
  <2>1. ASSUME NEW c \in Others(l) PROVE Held(c) \subseteq Frames(dst \ {l})
    <3>1. c \in Channel
      BY <1>2, <2>1 DEF RosterInv
    <3>2. CASE audioMap[c] = <<>>
      BY <3>2 DEF Held
    <3>3. CASE audioMap[c] # <<>>
      <4>1. c \in DOMAIN took /\ audioMap[c] = <<took[c]>>
        BY <3>1, <3>3 DEF MixerInv
      <4>2. Held(c) = {<<c, 1, took[c]>>}
        BY <4>1 DEF Held
      <4> QED
        BY <4>1, <4>2, <2>1 DEF Others, Frames
    <3> QED
      BY <3>2, <3>3
  <2>2. MixAudio(l) = UNION {Held(c) : c \in Others(l)}
    BY <1>2 DEF MixAudio
  <2> QED
    BY <2>1, <2>2
<1> QED
  BY <1>1, <1>2

LEMMA HearsNext == IInv /\ [Next]_vars => HearsOthers'
<1> SUFFICES ASSUME RosterInv, MixerInv, HearsOthers, [Next]_vars PROVE HearsOthers'
  BY DEF IInv
<1> USE DEF evVars, chnlVars, mixVars, roundVars
<1>1. CASE wpc' # "send"
  BY <1>1 DEF HearsOthers
<1>2. CASE UNCHANGED <<wpc, dst, out, took>>
  BY <1>2 DEF HearsOthers, Frames
<1>3. CASE EventThread
  <2>1. ASSUME NEW c \in Channel, HandleAdd(c) PROVE HearsOthers'
    BY <2>1, <1>1, <1>2 DEF HandleAdd
  <2>2. ASSUME \/ EventCheck \/ AddStreamId \/ RemoveId \/ EventExit
               \/ \E c \in Channel : HandleRemove(c)
               \/ \E c \in Channel, type \in {"open", "close"} : HandleMic(type, c)
        PROVE  HearsOthers'
    BY <2>2, <1>2 DEF EventCheck, AddStreamId, RemoveId, EventExit, HandleRemove, HandleMic
  <2> QED
    BY <1>3, <2>1, <2>2 DEF EventThread
<1>4. CASE WorkThread
  <2>1. CASE RoundStart \/ WorkExit \/ Take \/ Send \/ \E c \in Channel : PushData(c)
    BY <2>1, <1>1 DEF RoundStart, WorkExit, Take, Send, PushData
  <2>2. CASE Collect
    <3>1. CASE NoSource
      <4>1. \A l \in dst' : wpc' = "send" => out'[l] = {}
        BY <3>1 DEF NoSource
      <4> QED
        BY <4>1 DEF HearsOthers
    <3> QED
      BY <2>2, <3>1, <1>1 DEF Collect
  <2>3. CASE Mix
    <3>1. CASE out' = [l \in dst |-> MixAudio(l)]
      <4>1. \A l : MixAudio(l) \subseteq Frames(dst \ {l})
        BY MixOfOthers
      <4>2. UNCHANGED <<dst, took>>
        BY <2>3 DEF Mix
      <4>3. \A l : Frames(dst \ {l})' = Frames(dst \ {l})
        BY <4>2 DEF Frames
      <4>4. \A l \in dst' : out'[l] \subseteq Frames(dst \ {l})'
        BY <3>1, <4>1, <4>2, <4>3
      <4> QED
        BY <4>4 DEF HearsOthers
    <3>2. CASE UNCHANGED wpc
      BY <2>3, <3>2, <1>1 DEF Mix
    <3> QED
      BY <2>3, <3>1, <3>2 DEF Mix
  <2> QED
    BY <1>4, <2>1, <2>2, <2>3 DEF WorkThread
<1>5. ASSUME NEW c \in Channel, ChannelThread(c) \/ ChannelFrame(c) \/ ChannelFail(c)
      PROVE  HearsOthers'
  BY <1>5, <1>2
  DEF ChannelThread, ChannelOpen, ChannelMute, ChannelReceive, ChannelFrame, ChannelFail
<1>6. CASE StopDown \/ StopEnd \/ \E e \in Event : Report(e)
  BY <1>6, <1>2 DEF StopDown, StopEnd, Report
<1>7. CASE UNCHANGED vars
  BY <1>7, <1>2 DEF vars
<1> QED
  BY <1>3, <1>4, <1>5, <1>6, <1>7 DEF Next

-----------------------------------------------------------------------------
(* The theorems.                                                           *)
LEMMA Inductive == Spec => []IInv
<1>1. IInv /\ [Next]_vars => IInv'
  BY RosterNext, MixerNext, HearsNext DEF IInv
<1> QED
  BY InitOK, <1>1, PTL DEF Spec

(* HearsOthers holds in every behaviour: whatever joins, leaves, mutes or  *)
(* fails during a round, a listener is sent frames taken in this very      *)
(* round and none of its own (workingLoop with AudioMixer).                *)
THEOREM NoEcho == Spec => []HearsOthers
<1>1. IInv => HearsOthers
  BY DEF IInv
<1> QED
  BY Inductive, <1>1, PTL

(* RosterAgrees holds in every behaviour: between two events the channel   *)
(* table, the mixer and the user list name the same channels, each once    *)
(* (addChannel, removeChannel).                                            *)
THEOREM RosterCorrect == Spec => []RosterAgrees
<1>1. IInv => RosterAgrees
  BY DEF IInv, RosterInv, RosterAgrees, Known
<1> QED
  BY Inductive, <1>1, PTL

-----------------------------------------------------------------------------
(***************************************************************************)
(* Types.  Two things make them inductive: what a round leaves behind is   *)
(* empty when the next one starts, so that it never outlives the channels  *)
(* it was made for, and only finitely many channels are in the table, so   *)
(* that the removals reported for the broken ones are a sequence.          *)
(***************************************************************************)
EventTypes ==
  /\ status \in {"run", "down", "end", "exce", "crash"}
  /\ eventQue \in Seq(Event)
  /\ evPc \in {"idle", "handle", "mix", "unmix", "exit"}
  /\ evId \in Channel \cup {None}
  /\ users \in [Channel -> Nat]

ApcState == {"absent", "opening", "ready", "muting", "receiving", "failed", "exce"}

ChannelTypes ==
  /\ apc \in [Channel -> ApcState]
  /\ mic \in [Channel -> {"on", "off"}]
  /\ srcBuffer \in [Channel -> Seq(1 .. MaxFrame)]
  /\ arrived \in [Channel -> 1 .. MaxFrame]
  /\ IsFiniteSet({c \in Channel : Present(c)})

RoundTypes ==
  /\ audioMap \in [Channel -> Seq(1 .. MaxFrame)]
  /\ wpc \in {"none", "top", "collect", "take", "mix", "send", "exit"}
  /\ dst \subseteq Channel /\ sources \subseteq dst /\ loudest \subseteq sources
  /\ DOMAIN took \subseteq dst /\ \A c \in DOMAIN took : took[c] \in 1 .. MaxFrame
  /\ DOMAIN out \subseteq dst
  /\ \A c \in DOMAIN out : out[c] \subseteq Channel \X (Nat \ {0}) \X (1 .. MaxFrame)
  /\ noNeedCount \in 0 .. (SilenceAfter - 1)
  /\ wpc # "take" => sources = {} /\ loudest = {}
  /\ wpc \notin {"mix", "send"} => DOMAIN took = {}
  /\ wpc # "send" => DOMAIN out = {}

TypeInv == EventTypes /\ ChannelTypes /\ RoundTypes

LEMMA TypesInit == Init => TypeInv
<1> SUFFICES ASSUME Init PROVE TypeInv
  OBVIOUS
<1>1. <<>> \in Seq(Event) /\ <<>> \in Seq(1 .. MaxFrame)
  BY EmptySeq
<1>2. EventTypes
  BY <1>1 DEF Init, EventTypes
<1>3. {c \in Channel : Present(c)} = {}
  BY DEF Init, Present
<1>4. ChannelTypes
  <2>1. IsFiniteSet({c \in Channel : Present(c)})
    BY <1>3, FS_EmptySet
  <2> QED
    BY <1>1, <2>1, MediaProcessAssumption DEF Init, ChannelTypes, ApcState
<1>5. RoundTypes
  BY <1>1, MediaProcessAssumption DEF Init, RoundTypes, NoFrames
<1> QED
  BY <1>2, <1>4, <1>5 DEF TypeInv

(* What SetToSeq makes of a finite set.                                    *)
LEMMA SetToSeqIs ==
  ASSUME NEW S, IsFiniteSet(S)
  PROVE  SetToSeq(S) \in Seq(S)
<1>1. Cardinality(S) \in Nat /\ Bijection(1 .. Cardinality(S), S) # {}
  BY FS_CardinalityType DEF ExistsBijection
<1>2. \E f \in [1 .. Cardinality(S) -> S] : IsInjective(f)
  BY <1>1 DEF Bijection, Injection
<1>3. SetToSeq(S) \in [1 .. Cardinality(S) -> S]
  BY <1>2 DEF SetToSeq
<1> QED
  BY <1>1, <1>3

(* The removals reported for the broken channels are events.               *)
LEMMA RemovalsAreEvents ==
  ASSUME ChannelTypes
  PROVE  SetToSeq([type : {"remove"}, id : Broken]) \in Seq(Event)
<1> DEFINE R == [type : {"remove"}, id : Broken]
           f == [c \in Broken |-> [type |-> "remove", id |-> c]]
<1>1. IsFiniteSet(Broken)
  <2>1. Broken \subseteq {c \in Channel : Present(c)}
    BY DEF Broken, Present
  <2> QED
    BY <2>1, FS_Subset DEF ChannelTypes
<1>2. f \in Surjection(Broken, R)
  <2>1. f \in [Broken -> R]
    OBVIOUS
  <2>2. \A r \in R : \E c \in Broken : f[c] = r
    OBVIOUS
  <2> HIDE DEF f, R
  <2> QED
    BY <2>1, <2>2 DEF Surjection
<1> HIDE DEF f
<1>3. IsFiniteSet(R)
  BY <1>1, <1>2, FS_Surjection
<1>4. SetToSeq(R) \in Seq(R)
  BY <1>3, SetToSeqIs
<1>5. R \subseteq Event
  BY DEF Broken, Event
<1> HIDE DEF R
<1>6. SetToSeq(R) \in Seq(Event)
  BY <1>4, <1>5
<1> QED
  BY <1>6 DEF R

(* The events.                                                             *)
LEMMA EventTypesNext ==
  ASSUME TypeInv, RosterInv, [Next]_vars
  PROVE  EventTypes'
<1>1. EventTypes /\ ChannelTypes
  BY DEF TypeInv
<1>2. CASE UNCHANGED <<status, eventQue, evPc, evId, users>>
  BY <1>1, <1>2 DEF EventTypes
<1>3. CASE \E e \in Event : Report(e)
  <2>1. PICK e \in Event : Report(e)
    BY <1>3
  <2>2. eventQue' \in Seq(Event) /\ UNCHANGED <<status, evPc, evId, users>>
    BY <1>1, <2>1, AppendProperties DEF Report, EventTypes, evVars
  <2> QED
    BY <1>1, <2>2 DEF EventTypes
<1>4. CASE StopDown \/ StopEnd
  BY <1>1, <1>4 DEF StopDown, StopEnd, EventTypes, evVars
<1>5. ASSUME NEW type, NEW c \in Channel, Handles(type, c)
      PROVE  eventQue' \in Seq(Event)
  BY <1>1, <1>5, HeadTailProperties DEF Handles, EventTypes
<1>6. ASSUME NEW c \in Channel, HandleAdd(c) \/ HandleRemove(c)
      PROVE  EventTypes'
  <2>1. eventQue' \in Seq(Event)
    BY <1>5, <1>6 DEF HandleAdd, HandleRemove
  <2>2. UNCHANGED <<status, users>> /\ evPc' \in {"idle", "mix", "unmix"} /\ evId' \in {c, None}
    BY <1>6 DEF HandleAdd, HandleRemove, HandlerDone
  <2> QED
    BY <1>1, <2>1, <2>2 DEF EventTypes
<1>7. ASSUME NEW c \in Channel, NEW type, HandleMic(type, c)
      PROVE  EventTypes'
  <2>1. eventQue' \in Seq(Event)
    BY <1>5, <1>7 DEF HandleMic
  <2> QED
    BY <1>1, <1>7, <2>1 DEF EventTypes, HandleMic, HandlerDone
<1>8. CASE EventCheck \/ EventExit
  BY <1>1, <1>8 DEF EventTypes, EventCheck, EventExit
<1>9. CASE AddStreamId \/ RemoveId
  <2>1. evId \in Channel
    BY <1>9 DEF AddStreamId, RemoveId, RosterInv
  <2>2. users' \in [Channel -> Nat]
    <3>1. users \in [Channel -> Nat]
      BY <1>1 DEF EventTypes
    <3>2. users' = [users EXCEPT ![evId] = users[evId] + 1]
          \/ users' = [users EXCEPT ![evId] = IF users[evId] = 0 THEN 0 ELSE users[evId] - 1]
      BY <1>9 DEF AddStreamId, RemoveId
    <3>3. users[evId] \in Nat
      BY <2>1, <3>1
    <3> QED
      BY <2>1, <3>1, <3>2, <3>3
  <2>3. UNCHANGED <<status, eventQue>> /\ evPc' = "idle" /\ evId' = None
    BY <1>9 DEF AddStreamId, RemoveId, HandlerDone
  <2> QED
    BY <1>1, <2>2, <2>3 DEF EventTypes
<1>10. CASE WorkThread
  <2>1. UNCHANGED <<evPc, evId, users>> /\ status' \in {status, "exce", "crash"}
    <3>1. CASE RoundStart \/ WorkExit \/ Collect \/ Take
      BY <3>1 DEF RoundStart, WorkExit, Collect, Take, evVars
    <3>2. CASE Mix \/ Send \/ \E c \in Channel : PushData(c)
      BY <3>2 DEF Mix, Send, PushData, evVars
    <3> QED
      BY <1>10, <3>1, <3>2 DEF WorkThread
  <2>2. eventQue' \in Seq(Event)
    <3>1. CASE Collect
      <4>1. eventQue' = eventQue \/ eventQue' = eventQue \o SetToSeq([type : {"remove"}, id : Broken])
        BY <3>1 DEF Collect, ReportBroken
      <4>2. eventQue \in Seq(Event)
        BY <1>1 DEF EventTypes
      <4>3. SetToSeq([type : {"remove"}, id : Broken]) \in Seq(Event)
        BY <1>1, RemovalsAreEvents
      <4> QED
        BY <4>1, <4>2, <4>3, ConcatProperties, Zenon
    <3>2. CASE RoundStart \/ WorkExit \/ Take \/ Mix \/ Send \/ \E c \in Channel : PushData(c)
      BY <1>1, <3>2 DEF RoundStart, WorkExit, Take, Mix, Send, PushData, EventTypes
    <3> QED
      BY <1>10, <3>1, <3>2 DEF WorkThread
  <2> QED
    BY <1>1, <2>1, <2>2 DEF EventTypes
<1>11. ASSUME NEW c \in Channel, ChannelThread(c) \/ ChannelFrame(c) \/ ChannelFail(c)
       PROVE  EventTypes'
  BY <1>11, <1>2
  DEF ChannelThread, ChannelOpen, ChannelMute, ChannelReceive, ChannelFrame, ChannelFail, evVars
<1>12. CASE UNCHANGED vars
  BY <1>2, <1>12 DEF vars, evVars
<1> QED
  BY <1>3, <1>4, <1>6, <1>7, <1>8, <1>9, <1>10, <1>11, <1>12 DEF Next, EventThread

(* The channels.                                                           *)
LEMMA ChannelTypesNext ==
  ASSUME TypeInv, RosterInv, [Next]_vars
  PROVE  ChannelTypes'
<1> DEFINE Table == {c \in Channel : Present(c)}
           Frame == 1 .. MaxFrame
<1>1. ChannelTypes
  BY DEF TypeInv
<1>2. /\ apc \in [Channel -> ApcState] /\ mic \in [Channel -> {"on", "off"}]
      /\ srcBuffer \in [Channel -> Seq(Frame)] /\ arrived \in [Channel -> Frame]
      /\ IsFiniteSet(Table)
  BY <1>1 DEF ChannelTypes
<1>3. ASSUME NEW S, IsFiniteSet(S), Table' \subseteq S PROVE IsFiniteSet(Table')
  BY <1>3, FS_Subset
<1>4. CASE UNCHANGED <<apc, mic, srcBuffer, arrived>>
  BY <1>1, <1>4 DEF ChannelTypes, Present
<1>5. CASE StopEnd
  <2>1. Table' \subseteq Table /\ apc' \in [Channel -> ApcState]
        /\ mic' \in [Channel -> {"on", "off"}] /\ arrived' = arrived
    BY <1>5 DEF StopEnd, Present, ApcState
  <2>2. srcBuffer' \in [Channel -> Seq(Frame)]
    BY <1>5, EmptySeq DEF StopEnd
  <2> QED
    BY <1>2, <1>3, <2>1, <2>2 DEF ChannelTypes
<1>6. ASSUME NEW c \in Channel, HandleAdd(c) PROVE ChannelTypes'
  <2>1. CASE UNCHANGED apc
    BY <1>4, <1>6, <2>1 DEF HandleAdd
  <2>2. CASE apc' = [apc EXCEPT ![c] = "opening"]
    <3>1. Table' \subseteq Table \cup {c}
      BY <1>2, <2>2 DEF Present
    <3>2. IsFiniteSet(Table \cup {c})
      BY <1>2, FS_AddElement
    <3>3. apc' \in [Channel -> ApcState]
      BY <1>2, <2>2 DEF ApcState
    <3>4. UNCHANGED <<mic, srcBuffer, arrived>>
      BY <1>6 DEF HandleAdd
    <3>5. IsFiniteSet(Table')
      BY <1>3, <3>1, <3>2
    <3> QED
      BY <1>2, <3>3, <3>4, <3>5 DEF ChannelTypes
  <2> QED
    BY <1>6, <2>1, <2>2 DEF HandleAdd
<1>7. ASSUME NEW c \in Channel, HandleRemove(c) PROVE ChannelTypes'
  <2>1. CASE UNCHANGED <<apc, mic, srcBuffer>>
    BY <1>4, <1>7, <2>1 DEF HandleRemove
  <2>2. CASE /\ apc' = [apc EXCEPT ![c] = "absent"]
             /\ mic' = [mic EXCEPT ![c] = "off"]
             /\ srcBuffer' = [srcBuffer EXCEPT ![c] = <<>>]
    <3>1. Table' \subseteq Table
      BY <1>2, <2>2 DEF Present
    <3>2. apc' \in [Channel -> ApcState] /\ mic' \in [Channel -> {"on", "off"}]
      BY <1>2, <2>2 DEF ApcState
    <3>3. srcBuffer' \in [Channel -> Seq(Frame)]
      BY <1>2, <2>2, EmptySeq
    <3>4. IsFiniteSet(Table')
      BY <1>2, <1>3, <3>1
    <3>5. arrived' = arrived
      BY <1>7 DEF HandleRemove
    <3> QED
      BY <1>2, <3>2, <3>3, <3>4, <3>5 DEF ChannelTypes
  <2> QED
    BY <1>7, <2>1, <2>2 DEF HandleRemove
<1>8. ASSUME NEW c \in Channel, NEW type, HandleMic(type, c) PROVE ChannelTypes'
  <2>1. mic' \in [Channel -> {"on", "off"}] /\ UNCHANGED <<apc, srcBuffer, arrived>>
    BY <1>2, <1>8 DEF HandleMic
  <2>2. Table' = Table
    BY <2>1 DEF Present
  <2> QED
    BY <1>2, <2>1, <2>2 DEF ChannelTypes
<1>9. CASE WorkThread
  <2>1. CASE Take
    <3>1. UNCHANGED <<apc, mic, arrived>>
      BY <2>1 DEF Take
    <3>2. ASSUME NEW c \in Channel, srcBuffer[c] # <<>> PROVE Tail(srcBuffer[c]) \in Seq(Frame)
      BY <1>2, <3>2, HeadTailProperties
    <3>3. srcBuffer' \in [Channel -> Seq(Frame)]
      BY <1>2, <2>1, <3>2 DEF Take
    <3>4. Table' = Table
      BY <3>1 DEF Present
    <3> QED
      BY <1>2, <3>1, <3>3, <3>4 DEF ChannelTypes
  <2>2. CASE RoundStart \/ WorkExit \/ Collect \/ Mix \/ Send \/ \E c \in Channel : PushData(c)
    BY <1>4, <2>2 DEF RoundStart, WorkExit, Collect, Mix, Send, PushData, chnlVars
  <2> QED
    BY <1>9, <2>1, <2>2 DEF WorkThread
<1>10. ASSUME NEW c \in Channel, ChannelOpen(c) \/ ChannelReceive(c) \/ ChannelMute(c) \/ ChannelFail(c)
       PROVE  ChannelTypes'
  <2>1. /\ UNCHANGED <<mic, arrived>> /\ apc[c] # "absent"
        /\ apc' = apc \/ \E s \in ApcState : apc' = [apc EXCEPT ![c] = s]
        /\ srcBuffer' = srcBuffer \/ srcBuffer' = [srcBuffer EXCEPT ![c] = <<>>]
    BY <1>10 DEF ChannelOpen, ChannelReceive, ChannelMute, ChannelFail, ApcState
  <2>2. Table' \subseteq Table /\ apc' \in [Channel -> ApcState]
    BY <1>2, <2>1 DEF Present
  <2>3. srcBuffer' \in [Channel -> Seq(Frame)]
    BY <1>2, <2>1, EmptySeq
  <2>4. IsFiniteSet(Table')
    BY <1>2, <1>3, <2>2
  <2> QED
    BY <1>2, <2>1, <2>2, <2>3, <2>4 DEF ChannelTypes
<1>11. ASSUME NEW c \in Channel, ChannelFrame(c) PROVE ChannelTypes'
  <2>1. UNCHANGED <<apc, mic>> /\ arrived' = [arrived EXCEPT ![c] = (arrived[c] % MaxFrame) + 1]
    BY <1>11 DEF ChannelFrame
  <2>2. arrived[c] \in Frame /\ MaxFrame \in Nat \ {0}
    BY <1>2, MediaProcessAssumption
  <2>3. (arrived[c] % MaxFrame) + 1 \in Frame
    BY <2>2
  <2>4. arrived' \in [Channel -> Frame]
    <3> HIDE DEF Frame
    <3> QED
      BY <1>2, <2>1, <2>3
  <2>5. PICK kept : /\ kept \in {<<>>, srcBuffer[c]}
                       \/ kept = SubSeq(srcBuffer[c], Len(srcBuffer[c]) \div 2 + 1, Len(srcBuffer[c]))
                    /\ srcBuffer' = [srcBuffer EXCEPT ![c] = Append(kept, arrived[c])]
    BY <1>11 DEF ChannelFrame
  <2>6. srcBuffer[c] \in Seq(Frame)
    BY <1>2
  <2>7. kept \in Seq(Frame)
    <3>1. PICK s \in Seq(Frame) : s = srcBuffer[c]
      BY <2>6
    <3>2. PICK m, n : m = Len(s) \div 2 + 1 /\ n = Len(s)
      OBVIOUS
    <3>3. n \in Nat /\ m \in 1 .. n + 1
      BY <3>2, LenProperties
    <3>4. SubSeq(s, m, n) \in Seq(Frame)
      <4>1. m \in Int /\ n \in Int /\ m .. n \subseteq 1 .. Len(s)
        BY <3>2, <3>3
      <4>2. \A i \in m .. n : s[i] \in Frame
        BY <4>1, ElementOfSeq, Zenon
      <4> QED
        BY <4>1, <4>2, SubSeqProperties, Zenon
    <3> QED
      BY <2>5, <3>1, <3>2, <3>4, EmptySeq
  <2>8. srcBuffer' \in [Channel -> Seq(Frame)]
    <3>1. Append(kept, arrived[c]) \in Seq(Frame)
      BY <2>2, <2>7, AppendProperties
    <3> QED
      BY <1>2, <2>5, <3>1
  <2>9. Table' = Table
    BY <2>1 DEF Present
  <2> QED
    BY <1>2, <2>1, <2>4, <2>8, <2>9 DEF ChannelTypes
<1>12. CASE EventCheck \/ AddStreamId \/ RemoveId \/ EventExit \/ StopDown \/ \E e \in Event : Report(e)
  BY <1>4, <1>12 DEF EventCheck, AddStreamId, RemoveId, EventExit, StopDown, Report, chnlVars
<1>13. CASE UNCHANGED vars
  BY <1>4, <1>13 DEF vars, chnlVars
<1> QED
  BY <1>5, <1>6, <1>7, <1>8, <1>9, <1>10, <1>11, <1>12, <1>13
  DEF Next, EventThread, ChannelThread

(* The round.                                                              *)
LEMMA RoundTypesNext ==
  ASSUME TypeInv, RosterInv, MixerInv, [Next]_vars
  PROVE  RoundTypes'
<1> DEFINE Frame == 1 .. MaxFrame
<1>1. RoundTypes
  BY DEF TypeInv
<1>2. CASE UNCHANGED <<audioMap, wpc, dst, sources, loudest, took, out, noNeedCount>>
  BY <1>1, <1>2 DEF RoundTypes
<1>3. ASSUME NEW c \in Channel, HandleAdd(c) PROVE RoundTypes'
  <2>1. /\ UNCHANGED <<audioMap, dst, sources, loudest, took, out, noNeedCount>>
        /\ wpc' = wpc \/ (wpc = "none" /\ wpc' = "top")
    BY <1>3 DEF HandleAdd, mixVars, roundVars
  <2> QED
    BY <1>1, <2>1 DEF RoundTypes
<1>4. CASE AddStreamId \/ RemoveId
  <2>1. /\ UNCHANGED <<wpc, dst, sources, loudest, took, out, noNeedCount>>
        /\ audioMap' = audioMap \/ audioMap' = [audioMap EXCEPT ![evId] = <<>>]
    BY <1>4 DEF AddStreamId, RemoveId, mixVars, roundVars
  <2>2. audioMap' \in [Channel -> Seq(Frame)]
    BY <1>1, <2>1, EmptySeq DEF RoundTypes
  <2> QED
    BY <1>1, <2>1, <2>2 DEF RoundTypes
<1>5. CASE \/ EventCheck \/ EventExit \/ StopDown \/ StopEnd \/ \E e \in Event : Report(e)
           \/ \E c \in Channel : HandleRemove(c)
           \/ \E c \in Channel, type \in {"open", "close"} : HandleMic(type, c)
  BY <1>2, <1>5 DEF EventCheck, EventExit, StopDown, StopEnd, Report, HandleRemove, HandleMic,
                    mixVars, roundVars
<1>6. ASSUME NEW c \in Channel, ChannelThread(c) \/ ChannelFrame(c) \/ ChannelFail(c)
      PROVE  RoundTypes'
  BY <1>6, <1>2
  DEF ChannelThread, ChannelOpen, ChannelMute, ChannelReceive, ChannelFrame, ChannelFail,
      mixVars, roundVars
<1>7. CASE RoundStart \/ WorkExit
  <2>1. /\ UNCHANGED <<audioMap, dst, sources, loudest, took, out, noNeedCount>>
        /\ wpc = "top" /\ wpc' \in {"collect", "exit"}
    BY <1>7 DEF RoundStart, WorkExit, mixVars, roundVars
  <2> QED
    BY <1>1, <2>1 DEF RoundTypes
<1>8. CASE Collect
  <2>1. /\ UNCHANGED <<audioMap, took>> /\ wpc = "collect" /\ sources' = Candidates
        /\ Candidates \subseteq Listeners /\ Listeners \subseteq Channel
    BY <1>8 DEF Collect, mixVars, Candidates, Listeners
  <2>2. DOMAIN took = {} /\ DOMAIN out = {}
    BY <1>1, <2>1 DEF RoundTypes
  <2>3. CASE Candidates = {} /\ NoSource /\ loudest' = {}
    <3>1. /\ wpc' \in {"send", "top"} /\ noNeedCount' \in 0 .. (SilenceAfter - 1)
          /\ dst' \subseteq Channel /\ DOMAIN out' \subseteq dst'
          /\ \A l \in DOMAIN out' : out'[l] = {}
          /\ wpc' # "send" => DOMAIN out' = {}
      <4>1. noNeedCount \in 0 .. (SilenceAfter - 1) /\ SilenceAfter \in Nat \ {0}
        BY <1>1, MediaProcessAssumption DEF RoundTypes
      <4>2. noNeedCount' \in 0 .. (SilenceAfter - 1)
        BY <2>3, <4>1 DEF NoSource
      <4> QED
        BY <2>1, <2>3, <4>2 DEF NoSource, NoFrames
    <3> QED
      BY <1>1, <2>1, <2>2, <2>3, <3>1 DEF RoundTypes
  <2>4. CASE Candidates # {}
    <3>1. /\ noNeedCount' = 0 /\ dst' = Listeners /\ wpc' = "take" /\ UNCHANGED out
          /\ \E n \in 1 .. MaxMix : loudest' \in kSubset(n, Candidates)
      BY <1>8, <2>4 DEF Collect
    <3>2. loudest' \subseteq Candidates
      BY <3>1 DEF kSubset
    <3>3. 0 \in 0 .. (SilenceAfter - 1)
      BY MediaProcessAssumption
    <3> QED
      BY <1>1, <2>1, <2>2, <3>1, <3>2, <3>3 DEF RoundTypes
  <2> QED
    BY <1>8, <2>3, <2>4 DEF Collect
<1>9. CASE Take
  <2>1. /\ UNCHANGED <<audioMap, dst, out, noNeedCount>> /\ wpc = "take" /\ wpc' = "mix"
        /\ sources' = {} /\ loudest' = {}
        /\ took' = [c \in {k \in loudest : srcBuffer[k] # <<>>} |-> Head(srcBuffer[c])]
    BY <1>9 DEF Take, mixVars
  <2>2. ASSUME NEW c \in Channel, srcBuffer[c] # <<>> PROVE Head(srcBuffer[c]) \in Frame
    <3>1. srcBuffer[c] \in Seq(Frame)
      BY DEF TypeInv, ChannelTypes
    <3> QED
      BY <2>2, <3>1, HeadTailProperties
  <2>3. loudest \subseteq Channel /\ loudest \subseteq dst
    BY <1>1 DEF RoundTypes
  <2>4. DOMAIN took' \subseteq dst /\ \A c \in DOMAIN took' : took'[c] \in Frame
    BY <2>1, <2>2, <2>3
  <2> QED
    BY <1>1, <2>1, <2>4 DEF RoundTypes
<1>10. ASSUME NEW c \in Channel, PushData(c) PROVE RoundTypes'
  <2>1. /\ UNCHANGED <<wpc, dst, sources, loudest, took, out, noNeedCount>> /\ c \in toPush
        /\ audioMap' = audioMap \/ audioMap' = [audioMap EXCEPT ![c] = Append(audioMap[c], took[c])]
    BY <1>10 DEF PushData
  <2>2. took[c] \in Frame /\ audioMap[c] \in Seq(Frame)
    BY <1>1, <2>1 DEF RoundTypes, MixerInv
  <2>3. Append(audioMap[c], took[c]) \in Seq(Frame)
    BY <2>2, AppendProperties
  <2>4. audioMap' \in [Channel -> Seq(Frame)]
    BY <1>1, <2>1, <2>3 DEF RoundTypes
  <2> QED
    BY <1>1, <2>1, <2>4 DEF RoundTypes
<1>11. CASE Mix
  <2>1. UNCHANGED <<dst, sources, loudest, took, noNeedCount>> /\ wpc = "mix"
    BY <1>11 DEF Mix
  <2>2. CASE UNCHANGED <<out, audioMap, wpc>>
    BY <1>2, <2>1, <2>2
  <2>3. CASE out' = [l \in dst |-> MixAudio(l)] /\ ClearData /\ wpc' = "send"
    <3>1. ASSUME NEW l PROVE MixAudio(l) \subseteq Channel \X (Nat \ {0}) \X Frame
      <4>1. ASSUME NEW c \in Channel PROVE Held(c) \subseteq Channel \X (Nat \ {0}) \X Frame
        <5>1. audioMap[c] \in Seq(Frame)
          BY <1>1 DEF RoundTypes
        <5>2. \A i \in DOMAIN audioMap[c] : i \in Nat \ {0} /\ audioMap[c][i] \in Frame
          <6>1. PICK s \in Seq(Frame) : s = audioMap[c]
            BY <5>1
          <6>2. DOMAIN s = 1 .. Len(s) /\ Len(s) \in Nat /\ \A i \in 1 .. Len(s) : s[i] \in Frame
            <7> HIDE DEF Frame
            <7> QED
              BY LenProperties, ElementOfSeq
          <6> QED
            BY <6>1, <6>2
        <5> HIDE DEF Frame
        <5> QED
          BY <5>2 DEF Held
      <4>2. streams \subseteq Channel
        BY DEF RosterInv
      <4> HIDE DEF Frame
      <4> QED
        BY <4>1, <4>2 DEF MixAudio
    <3>2. audioMap' \in [Channel -> Seq(Frame)]
      BY <2>3, EmptySeq DEF ClearData
    <3>3. DOMAIN out' = dst' /\ \A l \in DOMAIN out' : out'[l] = MixAudio(l)
      BY <2>1, <2>3
    <3>4. DOMAIN out' \subseteq dst'
          /\ \A l \in DOMAIN out' : out'[l] \subseteq Channel \X (Nat \ {0}) \X Frame
      BY <3>1, <3>3
    <3> QED
      BY <1>1, <2>1, <2>3, <3>2, <3>4 DEF RoundTypes
  <2> QED
    BY <1>11, <2>2, <2>3 DEF Mix
<1>12. CASE Send
  <2>1. /\ UNCHANGED <<audioMap, sources, loudest, noNeedCount>> /\ wpc = "send"
        /\ wpc' \in {"top", "exit"}
        /\ dst' = {} /\ took' = NoFrames /\ out' = NoFrames
    BY <1>12 DEF Send, mixVars
  <2>2. DOMAIN NoFrames = {}
    BY DEF NoFrames
  <2>3. sources = {} /\ loudest = {}
    BY <1>1, <2>1 DEF RoundTypes
  <2> QED
    BY <1>1, <2>1, <2>2, <2>3 DEF RoundTypes
<1>13. CASE UNCHANGED vars
  BY <1>2, <1>13 DEF vars, mixVars, roundVars
<1> QED
  BY <1>3, <1>4, <1>5, <1>6, <1>7, <1>8, <1>9, <1>10, <1>11, <1>12, <1>13
  DEF Next, EventThread, WorkThread

(* TypeOK holds in every behaviour: whatever joins, fails or is removed    *)
(* during a round, the lists of the round name channels of that round, the *)
(* frames taken and sent are frames of channels, and the count of rounds   *)
(* without a source stays below its limit (eventLoop and workingLoop).     *)
THEOREM MediaTypeCorrect == Spec => []TypeOK
<1>1. (IInv /\ TypeInv) /\ [Next]_vars => TypeInv'
  BY EventTypesNext, ChannelTypesNext, RoundTypesNext DEF IInv, TypeInv
<1>2. IInv /\ TypeInv => TypeOK
  <2> SUFFICES ASSUME IInv, TypeInv PROVE TypeOK
    OBVIOUS
  <2>1. evPc \in {"mix", "unmix"} => evId # None
    BY MediaProcessAssumption DEF IInv, RosterInv
  <2>2. streams \subseteq Channel /\ toPush \subseteq DOMAIN took
    BY DEF IInv, RosterInv, MixerInv
  <2> QED
    BY <2>1, <2>2 DEF TypeInv, EventTypes, ChannelTypes, RoundTypes, ApcState, TypeOK
<1> QED
  BY TypesInit, Inductive, <1>1, <1>2, PTL DEF Spec
=============================================================================
