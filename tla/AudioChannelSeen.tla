-------------------------- MODULE AudioChannelSeen --------------------------
(***************************************************************************)
(* AudioChannel seen as MediaProcess sees a channel: the reduction of the  *)
(* channel thread there is justified by the thread as it is.               *)
(***************************************************************************)
EXTENDS AudioChannel

CONSTANT None  \* no event, for MediaProcess

(* What MediaProcess sees of the channel: from the moment close() begins,  *)
(* in the locker that protects the channel table, it is absent.            *)
SeenState ==
  IF closer # "none" THEN "absent"
  ELSE CASE pc \in {"open", "timer"} -> "opening"
         [] pc = "failed" -> "failed"
         [] pc = "loop" -> "ready"
         [] pc = "clear" -> "muting"
         [] pc \in {"recv", "got", "process"} -> "receiving"
         [] OTHER -> "exce"

SeenMic == IF closer = "none" THEN micType ELSE "off"
SeenBuffer == IF closer = "none" THEN [i \in DOMAIN srcBuffer |-> srcBuffer[i].n] ELSE <<>>
SeenView == <<SeenState, SeenMic, SeenBuffer>>

Only(x) == [c \in {"channel"} |-> x]
NoFunction == [c \in {} |-> 0]

Seen == INSTANCE MediaProcess WITH
  Channel <- {"channel"}, MaxMix <- 1, SilenceAfter <- 1, Failing <- {"bind", "decode"},
  Requests <- {}, MaxEvents <- 0,
  status <- "run", eventQue <- <<>>, evPc <- "idle", evId <- None, users <- Only(1),
  apc <- Only(SeenState), mic <- Only(SeenMic), srcBuffer <- Only(SeenBuffer),
  arrived <- Only(arrived), streams <- {"channel"}, audioMap <- Only(<<>>), wpc <- "top",
  dst <- {}, sources <- {}, loudest <- {}, took <- NoFunction, toPush <- {}, out <- NoFunction,
  noNeedCount <- 0

(* In that view, what the two other threads of the MPU do to a channel.    *)
SeenByOthers == SetMicType("on") \/ SetMicType("off") \/ Close \/ GetBuffer

(* AsSeen: every step of this module that changes the view is a step of    *)
(* MediaProcess's channel, or what the MPU's own threads do to it: the     *)
(* seven states, the switching and the cutting that the checks of the      *)
(* media plane rest on are what workingLoop does.                          *)
AsSeen ==
  [][ \/ Seen!ChannelThread("channel")
      \/ Seen!ChannelFrame("channel")
      \/ Seen!ChannelFail("channel")
      \/ SeenByOthers ]_SeenView
=============================================================================
