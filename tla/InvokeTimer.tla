----------------------------- MODULE InvokeTimer -----------------------------
(***************************************************************************)
(* InvokeTimer (src/inc/utils/InvokeTimer.hpp): a callback that a thread of *)
(* the timer's own runs periodically, until the owner cancels it. A channel, *)
(* an MPU and the MCU use it for their statistics; the callback works on   *)
(* variables of the thread that owns the timer. The asio timer underneath  *)
(* is external: its cancel() turns a pending wait into an aborted one and  *)
(* does nothing to a wait that has already expired.                        *)
(***************************************************************************)
EXTENDS Naturals

VARIABLES
  timer,    \* where the timer's thread is
  periodic, \* periodic_
  owner,    \* how far the owner is: in Start and in Cancel
  late      \* history: callbacks begun since Cancel was called, counted up to 2

timerVars == <<timer, periodic, owner, late>>

Init ==
  /\ timer = "idle" /\ periodic = TRUE /\ owner = "new" /\ late = 0

-----------------------------------------------------------------------------
(* The owner.                                                              *)

Start ==
  /\ owner = "new" /\ owner' = "running"
  /\ timer' = "wait"
  /\ UNCHANGED <<periodic, late>>

CancelFlag ==
  /\ owner = "running" /\ owner' = "flagged"
  /\ periodic' = FALSE
  /\ UNCHANGED <<timer, late>>

CancelWait ==
  /\ owner = "flagged" /\ owner' = "joining"
  /\ timer' = IF timer = "wait" THEN "aborted" ELSE timer
  /\ UNCHANGED <<periodic, late>>

(* Mutation: Cancel does not wait for the thread.                          *)
CancelDetach ==
  /\ owner = "joining" /\ owner' = "gone"
  /\ UNCHANGED <<timer, periodic, late>>

CancelJoin ==
  /\ owner = "joining" /\ timer = "exit" /\ owner' = "gone"
  /\ UNCHANGED <<timer, periodic, late>>

-----------------------------------------------------------------------------
(* The timer's thread.                                                     *)

Expire ==
  /\ timer = "wait" /\ timer' = "expired"
  /\ UNCHANGED <<periodic, owner, late>>

(* OnTrigger, without an error: the callback, then periodic_ is read, and  *)
(* then the timer is armed again. With an error it ends.                   *)
Trigger ==
  /\ timer = "expired" /\ timer' = "callback"
  /\ late' = IF owner \in {"flagged", "joining"} /\ late < 2 THEN late + 1 ELSE late
  /\ UNCHANGED <<periodic, owner>>

(* Mutation: the flag is not looked at.                                    *)
TestFlagNever ==
  /\ timer = "callback" /\ timer' = "rearm"
  /\ UNCHANGED <<periodic, owner, late>>

TestFlag ==
  /\ timer = "callback"
  /\ timer' = IF periodic THEN "rearm" ELSE "exit"
  /\ UNCHANGED <<periodic, owner, late>>

Rearm ==
  /\ timer = "rearm" /\ timer' = "wait"
  /\ UNCHANGED <<periodic, owner, late>>

Abort ==
  /\ timer = "aborted" /\ timer' = "exit"
  /\ UNCHANGED <<periodic, owner, late>>

TimerThread == Expire \/ Trigger \/ TestFlag \/ Rearm \/ Abort

Next == Start \/ CancelFlag \/ CancelWait \/ CancelJoin \/ TimerThread

Spec == Init /\ [][Next]_timerVars

-----------------------------------------------------------------------------
(* CallbackInLife: the callback never runs once Cancel has returned and    *)
(* the owner may have gone, with the variables the callback works on; and  *)
(* whatever Cancel runs into, it waits for one more callback at most.      *)
CallbackInLife ==
  /\ owner = "gone" => timer = "exit"
  /\ late <= 1
=============================================================================
