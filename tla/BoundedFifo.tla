----------------------------- MODULE BoundedFifo -----------------------------
(***************************************************************************)
(* What OneOnePipe (src/inc/rtpTrs/rtpTrs.hpp) promises: a first-in        *)
(* first-out queue of at most Size items, from which each take hands out   *)
(* some of the oldest items in one go.                                     *)
(***************************************************************************)
EXTENDS Naturals, Sequences

CONSTANTS Item, Size

VARIABLES
  queue, \* the items put and not taken, oldest first
  given  \* the items the last take handed out

Init == queue = <<>> /\ given = <<>>

Put(x) ==
  /\ Len(queue) < Size
  /\ queue' = Append(queue, x)
  /\ UNCHANGED given

Take(k) ==
  /\ given' = SubSeq(queue, 1, k)
  /\ queue' = SubSeq(queue, k + 1, Len(queue))

Next ==
  \/ \E x \in Item : Put(x)
  \/ \E k \in 0 .. Len(queue) : Take(k)

Spec == Init /\ [][Next]_<<queue, given>>
=============================================================================
