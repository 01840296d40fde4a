--------------------------- MODULE MCMediaProcess ---------------------------
(* Small instances of MediaProcess for TLC. *)
EXTENDS MediaProcess, TLC

CONSTANTS a, b, c

(* Sound for the invariants: none singles out a channel, and with at most  *)
(* one event queued no sequence of channels is chosen.                     *)
Symmetry == Permutations(Channel)
=============================================================================
