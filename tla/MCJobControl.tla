---------------------------- MODULE MCJobControl ----------------------------
(* Small instances of JobControl for TLC. *)
EXTENDS JobControl, TLC

CONSTANTS j1, j2, m1, m2, c1, c2

(* Sound for the invariants only: none of them singles out a job, an MPU   *)
(* object or a client.                                                     *)
Symmetry == Permutations(Job) \cup Permutations(Mpu) \cup Permutations(Client)
=============================================================================
