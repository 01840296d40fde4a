---------------------------- MODULE MCSignalling ----------------------------
(* Signalling for TLC: users, and ports, are interchangeable.              *)
EXTENDS Signalling, TLC

Symmetry == Permutations(User) \cup Permutations(Port)
=============================================================================
