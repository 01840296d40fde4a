------------------------------- MODULE MCPorts -------------------------------
(* Ports on small instances.                                               *)
EXTENDS Ports, TLC

CONSTANTS m1, m2, c1, c2

Symmetry == Permutations(Client)
=============================================================================
