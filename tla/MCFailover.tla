----------------------------- MODULE MCFailover -----------------------------
(* Small instances of Failover for TLC.                                     *)
EXTENDS Failover, TLC

CONSTANTS a, b, x, y

ThreeServers == {0, 2, 7}

Symmetry == Permutations(Clients)
=============================================================================
