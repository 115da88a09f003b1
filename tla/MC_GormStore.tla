---------------------------- MODULE MC_GormStore ----------------------------
(* Small instances of GormStore for TLC.                                   *)
EXTENDS GormStore, TLC

CONSTANTS c1, c2, c3, k1, k2, v1, v2

MCClients == {c1, c2, c3}
MCClients2 == {c1, c2}
MCKeys1 == {k1}
MCKeys2 == {k1, k2}
MCVals == {v1, v2}

ClientSymmetry == Permutations(MCClients)

=============================================================================
