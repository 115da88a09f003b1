---------------------------- MODULE MC_Controller ----------------------------
(* Small instances of Controller for TLC: two keys, two workers.           *)
EXTENDS Controller, TLC

CONSTANTS k1, k2, w1, w2

MCKeys == {k1, k2}
MCWorkers == {w1, w2}

\* The workers are interchangeable goroutines.
WorkerSymmetry == Permutations(MCWorkers)
=============================================================================
