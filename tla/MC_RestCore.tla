----------------------------- MODULE MC_RestCore -----------------------------
(* A small instance of RestCore for TLC: two keys and an admission chain   *)
(* of two plug-ins, the first both a validator and a mutator.              *)
EXTENDS RestCore, TLC

CONSTANTS h1, h2

MCChain == <<h1, h2>>
MCValidators == {h1}
MCMutators == {h1, h2}

\* h1 guards creates and updates, h2 creates and deletes.
MCHandlesOps == [h \in {h1, h2} |-> IF h = h1 THEN {"CREATE", "UPDATE"}
                                               ELSE {"CREATE", "DELETE"}]

MCOffsets == {NoParam, BadNum, -1, 0, 1}
MCLimits == {NoParam, BadNum, 1}
=============================================================================
