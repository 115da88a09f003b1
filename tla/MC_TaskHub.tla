----------------------------- MODULE MC_TaskHub -----------------------------
(* Small instances of TaskHub for TLC: two tasks, one of them ackLate, and *)
(* three Register calls of which two name the same task.                   *)
EXTENDS TaskHub, TLC

CONSTANTS t1, t2, r1, r2, r3

MCTasks == {t1, t2}
MCAckLate == {t1}
MCRegCalls == {r1, r2, r3}
MCCallTask == (r1 :> t1) @@ (r2 :> t2) @@ (r3 :> t1)
=============================================================================
