------------------------- MODULE ReconcileScheduler -------------------------
(***************************************************************************)
(* What the controller's workqueue and worker pool promise the reconciler  *)
(* (pkg/controller/controller.go:170-221, spec section 5): a key requested *)
(* is remembered until a worker takes it; a worker takes only a requested  *)
(* key, and never one another worker is reconciling; a request made while  *)
(* its key is being reconciled stays pending for a later take.             *)
(***************************************************************************)
CONSTANTS
    Keys,       \* object keys
    Workers,    \* the worker goroutines
    NoKey       \* the item of an idle worker

VARIABLES
    pending,    \* keys requested since they were last taken
    running     \* worker -> the key it reconciles, or NoKey

vars == <<pending, running>>

Init ==
    /\ pending = {}
    /\ running = [w \in Workers |-> NoKey]

Request(k) ==
    /\ pending' = pending \cup {k}
    /\ UNCHANGED running

\* An idle worker takes a pending key no other worker holds.
Take(w, k) ==
    /\ running[w] = NoKey
    /\ k \in pending
    /\ \A x \in Workers : running[x] # k
    /\ pending' = pending \ {k}
    /\ running' = [running EXCEPT ![w] = k]

Finish(w) ==
    /\ running[w] # NoKey
    /\ running' = [running EXCEPT ![w] = NoKey]
    /\ UNCHANGED pending

Next ==
    \/ \E k \in Keys : Request(k)
    \/ \E w \in Workers : Finish(w) \/ \E k \in Keys : Take(w, k)

Spec == Init /\ [][Next]_vars

=============================================================================
