----------------------------- MODULE Controller -----------------------------
(***************************************************************************)
(* The controller runtime of pkg/controller: WatchDescribes started by     *)
(* Watch/Start (controller.go:100-150), the store Source and the          *)
(* TimerSource feeding the stock EnqueueHandler (source.go, handler.go),  *)
(* the client-go workqueue the controller creates, and a pool of workers  *)
(* running processNextWorkItem and reconcileHandler (controller.go:170-   *)
(* 221).                                                                   *)
(*                                                                         *)
(* The workqueue is client-go's: Add drops a key already dirty and only    *)
(* queues it when it is not being processed, Get moves the head to the    *)
(* processing set, Done re-queues a key that was added meanwhile.  The    *)
(* delaying and rate-limited adds (AddAfter, AddRateLimited) put the key  *)
(* in a waiting set from which it is Added later; the delays themselves,  *)
(* and the per-key backoff that Forget resets, are abstracted.            *)
(***************************************************************************)
EXTENDS Naturals, Sequences, FiniteSets

CONSTANTS
    Keys,          \* object keys
    Workers,       \* the MaxConcurrentReconciles worker goroutines
    RecoverPanic,  \* ControllerConfig.RecoverPanic
    Accepts,       \* event kinds every predicate of the store Source accepts
    TimerKey,      \* the key the TimerSource's Generic handler enqueues
    MaxEvents,     \* bound on store events plus timer ticks in a behaviour
    MaxRetry,      \* bound on requeueing reconcile results in a behaviour
    NoKey          \* the item of an idle worker

EventKinds == {"create", "update", "delete"}

\* The two WatchDescribes the program registers: the store Source and a TimerSource.
Watches == {"store", "timer"}

ASSUME ControllerAssumption ==
    /\ Workers # {}
    /\ RecoverPanic \in BOOLEAN
    /\ Accepts \subseteq EventKinds
    /\ TimerKey \in Keys /\ NoKey \notin Keys
    /\ MaxEvents \in Nat /\ MaxRetry \in Nat

VARIABLES
    started,     \* ctl.Started
    pendingW,    \* ctl.watchDescribes: registered, not yet started
    activeW,     \* WatchDescribes whose Source goroutine runs
    inbox,       \* events on the store Source's channel, oldest first
    sent,        \* store events published plus timer ticks so far
    queue,       \* workqueue: the queue slice
    dirty,       \* workqueue: the dirty set
    processing,  \* workqueue: the processing set
    waiting,     \* delaying queue: keys waiting for AddAfter/AddRateLimited
    wpc,         \* worker -> "get" | "rec"
    witem,       \* worker -> the key it reconciles, or NoKey
    retries,     \* requeueing results so far
    alive,       \* FALSE once an unrecovered reconciler panic ended the process
    want         \* ghost: keys Added since their last Get

vars == <<started, pendingW, activeW, inbox, sent, queue, dirty, processing,
          waiting, wpc, witem, retries, alive, want>>

qVars == <<queue, dirty, processing, waiting, want>>

Events == [kind : EventKinds, key : Keys]

\* reconcile.Result and error, as the classes reconcileHandler tells apart.
Outcomes == {"ok", "err", "requeue", "after", "panic"}

TypeOK ==
    /\ started \in BOOLEAN /\ alive \in BOOLEAN
    /\ pendingW \subseteq Watches /\ activeW \subseteq Watches
    /\ inbox \in Seq(Events)
    /\ sent \in 0..MaxEvents /\ retries \in 0..MaxRetry
    /\ queue \in Seq(Keys)
    /\ dirty \subseteq Keys /\ processing \subseteq Keys /\ waiting \subseteq Keys
    /\ wpc \in [Workers -> {"get", "rec"}]
    /\ witem \in [Workers -> Keys \cup {NoKey}]
    /\ want \subseteq Keys

Init ==
    /\ started = FALSE /\ pendingW = {} /\ activeW = {}
    /\ inbox = <<>> /\ sent = 0
    /\ queue = <<>> /\ dirty = {} /\ processing = {} /\ waiting = {}
    /\ wpc = [w \in Workers |-> "get"] /\ witem = [w \in Workers |-> NoKey]
    /\ retries = 0 /\ alive = TRUE
    /\ want = {}

-----------------------------------------------------------------------------
(* The workqueue operations, as parts of the actions that call them.       *)

\* Mutant: Add queues the key even while a worker processes it.
AddIgnoringProcessing(k) ==
    /\ dirty' = dirty \cup {k}
    /\ queue' = IF k \in dirty THEN queue ELSE Append(queue, k)
    /\ want' = want \cup {k}

\* Queue.Add(k): a dirty key is dropped, a key in processing only marked dirty.
Add(k) ==
    /\ dirty' = dirty \cup {k}
    /\ queue' = IF k \in dirty \cup processing THEN queue ELSE Append(queue, k)
    /\ want' = want \cup {k}

\* Mutant: Done forgets to re-queue a key that was added while processed.
DoneNoRequeue(k) ==
    /\ processing' = processing \ {k}
    /\ UNCHANGED queue

\* Queue.Done(k): leave processing; a key that became dirty is queued again.
Done(k) ==
    /\ processing' = processing \ {k}
    /\ queue' = IF k \in dirty THEN Append(queue, k) ELSE queue

-----------------------------------------------------------------------------
(* Watch and Start, controller.go:100-150.                                 *)

\* Watch: before Start the describe is queued, after Start it starts at once.
Watch(d) ==
    /\ d \notin pendingW \cup activeW
    /\ \/ /\ ~started
          /\ pendingW' = pendingW \cup {d}
          /\ UNCHANGED activeW
       \/ /\ started
          /\ activeW' = activeW \cup {d}
          /\ UNCHANGED pendingW
    /\ UNCHANGED <<started, inbox, sent, qVars, wpc, witem, retries, alive>>

\* Start: a second call fails; otherwise start every queued describe, clear
\* the list, set Started and spawn the workers (wpc is already "get").
Start ==
    /\ ~started
    /\ activeW' = activeW \cup pendingW
    /\ pendingW' = {}
    /\ started' = TRUE
    /\ UNCHANGED <<inbox, sent, qVars, wpc, witem, retries, alive>>

-----------------------------------------------------------------------------
(* Sources, source.go.                                                     *)

\* The store publishes an event on the channel the store Source reads.
StoreEvent(e) ==
    /\ alive
    /\ sent < MaxEvents
    /\ inbox' = Append(inbox, e)
    /\ sent' = sent + 1
    /\ UNCHANGED <<started, pendingW, activeW, qVars, wpc, witem, retries, alive>>

\* source.Start's loop: an event some predicate rejects is skipped, one all
\* accept is routed by kind to EnqueueHandler, which Adds Request{Key}.
SourceRecv ==
    /\ alive /\ "store" \in activeW
    /\ inbox # <<>>
    /\ inbox' = Tail(inbox)
    /\ \/ /\ Head(inbox).kind \in Accepts
          /\ Add(Head(inbox).key)
       \/ /\ Head(inbox).kind \notin Accepts
          /\ UNCHANGED <<queue, dirty, want>>
    /\ UNCHANGED <<started, pendingW, activeW, sent, processing, waiting, wpc,
                   witem, retries, alive>>

\* TimerSource.Start: on each tick the predicate loop's `continue` only
\* continues that inner loop, so the Generic handler runs whatever the
\* predicates answer (source.go:92-97).
TimerTick ==
    /\ alive /\ "timer" \in activeW
    /\ sent < MaxEvents
    /\ sent' = sent + 1
    /\ Add(TimerKey)
    /\ UNCHANGED <<started, pendingW, activeW, inbox, processing, waiting, wpc,
                   witem, retries, alive>>

-----------------------------------------------------------------------------
(* Workers: processNextWorkItem and reconcileHandler, controller.go:170-221.*)

\* Mutant: Get moves the head to processing but leaves it in dirty.
GetKeepDirty(w) ==
    /\ started /\ alive
    /\ wpc[w] = "get"
    /\ queue # <<>>
    /\ queue' = Tail(queue)
    /\ processing' = processing \cup {Head(queue)}
    /\ want' = want \ {Head(queue)}
    /\ wpc' = [wpc EXCEPT ![w] = "rec"]
    /\ witem' = [witem EXCEPT ![w] = Head(queue)]
    /\ UNCHANGED <<started, pendingW, activeW, inbox, sent, dirty, waiting,
                   retries, alive>>

\* Queue.Get: the head moves to processing and leaves dirty.
Get(w) ==
    /\ started /\ alive
    /\ wpc[w] = "get"
    /\ queue # <<>>
    /\ queue' = Tail(queue)
    /\ processing' = processing \cup {Head(queue)}
    /\ dirty' = dirty \ {Head(queue)}
    /\ want' = want \ {Head(queue)}
    /\ wpc' = [wpc EXCEPT ![w] = "rec"]
    /\ witem' = [witem EXCEPT ![w] = Head(queue)]
    /\ UNCHANGED <<started, pendingW, activeW, inbox, sent, waiting, retries,
                   alive>>

\* The results reconcileHandler requeues: an error (a recovered panic is
\* one), Requeue, and RequeueAfter > 0.
Requeues(o) == o \in {"err", "requeue", "after"} \/ (o = "panic" /\ RecoverPanic)

\* Mutant: the worker's item is cleared before the result policy reads it.
ReconcileEndAfterReset(w, o) ==
    /\ alive /\ wpc[w] = "rec"
    /\ o # "panic" \/ RecoverPanic
    /\ Requeues(o) => retries < MaxRetry
    /\ retries' = IF Requeues(o) THEN retries + 1 ELSE retries
    /\ waiting' = IF Requeues(o) THEN waiting \cup {NoKey} ELSE waiting
    /\ Done(NoKey)
    /\ wpc' = [wpc EXCEPT ![w] = "get"]
    /\ witem' = [witem EXCEPT ![w] = NoKey]
    /\ UNCHANGED <<started, pendingW, activeW, inbox, sent, dirty, alive, want>>

\* Reconcile returns (or panics and is recovered); reconcileHandler applies
\* the result policy (AddRateLimited or AddAfter put the key in the waiting
\* set, Forget only resets its backoff) and the deferred Queue.Done runs.
ReconcileEnd(w, o) ==
    /\ alive /\ wpc[w] = "rec"
    /\ o # "panic" \/ RecoverPanic
    /\ Requeues(o) => retries < MaxRetry
    /\ retries' = IF Requeues(o) THEN retries + 1 ELSE retries
    /\ waiting' = IF Requeues(o) THEN waiting \cup {witem[w]} ELSE waiting
    /\ Done(witem[w])
    /\ wpc' = [wpc EXCEPT ![w] = "get"]
    /\ witem' = [witem EXCEPT ![w] = NoKey]
    /\ UNCHANGED <<started, pendingW, activeW, inbox, sent, dirty, alive, want>>

\* Without RecoverPanic, Reconcile re-raises the panic and the process dies.
ReconcilePanic(w) ==
    /\ alive /\ wpc[w] = "rec"
    /\ ~RecoverPanic
    /\ alive' = FALSE
    /\ UNCHANGED <<started, pendingW, activeW, inbox, sent, qVars, wpc, witem,
                   retries>>

\* The delaying queue's waiting loop Adds a key once its delay has passed.
WaitingReady(k) ==
    /\ alive
    /\ k \in waiting
    /\ waiting' = waiting \ {k}
    /\ Add(k)
    /\ UNCHANGED <<started, pendingW, activeW, inbox, sent, processing, wpc,
                   witem, retries, alive>>

Next ==
    \/ \E d \in Watches : Watch(d)
    \/ Start \/ SourceRecv \/ TimerTick
    \/ \E e \in Events : StoreEvent(e)
    \/ \E k \in Keys : WaitingReady(k)
    \/ \E w \in Workers :
          \/ Get(w) \/ ReconcilePanic(w)
          \/ \E o \in Outcomes : ReconcileEnd(w, o)

Spec == Init /\ [][Next]_vars

\* The Source goroutines, the workers and the delaying queue's loop are
\* each scheduled whenever they can run.
FairSpec ==
    /\ Spec
    /\ WF_vars(SourceRecv)
    /\ \A k \in Keys : WF_vars(WaitingReady(k))
    /\ \A w \in Workers : /\ WF_vars(Get(w))
                          /\ WF_vars(\E o \in Outcomes : ReconcileEnd(w, o))

-----------------------------------------------------------------------------
(* Properties.                                                             *)

(* Spec 5, ordering: the workqueue's dedup serialises processing per key  *)
(* even with many workers: no two workers reconcile the same key at once. *)
NoConcurrentReconcile ==
    \A w1, w2 \in Workers :
        (w1 # w2 /\ wpc[w1] = "rec" /\ wpc[w2] = "rec") => witem[w1] # witem[w2]

(* No lost wakeup: a key Added since it was last taken is queued, or being *)
(* processed and dirty so that Done queues it again.                       *)
WantScheduled ==
    \A k \in want :
        (\E i \in 1..Len(queue) : queue[i] = k) \/ (k \in processing /\ k \in dirty)

(* Every Add is followed by a reconcile of that key that starts after it. *)
WantServed == \A k \in Keys : k \in want ~> k \notin want

\* The key each worker reconciles, NoKey for a worker blocked in Queue.Get.
Running == [w \in Workers |-> IF wpc[w] = "rec" THEN witem[w] ELSE NoKey]

\* The workqueue and the workers seen as the abstract scheduler: the dirty
\* set is the set of pending requests.
Sched == INSTANCE ReconcileScheduler WITH pending <- dirty, running <- Running

(* The workqueue and workers implement ReconcileScheduler: a worker's Get  *)
(* takes only a key requested since it was last taken and not held by     *)
(* another worker, a request is dropped only by that take, and Done and    *)
(* the source loops never forget one (workqueue Add/Get/Done, controller.go *)
(* processNextWorkItem and reconcileHandler).                              *)
ImplementsScheduler == Sched!Spec

=============================================================================
