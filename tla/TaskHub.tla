------------------------------ MODULE TaskHub ------------------------------
(***************************************************************************)
(* The task hub of pkg/task/taskhub.go with the SQL subscriber it drives   *)
(* (watermill-sql configured by pkg/task/adapter.go).                      *)
(*                                                                         *)
(* Actors: one goroutine per Register call, the RunForever goroutine, and  *)
(* per subscribed task a worker goroutine (taskhub.go:209-238) and the     *)
(* subscriber goroutine that feeds it.  The subscriber holds one SQL       *)
(* transaction per message: it locks the offsets row (NextOffsetQuery,     *)
(* FOR UPDATE), selects the next message after offset_acked, hands it to   *)
(* the worker over an unbuffered channel, waits for msg.Ack(), runs        *)
(* AckMessageQuery and commits.  A crash rolls back an uncommitted         *)
(* transaction; the messages table and offset_acked survive it, the        *)
(* registry and the goroutines do not.                                     *)
(*                                                                         *)
(* A message is its offset within its topic; payloads are abstracted.      *)
(***************************************************************************)
EXTENDS Naturals, FiniteSets

CONSTANTS
    Tasks,          \* task names, one topic each
    AckLateTasks,   \* the tasks registered with TaskConfig{AckLate: true}
    RegCalls,       \* Register calls made by the program at start-up
    CallTask,       \* RegCalls -> Tasks: the name each call registers
    MaxEmit,        \* bound on Emit calls per task in a behaviour
    MaxCrash        \* bound on process crashes in a behaviour

ASSUME HubAssumption ==
    /\ AckLateTasks \subseteq Tasks
    /\ CallTask \in [RegCalls -> Tasks]
    /\ MaxEmit \in Nat
    /\ MaxCrash \in Nat

VARIABLES
    registry,   \* taskhub.registry: the names registered
    regpc,      \* Register call -> "idle" | "checked" | "done" | "rejected" | "dup"
    running,    \* taskhub.running
    hubpc,      \* RunForever: "init" | "iter" | "serve"
    snapshot,   \* the registry entries present when `range t.registry` began
    subscribed, \* the tasks RunForever has subscribed and started a worker for
    emitted,    \* persistent: task -> number of messages in its topic
    acked,      \* persistent: task -> offset_acked of the consumer group
    cur,        \* task -> offset the subscriber's transaction is delivering
    sub,        \* task -> subscriber: "idle" | "waitAck" | "acking"
    wk,         \* task -> worker: "recv" | "run"
    runs,       \* ghost: task -> offset -> handler invocations
    done,       \* ghost: task -> offsets some handler run finished (any outcome)
    clean,      \* ghost: task -> offsets some handler run returned without panic
    crashes     \* ghost: crashes so far

vars == <<registry, regpc, running, hubpc, snapshot, subscribed, emitted, acked,
          cur, sub, wk, runs, done, clean, crashes>>

hubVars == <<registry, regpc, running, hubpc, snapshot, subscribed>>
msgVars == <<emitted, acked, cur, sub, wk>>
ghostVars == <<runs, done, clean, crashes>>

Offsets == 1..MaxEmit

\* The outcomes of desc.Func: a nil or non-nil error (both only logged), or a panic.
Outcomes == {"ok", "err", "panic"}

TypeOK ==
    /\ registry \subseteq Tasks
    /\ regpc \in [RegCalls -> {"idle", "checked", "done", "rejected", "dup"}]
    /\ running \in BOOLEAN
    /\ hubpc \in {"init", "iter", "serve"}
    /\ snapshot \subseteq Tasks /\ subscribed \subseteq Tasks
    /\ emitted \in [Tasks -> 0..MaxEmit]
    /\ acked \in [Tasks -> 0..MaxEmit]
    /\ cur \in [Tasks -> 0..MaxEmit]
    /\ sub \in [Tasks -> {"idle", "waitAck", "acking"}]
    /\ wk \in [Tasks -> {"recv", "run"}]
    /\ runs \in [Tasks -> [Offsets -> Nat]]
    /\ done \in [Tasks -> SUBSET Offsets]
    /\ clean \in [Tasks -> SUBSET Offsets]
    /\ crashes \in 0..MaxCrash

\* The state of a freshly started process (NewTaskHub, taskhub.go:128-144):
\* empty registry, not running, no subscriber and no worker.
Fresh ==
    /\ registry = {}
    /\ regpc = [r \in RegCalls |-> "idle"]
    /\ running = FALSE
    /\ hubpc = "init"
    /\ snapshot = {}
    /\ subscribed = {}
    /\ cur = [t \in Tasks |-> 0]
    /\ sub = [t \in Tasks |-> "idle"]
    /\ wk = [t \in Tasks |-> "recv"]

Init ==
    /\ Fresh
    /\ emitted = [t \in Tasks |-> 0]
    /\ acked = [t \in Tasks |-> 0]
    /\ runs = [t \in Tasks |-> [i \in Offsets |-> 0]]
    /\ done = [t \in Tasks |-> {}]
    /\ clean = [t \in Tasks |-> {}]
    /\ crashes = 0

-----------------------------------------------------------------------------
(* Register, taskhub.go:147-169: the running flag is read under runningMu, *)
(* the lock is released, and only then is the registry written under mu.  *)

RegCheck(r) ==
    /\ regpc[r] = "idle"
    /\ regpc' = [regpc EXCEPT ![r] = IF running THEN "rejected" ELSE "checked"]
    /\ UNCHANGED <<registry, running, hubpc, snapshot, subscribed, msgVars, ghostVars>>

RegInsert(r) ==
    /\ regpc[r] = "checked"
    /\ \/ /\ CallTask[r] \in registry
          /\ regpc' = [regpc EXCEPT ![r] = "dup"]
          /\ UNCHANGED registry
       \/ /\ CallTask[r] \notin registry
          /\ registry' = registry \cup {CallTask[r]}
          /\ regpc' = [regpc EXCEPT ![r] = "done"]
    /\ UNCHANGED <<running, hubpc, snapshot, subscribed, msgVars, ghostVars>>

(* Emit, taskhub.go:179-190: one INSERT into the messages table; the name  *)
(* is not checked against the registry.                                    *)
Emit(t) ==
    /\ emitted[t] < MaxEmit
    /\ emitted' = [emitted EXCEPT ![t] = @ + 1]
    /\ UNCHANGED <<hubVars, acked, cur, sub, wk, ghostVars>>

(* RunForever, taskhub.go:195-201: set running, then range over the map    *)
(* without holding mu.  An entry a concurrent Register adds during the     *)
(* range may or may not be visited; every entry present when it began is.  *)
RunStart ==
    /\ hubpc = "init"
    /\ running' = TRUE
    /\ snapshot' = registry
    /\ hubpc' = "iter"
    /\ UNCHANGED <<registry, regpc, subscribed, msgVars, ghostVars>>

\* taskhub.go:202-238: Subscribe to the topic and start its worker.
RunSubscribe(t) ==
    /\ hubpc = "iter"
    /\ t \in registry \ subscribed
    /\ subscribed' = subscribed \cup {t}
    /\ UNCHANGED <<registry, regpc, running, hubpc, snapshot, msgVars, ghostVars>>

\* The range ends once every entry of the snapshot was visited; RunForever
\* then blocks in wg.Wait (taskhub.go:241).
RunIterEnd ==
    /\ hubpc = "iter"
    /\ snapshot \subseteq subscribed
    /\ hubpc' = "serve"
    /\ UNCHANGED <<registry, regpc, running, snapshot, subscribed, msgVars, ghostVars>>

-----------------------------------------------------------------------------
(* A subscribed topic: the subscriber's transaction and the worker.        *)

\* Mutant: SelectQuery with offset_msg >= (NextOffsetQuery) instead of >.
NextOffsetInclusive(t) == IF acked[t] = 0 THEN 1 ELSE acked[t]

\* adapter.go:34-48 and 76-83: the first message after offset_acked.
NextOffset(t) == acked[t] + 1

\* Mutant: the worker acks at once whatever the task's AckLate setting.
DeliverAckEarly(t) ==
    /\ t \in subscribed
    /\ sub[t] = "idle" /\ wk[t] = "recv"
    /\ acked[t] < emitted[t]
    /\ cur' = [cur EXCEPT ![t] = NextOffset(t)]
    /\ sub' = [sub EXCEPT ![t] = "acking"]
    /\ wk' = [wk EXCEPT ![t] = "run"]
    /\ runs' = [runs EXCEPT ![t][NextOffset(t)] = @ + 1]
    /\ UNCHANGED <<hubVars, emitted, acked, done, clean, crashes>>

\* Mutant: an empty SELECT result is delivered as if it were a message.
DeliverPastEnd(t) ==
    /\ t \in subscribed
    /\ sub[t] = "idle" /\ wk[t] = "recv"
    /\ cur' = [cur EXCEPT ![t] = NextOffset(t)]
    /\ sub' = [sub EXCEPT ![t] = IF t \in AckLateTasks THEN "waitAck" ELSE "acking"]
    /\ wk' = [wk EXCEPT ![t] = "run"]
    /\ runs' = [runs EXCEPT ![t][NextOffset(t)] = @ + 1]
    /\ UNCHANGED <<hubVars, emitted, acked, done, clean, crashes>>

(* The subscriber selects the next message and sends it on the unbuffered  *)
(* channel to the waiting worker, which scans it and, unless ackLate,      *)
(* acks at once (taskhub.go:213-222), then invokes the handler.            *)
Deliver(t) ==
    /\ t \in subscribed
    /\ sub[t] = "idle" /\ wk[t] = "recv"
    /\ acked[t] < emitted[t]
    /\ cur' = [cur EXCEPT ![t] = NextOffset(t)]
    /\ sub' = [sub EXCEPT ![t] = IF t \in AckLateTasks THEN "waitAck" ELSE "acking"]
    /\ wk' = [wk EXCEPT ![t] = "run"]
    /\ runs' = [runs EXCEPT ![t][NextOffset(t)] = @ + 1]
    /\ UNCHANGED <<hubVars, emitted, acked, done, clean, crashes>>

\* Mutant: the deferred msg.Ack() of an ackLate task is missing.
HandlerEndNoAck(t, o) ==
    /\ wk[t] = "run"
    /\ done' = [done EXCEPT ![t] = @ \cup {cur[t]}]
    /\ clean' = IF o = "panic" THEN clean ELSE [clean EXCEPT ![t] = @ \cup {cur[t]}]
    /\ wk' = [wk EXCEPT ![t] = "recv"]
    /\ UNCHANGED <<hubVars, emitted, acked, cur, sub, runs, crashes>>

(* The handler returns or panics (taskhub.go:224-232).  With ackLate the   *)
(* deferred msg.Ack() runs in every case, a panic included: it was        *)
(* deferred after crashCatcher and so runs before the recover.            *)
HandlerEnd(t, o) ==
    /\ wk[t] = "run"
    /\ done' = [done EXCEPT ![t] = @ \cup {cur[t]}]
    /\ clean' = IF o = "panic" THEN clean ELSE [clean EXCEPT ![t] = @ \cup {cur[t]}]
    /\ sub' = IF t \in AckLateTasks THEN [sub EXCEPT ![t] = "acking"] ELSE sub
    /\ wk' = [wk EXCEPT ![t] = "recv"]
    /\ UNCHANGED <<hubVars, emitted, acked, cur, runs, crashes>>

\* Once acked, the subscriber runs AckMessageQuery (adapter.go:71-74) and
\* commits its transaction: offset_acked becomes the delivered offset.
AckCommit(t) ==
    /\ sub[t] = "acking"
    /\ acked' = [acked EXCEPT ![t] = cur[t]]
    /\ sub' = [sub EXCEPT ![t] = "idle"]
    /\ UNCHANGED <<hubVars, emitted, cur, wk, ghostVars>>

(* The process dies and is started again: goroutines, registry and open    *)
(* transactions are gone; the tables keep messages and offset_acked.       *)
Crash ==
    /\ crashes < MaxCrash
    /\ crashes' = crashes + 1
    /\ registry' = {}
    /\ regpc' = [r \in RegCalls |-> "idle"]
    /\ running' = FALSE
    /\ hubpc' = "init"
    /\ snapshot' = {}
    /\ subscribed' = {}
    /\ cur' = [t \in Tasks |-> 0]
    /\ sub' = [t \in Tasks |-> "idle"]
    /\ wk' = [t \in Tasks |-> "recv"]
    /\ UNCHANGED <<emitted, acked, runs, done, clean>>

Next ==
    \/ \E r \in RegCalls : RegCheck(r) \/ RegInsert(r)
    \/ RunStart \/ RunIterEnd \/ Crash
    \/ \E t \in Tasks :
          \/ Emit(t) \/ RunSubscribe(t) \/ Deliver(t) \/ AckCommit(t)
          \/ \E o \in Outcomes : HandlerEnd(t, o)

Spec == Init /\ [][Next]_vars

\* The worker and subscriber goroutines of a subscribed topic keep being
\* scheduled and the database answers their statements.
FairSpec ==
    /\ Spec
    /\ \A t \in Tasks : /\ WF_vars(Deliver(t))
                        /\ WF_vars(\E o \in Outcomes : HandlerEnd(t, o))
                        /\ WF_vars(AckCommit(t))

-----------------------------------------------------------------------------
(* Properties.                                                             *)

\* Every acknowledged message of the tasks S was handled, or is being handled.
AckedWereHandled(S) ==
    \A t \in S : \A i \in 1..acked[t] :
        i \in done[t] \/ (wk[t] = "run" /\ cur[t] = i)

(* With ackLate the offset advances past a message only after a handler    *)
(* run on it finished, whatever crashes happen (taskhub.go:224-228 and     *)
(* the subscriber's commit after Ack).                                     *)
AckLateAtLeastOnce == AckedWereHandled(AckLateTasks)

(* Redelivery only follows a crash: each crash rolls back at most one      *)
(* delivery per topic, so no message runs more than 1 + crashes times      *)
(* (the SelectQuery's strict offset_msg > offset_acked, adapter.go:39).    *)
RedeliveryOnlyAfterCrash ==
    \A t \in Tasks : \A i \in Offsets : runs[t][i] <= 1 + crashes

(* Spec 8 scenario 6: an ackLate handler that panics is not acknowledged,  *)
(* so its message is redelivered after restart: an acked message had a     *)
(* run that returned.                                                      *)
PanickedNotAcked ==
    \A t \in AckLateTasks : \A i \in 1..acked[t] : i \in clean[t]

(* Spec 4.I: registration is permitted only before RunForever.  A Register *)
(* that returned success has its task served once RunForever has started  *)
(* its workers.                                                            *)
RegisteredTaskServed ==
    \A r \in RegCalls :
        (regpc[r] = "done" /\ hubpc = "serve") => CallTask[r] \in subscribed

(* Spec 8: every message emitted to a running task is handled (no          *)
(* crashes): the subscriber and worker loop drains the topic.              *)
EmittedEventuallyHandled ==
    \A t \in Tasks : \A n \in Offsets :
        (t \in subscribed /\ n <= emitted[t]) ~> (n \in done[t])

=============================================================================
