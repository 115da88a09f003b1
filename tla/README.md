# TLA+ models of gearbox

This directory holds TLA+ specifications of the concurrent parts of gearbox
(`src/pkg`), the TLC configurations that model-check them, and TLAPS proofs of
their main safety properties and of two refinements of abstract specifications. `PROJECT.json` lists the components, runs,
mutants, the source lines each definition models, the findings and the
hazards. This file explains them.

## The system and how its parts interact

gearbox is a small resource-server framework:

* **RestCore** (`pkg/rest`) turns an HTTP request into one **Store** call
  after running the **Admission** chain.
* The **Store** (`pkg/storage/gorm/store.go`) runs Create, Update and Delete
  against one SQL table. It uses optimistic concurrency on a revision column
  (`modify()`). After every mutation it publishes a change event on the
  **WatchBus** (`pkg/watch`), an in-process watermill gochannel.
* The **Controller** runtime (`pkg/controller`) consumes those events:
  * a **Source** reads the typed watch channel and filters events through
    **Predicates**;
  * the stock **EventHandler** enqueues `Request{Key}` on a client-go
    workqueue;
  * `MaxConcurrentReconciles` workers take keys off the queue, call the
    user's Reconciler, and apply the requeue policy;
  * a **TimerSource** injects Generic events on a ticker.
* The **TaskHub** (`pkg/task`) is a separate, durable message bus:
  * `Emit` inserts a message into a SQL table;
  * `RunForever` subscribes one watermill-sql subscriber and one worker
    goroutine to each registered task;
  * messages are acknowledged before the handler runs, or, with `AckLate`,
    after it.

Scheme, Selector, FieldCatalog, QueryCompiler and Util are sequential
helpers (type registry, label selectors, generated field lookup, query
translation, reflection). They hold no state that changes
concurrently.

## Modules

| Module | Models | Checked by |
|---|---|---|
| `GormStore` | Store Create/Update/Delete, the publish of each event | `MC_GormStore` |
| `AtomicTable` | What the `Store` interface promises of the rows: atomic Create, Update, Delete | refined by `GormStore` |
| `GormStore_proofs` | TLAPS proofs about `GormStore`, its refinement of `AtomicTable` included | tlapm |
| `TaskHub` | Register, Emit, RunForever, subscriber transaction, worker, crash | `MC_TaskHub` |
| `Controller` | Watch/Start, Source, TimerSource, EnqueueHandler, workqueue, workers | `MC_Controller` |
| `TaskHub_proofs` | TLAPS proofs about `TaskHub` | tlapm |
| `ReconcileScheduler` | What the workqueue and workers promise the reconciler: pending requests, one worker per key | refined by `Controller` |
| `Controller_proofs` | TLAPS proofs about `Controller`, its refinement of `ReconcileScheduler` included | tlapm |
| `RestCore` | RestAPI and Handler Get/List/Create/Update/Delete, Admission chain, error conversion and status codes | `MC_RestCore` |
| `RestCore_proofs` | TLAPS proofs about `RestCore` | tlapm |

Each `MC_*` module fixes the model values and small sets a configuration
needs. It also defines a symmetry set where the actors really are
interchangeable.

### GormStore

* **State.**
  * `db` is the table: a row is its revision and an abstract value.
  * `pc`, `req` and `res` give each concurrent caller's position in its
    call, its arguments and its last result.
  * `published` is the sequence of events handed to `pubwatcher.Publish`.
  * `commits`, `cid` and `wrote` are ghost variables. They number the
    row-changing statements and count the revisioned updates applied to a
    row since it was created.
* **Why each SQL statement is a separate step.** The closure given to
  `s.db.Transaction` builds its DAO from `s.genDaoGetter(ctx)` and never uses
  `tx`. The statements of one call therefore autocommit separately, and
  another caller can run between them.
* **Actions:**
  * `CreateInsert` and `CreateDuplicate` model Create: the insert, or MySQL
    error 1062.
  * `UpdateRead` is the pre-read `First()`, which returns
    `gorm.ErrRecordNotFound` unmapped.
  * `UpdateWrite` is the conditional UPDATE. `Matches` is the WHERE
    clause: the key, plus `rv = r` when a revision was sent.
  * `DeleteExec` is the conditional DELETE.
  * `ZeroRows` is modify's re-read after `RowsAffected != 1`. It leads to
    NotFound, Conflict, or treating the call as success.
  * `Publish` is the trailing event publish. It may fail (`json.Marshal`,
    or the gochannel once closed): the call then returns the error, but
    the row, written by an autocommitted statement, stays changed and no
    event is sent.
* **Constants.**
  * `RevColumn` says whether a revision column is configured.
  * `AutoTimestamp` says whether an autoUpdateTime column exists. MySQL
    counts *changed* rows, so writing a row's own values reports 0 rows
    unless a timestamp changes.
* **Refinement.** `AtomicTable` is the abstract table: a Create of a
  missing row at the first revision, an Update that keeps the revision
  (sent without one) or advances it by one, and a Delete of an existing
  row, each one atomic step. `Atomic == INSTANCE AtomicTable WITH table <- db`
  maps the store onto it, and `ImplementsAtomicTable == Atomic!Spec` says
  that, although a call's statements autocommit separately, the rows never
  change in any other way. A Create that upserted over an existing row
  (`CreateUpsert`) breaks it.

### TaskHub

* **State.**
  * `registry`, `running`, `regpc` (the progress of each Register call) and
    `hubpc`, `snapshot` and `subscribed` (the progress of RunForever)
    together form the process state.
  * `emitted` and `acked` are the persistent tables: the messages per topic
    and `offset_acked`.
  * `cur` and `sub` are each subscriber's open transaction.
  * `wk` is each worker.
  * `runs`, `done` and `clean` record handler invocations, finished runs,
    and runs that did not panic.
* **Actions:**
  * `RegCheck` and `RegInsert` are the two critical sections of `Register`.
    They use different locks, and RunForever can run between them.
  * `RunStart`, `RunSubscribe` and `RunIterEnd` model `RunForever`. It sets
    `running`, ranges over the map *without* `mu` (so an entry inserted
    concurrently may be missed), and subscribes each task.
  * `Deliver` is one iteration of a subscriber: it locks the offsets row,
    selects the first message after `offset_acked` (`NextOffset`, the
    strict `>` of `SelectQuery`), and hands the message to the worker.
    Without ackLate the worker acks at once.
  * `HandlerEnd(t, o)` is the handler returning or panicking. With ackLate
    the deferred `msg.Ack()` runs in both cases.
  * `AckCommit` is `AckMessageQuery` followed by the commit.
  * `Crash` kills the process. The messages and `offset_acked` survive;
    open transactions roll back. The program then starts again from
    `NewTaskHub`.

### Controller

* **State.**
  * `started`, `pendingW` and `activeW` are `ctl.Started`,
    `ctl.watchDescribes`, and the Sources already running.
  * `inbox` is the store Source's channel.
  * `queue`, `dirty`, `processing` and `waiting` are the workqueue: its
    slice, its dirty and processing sets, and the delaying queue's waiting
    set.
  * `wpc` and `witem` are each worker.
  * `alive` becomes FALSE once an unrecovered reconciler panic ends the
    process.
  * `want` (ghost) holds the keys Added since they were last taken off the
    queue.
* **Actions:**
  * `Watch` and `Start` register and start the watches.
  * `StoreEvent` is the store publishing an event. `SourceRecv` is the
    predicate conjunction and routing by kind to the EnqueueHandler.
  * `TimerTick` is one tick of the TimerSource.
  * `Get` is `processNextWorkItem`'s `Queue.Get`.
  * `ReconcileEnd(w, o)` applies reconcileHandler's policy for each result
    class, followed by the deferred `Queue.Done`:
    * an error, Requeue, or a recovered panic gives `AddRateLimited`;
    * RequeueAfter > 0 gives `AddAfter`;
    * success gives `Forget`.
  * `ReconcilePanic` is the re-raised panic when `RecoverPanic` is off.
  * `WaitingReady` is the delaying queue adding a key once its delay has
    passed.
* **The workqueue.** Its semantics are client-go's, which the controller
  relies on and the spec restates (§4.H):
  * `Add` ignores a key that is already dirty, and only marks a key dirty
    while it is being processed;
  * `Done` queues a key again if it became dirty meanwhile.
* **Refinement.** `ReconcileScheduler` is the abstract scheduler: a set of
  pending requests and the key each worker runs. `Request` adds a key;
  `Take` gives an idle worker a pending key no other worker holds and
  removes it from pending; `Finish` frees the worker. `Sched` instantiates
  it with `pending <- dirty` and `running <- Running`, where `Running` maps
  a worker to `witem` while it reconciles and to `NoKey` otherwise.
  `ImplementsScheduler == Sched!Spec` breaks if `Get` leaves the head in
  `dirty` (`GetKeepDirty`).

### RestCore

Each HTTP request runs to completion without yielding to another request's
REST logic, so it is one atomic step. The Store's own interleavings are
GormStore's subject; here the Store answers as `store.go` does for one
caller.

* **State.**
  * `rows` maps each key to its revision (0: no row).
  * `resp` is the last response: operation, key, status code, error, its
    cause, and for List the count, page size, `continue`, offset and limit.
  * `nreq` counts requests (bounded by `MaxReqs`); `denied` is a ghost
    flag: some admission plug-in refused the current request.
* **Actions.** `Get`, `List`, `Create`, `Update`, `Delete`, one per
  handler. Each runs the whole path of `rest.go` and `handler.go`: the
  empty-key check, `doAdmit` (the chain's Validate, then Admit, only if
  some plug-in `Handles` the operation), `ToStorage`, the Store call,
  `convertStorageError`, the publish after the write, `FromStorage`, and
  the status `Handler.Error` writes.
* **Inputs.** Every plug-in's verdict (allow, a Forbidden error, a raw
  error) is chosen per request. The faults `publish` and `convert` are a
  failed Publish after an autocommitted write and a failed conversion.
  List takes offsets and limits from small sets that include an absent
  and an unparsable value, and a selector that is unparsable,
  uncompilable, or valid with the keys it matches.
* **Abstraction.** An object is its key and revision; a selector is the
  set of keys it matches. JSON decoding, the Scheme's kind lookup and
  message wording are left out. Limit 0 or negative is not enumerated:
  gorm treats `LIMIT 0` as no limit, which is the query builder's and not
  this code's semantics.

`ChainRun`, the result of the admission chain, is the verdict of the
plug-in at the least chain index that is in the run set, handles the
operation and does not allow: the first refusal `doAdmit`'s loop meets.
It is written with a set and CHOOSE rather than a recursive operator, so
RestCore reaches no RECURSIVE definition and can hold theorems.

## Runs

All runs use `tlc -workers 2 -config <cfg> <MC module>`. Runs marked
*violation* check one property. TLC refutes it by a behaviour the code
allows, and `findings` in `PROJECT.json` explains what each one shows.

| Run | Result | What it shows |
|---|---|---|
| `store_safety` | pass | 3 callers, 1 key: `NoLostUpdate` (revision = 1 + revisioned updates applied since Create), `ImplementsAtomicTable` (the rows change only as `AtomicTable`'s atomic operations) and `TypeOK` |
| `store_publish_failure` | violation | Under weak fairness of calls in progress, a commit is not always published (`EveryCommitPublished`): a Create's Publish fails after its INSERT autocommitted, the row stays and no event follows, where spec §4.D says a publication failure aborts the mutation |
| `store_publish_order` | violation | Events for one key can be published out of commit order (Publish runs after the autocommitted write): a Create commits, a Delete commits and publishes Deleted, then the Create publishes Created for a key with no row |
| `store_revisioned_update` | violation | A revisioned Update can report success without writing: between its missed write and its re-read, another caller moved the row to exactly `rvInReq` |
| `taskhub_safety` | pass | 2 tasks (one ackLate), 3 Register calls (one duplicate), 2 messages per task, 1 crash. `AckLateAtLeastOnce`: an ackLate task never advances past an unhandled message. `RedeliveryOnlyAfterCrash`: no message runs more than 1 + crashes times |
| `taskhub_live` | pass | No crash, fair workers and subscribers: every message emitted to a subscribed task is handled (`EmittedEventuallyHandled`) |
| `taskhub_registered_served` | violation | A Register that checked `running` before RunForever set it inserts after the range: it succeeds and its task is never served |
| `taskhub_panic_ack` | violation | The deferred Ack runs when an ackLate handler panics, so the message is acknowledged, not redelivered (spec §8 scenario 6) |
| `controller_safety` | pass | 2 workers, 2 keys, create/update/delete events (deletes filtered), a timer, 2 requeues, unrecovered panics. `NoConcurrentReconcile`: no key is reconciled by two workers at once. `WantScheduled`: a key Added since it was last taken is queued, or processing and dirty. `ImplementsScheduler`: the workqueue and workers refine `ReconcileScheduler` |
| `controller_live` | pass | Recovered panics, fair workers, Source and delaying loop: every Add is followed by a reconcile of the key that starts later (`WantServed`) |
| `restcore_safety` | pass | 2 keys, a chain of 2 plug-ins (one validator and mutator, one mutator only), both faults, 4 requests. `StatusFollowsCause`: each cause gets the status spec §4 gives it (404 not found, 409 exists or conflict, 500 for raw, publish and convert failures). `WriteOnlyIfAdmitted`: no row changes in a request a plug-in refused. `ClientErrorHasNoEffect`: a 4xx answer leaves every row unchanged |
| `restcore_list_continue` | violation | `offset=-1&limit=1` over one row returns that row with `continue=true`: the handler uses the raw offset, GetList the clamped one |

**Mutants.** Each property of a passing run has a mutant in `PROJECT.json`:
a plausible bug in one mapped definition, defined next to it, that TLC shows
the property catches. Examples:

* modify's WHERE without `rv = r` breaks `NoLostUpdate`;
* `SelectQuery` with `>=` breaks `RedeliveryOnlyAfterCrash`;
* acking early regardless of AckLate breaks `AckLateAtLeastOnce`;
* a missing deferred Ack makes the subscriber wait forever, which breaks
  `EmittedEventuallyHandled`;
* an `Add` that ignores the processing set breaks `NoConcurrentReconcile`;
* a `Done` that does not re-queue breaks `WantScheduled` and `WantServed`;
* `doAdmit` without the Validate pass breaks `WriteOnlyIfAdmitted`;
* `convertStorageError` without the conflict case breaks
  `StatusFollowsCause`;
* a revisioned Update that writes before comparing breaks
  `ClientErrorHasNoEffect`.

Behaviours the models contain but no run of their own checks (the run
budget is twelve) are recorded as hazards:

* Update of a missing key returns gorm's raw `ErrRecordNotFound`. RestCore
  answers 500, not 404 (cause `storeraw`, which `StatusFollowsCause` pins
  to 500).
* An unparsable selector is answered 500, where spec §4.A says bad request.
* An Update whose write changed nothing still publishes Updated (the
  zero-rows re-read path, the spec's open question (b)).
* Without ackLate, a crash between the early ack and the handler loses the
  message; only the AckLate configuration promises redelivery.
* The TimerSource calls its handler whatever its predicates say
  (`TimerTick`). The `continue` on line 94 of `source.go` only continues
  the inner loop. This is the spec's open question (a).

### Bounds and why they suffice

* **Store.**
  * Three callers on one key are needed for the lost update and for the
    re-read race. That race takes two other callers, one of which moves
    the row back onto `rvInReq`.
  * `MaxOps = 4` allows Create plus three Updates.
  * `MaxRev = 3` lets callers send both a fresh and a stale revision.
* **TaskHub.**
  * Two messages per task are the least that shows redelivery of a second
    message after the first was acked, and the `>=` off-by-one.
  * One crash suffices, since each crash rolls back at most one open
    transaction per topic.
  * Three Register calls give a duplicate name and a call racing
    RunForever.
* **Controller.**
  * Two workers and two keys are the least for a second worker to find a
    key that is still in processing.
  * Four events plus ticks and two requeues let a key be Added again while
    it is processed, both by an event and by its own requeue.

* **RestCore.** Two keys let a selector match a proper subset. A chain of
  two plug-ins with different `HandlesOps` makes Delete pass through a
  chain where only one plug-in handles it, and Update one where the
  validator is the only one. Four requests allow a Create, a second Create
  of the same key, an Update with a stale revision and a List. Offsets -1,
  0, 1 and limit 1 reach the clamp, an empty page and a partial page.

Each bound is a named constant in the guards (`MaxOps`, `MaxEmit`,
`MaxCrash`, `MaxEvents`, `MaxRetry`, `MaxReqs`). The passing runs are complete
breadth-first searches of their bounded spaces, and between them they fire
every action and every disjunct.

**Deadlock checking.** It is off in every run. Behaviours legitimately stop
when the budgets are spent and the goroutines block on their channels or in
`Queue.Get`, or when a process died from an unrecovered panic.

### Fairness

Liveness runs assume weak fairness only for goroutines that the code leaves
runnable:

* **Store:** a call in progress is not abandoned (`ClientStep`). Fairness
  does not choose Publish's outcome: a failure is the environment's (the
  `store_publish_failure` run).
* **TaskHub:** a subscriber with a message after `offset_acked`, a worker
  whose handler is running, and a subscriber holding an Ack all get to
  proceed.
* **Controller:** the Source goroutine, each worker, and the delaying
  queue's loop all get to proceed.

Environment steps get no fairness: Emit, store events, ticks, Register,
crashes, and the requeueing outcomes.

## Proofs

`GormStore_proofs`, `TaskHub_proofs`, `Controller_proofs` and
`RestCore_proofs` are checked by `tlapm` with no omitted steps. The
assumptions the proofs use are `StoreAssumption`, `HubAssumption`,
`ControllerAssumption` and `RestCoreAssumption`, declared in the component
modules and evaluated by TLC on every run.

### GormStore_proofs

* **`TypeCorrect`: `Spec => []TypeOK`.**
  * `TypeOK` alone is not inductive. `Publish` builds its event from
    `req[c].op` through the CASE of `EventOf`, which is undefined for the
    initial `"none"`.
  * The proof therefore strengthens TypeOK with `BusyHasOp`: a caller in
    the middle of a call holds a real operation.
  * Lemmas used: `EventOfType` (the event has the shape of `Events`),
    `UpdatedRowType` (the row Update writes has the shape of `Rows`) and
    `TypeStep`, which has one step per action.
* **`NoLostUpdateHolds`: `Spec => []NoLostUpdate`, for any callers, keys
  and values.**
  * The inductive invariant is `IInv == TypeOK /\ BusyHasOp /\ NoLostUpdate`.
  * A conditional UPDATE that matches `rv = r` sets the revision to `r + 1`
    and increments `wrote[k]`, which preserves `rv = 1 + wrote[k]`.
  * A blind update changes neither.
  * Create resets both; Delete removes the row.
* **`ImplementsAtomicTableHolds`: `Spec => ImplementsAtomicTable`.**
  * The refinement mapping is `table <- db`.
  * `Init` maps to `AtomicTable`'s `Init`.
  * `StepRefines` shows `TInv /\ [Next]_vars => [Atomic!Next]_db`:
    * `CreateInsert` is an abstract `Create`;
    * a committed `DeleteExec` is a `Delete`;
    * `UpdateWriteRefines` covers a committed `UpdateWrite`. With no request
      revision it is a `BlindUpdate`. With one, `Matches` makes the row's
      revision equal to it, so `r + 1` is the current revision plus one: a
      `RevisionedUpdate`;
    * every other step leaves `db` alone.
  * `TInv` is needed because the Update case reads the type of `req[c].rv`.

### TaskHub_proofs

The three theorems hold for any tasks, Register calls and bounds
`MaxEmit` and `MaxCrash`. They rest on one inductive invariant,
`IInv == TypeOK /\ Shape /\ LateShape /\ RunsBound`. TLC checked it as an
invariant of a run (`MaxEmit = 2`, `MaxCrash = 2`) before it was proved.

* **`Shape`** relates the subscriber and the worker of a topic to its offsets:
  * a transaction holds the message after `offset_acked`;
  * a running worker handles an emitted message;
  * the worker of an early-acking task may still run on the message just
    acked.
* **`LateShape`** covers an ackLate topic:
  * while the worker runs, the subscriber waits for the Ack;
  * it commits only a message whose run finished;
  * every offset up to `offset_acked` was handled.
* **`RunsBound`** counts deliveries per offset:
  * none past the next message;
  * the next message once per crash that rolled its transaction back,
    plus the open delivery;
  * an acknowledged one at most `1 + crashes` times.

Neither property is inductive alone. `AckLateAtLeastOnce` is preserved by
the commit only because `LateShape` says the acked message was done.
`RedeliveryOnlyAfterCrash` is preserved by a redelivery only because
`RunsBound` counts the pending delivery of the next offset separately. The
lemma `TopicsUnchanged` covers Register and RunForever, which touch no
topic. `NextIInv` has one case per action.

The theorems:

* `TaskHubTypeCorrect`: `Spec => []TypeOK`.
* `AckLateAtLeastOnceHolds`: `Spec => []AckLateAtLeastOnce`.
* `RedeliveryOnlyAfterCrashHolds`: `Spec => []RedeliveryOnlyAfterCrash`.

### RestCore_proofs

The theorems hold for any keys, plug-in chain, `HandlesOps`, verdicts,
faults and List parameters.

* **Inductive invariant.** `IInv == TypeOK /\ FiniteTable`, where
  `FiniteTable` says the set of stored keys is finite. The typing of
  List's count (`Cardinality`) needs it. It is inductive because each
  request adds at most one key, so `Keys` itself need not be finite.
* **The chain.**
  * `LeastIndex` gives the least refusing index. It uses `WFMin` with
    `NatLessThanWellFounded`, with no induction over data.
  * `ChainRunRefuses` and `AdmitMeansNotDenied` follow from it: when
    `doAdmit` returns allow, no plug-in refused, so `denied'` is false.
* **Responses.** `ConvertType`, `AnswerFacts`, `CommittedAnswer` and
  `PageSizeType` give the shape of each response. `Step` bundles what
  every handler does to `nreq`, `denied` and `rows`.
* **Writes.** `WriteRule` says a step that changes `rows` is not denied
  and answers 200 or 500. `CreateRules`, `UpdateRules` and `DeleteRules`
  prove it per handler, and `NextRules` combines them with the status
  lemmas.
* **Assumptions.** `RestCoreAssumption` is used through two lemmas,
  `ConstantFacts` and `ChainType`. `ChainType` is cited only where the
  chain's type is needed: with `Chain \in Seq(...)` in every context the
  SMT backend fails on obligations that mention primed record fields.

The theorems:

* `RestCoreTypeCorrect`: `Spec => []TypeOK`.
* `StatusFollowsCauseHolds`: `Spec => []StatusFollowsCause`.
* `WriteOnlyIfAdmittedHolds`: `Spec => WriteOnlyIfAdmitted`, an action
  property.
* `ClientErrorHasNoEffectHolds`: `Spec => ClientErrorHasNoEffect`, an
  action property.

### Controller_proofs

The three theorems below hold for any number of workers and keys. They rest
on one inductive invariant, `IInv == TypeOK /\ QInv /\ WInv`.

* **`QInv`** is the workqueue's own invariant:
  * no key is twice in the slice (`QueueDistinct`);
  * a queued key is dirty and not in processing (`QueuedDirty`);
  * a dirty key is queued or in processing (`DirtyScheduled`);
  * an Added key stays dirty until it is taken (`WantDirty`).
* **`WInv`** ties the queue to the workers:
  * the processing set is exactly the set of keys the busy workers hold;
  * no two busy workers hold the same key.

Neither property is inductive alone. Look at `Get`: the head it takes must
not be in processing, which `QueuedDirty` gives. No later copy of that head
may remain in the slice, which `QueueDistinct` gives. `Done` may append the
key, because a key in processing is not queued.

The lemmas, each cited by name:

* `AddPreserves` and `DonePreserves`: the queue operations keep `QInv`;
* `AppendDistinct`: a fact about sequences;
* `GetPreserves` and `ReconcileEndPreserves`: per-action steps;
* `AddActionPreserves` and `FramePreserves`: for actions that Add, or
  that leave the queue and the workers alone;
* `IInvStep`: one case per disjunct of `Next`.

The theorems:

* `ControllerTypeCorrect`: `Spec => []TypeOK`.
* `NoConcurrentReconcileHolds`: `Spec => []NoConcurrentReconcile`.
* `WantScheduledHolds`: `Spec => []WantScheduled`. The safety half of
  "no lost wakeup" follows from `WantDirty` and `DirtyScheduled`.
* `ImplementsSchedulerHolds`: `Spec => ImplementsScheduler`.
  * `Init` maps to the scheduler's `Init`.
  * `StepRefines` shows `IInv /\ [Next]_vars => [Sched!Next]_Sched!vars`,
    one case per action:
    * an `Add` from a Source, the timer or the waiting loop is a `Request`,
      or a stutter when the key was already dirty (`AddRefines`);
    * `Get` is `Take` of the queue head (`GetRefines`). `QueuedDirty` makes
      the head pending and outside `processing`. `WInv` makes `processing`
      the set of keys the busy workers hold;
    * `ReconcileEnd` is `Finish` (`ReconcileEndRefines`);
    * every other step leaves `dirty`, `wpc` and `witem` alone.

### What is only model-checked

These are out of the prover's reach and stay with TLC:

* the liveness properties (`EmittedEventuallyHandled`, `WantServed`),
  which need fairness and
  `ENABLED`;
* the violation runs' properties, which are false of the code.

No proof module reaches a RECURSIVE operator.

## Not modelled

* **Store.** Get, GetList and Watch do not change state. The hooks are
  caller code.
* **WatchBus delivery.** The gochannel delivers per subscriber in a
  goroutine per message. `channel.ResultChan` sends an Error event *and*
  then a decoded one on a decode failure. After `Stop`, the REST channel
  keeps reading a closed channel. These are listed as hazards; the models
  treat the Source's channel as FIFO.
* **TaskHub.** The Scan-failure `continue` never acks, so its transaction
  stays open and the topic stalls. Emit always writes a payload that Scan
  accepts, so this needs a foreign writer. `offset_consumed` is written but
  never read.
* **Controller.**
  * Backoff durations, `Forget` and `ShutDown` on context cancellation are
    abstracted.
  * The invalid-item branch is unreachable: only Requests are enqueued.
  * Watch racing Start on the unsynchronised `Started` flag is outside the
    spec's single-threaded contract (listed as a hazard).
* **RestCore.** The Watch channel's forwarding goroutine (`rest/watch.go`)
  and the HTTP client (`rest/client.go`). The channel forwards the
  Store's events, which GormStore models; its `Stop` not cancelling its
  context is listed as a hazard.
* **Scheme, Selector, FieldCatalog, QueryCompiler, Util.** Sequential,
  stateless or generated code. RestCore abstracts the selector pipeline to
  the three outcomes it can have: a parse error, a compile error, or a set
  of matching keys.
