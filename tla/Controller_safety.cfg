\* Two workers, two keys, store events of every kind (deletes filtered out),
\* a timer on k1, and unrecovered reconciler panics.
CONSTANTS
    k1 = k1
    k2 = k2
    w1 = w1
    w2 = w2
    Keys <- MCKeys
    Workers <- MCWorkers
    RecoverPanic = FALSE
    Accepts = {"create", "update"}
    TimerKey = k1
    MaxEvents = 4
    MaxRetry = 2
    NoKey = NoKey
SYMMETRY WorkerSymmetry
SPECIFICATION Spec
INVARIANT TypeOK NoConcurrentReconcile WantScheduled
PROPERTY ImplementsScheduler
\* Behaviours end when the event and retry budgets are spent and the queue
\* is empty (the workers then block in Queue.Get), or when a panic ended the
\* process.
CHECK_DEADLOCK FALSE
