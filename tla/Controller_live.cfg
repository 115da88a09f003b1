\* With recovered panics and fair workers and sources, every Added key is
\* reconciled again after its Add.
CONSTANTS
    k1 = k1
    k2 = k2
    w1 = w1
    w2 = w2
    Keys <- MCKeys
    Workers <- MCWorkers
    RecoverPanic = TRUE
    Accepts = {"create", "update"}
    TimerKey = k1
    MaxEvents = 4
    MaxRetry = 2
    NoKey = NoKey
SPECIFICATION FairSpec
PROPERTY WantServed
\* Behaviours end when the event and retry budgets are spent and the queue
\* is empty (the workers then block in Queue.Get), or when a panic ended the
\* process.
CHECK_DEADLOCK FALSE
