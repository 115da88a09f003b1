\* Crashes, Emits and registrations of two tasks, ackLate and not.
CONSTANTS
    t1 = t1
    t2 = t2
    r1 = r1
    r2 = r2
    r3 = r3
    Tasks <- MCTasks
    AckLateTasks <- MCAckLate
    RegCalls <- MCRegCalls
    CallTask <- MCCallTask
    MaxEmit = 2
    MaxCrash = 1
SPECIFICATION Spec
INVARIANT TypeOK AckLateAtLeastOnce RedeliveryOnlyAfterCrash
\* Behaviours end when the Emit and crash budgets are spent and every topic
\* is drained: the real workers then block on their channel forever.
CHECK_DEADLOCK FALSE
