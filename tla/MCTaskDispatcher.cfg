\* Two workers and three tasks: both workers can be busy while a third task
\* waits at the semaphore, and a worker can get a second task.
CONSTANTS
    MaxWorkers = 2
    Workers = {1, 2}
    Tasks = {t1, t2, t3}
    NoTask = NoTask
    DerivedState = TRUE
SPECIFICATION Spec
INVARIANTS
    TypeOK
    NoLostWakeup
    PermitAccounting
    OneOwner
    SemaphoreOutlivesWorkers
PROPERTIES
    DestructorReturns
    ImplementsTaskPool
