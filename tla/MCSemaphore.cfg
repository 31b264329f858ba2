\* Three threads, so that two waiters can race for one unit while a third
\* signals; five calls, so that the signaller can come back after each wait.
CONSTANTS
    Threads = {t1, t2, t3}
    NoThread = NoThread
    InitialCount = 0
    MaxCalls = 5
SPECIFICATION Spec
INVARIANTS
    TypeOK
    NoStrandedUnit
PROPERTIES
    ImplementsAbstract
