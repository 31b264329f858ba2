\* One thread, three clients that behave, and descriptors for two of them:
\* one that is served and one that waits in Dispatch.
CONSTANTS
    MaxWorkers = 1
    Workers = {1}
    Tasks = {c1, c2, c3}
    NoTask = NoTask
    DerivedState = FALSE
    FdLimit = 2
    Impatient = {}
    MessageLength = 2
SPECIFICATION Spec
INVARIANTS
    RunsUntilCancelled
