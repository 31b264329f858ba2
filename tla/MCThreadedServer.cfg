\* Two threads and three clients: one connection can wait in Dispatch or in
\* the kernel's queue while both workers are busy.  There are descriptors for
\* all three; the third client may hang up.
CONSTANTS
    MaxWorkers = 2
    Workers = {1, 2}
    Tasks = {c1, c2, c3}
    NoTask = NoTask
    DerivedState = FALSE
    FdLimit = 3
    Impatient = {c3}
    MessageLength = 2
SPECIFICATION Spec
INVARIANTS
    AnswerIsOwn
    ConnectionAccounting
PROPERTIES
    EveryRequestAnswered
