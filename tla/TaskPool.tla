--------------------------------- MODULE TaskPool ---------------------------------
(***************************************************************************)
(* What pckben::TaskDispatcher (src/src/TaskDispatcher.h) promises: tasks  *)
(* are offered one after another to a pool of workers, a worker has one    *)
(* task at a time, an offered task waits while no worker is available, and *)
(* every task that a worker accepted is done - or discarded, when the pool *)
(* is closed first.  The module TaskDispatcher implements this pool.       *)
(***************************************************************************)
EXTENDS Naturals, FiniteSets

CONSTANT Tasks

VARIABLES
    size,       \* workers in the pool
    status,     \* how far each task is
    phase       \* "open", "closing", or "dead" once the process has died

vars == <<size, status, phase>>

StatusOf(s) == {t \in Tasks : status[t] = s}
Accepted == StatusOf("accepted")

Init ==
    /\ size = 0
    /\ status = [t \in Tasks |-> "new"]
    /\ phase = "open"

Move(t, from, to) ==
    /\ status[t] = from
    /\ status' = [status EXCEPT ![t] = to]
    /\ UNCHANGED <<size, phase>>

Grow ==
    /\ phase = "open"
    /\ StatusOf("offered") = {}
    /\ size' = size + 1
    /\ UNCHANGED <<status, phase>>

\* One task is offered at a time, by the thread that calls Dispatch.
Offer(t) ==
    /\ phase = "open"
    /\ StatusOf("offered") = {}
    /\ Move(t, "new", "offered")

Accept(t) ==
    /\ phase = "open"
    /\ Cardinality(Accepted) < size
    /\ Move(t, "offered", "accepted")

Complete(t) ==
    /\ phase # "dead"
    /\ Move(t, "accepted", "done")

Close ==
    /\ phase = "open"
    /\ StatusOf("offered") = {}
    /\ phase' = "closing"
    /\ UNCHANGED <<size, status>>

Discard(t) ==
    /\ phase = "closing"
    /\ Move(t, "accepted", "discarded")

Shrink ==
    /\ phase = "closing"
    /\ Cardinality(Accepted) < size
    /\ size' = size - 1
    /\ UNCHANGED <<status, phase>>

\* The process may die on an offer, or while the pool is being closed.
Die ==
    /\ phase = "closing" \/ (phase = "open" /\ StatusOf("offered") # {})
    /\ phase' = "dead"
    /\ UNCHANGED <<size, status>>

Next ==
    \/ Grow \/ Close \/ Shrink \/ Die
    \/ \E t \in Tasks : Offer(t) \/ Accept(t) \/ Complete(t) \/ Discard(t)

\* An offer is taken up when there is room, and accepted tasks are settled.
Spec ==
    /\ Init
    /\ [][Next]_vars
    /\ \A t \in Tasks : WF_vars(Accept(t)) /\ WF_vars(Complete(t) \/ Discard(t))
==================================================================================
