------------------------------ MODULE TaskDispatcher ------------------------------
(***************************************************************************)
(* src/src/TaskDispatcher.cc over the workers of BackgroundWorker: the     *)
(* main thread grows the pool with AddWorker, gives tasks out with         *)
(* Dispatch, and deletes the dispatcher; the workers' threads report to    *)
(* its OnTaskDone.  The semaphore is used through its contract             *)
(* (AbstractSemaphore): Wait is one step guarded by sem > 0, Signal is one *)
(* step.  All calls come from one thread, as in Server::Start.             *)
(***************************************************************************)
EXTENDS BackgroundWorker

CONSTANT MaxWorkers     \* bound: calls of AddWorker

\* Worker i is the i-th element of workers_.
ASSUME DispatcherAssumption ==
    /\ MaxWorkers \in Nat
    /\ Workers = 1 .. MaxWorkers

VARIABLES
    pool,       \* the size of workers_
    sem,        \* the counter of semaphore_
    main,       \* where the main thread is
    it,         \* Dispatch's iterator over workers_
    pending,    \* the task Dispatch is giving out
    created     \* tasks ever passed to Dispatch

mainVars == <<pool, sem, main, it, pending, created>>
vars == <<workerVars, mainVars>>

\* "wait": in semaphore_->Wait();  "assign": in the loop over workers_;
\* "deleting": in ~TaskDispatcher;  "deleted": it has returned.
MainPlaces == {"idle", "wait", "assign", "deleting", "deleted"}

Init ==
    /\ WorkerInit
    /\ pool = 0
    /\ sem = 0
    /\ main = "idle"
    /\ it = 1
    /\ pending = NoTask
    /\ created = {}

-----------------------------------------------------------------------------
(* The main thread.                                                        *)

\* CreateWorker() and AddWorker.  Only this thread can take the unit.
AddWorker ==
    /\ main = "idle"
    /\ pool < MaxWorkers
    /\ Construct(pool + 1)
    /\ pool' = pool + 1
    /\ sem' = sem + 1
    /\ UNCHANGED <<main, it, pending, created>>

\* Dispatch(t) is called.  Nothing stops a caller from doing so while the
\* pool is empty.
Dispatch(t) ==
    /\ main = "idle"
    /\ t \notin created
    /\ created' = created \cup {t}
    /\ pending' = t
    /\ main' = "wait"
    /\ UNCHANGED <<workerVars, pool, sem, it>>

\* Mutant: the unit is not taken.
UnitTaken_Kept == sem

UnitTaken == sem - 1

\* semaphore_->Wait() returns, and the loop starts at workers_.begin().
PassSemaphore ==
    /\ main = "wait"
    /\ sem > 0
    /\ sem' = UnitTaken
    /\ main' = "assign"
    /\ it' = 1
    /\ UNCHANGED <<workerVars, pool, pending, created>>

\* (*it)->TryAssign(task) returns true: Dispatch is done.
AssignTask ==
    /\ main = "assign"
    /\ it <= pool
    /\ Assign(it, pending)
    /\ main' = "idle"
    /\ it' = 1
    /\ pending' = NoTask
    /\ UNCHANGED <<pool, sem, created>>

\* It returns false: the next worker is tried.
SkipWorker ==
    /\ main = "assign"
    /\ it <= pool
    /\ ~CanAssign(it)
    /\ it' = it + 1
    /\ UNCHANGED <<workerVars, pool, sem, main, pending, created>>

\* The loop ends without success: assert(taskAssigned) aborts the process
\* (the makefiles do not define NDEBUG).
AssertionFails ==
    /\ main = "assign"
    /\ it > pool
    /\ process' = "aborted"
    /\ UNCHANGED <<wpc, obj, enabled, task, current, notified, freed, mainVars>>

\* ~TaskDispatcher begins.
Delete ==
    /\ main = "idle"
    /\ main' = "deleting"
    /\ UNCHANGED <<workerVars, pool, sem, it, pending, created>>

\* delete workers_.back(), step by step.
DeleteBack ==
    /\ main = "deleting"
    /\ pool > 0
    /\ DestroyDerived(pool) \/ DestroyBase(pool)
    /\ UNCHANGED mainVars

\* Mutant: the worker is popped while its destructor still runs.
BackDeleted_Early == obj[pool] = "joining"

BackDeleted == obj[pool] = "gone"

\* workers_.pop_back().
PopWorker ==
    /\ main = "deleting"
    /\ pool > 0
    /\ BackDeleted
    /\ pool' = pool - 1
    /\ UNCHANGED <<workerVars, sem, main, it, pending, created>>

\* delete semaphore_; the destructor returns.
DeleteSemaphore ==
    /\ main = "deleting"
    /\ pool = 0
    /\ main' = "deleted"
    /\ UNCHANGED <<workerVars, pool, sem, it, pending, created>>

-----------------------------------------------------------------------------
(* The workers' threads.                                                   *)

\* Mutant: OnTaskDone does not signal (line 48 dropped).
UnitBack_Lost == sem

UnitBack == sem + 1

\* task->Done() calls OnTaskDone, which signals the semaphore.
OnTaskDone(w) ==
    /\ Notify(w)
    /\ sem' = UnitBack
    /\ UNCHANGED <<pool, main, it, pending, created>>

ThreadStep(w) ==
    /\ process = "running"
    /\ \/ OnTaskDone(w)
       \/ QuietStep(w) /\ UNCHANGED mainVars

Interrupt(w) ==
    /\ process = "running"
    /\ SpuriousWake(w)
    /\ UNCHANGED mainVars

\* The calls made of the dispatcher.
Call ==
    /\ process = "running"
    /\ \/ AddWorker
       \/ \E t \in Tasks : Dispatch(t)
       \/ Delete

\* A call that has begun goes on.
MainStep ==
    /\ process = "running"
    /\ \/ PassSemaphore
       \/ AssignTask
       \/ SkipWorker
       \/ AssertionFails
       \/ DeleteBack
       \/ PopWorker
       \/ DeleteSemaphore

\* The process has died, the dispatcher is gone, or Dispatch waits for a
\* worker that the only thread able to add one cannot add.
Stopped ==
    /\ process # "running" \/ main = "deleted" \/ (main = "wait" /\ pool = 0)
    /\ UNCHANGED vars

Next ==
    \/ Call
    \/ MainStep
    \/ \E w \in Workers : ThreadStep(w) \/ Interrupt(w)
    \/ Stopped

\* Every thread runs, and Work() returns; calls and spurious wake-ups need
\* not happen.  The main thread's mutex and semaphore waits end without a
\* competitor, so weak fairness is enough.
Spec ==
    /\ Init
    /\ [][Next]_vars
    /\ WF_vars(MainStep)
    /\ \A w \in Workers : WF_vars(ThreadStep(w))

-----------------------------------------------------------------------------
(* Properties.                                                             *)

TypeOK ==
    /\ WorkerTypeOK
    /\ pool \in 0 .. MaxWorkers
    /\ sem \in Nat
    /\ main \in MainPlaces
    /\ it \in 1 .. MaxWorkers + 1
    /\ pending \in Tasks \cup {NoTask}
    /\ created \subseteq Tasks

\* A worker whose task, if it had one, has been reported by OnTaskDone.
Free(w) == w <= pool /\ task[w] = NoTask /\ wpc[w] # "notify"
FreeWorkers == {w \in Workers : Free(w)}

\* The unit that Dispatch has taken and not yet turned into an assignment.
Permits == sem + (IF main = "assign" THEN 1 ELSE 0)

\* The semaphore counts the free workers: its counter and the unit Dispatch
\* holds are together the number of workers without an unreported task.
\* AddWorker, Dispatch and the threads' OnTaskDone change the two sides at
\* different moments.
PermitAccounting ==
    main \notin {"deleting", "deleted"} => Permits = Cardinality(FreeWorkers)

Holders(t) == {w \in Workers : t \in Held(w)}

\* A task passed to Dispatch belongs to Dispatch, then to one worker, and is
\* then deleted, once: it is never given to two workers, lost, or used after
\* it was deleted.
OneOwner ==
    /\ \A t \in created :
          IF t \in freed \/ t = pending
            THEN Holders(t) = {} /\ ~(t \in freed /\ t = pending)
            ELSE Cardinality(Holders(t)) = 1
    /\ \A w \in Workers :
          wpc[w] \in {"work", "notify", "delete"} => Cardinality(Held(w)) = 1

\* ~TaskDispatcher deletes the semaphore and the vector only after the last
\* thread that could call OnTaskDone has ended.
SemaphoreOutlivesWorkers ==
    main = "deleted" => \A w \in Workers : wpc[w] \in {"unborn", "exited"}

\* TaskDispatcher.h:17: "Releases the dispatcher and all its workers": the
\* destructor returns whatever the workers are doing when it is called.
DestructorReturns == main = "deleting" ~> (main = "deleted" \/ process # "running")

\* TaskDispatcher.cc:32-34: "there must be at least 1 free worker at this
\* point (as indicated by the semaphore, so Assign(task) must be successful
\* for at least 1 worker."
AssignSucceeds == process # "aborted"

Status(t) ==
    CASE t \notin created -> "new"
      [] t = pending -> "offered"
      [] t \in notified -> "done"
      [] t \in freed \ notified -> "discarded"
      [] OTHER -> "accepted"

Phase ==
    IF process # "running" THEN "dead"
    ELSE IF main \in {"deleting", "deleted"} THEN "closing" ELSE "open"

\* The dispatcher, its semaphore and its workers implement the pool: an
\* offered task is accepted as soon as a worker is free (or the process
\* dies), no worker has two, and every accepted task is settled.
Pool == INSTANCE TaskPool WITH
            size <- Cardinality({w \in Workers : obj[w] \notin {"none", "gone"}}),
            status <- [t \in Tasks |-> Status(t)],
            phase <- Phase
ImplementsTaskPool == Pool!Spec
==================================================================================
