----------------------------- MODULE BackgroundWorker -----------------------------
(***************************************************************************)
(* src/src/Worker.cc: a BackgroundWorker is an object with a slot for one  *)
(* task (task_), a flag (enabled_), a mutex with a condition variable, and *)
(* a thread that runs worker_func on it.  This module has the steps of the *)
(* thread, of TryAssign and of the destructor for a set of workers; the    *)
(* module TaskDispatcher extends it with the thread that makes the calls.  *)
(*                                                                         *)
(* The worker's thread is at:                                              *)
(*   "unborn"   not created yet;                                           *)
(*   "start"    created, about to lock the mutex (line 15);                *)
(*   "loop"     at the test of enabled_ (17);                              *)
(*   "check"    past the test, looking at task_ (20);                      *)
(*   "waiting"  asleep in pthread_cond_wait (23);                          *)
(*   "relock"   woken inside cond_wait, taking the mutex back;             *)
(*   "work"     inside the virtual Work() (32);                            *)
(*   "notify"   task_ cleared, at task->Done() (36);                       *)
(*   "delete"   Done() returned, at delete task (37);                      *)
(*   "exited"   returned from worker_func.                                 *)
(* The thread holds the mutex from "loop" to "delete" without a break: it  *)
(* gives it up only inside cond_wait and on exit.  The callers' critical   *)
(* sections are single steps, so the mutex is a function of the thread's   *)
(* place (MutexFree) and needs no variable.                                *)
(***************************************************************************)
EXTENDS Naturals, FiniteSets

CONSTANTS
    Workers,        \* the BackgroundWorker objects
    Tasks,          \* the Task objects
    NoTask,         \* the NULL task pointer
    DerivedState    \* the derived class has members that its Work() uses

ASSUME WorkerAssumption ==
    /\ IsFiniteSet(Workers)
    /\ NoTask \notin Tasks
    /\ DerivedState \in BOOLEAN

VARIABLES
    wpc,        \* where each worker's thread is
    obj,        \* how far each object's construction or destruction is
    enabled,    \* enabled_
    task,       \* task_
    current,    \* the local variable task of worker_func, past line 35
    notified,   \* tasks whose Done() has been called
    freed,      \* tasks that have been deleted
    process     \* "running", or how it ended: "aborted" by a failed assertion,
                \* "crashed", or "exited" by exit(1)

workerVars == <<wpc, obj, enabled, task, current, notified, freed, process>>

ThreadPlaces == {"unborn", "start", "loop", "check", "waiting", "relock", "work",
                 "notify", "delete", "exited"}

\* "derived_gone": the derived class's destructor has run;  "disabled":
\* ~BackgroundWorker has cleared enabled_ (the virtual table is now the base
\* class's);  "joining": it has signalled and is in pthread_join.
ObjectStages == {"none", "alive", "derived_gone", "disabled", "joining", "gone"}

WorkerInit ==
    /\ wpc = [w \in Workers |-> "unborn"]
    /\ obj = [w \in Workers |-> "none"]
    /\ enabled = [w \in Workers |-> FALSE]
    /\ task = [w \in Workers |-> NoTask]
    /\ current = [w \in Workers |-> NoTask]
    /\ notified = {}
    /\ freed = {}
    /\ process = "running"

MutexFree(w) == wpc[w] \in {"unborn", "start", "waiting", "relock", "exited"}

-----------------------------------------------------------------------------
(* The worker's thread: worker_func.                                       *)

LockMutex(w) ==
    /\ wpc[w] = "start"
    /\ wpc' = [wpc EXCEPT ![w] = "loop"]
    /\ UNCHANGED <<obj, enabled, task, current, notified, freed, process>>

\* enabled_ is written without the mutex; a stale read is this step taken
\* before the write.  Leaving the loop releases the mutex.
TestEnabled(w) ==
    /\ wpc[w] = "loop"
    /\ wpc' = [wpc EXCEPT ![w] = IF enabled[w] THEN "check" ELSE "exited"]
    /\ UNCHANGED <<obj, enabled, task, current, notified, freed, process>>

\* No task: cond_wait releases the mutex and sleeps in one step.
FallAsleep(w) ==
    /\ wpc[w] = "check"
    /\ task[w] = NoTask
    /\ wpc' = [wpc EXCEPT ![w] = "waiting"]
    /\ UNCHANGED <<obj, enabled, task, current, notified, freed, process>>

\* cond_wait may return without a signal.
SpuriousWake(w) ==
    /\ wpc[w] = "waiting"
    /\ wpc' = [wpc EXCEPT ![w] = "relock"]
    /\ UNCHANGED <<obj, enabled, task, current, notified, freed, process>>

\* cond_wait returns with the mutex held and there is still no task.
WakeToNothing(w) ==
    /\ wpc[w] = "relock"
    /\ task[w] = NoTask
    /\ wpc' = [wpc EXCEPT ![w] = "loop"]
    /\ UNCHANGED <<obj, enabled, task, current, notified, freed, process>>

\* The call of the pure virtual Work(): found without waiting, or on return
\* from cond_wait.  Once ~BackgroundWorker has begun the object is no longer
\* of the derived class, and the call kills the process.
StartWork(w) ==
    /\ wpc[w] \in {"check", "relock"}
    /\ task[w] # NoTask
    /\ IF obj[w] \in {"alive", "derived_gone"}
         THEN /\ wpc' = [wpc EXCEPT ![w] = "work"]
              /\ UNCHANGED process
         ELSE /\ process' = "crashed"
              /\ UNCHANGED wpc
    /\ UNCHANGED <<obj, enabled, task, current, notified, freed>>

\* Mutant: task_ is not cleared (line 35 dropped).
Cleared_Not(w) == task

Cleared(w) == [task EXCEPT ![w] = NoTask]

\* Mutant: task_ is cleared before it is copied (34 and 35 swapped).
Finished_ClearFirst(w) == task'[w]

Finished(w) == task[w]

\* Work() returns; the pointer moves to a local variable.
FinishWork(w) ==
    /\ wpc[w] = "work"
    /\ wpc' = [wpc EXCEPT ![w] = "notify"]
    /\ task' = Cleared(w)
    /\ current' = [current EXCEPT ![w] = Finished(w)]
    /\ UNCHANGED <<obj, enabled, notified, freed, process>>

\* Undefined behaviour: Work() runs on members the derived class's
\* destructor has deleted, and one of its outcomes is the end of the process.
CrashInWork(w) ==
    /\ wpc[w] = "work"
    /\ DerivedState
    /\ obj[w] # "alive"
    /\ process' = "crashed"
    /\ UNCHANGED <<wpc, obj, enabled, task, current, notified, freed>>

\* task->Done(): the observer is told, still under the worker's mutex.
Notify(w) ==
    /\ wpc[w] = "notify"
    /\ wpc' = [wpc EXCEPT ![w] = "delete"]
    /\ notified' = notified \cup {current[w]}
    /\ UNCHANGED <<obj, enabled, task, current, freed, process>>

DeleteTask(w) ==
    /\ wpc[w] = "delete"
    /\ wpc' = [wpc EXCEPT ![w] = "loop"]
    /\ freed' = freed \cup {current[w]}
    /\ current' = [current EXCEPT ![w] = NoTask]
    /\ UNCHANGED <<obj, enabled, task, notified, process>>

\* The thread's steps around Work() and Done().
LoopStep(w) ==
    \/ LockMutex(w)
    \/ TestEnabled(w)
    \/ FallAsleep(w)
    \/ WakeToNothing(w)
    \/ StartWork(w)
    \/ DeleteTask(w)

\* The thread's steps but Notify, which the extending modules join with what
\* the observer does.
QuietStep(w) == LoopStep(w) \/ FinishWork(w) \/ CrashInWork(w)

-----------------------------------------------------------------------------
(* The calls of the thread that owns the worker.                           *)

\* The constructor; pthread_create is its last statement.
Construct(w) ==
    /\ obj[w] = "none"
    /\ obj' = [obj EXCEPT ![w] = "alive"]
    /\ enabled' = [enabled EXCEPT ![w] = TRUE]
    /\ wpc' = [wpc EXCEPT ![w] = "start"]
    /\ UNCHANGED <<task, current, notified, freed, process>>

\* TryAssign returns true when trylock succeeds and the slot is empty.
CanAssign(w) == MutexFree(w) /\ task[w] = NoTask

\* Mutant: the condition is not signalled (lines 72 and 100 dropped).
Woken_NoSignal(w) == wpc[w]

\* cond_signal wakes the thread if it sleeps, and is lost if it does not.
Woken(w) == IF wpc[w] = "waiting" THEN "relock" ELSE wpc[w]

\* The TryAssign that returns true.  The one that returns false changes
\* nothing: ~CanAssign(w).
Assign(w, t) ==
    /\ CanAssign(w)
    /\ task' = [task EXCEPT ![w] = t]
    /\ wpc' = [wpc EXCEPT ![w] = Woken(w)]
    /\ UNCHANGED <<obj, enabled, current, notified, freed, process>>

\* The derived class's destructor.
DestroyDerived(w) ==
    /\ obj[w] = "alive"
    /\ obj' = [obj EXCEPT ![w] = "derived_gone"]
    /\ UNCHANGED <<wpc, enabled, task, current, notified, freed, process>>

\* Mutant: enabled_ is not cleared (line 59 dropped).
Disabled_Forgotten(w) == enabled

Disabled(w) == [enabled EXCEPT ![w] = FALSE]

\* The first statement of ~BackgroundWorker, without the mutex.
Disable(w) ==
    /\ obj[w] = "derived_gone"
    /\ obj' = [obj EXCEPT ![w] = "disabled"]
    /\ enabled' = Disabled(w)
    /\ UNCHANGED <<wpc, task, current, notified, freed, process>>

\* Its critical section: a task that was not started is deleted.
DiscardAndSignal(w) ==
    /\ obj[w] = "disabled"
    /\ MutexFree(w)
    /\ obj' = [obj EXCEPT ![w] = "joining"]
    /\ freed' = freed \cup ({task[w]} \ {NoTask})
    /\ task' = Cleared(w)
    /\ wpc' = [wpc EXCEPT ![w] = Woken(w)]
    /\ UNCHANGED <<enabled, current, notified, process>>

\* pthread_join returns and the object is destroyed.
Join(w) ==
    /\ obj[w] = "joining"
    /\ wpc[w] = "exited"
    /\ obj' = [obj EXCEPT ![w] = "gone"]
    /\ UNCHANGED <<wpc, enabled, task, current, notified, freed, process>>

\* What `delete worker` does after the derived class's destructor.
DestroyBase(w) == Disable(w) \/ DiscardAndSignal(w) \/ Join(w)

-----------------------------------------------------------------------------
(* What the extending modules check of every worker.                       *)

WorkerTypeOK ==
    /\ wpc \in [Workers -> ThreadPlaces]
    /\ obj \in [Workers -> ObjectStages]
    /\ enabled \in [Workers -> BOOLEAN]
    /\ task \in [Workers -> Tasks \cup {NoTask}]
    /\ current \in [Workers -> Tasks \cup {NoTask}]
    /\ notified \subseteq Tasks
    /\ freed \subseteq Tasks
    /\ process \in {"running", "aborted", "crashed", "exited"}

\* The tasks a worker holds a pointer to.
Held(w) == {task[w], current[w]} \ {NoTask}

\* No wake-up is lost.  worker_func tests task_ with an `if`, TryAssign may
\* signal before the thread sleeps, and the destructor writes enabled_
\* outside the mutex: still, a sleeping thread never has a task to do and is
\* never the thread that the destructor is joining.
NoLostWakeup ==
    \A w \in Workers : wpc[w] = "waiting" => task[w] = NoTask /\ obj[w] # "joining"

==================================================================================
