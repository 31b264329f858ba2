--------------------------- MODULE TaskDispatcherProofs ---------------------------
(***************************************************************************)
(* Theorems about TaskDispatcher for any number of workers and any set of  *)
(* tasks.  DispatcherInv is the inductive invariant: besides the types, it *)
(* says what the worker's mutex protects (ThreadHasTask, DestructorOrder)  *)
(* and which workers are in the vector (PoolMembers).                      *)
(*                                                                         *)
(* Ownership, on top of it, says where each task is; with both, each step  *)
(* of the dispatcher and its workers is one of TaskPool, or none.          *)
(***************************************************************************)
EXTENDS TaskDispatcher, FiniteSetTheorems, FunctionTheorems, TLAPS

Deleting == main \in {"deleting", "deleted"}

\* What a thread has in hand where it runs with the mutex held.
ThreadHasTask ==
    \A w \in Workers :
        /\ wpc[w] = "work" => task[w] \in Tasks
        /\ wpc[w] \in {"notify", "delete"} => current[w] \in Tasks /\ task[w] = NoTask
        /\ wpc[w] = "waiting" => task[w] = NoTask

\* enabled_ is cleared before the destructor takes the mutex, so a thread
\* found outside the mutex then can no longer pass the loop test.
DestructorOrder ==
    \A w \in Workers :
        /\ obj[w] \in {"disabled", "joining", "gone"} => ~enabled[w]
        /\ obj[w] = "joining" => wpc[w] \notin {"check", "waiting"}
        /\ obj[w] = "gone" => wpc[w] = "exited"

\* Workers in the vector have a thread; the others have none yet, or none
\* any more.
PoolMembers ==
    /\ \A w \in Workers :
        /\ w <= pool => wpc[w] # "unborn"
        /\ w > pool => wpc[w] \in {"unborn", "exited"}
        /\ w > pool /\ ~Deleting =>
              wpc[w] = "unborn" /\ obj[w] = "none" /\ task[w] = NoTask
    /\ main = "deleted" => pool = 0

\* Dispatch has its task in hand until it is assigned.
PendingTask == main \in {"wait", "assign"} => pending \in Tasks

DispatcherInv == TypeOK /\ ThreadHasTask /\ DestructorOrder /\ PoolMembers /\ PendingTask

LEMMA InitInv == Init => DispatcherInv
  BY WorkerAssumption, DispatcherAssumption
  DEF Init, WorkerInit, DispatcherInv, TypeOK, WorkerTypeOK, ThreadHasTask,
      DestructorOrder, PoolMembers, PendingTask, Deleting, ThreadPlaces,
      ObjectStages, MainPlaces

LEMMA NextInv == DispatcherInv /\ [Next]_vars => DispatcherInv'
<1> SUFFICES ASSUME DispatcherInv, [Next]_vars PROVE DispatcherInv'
  OBVIOUS
<1> USE WorkerAssumption, DispatcherAssumption
<1> USE DEF DispatcherInv, TypeOK, WorkerTypeOK, ThreadHasTask, DestructorOrder,
        PoolMembers, PendingTask, Deleting, ThreadPlaces, ObjectStages, MainPlaces,
        mainVars
<1>1. CASE AddWorker
  BY <1>1 DEF AddWorker, Construct
<1>2. ASSUME NEW t \in Tasks, Dispatch(t) PROVE DispatcherInv'
  BY <1>2 DEF Dispatch, workerVars
<1>3. CASE PassSemaphore
  BY <1>3 DEF PassSemaphore, workerVars, UnitTaken
<1>4. CASE AssignTask
  BY <1>4 DEF AssignTask, Assign, CanAssign, MutexFree, Woken
<1>5. CASE SkipWorker
  BY <1>5 DEF SkipWorker, workerVars
<1>6. CASE AssertionFails
  BY <1>6 DEF AssertionFails
<1>7. CASE Delete
  BY <1>7 DEF Delete, workerVars
<1>8. CASE DeleteBack
  <2>1. CASE DestroyDerived(pool)
    BY <1>8, <2>1 DEF DeleteBack, DestroyDerived
  <2>2. CASE Disable(pool)
    BY <1>8, <2>2 DEF DeleteBack, Disable, Disabled
  <2>3. CASE DiscardAndSignal(pool)
    BY <1>8, <2>3 DEF DeleteBack, DiscardAndSignal, MutexFree, Woken, Cleared
  <2>4. CASE Join(pool)
    BY <1>8, <2>4 DEF DeleteBack, Join
  <2> QED
    BY <1>8, <2>1, <2>2, <2>3, <2>4 DEF DeleteBack, DestroyBase
<1>9. CASE PopWorker
  BY <1>9 DEF PopWorker, workerVars, BackDeleted
<1>10. CASE DeleteSemaphore
  BY <1>10 DEF DeleteSemaphore, workerVars
<1>11. ASSUME NEW w \in Workers, ThreadStep(w) PROVE DispatcherInv'
  <2>1. CASE OnTaskDone(w)
    BY <2>1 DEF OnTaskDone, Notify, UnitBack
  <2>2. CASE LockMutex(w) /\ UNCHANGED mainVars
    BY <2>2 DEF LockMutex
  <2>3. CASE TestEnabled(w) /\ UNCHANGED mainVars
    BY <2>3 DEF TestEnabled
  <2>4. CASE FallAsleep(w) /\ UNCHANGED mainVars
    BY <2>4 DEF FallAsleep
  <2>5. CASE WakeToNothing(w) /\ UNCHANGED mainVars
    BY <2>5 DEF WakeToNothing
  <2>6. CASE StartWork(w) /\ UNCHANGED mainVars
    BY <2>6 DEF StartWork
  <2>7. CASE FinishWork(w) /\ UNCHANGED mainVars
    BY <2>7 DEF FinishWork, Cleared, Finished
  <2>8. CASE CrashInWork(w) /\ UNCHANGED mainVars
    BY <2>8 DEF CrashInWork
  <2>9. CASE DeleteTask(w) /\ UNCHANGED mainVars
    BY <2>9 DEF DeleteTask
  <2> QED
    BY <1>11, <2>1, <2>2, <2>3, <2>4, <2>5, <2>6, <2>7, <2>8, <2>9
    DEF ThreadStep, QuietStep, LoopStep
<1>12. ASSUME NEW w \in Workers, Interrupt(w) PROVE DispatcherInv'
  BY <1>12 DEF Interrupt, SpuriousWake
<1>13. CASE UNCHANGED vars
  BY <1>13 DEF vars, workerVars
<1> QED
  BY <1>1, <1>2, <1>3, <1>4, <1>5, <1>6, <1>7, <1>8, <1>9, <1>10, <1>11, <1>12, <1>13
  DEF Next, Call, MainStep, Stopped

\* The invariant holds in every reachable state.
LEMMA SpecInv == Spec => []DispatcherInv
  BY InitInv, NextInv, PTL DEF Spec

\* Every variable of the dispatcher and of its workers keeps its type: above
\* all, the task that Done() is called on and that is deleted is never the
\* null pointer, and the worker that Dispatch tries is in the vector.
THEOREM TypeCorrect == Spec => []TypeOK
  BY SpecInv, PTL DEF DispatcherInv

\* A sleeping thread has nothing to do and is not being joined, although
\* TryAssign may signal a thread that has not slept yet and the destructor
\* clears enabled_ without the mutex.
THEOREM NoWakeupIsLost == Spec => []NoLostWakeup
<1>1. DispatcherInv => NoLostWakeup
  BY DEF DispatcherInv, ThreadHasTask, DestructorOrder, NoLostWakeup
<1> QED
  BY <1>1, SpecInv, PTL

\* ~TaskDispatcher deletes the semaphore after the last OnTaskDone.
THEOREM SemaphoreIsLast == Spec => []SemaphoreOutlivesWorkers
<1>1. DispatcherInv => SemaphoreOutlivesWorkers
  BY DispatcherAssumption DEF DispatcherInv, PoolMembers, SemaphoreOutlivesWorkers
<1> QED
  BY <1>1, SpecInv, PTL

-----------------------------------------------------------------------------
(* The semaphore counts the free workers.                                  *)

LEMMA FreeWorkersFinite == IsFiniteSet(FreeWorkers) /\ Cardinality(FreeWorkers) \in Nat
<1>1. IsFiniteSet(FreeWorkers)
  BY WorkerAssumption, FS_Subset DEF FreeWorkers
<1> QED
  BY <1>1, FS_CardinalityType

\* A step that leaves the free workers as they are.
LEMMA SameFree ==
  ASSUME FreeWorkers' = FreeWorkers, Permits' = Permits, PermitAccounting,
         ~Deleting' => ~Deleting
  PROVE  PermitAccounting'
  BY DEF PermitAccounting, Deleting

LEMMA InitPermits == Init => PermitAccounting
<1> SUFFICES ASSUME Init PROVE PermitAccounting
  OBVIOUS
<1>1. FreeWorkers = {}
  BY DispatcherAssumption DEF Init, FreeWorkers, Free
<1> QED
  BY <1>1, FS_EmptySet DEF Init, PermitAccounting, Permits

LEMMA NextPermits == DispatcherInv /\ PermitAccounting /\ [Next]_vars => PermitAccounting'
<1> SUFFICES ASSUME DispatcherInv, PermitAccounting, [Next]_vars PROVE PermitAccounting'
  OBVIOUS
<1> USE WorkerAssumption, DispatcherAssumption
<1> USE DEF DispatcherInv, mainVars
<1>a. sem \in Nat /\ pool \in 0 .. MaxWorkers
  BY DEF TypeOK
\* One worker becomes free.
<1>b. ASSUME NEW w \in Workers, ~Free(w), Free(w)', Permits' = Permits + 1,
             \A v \in Workers : v # w => (Free(v)' <=> Free(v)), ~Deleting
      PROVE  PermitAccounting'
  <2>1. w \notin FreeWorkers /\ FreeWorkers' = FreeWorkers \cup {w}
    BY <1>b DEF FreeWorkers
  <2>2. Cardinality(FreeWorkers') = Cardinality(FreeWorkers) + 1
    BY <2>1, FreeWorkersFinite, FS_AddElement
  <2> QED
    BY <1>b, <2>2 DEF PermitAccounting, Deleting
<1>1. CASE AddWorker
  <2>1. PICK w \in Workers : w = pool + 1
    BY <1>1, <1>a DEF AddWorker
  <2>2. ~Free(w) /\ Free(w)'
    BY <1>1, <2>1, <1>a
    DEF AddWorker, Construct, Free, PoolMembers, Deleting, TypeOK, WorkerTypeOK
  <2>3. \A v \in Workers : v # w => (Free(v)' <=> Free(v))
    BY <1>1, <2>1, <1>a DEF AddWorker, Construct, Free, TypeOK, WorkerTypeOK
  <2>4. Permits' = Permits + 1 /\ ~Deleting
    BY <1>1, <1>a DEF AddWorker, Permits, Deleting
  <2> QED
    BY <2>2, <2>3, <2>4, <1>b
<1>2. ASSUME NEW t \in Tasks, Dispatch(t) PROVE PermitAccounting'
  BY <1>2, SameFree DEF Dispatch, workerVars, FreeWorkers, Free, Permits, Deleting
<1>3. CASE PassSemaphore
  <2>1. FreeWorkers' = FreeWorkers
    BY <1>3 DEF PassSemaphore, workerVars, FreeWorkers, Free, UnitTaken
  <2>2. Permits' = Permits
    BY <1>3, <1>a DEF PassSemaphore, Permits, UnitTaken
  <2> QED
    BY <1>3, <2>1, <2>2, SameFree DEF PassSemaphore, Deleting, UnitTaken
<1>4. CASE AssignTask
  <2>0. PICK w \in Workers : w = it
    BY <1>4, <1>a DEF AssignTask, TypeOK
  <2>1. Free(w) /\ ~Free(w)'
    BY <1>4, <2>0, <1>a
    DEF AssignTask, Assign, CanAssign, MutexFree, Free, TypeOK, WorkerTypeOK, PendingTask
  <2>2. \A v \in Workers : v # w => (Free(v)' <=> Free(v))
    BY <1>4, <2>0 DEF AssignTask, Assign, Woken, Free, TypeOK, WorkerTypeOK
  <2>3. w \in FreeWorkers /\ FreeWorkers' = FreeWorkers \ {w}
    BY <2>1, <2>2 DEF FreeWorkers
  <2>4. Cardinality(FreeWorkers') = Cardinality(FreeWorkers) - 1
    BY <2>3, FreeWorkersFinite, FS_RemoveElement
  <2>5. Permits' = Permits - 1
    BY <1>4, <1>a DEF AssignTask, Permits
  <2> QED
    BY <1>4, <2>4, <2>5, <1>a, FreeWorkersFinite DEF AssignTask, PermitAccounting
<1>5. CASE SkipWorker
  BY <1>5, SameFree DEF SkipWorker, workerVars, FreeWorkers, Free, Permits, Deleting
<1>6. CASE AssertionFails
  BY <1>6, SameFree DEF AssertionFails, FreeWorkers, Free, Permits, Deleting
<1>7. CASE Delete \/ DeleteBack \/ PopWorker \/ DeleteSemaphore
  BY <1>7 DEF Delete, DeleteBack, PopWorker, DeleteSemaphore, PermitAccounting, BackDeleted
<1>8. ASSUME NEW w \in Workers, ThreadStep(w) PROVE PermitAccounting'
  <2>1. CASE OnTaskDone(w)
    <3>1. CASE Deleting
      BY <2>1, <3>1 DEF OnTaskDone, PermitAccounting, Deleting, UnitBack
    <3>2. CASE ~Deleting
      <4>1. ~Free(w) /\ Free(w)'
        BY <2>1, <3>2, <1>a
        DEF OnTaskDone, Notify, Free, TypeOK, WorkerTypeOK, ThreadHasTask, PoolMembers, UnitBack
      <4>2. \A v \in Workers : v # w => (Free(v)' <=> Free(v))
        BY <2>1 DEF OnTaskDone, Notify, Free, TypeOK, WorkerTypeOK, UnitBack
      <4>3. Permits' = Permits + 1
        BY <2>1, <1>a DEF OnTaskDone, Permits, UnitBack
      <4> QED
        BY <3>2, <4>1, <4>2, <4>3, <1>b
    <3> QED
      BY <3>1, <3>2
  <2>2. ASSUME UNCHANGED mainVars, \A v \in Workers : Free(v)' <=> Free(v)
        PROVE  PermitAccounting'
    <3>1. FreeWorkers' = FreeWorkers /\ Permits' = Permits
      BY <2>2 DEF FreeWorkers, Permits
    <3> QED
      BY <2>2, <3>1, SameFree DEF Deleting
  <2>3. CASE FinishWork(w) /\ UNCHANGED mainVars
    BY <2>2, <2>3 DEF FinishWork, Free, TypeOK, WorkerTypeOK, ThreadHasTask, Cleared, Finished
  <2>4. CASE (LockMutex(w) \/ TestEnabled(w) \/ FallAsleep(w) \/ WakeToNothing(w)
                \/ DeleteTask(w)) /\ UNCHANGED mainVars
    BY <2>2, <2>4
    DEF LockMutex, TestEnabled, FallAsleep, WakeToNothing, DeleteTask, Free,
        TypeOK, WorkerTypeOK
  <2>5. CASE (StartWork(w) \/ CrashInWork(w)) /\ UNCHANGED mainVars
    BY <2>2, <2>5 DEF StartWork, CrashInWork, Free, TypeOK, WorkerTypeOK
  <2> QED
    BY <1>8, <2>1, <2>3, <2>4, <2>5 DEF ThreadStep, QuietStep, LoopStep
<1>9. ASSUME NEW w \in Workers, Interrupt(w) PROVE PermitAccounting'
  <2>1. \A v \in Workers : Free(v)' <=> Free(v)
    BY <1>9 DEF Interrupt, SpuriousWake, Free, TypeOK, WorkerTypeOK
  <2> QED
    BY <1>9, <2>1, SameFree DEF Interrupt, FreeWorkers, Permits, Deleting
<1>10. CASE UNCHANGED vars
  BY <1>10, SameFree DEF vars, workerVars, FreeWorkers, Free, Permits, Deleting
<1> QED
  BY <1>1, <1>2, <1>3, <1>4, <1>5, <1>6, <1>7, <1>8, <1>9, <1>10
  DEF Next, Call, MainStep, Stopped

\* The semaphore's counter and the unit that Dispatch holds are together the
\* number of workers without an unreported task.
THEOREM PermitsCountFreeWorkers == Spec => []PermitAccounting
BY InitPermits, SpecInv, NextPermits, PTL DEF Spec

\* The true half of the comment at TaskDispatcher.cc:32: while Dispatch looks
\* for a worker, some worker in the vector has no unreported task.  (That
\* TryAssign succeeds does not follow: its thread may hold the mutex.)
FreeWorkerForPermit == main = "assign" => \E w \in 1 .. pool : Free(w)

THEOREM DispatchFindsFreeWorker == Spec => []FreeWorkerForPermit
<1>1. DispatcherInv /\ PermitAccounting => FreeWorkerForPermit
  <2> SUFFICES ASSUME DispatcherInv, PermitAccounting, main = "assign"
               PROVE  \E w \in 1 .. pool : Free(w)
    BY DEF FreeWorkerForPermit
  <2>1. Cardinality(FreeWorkers) # 0
    BY DEF PermitAccounting, Permits, DispatcherInv, TypeOK
  <2>2. PICK w \in Workers : Free(w)
    BY <2>1, FS_EmptySet DEF FreeWorkers
  <2> QED
    BY <2>2, DispatcherAssumption DEF Free
<1> QED
  BY <1>1, SpecInv, PermitsCountFreeWorkers, PTL

-----------------------------------------------------------------------------
(* Who owns a task.                                                        *)

\* Where a task pointer can be: the slot and the local variable are never
\* both in use, an object that is being joined has an empty slot, and
\* Dispatch has a task only while it runs.
Slots ==
    /\ \A w \in Workers :
        /\ current[w] # NoTask => wpc[w] \in {"notify", "delete"}
        /\ obj[w] = "none" <=> wpc[w] = "unborn"
        /\ obj[w] \in {"none", "joining", "gone"} => task[w] = NoTask
        /\ w <= pool /\ ~Deleting => obj[w] = "alive"
    /\ main \notin {"wait", "assign"} => pending = NoTask

\* A task has at most one owner: Dispatch, one worker, or nobody any more.
Separate ==
    /\ pending # NoTask => pending \in created \ freed
    /\ freed \subseteq created
    /\ \A w \in Workers :
        /\ task[w] # NoTask => task[w] \in created \ freed /\ task[w] # pending
        /\ current[w] # NoTask => current[w] \in created \ freed /\ current[w] # pending
    /\ \A v, w \in Workers : v # w =>
        /\ task[v] # NoTask => task[v] \notin {task[w], current[w]}
        /\ current[v] # NoTask => current[v] # current[w]

\* A task has an owner until it is deleted.
Kept ==
    \A t \in created :
        t \in freed \/ t = pending \/ \E w \in Workers : t \in {task[w], current[w]}

\* Done() has been called of the tasks that are past it, and of no other.
Reported ==
    /\ notified \subseteq created \ {pending}
    /\ \A w \in Workers :
        /\ task[w] \notin notified
        /\ wpc[w] = "notify" => current[w] \notin notified
        /\ wpc[w] = "delete" => current[w] \in notified

Ownership == Slots /\ Separate /\ Kept /\ Reported

LEMMA InitOwnership == Init => Ownership
  BY WorkerAssumption, DispatcherAssumption
  DEF Init, WorkerInit, Ownership, Slots, Separate, Kept, Reported, Deleting

LEMMA NextOwnership ==
  DispatcherInv /\ Ownership /\ [Next]_vars => Ownership'
<1> SUFFICES ASSUME DispatcherInv, Ownership, [Next]_vars PROVE Ownership'
  OBVIOUS
<1> USE WorkerAssumption, DispatcherAssumption
<1> USE DEF DispatcherInv, TypeOK, WorkerTypeOK, ThreadHasTask, PoolMembers, PendingTask,
        Deleting, MainPlaces, mainVars,
        Ownership, Slots, Separate, Kept, Reported
<1>1. CASE AddWorker
  BY <1>1 DEF AddWorker, Construct
<1>2. ASSUME NEW t \in Tasks, Dispatch(t) PROVE Ownership'
  BY <1>2 DEF Dispatch, workerVars
<1>3. CASE PassSemaphore
  BY <1>3 DEF PassSemaphore, workerVars
<1>4. CASE AssignTask
  <2> USE <1>4 DEF AssignTask, Assign, CanAssign, MutexFree, Woken
  <2>1. Slots'
    OBVIOUS
  <2>2. Separate'
    OBVIOUS
  <2>3. Kept'
    OBVIOUS
  <2>4. Reported'
    OBVIOUS
  <2> QED
    BY <2>1, <2>2, <2>3, <2>4
<1>5. CASE SkipWorker
  BY <1>5 DEF SkipWorker, workerVars
<1>6. CASE AssertionFails
  BY <1>6 DEF AssertionFails
<1>7. CASE Delete
  BY <1>7 DEF Delete, workerVars
<1>8. CASE DeleteBack
  <2>1. CASE DestroyDerived(pool)
    BY <1>8, <2>1 DEF DeleteBack, DestroyDerived
  <2>2. CASE Disable(pool)
    BY <1>8, <2>2 DEF DeleteBack, Disable
  <2>3. CASE DiscardAndSignal(pool)
    <3> USE <1>8, <2>3 DEF DeleteBack, DiscardAndSignal, MutexFree, Woken, Cleared
    <3>1. Slots'
      OBVIOUS
    <3>2. Separate'
      OBVIOUS
    <3>3. Kept'
      OBVIOUS
    <3>4. Reported'
      OBVIOUS
    <3> QED
      BY <3>1, <3>2, <3>3, <3>4
  <2>4. CASE Join(pool)
    BY <1>8, <2>4 DEF DeleteBack, Join
  <2> QED
    BY <1>8, <2>1, <2>2, <2>3, <2>4 DEF DeleteBack, DestroyBase
<1>9. CASE PopWorker
  BY <1>9 DEF PopWorker, workerVars
<1>10. CASE DeleteSemaphore
  BY <1>10 DEF DeleteSemaphore, workerVars
<1>11. ASSUME NEW w \in Workers, ThreadStep(w) PROVE Ownership'
  <2>1. CASE OnTaskDone(w)
    <3> USE <2>1 DEF OnTaskDone, Notify
    <3>1. Slots'
      OBVIOUS
    <3>2. Separate'
      OBVIOUS
    <3>3. Kept'
      OBVIOUS
    <3>4. Reported'
      OBVIOUS
    <3> QED
      BY <3>1, <3>2, <3>3, <3>4
  <2>2. CASE FinishWork(w) /\ UNCHANGED mainVars
    <3> USE <2>2 DEF FinishWork, Cleared, Finished
    <3>1. Slots'
      OBVIOUS
    <3>2. Separate'
      OBVIOUS
    <3>3. Kept'
      OBVIOUS
    <3>4. Reported'
      OBVIOUS
    <3> QED
      BY <3>1, <3>2, <3>3, <3>4
  <2>3. CASE DeleteTask(w) /\ UNCHANGED mainVars
    <3> USE <2>3 DEF DeleteTask
    <3>1. Slots'
      OBVIOUS
    <3>2. Separate'
      OBVIOUS
    <3>3. Kept'
      OBVIOUS
    <3>4. Reported'
      OBVIOUS
    <3> QED
      BY <3>1, <3>2, <3>3, <3>4
  <2>4. CASE LoopStep(w) /\ ~DeleteTask(w) /\ UNCHANGED mainVars
    <3> USE <2>4 DEF LoopStep, LockMutex, TestEnabled, FallAsleep, WakeToNothing, StartWork
    <3>1. Slots'
      OBVIOUS
    <3>2. Separate'
      OBVIOUS
    <3>3. Kept'
      OBVIOUS
    <3>4. Reported'
      OBVIOUS
    <3> QED
      BY <3>1, <3>2, <3>3, <3>4
  <2>5. CASE CrashInWork(w) /\ UNCHANGED mainVars
    BY <2>5 DEF CrashInWork
  <2> QED
    BY <1>11, <2>1, <2>2, <2>3, <2>4, <2>5 DEF ThreadStep, QuietStep
<1>12. ASSUME NEW w \in Workers, Interrupt(w) PROVE Ownership'
  <2> USE <1>12 DEF Interrupt, SpuriousWake
  <2>1. Slots'
    OBVIOUS
  <2>2. Separate'
    OBVIOUS
  <2>3. Kept'
    OBVIOUS
  <2>4. Reported'
    OBVIOUS
  <2> QED
    BY <2>1, <2>2, <2>3, <2>4
<1>13. CASE UNCHANGED vars
  BY <1>13 DEF vars, workerVars
<1> QED
  BY <1>1, <1>2, <1>3, <1>4, <1>5, <1>6, <1>7, <1>8, <1>9, <1>10, <1>11, <1>12, <1>13
  DEF Next, Call, MainStep, Stopped

LEMMA SpecOwnership == Spec => []Ownership
  BY InitOwnership, SpecInv, NextOwnership, PTL DEF Spec

\* A task passed to Dispatch is never given to two workers, lost, or held
\* after it was deleted, and a thread inside Work(), Done() or delete has
\* exactly one task in hand.
THEOREM TaskHasOneOwner == Spec => []OneOwner
<1>1. DispatcherInv /\ Ownership => OneOwner
  <2> SUFFICES ASSUME DispatcherInv, Ownership PROVE OneOwner
    OBVIOUS
  <2>0. /\ NoTask \notin created /\ created \subseteq Tasks
        /\ \A w \in Workers : \A t \in created :
              t \in Held(w) <=> t \in {task[w], current[w]}
    BY WorkerAssumption DEF DispatcherInv, TypeOK, Held
  <2>1. ASSUME NEW t \in created, t \in freed \/ t = pending
        PROVE  Holders(t) = {} /\ ~(t \in freed /\ t = pending)
    BY <2>0, <2>1 DEF Ownership, Separate, Holders
  <2>2. ASSUME NEW t \in created, t \notin freed, t # pending
        PROVE  Cardinality(Holders(t)) = 1
    <3>1. PICK w \in Workers : t \in Held(w)
      BY <2>0, <2>2 DEF Ownership, Kept
    <3>2. \A v \in Workers : t \in Held(v) => v = w
      BY <2>0, <3>1 DEF Ownership, Separate
    <3>3. Holders(t) = {w}
      BY <3>1, <3>2 DEF Holders
    <3> QED
      BY <3>3, FS_Singleton
  <2>3. ASSUME NEW w \in Workers, wpc[w] \in {"work", "notify", "delete"}
        PROVE  Cardinality(Held(w)) = 1
    <3>1. CASE wpc[w] = "work"
      <4>1. task[w] # NoTask /\ current[w] = NoTask
        BY <3>1, WorkerAssumption
        DEF DispatcherInv, ThreadHasTask, Ownership, Slots
      <4>2. Held(w) = {task[w]}
        BY <4>1 DEF Held
      <4> QED
        BY <4>2, FS_Singleton
    <3>2. CASE wpc[w] \in {"notify", "delete"}
      <4>1. task[w] = NoTask /\ current[w] # NoTask
        BY <3>2, WorkerAssumption DEF DispatcherInv, ThreadHasTask
      <4>2. Held(w) = {current[w]}
        BY <4>1 DEF Held
      <4> QED
        BY <4>2, FS_Singleton
    <3> QED
      BY <2>3, <3>1, <3>2
  <2> QED
    BY <2>1, <2>2, <2>3 DEF OneOwner
<1> QED
  BY <1>1, SpecInv, SpecOwnership, PTL

-----------------------------------------------------------------------------
(* The steps of the dispatcher are steps of the pool it promises.          *)

Live == {w \in Workers : obj[w] \notin {"none", "gone"}}

\* The workers that hold a task they have not reported.
Busy == {w \in Workers : task[w] # NoTask \/ wpc[w] = "notify"}

\* While a live worker is not busy, fewer tasks are accepted than workers are
\* live: each accepted task is in the hands of a busy worker of its own.
LEMMA RoomInPool ==
  ASSUME DispatcherInv, Ownership, NEW free \in Live, free \notin Busy
  PROVE  Cardinality(Pool!Accepted) < Cardinality(Live)
<1> USE WorkerAssumption
<1> DEFINE holds == [w \in Busy |-> IF task[w] # NoTask THEN task[w] ELSE current[w]]
<1>1. Pool!Accepted = {t \in Tasks : Status(t) = "accepted"}
  BY DEF Pool!Accepted, Pool!StatusOf
<1>2. ASSUME NEW w \in Busy PROVE holds[w] \in Pool!Accepted
  <2>1. /\ holds[w] \in Tasks /\ holds[w] \in created
        /\ holds[w] \notin freed \cup notified /\ holds[w] # pending
    BY DEF Busy, DispatcherInv, TypeOK, WorkerTypeOK, ThreadHasTask,
           Ownership, Slots, Separate, Reported
  <2> QED
    BY <2>1, <1>1 DEF Status
<1>3. ASSUME NEW t \in Pool!Accepted PROVE \E w \in Busy : holds[w] = t
  <2>1. t \in created /\ t \notin freed \cup notified /\ t # pending
    BY <1>1, <1>3 DEF Status
  <2>2. PICK w \in Workers : t \in {task[w], current[w]}
    BY <2>1 DEF Ownership, Kept
  <2>3. t # NoTask
    BY <1>1, <1>3
  <2>4. w \in Busy /\ holds[w] = t
    BY <2>1, <2>2, <2>3
    DEF Busy, DispatcherInv, ThreadHasTask, Ownership, Slots, Reported
  <2> QED
    BY <2>4
<1>4. holds \in Surjection(Busy, Pool!Accepted)
  BY <1>2, <1>3, Fun_IsSurj
<1>5. Busy \subseteq Live
  BY DEF Busy, Live, DispatcherInv, DestructorOrder, Ownership, Slots
<1>6. IsFiniteSet(Live) /\ IsFiniteSet(Busy)
  BY FS_Subset DEF Live, Busy
<1>7. Cardinality(Pool!Accepted) <= Cardinality(Busy) /\ IsFiniteSet(Pool!Accepted)
  BY <1>4, <1>6, FS_Surjection
<1>8. Cardinality(Busy) < Cardinality(Live)
  <2>1. Busy \subseteq Live \ {free}
    BY <1>5
  <2>2. /\ IsFiniteSet(Live \ {free})
        /\ Cardinality(Live \ {free}) = Cardinality(Live) - 1
    BY <1>6, FS_RemoveElement
  <2>3. Cardinality(Busy) <= Cardinality(Live \ {free})
    BY <2>1, <2>2, FS_Subset
  <2> QED
    BY <2>2, <2>3, <1>6, FS_CardinalityType
<1> QED
  BY <1>6, <1>7, <1>8, FS_CardinalityType

\* TaskPool counts with the Cardinality of its own FiniteSets.
LEMMA SameCardinality == \A S : Pool!Cardinality(S) = Cardinality(S)
  BY DEF Pool!Cardinality, Cardinality

\* A step that the pool does not see.
LEMMA Unseen ==
  ASSUME Live' = Live, Phase' = Phase, \A t \in Tasks : Status(t)' = Status(t)
  PROVE  [Pool!Next]_(Pool!vars)
  BY DEF Pool!vars, Live

\* A step that moves one task on.
LEMMA OneMoves ==
  ASSUME NEW t \in Tasks, NEW from, NEW to, Status(t) = from, Status(t)' = to,
         \A u \in Tasks \ {t} : Status(u)' = Status(u),
         Live' = Live, Phase' = Phase
  PROVE  Pool!Move(t, from, to)
<1>1. [u \in Tasks |-> Status(u)]' = [[u \in Tasks |-> Status(u)] EXCEPT ![t] = to]
  OBVIOUS
<1> QED
  BY <1>1 DEF Pool!Move, Live

LEMMA StepSimulation ==
  DispatcherInv /\ Ownership /\ [Next]_vars => [Pool!Next]_(Pool!vars)
<1> SUFFICES ASSUME DispatcherInv, Ownership, [Next]_vars
             PROVE  [Pool!Next]_(Pool!vars)
  OBVIOUS
<1> USE WorkerAssumption, DispatcherAssumption
<1>a. /\ IsFiniteSet(Live) /\ pool \in 0 .. MaxWorkers
      /\ Pool!StatusOf("offered") = {t \in Tasks : Status(t) = "offered"}
  BY FS_Subset DEF Live, DispatcherInv, TypeOK, Pool!StatusOf
\* Nothing is on offer while the main thread is not in Dispatch.
<1>b. main \notin {"wait", "assign"} => Pool!StatusOf("offered") = {}
  BY <1>a DEF Ownership, Slots, Status
<1>1. CASE process = "running" /\ AddWorker
  <2>1. PICK w \in Workers : w = pool + 1
    BY <1>1, <1>a DEF AddWorker
  <2>2. w \notin Live /\ Live' = Live \cup {w}
    BY <1>1, <2>1
    DEF AddWorker, Construct, Live, DispatcherInv, TypeOK, WorkerTypeOK
  <2>3. Cardinality(Live') = Cardinality(Live) + 1
    BY <2>2, <1>a, FS_AddElement
  <2>4. \A t \in Tasks : Status(t)' = Status(t)
    BY <1>1 DEF AddWorker, Construct, Status
  <2>5. Phase = "open" /\ Phase' = Phase
    BY <1>1 DEF AddWorker, Construct, Phase
  <2> QED
    BY <1>1, <1>b, <2>3, <2>4, <2>5 DEF AddWorker, Pool!Next, Pool!Grow, Live
<1>2. ASSUME process = "running", NEW t \in Tasks, Dispatch(t)
      PROVE  [Pool!Next]_(Pool!vars)
  <2>1. Status(t) = "new" /\ Status(t)' = "offered"
    <3>1. t \notin created \cup freed \cup notified /\ t # pending
      BY <1>2 DEF Dispatch, Ownership, Slots, Separate, Reported
    <3>2. Status(t) = "new"
      BY <3>1 DEF Status
    <3>3. Status(t)' = "offered"
      BY <1>2, <3>1 DEF Dispatch, workerVars, Status
    <3> QED
      BY <3>2, <3>3
  <2>2. \A u \in Tasks \ {t} : Status(u)' = Status(u)
    BY <1>2 DEF Dispatch, workerVars, Status, Ownership, Slots
  <2>3. Live' = Live /\ Phase' = Phase /\ Phase = "open"
    BY <1>2 DEF Dispatch, workerVars, Live, Phase
  <2>4. Pool!Move(t, "new", "offered")
    BY <2>1, <2>2, <2>3, OneMoves
  <2> QED
    BY <1>2, <1>b, <2>3, <2>4 DEF Dispatch, Pool!Next, Pool!Offer
<1>3. CASE PassSemaphore \/ SkipWorker
  BY <1>3, Unseen DEF PassSemaphore, SkipWorker, workerVars, Status, Phase, Live
\* The worker that accepts is live and not busy.
<1>4. CASE process = "running" /\ AssignTask
  <2>1. PICK t \in Tasks :
            t = pending /\ t \in created /\ t \notin freed \cup notified
    BY <1>4
    DEF AssignTask, DispatcherInv, PendingTask, Ownership, Separate, Reported
  <2>2. Status(t) = "offered" /\ Status(t)' = "accepted"
    BY <1>4, <2>1 DEF AssignTask, Assign, Status
  <2>3. \A u \in Tasks \ {t} : Status(u)' = Status(u)
    BY <1>4, <2>1 DEF AssignTask, Assign, Status
  <2>4. Live' = Live /\ Phase' = Phase /\ Phase = "open"
    BY <1>4 DEF AssignTask, Assign, Live, Phase
  <2>5. it \in Live /\ it \notin Busy
    BY <1>4
    DEF AssignTask, Assign, CanAssign, MutexFree, Live, Busy, Deleting,
        DispatcherInv, TypeOK, Ownership, Slots
  <2>6. Cardinality(Pool!Accepted) < Cardinality(Live)
    BY <2>5, RoomInPool
  <2>7. Pool!Move(t, "offered", "accepted")
    BY <2>2, <2>3, <2>4, OneMoves
  <2> QED
    BY <2>4, <2>6, <2>7, SameCardinality DEF Pool!Next, Pool!Accept, Live
<1>5. CASE process = "running" /\ AssertionFails
  <2>1. pending \in Pool!StatusOf("offered")
    BY <1>5, <1>a
    DEF AssertionFails, DispatcherInv, PendingTask, Ownership, Separate, Reported, Status
  <2>2. /\ \A t \in Tasks : Status(t)' = Status(t)
        /\ Live' = Live /\ Phase = "open" /\ Phase' = "dead"
    BY <1>5 DEF AssertionFails, mainVars, Status, Live, Phase
  <2> QED
    BY <2>1, <2>2 DEF Pool!Next, Pool!Die, Live
<1>6. CASE process = "running" /\ Delete
  <2>1. /\ \A t \in Tasks : Status(t)' = Status(t)
        /\ Live' = Live /\ Phase = "open" /\ Phase' = "closing"
    BY <1>6 DEF Delete, workerVars, Status, Live, Phase
  <2> QED
    BY <1>6, <1>b, <2>1 DEF Delete, Pool!Next, Pool!Close, Live
<1>7. CASE process = "running" /\ DeleteBack
  <2>0. pool \in Workers /\ Phase = "closing" /\ Phase' = Phase
    BY <1>7, <1>a
    DEF DeleteBack, DestroyDerived, DestroyBase, Disable, DiscardAndSignal, Join,
        mainVars, Phase
  <2>1. CASE DestroyDerived(pool) \/ Disable(pool)
    <3>1. /\ \A t \in Tasks : Status(t)' = Status(t)
          /\ Live' = Live
      BY <1>7, <2>0, <2>1
      DEF DeleteBack, DestroyDerived, Disable, mainVars, Status, Live,
          DispatcherInv, TypeOK, WorkerTypeOK
    <3> QED
      BY <2>0, <3>1, Unseen
  <2>2. CASE DiscardAndSignal(pool)
    <3>1. Live' = Live
      BY <2>0, <2>2
      DEF DiscardAndSignal, Live, DispatcherInv, TypeOK, WorkerTypeOK
    <3>2. CASE task[pool] = NoTask
      <4>1. \A t \in Tasks : Status(t)' = Status(t)
        BY <1>7, <2>2, <3>2 DEF DeleteBack, DiscardAndSignal, mainVars, Status
      <4> QED
        BY <2>0, <3>1, <4>1, Unseen
    <3>3. CASE task[pool] # NoTask
      <4>1. task[pool] \in Tasks /\ task[pool] \in created /\ task[pool] # pending
            /\ task[pool] \notin freed \cup notified
        BY <2>0, <3>3
        DEF DispatcherInv, TypeOK, WorkerTypeOK, Ownership, Separate, Reported
      <4>2. Status(task[pool]) = "accepted"
        BY <4>1 DEF Status
      <4>3. /\ created' = created /\ pending' = pending /\ notified' = notified
            /\ freed' = freed \cup {task[pool]}
        BY <1>7, <2>2, <3>3 DEF DeleteBack, DiscardAndSignal, mainVars
      <4>4. \A t \in Tasks : Status(t)' = IF t = task[pool] THEN "discarded" ELSE Status(t)
        BY <4>1, <4>3 DEF Status
      <4>5. Pool!Move(task[pool], "accepted", "discarded")
        <5> DEFINE st == [t \in Tasks |-> Status(t)]
        <5>1. st' = [st EXCEPT ![task[pool]] = "discarded"]
          BY <4>1, <4>4
        <5> QED
          BY <2>0, <3>1, <4>1, <4>2, <5>1 DEF Pool!Move, Live
      <4> QED
        BY <2>0, <4>1, <4>5 DEF Pool!Next, Pool!Discard
    <3> QED
      BY <3>2, <3>3
  \* The worker that is gone had no task left.
  <2>3. CASE Join(pool)
    <3>1. pool \in Live /\ Live' = Live \ {pool}
      BY <2>0, <2>3 DEF Join, Live, DispatcherInv, TypeOK, WorkerTypeOK
    <3>2. pool \notin Busy
      BY <2>0, <2>3 DEF Join, Busy, Ownership, Slots
    <3>3. Cardinality(Pool!Accepted) < Cardinality(Live)
      BY <3>1, <3>2, RoomInPool
    <3>4. Cardinality(Live') = Cardinality(Live) - 1
      BY <3>1, <1>a, FS_RemoveElement
    <3>5. \A t \in Tasks : Status(t)' = Status(t)
      BY <1>7, <2>3 DEF DeleteBack, Join, mainVars, Status
    <3> QED
      BY <2>0, <3>3, <3>4, <3>5, SameCardinality DEF Pool!Next, Pool!Shrink, Live
  <2> QED
    BY <1>7, <2>1, <2>2, <2>3 DEF DeleteBack, DestroyBase
<1>8. CASE PopWorker \/ DeleteSemaphore
  BY <1>8, Unseen DEF PopWorker, DeleteSemaphore, workerVars, Status, Phase, Live
<1>9. ASSUME NEW w \in Workers, ThreadStep(w)
      PROVE  [Pool!Next]_(Pool!vars)
  <2>1. CASE OnTaskDone(w)
    <3>1. /\ current[w] \in Tasks /\ current[w] \in created /\ current[w] # pending
          /\ current[w] \notin freed \cup notified
      BY <2>1
      DEF OnTaskDone, Notify, DispatcherInv, TypeOK, WorkerTypeOK, ThreadHasTask,
          Ownership, Separate, Reported
    <3>2. Status(current[w]) = "accepted"
      BY <3>1 DEF Status
    <3>3. \A t \in Tasks : Status(t)' = IF t = current[w] THEN "done" ELSE Status(t)
      BY <2>1, <3>1 DEF OnTaskDone, Notify, Status
    <3>4. Live' = Live /\ Phase # "dead" /\ Phase' = Phase
      BY <1>9, <2>1 DEF ThreadStep, OnTaskDone, Notify, Live, Phase
    <3>5. Pool!Move(current[w], "accepted", "done")
      <4> DEFINE st == [t \in Tasks |-> Status(t)]
      <4>1. st' = [st EXCEPT ![current[w]] = "done"]
        BY <3>1, <3>3
      <4> QED
        BY <3>1, <3>2, <3>4, <4>1 DEF Pool!Move, Live
    <3> QED
      BY <3>1, <3>4, <3>5 DEF Pool!Next, Pool!Complete
  <2>2. CASE DeleteTask(w) /\ UNCHANGED mainVars
    <3>1. /\ current[w] \in notified /\ created' = created /\ pending' = pending
          /\ notified' = notified /\ freed' = freed \cup {current[w]}
      BY <2>2 DEF DeleteTask, mainVars, Ownership, Reported
    <3>2. \A t \in Tasks : Status(t)' = Status(t)
      BY <3>1 DEF Status
    <3> QED
      BY <2>2, <3>2, Unseen DEF DeleteTask, mainVars, Live, Phase
  <2>3. ASSUME UNCHANGED <<obj, notified, freed, process, mainVars>>
        PROVE  [Pool!Next]_(Pool!vars)
    BY <2>3, Unseen DEF mainVars, Status, Phase, Live
  <2>4. CASE FinishWork(w) /\ UNCHANGED mainVars
    BY <2>3, <2>4 DEF FinishWork
  \* A thread that meets a half-destroyed object ends the process.
  <2>5. ASSUME process' = "crashed", Phase = "closing",
               UNCHANGED <<obj, notified, freed, mainVars>>
        PROVE  [Pool!Next]_(Pool!vars)
    <3>1. /\ \A t \in Tasks : Status(t)' = Status(t)
          /\ Live' = Live /\ Phase' = "dead"
      BY <2>5 DEF mainVars, Status, Live, Phase
    <3> QED
      BY <2>5, <3>1 DEF Pool!Next, Pool!Die, Live
  <2>6. wpc[w] \notin {"unborn", "exited"} /\ obj[w] # "alive" => Phase = "closing"
    BY <1>9
    DEF ThreadStep, Phase, DispatcherInv, PoolMembers, TypeOK, Ownership, Slots, Deleting
  <2>7. CASE CrashInWork(w) /\ UNCHANGED mainVars
    BY <2>5, <2>6, <2>7 DEF CrashInWork
  <2>8. CASE StartWork(w) /\ UNCHANGED mainVars
    BY <2>3, <2>5, <2>6, <2>8 DEF StartWork
  <2>9. CASE (LockMutex(w) \/ TestEnabled(w) \/ FallAsleep(w) \/ WakeToNothing(w))
             /\ UNCHANGED mainVars
    BY <2>3, <2>9 DEF LockMutex, TestEnabled, FallAsleep, WakeToNothing
  <2> QED
    BY <1>9, <2>1, <2>2, <2>4, <2>7, <2>8, <2>9 DEF ThreadStep, QuietStep, LoopStep
<1>10. ASSUME NEW w \in Workers, Interrupt(w)
       PROVE  [Pool!Next]_(Pool!vars)
  BY <1>10, Unseen DEF Interrupt, SpuriousWake, mainVars, Status, Phase, Live
<1>11. CASE UNCHANGED vars
  BY <1>11, Unseen DEF vars, workerVars, mainVars, Status, Phase, Live
<1> QED
  BY <1>1, <1>2, <1>3, <1>4, <1>5, <1>6, <1>7, <1>8, <1>9, <1>10, <1>11
  DEF Next, Call, MainStep, Stopped

\* The dispatcher, its semaphore and its workers' threads, with any number of
\* workers, do to each task only what the header promises: it is offered
\* alone, accepted while fewer tasks are accepted than there are workers, and
\* done or - only once the pool is being closed - discarded.  (That offers and
\* accepted tasks are settled is the fairness part of ImplementsTaskPool.)
THEOREM DispatcherIsPool == Spec => Pool!Init /\ [][Pool!Next]_(Pool!vars)
<1>1. Init => Pool!Init
  <2> SUFFICES ASSUME Init PROVE Pool!Init
    OBVIOUS
  <2>1. Live = {}
    BY DEF Init, WorkerInit, Live
  <2>2. \A t \in Tasks : Status(t) = "new"
    BY WorkerAssumption DEF Init, WorkerInit, Status
  <2>3. Phase = "open"
    BY DEF Init, WorkerInit, Phase
  <2> QED
    BY <2>1, <2>2, <2>3, FS_EmptySet DEF Pool!Init, Live
<1> QED
  BY <1>1, SpecInv, SpecOwnership, StepSimulation, PTL DEF Spec
==================================================================================
