-------------------------------- MODULE Semaphore --------------------------------
(***************************************************************************)
(* src/src/Semaphore.cc: a counting semaphore made of a pthread mutex      *)
(* (lock_), a condition variable (counter_cond_) and an int (counter_).    *)
(*                                                                         *)
(* A call is followed through its steps:                                   *)
(*   "lock"    in pthread_mutex_lock, or woken inside pthread_cond_wait    *)
(*             and taking the mutex back;                                  *)
(*   "body"    holding the mutex, at the statement that uses counter_;     *)
(*   "signal"  Signal() only: counter_ incremented, at the cond_signal;    *)
(*   "sleep"   Wait() only: asleep in pthread_cond_wait;                   *)
(*   "unlock"  at pthread_mutex_unlock.                                    *)
(* A waiter woken by cond_signal returns to "lock" and then to "body",     *)
(* where Wait() tests counter_ again: that is the while loop.              *)
(* The destructor is not modelled here: no caller may be inside a call     *)
(* when it runs (see SemaphoreOutlivesWorkers in TaskDispatcher).          *)
(***************************************************************************)
EXTENDS Naturals, FiniteSets

CONSTANTS
    Threads,        \* the calling threads
    NoThread,       \* the owner of a free mutex
    InitialCount,   \* the argument of the constructor
    MaxCalls        \* bound: calls made in one behaviour

ASSUME SemaphoreAssumption ==
    /\ IsFiniteSet(Threads)
    /\ NoThread \notin Threads
    /\ InitialCount \in Nat
    /\ MaxCalls \in Nat

VARIABLES
    counter,    \* counter_
    lock,       \* the owner of lock_
    pc,         \* where each thread is
    op,         \* the method each thread is in, or was last in
    calls       \* calls made so far (bounded by MaxCalls)

vars == <<counter, lock, pc, op, calls>>

Methods == {"Wait", "Signal", "GetValue"}
Places == {"idle", "lock", "body", "signal", "sleep", "unlock"}

Init ==
    /\ counter = InitialCount
    /\ lock = NoThread
    /\ pc = [t \in Threads |-> "idle"]
    /\ op = [t \in Threads |-> "GetValue"]
    /\ calls = 0

Sleeping == {t \in Threads : pc[t] = "sleep"}

-----------------------------------------------------------------------------

Call(t, m) ==
    /\ pc[t] = "idle"
    /\ calls < MaxCalls
    /\ calls' = calls + 1
    /\ pc' = [pc EXCEPT ![t] = "lock"]
    /\ op' = [op EXCEPT ![t] = m]
    /\ UNCHANGED <<counter, lock>>

\* pthread_mutex_lock succeeds, at the start of a method or inside cond_wait.
Lock(t) ==
    /\ pc[t] = "lock"
    /\ lock = NoThread
    /\ lock' = t
    /\ pc' = [pc EXCEPT ![t] = "body"]
    /\ UNCHANGED <<counter, op, calls>>

\* Mutant: Wait() does not test the counter.
HasUnit_NoTest == TRUE

\* The test of Wait()'s loop.
HasUnit == counter > 0

\* The loop test finds a unit: Wait() takes it.
TakeUnit(t) ==
    /\ pc[t] = "body" /\ op[t] = "Wait"
    /\ HasUnit
    /\ counter' = counter - 1
    /\ pc' = [pc EXCEPT ![t] = "unlock"]
    /\ UNCHANGED <<lock, op, calls>>

\* The loop test finds none: pthread_cond_wait releases the mutex and sleeps.
Sleep(t) ==
    /\ pc[t] = "body" /\ op[t] = "Wait"
    /\ ~HasUnit
    /\ lock' = NoThread
    /\ pc' = [pc EXCEPT ![t] = "sleep"]
    /\ UNCHANGED <<counter, op, calls>>

\* Mutant: cond_signal only when the counter leaves zero.
AfterAdd_OnZero == IF counter = 0 THEN "signal" ELSE "unlock"

AfterAdd == "signal"

AddUnit(t) ==
    /\ pc[t] = "body" /\ op[t] = "Signal"
    /\ counter' = counter + 1
    /\ pc' = [pc EXCEPT ![t] = AfterAdd]
    /\ UNCHANGED <<lock, op, calls>>

\* GetValue() copies the counter; the copy is stale once the mutex is free.
ReadValue(t) ==
    /\ pc[t] = "body" /\ op[t] = "GetValue"
    /\ pc' = [pc EXCEPT ![t] = "unlock"]
    /\ UNCHANGED <<counter, lock, op, calls>>

\* Mutant: the signal reaches no sleeping thread.
Wakeable_None == {}

Wakeable == Sleeping

\* pthread_cond_signal wakes one sleeping thread, if there is any.
CondSignal(t) ==
    /\ pc[t] = "signal"
    /\ \/ /\ Wakeable = {}
          /\ pc' = [pc EXCEPT ![t] = "unlock"]
       \/ \E s \in Wakeable :
              pc' = [pc EXCEPT ![t] = "unlock", ![s] = "lock"]
    /\ UNCHANGED <<counter, lock, op, calls>>

Unlock(t) ==
    /\ pc[t] = "unlock"
    /\ lock' = NoThread
    /\ pc' = [pc EXCEPT ![t] = "idle"]
    /\ UNCHANGED <<counter, op, calls>>

\* POSIX allows pthread_cond_wait to return without a signal.
SpuriousWake(t) ==
    /\ pc[t] = "sleep"
    /\ pc' = [pc EXCEPT ![t] = "lock"]
    /\ UNCHANGED <<counter, lock, op, calls>>

\* A step of a thread inside a call.
Step(t) ==
    \/ Lock(t)
    \/ TakeUnit(t)
    \/ Sleep(t)
    \/ AddUnit(t)
    \/ ReadValue(t)
    \/ CondSignal(t)
    \/ Unlock(t)

\* The bound is reached: threads are out of calls, or wait for a Signal()
\* nobody makes.
Terminated ==
    /\ calls = MaxCalls
    /\ \A t \in Threads : pc[t] \in {"idle", "sleep"}
    /\ UNCHANGED vars

Next ==
    \/ \E t \in Threads, m \in Methods : Call(t, m)
    \/ \E t \in Threads : Step(t) \/ SpuriousWake(t)
    \/ Terminated

\* Weak fairness is enough because calls are finite: a thread that loses the
\* mutex to others gets it once they are done.  Calls and spurious wake-ups
\* are not fair.
Spec == Init /\ [][Next]_vars /\ \A t \in Threads : WF_vars(Step(t))

-----------------------------------------------------------------------------
(* Properties.                                                             *)

\* counter_ is never negative, although several woken threads may run for
\* the same unit: the while loop of Wait() tests again under the mutex.
TypeOK ==
    /\ counter \in Nat
    /\ lock \in Threads \cup {NoThread}
    /\ pc \in [Threads -> Places]
    /\ op \in [Threads -> Methods]
    /\ calls \in 0 .. MaxCalls

\* Threads between the start of Wait() and the step that takes the unit.
Contenders == {t \in Threads : op[t] = "Wait" /\ pc[t] \in {"lock", "body"}}
Signalling == {t \in Threads : pc[t] = "signal"}

\* While some thread sleeps in Wait(), every available unit has an awake
\* taker: a thread on its way to the loop test, or a Signal() about to wake
\* one.  Signal() wakes a single thread per unit, and units can be taken by
\* threads that never slept; no interleaving strands a unit.
NoStrandedUnit ==
    Sleeping # {} =>
        counter <= Cardinality(Contenders) + Cardinality(Signalling)

\* A thread is inside Wait() until it takes its unit.
Waiting == {t \in Threads : op[t] = "Wait" /\ pc[t] \in {"lock", "body", "sleep"}}

\* Wait(), Signal() and GetValue() implement the counter that the header
\* promises: a Wait() returns only by taking a unit, each Signal() adds one,
\* and a unit is never left beside a waiting thread for ever.
Abstract == INSTANCE AbstractSemaphore WITH waiting <- Waiting
ImplementsAbstract == Abstract!Spec
==================================================================================
