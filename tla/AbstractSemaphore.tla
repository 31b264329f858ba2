---------------------------- MODULE AbstractSemaphore ----------------------------
(***************************************************************************)
(* What pckben::Semaphore (src/src/Semaphore.h) promises its callers: a    *)
(* counter, and threads that wait until they have taken one unit of it.    *)
(* The module Semaphore, which follows the mutex and the condition         *)
(* variable of src/src/Semaphore.cc, implements this specification, and    *)
(* the module TaskDispatcher uses a semaphore only through it: Wait is a   *)
(* step of its own guarded by counter > 0, Signal is one step.             *)
(***************************************************************************)
EXTENDS Naturals

CONSTANTS
    Threads,        \* the threads that call the semaphore
    InitialCount    \* the argument of the constructor

VARIABLES
    counter,        \* units available
    waiting         \* threads inside Wait() that have not yet taken a unit

vars == <<counter, waiting>>

Init ==
    /\ counter = InitialCount
    /\ waiting = {}

\* A thread calls Wait().
Enter(t) ==
    /\ t \notin waiting
    /\ waiting' = waiting \cup {t}
    /\ UNCHANGED counter

\* A waiting thread takes a unit: its Wait() returns.
Pass(t) ==
    /\ t \in waiting
    /\ counter > 0
    /\ counter' = counter - 1
    /\ waiting' = waiting \ {t}

\* A thread that is not inside Wait() adds a unit.
Signal(t) ==
    /\ t \notin waiting
    /\ counter' = counter + 1
    /\ UNCHANGED waiting

PassAny == \E t \in Threads : Pass(t)

Next ==
    \/ \E t \in Threads : Enter(t) \/ Signal(t)
    \/ PassAny

\* A unit is never left beside a waiting thread for ever.
Spec == Init /\ [][Next]_vars /\ WF_vars(PassAny)
=============================================================================
