----------------------------- MODULE SemaphoreProofs -----------------------------
(***************************************************************************)
(* Theorems about Semaphore for any finite set of threads, any initial     *)
(* count and any number of calls.  SemaphoreInv is the inductive           *)
(* invariant: the types, who holds the mutex (MutexHeld), and which method *)
(* a thread can be asleep in (SleepersWait).  NoStrandedUnit is inductive  *)
(* on top of it.                                                           *)
(***************************************************************************)
EXTENDS Semaphore, FiniteSetTheorems, TLAPS

\* The mutex is held by the one thread that is between lock and unlock, so
\* each statement on counter_ runs alone and Unlock frees the caller's own
\* mutex.
MutexHeld ==
    \A t \in Threads : pc[t] \in {"body", "signal", "unlock"} <=> lock = t

\* Only Wait() sleeps.
SleepersWait == \A t \in Sleeping : op[t] = "Wait"

SemaphoreInv == TypeOK /\ MutexHeld /\ SleepersWait

LEMMA InitInv == Init => SemaphoreInv
  BY SemaphoreAssumption
  DEF Init, SemaphoreInv, TypeOK, MutexHeld, SleepersWait, Sleeping, Methods, Places

LEMMA NextInv == SemaphoreInv /\ [Next]_vars => SemaphoreInv'
<1> SUFFICES ASSUME SemaphoreInv, [Next]_vars PROVE SemaphoreInv'
  OBVIOUS
<1> USE SemaphoreAssumption
<1> USE DEF SemaphoreInv, TypeOK, MutexHeld, SleepersWait, Sleeping, Methods, Places
<1>1. ASSUME NEW t \in Threads, NEW m \in Methods, Call(t, m) PROVE SemaphoreInv'
  BY <1>1 DEF Call
<1>2. ASSUME NEW t \in Threads, Lock(t) PROVE SemaphoreInv'
  BY <1>2 DEF Lock
<1>3. ASSUME NEW t \in Threads, TakeUnit(t) PROVE SemaphoreInv'
  BY <1>3 DEF TakeUnit, HasUnit
<1>4. ASSUME NEW t \in Threads, Sleep(t) PROVE SemaphoreInv'
  BY <1>4 DEF Sleep
<1>5. ASSUME NEW t \in Threads, AddUnit(t) PROVE SemaphoreInv'
  BY <1>5 DEF AddUnit, AfterAdd
<1>6. ASSUME NEW t \in Threads, ReadValue(t) PROVE SemaphoreInv'
  BY <1>6 DEF ReadValue
<1>7. ASSUME NEW t \in Threads, CondSignal(t) PROVE SemaphoreInv'
  BY <1>7 DEF CondSignal, Wakeable
<1>8. ASSUME NEW t \in Threads, Unlock(t) PROVE SemaphoreInv'
  BY <1>8 DEF Unlock
<1>9. ASSUME NEW t \in Threads, SpuriousWake(t) PROVE SemaphoreInv'
  BY <1>9 DEF SpuriousWake
<1>10. CASE UNCHANGED vars
  BY <1>10 DEF vars
<1> QED
  BY <1>1, <1>2, <1>3, <1>4, <1>5, <1>6, <1>7, <1>8, <1>9, <1>10
  DEF Next, Step, Terminated

\* The invariant holds in every reachable state.
LEMMA SpecInv == Spec => []SemaphoreInv
  BY InitInv, NextInv, PTL DEF Spec

\* The variables keep their types: above all counter_ is never negative,
\* although several woken threads may run for the same unit.
THEOREM TypeCorrect == Spec => []TypeOK
  BY SpecInv, PTL DEF SemaphoreInv

\* At most one thread is between pthread_mutex_lock and pthread_mutex_unlock
\* in any of the three methods, also when waiters come back from
\* pthread_cond_wait.
MutualExclusion ==
    \A s, t \in Threads :
        {pc[s], pc[t]} \subseteq {"body", "signal", "unlock"} => s = t

THEOREM OneThreadInside == Spec => []MutualExclusion
<1>1. SemaphoreInv => MutualExclusion
  BY DEF SemaphoreInv, MutexHeld, MutualExclusion
<1> QED
  BY <1>1, SpecInv, PTL

-----------------------------------------------------------------------------
(* No unit is stranded beside a sleeping thread.                           *)

LEMMA CountedSets ==
  /\ IsFiniteSet(Contenders) /\ Cardinality(Contenders) \in Nat
  /\ IsFiniteSet(Signalling) /\ Cardinality(Signalling) \in Nat
<1>1. IsFiniteSet(Contenders) /\ IsFiniteSet(Signalling)
  BY SemaphoreAssumption, FS_Subset DEF Contenders, Signalling
<1> QED
  BY <1>1, FS_CardinalityType

\* The same for the state after a step.
LEMMA CountedSetsNext ==
  /\ IsFiniteSet(Contenders') /\ Cardinality(Contenders') \in Nat
  /\ IsFiniteSet(Signalling') /\ Cardinality(Signalling') \in Nat
<1>1. Contenders' \in SUBSET Threads /\ Signalling' \in SUBSET Threads
  BY DEF Contenders, Signalling
<1>2. IsFiniteSet(Contenders') /\ IsFiniteSet(Signalling')
  BY <1>1, SemaphoreAssumption, FS_Subset
<1> QED
  BY <1>2, FS_CardinalityType

\* A step that adds no unit, puts nobody to sleep and loses no contender and
\* no signaller keeps the property.
LEMMA NothingLost ==
  ASSUME NoStrandedUnit, Sleeping' \subseteq Sleeping,
         counter \in Nat, counter' = counter,
         Contenders \subseteq Contenders', Signalling \subseteq Signalling'
  PROVE  NoStrandedUnit'
<1>1. Cardinality(Contenders) <= Cardinality(Contenders')
  BY CountedSetsNext, FS_Subset
<1>2. Cardinality(Signalling) <= Cardinality(Signalling')
  BY CountedSetsNext, FS_Subset
<1> QED
  BY <1>1, <1>2, CountedSets, CountedSetsNext DEF NoStrandedUnit

LEMMA NextNoStranded ==
  SemaphoreInv /\ NoStrandedUnit /\ [Next]_vars => NoStrandedUnit'
<1> SUFFICES ASSUME SemaphoreInv, NoStrandedUnit, [Next]_vars PROVE NoStrandedUnit'
  OBVIOUS
<1> USE SemaphoreAssumption DEF SemaphoreInv, TypeOK, Methods, Places
<1>1. ASSUME NEW t \in Threads, NEW m \in Methods, Call(t, m) PROVE NoStrandedUnit'
  BY <1>1, NothingLost DEF Call, Sleeping, Contenders, Signalling
<1>2. ASSUME NEW t \in Threads, Lock(t) PROVE NoStrandedUnit'
  BY <1>2, NothingLost DEF Lock, Sleeping, Contenders, Signalling
\* One unit and one contender fewer.
<1>3. ASSUME NEW t \in Threads, TakeUnit(t) PROVE NoStrandedUnit'
  <2>1. t \in Contenders /\ Contenders' = Contenders \ {t}
    BY <1>3 DEF TakeUnit, Contenders
  <2>2. Cardinality(Contenders') = Cardinality(Contenders) - 1
    BY <2>1, CountedSets, FS_RemoveElement
  <2>3. Sleeping' = Sleeping /\ Signalling' = Signalling
    BY <1>3 DEF TakeUnit, Sleeping, Signalling
  <2>4. counter > 0 /\ counter' = counter - 1
    BY <1>3 DEF TakeUnit, HasUnit
  <2> QED
    BY <2>2, <2>3, <2>4, CountedSets DEF NoStrandedUnit
\* Nobody goes to sleep beside a unit.
<1>4. ASSUME NEW t \in Threads, Sleep(t) PROVE NoStrandedUnit'
  BY <1>4, CountedSetsNext DEF Sleep, HasUnit, NoStrandedUnit
\* One unit and one signaller more.
<1>5. ASSUME NEW t \in Threads, AddUnit(t) PROVE NoStrandedUnit'
  <2>1. t \notin Signalling /\ Signalling' = Signalling \cup {t}
    BY <1>5 DEF AddUnit, AfterAdd, Signalling
  <2>2. Cardinality(Signalling') = Cardinality(Signalling) + 1
    BY <2>1, CountedSets, FS_AddElement
  <2>3. Sleeping' = Sleeping /\ Contenders' = Contenders
    BY <1>5 DEF AddUnit, AfterAdd, Sleeping, Contenders
  <2>4. counter' = counter + 1
    BY <1>5 DEF AddUnit
  <2> QED
    BY <2>2, <2>3, <2>4, CountedSets DEF NoStrandedUnit
<1>6. ASSUME NEW t \in Threads, ReadValue(t) PROVE NoStrandedUnit'
  BY <1>6, NothingLost DEF ReadValue, Sleeping, Contenders, Signalling
\* A signaller becomes idle and makes a sleeper a contender.
<1>7. ASSUME NEW t \in Threads, CondSignal(t) PROVE NoStrandedUnit'
  <2>1. CASE Sleeping = {}
    BY <1>7, <2>1 DEF CondSignal, Wakeable, Sleeping, NoStrandedUnit
  <2>2. ASSUME NEW s \in Sleeping,
               pc' = [pc EXCEPT ![t] = "unlock", ![s] = "lock"]
        PROVE  NoStrandedUnit'
    <3>1. s \in Threads /\ op[s] = "Wait" /\ pc[s] = "sleep" /\ pc[t] = "signal"
      BY <1>7 DEF CondSignal, SleepersWait, Sleeping
    <3>2. s \notin Contenders /\ Contenders' = Contenders \cup {s}
      BY <1>7, <2>2, <3>1 DEF CondSignal, Contenders
    <3>3. t \in Signalling /\ Signalling' = Signalling \ {t}
      BY <2>2, <3>1 DEF Signalling
    <3>4. Cardinality(Contenders') = Cardinality(Contenders) + 1
      BY <3>2, CountedSets, FS_AddElement
    <3>5. Cardinality(Signalling') = Cardinality(Signalling) - 1
      BY <3>3, CountedSets, FS_RemoveElement
    <3> QED
      BY <1>7, <3>4, <3>5, CountedSets DEF CondSignal, NoStrandedUnit
  <2> QED
    BY <1>7, <2>1, <2>2 DEF CondSignal, Wakeable
<1>8. ASSUME NEW t \in Threads, Unlock(t) PROVE NoStrandedUnit'
  BY <1>8, NothingLost DEF Unlock, Sleeping, Contenders, Signalling
<1>9. ASSUME NEW t \in Threads, SpuriousWake(t) PROVE NoStrandedUnit'
  BY <1>9, NothingLost DEF SpuriousWake, Sleeping, Contenders, Signalling
<1>10. CASE UNCHANGED vars
  BY <1>10, NothingLost DEF vars, Sleeping, Contenders, Signalling
<1> QED
  BY <1>1, <1>2, <1>3, <1>4, <1>5, <1>6, <1>7, <1>8, <1>9, <1>10
  DEF Next, Step, Terminated

\* While some thread sleeps in Wait(), every unit has a thread on its way to
\* take it or a Signal() about to wake one, in every interleaving of any
\* number of callers.
THEOREM UnitsHaveTakers == Spec => []NoStrandedUnit
<1>1. Init => NoStrandedUnit
  BY DEF Init, NoStrandedUnit, Sleeping
<1> QED
  BY <1>1, SpecInv, NextNoStranded, PTL DEF Spec

-----------------------------------------------------------------------------
(* The steps of Semaphore.cc are steps of the counter the header promises. *)

\* A call of Wait() enters, the step that decrements counter_ passes, the
\* step that increments it signals; every other step is invisible.
LEMMA StepSimulation ==
  SemaphoreInv /\ [Next]_vars => [Abstract!Next]_(Abstract!vars)
<1> SUFFICES ASSUME SemaphoreInv, [Next]_vars
             PROVE  [Abstract!Next]_(Abstract!vars)
  OBVIOUS
<1> USE DEF SemaphoreInv, TypeOK, Methods, Places
<1>0. ASSUME counter' = counter, Waiting' = Waiting
      PROVE  [Abstract!Next]_(Abstract!vars)
  BY <1>0 DEF Abstract!vars
<1>1. ASSUME NEW t \in Threads, NEW m \in Methods, Call(t, m)
      PROVE  [Abstract!Next]_(Abstract!vars)
  <2>1. CASE m = "Wait"
    <3>1. t \notin Waiting /\ Waiting' = Waiting \cup {t}
      BY <1>1, <2>1 DEF Call, Waiting
    <3> QED
      BY <1>1, <3>1 DEF Call, Abstract!Next, Abstract!Enter
  <2>2. CASE m # "Wait"
    <3>1. Waiting' = Waiting
      BY <1>1, <2>2 DEF Call, Waiting
    <3> QED
      BY <1>1, <3>1, <1>0 DEF Call
  <2> QED
    BY <2>1, <2>2
<1>2. ASSUME NEW t \in Threads, Lock(t) PROVE [Abstract!Next]_(Abstract!vars)
  BY <1>2, <1>0 DEF Lock, Waiting
<1>3. ASSUME NEW t \in Threads, TakeUnit(t) PROVE [Abstract!Next]_(Abstract!vars)
  <2>1. t \in Waiting /\ Waiting' = Waiting \ {t}
    BY <1>3 DEF TakeUnit, Waiting
  <2> QED
    BY <1>3, <2>1
    DEF TakeUnit, HasUnit, Abstract!Next, Abstract!PassAny, Abstract!Pass
<1>4. ASSUME NEW t \in Threads, Sleep(t) PROVE [Abstract!Next]_(Abstract!vars)
  BY <1>4, <1>0 DEF Sleep, Waiting
<1>5. ASSUME NEW t \in Threads, AddUnit(t) PROVE [Abstract!Next]_(Abstract!vars)
  <2>1. t \notin Waiting /\ Waiting' = Waiting
    BY <1>5 DEF AddUnit, AfterAdd, Waiting
  <2> QED
    BY <1>5, <2>1 DEF AddUnit, Abstract!Next, Abstract!Signal
<1>6. ASSUME NEW t \in Threads, ReadValue(t) PROVE [Abstract!Next]_(Abstract!vars)
  BY <1>6, <1>0 DEF ReadValue, Waiting
<1>7. ASSUME NEW t \in Threads, CondSignal(t) PROVE [Abstract!Next]_(Abstract!vars)
  <2>1. Waiting' = Waiting
    BY <1>7 DEF CondSignal, Wakeable, Sleeping, SleepersWait, Waiting
  <2> QED
    BY <1>7, <2>1, <1>0 DEF CondSignal
<1>8. ASSUME NEW t \in Threads, Unlock(t) PROVE [Abstract!Next]_(Abstract!vars)
  BY <1>8, <1>0 DEF Unlock, Waiting
<1>9. ASSUME NEW t \in Threads, SpuriousWake(t) PROVE [Abstract!Next]_(Abstract!vars)
  <2>1. Waiting' = Waiting
    BY <1>9 DEF SpuriousWake, SleepersWait, Sleeping, Waiting
  <2> QED
    BY <1>9, <2>1, <1>0 DEF SpuriousWake
<1>10. CASE UNCHANGED vars
  BY <1>10, <1>0 DEF vars, Waiting
<1> QED
  BY <1>1, <1>2, <1>3, <1>4, <1>5, <1>6, <1>7, <1>8, <1>9, <1>10
  DEF Next, Step, Terminated

\* The mutex, the condition variable and the int behave as the atomic counter
\* of Semaphore.h: Wait() returns only by taking a unit that was there,
\* Signal() adds exactly one.  (That a unit is never left for ever is the
\* fairness part of ImplementsAbstract.)
THEOREM CounterIsAtomic ==
  Spec => Abstract!Init /\ [][Abstract!Next]_(Abstract!vars)
<1>1. Init => Abstract!Init
  BY DEF Init, Abstract!Init, Waiting
<1> QED
  BY <1>1, SpecInv, StepSimulation, PTL DEF Spec
==================================================================================
