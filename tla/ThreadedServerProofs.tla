--------------------------- MODULE ThreadedServerProofs ---------------------------
(***************************************************************************)
(* Theorems about ThreadedServer, for any number of workers, connections   *)
(* and clients that hang up: every connection is in one place              *)
(* (ConnectionAccounting), and what is sent on it is the message that came *)
(* on it (AnswerIsOwn).                                                    *)
(*                                                                         *)
(* What TaskDispatcherProofs proves of the dispatcher is taken over: a     *)
(* step of the server is one of the dispatcher, leaves it alone, or ends   *)
(* the process (DispatcherSteps).                                          *)
(***************************************************************************)
EXTENDS ThreadedServer, SequenceTheorems, FiniteSetTheorems, TLAPS

\* The dispatcher's theorems.
DP == INSTANCE TaskDispatcherProofs

LEMMA DispatcherAssumptions == DP!WorkerAssumption /\ DP!DispatcherAssumption
<1>1. DP!IsFiniteSet(Workers)
  BY ServerAssumption DEF IsFiniteSet, DP!IsFiniteSet
<1> QED
  BY <1>1, ServerAssumption DEF DP!WorkerAssumption, DP!DispatcherAssumption

\* exit(1): nothing else changes in the dispatcher.
ProcessEnds ==
    /\ process' = "exited"
    /\ UNCHANGED <<wpc, obj, enabled, task, current, notified, freed, poolVars>>

-----------------------------------------------------------------------------
(* The steps of the server, as the dispatcher sees them.                   *)

\* The main thread's steps.
LEMMA MainThreadSteps ==
  /\ D!AddWorker => DP!AddWorker
  /\ \A t : D!Dispatch(t) => DP!Dispatch(t)
  /\ D!PassSemaphore => DP!PassSemaphore
  /\ D!AssignTask => DP!AssignTask
  /\ D!SkipWorker => DP!SkipWorker
  /\ D!AssertionFails => DP!AssertionFails
<1> USE DEF D!workerVars, DP!workerVars, D!mainVars, DP!mainVars
<1>1. D!AddWorker => DP!AddWorker
  BY DEF D!AddWorker, D!Construct, DP!AddWorker, DP!Construct
<1>2. \A t : D!Dispatch(t) => DP!Dispatch(t)
  BY DEF D!Dispatch, DP!Dispatch
<1>3. D!PassSemaphore => DP!PassSemaphore
  BY DEF D!PassSemaphore, D!UnitTaken, DP!PassSemaphore, DP!UnitTaken
<1>4. D!AssignTask => DP!AssignTask
  BY DEF D!AssignTask, D!Assign, D!CanAssign, D!MutexFree, D!Woken,
         DP!AssignTask, DP!Assign, DP!CanAssign, DP!MutexFree, DP!Woken
<1>5. D!SkipWorker => DP!SkipWorker
  BY DEF D!SkipWorker, D!CanAssign, D!MutexFree, DP!SkipWorker, DP!CanAssign, DP!MutexFree
<1>6. D!AssertionFails => DP!AssertionFails
  BY DEF D!AssertionFails, DP!AssertionFails
<1> QED
  BY <1>1, <1>2, <1>3, <1>4, <1>5, <1>6

\* The workers' steps.
LEMMA WorkerSteps ==
  ASSUME NEW w
  PROVE  /\ D!LoopStep(w) => DP!LoopStep(w)
         /\ D!FinishWork(w) => DP!FinishWork(w)
         /\ D!OnTaskDone(w) => DP!OnTaskDone(w)
         /\ D!Interrupt(w) => DP!Interrupt(w)
<1>1. D!LoopStep(w) => DP!LoopStep(w)
  BY DEF D!LoopStep, D!LockMutex, D!TestEnabled, D!FallAsleep, D!WakeToNothing,
         D!StartWork, D!DeleteTask,
         DP!LoopStep, DP!LockMutex, DP!TestEnabled, DP!FallAsleep, DP!WakeToNothing,
         DP!StartWork, DP!DeleteTask
<1>2. D!FinishWork(w) => DP!FinishWork(w)
  BY DEF D!FinishWork, D!Cleared, D!Finished, DP!FinishWork, DP!Cleared, DP!Finished
<1>3. D!OnTaskDone(w) => DP!OnTaskDone(w)
  BY DEF D!OnTaskDone, D!Notify, D!UnitBack, DP!OnTaskDone, DP!Notify, DP!UnitBack
<1>4. D!Interrupt(w) => DP!Interrupt(w)
  BY DEF D!Interrupt, D!SpuriousWake, D!mainVars, DP!Interrupt, DP!SpuriousWake, DP!mainVars
<1> QED
  BY <1>1, <1>2, <1>3, <1>4

LEMMA DispatcherSteps ==
  ASSUME backlog \in Seq(Tasks), [Next]_vars
  PROVE  [DP!Next]_(DP!vars) \/ ProcessEnds
<1> USE DEF dispatcherVars, poolVars, DP!vars, DP!workerVars, DP!mainVars
<1>1. CASE ServerStep
  <2>1. CASE CreateWorkers
    BY <1>1, <2>1, MainThreadSteps DEF ServerStep, CreateWorkers, DP!Next, DP!Call
  <2>2. CASE Listen
    BY <2>2 DEF Listen
  <2>3. CASE ListenFails \/ AcceptFails
    BY <2>3 DEF ListenFails, AcceptFails, ExitProcess, ProcessEnds
  <2>4. CASE Accept
    <3>1. Head(backlog) \in Tasks
      BY <2>4, EmptySeq DEF Accept
    <3> QED
      BY <1>1, <2>4, <3>1, MainThreadSteps DEF ServerStep, Accept, DP!Next, DP!Call
  <2>5. CASE DispatchStep
    BY <1>1, <2>5, MainThreadSteps DEF ServerStep, DispatchStep, DP!Next, DP!MainStep
  <2> QED
    BY <1>1, <2>1, <2>2, <2>3, <2>4, <2>5 DEF ServerStep
<1>2. ASSUME NEW w \in Workers, ThreadStep(w)
      PROVE  [DP!Next]_(DP!vars) \/ ProcessEnds
  <2>1. CASE Receive(w) \/ Send(w)
    BY <2>1 DEF Receive, Send
  <2>5. CASE ReceiveFails(w) \/ SendFails(w)
    BY <2>5 DEF ReceiveFails, SendFails, ExitProcess, ProcessEnds
  <2>2. CASE WorkReturns(w)
    BY <1>2, <2>2, WorkerSteps
    DEF ThreadStep, WorkReturns, DP!Next, DP!ThreadStep, DP!QuietStep
  <2>3. CASE D!LoopStep(w) /\ UNCHANGED <<poolVars, netVars>>
    BY <1>2, <2>3, WorkerSteps DEF ThreadStep, DP!Next, DP!ThreadStep, DP!QuietStep
  <2>4. CASE D!OnTaskDone(w)
    BY <1>2, <2>4, WorkerSteps DEF ThreadStep, DP!Next, DP!ThreadStep
  <2> QED
    BY <1>2, <2>1, <2>2, <2>3, <2>4, <2>5 DEF ThreadStep
<1>3. ASSUME NEW w \in Workers, Interrupt(w)
      PROVE  [DP!Next]_(DP!vars)
  BY <1>3, WorkerSteps DEF Interrupt, DP!Next
<1>4. ASSUME NEW c \in Tasks, ClientStep(c)
      PROVE  [DP!Next]_(DP!vars)
  BY <1>4 DEF ClientStep, Connect, SendRequest, ReceiveReply, HangUp
<1>5. CASE Stopped \/ UNCHANGED vars
  BY <1>5 DEF Stopped, vars
<1> QED
  BY <1>1, <1>2, <1>3, <1>4, <1>5 DEF Next
-----------------------------------------------------------------------------
(* Connections.                                                            *)

NetTypes ==
    /\ backlog \in Seq(Tasks)
    /\ client \in [Tasks -> {"out", "connected", "sent", "hung_up", "answered"}]

\* A connection waits once in the queue, until it is accepted.
Queued ==
    /\ \A i \in 1 .. Len(backlog) :
          backlog[i] \notin created /\ client[backlog[i]] # "out"
    /\ \A i, j \in 1 .. Len(backlog) : backlog[i] = backlog[j] => i = j
    /\ \A c \in created : client[c] # "out"
    /\ \A c \in Tasks : client[c] # "out" =>
          c \in created \/ \E i \in 1 .. Len(backlog) : backlog[i] = c

\* No descriptor is closed, no worker deleted, and so no task but after Done().
Kept ==
    /\ fds = created
    /\ freed \subseteq notified
    /\ main \notin {"deleting", "deleted"}

NetInv == NetTypes /\ Queued /\ Kept

DispatcherInvs == DP!DispatcherInv /\ DP!Ownership /\ DP!PermitAccounting

-----------------------------------------------------------------------------
(* Messages.                                                               *)

Replies == {<<>>} \cup {Message(c) : c \in Tasks}

Bytes == (Tasks \cup {NoTask}) \X (1 .. MessageLength)

MessageTypes ==
    /\ unread \in [Tasks -> 0 .. MessageLength]
    /\ reply \in [Tasks -> Replies]
    /\ stage \in [Workers -> {"receive", "send", "return"}]
    /\ received \in [Workers -> 0 .. MessageLength]
    /\ msg \in [Workers -> [1 .. MessageLength -> Bytes]]

\* Connections on which no Work() has begun: Dispatch has not been called,
\* it has the connection, or the worker's thread has not started on it.
Fresh(c) ==
    c \notin created \/ c = pending \/ \E w \in Workers : task[w] = c /\ wpc[w] # "work"

\* A Work() that receives has the bytes that are missing from the connection
\* (all of it is still to come before the client has sent it), and one that
\* sends has the whole message of its connection.
Serving(w) ==
    /\ stage[w] = "receive" =>
          /\ received[w] < MessageLength
          /\ \/ unread[task[w]] = MessageLength - received[w]
             \/ unread[task[w]] = 0 /\ received[w] = 0
          /\ \A k \in 1 .. received[w] : msg[w][k] = <<task[w], k>>
    /\ stage[w] = "send" => msg[w] = Message(task[w])
    /\ stage[w] \in {"receive", "send"} => reply[task[w]] = <<>>

MessageInv ==
    /\ MessageTypes
    /\ \A c \in Tasks : client[c] \in {"out", "connected"} => unread[c] = 0
    /\ \A c \in Tasks : Fresh(c) => reply[c] = <<>> /\ unread[c] \in {0, MessageLength}
    /\ \A w \in Workers : IF wpc[w] = "work" THEN Serving(w)
                          ELSE stage[w] = "receive" /\ received[w] = 0
    /\ AnswerIsOwn

ServerInv == DispatcherInvs /\ NetInv /\ MessageInv

LEMMA NextDispatcherInvs ==
  ASSUME backlog \in Seq(Tasks), DispatcherInvs, [Next]_vars
  PROVE  DispatcherInvs'
<1>1. CASE [DP!Next]_(DP!vars)
  BY <1>1, DispatcherAssumptions, DP!NextInv, DP!NextOwnership, DP!NextPermits
  DEF DispatcherInvs
<1>2. CASE ProcessEnds
  <2>1. DP!DispatcherInv'
    BY <1>2
    DEF ProcessEnds, poolVars, DispatcherInvs, DP!DispatcherInv, DP!TypeOK, DP!WorkerTypeOK,
        DP!ThreadHasTask, DP!DestructorOrder, DP!PoolMembers, DP!PendingTask, DP!Deleting
  <2>2. DP!Ownership'
    BY <1>2
    DEF ProcessEnds, poolVars, DispatcherInvs, DP!Ownership, DP!Slots, DP!Separate,
        DP!Kept, DP!Reported, DP!Deleting
  <2>3. DP!PermitAccounting'
    BY <1>2
    DEF ProcessEnds, poolVars, DispatcherInvs, DP!PermitAccounting, DP!Permits,
        DP!FreeWorkers, DP!Free
  <2> QED
    BY <2>1, <2>2, <2>3 DEF DispatcherInvs
<1> QED
  BY <1>1, <1>2, DispatcherSteps

LEMMA InitInv == Init => ServerInv
<1> SUFFICES ASSUME Init PROVE ServerInv
  OBVIOUS
<1>1. DP!Init
  BY DEF Init, D!Init, DP!Init, D!WorkerInit, DP!WorkerInit
<1>2. DispatcherInvs
  BY <1>1, DispatcherAssumptions, DP!InitInv, DP!InitOwnership, DP!InitPermits
  DEF DispatcherInvs
<1>3. NetInv
  BY EmptySeq DEF Init, D!Init, D!WorkerInit, NetInv, NetTypes, Queued, Kept
<1>4. MessageInv
  BY ServerAssumption
  DEF Init, D!Init, D!WorkerInit, MessageInv, MessageTypes, Replies, Bytes, NoMessage,
      AnswerIsOwn
<1> QED
  BY <1>2, <1>3, <1>4 DEF ServerInv

\* Accept moves the front of the queue to Dispatch.
LEMMA AcceptInv ==
  ASSUME ServerInv, Accept
  PROVE  NetInv'
<1> USE DEF ServerInv, NetInv, NetTypes
<1>1. /\ backlog # <<>> /\ backlog' = Tail(backlog)
      /\ created' = created \cup {Head(backlog)}
      /\ fds' = fds \cup {Head(backlog)}
      /\ main' = "wait"
      /\ UNCHANGED <<freed, notified, client>>
  BY DEF Accept, D!Dispatch, D!workerVars
<1>2. /\ Len(backlog) \in Nat /\ Len(backlog) > 0 /\ Head(backlog) = backlog[1]
      /\ backlog' \in Seq(Tasks) /\ Len(backlog') = Len(backlog) - 1
      /\ \A i \in 1 .. Len(backlog') : backlog'[i] = backlog[i + 1]
  BY <1>1, EmptySeq, HeadTailProperties
<1>3. Queued'
  <2>1. \A i \in 1 .. Len(backlog') :
          backlog'[i] \notin created' /\ client'[backlog'[i]] # "out"
    BY <1>1, <1>2 DEF Queued
  <2>2. ASSUME NEW i \in 1 .. Len(backlog'), NEW j \in 1 .. Len(backlog'),
               backlog'[i] = backlog'[j]
        PROVE  i = j
    <3>1. i + 1 \in 1 .. Len(backlog) /\ j + 1 \in 1 .. Len(backlog)
      BY <1>2
    <3>2. backlog[i + 1] = backlog[j + 1]
      BY <1>2, <2>2
    <3>3. i + 1 = j + 1
      BY <3>1, <3>2 DEF Queued
    <3> QED
      BY <3>3
  <2>3. \A c \in created' : client'[c] # "out"
    BY <1>1, <1>2 DEF Queued
  <2>4. ASSUME NEW c \in Tasks, client'[c] # "out", c \notin created'
        PROVE  \E i \in 1 .. Len(backlog') : backlog'[i] = c
    <3>1. PICK i \in 1 .. Len(backlog) : backlog[i] = c
      BY <1>1, <2>4 DEF Queued
    <3>2. i # 1
      BY <1>1, <1>2, <2>4, <3>1
    <3>3. i - 1 \in 1 .. Len(backlog') /\ backlog'[i - 1] = c
      BY <1>2, <3>1, <3>2
    <3> QED
      BY <3>3
  <2> QED
    BY <2>1, <2>2, <2>3, <2>4 DEF Queued
<1>4. NetTypes' /\ Kept'
  BY <1>1, <1>2 DEF Kept
<1> QED
  BY <1>3, <1>4

\* A client enters the queue at its back.
LEMMA ConnectInv ==
  ASSUME ServerInv, NEW c \in Tasks, Connect(c)
  PROVE  NetInv'
<1> USE DEF ServerInv, NetInv, NetTypes
<1>1. /\ client[c] = "out" /\ client' = [client EXCEPT ![c] = "connected"]
      /\ backlog' = Append(backlog, c)
      /\ UNCHANGED <<created, freed, notified, main, fds>>
  BY DEF Connect, dispatcherVars, poolVars
<1>2. /\ Len(backlog) \in Nat
      /\ backlog' \in Seq(Tasks) /\ Len(backlog') = Len(backlog) + 1
      /\ \A i \in 1 .. Len(backlog) : backlog'[i] = backlog[i]
      /\ backlog'[Len(backlog) + 1] = c
  BY <1>1, EmptySeq, AppendProperties
<1>3. Queued'
  <2>1. c \notin created /\ \A i \in 1 .. Len(backlog) : backlog[i] # c
    BY <1>1 DEF Queued
  <2>2. \A i \in 1 .. Len(backlog') : i \in 1 .. Len(backlog) \/ i = Len(backlog) + 1
    BY <1>2
  <2>3. \A i \in 1 .. Len(backlog') :
          backlog'[i] \notin created' /\ client'[backlog'[i]] # "out"
    BY <1>1, <1>2, <2>1, <2>2 DEF Queued
  <2>4. \A i, j \in 1 .. Len(backlog') : backlog'[i] = backlog'[j] => i = j
    BY <1>2, <2>1, <2>2 DEF Queued
  <2>5. \A d \in created' : client'[d] # "out"
    BY <1>1, <2>1 DEF Queued
  <2>6. \A d \in Tasks : client'[d] # "out" =>
          d \in created' \/ \E i \in 1 .. Len(backlog') : backlog'[i] = d
    BY <1>1, <1>2 DEF Queued
  <2> QED
    BY <2>3, <2>4, <2>5, <2>6 DEF Queued
<1>4. NetTypes' /\ Kept'
  BY <1>1, <1>2 DEF Kept
<1> QED
  BY <1>3, <1>4

\* The dispatcher and the workers work without the queue.
LEMMA DispatchInv ==
  ASSUME ServerInv, UNCHANGED acceptVars, client' = client, created' = created,
         freed' \subseteq notified', main' \notin {"deleting", "deleted"}
  PROVE  NetInv'
BY DEF ServerInv, NetInv, NetTypes, Queued, Kept, acceptVars

LEMMA NextNetInv ==
  ASSUME ServerInv, [Next]_vars
  PROVE  NetInv'
<1> USE DEF poolVars, netVars
<1>1. CASE ServerStep
  <2>1. CASE CreateWorkers
    BY <2>1, DispatchInv DEF CreateWorkers, D!AddWorker, D!Construct, ServerInv, NetInv, Kept
  <2>2. CASE Listen
    BY <2>2 DEF Listen, dispatcherVars, ServerInv, NetInv, NetTypes, Queued, Kept
  <2>3. CASE ListenFails \/ AcceptFails
    BY <2>3, DispatchInv DEF ListenFails, AcceptFails, ExitProcess, ServerInv, NetInv, Kept
  <2>4. CASE Accept
    BY <2>4, AcceptInv
  <2>5. CASE DispatchStep
    <3>1. /\ UNCHANGED netVars /\ created' = created
          /\ freed' = freed /\ notified' = notified
          /\ main' = main \/ main' \in {"assign", "idle"}
      BY <2>5
      DEF DispatchStep, D!PassSemaphore, D!AssignTask, D!Assign, D!SkipWorker,
          D!AssertionFails, D!workerVars, D!mainVars
    <3> QED
      BY <3>1, DispatchInv DEF ServerInv, NetInv, Kept
  <2> QED
    BY <1>1, <2>1, <2>2, <2>3, <2>4, <2>5 DEF ServerStep
<1>2. ASSUME NEW w \in Workers, ThreadStep(w) PROVE NetInv'
  <2>1. CASE Receive(w) \/ Send(w)
    BY <2>1, DispatchInv DEF Receive, Send, dispatcherVars, ServerInv, NetInv, Kept
  <2>2. CASE ReceiveFails(w) \/ SendFails(w)
    BY <2>2, DispatchInv DEF ReceiveFails, SendFails, ExitProcess, ServerInv, NetInv, Kept
  <2>3. CASE WorkReturns(w)
    BY <2>3, DispatchInv DEF WorkReturns, D!FinishWork, ServerInv, NetInv, Kept
  <2>4. CASE D!LoopStep(w) /\ UNCHANGED <<poolVars, netVars>>
    <3>1. wpc[w] = "delete" => current[w] \in notified
      BY DEF ServerInv, DispatcherInvs, DP!Ownership, DP!Reported
    <3>2. freed' \subseteq notified' /\ main' = main /\ created' = created
      BY <2>4, <3>1
      DEF D!LoopStep, D!LockMutex, D!TestEnabled, D!FallAsleep, D!WakeToNothing,
          D!StartWork, D!DeleteTask, ServerInv, NetInv, Kept
    <3> QED
      BY <2>4, <3>2, DispatchInv DEF ServerInv, NetInv, Kept
  <2>5. CASE D!OnTaskDone(w) /\ UNCHANGED netVars
    BY <2>5, DispatchInv DEF D!OnTaskDone, D!Notify, ServerInv, NetInv, Kept
  <2> QED
    BY <1>2, <2>1, <2>2, <2>3, <2>4, <2>5 DEF ThreadStep
<1>3. ASSUME NEW w \in Workers, Interrupt(w) PROVE NetInv'
  BY <1>3, DispatchInv
  DEF Interrupt, D!Interrupt, D!SpuriousWake, D!mainVars, ServerInv, NetInv, Kept
<1>4. ASSUME NEW c \in Tasks, ClientStep(c) PROVE NetInv'
  <2>1. CASE Connect(c)
    BY <2>1, ConnectInv
  <2>2. CASE SendRequest(c) \/ ReceiveReply(c) \/ HangUp(c)
    <3>1. /\ UNCHANGED <<backlog, fds, created, freed, notified, main>>
          /\ client[c] \in {"connected", "sent"}
          /\ \E to \in {"sent", "answered", "hung_up"} : client' = [client EXCEPT ![c] = to]
      BY <2>2 DEF SendRequest, ReceiveReply, HangUp, dispatcherVars, acceptVars
    <3>2. NetTypes' /\ Queued' /\ Kept'
      BY <3>1 DEF ServerInv, NetInv, NetTypes, Queued, Kept
    <3> QED
      BY <3>2 DEF NetInv
  <2> QED
    BY <1>4, <2>1, <2>2 DEF ClientStep
<1>5. CASE Stopped \/ UNCHANGED vars
  BY <1>5, DispatchInv DEF Stopped, vars, dispatcherVars, ServerInv, NetInv, Kept
<1> QED
  BY <1>1, <1>2, <1>3, <1>4, <1>5 DEF Next

-----------------------------------------------------------------------------
(* What is received and sent.                                              *)

\* A worker inside Work() has a connection, no other has it, and it is no
\* longer fresh.
LEMMA OneServer ==
  ASSUME ServerInv, NEW w \in Workers, wpc[w] = "work"
  PROVE  /\ task[w] \in Tasks
         /\ ~Fresh(task[w])
         /\ \A v \in Workers : task[v] = task[w] => v = w
<1>1. task[w] \in Tasks
  BY DEF ServerInv, DispatcherInvs, DP!DispatcherInv, DP!ThreadHasTask
<1>2. task[w] # NoTask
  BY <1>1, ServerAssumption
<1>3. task[w] \in created /\ task[w] # pending
  BY <1>2 DEF ServerInv, DispatcherInvs, DP!Ownership, DP!Separate
<1>4. \A v \in Workers : task[v] = task[w] => v = w
  BY <1>2 DEF ServerInv, DispatcherInvs, DP!Ownership, DP!Separate
<1> QED
  BY <1>1, <1>3, <1>4 DEF Fresh

\* The dispatcher moves connections between main thread and workers without
\* a byte being received or sent.
LEMMA BytesStay ==
  ASSUME ServerInv,
         UNCHANGED <<unread, reply, workVars>>,
         \A c \in Tasks : client'[c] \in {"out", "connected"}
                              => client[c] \in {"out", "connected"},
         \A c \in Tasks : Fresh(c)' => Fresh(c),
         \A w \in Workers : (wpc'[w] = "work") = (wpc[w] = "work"),
         \A w \in Workers : wpc[w] = "work" => task'[w] = task[w]
  PROVE  MessageInv'
BY DEF ServerInv, MessageInv, MessageTypes, Serving, AnswerIsOwn, workVars

\* Work() begins on a fresh connection.
LEMMA StartInv ==
  ASSUME ServerInv, NEW w \in Workers, D!StartWork(w), UNCHANGED <<poolVars, netVars>>
  PROVE  MessageInv'
<1> USE DEF ServerInv, MessageInv, poolVars, netVars, workVars
<1>1. CASE wpc' = wpc
  BY <1>1, BytesStay DEF D!StartWork, Fresh
<1>2. CASE wpc' = [wpc EXCEPT ![w] = "work"]
  <2>1. task[w] \in Tasks /\ task' = task /\ wpc[w] # "work"
    BY ServerAssumption
    DEF D!StartWork, DispatcherInvs, DP!DispatcherInv, DP!TypeOK, DP!WorkerTypeOK
  <2>2. \A v \in Workers : v # w => wpc'[v] = wpc[v]
    BY <1>2
  <2>3. wpc \in [Workers -> DP!ThreadPlaces]
    BY DEF DispatcherInvs, DP!DispatcherInv, DP!TypeOK, DP!WorkerTypeOK
  <2>4. wpc'[w] = "work"
    BY <1>2, <2>3
  <2>5. reply[task[w]] = <<>> /\ unread[task[w]] \in {0, MessageLength}
    BY <2>1 DEF Fresh
  <2>6. Serving(w)'
    BY <2>1, <2>5, ServerAssumption DEF Serving
  <2>7. \A v \in Workers : IF wpc'[v] = "work" THEN Serving(v)'
                            ELSE stage'[v] = "receive" /\ received'[v] = 0
    BY <2>1, <2>2, <2>4, <2>6 DEF Serving
  <2>8. \A c \in Tasks : Fresh(c)' => Fresh(c)
    BY <2>1, <2>2, <2>4 DEF Fresh, D!StartWork
  <2> QED
    BY <2>7, <2>8 DEF MessageTypes, AnswerIsOwn
<1> QED
  BY <1>1, <1>2 DEF D!StartWork

\* One more byte of the message is in msg.
LEMMA ReceiveInv ==
  ASSUME ServerInv, NEW w \in Workers, Receive(w)
  PROVE  MessageInv'
<1> USE ServerAssumption DEF ServerInv, MessageInv, MessageTypes
<1> DEFINE t == task[w]
           n == received[w]
<1>1. wpc[w] = "work" /\ stage[w] = "receive" /\ unread[t] > 0 /\ Serving(w)
  BY DEF Receive
<1>2. t \in Tasks /\ ~Fresh(t) /\ \A v \in Workers : task[v] = t => v = w
  BY <1>1, OneServer
<1>3. /\ unread[t] = MessageLength - n /\ n < MessageLength /\ n \in Nat
      /\ reply[t] = <<>> /\ \A k \in 1 .. n : msg[w][k] = <<t, k>>
  BY <1>1, <1>2 DEF Serving
<1>4. /\ msg' = [msg EXCEPT ![w][n + 1] = <<t, n + 1>>]
      /\ unread' = [unread EXCEPT ![t] = unread[t] - 1]
      /\ received' = [received EXCEPT ![w] = n + 1]
      /\ stage' = IF n + 1 = MessageLength THEN [stage EXCEPT ![w] = "send"] ELSE stage
      /\ UNCHANGED <<wpc, task, created, pending, reply, client>>
  <2>1. /\ msg' = [msg EXCEPT ![w][n + 1] = <<t, MessageLength - unread[t] + 1>>]
        /\ unread' = [unread EXCEPT ![t] = unread[t] - 1]
        /\ received' = [received EXCEPT ![w] = n + 1]
        /\ stage' = IF received'[w] = MessageLength THEN [stage EXCEPT ![w] = "send"] ELSE stage
        /\ UNCHANGED <<wpc, task, created, pending, reply, client>>
    BY DEF Receive, Buffer, dispatcherVars, poolVars
  <2>2. MessageLength - unread[t] + 1 = n + 1
    BY <1>3
  <2>3. received'[w] = n + 1
    BY <2>1
  <2> QED
    BY <2>1, <2>2, <2>3
<1>5. MessageTypes'
  <2>1. unread[t] - 1 \in 0 .. MessageLength /\ n + 1 \in 1 .. MessageLength
    BY <1>2, <1>3
  <2>2. <<t, n + 1>> \in Bytes
    BY <1>2, <2>1 DEF Bytes
  <2> QED
    BY <1>2, <1>4, <2>1, <2>2
<1>6. \A k \in 1 .. n + 1 : msg'[w][k] = <<t, k>>
  <2>1. msg'[w] = [msg[w] EXCEPT ![n + 1] = <<t, n + 1>>]
    BY <1>4
  <2>2. msg[w] \in [1 .. MessageLength -> Bytes] /\ n + 1 \in 1 .. MessageLength
    BY <1>3
  <2>3. msg'[w][n + 1] = <<t, n + 1>>
    BY <2>1, <2>2
  <2>4. ASSUME NEW k \in 1 .. n PROVE msg'[w][k] = <<t, k>>
    <3>1. k \in 1 .. MessageLength /\ k # n + 1
      BY <1>3
    <3> HIDE DEF n
    <3> QED
      BY <1>3, <2>1, <2>2, <3>1
  <2>5. n \in Nat => \A k \in 1 .. n + 1 : k = n + 1 \/ k \in 1 .. n
    <3> HIDE DEF n, ServerInv
    <3> QED
      OBVIOUS
  <2> QED
    BY <1>3, <2>3, <2>4, <2>5
<1>7. Serving(w)'
  <2>1. CASE n + 1 = MessageLength
    <3>1. stage'[w] = "send" /\ reply'[task'[w]] = <<>>
      BY <1>3, <1>4, <2>1
    <3>2. msg'[w] = [k \in 1 .. MessageLength |-> msg'[w][k]]
      BY <1>5
    <3>3. msg'[w] = Message(t)
      BY <1>6, <2>1, <3>2 DEF Message
    <3> QED
      BY <1>4, <3>1, <3>3 DEF Serving, Message
  <2>2. CASE n + 1 # MessageLength
    <3>1. /\ stage'[w] = "receive" /\ received'[w] = n + 1 /\ n + 1 < MessageLength
          /\ unread'[t] = MessageLength - (n + 1) /\ reply'[t] = <<>> /\ task'[w] = t
      BY <1>1, <1>2, <1>3, <1>4, <2>2
    <3> QED
      BY <1>6, <3>1 DEF Serving
  <2> QED
    BY <2>1, <2>2
<1>8. \A v \in Workers : IF wpc'[v] = "work" THEN Serving(v)'
                          ELSE stage'[v] = "receive" /\ received'[v] = 0
  <2> SUFFICES ASSUME NEW v \in Workers, v # w
               PROVE  IF wpc'[v] = "work" THEN Serving(v)'
                      ELSE stage'[v] = "receive" /\ received'[v] = 0
    BY <1>1, <1>4, <1>7
  <2>1. /\ stage'[v] = stage[v] /\ received'[v] = received[v] /\ msg'[v] = msg[v]
        /\ task'[v] # t
    BY <1>2, <1>4
  <2>2. unread'[task'[v]] = unread[task[v]]
    BY <1>2, <1>4, <2>1
  <2> QED
    BY <1>4, <2>1, <2>2 DEF Serving
<1>9. \A c \in Tasks : Fresh(c)' => c # t /\ Fresh(c)
  BY <1>2, <1>4 DEF Fresh
<1>10. \A c \in Tasks : client'[c] \in {"out", "connected"} => unread'[c] = 0
  BY <1>1, <1>2, <1>4
<1> QED
  BY <1>4, <1>5, <1>8, <1>9, <1>10 DEF AnswerIsOwn

\* The whole message is sent, once.
LEMMA SendInv ==
  ASSUME ServerInv, NEW w \in Workers, Send(w)
  PROVE  MessageInv'
<1> USE DEF ServerInv, MessageInv, MessageTypes
<1> DEFINE t == task[w]
<1>1. wpc[w] = "work" /\ stage[w] = "send" /\ Serving(w)
  BY DEF Send
<1>2. t \in Tasks /\ ~Fresh(t) /\ \A v \in Workers : task[v] = t => v = w
  BY <1>1, OneServer
<1>3. /\ reply' = [reply EXCEPT ![t] = @ \o msg[w]]
      /\ stage' = [stage EXCEPT ![w] = "return"]
      /\ UNCHANGED <<wpc, task, created, pending, client, unread, received, msg>>
  BY DEF Send, Buffer, dispatcherVars, poolVars
<1>4. reply[t] = <<>> /\ msg[w] = Message(t)
  BY <1>1 DEF Serving
<1>5. <<>> \o Message(t) = Message(t)
  <2>1. Message(t) \in Seq({<<t, k>> : k \in 1 .. MessageLength})
    BY ServerAssumption DEF Message
  <2> QED
    BY <2>1, ConcatEmptySeq
<1>6. reply' = [reply EXCEPT ![t] = Message(t)]
  BY <1>2, <1>3, <1>4, <1>5
<1>7. MessageTypes' /\ AnswerIsOwn'
  <2>1. reply' \in [Tasks -> Replies]
    BY <1>2, <1>6 DEF Replies
  <2>2. stage' \in [Workers -> {"receive", "send", "return"}]
    BY <1>3
  <2>3. AnswerIsOwn'
    BY <1>2, <1>6 DEF AnswerIsOwn, Message
  <2> QED
    BY <1>3, <2>1, <2>2, <2>3
<1>8. \A v \in Workers : IF wpc'[v] = "work" THEN Serving(v)'
                          ELSE stage'[v] = "receive" /\ received'[v] = 0
  <2>1. Serving(w)'
    BY <1>3 DEF Serving
  <2>2. ASSUME NEW v \in Workers, v # w
        PROVE  IF wpc'[v] = "work" THEN Serving(v)'
               ELSE stage'[v] = "receive" /\ received'[v] = 0
    <3>1. stage'[v] = stage[v] /\ task'[v] # t
      BY <1>2, <1>3, <2>2
    <3>2. reply'[task'[v]] = reply[task[v]]
      BY <1>2, <1>3, <1>6, <3>1
    <3> QED
      BY <1>3, <3>1, <3>2 DEF Serving
  <2> QED
    BY <1>1, <1>3, <2>1, <2>2
<1>9. \A c \in Tasks : Fresh(c)' => c # t /\ Fresh(c)
  BY <1>2, <1>3 DEF Fresh
<1> QED
  BY <1>3, <1>6, <1>7, <1>8, <1>9

\* Work() returns and leaves nothing behind.
LEMMA ReturnInv ==
  ASSUME ServerInv, NEW w \in Workers, WorkReturns(w)
  PROVE  MessageInv'
<1> USE DEF ServerInv, MessageInv, MessageTypes
<1>1. /\ stage' = [stage EXCEPT ![w] = "receive"]
      /\ received' = [received EXCEPT ![w] = 0]
      /\ msg' = [msg EXCEPT ![w] = NoMessage]
      /\ wpc' = [wpc EXCEPT ![w] = "notify"]
      /\ task' = [task EXCEPT ![w] = NoTask]
      /\ UNCHANGED <<created, pending, client, unread, reply>>
  BY DEF WorkReturns, D!FinishWork, D!Cleared, poolVars
<1>2. task \in [Workers -> Tasks \cup {NoTask}]
  BY DEF DispatcherInvs, DP!DispatcherInv, DP!TypeOK, DP!WorkerTypeOK
<1>3. wpc \in [Workers -> DP!ThreadPlaces]
  BY DEF DispatcherInvs, DP!DispatcherInv, DP!TypeOK, DP!WorkerTypeOK
<1>4. MessageTypes'
  BY <1>1, ServerAssumption DEF NoMessage, Bytes
<1>5. \A c \in Tasks : Fresh(c)' => Fresh(c)
  BY <1>1, <1>2, <1>3, ServerAssumption DEF Fresh
<1>6. \A v \in Workers : IF wpc'[v] = "work" THEN Serving(v)'
                          ELSE stage'[v] = "receive" /\ received'[v] = 0
  BY <1>1, <1>2, <1>3 DEF Serving
<1> QED
  BY <1>1, <1>4, <1>5, <1>6 DEF AnswerIsOwn

\* The client sends its message; what has been received of it so far is none.
LEMMA RequestInv ==
  ASSUME ServerInv, NEW c \in Tasks, SendRequest(c)
  PROVE  MessageInv'
<1> USE DEF ServerInv, MessageInv, MessageTypes
<1>1. /\ client[c] = "connected" /\ unread[c] = 0
      /\ client' = [client EXCEPT ![c] = "sent"]
      /\ unread' = [unread EXCEPT ![c] = MessageLength]
      /\ UNCHANGED <<wpc, task, created, pending, reply, stage, received, msg>>
  BY DEF SendRequest, dispatcherVars, poolVars, workVars
<1>2. client \in [Tasks -> {"out", "connected", "sent", "hung_up", "answered"}]
  BY DEF NetInv, NetTypes
<1>3. MessageTypes' /\ AnswerIsOwn'
  BY <1>1, ServerAssumption DEF AnswerIsOwn
<1>4. \A d \in Tasks : client'[d] \in {"out", "connected"} => unread'[d] = 0
  BY <1>1, <1>2
<1>5. \A d \in Tasks : Fresh(d)' => reply'[d] = <<>> /\ unread'[d] \in {0, MessageLength}
  BY <1>1 DEF Fresh
<1>6. ASSUME NEW w \in Workers, wpc[w] = "work"
      PROVE  Serving(w)'
  <2>1. task[w] \in Tasks
    BY <1>6, OneServer
  <2>2. stage[w] = "receive" /\ task[w] = c => received[w] = 0
    BY <1>1, <1>6, ServerAssumption DEF Serving
  <2>3. received[w] = 0 => MessageLength - received[w] = MessageLength
    BY ServerAssumption
  <2> QED
    BY <1>1, <1>6, <2>1, <2>2, <2>3 DEF Serving
<1> QED
  BY <1>1, <1>3, <1>4, <1>5, <1>6

LEMMA NextMessageInv ==
  ASSUME ServerInv, [Next]_vars
  PROVE  MessageInv'
<1> USE DEF poolVars, netVars
<1>t. /\ wpc \in [Workers -> DP!ThreadPlaces]
      /\ task \in [Workers -> Tasks \cup {NoTask}]
  BY DEF ServerInv, DispatcherInvs, DP!DispatcherInv, DP!TypeOK, DP!WorkerTypeOK
<1>1. CASE ServerStep
  <2>1. CASE CreateWorkers
    BY <1>t, <2>1, BytesStay DEF CreateWorkers, D!AddWorker, D!Construct, Fresh,
       ServerInv, DispatcherInvs, DP!Ownership, DP!Slots
  <2>2. CASE Listen
    BY <2>2, BytesStay DEF Listen, dispatcherVars, Fresh
  <2>3. CASE ListenFails \/ AcceptFails
    BY <2>3, BytesStay DEF ListenFails, AcceptFails, ExitProcess, Fresh
  <2>4. CASE Accept
    <3>1. /\ created' = created \cup {Head(backlog)} /\ pending' = Head(backlog)
          /\ Head(backlog) \notin created
          /\ UNCHANGED <<wpc, task, client, unread, reply, workVars>>
      BY <2>4 DEF Accept, D!Dispatch, D!workerVars
    <3> QED
      BY <3>1, BytesStay DEF Fresh
  <2>5. CASE DispatchStep
    <3>1. CASE D!AssignTask
      <4>1. /\ it \in Workers /\ wpc[it] # "work" /\ task[it] = NoTask
            /\ task' = [task EXCEPT ![it] = pending]
            /\ wpc' = [wpc EXCEPT ![it] = IF wpc[it] = "waiting" THEN "relock" ELSE wpc[it]]
            /\ created' = created /\ UNCHANGED netVars
        BY <2>5, <3>1, ServerAssumption
        DEF DispatchStep, D!AssignTask, D!Assign, D!CanAssign, D!MutexFree, D!Woken,
            ServerInv, DispatcherInvs, DP!DispatcherInv, DP!TypeOK
      <4>2. \A c \in Tasks : Fresh(c)' => Fresh(c)
        BY <1>t, <3>1, <4>1, ServerAssumption DEF Fresh, D!AssignTask
      <4>3. \A w \in Workers : (wpc'[w] = "work") = (wpc[w] = "work")
        BY <1>t, <4>1
      <4>4. \A w \in Workers : wpc[w] = "work" => task'[w] = task[w]
        BY <1>t, <4>1
      <4> QED
        BY <4>1, <4>2, <4>3, <4>4, BytesStay
    <3>2. CASE D!PassSemaphore \/ D!SkipWorker \/ D!AssertionFails
      BY <2>5, <3>2, BytesStay
      DEF DispatchStep, D!PassSemaphore, D!SkipWorker, D!AssertionFails, D!workerVars,
          D!mainVars, Fresh
    <3> QED
      BY <2>5, <3>1, <3>2 DEF DispatchStep
  <2> QED
    BY <1>1, <2>1, <2>2, <2>3, <2>4, <2>5 DEF ServerStep
<1>2. ASSUME NEW w \in Workers, ThreadStep(w) PROVE MessageInv'
  <2>1. CASE ReceiveFails(w) \/ SendFails(w)
    BY <2>1, BytesStay DEF ReceiveFails, SendFails, ExitProcess, Fresh
  <2>2. CASE D!StartWork(w) /\ UNCHANGED <<poolVars, netVars>>
    BY <2>2, StartInv
  <2>3. CASE D!LoopStep(w) /\ ~D!StartWork(w) /\ UNCHANGED <<poolVars, netVars>>
    <3>1. /\ task' = task
          /\ \E from, to \in DP!ThreadPlaces \ {"work"} :
                wpc[w] = from /\ wpc' = [wpc EXCEPT ![w] = to]
      BY <2>3
      DEF D!LoopStep, D!LockMutex, D!TestEnabled, D!FallAsleep, D!WakeToNothing,
          D!DeleteTask, DP!ThreadPlaces
    <3> QED
      BY <1>t, <2>3, <3>1, BytesStay DEF Fresh
  <2>4. CASE D!OnTaskDone(w) /\ UNCHANGED netVars
    BY <1>t, <2>4, BytesStay DEF D!OnTaskDone, D!Notify, Fresh
  <2> QED
    BY <1>2, <2>1, <2>2, <2>3, <2>4, ReceiveInv, SendInv, ReturnInv DEF ThreadStep
<1>3. ASSUME NEW w \in Workers, Interrupt(w) PROVE MessageInv'
  BY <1>t, <1>3, BytesStay DEF Interrupt, D!Interrupt, D!SpuriousWake, D!mainVars, Fresh
<1>4. ASSUME NEW c \in Tasks, ClientStep(c) PROVE MessageInv'
  <2>1. CASE Connect(c) \/ ReceiveReply(c) \/ HangUp(c)
    <3>1. /\ UNCHANGED <<wpc, task, created, pending, unread, reply, workVars>>
          /\ \/ client' = [client EXCEPT ![c] = "connected"] /\ client[c] = "out"
             \/ client' = [client EXCEPT ![c] = "answered"]
             \/ client' = [client EXCEPT ![c] = "hung_up"]
      BY <2>1 DEF Connect, ReceiveReply, HangUp, dispatcherVars
    <3>2. client \in [Tasks -> {"out", "connected", "sent", "hung_up", "answered"}]
      BY DEF ServerInv, NetInv, NetTypes
    <3> QED
      BY <3>1, <3>2, BytesStay DEF Fresh
  <2> QED
    BY <1>4, <2>1, RequestInv DEF ClientStep
<1>5. CASE Stopped \/ UNCHANGED vars
  BY <1>5, BytesStay DEF Stopped, vars, dispatcherVars, Fresh
<1> QED
  BY <1>1, <1>2, <1>3, <1>4, <1>5 DEF Next

LEMMA NextInv == ServerInv /\ [Next]_vars => ServerInv'
BY NextDispatcherInvs, NextNetInv, NextMessageInv DEF ServerInv, NetInv, NetTypes

LEMMA SpecInv == Spec => []ServerInv
BY InitInv, NextInv, PTL DEF Spec

\* What test_server's Work() sends on a connection is the message that came
\* on it, whole and once, however the bytes of several clients arrive and the
\* workers take turns on the connections: a worker's buffer holds what is
\* missing from the connection it serves, and no other worker serves that.
THEOREM ServerAnswersOwn == Spec => []AnswerIsOwn
BY SpecInv, PTL DEF ServerInv, MessageInv

\* Every connection is in one place: in the kernel's queue, with Dispatch, with
\* one worker, or behind the server: none is forgotten or served twice.
THEOREM ConnectionInOnePlace == Spec => []ConnectionAccounting
<1>1. ASSUME ServerInv, NEW c \in Tasks, client[c] # "out"
      PROVE  Cardinality({i \in DOMAIN backlog : backlog[i] = c})
               + (IF pending = c THEN 1 ELSE 0)
               + Cardinality({w \in Workers : task[w] = c})
               + (IF c \in notified \/ \E w \in Workers : current[w] = c THEN 1 ELSE 0) = 1
  <2> USE <1>1 DEF ServerInv, NetInv, NetTypes
  <2> DEFINE InQueue == {i \in DOMAIN backlog : backlog[i] = c}
             AtWorkers == {w \in Workers : task[w] = c}
             Behind == c \in notified \/ \E w \in Workers : current[w] = c
  <2>1. DOMAIN backlog = 1 .. Len(backlog) /\ c # NoTask
    BY ServerAssumption, LenProperties
  <2>2. /\ c \notin created => c # pending /\ AtWorkers = {} /\ ~Behind
        /\ c \in created => c = pending \/ Behind \/ AtWorkers # {}
        /\ c = pending => AtWorkers = {} /\ ~Behind
        /\ Behind => AtWorkers = {}
    <3> USE <2>1 DEF DispatcherInvs, DP!Ownership
    <3>1. c \notin created => c # pending /\ AtWorkers = {} /\ ~Behind
      BY DEF DP!Separate, DP!Reported
    <3>2. c \in created => c = pending \/ Behind \/ AtWorkers # {}
      BY DEF DP!Kept, Kept
    <3>3. c = pending => AtWorkers = {} /\ ~Behind
      BY DEF DP!Separate, DP!Reported
    <3>4. c \in notified => AtWorkers = {}
      BY DEF DP!Reported
    <3>5. ASSUME NEW v \in Workers, current[v] = c, NEW w \in Workers, task[w] = c
          PROVE  FALSE
      <4>1. wpc[v] \in {"notify", "delete"}
        BY <3>5 DEF DP!Slots
      <4>2. v # w
        BY <3>5, <4>1 DEF DP!DispatcherInv, DP!ThreadHasTask
      <4> QED
        BY <3>5, <4>2 DEF DP!Separate
    <3> QED
      BY <3>1, <3>2, <3>3, <3>4, <3>5
  <2>3. \A v, w \in AtWorkers : v = w
    BY <2>1 DEF DispatcherInvs, DP!Ownership, DP!Separate
  <2>4. \A S : (\A v, w \in S : v = w) => S = {} \/ \E v : S = {v}
    OBVIOUS
  <2>5. Cardinality(AtWorkers) = IF AtWorkers = {} THEN 0 ELSE 1
    <3> HIDE DEF AtWorkers
    <3> QED
      BY <2>3, <2>4, FS_EmptySet, FS_Singleton
  <2>6. /\ \A i, j \in InQueue : i = j
        /\ InQueue = {} <=> c \in created
    BY <2>1 DEF Queued
  <2>7. Cardinality(InQueue) = IF c \in created THEN 0 ELSE 1
    <3> HIDE DEF InQueue
    <3>1. InQueue = {} \/ \E i : InQueue = {i}
      BY <2>4, <2>6
    <3> QED
      BY <2>6, <3>1, FS_EmptySet, FS_Singleton
  <2> HIDE DEF InQueue, AtWorkers, Behind
  <2>8. Cardinality(InQueue) + (IF pending = c THEN 1 ELSE 0)
          + Cardinality(AtWorkers) + (IF Behind THEN 1 ELSE 0) = 1
    BY <2>2, <2>5, <2>7
  <2> QED
    BY <2>8 DEF InQueue, AtWorkers, Behind
<1>2. ServerInv => ConnectionAccounting
  BY <1>1 DEF ConnectionAccounting
<1> QED
  BY <1>2, SpecInv, PTL

\* In the server, too, the semaphore counts the free workers, and a task -
\* here a connection - has one owner until it is deleted.
THEOREM ServerKeepsPool == Spec => [](DP!PermitAccounting /\ DP!Ownership)
BY SpecInv, PTL DEF ServerInv, DispatcherInvs
==================================================================================
