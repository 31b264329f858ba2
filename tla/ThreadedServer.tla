------------------------------ MODULE ThreadedServer ------------------------------
(***************************************************************************)
(* src/src/ThreadedServer.cc over src/src/Server.cc: Start fills the pool, *)
(* listens, and then accepts connections for ever, giving each to the      *)
(* TaskDispatcher as a task.  A task is a SocketTask; the worker's Work()  *)
(* is the one of test/test_server.cc, which receives a message and sends   *)
(* it back, and the clients are those of test/test_client.cc, some of      *)
(* which (Impatient) may hang up early.                                    *)
(*                                                                         *)
(* The bytes of a message arrive one by one or together; byte k of what    *)
(* client c sends is <<c, k>>.  What a client has sent before it hangs up  *)
(* can still be received.                                                  *)
(*                                                                         *)
(* Start never returns, so the destructors are not reached and the owner   *)
(* actions of TaskDispatcher that delete it are absent.                    *)
(***************************************************************************)
EXTENDS Naturals, Sequences, FiniteSets

CONSTANTS
    Workers, Tasks, NoTask, DerivedState,
    MaxWorkers,     \* num_threads_
    FdLimit,        \* descriptors the process has left for connections
    Impatient,      \* the connections whose clients may hang up early
    MessageLength   \* bytes of a message: 10

\* The first five are TaskDispatcher's.
ASSUME ServerAssumption ==
    /\ IsFiniteSet(Workers)
    /\ NoTask \notin Tasks
    /\ DerivedState \in BOOLEAN
    /\ MaxWorkers \in Nat
    /\ Workers = 1 .. MaxWorkers
    /\ FdLimit \in Nat
    /\ Impatient \subseteq Tasks
    /\ MessageLength \in Nat \ {0}

VARIABLES
    wpc, obj, enabled, task, current, notified, freed, process,
    pool, sem, main, it, pending, created,
    server,     \* "starting", or "listening" once the accept loop is entered
    backlog,    \* connections completed by the kernel and not yet accepted
    fds,        \* connections whose descriptor is open
    client,     \* how far each client is
    unread,     \* bytes of its message that wait in the connection
    reply,      \* bytes sent back on each connection
    stage,      \* where each worker's Work() is
    received,   \* the local variable received of its Receive
    msg         \* its local variable msg

D == INSTANCE TaskDispatcher

poolVars == <<pool, sem, main, it, pending, created>>
dispatcherVars == <<wpc, obj, enabled, task, current, notified, freed, process, poolVars>>
acceptVars == <<server, backlog, fds>>
workVars == <<stage, received, msg>>
netVars == <<acceptVars, client, unread, reply, workVars>>
vars == <<dispatcherVars, netVars>>

Message(c) == [k \in 1 .. MessageLength |-> <<c, k>>]

\* msg is not initialized.
NoMessage == [k \in 1 .. MessageLength |-> <<NoTask, k>>]

Init ==
    /\ D!Init
    /\ server = "starting"
    /\ backlog = <<>>
    /\ fds = {}
    /\ client = [c \in Tasks |-> "out"]
    /\ unread = [c \in Tasks |-> 0]
    /\ reply = [c \in Tasks |-> <<>>]
    /\ stage = [w \in Workers |-> "receive"]
    /\ received = [w \in Workers |-> 0]
    /\ msg = [w \in Workers |-> NoMessage]

-----------------------------------------------------------------------------
(* The main thread.                                                        *)

\* ThreadedServer::Start adds num_threads_ workers.
CreateWorkers ==
    /\ server = "starting"
    /\ D!AddWorker
    /\ UNCHANGED netVars

\* Server::Start: socket, bind and listen.
Listen ==
    /\ server = "starting"
    /\ pool = MaxWorkers
    /\ server' = "listening"
    /\ UNCHANGED <<dispatcherVars, backlog, fds, client, unread, reply, workVars>>

\* Die, and the exit(1) of Socket.
ExitProcess ==
    /\ process' = "exited"
    /\ UNCHANGED <<wpc, obj, enabled, task, current, notified, freed, poolVars>>

\* One of the three fails, and Die ends the process.
ListenFails ==
    /\ server = "starting"
    /\ pool = MaxWorkers
    /\ ExitProcess
    /\ UNCHANGED netVars

HungUp(c) == client[c] = "hung_up"

\* accept returns a descriptor, and HandleClient makes a SocketTask of it and
\* calls Dispatch.  Neither ~SocketTask nor Socket closes the descriptor.
Accept ==
    /\ server = "listening"
    /\ backlog # <<>>
    /\ Cardinality(fds) < FdLimit
    /\ D!Dispatch(Head(backlog))
    /\ fds' = fds \cup {Head(backlog)}
    /\ backlog' = Tail(backlog)
    /\ UNCHANGED <<server, client, unread, reply, workVars>>

\* No descriptor is left, or the connection has ended while it was waiting
\* (ECONNABORTED): accept fails and Die ends the process.
AcceptFails ==
    /\ server = "listening"
    /\ main = "idle"
    /\ backlog # <<>>
    /\ Cardinality(fds) >= FdLimit \/ HungUp(Head(backlog))
    /\ ExitProcess
    /\ UNCHANGED netVars

\* Dispatch goes on.
DispatchStep ==
    /\ D!PassSemaphore \/ D!AssignTask \/ D!SkipWorker \/ D!AssertionFails
    /\ UNCHANGED netVars

ServerStep ==
    /\ process = "running"
    /\ CreateWorkers \/ Listen \/ ListenFails \/ Accept \/ AcceptFails \/ DispatchStep

-----------------------------------------------------------------------------
(* A worker's thread, with the Work() of test/test_server.cc.              *)

\* Mutant: all workers have one msg (declared static).
Buffer_Shared(w) == CHOOSE v \in Workers : TRUE

\* The msg of a worker is on its own thread's stack.
Buffer(w) == w

\* One turn of Receive's loop: recv returns what there is, the next byte.
\* More bytes at once are several of these steps.
Receive(w) ==
    /\ wpc[w] = "work" /\ stage[w] = "receive"
    /\ unread[task[w]] > 0
    /\ msg' = [msg EXCEPT ![Buffer(w)][received[w] + 1] =
                 <<task[w], MessageLength - unread[task[w]] + 1>>]
    /\ unread' = [unread EXCEPT ![task[w]] = @ - 1]
    /\ received' = [received EXCEPT ![w] = @ + 1]
    /\ stage' = IF received'[w] = MessageLength THEN [stage EXCEPT ![w] = "send"] ELSE stage
    /\ UNCHANGED <<dispatcherVars, acceptVars, client, reply>>

\* The client has gone, and all it sent is read: recv fails, and exit(1).
ReceiveFails(w) ==
    /\ wpc[w] = "work" /\ stage[w] = "receive"
    /\ unread[task[w]] = 0 /\ HungUp(task[w])
    /\ ExitProcess
    /\ UNCHANGED netVars

\* Send writes the message back.
Send(w) ==
    /\ wpc[w] = "work" /\ stage[w] = "send"
    /\ reply' = [reply EXCEPT ![task[w]] = @ \o msg[Buffer(w)]]
    /\ stage' = [stage EXCEPT ![w] = "return"]
    /\ UNCHANGED <<dispatcherVars, acceptVars, client, unread, received, msg>>

\* To a client that has gone, send may instead end the process: exit(1), or
\* the signal SIGPIPE.
SendFails(w) ==
    /\ wpc[w] = "work" /\ stage[w] = "send"
    /\ HungUp(task[w])
    /\ ExitProcess
    /\ UNCHANGED netVars

\* Work() returns, and its local variables are gone.
WorkReturns(w) ==
    /\ wpc[w] = "work" /\ stage[w] = "return"
    /\ D!FinishWork(w)
    /\ stage' = [stage EXCEPT ![w] = "receive"]
    /\ received' = [received EXCEPT ![w] = 0]
    /\ msg' = [msg EXCEPT ![w] = NoMessage]
    /\ UNCHANGED <<poolVars, acceptVars, client, unread, reply>>

ThreadStep(w) ==
    /\ process = "running"
    /\ \/ Receive(w) \/ ReceiveFails(w) \/ Send(w) \/ SendFails(w) \/ WorkReturns(w)
       \/ D!LoopStep(w) /\ UNCHANGED <<poolVars, netVars>>
       \/ D!OnTaskDone(w) /\ UNCHANGED netVars

Interrupt(w) == D!Interrupt(w) /\ UNCHANGED netVars

-----------------------------------------------------------------------------
(* The clients.                                                            *)

Connect(c) ==
    /\ process = "running"
    /\ server = "listening"
    /\ client[c] = "out"
    /\ client' = [client EXCEPT ![c] = "connected"]
    /\ backlog' = Append(backlog, c)
    /\ UNCHANGED <<dispatcherVars, server, fds, unread, reply, workVars>>

SendRequest(c) ==
    /\ client[c] = "connected"
    /\ client' = [client EXCEPT ![c] = "sent"]
    /\ unread' = [unread EXCEPT ![c] = MessageLength]
    /\ UNCHANGED <<dispatcherVars, acceptVars, reply, workVars>>

\* The client has its reply, and main() returns.
ReceiveReply(c) ==
    /\ client[c] = "sent"
    /\ Len(reply[c]) >= MessageLength
    /\ client' = [client EXCEPT ![c] = "answered"]
    /\ UNCHANGED <<dispatcherVars, acceptVars, unread, reply, workVars>>

HangUp(c) ==
    /\ c \in Impatient
    /\ client[c] \in {"connected", "sent"}
    /\ client' = [client EXCEPT ![c] = "hung_up"]
    /\ UNCHANGED <<dispatcherVars, acceptVars, unread, reply, workVars>>

ClientStep(c) ==
    /\ process = "running"
    /\ Connect(c) \/ SendRequest(c) \/ ReceiveReply(c) \/ HangUp(c)

-----------------------------------------------------------------------------

\* The process has ended, or the server waits in accept for clients that do
\* not come.
Stopped ==
    /\ \/ process # "running"
       \/ /\ server = "listening" /\ main = "idle" /\ backlog = <<>>
          /\ \A w \in Workers : wpc[w] = "waiting"
          /\ \A c \in Tasks : client[c] \in {"answered", "hung_up"}
    /\ UNCHANGED vars

Next ==
    \/ ServerStep
    \/ \E w \in Workers : ThreadStep(w) \/ Interrupt(w)
    \/ \E c \in Tasks : ClientStep(c)
    \/ Stopped

\* Threads run.  A client that has connected sends its request or hangs up:
\* nothing in the server bounds the time it may take, so that is assumed of
\* the clients; and one that waits for its reply receives it.
Spec ==
    /\ Init
    /\ [][Next]_vars
    /\ WF_vars(ServerStep)
    /\ \A w \in Workers : WF_vars(ThreadStep(w))
    /\ \A c \in Tasks : /\ WF_vars(ClientStep(c) /\ client[c] = "connected")
                        /\ WF_vars(ClientStep(c) /\ ReceiveReply(c))

-----------------------------------------------------------------------------
(* Properties.                                                             *)

\* test_server.cc:20-24, Socket.cc:53-63: what is sent on a connection is the
\* message that came on it, each byte once and in its place, although the
\* messages of several clients arrive byte by byte at the same time, at
\* workers that go from one connection to the next.
AnswerIsOwn == \A c \in Tasks : reply[c] \in {<<>>, Message(c)}

\* Every connection is in one place: the kernel's queue, Dispatch, a worker,
\* or behind the server; no connection is forgotten or handled twice.
ConnectionAccounting ==
    \A c \in Tasks : client[c] # "out" =>
        Cardinality({i \in DOMAIN backlog : backlog[i] = c})
            + (IF pending = c THEN 1 ELSE 0)
            + Cardinality({w \in Workers : task[w] = c})
            + (IF c \in notified \/ \E w \in Workers : current[w] = c THEN 1 ELSE 0) = 1

\* Every client that sends a request and stays is answered, however many are
\* connected, as long as the process lives.
EveryRequestAnswered ==
    \A c \in Tasks :
        client[c] = "sent" ~> (client[c] \in {"answered", "hung_up"} \/ process # "running")

\* Connections that are over: the task is deleted and the client has left.
Over == {c \in freed : client[c] = "answered"}

\* Server.cc:44, "Run until cancelled": where no client hangs up, nothing ends
\* the accept loop but as many clients at once as there are descriptors;
\* connections that are over need none.
RunsUntilCancelled ==
    server = "listening" /\ process = "exited" /\ (\A c \in Tasks : ~HungUp(c)) =>
        Cardinality(fds \ Over) >= FdLimit
==================================================================================
