# TLA+ models of threaded-server

threaded-server is a small C++ library (`src/`) for multi-threaded TCP servers,
and a speech recognition server and client built on it (`speechsvr/`). This
directory holds TLA+ modules that follow the code, the TLC configurations that
check them on small instances, and TLAPS proofs for every value of the constants: of the
semaphore, the dispatcher and the server for any number of threads, tasks and
connections, of the session's protocol for any file, of the results of an utterance for any
decoding graph, and of the online decoder, the voice detector before it, the features and
the local audio for any sizes of frames, batches and buffers.

Paths below are relative to the repository's root.

## 1. The system

| Component | State | Operations | Interacts through |
|---|---|---|---|
| `Semaphore` (`src/Semaphore.cc`) | `counter_`, a mutex, a condition variable | `Wait`, `Signal`, `GetValue` | called by the main thread (`Wait`, `Signal`) and the workers' threads (`Signal`) |
| `BackgroundWorker` (`src/Worker.cc`) | one task slot `task_`, `enabled_`, a mutex, a condition variable, a thread | constructor, `TryAssign`, the thread's loop, destructor | the owner calls; the thread calls the virtual `Work()` and `Task::Done()` |
| `Task`, `TaskObserver` (`src/Task.cc`) | an observer pointer | `Done` | calls `OnTaskDone` on the worker's thread |
| `TaskDispatcher` (`src/TaskDispatcher.cc`) | a vector of workers, a semaphore | `AddWorker`, `Dispatch`, `OnTaskDone`, destructor | calls `TryAssign` on its workers; is called back by their threads |
| `Server`, `ThreadedServer` (`src/Server.cc`, `src/ThreadedServer.cc`) | a listening socket, a dispatcher | `Start` (accept loop), `HandleClient` | gives each connection to the dispatcher as a `SocketTask` |
| `Socket` (`src/Socket.cc`) | a descriptor | `Connect`, `Send`, `Receive` | blocking calls; every failure is `exit(1)` |
| Speech session (`speechsvr/DecodeWorker.cc`, `RemoteAudioSource.cc`, `speechclient.cc`, `protocol.*`) | the exchange of packets | `DecodeWorker::Work`, `RemoteAudioSource::Read`, the client's `main` | packets over one TCP connection |
| Voice activity detection (`online-vad.cc`) | detector state and hangover counter, a delay buffer | `Process`, `Compute`, listeners | reads audio; tells the decoder that speech has ended |
| Online decoding (`online-faster-decoder.cc`, `online-decodable.cc`) | frame counters, tokens, `forcingEndUtt_` | `Decode`, tracebacks, `LogLikelihood` | pulls features a batch at a time |
| Feature pipeline (`online-feat-input.cc`, `online-cmn.cc`) | a window of frames, a sliding mean | `Compute` | a chain of pulls |
| Local audio (`online-audio-source.cc`, `OnlineFeInput` and `OnlineDeltaInput` of `online-feat-input.cc`) | PortAudio's ring buffer, the rest of the last batch, a window of frames | `Callback`, `Read`, `Compute` | PortAudio's thread writes, the caller's reads; not used by the server |
| `Config`, `SpeechServer` | key-value pairs, loaded models | getters, factories | read once at start |

### What is hard here

* The semaphore and the workers' slots are two records of the same fact, changed
  by different threads at different moments. `Dispatch` asserts that they agree.
* A worker's thread holds the worker's mutex all the time it is not waiting,
  while it works, calls `Done()` and loops included; a `trylock` is used to ask
  "is it busy".
* `worker_func` waits under an `if`, not a `while`; `enabled_` is written without
  the mutex; a signal may come before the wait.
* Destruction runs against a thread that may be starting, sleeping, working or
  notifying, and the derived class's destructor runs before the wait.
* A failed `send`, `recv` or `accept` ends the process, whoever else is connected.
* The session is synchronous request and answer in both directions, with a client
  that leaves on its own.
* Online decoding is a chain of pulls with several records of the same position:
  `frame_` and `utt_frames_` of the decoder, `feat_offset_` of the decodable, the
  windows of the feature inputs, the delay buffer of the voice detector. The end of
  speech comes back up the chain as a callback, in the middle of a frame.
* PortAudio's callback fills a ring buffer while `Read` empties it, without a lock; a
  `Read` can time out, and then its batch is short without being the last.
* Partial results are taken from tokens remembered from one batch to the next.

`PROJECT.json` lists each hazard at its line with the properties that cover it.

### What makes each component correct

* Semaphore: an atomic counter; no unit stays beside a sleeping thread.
* Worker: each accepted task is worked on once and deleted once, or discarded by
  the destructor; the thread is never asleep when it has something to do; the
  destructor returns.
* Dispatcher: the semaphore counts the free workers; no task is lost or given
  twice; the semaphore outlives the last `OnTaskDone`; abstractly, a pool.
* Server: every connection is in one place, and is answered with its own message.
* Session: each side meets the packet it expects; the audio is heard in order and to
  its end; the two never wait for each other; a worker becomes free again.
* Voice detector: no early end of speech; `Compute` returns in speech.
* Voice detector and decoder: the end of speech cuts the utterance when its speech has
  been searched, always and once; rows that were never written stay out of the words.
* Online decoder: the counters agree, so that every frame is searched and no score is
  asked for that cannot be computed; what was reported is never taken back, and in the
  end is the best path.
* Feature pipeline: every row is a frame with its own neighbours, whatever the batches.
* Local audio: the frames are those of the samples in the ring buffer, none twice and
  none skipped; samples are not lost uncounted; a `Read` that can return does.

## 2. The modules

| Module | Follows | Notes |
|---|---|---|
| `AbstractSemaphore` | the promise of `Semaphore.h` | an atomic counter and the set of waiting threads |
| `Semaphore` | `src/Semaphore.cc` | the mutex, the condition variable, and each statement that matters |
| `SemaphoreProofs` | | theorems about `Semaphore`, the safety part of the refinement included |
| `BackgroundWorker` | `src/Worker.cc`, `src/Task.cc` | actions of a set of workers, extended by `TaskDispatcher` |
| `TaskPool` | the promise of `TaskDispatcher.h` | tasks new, offered, accepted, done or discarded; a number of workers |
| `TaskDispatcher` | `src/TaskDispatcher.cc` | extends `BackgroundWorker`; implements `TaskPool` |
| `TaskDispatcherProofs` | | theorems about `TaskDispatcher`, the safety part of the refinement included |
| `ThreadedServer` | `src/ThreadedServer.cc`, `src/Server.cc`, `src/Socket.cc`, `test/test_server.cc`, `test/test_client.cc` | an `INSTANCE` of `TaskDispatcher` with the accept loop, descriptors and clients |
| `ThreadedServerProofs` | | theorems about `ThreadedServer`, with an `INSTANCE` of `TaskDispatcherProofs` |
| `SpeechSession` | `speechsvr/DecodeWorker.cc`, `RemoteAudioSource.cc`, `speechclient.cc`, `protocol.*`, the reads of `online-vad.cc` | two programs and two packet channels |
| `SpeechSessionProofs` | | theorems about `SpeechSession`, and about the words it sends, of `Traceback` |
| `VadInput` | `online-vad.cc` | the energy detector, the delay buffer, the loop of `Compute`, the listener |
| `OnlineDecode` | `online-faster-decoder.cc` (`Decode`), `online-decodable.cc`, the loop of `DecodeWorker::OnlineDecode` | frame counters, batches and the forced end of an utterance |
| `OnlineDecodeProofs` | | theorems about `OnlineDecode` |
| `OnlineSession` | `DecodeWorker::OnlineDecode`, `online-decodable.cc`, the listener of `online-vad.cc` | extends `VadInput`, with an `INSTANCE` of `OnlineDecode`, which it implements |
| `OnlineSessionProofs` | | theorems about `VadInput` and `OnlineSession`, with an `INSTANCE` of `OnlineDecodeProofs` |
| `Traceback` | `online-faster-decoder.cc` (`UpdateImmortalToken`, `MakeLattice`, the tracebacks) | tokens as paths through a small decoding graph |
| `FeaturePipeline` | `online-cmn.cc`, `online-feat-input.cc`, `LdaTransform` of `DecodeWorker.cc` | which frames a row is made of |
| `FeaturePipelineProofs` | | theorems about `FeaturePipeline` |
| `AudioInput` | `online-audio-source.cc`, `OnlineFeInput`, `OnlineDeltaInput` | two threads on a ring buffer, or a recording, and the frames cut from them |
| `AudioInputProofs` | | theorems about `AudioInput` |
| `MC...` | | the instances that TLC checks |

### How state and actions correspond to the code

**Semaphore.** `pc[t]` is the statement a thread is at. A waiter woken inside
`pthread_cond_wait` goes back to `"lock"` and then to `"body"`, where the loop test
is repeated. `SpuriousWake` is the return without a signal that POSIX allows.
`GetValue` copies the counter and changes nothing.

**BackgroundWorker.** `wpc[w]` is the line of `worker_func` the thread is at.
The thread holds the mutex in every place but `"start"`, `"waiting"`, `"relock"`
and `"exited"`, so `MutexFree(w)` is computed from it. The critical sections
of `TryAssign` and of the destructor are single steps: they contain no call that
another thread could observe half-done, because only one thread owns a worker.
`TryAssign` returns true exactly when `CanAssign(w)`. `obj[w]` follows the
destructors in the order C++ runs them: `DestroyDerived` (for instance
`~DecodeWorker`), then `Disable`, `DiscardAndSignal` and `Join` of
`~BackgroundWorker`. A `Work()` that starts after the base class's destructor has
begun is a call of a pure virtual function and ends the process; a `Work()` that
runs on members already deleted (`DerivedState`) may go on or crash. The unlocked
write of `enabled_` is a step of its own; a thread that reads a stale value is one
that read before the write.

**TaskDispatcher.** `pool` is `workers_.size()`, `sem` the semaphore's counter,
`main` the place of the thread that makes all the calls, `it` the loop's iterator.
`Wait` and `Signal` are atomic here: that is what `Semaphore` is shown to implement.
`AddWorker` is one step with the worker's construction, since only the main
thread can take the unit it adds. `AssertionFails` is the `abort` of line 43; no
makefile defines `NDEBUG`. The destructor deletes the workers from the back, step by
step, while their threads and the other workers' threads run. `Stopped` names the
states in which nothing is left to do, so that TLC's deadlock check stays on.

**ThreadedServer.** Tasks are connections. `backlog` is the kernel's queue,
`fds` the open descriptors; nothing removes a descriptor, as nothing in the code
closes one. `accept` fails (`AcceptFails`) when no descriptor is left, or when the
connection at the head of the queue has ended meanwhile.
The bytes of the messages are modelled: byte `k` of what client `c` sends is
`<<c, k>>`, `unread[c]` counts those that wait in the connection, and `reply[c]` is what
was sent back on it. `stage[w]`, `received[w]` and `msg[w]` are the place and the
local variables of the echo worker's `Work()` (`test_server.cc`) on its own thread. A turn
of `Receive`'s loop takes one byte; a `recv` that returns more is several of these steps.
A client that hangs up leaves what it has sent to be read; when that is gone,
`ReceiveFails` is `exit(1)`. `Send` to a client that has gone succeeds or ends the process
(`SendFails`). Only clients in `Impatient` hang up before they are answered.

**SpeechSession.** Places of `Work()` and of the client's `main`. A packet is a
header and its payload sent in two or three calls; it is one element of a channel
here, because the receiver reads all of it before it does anything else. The
client's exit closes its socket; what it has sent can still be read. `NeedAudio`,
`ReceiveBuffer` and `ReceiveBatch` are the reads of `OnlineVadFeInput::Compute`:
first the whole buffer, whose length is not looked at, then batches, until a batch
with speech or a short one; which batches hold speech, and how often the decoder
reports between two reads (at most `MaxOutputs`), is left open. `alive` says whether the
search has tokens: once it has lost them (`SearchDies`) it asks for no score, so no feature is
loaded, and `OnlineDecode` goes round for ever (`SearchSpins`) unless the features have
ended already. In file mode the samples' frames are counted (`NumFrames`): without one
more than the right context, the extraction or `LdaTransform` aborts the process
(`AfterWave`). The tests of a packet's type that cannot fail between these two programs are the invariant
`ProtocolFollowed` rather than actions. `DATA_FEATURE` is the other type in which
the protocol lets a client send data; the server accepts the header and does
nothing.

**VadInput.** One call of `Compute` after the other. The places of `pc` are the steps of `OnlineVadFeInput::Compute`:
`FillBuffer` and `LaterCompute` begin it, `JudgeBatch` is `DoVad` of the back with the
listener's notification, `ExtractAndShift` the features of the front and
`ShiftBuffer`, `ReadBatch` the read and the loop's condition. Samples are positions in
the buffer: `spoken` holds where batches judged as speech begin, and a shift moves
them. The detector runs over the frames of a batch with any energies: `JudgeFrame` is the
body of `DoVad`'s loop, `NoFrame` what it starts from, and `DoVad` the recursive function
between them. `filled` says whether the rows were written. A read may
be short or full, and either may have been the client's last; the next then ends the
process, as `SpeechSession` shows.

**OnlineDecode.** One action per part of a turn of `Decode`'s loop: `SearchFrame` is
`ProcessEmitting`, with the load of a batch that it may cause and the callback
`ForceEndUtterance` from inside that load; `EndUtterance` is the return that skips the
loop's increments; `NextFrame` executes them; `EndDecode` leaves the loop. `rows` is one
batch less the right context for the first batch, which is what `FeaturePipeline`
shows of `OnlineLdaInput`. `alive` says whether the search has tokens: without them no
score is asked for, so that nothing loads features and nothing ends the loop.

**OnlineSession.** The classes as `DecodeWorker::OnlineDecode` wires them, all in one
thread. A search that asks for a frame behind the batch is `StartLoad`, the steps of
`Compute` with the listener (`OnSpeechEnd`, which sets `forcingEndUtt_` in the middle of
it), and `FinishLoad`; all other steps are those of `OnlineDecode`. The inputs between
the two classes are the delay by the right context (`FeaturePipeline` has them in
detail). That the whole implements `OnlineDecode` (`ImplementsOnlineDecode`) justifies
what that module assumes: that the end of speech comes inside a load, at most once, and
not in the first.

**Traceback.** A token is the path of arcs that leads to it, so its ancestors are
its prefixes and `MakeLattice` is what follows a prefix. Which tokens survive a frame
is any choice with at most one token per state; costs are left out. Each `Decode` begins
with another `ProcessNonemitting`, which may add tokens (`NextBatch`). When none is left,
the tokens that were remembered are freed with the others: if `immortal_tok_` had moved
after the last batch, `PartialTraceback` reads freed memory (`ReadFreedToken`, where the
behaviour ends).
`UpdateImmortalToken` goes back frame by frame; a set of tokens one frame earlier is the
set of `EmittingAncestor`s with one emitting arc less (`Emitted` counts them). `Words` is a
recursive function over the arcs of a path, as `MakeLattice` collects them. The module's
`GraphAssumption` says which graphs it follows: with an arc back into the start state
`MakeLattice` would drop that arc.

**FeaturePipeline.** A feature is its frame's number; a normalized feature is a frame
with the set of frames its mean and variance come from. `Cache` and `Slide` are the two
circular buffers as the code has them; `Updated` and `Windows` are the loops over a batch. `StartOnline` makes new inputs, as
`OnlineDecode` does; the worker's own `cmvn_` goes on from file to file.

**AudioInput.** PortAudio's thread has two steps for a callback, the test for an overflow
and the write, because `Read` may run between them; the ring buffer's own functions are
atomic. `Read` looks at the buffer (`Poll`, `Timeout`) and takes from it (`Take`) in
different steps. A sample is its number among those that were stored, so that losses
leave no gap in the numbers and every gap in the frames is the program's. `Return` is the
rest of `OnlineFeInput::Compute` with the `OnlineDeltaInput::Compute` around it; `Windows`
is the loop over a batch's features, a recursive function like `DoVad`. When no
frame fits into what was read, Kaldi's extractor throws or returns no rows: both are
possible.

## 3. What TLC checks

| Run | Instance | Shows |
|---|---|---|
| `semaphore` | 3 threads, 5 calls | `NoStrandedUnit`, and that the code implements `AbstractSemaphore`, liveness included |
| `dispatcher` | 2 workers, 3 tasks | `PermitAccounting`, `OneOwner`, `NoLostWakeup`, `SemaphoreOutlivesWorkers`; the destructor returns; implements `TaskPool`, liveness included |
| `server` | 2 threads, 3 clients, one impatient, messages of 2 bytes | `ConnectionAccounting`, `AnswerIsOwn`, `EveryRequestAnswered` |
| `session` | files of 1 to 11 samples, reads of 5 and then 2, frames of 4 with shift 2, a right context of 1 | `ProtocolFollowed` (which includes `AnswerIsComing`: the two sides never wait for each other), `AudioInOrder`, `FileIsDecoded`, `WorkerFreedUnlessSearchDies` |
| `online_decode` | batches of 4 features (3 at first) and of 3 searched frames, up to 7 loads | `ScoresInReach`, `AllFramesSearched`, `OnlyCutsRepeat`, `EndsUnlessSearchDies` |
| `online_session` | batches of 3 frames of 2 samples (2 rows at first), 3 searched frames, a delay of 4 samples, 4 energies, up to 12 loads | `HangoverKept`, `ReturnsInSpeech`, `CutAfterSpeech`, `SpeechEndCuts`, `UnwrittenRowsAlone`, `LastAudioEndsSession`; implements `OnlineDecode` |
| `traceback` | 8 arcs, 2 words, 6 frames in batches of 2 | `NothingTakenBack`, `NothingHeldBack`, `WalkEnds`, `ReportIsBestPath` |
| `features` | context 2 and 1, batches of 3, a history of 5, 12 frames | `HistoryIsLatest`, `OnlineRowsInContext`, `FileRowsInContext` |
| `audio` | a ring of 8 samples, blocks of 2 or 3, frames of 4 with shift 2, 2 to 4 rows asked for, a recording of 17 | `RowsFollowStream`, `RowsAsAsked`, `DeltaRowsInContext`, `LossWasCounted`, `ReadReturns` |

**Bounds.** Semaphore: three threads let two waiters compete for a unit with a
third that signals; `MaxCalls` bounds the calls. Dispatcher: two workers
and three tasks let both workers be busy while a task waits, one worker take a second
task, and the loop skip a worker (a single worker with its owner is among these
behaviours: the pool may stay at one); `MaxWorkers` bounds `AddWorker`, and the theorems
remove both bounds. Server: three clients on two threads leave one waiting in
`Dispatch` or in the queue; with two bytes, two messages can be received in turns. Session:
the lengths lie below, at and above each
boundary of the reads (5, 7, 9, 11) and between them; in file mode those of 1 and 5 samples
have no frame, and as many as the right context. Online decoding: the two batch
sizes, both 27 in the program, differ, so that a load falls at every place of a
`Decode`; `MaxLoads` bounds the
session, and the theorems remove the bounds. Voice detector: the proportions are those
of the program (a buffer of a little less than three batches, a hangover longer than a
batch), with an energy in each interval between the thresholds; `quiet`, a history
counter, stops where it no longer matters. Online session: the same proportions, the
batch sizes equal as in the program; twelve loads leave room for speech, its end, more
speech and its end, the audio ending anywhere among them. Traceback: three batches let the immortal
token move twice and stay once before an utterance ends; the graph has loops,
arcs without input label, and words that begin alike and differently. Features: the
history and the files are no multiples of a batch, and twelve frames fill the
history and go round in it. Audio: the requests are below, at and above the ring's
size, and neither they nor the blocks divide it; `Modulus` numbers more samples than are
in use at a time, so that the stream of the sound card never ends.

**Fairness.** Weak fairness of every thread's own steps: the threads are pthreads
under a preemptive scheduler, and each critical section ends. `Work()` is assumed to
return (the dispatcher) or follows from the connection (the server). A caller's next
call, a client's connection, a hang-up and a spurious wake-up are never assumed. In
`ThreadedServer` a client that has connected is assumed to send its request or to
hang up: `recv` has no timeout, so without this assumption a silent client keeps a
worker for ever; and one that waits for its reply is assumed to receive it. A mutex needs no strong fairness: calls on the semaphore are finite
in number, and a worker's mutex, once its destructor has cleared `enabled_`, is given
up at the thread's next wait or exit. `OnlineDecode`, `VadInput` and `OnlineSession` are one
thread each, which runs; a `Read` returns because the client answers it or leaves. In
`AudioInput` the sound card goes on to call its callback, and the thread that is in
`Read` runs; no timeout is assumed to expire, and `ReadReturns` leaves out the call that
waits for ever by `online-audio-source.h:49-50`, one without a timeout for more samples
than the ring holds. `Traceback`
and `FeaturePipeline` have safety properties only.

Every liveness property of the dispatcher and the server ends in "or the process has
died", because the code can end it: by the assertion in `Dispatch`, by `exit(1)`, or
in a destructor that races with `Work()`.

### Where the code and its documents disagree

Three runs are expected to find a violation; each checks one sentence of a comment or
one assertion.

* `dispatcher_assign`: `TaskDispatcher.cc:32-34` and the assertion at line 43. The
  semaphore does report a free worker (`PermitAccounting`), but that worker's thread
  can hold its mutex, and then `TryAssign` returns false for all workers and the
  process aborts. It happens when `Dispatch` comes soon after `AddWorker`, or soon
  after another task's `OnTaskDone`. For the same reason the assertion of
  `test/test_worker.cc:26` can fail on a new worker.
* `server_descriptors`: `Server.cc:44`, "Run until cancelled". No descriptor is ever
  closed. `RunsUntilCancelled` counts only the descriptors of connections that are not
  over, so that a server that closed them would satisfy it. In the trace there are two
  descriptors: one client is answered and has left, the second is connected, and `accept`
  fails for the third.
* `session_survival`: `Server.cc:44`. The server's process can end when an online
  client has left in its normal way.

Other disagreements the models contain, without a run of their own:

* `Worker.h:31-32`, "The destructor will wait for the worker thread to complete before
  releasing its resources": `~DecodeWorker` deletes what `Work()` uses before
  `~BackgroundWorker` waits (`DestroyDerived`, then a `Work()` that still runs).
* `protocol.h:13-18` answers a file's `DATA_WAVE` by a `DECODE_OUTPUT`; a file with no more
  frames than the right context aborts the server (`DecodeWorker.cc:189-193`, `:83-93`), and
  its client exits without an answer (`AfterWave`; `FileIsDecoded` is about the other files).
* `protocol.h:28-29` ends an online session with a `DECODE_OUTPUT`; `speechclient`
  leaves without waiting for it (`LeaveLoop`).
* `online-faster-decoder.h:134`, "the next frame to be processed": after a forced end of
  an utterance `frame_` is the frame that was processed last, and it is searched again
  (`OnlyCutsRepeat` says that this is the only case).
* `online-feat-input.h:43-48` promises rows that were computed: when the source ends in
  silence, `OnlineVadFeInput::Compute` returns false and leaves its rows unwritten
  and they are decoded (`UnwrittenRowsAlone` says that this is the end of the session,
  with no utterance open).
* `online-vad.cc:175`, "notify state changing events": the counter of a pause is not reset when
  speech goes on, so that the pauses of an utterance add up. After several of them the
  listener can be told of the end while speech is still in the delay buffer
  (`resumed` in `CutAfterSpeech`).
* `online-faster-decoder.h:97-98`, "tracing back from the last immortal token to the previous
  one": after a search has lost all its tokens, both are freed (`ReadFreedToken`).

## 4. What is proved

Each theorem holds for every value of the constants that satisfies the module's named
`ASSUME`, and of nothing else. The proofs all go one way: an invariant with one conjunct
per idea, `Init => Inv` and `Inv /\ [Next]_vars => Inv'` with a step per action, and the
property as one of its conjuncts or a consequence. TLC found the properties, and the
invariants where it can evaluate them, to hold on the run's instance before a proof was
begun.

### Threads: `SemaphoreProofs`, `TaskDispatcherProofs`

From `SemaphoreAssumption` (any finite set of threads, any count, any number of calls):

| Theorem | States |
|---|---|
| `TypeCorrect` | `Spec => []TypeOK`: above all, `counter_` is never negative |
| `OneThreadInside` | at most one thread is between lock and unlock |
| `UnitsHaveTakers` | `Spec => []NoStrandedUnit` |
| `CounterIsAtomic` | `Spec => Abstract!Init /\ [][Abstract!Next]_(Abstract!vars)` |

That the counter stays in `Nat` while several woken threads run for one unit needs that
the thread in front of the decrement holds the mutex alone (`MutexHeld`), since its test
`counter_ > 0` was made in an earlier step; that a `Signal` may wake any sleeper needs
that only `Wait` sleeps (`SleepersWait`). `SemaphoreInv` is their conjunction with the
types, and `NoStrandedUnit` is inductive on top of it: it compares the cardinality of the
threads on their way to a unit with the counter.

From `WorkerAssumption` and `DispatcherAssumption` (any `MaxWorkers`, any set `Tasks`):

| Theorem | States |
|---|---|
| `TypeCorrect` | `Spec => []TypeOK` |
| `NoWakeupIsLost` | `Spec => []NoLostWakeup` |
| `SemaphoreIsLast` | `Spec => []SemaphoreOutlivesWorkers` |
| `PermitsCountFreeWorkers` | `Spec => []PermitAccounting` |
| `DispatchFindsFreeWorker` | while `Dispatch` loops, some worker in the vector has no unreported task |
| `TaskHasOneOwner` | `Spec => []OneOwner` |
| `DispatcherIsPool` | `Spec => Pool!Init /\ [][Pool!Next]_(Pool!vars)`, the step simulation of `TaskPool` |

The types are not inductive by themselves: that `Done()` gets a task needs to know
what a thread has in hand where it holds the mutex (`ThreadHasTask`); that a thread
does not go to sleep under a destructor that joins it needs the order of the
destructor's steps (`DestructorOrder`); that `Dispatch`'s loop and the destructor's
pops stay in the vector, and that a popped worker's thread has ended, need which
workers are in it (`PoolMembers`); and that a worker is assigned a real task needs
`PendingTask`. `DispatcherInv` is their conjunction. `PermitAccounting` is inductive
relative to it: `NextPermits` shows for each step that both sides stay, or that one worker
enters or leaves the set of free workers when the permits change by one.

`OneOwner` says where a task is, but not that it is in one place only, nor what the other
slot of the same worker holds; `Ownership` does. `Slots` relates each slot to the place of
its thread and destructor, `Separate` says that no two slots share a task and none holds a
deleted one, `Kept` that a task is somewhere until it is deleted, and `Reported` that
`Done()` was called for the tasks past it and for no others. With it each step is a step
of `TaskPool` or a stutter. Proving it showed that two guards of a `CASE` in the refinement
mapping (`Phase`) overlapped, where the process dies inside the destructor, so that the
pool's phase was any of the two; the mapping now says that a dead process is dead.

### Server: `ThreadedServerProofs`

From `ServerAssumption`, which contains the assumptions of `TaskDispatcher`, instantiated
here:

| Theorem | States |
|---|---|
| `ServerAnswersOwn` | `Spec => []AnswerIsOwn` |
| `ConnectionInOnePlace` | `Spec => []ConnectionAccounting` |
| `ServerKeepsPool` | `PermitAccounting` and `Ownership` hold of the dispatcher in the server |

`DispatcherSteps` is the composition: each step of the server is a step of the
dispatcher, leaves it alone, or is `exit(1)`, which changes nothing else of it. So the
dispatcher's invariants are taken over with its lemmas `NextInv`, `NextOwnership` and
`NextPermits`, and are not proved again. `NetInv` adds what the accept loop knows:
a connection waits once in the queue until it is accepted (`Queued`), and no descriptor is
closed and no worker deleted, so that a task is deleted only after `Done()` (`Kept`).
`ConnectionAccounting` follows from `Queued` and from the dispatcher's `Ownership`.

`ServerAnswersOwn` says that what is sent on a connection is the whole message that came on
it. `MessageInv` follows the bytes: a `Work()` that receives has in `msg` exactly the bytes
that are missing from its connection, in their places (`Serving`), and nothing was read from
or sent on a connection that no `Work()` has begun (`Fresh`). One worker's step leaves
another's bytes alone only because they serve different connections, and a connection is
served once; both are the dispatcher's `Ownership` (`OneServer`).

### Session: the first part of `SpeechSessionProofs`

From `SessionAssumption` (files of any length, any sizes of the reads):

| Theorem | States |
|---|---|
| `ClientAndServerAgree` | `Spec => []ProtocolFollowed` |
| `FileIsHeardInOrder` | `Spec => []AudioInOrder` |
| `NeverBothWait` | `Spec => []AnswerIsComing` |

The first two look at the front of a channel when somebody reads it, the third, a part of
the first, at a channel that is empty. The invariant `Conversation` says what may be behind
that front: the mode of each side (`OfMode`), how a session begins (`Opening`), that a request for audio is the server's last packet until it
is answered (`ToClient`), that the client has at most one packet on its way, of the type
the server waits for (`ToServer`), and that this packet continues what was heard
(`InOrder`). `AnswerOnItsWay` says which packet is still under way at each place where a
side waits: that a request for audio is the last of the server's packets is what makes it
survive the results that the client receives before it. That the server's test for a short answer
finds the end of the file, and no other, needs that each request asks for what `Compute`
compares the answer with (`Amounts`); `WholeFile` then says when the features may end,
and that only their end lets an online `Work()` return.

`NeverBothWait` says that the two sides never block on each other, nor the client on a
`Work()` that has returned; it may wait for a search that has lost its tokens. That the
worker becomes free otherwise is left to TLC.

### Words: the second part of `SpeechSessionProofs`

Of `Traceback`, for any set of arcs, any final states, any size of a batch and any number
of frames (the proofs use nothing of `GraphAssumption`, which limits the module to graphs
it is faithful for):

| Theorem | States |
|---|---|
| `SentIsFinal` | `TracebackSpec => []NothingTakenBack` |
| `CertainIsSent` | `TracebackSpec => []NothingHeldBack` |
| `WalksEnd` | `TracebackSpec => []WalkEnds` |
| `ReportsAreBestPath` | `TracebackSpec => []ReportIsBestPath` |

Two views of a search have to be brought together. `UpdateImmortalToken` goes back frame by
frame to where one ancestor is left; the properties speak of prefixes that all tokens
share. `TokenOf(tok, n)` says of a token of `n` frames that it has one arc with an input
label for each, so that each frame has one ancestor (`AncestorIs`), in the order of the
frames (`AncestorsOrdered`). `SharedIs` says that one ancestor is left at a frame just when
a path that ends there is a prefix of all tokens, `ArcShared` that each arc with
an input label on a shared path is such an end, and `CommonIs` that the last of them is the
longest common path, but for the arcs without input label at its end.

None of the four is inductive. `Immortal` says that the immortal token is empty or ends in
an arc with an input label, and is a prefix of every active token; a frame keeps this because
every token it leaves continues one that was there (`FrameTokens`). With it the immortal
token is among the shared ancestors (`ImmortalShared`), so that the next one continues it,
and if none is shared there was none before. `LastShared` is what `CommonIs` turns into
`NothingHeldBack`. `WordsSent` says that what was sent is the path to the immortal token;
that the pieces add up needs that the words of two paths are those of the whole
(`WordsJoined`, by induction over the arcs, from which `LatticeContinues`). `BeforeBatch` says
that the immortal token is no younger than the last batch: so the best token at the end of an
utterance is beyond it, and the last walk takes at least one arc (`BestReported`).
`TracebackInv` is their conjunction with the types; TLC found it to hold on the instance
of the run `traceback`.

### Online decoding: `OnlineDecodeProofs`, `OnlineSessionProofs`

From `DecodeAssumption` (batches of any sizes, any right context shorter than a batch, any
bounds):

| Theorem | States |
|---|---|
| `ScoresAreInReach` | `Spec => []ScoresInReach` |
| `EveryFrameIsSearched` | `Spec => []AllFramesSearched` |
| `RepeatsAreCuts` | `Spec => []OnlyCutsRepeat` |

None of the three is inductive: how often a frame was searched depends on where `frame`
stands and on whether it was a cut that brought the decoder back (`SearchHistory`), and
that no score is out of reach depends on how `frame` lies to the batch at each place of
the loop (`FramePosition`), which needs that a batch is not searched beyond its size
(`BatchNotFull`) and that the end of speech is never pending outside a frame's search
(`NoPendingEnd`). `DecodeInv` is their conjunction with the types.

From `VadAssumption` (any energies, thresholds in the order `Offset <= Recover <= Onset`,
any hangover, sizes of frames and batches), `HangoverIsKept`: `Spec => []HangoverKept`.
The detector counts a pause from its first frame below `Offset`, the property the frames
since the last one above `Recover` (`quiet`); `Counting` says how the two compare, and
`FrameCounted` that each frame keeps it. `DoVad` runs over a whole batch, so this is an
induction over the batch's frames: `UpTo` does it for a set of numbers instead of an
operator, by the least number that is not in the set, and `DoVadIs` unfolds the recursive
function.

From `VadAssumption` and `SessionAssumption`:

| Theorem | States |
|---|---|
| `SessionDecodes` | `SessionSpec => ImplementsOnlineDecode` |
| `SessionFrames` | the three theorems of `OnlineDecodeProofs` hold of the session's decoder |
| `SpeechIsDecodedBeforeCut` | `SessionSpec => []CutAfterSpeech` |
| `UnwrittenRowsEndSession` | `SessionSpec => []UnwrittenRowsAlone` |
| `SessionKeepsHangover` | `SessionSpec => []HangoverKept` |

`SessionInv` says where the decoder waits while a batch is computed (`LoadPlace`), when the
end of speech may be pending (`EndOfSpeech`), and that the first `Compute` waits for speech
(`FirstBatch`). With it each step of the session is one of `OnlineDecode` or none
(`StepSimulation`), which is what lets the theorems about that module be cited here. For the
cut, `SpeechInv` says where in the delay buffer speech can be by the count of silent
batches (`SpeechPlaces`), that it has left the buffer and was decoded when the end is told
(`SpeechGone`), which loads these were (`LoadNumbers`), and what `Compute` knows in
silence (`Silence`).

### Features: `FeaturePipelineProofs`

From `PipelineAssumption` (any context, any batch longer than the right context, any
history but an empty one, any files):

| Theorem | States |
|---|---|
| `NormalizationIsOverLatest` | `Spec => []HistoryIsLatest` |
| `OnlineFramesHaveContext` | `Spec => []OnlineRowsInContext` |
| `FileFramesHaveContext` | `Spec => []FileRowsInContext` |

The properties speak of sets and rows; the circular buffers that they come from go round
at places that have nothing to do with the batches. `Placed` says at which place of the
history each feature is, before it is full and in every later round, and `ReadyFor` of
which frames the window's rows are, the oldest first. One feature keeps each (`Cached`,
`Slid`), and so do all of a batch (`AllCached`, `AllSlid`, by induction as above). Where a
session stands is `OnlineWindow`; that the rows of a batch share one normalization needs
that `heard` is a number of whole batches (`Counts`, `SameBatch`).

### Local audio: `AudioInputProofs`

From `AudioAssumption` (any ring, blocks, frame size and shift, requests and context):

| Theorem | States |
|---|---|
| `FramesFollowStream` | `Spec => []RowsFollowStream` |
| `BatchesAreAsAsked` | `Spec => []RowsAsAsked` |
| `LossIsReported` | `Spec => []LossWasCounted` |
| `DeltaRowsHaveContext` | `Spec => []DeltaRowsInContext` |

`Stream` says that the rest of the last batch and the ring buffer are together the
samples from the next frame's first to the last one stored; a batch cuts frames off their
front, a callback adds to their end, and an overflow leaves both alone. `Reading` and
`Warned` are what one thread knows between its test and its act while the other runs: the
buffer of the caller can only have grown, that of the callback only shrunk. `DeltaInv` says
which features the window of the deltas holds between two batches (`WindowOfStream`);
`WindowsShifted` is the induction over a batch's features. The lemmas on `\div`
and `%` before them say how many frames fit into a number of samples, and that a rest
shorter than a frame remains. `RbSize` is bounded by `2^30` in `AudioAssumption` because
the constructor throws above it (`online-audio-source.cc:47-48`), and there is no ring.

### What is only model-checked

* Liveness and the fairness of the refinements: `DestructorReturns`,
  `EveryRequestAnswered`, `FileIsDecoded`, `WorkerFreedUnlessSearchDies`, `ReturnsInSpeech`,
  `SpeechEndCuts`, `LastAudioEndsSession`, `EndsUnlessSearchDies`, `ReadReturns`, and the
  fairness of `ImplementsAbstract` and `ImplementsTaskPool`. The prover has no rules
  for `ENABLED`.
* The violations of the three runs that are expected to fail.

## 5. Not modelled, and the plan

Not modelled: the arithmetic of features and acoustic scores, the costs and the pruning
of Kaldi's `FasterDecoder` (any choice of tokens stands for them), the adaptation of the
beam to the clock, `EndOfUtterance` and `TracebackNFrames` (their calls are commented
out, so nothing reaches them or `SplitToPhones`), loading of models, wording of output
and debug files.
Of the local audio: the counters that `OnlinePaSource` only logs, `OnlineUdpInput` and
`OnlineAudioInput` (which drops what it has read), and the command-line helpers.
`SpeechServer` adds two factory methods to `ThreadedServer`, and `Config` reads a file once
at start.

The modules were written in the order of the table in section 2: first the threads and
the dispatcher, on which every client depends, then the server and the session over
them, then what runs inside a session. Every invariant
that a run checks is proved. Still to be written: `SpeechServer` over `ThreadedServer`
(sessions as tasks, the models they share, and their destruction), and `Config` as a
function of its lines.
