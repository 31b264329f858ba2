-------------------------------- MODULE VadInput --------------------------------
(***************************************************************************)
(* OnlineVadFeInput (speechsvr/online-decoder/online-vad.cc): a delay      *)
(* buffer between the audio source and the extraction of features.  New    *)
(* samples enter at its back, where SimpleEnergyVad judges them frame by   *)
(* frame; features are computed at its front, while there is speech.  A    *)
(* listener is told when speech starts and ends.                           *)
(*                                                                         *)
(* Samples are represented by their positions in the buffer, frames by     *)
(* their energy.  The source is RemoteAudioSource: the client leaves with  *)
(* its last samples, which may be fewer than the Read asked for or just    *)
(* as many, and another Read ends the process (SpeechSession).  The values *)
(* of features are left out.                                               *)
(***************************************************************************)
EXTENDS Integers

CONSTANTS
    FrameSize, FrameShift,  \* of the frames, in samples
    NVec,           \* rows of the matrix that Compute is to fill
    Delay,          \* the constructor's buffer_length
    Energies,       \* energies of frames
    Onset, Offset, Recover, \* the detector's thresholds
    HangoverFrames  \* hangover_frames_

\* The thresholds are ordered as in vad.conf.
ASSUME VadAssumption ==
    /\ FrameShift \in Nat \ {0} /\ FrameSize \in Nat /\ FrameSize >= FrameShift
    /\ NVec \in Nat \ {0}
    /\ NVec * FrameShift >= FrameSize
    /\ Delay \in Nat
    /\ Energies \subseteq Nat
    /\ Offset \in Nat /\ Recover \in Nat /\ Onset \in Nat
    /\ Offset <= Recover /\ Recover <= Onset
    /\ HangoverFrames \in Nat

VARIABLES
    pc,             \* where Compute is
    buffered,       \* buffer_init_
    detector,       \* SimpleEnergyVad: state_ and hangover_counter_
    batchVad,       \* batchVad_
    lastBatchVad,   \* lastBatchVad, of the current turn of the loop
    hangoverCount,  \* hangoverCount_, in samples
    more,           \* what the last Compute returned
    sourceEnded,    \* the last samples were read
    filled,         \* this Compute has written its matrix (history)
    spoken,         \* where the batches judged to be speech are (history)
    resumed,        \* speech went on after a pause in it (history)
    quiet,          \* frames since the last above Recover (history, capped)
    tooSoon         \* the detector fell silent before its hangover (history)

vadVars == <<detector, batchVad, lastBatchVad, hangoverCount>>
history == <<spoken, resumed, quiet, tooSoon>>
vars == <<pc, buffered, vadVars, more, sourceEnded, filled, history>>

Places == {"called", "vad", "extract", "read", "returned", "exited"}

VadState == {"kSilence", "kEndingSpeech", "kSpeech"}

\* Compute's lengths, in samples.
batch_size == FrameSize + (NVec - 1) * FrameShift
frame_overlap == FrameSize - FrameShift
samples_req == batch_size - frame_overlap
BufferLength == Delay + batch_size

\* The frames in n samples (Kaldi's NumFrames).
NumFrames(n) == IF n < FrameSize THEN 0 ELSE (n - FrameSize) \div FrameShift + 1

Init ==
    /\ pc = "called"
    /\ buffered = FALSE
    /\ detector = [state |-> "kSilence", hangover |-> 0]
    /\ batchVad = FALSE
    /\ lastBatchVad = FALSE
    /\ hangoverCount = 0
    /\ more = TRUE
    /\ sourceEnded = FALSE
    /\ filled = FALSE
    /\ spoken = {}
    /\ resumed = FALSE
    /\ quiet = 0
    /\ tooSoon = FALSE

-----------------------------------------------------------------------------
(* SimpleEnergyVad                                                         *)

\* Mutant: the counter is not reset when speech seems to end.
NewHangover_Kept(d) == d.hangover

NewHangover(d) == 0

\* The detector after one more frame.
Process(d, energy) ==
    CASE d.state = "kSilence" /\ energy > Onset -> [d EXCEPT !.state = "kSpeech"]
      [] d.state = "kSpeech" /\ energy < Offset ->
           [state |-> "kEndingSpeech", hangover |-> NewHangover(d)]
      [] d.state = "kEndingSpeech" /\ energy > Recover -> [d EXCEPT !.state = "kSpeech"]
      [] d.state = "kEndingSpeech" /\ energy <= Recover ->
           [state |-> IF d.hangover > HangoverFrames THEN "kSilence" ELSE d.state,
            hangover |-> d.hangover + 1]
      [] OTHER -> d

Quieter(n, energy) == IF energy > Recover THEN 0
                      ELSE IF n < HangoverFrames + 3 THEN n + 1 ELSE n

\* The detector, and what is counted, after one more frame.
JudgeFrame(so_far, energy) ==
    LET d == Process(so_far.detector, energy)
        q == Quieter(so_far.quiet, energy)
    IN  [detector |-> d,
         speech |-> so_far.speech + (IF d.state = "kSilence" THEN 0 ELSE 1),
         quiet |-> q,
         tooSoon |-> \/ so_far.tooSoon
                     \/ /\ so_far.detector.state # "kSilence"
                        /\ d.state = "kSilence"
                        /\ q < HangoverFrames + 3]

NoFrame == [detector |-> detector, speech |-> 0, quiet |-> quiet, tooSoon |-> FALSE]

\* DoVad: the frames of the new batch, one after another.
DoVad(energy) ==
    LET after[i \in 0 .. NumFrames(samples_req)] ==
          IF i = 0 THEN NoFrame ELSE JudgeFrame(after[i - 1], energy[i])
    IN  after[NumFrames(samples_req)]

-----------------------------------------------------------------------------
(* OnlineVadFeInput::Compute                                               *)

\* The first Compute fills the buffer; how much it receives is not looked at.
FillBuffer ==
    /\ pc = "called" /\ ~buffered
    /\ sourceEnded' \in BOOLEAN
    /\ buffered' = TRUE
    /\ pc' = "vad"
    /\ UNCHANGED <<vadVars, more, filled, history>>

LaterCompute ==
    /\ pc = "called" /\ buffered
    /\ pc' = "vad"
    /\ UNCHANGED <<buffered, vadVars, more, sourceEnded, filled, history>>

\* Mutant: the constructor's buffer_length, before the first Compute's batch is
\* added to it.
LongPause_Delay(samples) == samples > Delay

LongPause(samples) == samples > BufferLength

\* The listener is told the end of speech when batchVad_ is left FALSE, and
\* the start when it becomes TRUE; a pause is none as long as all of them
\* together are shorter than the buffer.
Notify(vad) ==
    IF ~batchVad /\ vad
      THEN /\ batchVad' = TRUE
           /\ hangoverCount' = 0
      ELSE IF batchVad /\ ~vad
        THEN /\ hangoverCount' = hangoverCount + samples_req
             /\ batchVad' = ~LongPause(hangoverCount')
        ELSE UNCHANGED <<batchVad, hangoverCount>>

\* The new batch at the back is judged: speech, if more than .3 of its frames.
JudgeBatch ==
    /\ pc = "vad"
    /\ \E energy \in [1 .. NumFrames(samples_req) -> Energies] :
         LET judged == DoVad(energy)
             vad == 10 * judged.speech > 3 * NumFrames(samples_req)
         IN  /\ detector' = judged.detector
             /\ quiet' = judged.quiet
             /\ tooSoon' = judged.tooSoon
             /\ Notify(vad)
             /\ spoken' = IF vad THEN spoken \cup {BufferLength - samples_req} ELSE spoken
             /\ resumed' = IF ~batchVad /\ vad THEN FALSE
                           ELSE resumed \/ (vad /\ BufferLength - 2 * samples_req \notin spoken)
    /\ lastBatchVad' = batchVad
    /\ pc' = "extract"
    /\ UNCHANGED <<buffered, more, sourceEnded, filled>>

Extracts == lastBatchVad \/ batchVad

\* The features of the front, if required, and the front is dropped.
ExtractAndShift ==
    /\ pc = "extract"
    /\ filled' = (filled \/ Extracts)
    /\ spoken' = {p - samples_req : p \in {s \in spoken : s > 0}}
    /\ pc' = "read"
    /\ UNCHANGED <<buffered, vadVars, more, sourceEnded, resumed, quiet, tooSoon>>

\* Mutant: the loop's condition without its negation.
LoopAgain_Negated(full) == (lastBatchVad \/ batchVad) /\ full

LoopAgain(full) == ~(lastBatchVad \/ batchVad) /\ full

\* The next batch from the source, in full or not; each may be the last, and
\* one that is not full is.
ReadBatch ==
    /\ pc = "read" /\ ~sourceEnded
    /\ \E full \in BOOLEAN :
         /\ sourceEnded' \in {TRUE, ~full}
         /\ IF LoopAgain(full)
              THEN pc' = "vad" /\ UNCHANGED more
              ELSE pc' = "returned" /\ more' = full
    /\ UNCHANGED <<buffered, vadVars, filled, history>>

\* The client has gone: Receive ends the process.
ReadFails ==
    /\ pc = "read" /\ sourceEnded
    /\ pc' = "exited"
    /\ UNCHANGED <<buffered, vadVars, more, sourceEnded, filled, history>>

\* The decodable asks for the next batch of features.
CallAgain ==
    /\ pc = "returned" /\ more
    /\ pc' = "called"
    /\ filled' = FALSE
    /\ UNCHANGED <<buffered, vadVars, more, sourceEnded, history>>

Ended ==
    /\ pc = "exited" \/ (pc = "returned" /\ ~more)
    /\ UNCHANGED vars

Compute == FillBuffer \/ LaterCompute \/ JudgeBatch \/ ExtractAndShift \/ ReadBatch \/ ReadFails

Next == Compute \/ CallAgain \/ Ended

\* The thread runs, and the client answers each Read or leaves.
Spec == Init /\ [][Next]_vars /\ WF_vars(Compute)

-----------------------------------------------------------------------------
(* Properties.                                                             *)

TypeOK ==
    /\ pc \in Places
    /\ buffered \in BOOLEAN /\ more \in BOOLEAN /\ sourceEnded \in BOOLEAN
    /\ detector \in [state : VadState, hangover : 0 .. HangoverFrames + 2]
    /\ batchVad \in BOOLEAN /\ lastBatchVad \in BOOLEAN
    /\ hangoverCount \in 0 .. BufferLength + samples_req
    /\ filled \in BOOLEAN
    /\ \A p \in spoken : p > -samples_req /\ p <= BufferLength - samples_req

\* online-vad.cc:60-72: the detector takes speech for ended only after a frame
\* below the offset threshold and hangover_frames_ + 2 more, none of which is
\* above the recover threshold, counted anew in each pause.
HangoverKept == ~tooSoon

\* online-vad.cc:227, "blocked until speech": while there is speech, a Compute
\* returns (or the client has left).
ReturnsInSpeech == pc = "vad" /\ batchVad ~> pc \in {"returned", "exited"}
==================================================================================
