------------------------------- MODULE AudioInput -------------------------------
(***************************************************************************)
(* The other way into the feature pipeline: features with deltas           *)
(* (OnlineDeltaInput) of the frames that OnlineFeInput cuts out of a       *)
(* source of audio, a recording (OnlineVectorSource) or the sound card     *)
(* (OnlinePaSource), whose callback is a thread of PortAudio's that fills  *)
(* a ring buffer.  speechsvr reads from its clients and with VadInput; the *)
(* classes here are those of its online-decoder for local audio.           *)
(*                                                                         *)
(* A sample is its number among those that are stored, modulo Modulus, and *)
(* a feature that of its frame's first sample.  The counters that Read     *)
(* reports in the log are left out, the callback's test for an overflow    *)
(* is not.                                                                 *)
(***************************************************************************)
EXTENDS Integers, Sequences, FiniteSets, FiniteSetsExt

CONSTANTS
    RbSize,                 \* rb_size, in bytes
    Blocks,                 \* the frame_count of a callback
    FrameSize, FrameShift,  \* samples of a frame, and between two frames
    DeltaContext,           \* window * order: frames on each side
    Requests,               \* rows that a caller may ask for
    RecordingSize,          \* samples of the recording
    Modulus                 \* bound: samples are numbered modulo this

\* The constructor refuses a larger buffer.
ASSUME AudioAssumption ==
    /\ RbSize \in 2 .. 2^30
    /\ Blocks \subseteq Nat \ {0}
    /\ FrameSize \in Nat /\ FrameShift \in 1 .. FrameSize
    /\ DeltaContext \in Nat
    /\ \A n \in Requests : n \in Nat /\ n > DeltaContext
    /\ RecordingSize \in Nat /\ Modulus \in Nat \ {0}

VARIABLES
    source,         \* "pa" or "vector"
    ring,           \* pa_ringbuf_
    stored,         \* the number of the next sample
    cb,             \* PortAudio's thread: not started, idle, or writing
    block,          \* samples that the callback brings, or has just lost
    overflow,       \* this callback has counted an overflow
    left,           \* samples from pos_ to the end of src_
    pc,             \* the caller's thread
    asked, timed,   \* rows asked for; the caller gave a timeout
    req,            \* nsamples_req
    remainder,      \* wave_remainder_
    window,         \* OnlineDeltaInput's feat_window_
    out             \* what the last Compute gave

device == <<ring, stored, cb, block, overflow>>
caller == <<pc, asked, timed, req, remainder, window, out>>
vars == <<source, device, left, caller>>

\* "will be round up to power of 2", in bytes, two for a sample.
Capacity == Min({b \in {2^k : k \in 0 .. 30} : b >= RbSize}) \div 2

Init ==
    /\ source \in {"pa", "vector"}
    /\ ring = <<>> /\ stored = 0
    /\ cb = "stopped" /\ block = 0 /\ overflow = FALSE
    /\ left = RecordingSize
    /\ pc = "idle"
    /\ asked = 0 /\ timed = FALSE /\ req = 0
    /\ remainder = <<>>
    /\ window = <<>>
    /\ out = [more |-> TRUE, timedOut |-> FALSE, first |-> 0, rows |-> <<>>,
              centre |-> 0, before |-> 0, deltas |-> <<>>]

Numbered(first, n) == [i \in 1 .. n |-> (first + i - 1) % Modulus]

-----------------------------------------------------------------------------
(* The callback                                                            *)

\* Mutant: an overflow is counted when the buffer is already full.
Overflows_WhenFull(n) == Len(ring) = Capacity

Overflows(n) == n > Capacity - Len(ring)

CallbackCheck ==
    /\ cb = "idle"
    /\ cb' = "write"
    /\ \E n \in Blocks : block' = n /\ overflow' = Overflows(n)
    /\ UNCHANGED <<source, ring, stored, left, caller>>

\* What fits is written, and the rest is lost.
CallbackWrite ==
    /\ cb = "write"
    /\ LET written == Min({block, Capacity - Len(ring)})
       IN  /\ ring' = ring \o Numbered(stored, written)
           /\ stored' = (stored + written) % Modulus
           /\ block' = block - written
    /\ cb' = "idle"
    /\ UNCHANGED <<source, overflow, left, caller>>

-----------------------------------------------------------------------------
(* OnlineFeInput and OnlineDeltaInput, after Read                          *)

\* The frames of Kaldi's extractor, which are those that fit.
NumFrames(n) == IF n < FrameSize THEN 0 ELSE 1 + (n - FrameSize) \div FrameShift

Frames(wave) ==
    [i \in 1 .. NumFrames(Len(wave)) |->
        SubSeq(wave, (i - 1) * FrameShift + 1, (i - 1) * FrameShift + FrameSize)]

\* Mutant: what one batch has left over is not in the next.
Wave_NoRemainder(samples) == samples

Wave(samples) == remainder \o samples

WindowSize == 2 * DeltaContext + 1

\* As in FeaturePipeline's InitFeatWindow, with a window that is shifted.
InitFeatWindow(feats) ==
    [i \in 1 .. WindowSize |->
        IF i - 1 <= DeltaContext THEN feats[1] ELSE feats[i - DeltaContext - 1]]

ShiftUp(w, feat) == Append(Tail(w), feat)

\* Mutant: the first row is made one feature too early.
CurFeat_Early == IF window = <<>> THEN DeltaContext - 1 ELSE 0

\* The feature that the first row of the batch ends with, from 0.
CurFeat == IF window = <<>> THEN DeltaContext ELSE 0

\* A short batch is dropped when it has nothing, or comes first and does not
\* fill a window.
Dropped(feats) ==
    /\ Len(feats) # asked
    /\ feats = <<>> \/ (Len(feats) < WindowSize /\ window = <<>>)

RowsGiven(feats) == IF Dropped(feats) THEN 0 ELSE Len(feats) - CurFeat

\* The window behind each row of the batch, and before the first.
Windows(feats) ==
    LET after[i \in 0 .. RowsGiven(feats)] ==
          IF i > 0 THEN ShiftUp(after[i - 1], feats[CurFeat + i])
          ELSE IF window = <<>> /\ ~Dropped(feats) THEN InitFeatWindow(feats)
          ELSE window
    IN  after

Plus(sample, frames) == (sample + frames * FrameShift) % Modulus

\* The rows of both inputs, and where the caller's streams of them stand.
Return(samples, more, timedOut) ==
    LET wave == Wave(samples)
        rows == Frames(wave)
        feats == [i \in DOMAIN rows |-> rows[i][1]]
    IN  /\ remainder' = SubSeq(wave, Len(rows) * FrameShift + 1, Len(wave))
        /\ window' = Windows(feats)[RowsGiven(feats)]
        /\ out' = [more |-> more, timedOut |-> timedOut,
                   first |-> Plus(out.first, Len(out.rows)), rows |-> rows,
                   centre |-> IF window = <<>> /\ feats # <<>> THEN feats[1]
                              ELSE Plus(out.centre, Len(out.deltas)),
                   before |-> Min({DeltaContext, out.before + Len(out.deltas)}),
                   deltas |-> [i \in 1 .. RowsGiven(feats) |-> Windows(feats)[i]]]

\* No frame fits: Kaldi's extractor throws, or gives a matrix without rows.
NoFrame(samples) == Len(Wave(samples)) < FrameSize

Receive(samples, more, timedOut) ==
    \/ Return(samples, more, timedOut) /\ pc' = "idle"
    \/ NoFrame(samples) /\ pc' = "thrown" /\ UNCHANGED <<remainder, window, out>>

-----------------------------------------------------------------------------
(* The caller                                                              *)

SamplesReq(nvec) == FrameSize + (nvec - 1) * FrameShift - Len(remainder)

\* Compute comes down to Read; the first Read starts the stream.
Call ==
    /\ pc = "idle" /\ out.more
    /\ asked' \in Requests
    /\ timed' \in BOOLEAN
    /\ req' = SamplesReq(asked')
    /\ pc' = "read"
    /\ cb' = IF source = "pa" /\ cb = "stopped" THEN "idle" ELSE cb
    /\ UNCHANGED <<source, ring, stored, block, overflow, left, remainder, window, out>>

\* Mutant: more must be there than is asked for.
Enough_Strict == Len(ring) > req

Enough == Len(ring) >= req

\* Read looks at the buffer every two milliseconds ...
Poll ==
    /\ source = "pa" /\ pc = "read"
    /\ Enough
    /\ pc' = "take"
    /\ UNCHANGED <<source, device, left, asked, timed, req, remainder, window, out>>

\* ... until the timeout, when it takes what is there.
Timeout ==
    /\ source = "pa" /\ pc = "read"
    /\ ~Enough /\ timed
    /\ req' = Len(ring)
    /\ pc' = "expired"
    /\ UNCHANGED <<source, device, left, asked, timed, remainder, window, out>>

Take ==
    /\ pc \in {"take", "expired"}
    /\ ring' = SubSeq(ring, req + 1, Len(ring))
    /\ Receive(SubSeq(ring, 1, req), TRUE, pc = "expired")
    /\ UNCHANGED <<source, stored, cb, block, overflow, left, asked, timed, req>>

\* Mutant: a Read that cannot be filled reads nothing.
VectorTakes_All == IF left >= req THEN req ELSE 0

VectorTakes == Min({left, req})

\* The recording has no timeout.
VectorRead ==
    /\ source = "vector" /\ pc = "read"
    /\ Receive(Numbered(stored, VectorTakes), VectorTakes = req, FALSE)
    /\ left' = left - VectorTakes
    /\ stored' = (stored + VectorTakes) % Modulus
    /\ UNCHANGED <<source, ring, cb, block, overflow, asked, timed, req>>

\* The recording is over, or the extractor has thrown.
Ended == (pc = "thrown" \/ ~out.more) /\ UNCHANGED vars

Read == Poll \/ Timeout \/ Take \/ VectorRead

Callback == CallbackCheck \/ CallbackWrite

Next == Call \/ Read \/ Callback \/ Ended

\* The sound card delivers, and the caller's thread runs.
Spec == Init /\ [][Next]_vars /\ WF_vars(Callback) /\ WF_vars(Read)

-----------------------------------------------------------------------------
(* Properties.                                                             *)

\* online-feat-input.cc:242-260: whatever the batches, the timeouts and the
\* blocks of the device, the frames of all batches are those of the samples
\* stored, each FrameShift behind the one before it.
RowsFollowStream ==
    out.rows = [i \in DOMAIN out.rows |-> Numbered(Plus(out.first, i - 1), FrameSize)]

\* online-feat-input.cc:264-266: a batch is short only after a timeout or at the
\* end of the recording, and FALSE means that end.
RowsAsAsked ==
    pc = "idle" =>
        /\ Len(out.rows) < asked => out.timedOut \/ ~out.more
        /\ ~out.more => source = "vector" /\ left = 0

\* online-audio-source.cc:130-135: the caller may read between the callback's test
\* and its write, but samples are only lost after an overflow was counted
\* (if there are to be reports).
LossWasCounted == cb = "idle" /\ block > 0 => overflow

\* The row of deltas around a feature, the k-th after the first one kept.
Around(feat, k) ==
    [j \in 1 .. WindowSize |-> Plus(feat, Max({-k, j - 1 - DeltaContext}))]

\* online-feat-input.cc:159-199: only batches before the first window are dropped:
\* from then on each feature has one row, with its neighbours in the earlier
\* and the later batches.
DeltaRowsInContext ==
    out.deltas = [i \in DOMAIN out.deltas |->
                    Around(Plus(out.centre, i - 1), Min({DeltaContext, out.before + i - 1}))]

\* online-audio-source.h:37-38: Read returns if it has a timeout, or asks for no more
\* than the ring buffer can hold (a request for more blocks for ever).
ReadReturns == pc = "read" /\ (timed \/ req <= Capacity) ~> pc # "read"
================================================================================
