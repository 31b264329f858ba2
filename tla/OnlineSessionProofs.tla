--------------------------- MODULE OnlineSessionProofs ---------------------------
(***************************************************************************)
(* Theorems about VadInput and OnlineSession, for any energies,            *)
(* thresholds, sizes of frames, batches and the delay buffer, and any      *)
(* hangover.                                                               *)
(*                                                                         *)
(* DoVad runs a recursive function over the frames of a batch.  What holds *)
(* of it before the first frame and is kept by each (FrameCounted) holds   *)
(* behind the last: UpTo is that induction, for a set of numbers in place  *)
(* of an operator, from the least number that is not in the set.           *)
(*                                                                         *)
(* SessionInv is about where the decoder waits while a batch is computed,  *)
(* and when the end of speech may be pending; with it each step of the     *)
(* session is one of OnlineDecode, or none (StepSimulation), and what      *)
(* OnlineDecodeProofs proves holds of the session's decoder.  SpeechInv is *)
(* about the speech in the delay buffer, and the load it was decoded in.   *)
(***************************************************************************)
EXTENDS OnlineSession, WellFoundedInduction, TLAPS

-----------------------------------------------------------------------------
(* Induction, and the recursion of DoVad.                                  *)

\* The order of the natural numbers is well founded.
LEMMA NatOrder ==
  \E R : IsWellFoundedOn(R, Nat) /\ \A x, y \in Nat : y < x => <<y, x>> \in R
<1> DEFINE R == OpToRel(<, Nat)
<1>1. IsWellFoundedOn(R, Nat)
  BY NatLessThanWellFounded
<1>2. \A x, y \in Nat : y < x => <<y, x>> \in R
  BY DEF OpToRel
<1> HIDE DEF R
<1> QED
  BY <1>1, <1>2, Zenon

\* A set of natural numbers has a least element.
LEMMA Least ==
  ASSUME NEW T \in SUBSET Nat, T # {}
  PROVE  \E x \in T : \A y \in T : x <= y
<1>1. PICK R : IsWellFoundedOn(R, Nat) /\ \A x, y \in Nat : y < x => <<y, x>> \in R
  BY NatOrder, Zenon
<1>2. PICK x \in T : \A y \in T : ~(<<y, x>> \in R)
  BY <1>1, WFMin
<1>3. ASSUME NEW y \in T PROVE x <= y
  <2>1. x \in Nat /\ y \in Nat
    OBVIOUS
  <2>2. ~(y < x)
    BY <1>1, <1>2, <2>1, Zenon
  <2> QED
    BY <2>1, <2>2
<1> QED
  BY <1>3

\* Induction up to N, for the numbers of which something is true.
LEMMA UpTo ==
  ASSUME NEW N \in Nat, NEW S, 0 \in S,
         \A n \in 1 .. N : n - 1 \in S => n \in S
  PROVE  0 .. N \subseteq S
<1> DEFINE T == (0 .. N) \ S
<1> SUFFICES ASSUME T # {} PROVE FALSE
  OBVIOUS
<1>1. T \in SUBSET Nat
  OBVIOUS
<1>2. PICK x \in T : \A y \in T : x <= y
  BY <1>1, Least
<1> QED
  BY <1>2

-----------------------------------------------------------------------------

LEMMA FrameLengths == /\ NumFrames(samples_req) \in Nat
                      /\ samples_req \in Nat /\ samples_req > 0
                      /\ BufferLength \in Nat /\ BufferLength > 0
<1> USE VadAssumption
<1>1. NVec * FrameShift \in Nat /\ NVec * FrameShift > 0
  OBVIOUS
<1>2. samples_req = NVec * FrameShift
  <2>1. (NVec - 1) * FrameShift = NVec * FrameShift - FrameShift
    OBVIOUS
  <2> QED
    BY <2>1 DEF samples_req, batch_size, frame_overlap
<1>3. BufferLength \in Nat /\ BufferLength > 0
  <2>1. (NVec - 1) * FrameShift \in Nat
    OBVIOUS
  <2> QED
    BY <2>1 DEF BufferLength, batch_size
<1>4. NumFrames(samples_req) \in Nat
  <2>1. \A n \in Nat : n \div FrameShift \in Nat
    OBVIOUS
  <2>2. samples_req - FrameSize \in Nat
    BY <1>1, <1>2
  <2> QED
    BY <2>1, <2>2 DEF NumFrames
<1> QED
  BY <1>1, <1>2, <1>3, <1>4

\* The recursion of DoVad over the frames defines a function.
LEMMA DoVadIs ==
  ASSUME NEW energy
  PROVE  \E f : /\ f = [i \in 0 .. NumFrames(samples_req) |->
                           IF i = 0 THEN NoFrame ELSE JudgeFrame(f[i - 1], energy[i])]
                /\ DoVad(energy) = f[NumFrames(samples_req)]
<1> DEFINE N == NumFrames(samples_req)
           Is(f, n) == f = [i \in 0 .. n |->
                              IF i = 0 THEN NoFrame ELSE JudgeFrame(f[i - 1], energy[i])]
           S == {n \in Nat : \E f : Is(f, n)}
<1>1. N \in Nat
  BY FrameLengths
<1>2. 0 \in S
  <2> DEFINE g == [i \in 0 .. 0 |-> NoFrame]
  <2>1. Is(g, 0)
    OBVIOUS
  <2> QED
    BY <2>1
<1>3. ASSUME NEW n \in 1 .. N, n - 1 \in S PROVE n \in S
  <2>1. PICK f : Is(f, n - 1)
    BY <1>3
  <2> DEFINE g == [i \in 0 .. n |-> IF i = n THEN JudgeFrame(f[n - 1], energy[n]) ELSE f[i]]
  <2>2. Is(g, n)
    <3>1. ASSUME NEW i \in 0 .. n
          PROVE  g[i] = IF i = 0 THEN NoFrame ELSE JudgeFrame(g[i - 1], energy[i])
      BY <1>1, <2>1
    <3> QED
      BY <3>1
  <2>3. \E h : Is(h, n)
    <3> HIDE DEF g, Is
    <3> QED
      BY <2>2
  <2> QED
    BY <1>1, <2>3
<1>4. \E f : Is(f, N)
  <2>1. N \in S
    <3> HIDE DEF S, N
    <3> QED BY <1>1, <1>2, <1>3, UpTo
  <2> QED
    BY <2>1
<1> QED
  BY <1>4 DEF DoVad

-----------------------------------------------------------------------------
(* The detector's hangover.                                                *)

\* In a pause, the detector has counted no more frames than there were since
\* the last above Recover.
Counting(d, n) ==
    /\ d \in [state : VadState, hangover : 0 .. HangoverFrames + 2]
    /\ n \in 0 .. HangoverFrames + 3
    /\ d.state = "kEndingSpeech" => d.hangover < n /\ d.hangover <= HangoverFrames + 1

LEMMA FrameCounted ==
  ASSUME NEW d, NEW n, Counting(d, n), NEW energy \in Energies
  PROVE  /\ Counting(Process(d, energy), Quieter(n, energy))
         /\ d.state # "kSilence" /\ Process(d, energy).state = "kSilence" =>
              Quieter(n, energy) = HangoverFrames + 3
<1> USE VadAssumption DEF Counting, VadState, Quieter
<1>0. energy \in Nat /\ d.state \in VadState /\ d.hangover \in Nat
  OBVIOUS
<1>1. CASE d.state = "kSilence"
  BY <1>0, <1>1 DEF Process
<1>2. CASE d.state = "kSpeech"
  BY <1>0, <1>2 DEF Process, NewHangover
<1>3. CASE d.state = "kEndingSpeech" /\ energy > Recover
  BY <1>0, <1>3 DEF Process
<1>4. CASE d.state = "kEndingSpeech" /\ energy <= Recover
  BY <1>0, <1>4 DEF Process
<1> QED
  BY <1>0, <1>1, <1>2, <1>3, <1>4

DetectorInv == Counting(detector, quiet) /\ ~tooSoon

\* All frames of a batch.
LEMMA BatchCounted ==
  ASSUME DetectorInv, NEW energy \in [1 .. NumFrames(samples_req) -> Energies]
  PROVE  /\ Counting(DoVad(energy).detector, DoVad(energy).quiet)
         /\ ~DoVad(energy).tooSoon
<1> DEFINE N == NumFrames(samples_req)
           Good(a) == Counting(a.detector, a.quiet) /\ ~a.tooSoon
<1>1. PICK f : /\ f = [i \in 0 .. N |->
                          IF i = 0 THEN NoFrame ELSE JudgeFrame(f[i - 1], energy[i])]
               /\ DoVad(energy) = f[N]
  BY DoVadIs
<1> DEFINE S == {i \in 0 .. N : Good(f[i])}
<1>2. N \in Nat
  BY FrameLengths
<1>3. 0 \in S
  BY <1>1, <1>2 DEF NoFrame, DetectorInv
<1>4. ASSUME NEW i \in 1 .. N, i - 1 \in S PROVE i \in S
  <2>1. f[i] = JudgeFrame(f[i - 1], energy[i])
    BY <1>1, <1>2
  <2>2. energy[i] \in Energies
    OBVIOUS
  <2>3. Counting(f[i - 1].detector, f[i - 1].quiet) /\ ~f[i - 1].tooSoon
    BY <1>4
  <2>4. /\ f[i].detector = Process(f[i - 1].detector, energy[i])
        /\ f[i].quiet = Quieter(f[i - 1].quiet, energy[i])
        /\ f[i].tooSoon <=>
             \/ f[i - 1].tooSoon
             \/ /\ f[i - 1].detector.state # "kSilence"
                /\ Process(f[i - 1].detector, energy[i]).state = "kSilence"
                /\ Quieter(f[i - 1].quiet, energy[i]) < HangoverFrames + 3
    BY <2>1 DEF JudgeFrame
  <2>5. Good(f[i])
    <3>1. Counting(f[i].detector, f[i].quiet)
      BY <2>2, <2>3, <2>4, FrameCounted
    <3>2. f[i - 1].detector.state # "kSilence" /\ f[i].detector.state = "kSilence" =>
            f[i].quiet = HangoverFrames + 3
      BY <2>2, <2>3, <2>4, FrameCounted
    <3>3. ~f[i].tooSoon
      BY <2>3, <2>4, <3>2, VadAssumption
    <3> QED
      BY <3>1, <3>3
  <2> QED
    BY <2>5, <1>2
<1>5. N \in S
  <2> HIDE DEF S, N
  <2> QED
    BY <1>2, <1>3, <1>4, UpTo
<1> QED
  BY <1>1, <1>5

LEMMA DetectorInit == Init => DetectorInv
  BY VadAssumption DEF Init, DetectorInv, Counting, VadState

LEMMA DetectorNext == DetectorInv /\ [Next]_vars => DetectorInv'
<1> SUFFICES ASSUME DetectorInv, [Next]_vars PROVE DetectorInv'
  OBVIOUS
<1>1. CASE JudgeBatch
  <2>1. PICK energy \in [1 .. NumFrames(samples_req) -> Energies] :
            /\ detector' = DoVad(energy).detector
            /\ quiet' = DoVad(energy).quiet
            /\ tooSoon' = DoVad(energy).tooSoon
    BY <1>1 DEF JudgeBatch
  <2> QED
    BY <2>1, BatchCounted DEF DetectorInv, Counting
<1>2. CASE UNCHANGED <<detector, quiet, tooSoon>>
  BY <1>2 DEF DetectorInv, Counting
<1> QED
  BY <1>1, <1>2
  DEF Next, Compute, FillBuffer, LaterCompute, ExtractAndShift, ReadBatch, ReadFails,
      CallAgain, Ended, vars, vadVars, history

\* The detector takes speech for ended only after hangover_frames_ + 3 frames
\* without one above the recover threshold, whatever the energies are, however
\* many frames a batch has and wherever in its batches the pauses begin.
THEOREM HangoverIsKept == Spec => []HangoverKept
<1>1. DetectorInv => HangoverKept
  BY DEF DetectorInv, HangoverKept
<1> QED
  BY <1>1, DetectorInit, DetectorNext, PTL DEF Spec

-----------------------------------------------------------------------------
(* The decoder behind the detector.                                        *)

\* OnlineDecode's theorems, for the decoder of the session.
Frames == INSTANCE OnlineDecodeProofs WITH
    pc <- dpc, FeatBatch <- NVec, forcingEndUtt <- forcingEndUtt /\ ~loading

SessionTypes ==
    /\ batchVad \in BOOLEAN /\ lastBatchVad \in BOOLEAN
    /\ loading \in BOOLEAN /\ forcingEndUtt \in BOOLEAN /\ finished \in BOOLEAN
    /\ frame \in Nat /\ featOffset \in Nat /\ rows \in Nat /\ loads \in Nat

\* While a batch is computed, the search waits at the frame behind the last one.
LoadPlace ==
    loading =>
        /\ dpc = "frame" /\ alive /\ Decoder!InDecodeLoop
        /\ frame >= featOffset + rows /\ ~finished

\* The end of speech is told in the turn of the loop in which Compute returns,
\* not in the first batch, and the search takes it up at once.
EndOfSpeech ==
    forcingEndUtt =>
        IF loading
          THEN /\ loads > 0 /\ lastBatchVad /\ ~batchVad
               /\ pc \in {"extract", "read", "returned", "exited"}
          ELSE dpc = "search"

\* The first Compute waits for speech.
FirstBatch == loads = 0 /\ pc \in {"called", "vad"} => ~batchVad

SessionInv == SessionTypes /\ LoadPlace /\ EndOfSpeech /\ FirstBatch

-----------------------------------------------------------------------------
(* The steps.                                                              *)

\* A step of the decoder with the scores at hand loads nothing.
LEMMA DecoderLoadsNothing ==
  ASSUME SessionTypes, DecoderStep
  PROVE  UNCHANGED batchVars
<1> USE DEF batchVars, Decoder!decodableVars
<1>1. CASE Decoder!SearchFrame
  <2>1. CASE Decoder!LoadBatch
    <3>1. CASE frame >= featOffset + rows
      <4>1. ~finished
        BY <1>1, <3>1
        DEF Decoder!SearchFrame, Decoder!InDecodeLoop, Decoder!IsLastFrame, SessionTypes
      <4>2. dpc' = "search" /\ loads' # loads
        BY <2>1, <4>1 DEF Decoder!LoadBatch, SessionTypes
      <4> QED
        BY <4>2 DEF DecoderStep
    <3>2. CASE ~(frame >= featOffset + rows)
      BY <1>1, <3>2 DEF Decoder!SearchFrame, Decoder!ScoresAtHand
    <3> QED
      BY <3>1, <3>2
  <2>2. CASE Decoder!ScoresAtHand
    BY <2>2 DEF Decoder!ScoresAtHand
  <2> QED
    BY <1>1, <2>1, <2>2 DEF Decoder!SearchFrame
<1>2. CASE Decoder!StartDecode \/ Decoder!SearchNothing \/ Decoder!EndUtterance
           \/ Decoder!NextFrame \/ Decoder!EndDecode \/ Decoder!Report
  BY <1>2
  DEF Decoder!StartDecode, Decoder!SearchNothing, Decoder!ScoresAtHand, Decoder!EndUtterance,
      Decoder!NextFrame, Decoder!EndDecode, Decoder!Report
<1> QED
  BY <1>1, <1>2 DEF DecoderStep, Decoder!Step

\* Only the step that cuts an utterance touches forcingEndUtt_.
LEMMA DecoderCuts ==
  ASSUME SessionTypes, DecoderStep
  PROVE  \/ /\ dpc = "search" /\ forcingEndUtt /\ ~forcingEndUtt'
            /\ forcingEndUtt' \in BOOLEAN
            /\ dpc' = "report" /\ state' = "kEndUtt" /\ cutLoad' = loads
         \/ /\ dpc = "search" => ~forcingEndUtt
            /\ forcingEndUtt' = forcingEndUtt /\ cutLoad' = cutLoad
            /\ ~(dpc' = "report" /\ state' = "kEndUtt")
<1>1. CASE Decoder!EndUtterance
  BY <1>1 DEF Decoder!EndUtterance, DecoderStep
<1>2. CASE Decoder!SearchFrame
  <2>1. Decoder!ScoresAtHand
    BY <1>2, DecoderLoadsNothing DEF Decoder!SearchFrame, Decoder!LoadBatch, batchVars, SessionTypes
  <2> QED
    BY <1>2, <2>1 DEF Decoder!SearchFrame, Decoder!ScoresAtHand, DecoderStep
<1>3. CASE Decoder!StartDecode \/ Decoder!SearchNothing
           \/ Decoder!NextFrame \/ Decoder!EndDecode \/ Decoder!Report
  BY <1>3
  DEF DecoderStep, Decoder!StartDecode, Decoder!SearchNothing, Decoder!ScoresAtHand,
      Decoder!NextFrame, Decoder!EndDecode, Decoder!Report, Decoder!decoderVars
<1> QED
  BY <1>1, <1>2, <1>3 DEF DecoderStep, Decoder!Step

\* What the detector has found decides whether a batch is speech.
LEMMA Judged ==
  ASSUME JudgeBatch
  PROVE  \E vad \in BOOLEAN :
            /\ Notify(vad)
            /\ spoken' = IF vad THEN spoken \cup {BufferLength - samples_req} ELSE spoken
            /\ resumed' = IF ~batchVad /\ vad THEN FALSE
                          ELSE resumed \/ (vad /\ BufferLength - 2 * samples_req \notin spoken)
<1>1. PICK energy :
         LET judged == DoVad(energy)
             vad == 10 * judged.speech > 3 * NumFrames(samples_req)
         IN  /\ Notify(vad)
             /\ spoken' = IF vad THEN spoken \cup {BufferLength - samples_req} ELSE spoken
             /\ resumed' = IF ~batchVad /\ vad THEN FALSE
                           ELSE resumed \/ (vad /\ BufferLength - 2 * samples_req \notin spoken)
  BY DEF JudgeBatch
<1> DEFINE vad == IF 10 * DoVad(energy).speech > 3 * NumFrames(samples_req) THEN TRUE ELSE FALSE
<1>2. vad \in BOOLEAN
  OBVIOUS
<1>3. vad <=> 10 * DoVad(energy).speech > 3 * NumFrames(samples_req)
  OBVIOUS
<1> HIDE DEF vad
<1> QED
  BY <1>1, <1>2, <1>3 DEF Notify

\* What a Compute step does to the voice detector's flags.
LEMMA ComputeTurns ==
  ASSUME SessionTypes, Compute
  PROVE  /\ batchVad' \in BOOLEAN /\ lastBatchVad' \in BOOLEAN
         /\ \/ /\ pc = "called" /\ pc' = "vad" /\ UNCHANGED <<batchVad, lastBatchVad>>
            \/ /\ pc = "vad" /\ pc' = "extract" /\ lastBatchVad' = batchVad
            \/ /\ pc = "extract" /\ pc' = "read" /\ UNCHANGED <<batchVad, lastBatchVad>>
            \/ /\ pc = "read" /\ pc' \in {"vad", "returned", "exited"}
               /\ pc' = "vad" => ~batchVad /\ ~lastBatchVad
               /\ UNCHANGED <<batchVad, lastBatchVad>>
<1> USE DEF SessionTypes, vadVars
<1>1. CASE JudgeBatch
  <2>1. PICK vad \in BOOLEAN : Notify(vad)
    BY <1>1, Judged
  <2>2. batchVad' \in BOOLEAN
    BY <2>1 DEF Notify
  <2> QED
    BY <1>1, <2>2 DEF JudgeBatch
<1>2. CASE FillBuffer \/ LaterCompute \/ ExtractAndShift \/ ReadFails
  BY <1>2 DEF FillBuffer, LaterCompute, ExtractAndShift, ReadFails
<1>3. CASE ReadBatch
  BY <1>3 DEF ReadBatch, LoopAgain
<1> QED
  BY <1>1, <1>2, <1>3 DEF Compute

LEMMA SessionInitInv == SessionInit => SessionInv
<1> SUFFICES ASSUME SessionInit PROVE SessionInv
  OBVIOUS
<1>1. SessionTypes
  BY DEF SessionInit, Init, Decoder!Init, SessionTypes
<1>2. LoadPlace /\ EndOfSpeech /\ FirstBatch
  BY DEF SessionInit, Init, Decoder!Init, LoadPlace, EndOfSpeech, FirstBatch
<1> QED
  BY <1>1, <1>2 DEF SessionInv

LEMMA SessionNextInv == SessionInv /\ [SessionNext]_sessionVars => SessionInv'
<1> SUFFICES ASSUME SessionInv, [SessionNext]_sessionVars PROVE SessionInv'
  OBVIOUS
<1> USE SessionAssumption DEF SessionInv, SessionTypes, LoadPlace, EndOfSpeech, FirstBatch
<1>1. CASE DecoderStep
  <2>1. UNCHANGED batchVars
    BY <1>1, DecoderLoadsNothing
  <2>2. frame' \in Nat
    BY <1>1
    DEF DecoderStep, Decoder!Step, Decoder!StartDecode, Decoder!FirstFrame,
        Decoder!SearchFrame, Decoder!SearchNothing, Decoder!EndUtterance,
        Decoder!NextFrame, Decoder!EndDecode, Decoder!Report, Decoder!decoderVars
  <2> QED
    BY <1>1, <2>1, <2>2, DecoderCuts DEF DecoderStep, batchVars, vars, vadVars
<1>2. CASE StartLoad
  BY <1>2 DEF StartLoad, CallAgain, onlineVars, batchVars, vars, vadVars, Decoder!InDecodeLoop,
     Decoder!IsLastFrame
<1>3. CASE ComputeStep
  <2>1. UNCHANGED <<dpc, frame, batchFrame, alive, batchVars, loading>>
    BY <1>3 DEF ComputeStep
  <2>2. IF batchVad /\ ~batchVad' THEN forcingEndUtt' = TRUE ELSE forcingEndUtt' = forcingEndUtt
    BY <1>3 DEF ComputeStep, OnSpeechEnd
  <2>3. loading /\ Compute
    BY <1>3 DEF ComputeStep
  <2>4. SessionTypes'
    BY <2>1, <2>2, <2>3, ComputeTurns DEF batchVars
  <2>5. LoadPlace'
    BY <2>1, <2>3 DEF batchVars, Decoder!InDecodeLoop, Decoder!IsLastFrame
  <2>6. EndOfSpeech'
    <3>1. CASE forcingEndUtt
      BY <2>1, <2>3, <3>1, ComputeTurns DEF batchVars
    <3>2. CASE batchVad /\ ~batchVad'
      <4>1. pc = "vad" /\ pc' = "extract" /\ lastBatchVad'
        BY <2>3, <3>2, ComputeTurns
      <4> QED
        BY <2>1, <2>3, <3>2, <4>1 DEF batchVars
    <3> QED
      BY <2>2, <3>1, <3>2
  <2>7. FirstBatch'
    BY <2>1, <2>3, ComputeTurns DEF batchVars
  <2> QED
    BY <2>4, <2>5, <2>6, <2>7
<1>4. CASE FinishLoad
  <2>1. Decoder!LoadBatch
    BY <1>4 DEF FinishLoad, Decoder!SearchFrame, Decoder!ScoresAtHand, Decoder!decodableVars
  <2>2. dpc' = "search" /\ loads' = loads + 1 /\ rows' \in Nat /\ featOffset' \in Nat
    BY <1>4, <2>1, VadAssumption DEF FinishLoad, Decoder!LoadBatch, Decoder!NextOffset
  <2>3. frame' = frame /\ ~loading' /\ loading' \in BOOLEAN /\ finished' \in BOOLEAN
    BY <1>4, <2>1 DEF FinishLoad, Decoder!SearchFrame, Decoder!LoadBatch
  <2> QED
    BY <1>4, <2>2, <2>3 DEF FinishLoad, vars, vadVars
<1>5. CASE UNCHANGED sessionVars
  BY <1>5 DEF sessionVars, onlineVars, batchVars, vars, vadVars, Decoder!InDecodeLoop,
     Decoder!IsLastFrame
<1> QED
  BY <1>1, <1>2, <1>3, <1>4, <1>5 DEF SessionNext, Work, SessionEnded

LEMMA SessionSpecInv == SessionSpec => []SessionInv
  BY SessionInitInv, SessionNextInv, PTL DEF SessionSpec

-----------------------------------------------------------------------------
(* The session's decoder is OnlineDecode.                                  *)

\* A batch is computed unseen and loaded in the step that goes on; the other
\* steps of the decoder are OnlineDecode's own.
LEMMA StepSimulation ==
  SessionInv /\ [SessionNext]_sessionVars => [Online!Next]_(Online!vars)
<1> SUFFICES ASSUME SessionInv, [SessionNext]_sessionVars
             PROVE  [Online!Next]_(Online!vars)
  OBVIOUS
<1> USE DEF SessionInv, SessionTypes
<1>0. ASSUME UNCHANGED <<dpc, state, frame, uttFrames, batchFrame, alive, batchVars,
                         searched, cuts>>,
             (forcingEndUtt /\ ~loading)' = (forcingEndUtt /\ ~loading)
      PROVE  [Online!Next]_(Online!vars)
  BY <1>0 DEF batchVars, Online!vars, Online!decoderVars, Online!decodableVars,
              Online!historyVars
<1>1. CASE DecoderStep
  <2>0. /\ (forcingEndUtt /\ ~loading) = forcingEndUtt
        /\ (forcingEndUtt /\ ~loading)' = forcingEndUtt'
    <3>1. forcingEndUtt' \in BOOLEAN
      BY <1>1, DecoderCuts
    <3> QED
      BY <1>1, <3>1 DEF DecoderStep
  <2> USE <2>0 DEF Decoder!decoderVars, Decoder!decodableVars, Decoder!historyVars,
        Online!decoderVars, Online!decodableVars, Online!historyVars
  <2>1. CASE Decoder!StartDecode
    BY <2>1 DEF Decoder!StartDecode, Decoder!FirstFrame, Online!StartDecode,
                Online!FirstFrame, Online!Next, Online!Step
  <2>2. CASE Decoder!SearchFrame
    <3>1. ~Decoder!LoadBatch
      BY <1>1, DecoderLoadsNothing DEF Decoder!LoadBatch, batchVars
    <3>2. Decoder!ScoresAtHand
      BY <2>2, <3>1 DEF Decoder!SearchFrame
    <3> QED
      BY <2>2, <3>1, <3>2
      DEF Decoder!SearchFrame, Decoder!ScoresAtHand, Decoder!InDecodeLoop, Decoder!IsLastFrame,
          Online!SearchFrame, Online!ScoresAtHand, Online!InDecodeLoop, Online!IsLastFrame,
          Online!Next, Online!Step
  <2>3. CASE Decoder!SearchNothing
    BY <2>3
    DEF Decoder!SearchNothing, Decoder!ScoresAtHand, Decoder!InDecodeLoop, Decoder!IsLastFrame,
        Online!SearchNothing, Online!ScoresAtHand, Online!InDecodeLoop, Online!IsLastFrame,
        Online!Next, Online!Step
  <2>4. CASE Decoder!EndUtterance
    BY <2>4 DEF Decoder!EndUtterance, Online!EndUtterance, Online!Next, Online!Step
  <2>5. CASE Decoder!NextFrame
    BY <2>5 DEF Decoder!NextFrame, Online!NextFrame, Online!Next, Online!Step
  <2>6. CASE Decoder!EndDecode
    BY <2>6
    DEF Decoder!EndDecode, Decoder!InDecodeLoop, Decoder!IsLastFrame,
        Online!EndDecode, Online!InDecodeLoop, Online!IsLastFrame, Online!Next, Online!Step
  <2>7. CASE Decoder!Report
    BY <2>7 DEF Decoder!Report, Online!Report, Online!Next, Online!Step
  <2> QED
    BY <1>1, <2>1, <2>2, <2>3, <2>4, <2>5, <2>6, <2>7 DEF DecoderStep, Decoder!Step
<1>2. CASE StartLoad
  BY <1>0, <1>2 DEF StartLoad, onlineVars, EndOfSpeech
<1>3. CASE ComputeStep
  BY <1>0, <1>3 DEF ComputeStep
\* The end of speech becomes visible with the batch.
<1>4. CASE FinishLoad
  <2>1. Decoder!LoadBatch /\ frame >= featOffset + rows
    BY <1>4 DEF FinishLoad, Decoder!SearchFrame, Decoder!ScoresAtHand, Decoder!decodableVars
  <2>2. Online!LoadBatch
    BY <1>4, <2>1
    DEF FinishLoad, EndOfSpeech, Decoder!LoadBatch, Decoder!NextOffset,
        Online!LoadBatch, Online!NextOffset
  <2> QED
    BY <1>4, <2>1, <2>2
    DEF FinishLoad, Decoder!SearchFrame, Decoder!InDecodeLoop, Decoder!IsLastFrame,
        Decoder!ScoresAtHand, Decoder!decodableVars,
        Online!SearchFrame, Online!InDecodeLoop, Online!IsLastFrame, Online!Next, Online!Step
<1>5. CASE UNCHANGED sessionVars
  BY <1>0, <1>5 DEF sessionVars, onlineVars
<1> QED
  BY <1>1, <1>2, <1>3, <1>4, <1>5 DEF SessionNext, Work, SessionEnded

\* Behind the voice detector, the decoder does what OnlineDecode says a decoder
\* does with any source of features, whatever the sizes of frames, batches
\* and the delay buffer are: the end of speech reaches it at most once in a
\* load, with the batch, and never in the first one.
THEOREM SessionDecodes == SessionSpec => ImplementsOnlineDecode
<1>1. SessionInit => Online!Init
  BY DEF SessionInit, Decoder!Init, Online!Init, Decoder!Frames, Online!Frames
<1> QED
  BY <1>1, SessionSpecInv, StepSimulation, PTL DEF SessionSpec, ImplementsOnlineDecode

\* The two instances of OnlineDecode are the same.
LEMMA SameDecoder == [Online!Next]_(Online!vars) => [Frames!Next]_(Frames!vars)
<1> USE DEF Online!decoderVars, Online!decodableVars, Online!historyVars,
        Frames!decoderVars, Frames!decodableVars, Frames!historyVars
<1>1. Online!StartDecode => Frames!StartDecode
  BY DEF Online!StartDecode, Online!FirstFrame,
         Frames!StartDecode, Frames!FirstFrame
<1>2. Online!SearchFrame => Frames!SearchFrame
  BY DEF Online!SearchFrame, Online!LoadBatch, Online!ScoresAtHand, Online!NextOffset,
         Online!InDecodeLoop, Online!IsLastFrame,
         Frames!SearchFrame, Frames!LoadBatch, Frames!ScoresAtHand, Frames!NextOffset,
         Frames!InDecodeLoop, Frames!IsLastFrame
<1>3. Online!SearchNothing => Frames!SearchNothing
  BY DEF Online!SearchNothing, Online!ScoresAtHand, Online!InDecodeLoop, Online!IsLastFrame,
         Frames!SearchNothing, Frames!ScoresAtHand, Frames!InDecodeLoop, Frames!IsLastFrame
<1>4. Online!EndUtterance => Frames!EndUtterance
  BY DEF Online!EndUtterance,
         Frames!EndUtterance
<1>5. Online!NextFrame => Frames!NextFrame
  BY DEF Online!NextFrame,
         Frames!NextFrame
<1>6. Online!EndDecode => Frames!EndDecode
  BY DEF Online!EndDecode, Online!InDecodeLoop, Online!IsLastFrame,
         Frames!EndDecode, Frames!InDecodeLoop, Frames!IsLastFrame
<1>7. Online!Report => Frames!Report
  BY DEF Online!Report,
         Frames!Report
<1>8. Online!Ended => Frames!Ended
  BY DEF Online!Ended, Online!InDecodeLoop, Online!IsLastFrame, Online!vars,
         Frames!Ended, Frames!InDecodeLoop, Frames!IsLastFrame, Frames!vars
<1>9. UNCHANGED Online!vars => UNCHANGED Frames!vars
  BY DEF Online!vars, Frames!vars
<1> QED
  BY <1>1, <1>2, <1>3, <1>4, <1>5, <1>6, <1>7, <1>8, <1>9
  DEF Online!Next, Online!Step, Frames!Next, Frames!Step

\* What OnlineDecode's frames keep to, they keep to in the session: no request
\* for scores is out of bounds, no frame is left out, and only a frame that
\* cut an utterance is searched again.
FramesOfSession ==
    Frames!ScoresInReach /\ Frames!AllFramesSearched /\ Frames!OnlyCutsRepeat

THEOREM SessionFrames == SessionSpec => []FramesOfSession
<1>1. Frames!DecodeAssumption
  BY VadAssumption, SessionAssumption DEF Frames!DecodeAssumption
<1>2. SessionInit => Frames!Init
  BY DEF SessionInit, Decoder!Init, Frames!Init, Decoder!Frames, Frames!Frames
<1>3. Frames!Init => Frames!DecodeInv
  BY <1>1, Frames!InitInv
<1>4. Frames!DecodeInv /\ [Frames!Next]_(Frames!vars) => Frames!DecodeInv'
  BY <1>1, Frames!NextInv
<1>5. Frames!DecodeInv => FramesOfSession
  BY <1>1, Frames!FramesInOrder DEF FramesOfSession
<1> QED
  BY <1>2, <1>3, <1>4, <1>5, SameDecoder, SessionSpecInv, StepSimulation, PTL DEF SessionSpec

-----------------------------------------------------------------------------
(* Utterances are cut behind their speech.                                 *)

\* The newest batch in the delay buffer that has been judged.
Newest == IF pc = "extract" THEN BufferLength - samples_req
                            ELSE BufferLength - 2 * samples_req

\* Speech is in the buffer, and behind all silence that was counted: unless
\* speech went on after a pause, the count is the distance of the last speech
\* from the newest batch.
SpeechPlaces ==
    /\ \A p \in spoken : p \in Int /\ p > -samples_req /\ p <= Newest
    /\ batchVad /\ ~resumed => \A p \in spoken : p <= Newest - hangoverCount
    /\ hangoverCount \in Nat /\ resumed \in BOOLEAN

\* When the end of speech is told, its speech has left the buffer, and was
\* decoded in an earlier load.
SpeechGone ==
    forcingEndUtt =>
        \/ resumed
        \/ /\ spoken = {}
           /\ IF loading THEN speechLoad <= loads ELSE speechLoad < loads

\* How far the session has loaded.
LoadNumbers ==
    /\ speechLoad \in Nat /\ cutLoad \in Nat
    /\ cutLoad <= loads /\ speechLoad <= loads + 1
    /\ ~loading \/ pc \in {"called", "vad", "extract"} => speechLoad <= loads
    /\ pc = "read" /\ speechLoad > loads => batchVad \/ lastBatchVad

\* What Compute knows of speech: silence after speech has cut it, or will now,
\* and a matrix that is not filled is the last one.
Silence ==
    /\ ~batchVad => speechLoad = 0 \/ cutLoad >= speechLoad \/ forcingEndUtt
    /\ pc = "extract" /\ lastBatchVad /\ ~batchVad => forcingEndUtt
    /\ ~loading => pc \in {"called", "returned"}
    /\ ~filled =>
          /\ pc \in {"read", "returned", "exited"} => ~batchVad /\ ~lastBatchVad
          /\ pc = "returned" => ~more

SpeechInv ==
    SpeechPlaces /\ SpeechGone /\ LoadNumbers /\ Silence
        /\ CutAfterSpeech /\ UnwrittenRowsAlone

LEMMA SpeechInitInv == SessionInit => SpeechInv
<1> SUFFICES ASSUME SessionInit PROVE SpeechInv
  OBVIOUS
<1> USE DEF SessionInit, Init, Decoder!Init
<1>1. SpeechPlaces /\ SpeechGone
  BY DEF SpeechPlaces, SpeechGone
<1>2. LoadNumbers /\ Silence
  BY DEF LoadNumbers, Silence
<1>3. CutAfterSpeech /\ UnwrittenRowsAlone
  BY DEF CutAfterSpeech, JustCut, UnwrittenRowsAlone
<1> QED
  BY <1>1, <1>2, <1>3 DEF SpeechInv

\* The decoder cuts an utterance, or changes nothing that matters here.
LEMMA SpeechDecoderStep ==
  ASSUME SessionInv, SpeechInv, DecoderStep
  PROVE  SpeechInv'
<1> USE DEF SessionInv, SessionTypes, EndOfSpeech, SpeechInv
<1>1. UNCHANGED <<loads, finished>>
  BY DecoderLoadsNothing DEF batchVars
<1>2. UNCHANGED <<pc, batchVad, lastBatchVad, hangoverCount, more, filled, spoken, resumed,
                  loading, speechLoad, blank>> /\ ~loading
  BY DEF DecoderStep, vars, vadVars, history
<1>3. SpeechPlaces'
  BY <1>2 DEF SpeechPlaces, Newest
<1>4. SpeechGone' /\ LoadNumbers' /\ Silence'
  BY <1>1, <1>2, DecoderCuts DEF SpeechGone, LoadNumbers, Silence
<1>5. CutAfterSpeech' /\ UnwrittenRowsAlone'
  BY <1>1, <1>2, DecoderCuts
  DEF CutAfterSpeech, JustCut, UnwrittenRowsAlone, SpeechGone, LoadNumbers
<1> QED
  BY <1>3, <1>4, <1>5

\* A new batch of samples is judged.
LEMMA SpeechJudged ==
  ASSUME SessionInv, SpeechInv, ComputeStep, JudgeBatch
  PROVE  SpeechInv'
<1> USE DEF SessionInv, SessionTypes, EndOfSpeech, SpeechInv
<1>1. PICK vad \in BOOLEAN :
        /\ Notify(vad)
        /\ spoken' = IF vad THEN spoken \cup {BufferLength - samples_req} ELSE spoken
        /\ resumed' = IF ~batchVad /\ vad THEN FALSE
                      ELSE resumed \/ (vad /\ BufferLength - 2 * samples_req \notin spoken)
  BY Judged
<1>2. /\ pc = "vad" /\ pc' = "extract" /\ lastBatchVad' = batchVad /\ loading
      /\ UNCHANGED <<more, filled, dpc, state, loads, finished, loading, speechLoad, cutLoad,
                     blank>>
  BY DEF ComputeStep, JudgeBatch, batchVars
<1>3. IF batchVad /\ ~batchVad' THEN forcingEndUtt' = TRUE ELSE forcingEndUtt' = forcingEndUtt
  BY DEF ComputeStep, OnSpeechEnd
<1>4. samples_req \in Nat /\ samples_req > 0 /\ BufferLength \in Nat /\ BufferLength > 0
  BY FrameLengths
<1>5. ~forcingEndUtt
  BY <1>2
<1>6. /\ Newest = BufferLength - 2 * samples_req
      /\ Newest' = BufferLength - samples_req
      /\ Newest \in Int /\ Newest' \in Int /\ Newest' = Newest + samples_req
  BY <1>2, <1>4 DEF Newest
\* All the speech was so long ago that it has left the buffer.
<1>7. batchVad /\ ~batchVad' => resumed' \/ spoken' = {}
  <2> SUFFICES ASSUME batchVad, ~batchVad', ~resumed, NEW p \in spoken
               PROVE  FALSE
    BY <1>1 DEF Notify
  <2>1. hangoverCount + samples_req > BufferLength
    BY <1>1 DEF Notify, LongPause
  <2>2. p \in Int /\ p <= Newest - hangoverCount /\ p > -samples_req
    BY DEF SpeechPlaces
  <2> QED
    BY <2>1, <2>2, <1>4, <1>6 DEF SpeechPlaces
<1>8. \A p \in spoken' : p \in Int /\ p > -samples_req /\ p <= Newest'
  <2> SUFFICES ASSUME NEW p \in spoken' PROVE p \in Int /\ p > -samples_req /\ p <= Newest'
    OBVIOUS
  <2>1. p \in spoken \/ p = Newest'
    BY <1>1, <1>6
  <2>2. CASE p \in spoken
    BY <2>2, <1>4, <1>6 DEF SpeechPlaces
  <2> QED
    BY <2>1, <2>2, <1>4, <1>6
<1>9. hangoverCount' \in Nat /\ resumed' \in BOOLEAN /\ batchVad' \in BOOLEAN
  <2>1. hangoverCount' \in Nat
    BY <1>1, <1>4 DEF Notify, SpeechPlaces
  <2>2. batchVad' \in BOOLEAN
    BY <1>1 DEF Notify
  <2>3. resumed' \in BOOLEAN
    <3>1. CASE ~batchVad /\ vad
      BY <1>1, <3>1
    <3>2. CASE ~(~batchVad /\ vad)
      <4>1. resumed' = (resumed \/ (vad /\ BufferLength - 2 * samples_req \notin spoken))
        BY <1>1, <3>2
      <4> QED
        BY <4>1, Zenon
    <3> QED
      BY <3>1, <3>2
  <2> QED
    BY <2>1, <2>2, <2>3
<1>10. batchVad' /\ ~resumed' => \A p \in spoken' : p <= Newest' - hangoverCount'
  <2> SUFFICES ASSUME batchVad', ~resumed', NEW p \in spoken'
               PROVE  p <= Newest' - hangoverCount'
    OBVIOUS
  <2>1. CASE ~batchVad
    <3>1. hangoverCount' = 0
      BY <1>1, <2>1 DEF Notify
    <3> QED
      BY <3>1, <1>6, <1>8
  <2>2. CASE batchVad /\ ~vad
    BY <1>1, <1>4, <1>6, <2>2 DEF Notify, SpeechPlaces
  <2>3. CASE batchVad /\ vad
    <3>1. Newest \in spoken /\ ~resumed /\ hangoverCount' = hangoverCount
      BY <1>1, <1>6, <2>3 DEF Notify
    <3>2. hangoverCount = 0
      BY <3>1, <2>3, <1>6 DEF SpeechPlaces
    <3> QED
      BY <3>1, <3>2, <1>6, <1>8
  <2> QED
    BY <1>1, <2>1, <2>2, <2>3
<1>11. SpeechPlaces'
  BY <1>4, <1>8, <1>9, <1>10 DEF SpeechPlaces
<1>12. SpeechGone'
  BY <1>2, <1>3, <1>5, <1>7 DEF SpeechGone, LoadNumbers
<1>13. LoadNumbers' /\ Silence'
  BY <1>2, <1>3, <1>9 DEF LoadNumbers, Silence
<1>14. CutAfterSpeech' /\ UnwrittenRowsAlone'
  BY <1>2 DEF CutAfterSpeech, JustCut, UnwrittenRowsAlone, LoadPlace
<1> QED
  BY <1>11, <1>12, <1>13, <1>14

\* The front of the buffer is decoded, if required, and dropped.
LEMMA SpeechShifted ==
  ASSUME SessionInv, SpeechInv, ComputeStep, ExtractAndShift
  PROVE  SpeechInv'
<1> USE DEF SessionInv, SessionTypes, EndOfSpeech, SpeechInv
<1>1. /\ pc = "extract" /\ pc' = "read" /\ loading
      /\ filled' = (filled \/ Extracts)
      /\ spoken' = {p - samples_req : p \in {q \in spoken : q > 0}}
      /\ speechLoad' = IF Extracts /\ \E p \in spoken : p < samples_req
                         THEN loads + 1 ELSE speechLoad
      /\ UNCHANGED <<batchVad, lastBatchVad, hangoverCount, more, resumed, dpc, state, loads,
                     finished, loading, cutLoad, blank>>
  BY DEF ComputeStep, ExtractAndShift, vadVars, batchVars
<1>2. forcingEndUtt' = forcingEndUtt
  BY <1>1 DEF ComputeStep, OnSpeechEnd
<1>3. samples_req \in Nat /\ samples_req > 0 /\ BufferLength \in Nat
  BY FrameLengths
<1>4. SpeechPlaces'
  <2>1. /\ Newest \in Int /\ Newest' = Newest - samples_req
    BY <1>1, <1>3 DEF Newest
  <2>2. \A p \in spoken' : p + samples_req \in spoken /\ p \in Int /\ p > -samples_req
    BY <1>1, <1>3 DEF SpeechPlaces
  <2>3. hangoverCount \in Nat
    BY DEF SpeechPlaces
  <2>4. ASSUME NEW p \in spoken'
        PROVE  p <= Newest' /\ (batchVad /\ ~resumed => p <= Newest' - hangoverCount)
    BY <1>3, <2>1, <2>2, <2>3 DEF SpeechPlaces
  <2> QED
    BY <1>1, <1>3, <2>2, <2>3, <2>4 DEF SpeechPlaces
<1>5. spoken = {} => spoken' = {} /\ speechLoad' = speechLoad
  BY <1>1
<1>6. SpeechGone'
  BY <1>1, <1>2, <1>5 DEF SpeechGone
<1>7. LoadNumbers'
  BY <1>1 DEF LoadNumbers, Extracts
<1>8. Silence'
  BY <1>1, <1>2 DEF Silence, LoadNumbers, Extracts
<1>9. CutAfterSpeech'
  BY <1>1 DEF CutAfterSpeech, JustCut, LoadPlace
<1>10. UnwrittenRowsAlone'
  BY <1>1 DEF UnwrittenRowsAlone, LoadPlace
<1> QED
  BY <1>4, <1>6, <1>7, <1>8, <1>9, <1>10

\* The first samples, and the next ones.
LEMMA SpeechRead ==
  ASSUME SessionInv, SpeechInv, ComputeStep,
         FillBuffer \/ LaterCompute \/ ReadBatch \/ ReadFails
  PROVE  SpeechInv'
<1> USE DEF SessionInv, SessionTypes, EndOfSpeech, SpeechInv
<1>1. /\ loading /\ pc # "extract" /\ pc' # "extract"
      /\ UNCHANGED <<batchVad, lastBatchVad, hangoverCount, filled, spoken, resumed, dpc, state,
                     loads, finished, loading, speechLoad, cutLoad, blank>>
  BY DEF ComputeStep, FillBuffer, LaterCompute, ReadBatch, ReadFails, vadVars, history, batchVars
<1>2. forcingEndUtt' = forcingEndUtt
  BY <1>1 DEF ComputeStep, OnSpeechEnd
<1>3. \/ pc = "called" /\ pc' = "vad"
      \/ /\ pc = "read" /\ pc' \in {"vad", "returned", "exited"}
         /\ pc' = "vad" => ~lastBatchVad /\ ~batchVad
         /\ pc' = "returned" => lastBatchVad \/ batchVad \/ ~more'
  BY DEF FillBuffer, LaterCompute, ReadBatch, ReadFails, LoopAgain
<1>4. SpeechPlaces' /\ SpeechGone'
  BY <1>1, <1>2 DEF SpeechPlaces, SpeechGone, Newest
<1>5. LoadNumbers'
  BY <1>1, <1>3 DEF LoadNumbers
<1>6. Silence'
  BY <1>1, <1>2, <1>3 DEF Silence
<1>7. CutAfterSpeech' /\ UnwrittenRowsAlone'
  BY <1>1 DEF CutAfterSpeech, JustCut, UnwrittenRowsAlone
<1> QED
  BY <1>4, <1>5, <1>6, <1>7

LEMMA SpeechNextInv ==
  SessionInv /\ SpeechInv /\ [SessionNext]_sessionVars => SpeechInv'
<1> SUFFICES ASSUME SessionInv, SpeechInv, [SessionNext]_sessionVars PROVE SpeechInv'
  OBVIOUS
<1> USE DEF SessionInv, SessionTypes, SpeechInv
<1>1. CASE DecoderStep
  BY <1>1, SpeechDecoderStep
<1>2. CASE StartLoad
  <2>1. /\ ~loading /\ loading' /\ dpc = "frame"
        /\ pc' = "called" /\ pc \in {"called", "returned"}
        /\ UNCHANGED <<batchVad, lastBatchVad, hangoverCount, spoken, resumed, onlineVars,
                       loadHistory>>
    BY <1>2 DEF StartLoad, CallAgain, vars, vadVars, history, Silence
  <2>2. UNCHANGED <<dpc, state, forcingEndUtt, loads, finished, speechLoad, cutLoad, blank>>
    BY <2>1 DEF onlineVars, batchVars, loadHistory
  <2>3. SpeechPlaces' /\ SpeechGone'
    BY <2>1, <2>2 DEF SpeechPlaces, SpeechGone, Newest, EndOfSpeech
  <2>4. LoadNumbers' /\ Silence'
    BY <2>1, <2>2 DEF LoadNumbers, Silence
  <2>5. CutAfterSpeech' /\ UnwrittenRowsAlone'
    BY <2>1, <2>2 DEF CutAfterSpeech, JustCut, UnwrittenRowsAlone
  <2> QED
    BY <2>3, <2>4, <2>5
<1>3. CASE ComputeStep
  BY <1>3, SpeechJudged, SpeechShifted, SpeechRead DEF ComputeStep, Compute
<1>4. CASE FinishLoad
  <2>1. Decoder!LoadBatch
    BY <1>4 DEF FinishLoad, Decoder!SearchFrame, Decoder!ScoresAtHand, Decoder!decodableVars
  <2>2. /\ loading /\ ~loading' /\ pc = "returned" /\ dpc' = "search"
        /\ loads' = loads + 1 /\ finished' = ~more /\ blank' = ~filled
        /\ UNCHANGED <<pc, batchVad, lastBatchVad, hangoverCount, more, filled, spoken, resumed,
                       forcingEndUtt, speechLoad, cutLoad>>
    BY <1>4, <2>1
    DEF FinishLoad, LoadPlace, Decoder!LoadBatch, vars, vadVars, history
  <2>3. SpeechPlaces' /\ SpeechGone'
    BY <2>2 DEF SpeechPlaces, SpeechGone, Newest, LoadNumbers
  <2>4. LoadNumbers' /\ Silence'
    BY <2>2 DEF LoadNumbers, Silence
  <2>5. CutAfterSpeech'
    BY <2>2 DEF CutAfterSpeech, JustCut
  <2>6. UnwrittenRowsAlone'
    BY <2>2 DEF UnwrittenRowsAlone, Silence, EndOfSpeech
  <2> QED
    BY <2>3, <2>4, <2>5, <2>6
<1>5. CASE UNCHANGED sessionVars
  <2> USE <1>5 DEF sessionVars, onlineVars, batchVars, loadHistory, vars, vadVars, history
  <2>1. SpeechPlaces' /\ SpeechGone'
    BY DEF SpeechPlaces, SpeechGone, Newest
  <2>2. LoadNumbers' /\ Silence'
    BY DEF LoadNumbers, Silence
  <2>3. CutAfterSpeech' /\ UnwrittenRowsAlone'
    BY DEF CutAfterSpeech, JustCut, UnwrittenRowsAlone
  <2> QED
    BY <2>1, <2>2, <2>3
<1> QED
  BY <1>1, <1>2, <1>3, <1>4, <1>5 DEF SessionNext, Work, SessionEnded

LEMMA SessionSpecSpeech == SessionSpec => []SpeechInv
  BY SpeechInitInv, SessionSpecInv, SpeechNextInv, PTL DEF SessionSpec

\* When an utterance is cut, its speech has left the delay buffer and has been
\* decoded, whatever the length of the buffer and of the batches, unless the
\* speech went on after a pause.
THEOREM SpeechIsDecodedBeforeCut == SessionSpec => []CutAfterSpeech
  BY SessionSpecSpeech, PTL DEF SpeechInv

\* A matrix that Compute returned without writing it is the last of the
\* session, and no utterance with speech is open that it could be added to.
THEOREM UnwrittenRowsEndSession == SessionSpec => []UnwrittenRowsAlone
  BY SessionSpecSpeech, PTL DEF SpeechInv

\* The detector keeps its hangover in a session, too.
THEOREM SessionKeepsHangover == SessionSpec => []HangoverKept
<1>1. SessionInit => DetectorInv
  BY DetectorInit DEF SessionInit
<1>2. [SessionNext]_sessionVars => [Next]_vars
  BY DEF SessionNext, Work, DecoderStep, StartLoad, ComputeStep, FinishLoad, SessionEnded,
         sessionVars, Next
<1>3. DetectorInv => HangoverKept
  BY DEF DetectorInv, HangoverKept
<1> QED
  BY <1>1, <1>2, <1>3, DetectorNext, PTL DEF SessionSpec
==================================================================================
