------------------------------ MODULE OnlineDecode ------------------------------
(***************************************************************************)
(* The decoding loop of one online session: DecodeWorker::OnlineDecode     *)
(* calls OnlineFasterDecoder::Decode (online-faster-decoder.cc), which     *)
(* searches frame by frame, and asks OnlineDecodableDiagGmmScaled          *)
(* (online-decodable.cc) for the scores of a frame, which loads the next   *)
(* batch of features when the frame is not in the one it has.  While a     *)
(* batch is computed the voice detector may call ForceEndUtterance, from   *)
(* inside the search of a frame.                                           *)
(*                                                                         *)
(* Scores, tokens and the adaptation of the beam are left out; all that is *)
(* left of the search is whether it has tokens (alive).  Frames are        *)
(* numbered from 0.                                                        *)
(***************************************************************************)
EXTENDS Integers

CONSTANTS
    FeatBatch,      \* rows that the decodable asks for: its batch_size_
    DecodeBatch,    \* frames that one Decode searches: opts_.batch_size
    RightContext,   \* rows that OnlineLdaInput holds back of the first batch
    MaxLoads,       \* bound: batches of features in the session
    MaxFrames       \* bound: a search without tokens is followed this far

ASSUME DecodeAssumption ==
    /\ FeatBatch \in Nat /\ DecodeBatch \in Nat \ {0}
    /\ RightContext \in Nat /\ RightContext < FeatBatch
    /\ MaxLoads \in Nat \ {0}
    /\ MaxFrames \in Nat

VARIABLES
    pc,             \* where the thread is
    state,          \* state_: what the last Decode returned
    frame,          \* frame_
    uttFrames,      \* utt_frames_
    batchFrame,     \* batch_frame of the current Decode
    forcingEndUtt,  \* forcingEndUtt_
    alive,          \* the search has tokens
    featOffset,     \* feat_offset_
    rows,           \* feat_matrix_.NumRows()
    finished,       \* finished_
    loads,          \* batches loaded so far (history; bounded)
    searched,       \* how often ProcessEmitting was called for a frame (history)
    cuts            \* frames at which the end of an utterance was forced (history)

decoderVars == <<state, frame, uttFrames, batchFrame, forcingEndUtt, alive>>
decodableVars == <<featOffset, rows, finished, loads>>
historyVars == <<searched, cuts>>
vars == <<pc, decoderVars, decodableVars, historyVars>>

DecodeState == {"kEndFeats", "kEndUtt", "kEndBatch"}

\* "decode", "report" and "done" are places of OnlineDecode, "frame" and
\* "search" of Decode;  "aborted": the assertion of LogLikelihood failed.
Places == {"decode", "frame", "search", "report", "done", "aborted"}

Frames == 0 .. MaxFrames

Init ==
    /\ pc = "decode"
    /\ state = "kEndFeats"
    /\ frame = 0
    /\ uttFrames = 0
    /\ batchFrame = 0
    /\ forcingEndUtt = FALSE
    /\ alive = FALSE
    /\ featOffset = 0
    /\ rows = 0
    /\ finished = FALSE
    /\ loads = 0
    /\ searched = [f \in Frames |-> 0]
    /\ cuts = {}

-----------------------------------------------------------------------------

\* Mutants: off by one, one frame early and one frame late.
IsLastFrame_Early(f) == finished /\ f >= featOffset + rows - 2
IsLastFrame_Late(f) == finished /\ f > featOffset + rows - 1

\* OnlineDecodableDiagGmmScaled::IsLastFrame.
IsLastFrame(f) == finished /\ f >= featOffset + rows - 1

\* Mutant: the end of an utterance resets the frame too (ResetDecoder(true)).
FirstFrame_Zero == 0

\* ResetDecoder: the frame goes on, unless the features had ended.
FirstFrame == IF state = "kEndFeats" THEN 0 ELSE frame

\* Decode, first lines: after the end of an utterance a new search starts
\* from one token, and after the end of the features from frame 0.
StartDecode ==
    /\ pc = "decode"
    /\ IF state \in {"kEndFeats", "kEndUtt"}
         THEN /\ frame' = FirstFrame
              /\ uttFrames' = 0
              /\ alive' = TRUE
         ELSE UNCHANGED <<frame, uttFrames, alive>>
    /\ batchFrame' = 0
    /\ pc' = "frame"
    /\ UNCHANGED <<state, forcingEndUtt, decodableVars, historyVars>>

InDecodeLoop == ~IsLastFrame(frame - 1) /\ batchFrame < DecodeBatch

\* Mutant: the new batch starts after itself (NumRows taken after Resize).
NextOffset_NewSize == featOffset + rows'

NextOffset == featOffset + rows

\* LogLikelihood of a frame behind the batch: the next one is computed, which
\* may be the last.  Its computation may force the end of the utterance, but
\* not while the first one waits for speech.
LoadBatch ==
    /\ pc' = IF finished THEN "aborted" ELSE "search"
    /\ rows' = IF loads = 0 THEN FeatBatch - RightContext ELSE FeatBatch
    /\ featOffset' = NextOffset
    /\ loads' = loads + 1
    /\ finished' \in {last \in BOOLEAN : loads' = MaxLoads => last}
    /\ UNCHANGED forcingEndUtt \/ (loads > 0 /\ forcingEndUtt' = TRUE)

\* The scores are in the batch.
ScoresAtHand ==
    /\ pc' = "search"
    /\ UNCHANGED <<decodableVars, forcingEndUtt>>

\* ProcessEmitting of a search with tokens asks for scores of the frame,
\* unless no arc of them emits; then no token is left.  No token is left
\* either when no score compares (features that are not numbers).
SearchFrame ==
    /\ pc = "frame" /\ InDecodeLoop
    /\ alive
    /\ \/ /\ IF frame >= featOffset + rows THEN LoadBatch ELSE ScoresAtHand
          /\ alive' \in BOOLEAN
       \/ ScoresAtHand /\ alive' = FALSE
    /\ searched' = [searched EXCEPT ![frame] = @ + 1]
    /\ UNCHANGED <<state, frame, uttFrames, batchFrame, cuts>>

\* ProcessEmitting without tokens asks for nothing.
SearchNothing ==
    /\ pc = "frame" /\ InDecodeLoop
    /\ ~alive
    /\ frame < MaxFrames
    /\ ScoresAtHand
    /\ searched' = [searched EXCEPT ![frame] = @ + 1]
    /\ UNCHANGED <<state, frame, uttFrames, batchFrame, alive, cuts>>

\* The end of the utterance was forced: Decode returns, and its loop's
\* increments are not executed.
EndUtterance ==
    /\ pc = "search" /\ forcingEndUtt
    /\ state' = "kEndUtt"
    /\ forcingEndUtt' = FALSE
    /\ pc' = "report"
    /\ cuts' = cuts \cup {frame}
    /\ UNCHANGED <<frame, uttFrames, batchFrame, alive, decodableVars, searched>>

NextFrame ==
    /\ pc = "search" /\ ~forcingEndUtt
    /\ frame' = frame + 1
    /\ uttFrames' = uttFrames + 1
    /\ batchFrame' = batchFrame + 1
    /\ pc' = "frame"
    /\ UNCHANGED <<state, forcingEndUtt, alive, decodableVars, historyVars>>

\* Decode, after its loop.
EndDecode ==
    /\ pc = "frame" /\ ~InDecodeLoop
    /\ state' = IF batchFrame = DecodeBatch /\ ~IsLastFrame(frame - 1)
                  THEN "kEndBatch" ELSE "kEndFeats"
    /\ pc' = "report"
    /\ UNCHANGED <<frame, uttFrames, batchFrame, forcingEndUtt, alive, decodableVars, historyVars>>

\* OnlineDecode reports a result and goes on until the features end.
Report ==
    /\ pc = "report"
    /\ pc' = IF state = "kEndFeats" THEN "done" ELSE "decode"
    /\ UNCHANGED <<decoderVars, decodableVars, historyVars>>

\* The end of the session, or of what is followed of a search without tokens.
Ended ==
    /\ \/ pc \in {"done", "aborted"}
       \/ pc = "frame" /\ InDecodeLoop /\ ~alive /\ frame >= MaxFrames
    /\ UNCHANGED vars

Step ==
    \/ StartDecode \/ SearchFrame \/ SearchNothing
    \/ EndUtterance \/ NextFrame \/ EndDecode \/ Report

Next == Step \/ Ended

\* The thread runs.
Spec == Init /\ [][Next]_vars /\ WF_vars(Step)

-----------------------------------------------------------------------------
(* Properties.                                                             *)

TypeOK ==
    /\ pc \in Places
    /\ state \in DecodeState
    /\ frame \in Nat /\ uttFrames \in Nat /\ batchFrame \in 0 .. DecodeBatch
    /\ forcingEndUtt \in BOOLEAN /\ alive \in BOOLEAN
    /\ featOffset \in Nat /\ rows \in 0 .. FeatBatch /\ finished \in BOOLEAN
    /\ loads \in Nat

\* online-decodable.cc:29, :43: the frame that a live search asks for is in
\* the batch of features at hand, or the first one of the next batch - never
\* before the batch (a negative row), never further on, and never beyond the
\* last batch (the assertion "Out-of-bounds request") - also when an utterance
\* was cut short inside a batch and its frame is searched again.
ScoresInReach ==
    /\ pc # "aborted"
    /\ pc = "frame" /\ alive /\ InDecodeLoop =>
         /\ featOffset <= frame
         /\ \/ frame < featOffset + rows
            \/ frame = featOffset + rows /\ ~finished

\* online-faster-decoder.cc:356: when Decode reports the end of the features,
\* every frame there is has been searched, the last ones of the last batch
\* included.
AllFramesSearched ==
    pc = "done" => \A f \in Frames : f < featOffset + rows => searched[f] > 0

\* online-faster-decoder.cc:382-386: only a frame that cut an utterance short
\* is searched again, and it is so once: the frame, searched again as the
\* first of the next utterance, cannot cut that one too.
OnlyCutsRepeat ==
    \A f \in Frames : searched[f] <= IF f \in cuts THEN 2 ELSE 1

\* DecodeWorker.cc:288-331: a session whose audio ends, ends - unless the search
\* lost all its tokens, when no frame asks for features any more.
EndsUnlessSearchDies == <>(pc = "done") \/ <>(pc = "frame" /\ ~alive)
==================================================================================
