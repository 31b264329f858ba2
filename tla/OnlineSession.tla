------------------------------ MODULE OnlineSession ------------------------------
(***************************************************************************)
(* One online session as DecodeWorker::OnlineDecode wires it: the decoder  *)
(* of OnlineDecode gets its batches of features from the voice detector of *)
(* VadInput, whose listener ends the decoder's utterance.  All of it is    *)
(* one thread: LogLikelihood calls Compute down the chain of inputs, and   *)
(* OnSpeechEnd calls back up to ForceEndUtterance before Compute returns,  *)
(* so a search of OnlineDecode that loads a batch is several steps here.   *)
(*                                                                         *)
(* The rows of a batch are those of VadInput's matrix, delayed by the      *)
(* right context (FeaturePipeline).                                        *)
(***************************************************************************)
EXTENDS VadInput

CONSTANTS DecodeBatch, RightContext, MaxLoads, MaxFrames    \* as in OnlineDecode

ASSUME SessionAssumption ==
    /\ DecodeBatch \in Nat \ {0}
    /\ RightContext \in Nat /\ RightContext < NVec
    /\ MaxLoads \in Nat \ {0}
    /\ MaxFrames \in Nat

VARIABLES
    dpc, state, frame, uttFrames, batchFrame, forcingEndUtt, alive,
    featOffset, rows, finished, loads, searched, cuts,      \* as in OnlineDecode
    loading,        \* the thread is inside a Compute
    speechLoad,     \* the last load whose features are of speech (history)
    cutLoad,        \* the last load after which an utterance was cut (history)
    blank           \* the last load left its rows unwritten (history)

Decoder == INSTANCE OnlineDecode WITH pc <- dpc, FeatBatch <- NVec

batchVars == <<featOffset, rows, finished, loads>>
onlineVars == <<dpc, state, frame, uttFrames, batchFrame, forcingEndUtt, alive, batchVars,
                searched, cuts>>
loadHistory == <<speechLoad, cutLoad, blank>>
sessionVars == <<vars, onlineVars, loading, loadHistory>>

SessionInit ==
    /\ Init
    /\ Decoder!Init
    /\ loading = FALSE
    /\ speechLoad = 0 /\ cutLoad = 0
    /\ blank = FALSE

-----------------------------------------------------------------------------

\* The decoder's own steps, with the scores at hand.
DecoderStep ==
    /\ ~loading
    /\ Decoder!Step
    /\ loads' # loads => dpc' = "aborted"
    /\ cutLoad' = IF dpc' = "report" /\ state' = "kEndUtt" THEN loads ELSE cutLoad
    /\ UNCHANGED <<vars, loading, speechLoad, blank>>

\* The search asks for the score of a frame behind the batch.
StartLoad ==
    /\ ~loading
    /\ dpc = "frame" /\ alive /\ Decoder!InDecodeLoop
    /\ frame >= featOffset + rows /\ ~finished
    /\ loading' = TRUE
    /\ IF loads = 0 THEN pc = "called" /\ UNCHANGED vars ELSE CallAgain
    /\ UNCHANGED <<onlineVars, loadHistory>>

\* Mutant: the listener is told once in a session.
OnSpeechEnd_Once ==
    IF batchVad /\ ~batchVad' /\ cutLoad = 0 THEN forcingEndUtt' = TRUE ELSE UNCHANGED forcingEndUtt

\* The listener: the decoder's utterance ends with the speech.
OnSpeechEnd == IF batchVad /\ ~batchVad' THEN forcingEndUtt' = TRUE ELSE UNCHANGED forcingEndUtt

\* A step of Compute; the audio ends with the last load, if not before.
ComputeStep ==
    /\ loading
    /\ Compute
    /\ OnSpeechEnd
    /\ pc' = "returned" /\ loads + 1 = MaxLoads => ~more'
    /\ speechLoad' = IF /\ pc = "extract" /\ Extracts
                        /\ \E p \in spoken : p < samples_req
                       THEN loads + 1 ELSE speechLoad
    /\ UNCHANGED <<dpc, state, frame, uttFrames, batchFrame, alive, batchVars, searched, cuts,
                   loading, cutLoad, blank>>

\* The batch is there, and the search of the frame goes on.
FinishLoad ==
    /\ loading /\ pc = "returned"
    /\ Decoder!SearchFrame
    /\ loads' = loads + 1
    /\ finished' = ~more
    /\ forcingEndUtt' = forcingEndUtt
    /\ loading' = FALSE
    /\ blank' = ~filled
    /\ UNCHANGED <<vars, speechLoad, cutLoad>>

\* Receive has ended the process, or the decoder has come to its end.
SessionEnded == (pc = "exited" \/ Decoder!Ended) /\ UNCHANGED sessionVars

Work == DecoderStep \/ StartLoad \/ ComputeStep \/ FinishLoad

SessionNext == Work \/ SessionEnded

\* The thread runs.
SessionSpec == SessionInit /\ [][SessionNext]_sessionVars /\ WF_sessionVars(Work)

-----------------------------------------------------------------------------
(* Properties.                                                             *)

\* The decoder by itself, as OnlineDecode has it: the end of speech is seen when
\* the batch is there.
Online == INSTANCE OnlineDecode WITH
    pc <- dpc, FeatBatch <- NVec, forcingEndUtt <- forcingEndUtt /\ ~loading

\* DecodeWorker.cc:260-283: the session does what OnlineDecode says a decoder
\* does with any source of features: so the end of speech comes at no other
\* moment than there, at most once in a load, and not in the first one.
ImplementsOnlineDecode == Online!Init /\ [][Online!Next]_(Online!vars)

JustCut == dpc = "report" /\ state = "kEndUtt"

\* online-vad.cc:184, online-faster-decoder.cc:382: when an utterance is cut, its
\* speech has left the buffer, and the decoder has searched it: none is in the
\* batch that it goes on with - unless the speech had pauses before its last.
CutAfterSpeech == JustCut => resumed \/ (speechLoad < cutLoad /\ spoken = {})

\* online-vad.cc:193: rows that were never written end the session, and the
\* utterance with the speech before them has been cut, so that what they
\* are taken for is not added to its words.
UnwrittenRowsAlone == blank => finished /\ (speechLoad = 0 \/ cutLoad >= speechLoad)

\* online-vad.cc:242, online-faster-decoder.cc:382: no speech is left without its
\* end: once it is decoded and the detector has left it, the utterance is cut
\* (or the client has left).
SpeechEndCuts == speechLoad > cutLoad /\ ~batchVad ~> JustCut \/ pc = "exited"

SearchDead == dpc = "frame" /\ ~alive

\* DecodeWorker.cc:288-331: when the client has sent its last audio, the session
\* ends (by exit, if the decoder asks for more), unless the search has died.
LastAudioEndsSession == sourceEnded ~> dpc = "done" \/ pc = "exited" \/ SearchDead
==================================================================================
