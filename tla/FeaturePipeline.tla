---------------------------- MODULE FeaturePipeline ----------------------------
(***************************************************************************)
(* From cepstral features to the rows that are scored, for the sessions of *)
(* one DecodeWorker, one after the other: normalization over the latest    *)
(* features (OnlineCMN), and splicing of each frame with its neighbours    *)
(* (OnlineLdaInput online, LdaTransform for files).                        *)
(*                                                                         *)
(* An online session has a pipeline of its own and runs it batch by batch; *)
(* a file is one batch, and all files share the worker's cmvn_.  A feature *)
(* is the number of its frame, counted from 1 in the session, or over all  *)
(* files of the worker.  A normalized feature is its frame and the frames  *)
(* that its mean and variance are taken from; the linear transform of a    *)
(* spliced row is left out.                                                *)
(***************************************************************************)
EXTENDS Integers, Sequences, FiniteSets, FiniteSetsExt, SequencesExt

CONSTANTS
    LeftContext, RightContext,  \* frames that a frame is spliced with
    BatchSize,      \* rows of an online batch
    History,        \* hist_: cmvn_window
    FileLengths,    \* frames of the files that clients send
    MaxFrames       \* bound: frames of an online session, frames of all files

ASSUME PipelineAssumption ==
    /\ LeftContext \in Nat /\ RightContext \in Nat /\ BatchSize \in Nat
    /\ BatchSize > RightContext
    /\ History \in Nat \ {0}
    /\ FileLengths \subseteq Nat /\ MaxFrames \in Nat

VARIABLES
    mode,           \* what the worker is doing
    cmvn,           \* the worker's cmvn_
    onlineCmvn,     \* OnlineCmvnInput's cmvn_
    featWindow,     \* OnlineLdaInput's feat_window_ and window_pos_
    heard,          \* frames of the online session
    fileHeard,      \* frames of all files
    fileFirst,      \* the first frame of the last file
    spliced         \* rows that the session's decoder was given (history)

vars == <<mode, cmvn, onlineCmvn, featWindow, heard, fileHeard, fileFirst, spliced>>

WindowSize == LeftContext + RightContext + 1

\* OnlineCMN: stats_, its rows from 0 to features_cached_ - 1, and oldest_row_.
NewCMN == [stats |-> <<>>, oldest_row |-> 0]

\* feat_window_ has no rows.
NoWindow == [rows |-> <<>>, pos |-> 0]

Init ==
    /\ mode = "idle"
    /\ cmvn = NewCMN
    /\ onlineCmvn = NewCMN
    /\ featWindow = NoWindow
    /\ heard = 0
    /\ fileHeard = 0
    /\ fileFirst = 1
    /\ spliced = <<>>

-----------------------------------------------------------------------------
(* OnlineCMN                                                               *)

\* Mutant: the oldest row is always the first.
Cache_First(cmn, frame) ==
    IF Len(cmn.stats) < History
      THEN [cmn EXCEPT !.stats = Append(@, frame)]
      ELSE [cmn EXCEPT !.stats[1] = frame]

\* One feature into the history, which it fills first and then goes around in.
Cache(cmn, frame) ==
    IF Len(cmn.stats) < History
      THEN [cmn EXCEPT !.stats = Append(@, frame)]
      ELSE [stats |-> [cmn.stats EXCEPT ![cmn.oldest_row + 1] = frame],
            oldest_row |-> (cmn.oldest_row + 1) % History]

\* ApplyCmvn2: the whole batch enters the history ...
Updated(cmn, frames) ==
    LET f[i \in 0 .. Len(frames)] == IF i > 0 THEN Cache(f[i - 1], frames[i]) ELSE cmn
    IN  f[Len(frames)]

\* ... and is then normalized with it (OnlineCMN::Compute).
Normalized(cmn, frames) ==
    [i \in DOMAIN frames |-> [frame |-> frames[i], over |-> ToSet(cmn.stats)]]

-----------------------------------------------------------------------------
(* Splicing                                                                *)

\* Mutant: the rows behind the centre start with the second feature.
InitFeatWindow_Second(feats) ==
    [rows |-> [i \in 1 .. WindowSize |-> IF i - 1 <= LeftContext THEN feats[1]
                                         ELSE feats[i - LeftContext]],
     pos |-> 0]

\* The window before frame 0 gets its last neighbour: the first feature for
\* all that precede, and one row more that the next feature will replace.
InitFeatWindow(feats) ==
    [rows |-> [i \in 1 .. WindowSize |-> IF i - 1 <= LeftContext THEN feats[1]
                                         ELSE feats[i - LeftContext - 1]],
     pos |-> 0]

\* Mutant: the window's position does not advance.
Slide_InPlace(window, feat) == [window EXCEPT !.rows[window.pos + 1] = feat]

\* A feature replaces the oldest row of the window.
Slide(window, feat) ==
    [rows |-> [window.rows EXCEPT ![window.pos + 1] = feat],
     pos |-> (window.pos + 1) % WindowSize]

\* The rows of a window, the oldest one first.
SplicedRow(window) ==
    [i \in 1 .. WindowSize |-> window.rows[((window.pos + i - 1) % WindowSize) + 1]]

\* The window before feats and after each of them.
Windows(window, feats) ==
    LET f[i \in 0 .. Len(feats)] == IF i > 0 THEN Slide(f[i - 1], feats[i]) ELSE window
    IN  f

\* The window after feats and the spliced rows on the way.
SpliceAll(window, feats) ==
    LET windows == Windows(window, feats)
    IN  [window |-> windows[Len(feats)],
         rows |-> [i \in 1 .. Len(feats) |-> SplicedRow(windows[i])]]

\* OnlineLdaInput::Compute: the first frames only complete the right context
\* of the first spliced row.
Splice(window, feats) ==
    IF window.rows = <<>>
      THEN SpliceAll(InitFeatWindow(feats), SubSeq(feats, RightContext + 1, Len(feats)))
      ELSE SpliceAll(window, feats)

\* LdaTransform does the same with a window of its own.
LdaTransform(feats) == Splice(NoWindow, feats).rows

-----------------------------------------------------------------------------
(* DecodeWorker                                                            *)

\* OnlineDecode makes a pipeline for the session.
StartOnline ==
    /\ mode = "idle"
    /\ mode' = "online"
    /\ onlineCmvn' = NewCMN
    /\ featWindow' = NoWindow
    /\ heard' = 0
    /\ spliced' = <<>>
    /\ UNCHANGED <<cmvn, fileHeard, fileFirst>>

\* The decodable asks for a batch, which is always full (VadInput).
ComputeBatch ==
    /\ mode = "online" /\ heard + BatchSize <= MaxFrames
    /\ LET frames == [i \in 1 .. BatchSize |-> heard + i]
           cmn == Updated(onlineCmvn, frames)
           result == Splice(featWindow, Normalized(cmn, frames))
       IN  /\ onlineCmvn' = cmn
           /\ featWindow' = result.window
           /\ spliced' = spliced \o result.rows
    /\ heard' = heard + BatchSize
    /\ UNCHANGED <<mode, cmvn, fileHeard, fileFirst>>

EndOnline ==
    /\ mode = "online" /\ heard > 0
    /\ mode' = "idle"
    /\ UNCHANGED <<cmvn, onlineCmvn, featWindow, heard, fileHeard, fileFirst, spliced>>

\* Work in file mode.  A file without a frame behind the right context makes
\* a matrix without rows, or reads rows that are not there: an assertion of
\* Kaldi's matrices ends the process.
DecodeFile ==
    /\ mode = "idle"
    /\ \E n \in FileLengths :
         LET frames == [i \in 1 .. n |-> fileHeard + i]
         IN  /\ fileHeard + n <= MaxFrames
             /\ fileFirst' = fileHeard + 1
             /\ fileHeard' = fileHeard + n
             /\ cmvn' = Updated(cmvn, frames)
             /\ IF n > RightContext
                  THEN /\ mode' = "file"
                       /\ spliced' = LdaTransform(Normalized(cmvn', frames))
                  ELSE mode' = "aborted" /\ UNCHANGED spliced
    /\ UNCHANGED <<onlineCmvn, featWindow, heard>>

EndFile ==
    /\ mode = "file"
    /\ mode' = "idle"
    /\ UNCHANGED <<cmvn, onlineCmvn, featWindow, heard, fileHeard, fileFirst, spliced>>

Aborted == mode = "aborted" /\ UNCHANGED vars

Next == StartOnline \/ ComputeBatch \/ EndOnline \/ DecodeFile \/ EndFile \/ Aborted

Spec == Init /\ [][Next]_vars

-----------------------------------------------------------------------------
(* Properties.                                                             *)

\* The latest frames up to n that a history holds.
Latest(n) == Max({1, n - History + 1}) .. n

\* online-feat-input.h:71-72, "the count of the last vectors over which the
\* average is calculated": a history holds the latest features, as many as it
\* has room for, each once, however they came in batches.
HistoryIsLatest ==
    /\ ToSet(cmvn.stats) = Latest(fileHeard) /\ IsInjective(cmvn.stats)
    /\ ToSet(onlineCmvn.stats) = Latest(heard) /\ IsInjective(onlineCmvn.stats)

\* What a frame is spliced with: its neighbours in the session, the first
\* frame standing for those before it, each normalized with its batch.
Neighbours(frame, first, BatchEnd(_)) ==
    [i \in 1 .. WindowSize |->
       LET f == Max({first, frame - LeftContext + i - 1})
       IN  [frame |-> f, over |-> Latest(BatchEnd(f))]]

\* online-feat-input.cc:84-137: over all batches of an online session, each
\* frame gives one row, in order, spliced with its own neighbours across the
\* limits of the batches, except for the last ones, whose right context never
\* comes.
OnlineRowsInContext ==
    mode = "online" =>
        LET BatchEnd(f) == ((f + BatchSize - 1) \div BatchSize) * BatchSize
        IN  spliced = [k \in 1 .. Max({0, heard - RightContext}) |->
                         Neighbours(k, 1, BatchEnd)]

\* DecodeWorker.cc:68-111: the rows of a file are those of its own frames, and
\* of no frame of a file before it, although the normalization goes back to
\* them.
FileRowsInContext ==
    mode = "file" =>
        LET BatchEnd(f) == fileHeard
        IN  spliced = [k \in 1 .. fileHeard - fileFirst + 1 - RightContext |->
                         Neighbours(fileFirst + k - 1, fileFirst, BatchEnd)]
================================================================================
