-------------------------------- MODULE Traceback --------------------------------
(***************************************************************************)
(* What an online session reports of an utterance                          *)
(* (online-faster-decoder.cc): PartialTraceback after each batch of frames *)
(* reports the part of the hypothesis that all active tokens share, and    *)
(* FinishTraceBack reports the rest of the best one.                       *)
(*                                                                         *)
(* A token is the path of arcs that leads to it: its prev_ is the path     *)
(* without the last arc, and the dummy token of ResetDecoder the empty     *)
(* path.  Costs are left out: which tokens survive a frame, and which one  *)
(* is best, is any choice.  A frame may leave no token, and then no later  *)
(* one has any: their tokens are freed, the remembered ones too.           *)
(***************************************************************************)
EXTENDS Integers, Sequences, FiniteSets, FiniteSetsExt, SequencesExt

CONSTANTS
    Arcs,           \* of the decoding graph: [from, to, emits, word]
    Start,          \* its start state
    Final,          \* its final states
    NoWord,         \* the output label 0
    BatchFrames,    \* frames of one Decode: opts_.batch_size
    MaxFrames       \* bound: frames of an utterance

\* No arc leads back to the start state, and no two arcs without input label
\* follow each other.
ASSUME GraphAssumption ==
    /\ \A a \in Arcs : a.emits \in BOOLEAN /\ a.to # Start
    /\ \A a, b \in Arcs : ~a.emits /\ ~b.emits => a.to # b.from
    /\ BatchFrames \in Nat \ {0} /\ MaxFrames \in Nat

VARIABLES
    pc,             \* where OnlineDecode's loop is
    toks,           \* toks_: the active tokens
    immortal_tok, prev_immortal_tok,    \* immortal_tok_, prev_immortal_tok_
    frames,         \* frames of the utterance so far
    batchFrame,     \* frames since the last Decode started
    reported,       \* words of this utterance sent to the client (history)
    best            \* the token that FinishTraceBack chose (history)

tokenVars == <<pc, toks, immortal_tok, prev_immortal_tok, frames, batchFrame, reported, best>>

DummyToken == <<>>

StateOf(tok) == IF tok = DummyToken THEN Start ELSE Last(tok).to

\* The words of a path: the output labels of its arcs but 0.
Words(path) ==
    LET words[n \in 0 .. Len(path)] ==
            IF n = 0 THEN <<>>
            ELSE IF path[n].word = NoWord THEN words[n - 1]
            ELSE Append(words[n - 1], path[n].word)
    IN  words[Len(path)]

-----------------------------------------------------------------------------
(* The search (Kaldi's FasterDecoder).                                     *)

Extended(toks_, emitting) ==
    {Append(p[1], p[2]) : p \in {q \in toks_ \X Arcs :
                                   q[2].emits = emitting /\ q[2].from = StateOf(q[1])}}

OnePerState(toks_) == \A s, t \in toks_ : StateOf(s) = StateOf(t) => s = t

\* ProcessNonemitting may add tokens, or replace one by a better one.  No two
\* arcs without input label follow each other (GraphAssumption), so that one
\* more arc is all that it adds to a path.
Nonemitting(toks_) ==
    {s \in SUBSET (toks_ \cup Extended(toks_, FALSE)) :
       /\ OnePerState(s)
       /\ \A t \in toks_ : \E u \in s : StateOf(u) = StateOf(t)}

\* ProcessEmitting, which prunes and may leave nothing, and ProcessNonemitting.
AfterFrame(toks_) ==
    UNION {Nonemitting(s) : s \in {e \in SUBSET Extended(toks_, TRUE) : OnePerState(e)}}

-----------------------------------------------------------------------------
(* OnlineFasterDecoder.                                                    *)

TracebackInit ==
    /\ pc = "decode"
    /\ toks = {}
    /\ immortal_tok = DummyToken
    /\ prev_immortal_tok = DummyToken
    /\ frames = 0
    /\ batchFrame = 0
    /\ reported = <<>>
    /\ best = DummyToken

\* Mutant: the immortal token of the last utterance is kept.
FirstImmortal_Kept == immortal_tok

FirstImmortal == DummyToken

ResetDecoder ==
    /\ toks' \in Nonemitting({DummyToken})
    /\ immortal_tok' = FirstImmortal
    /\ prev_immortal_tok' = FirstImmortal
    /\ frames' = 0

\* Decode, for a new utterance: the first or the next of the session.
StartUtterance ==
    /\ pc \in {"decode", "final"}
    /\ ResetDecoder
    /\ batchFrame' = 0
    /\ reported' = <<>>
    /\ best' = DummyToken
    /\ pc' = "search"

\* One turn of Decode's loop.
SearchFrame ==
    /\ pc = "search"
    /\ frames < MaxFrames /\ batchFrame < BatchFrames
    /\ toks' \in AfterFrame(toks)
    /\ frames' = frames + 1
    /\ batchFrame' = batchFrame + 1
    /\ UNCHANGED <<pc, immortal_tok, prev_immortal_tok, reported, best>>

\* The arcs with an input label among a token's first k.
Emitted(tok, k) == Cardinality({i \in 1 .. k : tok[i].emits})

\* The ancestor of a token that is behind its n-th emitting arc, itself
\* possibly: the shortest path with as many of them.
EmittingAncestor(tok, n) ==
    SubSeq(tok, 1, CHOOSE k \in DOMAIN tok : tok[k].emits /\ Emitted(tok, k) = n)

Ancestors(n) == {EmittingAncestor(t, n) : t \in toks}

\* Frames of the utterance at which one ancestor is left.
SharedFrames == {n \in 1 .. frames : \E tok \in Ancestors(n) : Ancestors(n) = {tok}}

\* Mutant: the first shared ancestor instead of the last.
TheOne_First == CHOOSE t \in Ancestors(Min(SharedFrames)) : TRUE

TheOne == CHOOSE t \in Ancestors(Max(SharedFrames)) : TRUE

\* Mutant: only a new immortal token is recorded as the previous one.
Previous_OnlyNew == IF TheOne = immortal_tok THEN prev_immortal_tok ELSE immortal_tok

Previous == immortal_tok

\* UpdateImmortalToken goes back from the active tokens, frame by frame,
\* until one ancestor is left.
UpdateImmortalToken ==
    IF SharedFrames = {}
      THEN UNCHANGED <<immortal_tok, prev_immortal_tok>>
      ELSE immortal_tok' = TheOne /\ prev_immortal_tok' = Previous

\* The words from token end, exclusively, to token start.  The walk goes back
\* from start until it meets end, which it does if end is an ancestor; if not,
\* it would go past the dummy token to a null pointer.  WalkEnds says that it
\* never does, so the ELSE is not reached.  An arc into the start state is
\* dropped from the beginning; there is none (GraphAssumption).
MakeLattice(start, end) ==
    Words(IF IsPrefix(end, start) THEN SubSeq(start, Len(end) + 1, Len(start)) ELSE start)

SearchDead == toks = {}

\* Decode returns kEndBatch; the part that has become immortal is sent.
PartialTraceback ==
    /\ pc = "search" /\ batchFrame = BatchFrames
    /\ SearchDead => immortal_tok = prev_immortal_tok
    /\ UpdateImmortalToken
    /\ reported' = IF immortal_tok' = prev_immortal_tok' THEN reported
                   ELSE reported \o MakeLattice(immortal_tok', prev_immortal_tok')
    /\ pc' = "partial"
    /\ UNCHANGED <<toks, frames, batchFrame, best>>

\* The immortal token moved a batch ago, and now it is freed: MakeLattice reads
\* it, and what happens then is undefined.
ReadFreedToken ==
    /\ pc = "search" /\ batchFrame = BatchFrames
    /\ SearchDead /\ immortal_tok # prev_immortal_tok
    /\ pc' = "undefined"
    /\ UNCHANGED <<toks, immortal_tok, prev_immortal_tok, frames, batchFrame, reported, best>>

\* Decode goes on with the same utterance; its first statement is another
\* ProcessNonemitting.
NextBatch ==
    /\ pc = "partial" /\ frames < MaxFrames
    /\ toks' \in Nonemitting(toks)
    /\ batchFrame' = 0
    /\ pc' = "search"
    /\ UNCHANGED <<immortal_tok, prev_immortal_tok, frames, reported, best>>

\* Mutant: from the immortal token before the last one.
ReportedTok_Previous == prev_immortal_tok

ReportedTok == immortal_tok

\* Decode returns kEndUtt or kEndFeats after any frame, and the rest of the
\* best token's path is sent; a token in a final state is better than others.
FinishTraceBack ==
    /\ pc = "search" /\ batchFrame > 0 /\ ~SearchDead
    /\ best' \in LET final == {t \in toks : StateOf(t) \in Final}
                 IN  IF final = {} THEN toks ELSE final
    /\ reported' = reported \o MakeLattice(best', ReportedTok)
    /\ pc' = "final"
    /\ UNCHANGED <<toks, immortal_tok, prev_immortal_tok, frames, batchFrame>>

\* With no token left at the end of the utterance nothing more is sent.
FinishDead ==
    /\ pc = "search" /\ batchFrame > 0 /\ SearchDead
    /\ pc' = "final"
    /\ UNCHANGED <<toks, immortal_tok, prev_immortal_tok, frames, batchFrame, reported, best>>

\* The model follows an utterance no further than MaxFrames.
Bounded ==
    /\ (pc = "partial" /\ frames = MaxFrames) \/ pc = "undefined"
    /\ UNCHANGED tokenVars

TracebackNext ==
    \/ StartUtterance \/ SearchFrame \/ PartialTraceback \/ ReadFreedToken
    \/ NextBatch \/ FinishTraceBack \/ FinishDead \/ Bounded

TracebackSpec == TracebackInit /\ [][TracebackNext]_tokenVars

-----------------------------------------------------------------------------
(* Properties.                                                             *)

InUtterance == pc \in {"search", "partial"}
EndsWithToken == pc = "final" /\ ~SearchDead

\* online-faster-decoder.h:136-137: what has been sent of an utterance is part
\* of every hypothesis that is still alive: no later frame, however it
\* prunes, makes the session take back a word.
NothingTakenBack == InUtterance => \A t \in toks : IsPrefix(reported, Words(t))

\* online-faster-decoder.cc:42-67: the walk of MakeLattice back from the
\* immortal or the best token meets the token where it is to end, through tokens that the
\* active ones keep from being freed, and it takes at least one arc.
WalkEnds ==
    /\ InUtterance => /\ IsPrefix(prev_immortal_tok, immortal_tok)
                      /\ \A t \in toks : IsPrefix(immortal_tok, t)
    /\ EndsWithToken => IsStrictPrefix(immortal_tok, best)

\* The path that all active tokens share, up to its last arc with an input
\* label.
CommonPath ==
    LET shared == LongestCommonPrefix(toks)
    IN  SubSeq(shared, 1, CHOOSE n \in 0 .. Len(shared) :
                            /\ n > 0 => shared[n].emits
                            /\ \A m \in n + 1 .. Len(shared) : ~shared[m].emits)

\* online-faster-decoder.cc:86-121: after a batch, everything that is certain
\* has been sent: what all active tokens have in common.
NothingHeldBack == pc = "partial" /\ ~SearchDead => reported = Words(CommonPath)

\* DecodeWorker.cc:291-317: the partial results and the last one, in the order
\* they were sent, are the words of the best hypothesis, each once.
ReportIsBestPath == EndsWithToken => reported = Words(best)
==================================================================================
