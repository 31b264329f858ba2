--------------------------- MODULE OnlineDecodeProofs ---------------------------
(***************************************************************************)
(* The frames of an online session, for every size of the batches: the     *)
(* invariants of OnlineDecode and their proofs.                            *)
(***************************************************************************)
EXTENDS OnlineDecode, TLAPS

InBatch == featOffset <= frame /\ frame < featOffset + rows

\* The decoder's frame relative to the decodable's batch, at every place.  A
\* frame whose utterance was cut short is in the batch even when the search
\* has lost its tokens, so that the next search finds it there.
FramePosition ==
    /\ alive => featOffset <= frame /\ frame <= featOffset + rows
    /\ pc = "search" /\ (alive \/ forcingEndUtt) => InBatch
    /\ pc \in {"report", "decode"} /\ state = "kEndUtt" => InBatch
    /\ pc = "decode" /\ state = "kEndFeats" => frame = 0 /\ featOffset = 0 /\ rows = 0
    /\ pc = "done" => featOffset + rows <= frame
    /\ pc = "report" /\ state = "kEndFeats" => featOffset + rows <= frame
    /\ pc # "aborted"

\* What has been searched, relative to the decoder's frame.
SearchHistory ==
    /\ searched \in [Frames -> Nat]
    /\ \A f \in Frames :
         /\ f < frame => searched[f] > 0
         /\ f > frame => searched[f] = 0 /\ f \notin cuts
         /\ searched[f] <= IF f \in cuts THEN 2 ELSE 1
    /\ frame \in Frames /\ pc # "search" =>
         searched[frame] <= IF frame \in cuts THEN 1 ELSE 0
    /\ frame \in Frames /\ pc = "search" =>
         /\ searched[frame] > 0
         /\ forcingEndUtt => searched[frame] <= 1 /\ frame \notin cuts
    /\ \A f \in cuts : f \in Nat /\ f < featOffset + rows

\* A frame is only searched while the batch of Decode is not full.
BatchNotFull == pc = "search" => batchFrame < DecodeBatch

\* The end of speech ends the utterance that is being decoded, in the frame
\* whose scores were waited for (online-faster-decoder.cc:382): no Decode
\* begins with it pending.
NoPendingEnd == forcingEndUtt => pc = "search"

DecodeInv == TypeOK /\ BatchNotFull /\ NoPendingEnd /\ FramePosition /\ SearchHistory

-----------------------------------------------------------------------------

\* The sizes as the provers use them.
LEMMA Sizes == /\ DecodeBatch \in Nat /\ 0 < DecodeBatch
               /\ FeatBatch \in Nat /\ RightContext \in Nat
               /\ FeatBatch - RightContext \in 1 .. FeatBatch
               /\ FeatBatch \in 1 .. FeatBatch
               /\ MaxFrames \in Nat
  BY DecodeAssumption DEF DecodeAssumption

\* What LogLikelihood does to the decodable.
LEMMA Loaded ==
  ASSUME TypeOK, NoPendingEnd, pc = "frame", LoadBatch
  PROVE  /\ featOffset' = featOffset + rows
         /\ rows' \in 1 .. FeatBatch
         /\ finished' \in BOOLEAN
         /\ forcingEndUtt' \in BOOLEAN
         /\ loads' \in Nat
         /\ pc' = IF finished THEN "aborted" ELSE "search"
  <1>1. loads' \in Nat /\ rows' \in 1 .. FeatBatch
    BY Sizes DEF LoadBatch, TypeOK, NextOffset
  <1>2. forcingEndUtt' \in BOOLEAN
    BY DEF LoadBatch, TypeOK, NextOffset
  <1> QED
    BY <1>1, <1>2 DEF LoadBatch, NextOffset

LEMMA InitInv == Init => DecodeInv
  <1> SUFFICES ASSUME Init PROVE DecodeInv
    OBVIOUS
  <1>1. TypeOK /\ BatchNotFull /\ NoPendingEnd
    <2>1. pc \in Places /\ state \in DecodeState
      BY DEF Init, Places, DecodeState
    <2>2. /\ frame \in Nat /\ uttFrames \in Nat /\ loads \in Nat /\ featOffset \in Nat
          /\ batchFrame \in 0 .. DecodeBatch /\ rows \in 0 .. FeatBatch
      BY Sizes DEF Init
    <2>3. forcingEndUtt \in BOOLEAN /\ alive \in BOOLEAN /\ finished \in BOOLEAN
      BY DEF Init
    <2> QED
      BY <2>1, <2>2, <2>3 DEF Init, TypeOK, BatchNotFull, NoPendingEnd
  <1>2. FramePosition
    BY DEF Init, FramePosition, InBatch
  <1>3. SearchHistory
    BY DEF Init, SearchHistory, Frames
  <1> QED
    BY <1>1, <1>2, <1>3 DEF DecodeInv

\* Counting one more search of a frame.
LEMMA Counted ==
  ASSUME NEW S, NEW count \in [S -> Nat], NEW x
  PROVE  /\ [count EXCEPT ![x] = @ + 1] \in [S -> Nat]
         /\ \A y \in S : [count EXCEPT ![x] = @ + 1][y] = IF y = x THEN count[y] + 1 ELSE count[y]
  <1>1. \A y \in S : [count EXCEPT ![x] = @ + 1][y] = IF y = x THEN count[y] + 1 ELSE count[y]
    OBVIOUS
  <1>2. \A y \in S : [count EXCEPT ![x] = @ + 1][y] \in Nat
    BY <1>1
  <1> QED
    BY <1>1, <1>2

LEMMA NextTypes ==
    DecodeInv /\ [Next]_vars => TypeOK' /\ BatchNotFull' /\ NoPendingEnd'
  <1> SUFFICES ASSUME TypeOK, BatchNotFull, NoPendingEnd, FramePosition, [Next]_vars
               PROVE  TypeOK' /\ BatchNotFull' /\ NoPendingEnd'
    BY DEF DecodeInv
  <1> USE Sizes DEF BatchNotFull, TypeOK, NoPendingEnd, Places, DecodeState, decodableVars,
          historyVars, decoderVars
  <1>1. CASE StartDecode
    <2>1. frame' \in Nat /\ uttFrames' \in Nat
      BY <1>1 DEF StartDecode, FirstFrame
    <2>2. alive' \in BOOLEAN
      <3>1. alive' = TRUE \/ alive' = alive
        BY <1>1, Zenon DEF StartDecode, FirstFrame
      <3> QED
        BY <3>1, Zenon
    <2>3. batchFrame' \in 0 .. DecodeBatch /\ pc' \in Places /\ pc' # "search"
      BY <1>1 DEF StartDecode, FirstFrame
    <2>4. forcingEndUtt' \in BOOLEAN /\ ~forcingEndUtt'
      BY <1>1 DEF StartDecode, FirstFrame
    <2>5. /\ state' \in DecodeState /\ featOffset' \in Nat /\ rows' \in 0 .. FeatBatch
          /\ finished' \in BOOLEAN /\ loads' \in Nat
      BY <1>1 DEF StartDecode, FirstFrame
    <2> QED
      BY <2>1, <2>2, <2>3, <2>4, <2>5
  <1>2. CASE SearchFrame
    <2>1. alive' \in BOOLEAN
      BY <1>2 DEF SearchFrame
    <2>2. CASE LoadBatch
      <3>1. /\ rows' \in 0 .. FeatBatch /\ featOffset' \in Nat
            /\ finished' \in BOOLEAN /\ forcingEndUtt' \in BOOLEAN /\ loads' \in Nat
        BY <1>2, <2>2, Loaded DEF SearchFrame
      <3>2. /\ state' \in DecodeState /\ frame' \in Nat /\ uttFrames' \in Nat
            /\ batchFrame' \in 0 .. DecodeBatch /\ batchFrame' < DecodeBatch
        BY <1>2 DEF SearchFrame, InDecodeLoop
      <3>3. ~(frame >= featOffset + rows) \/ ~finished
        BY <1>2 DEF SearchFrame, InDecodeLoop, IsLastFrame
      <3>4. pc' \in Places /\ (forcingEndUtt' => pc' = "search")
        BY <1>2, <3>3 DEF SearchFrame, LoadBatch, ScoresAtHand, NextOffset
      <3> QED
        BY <2>1, <3>1, <3>2, <3>4
    <2>3. CASE ScoresAtHand
      BY <1>2, <2>1, <2>3 DEF SearchFrame, ScoresAtHand, InDecodeLoop
    <2> QED
      BY <1>2, <2>2, <2>3 DEF SearchFrame
  <1>3. CASE SearchNothing
    BY <1>3 DEF SearchNothing, ScoresAtHand, InDecodeLoop
  <1>4. CASE EndUtterance
    BY <1>4 DEF EndUtterance
  <1>5. CASE NextFrame
    BY <1>5 DEF NextFrame
  <1>6. CASE EndDecode
    BY <1>6 DEF EndDecode
  <1>7. CASE Report
    BY <1>7 DEF Report
  <1>8. CASE UNCHANGED vars
    BY <1>8 DEF vars
  <1> QED
    BY <1>1, <1>2, <1>3, <1>4, <1>5, <1>6, <1>7, <1>8 DEF Next, Step, Ended

LEMMA NextPosition == DecodeInv /\ [Next]_vars => FramePosition'
  <1> SUFFICES ASSUME DecodeInv, [Next]_vars
               PROVE  FramePosition'
    OBVIOUS
  <1> USE Sizes DEF BatchNotFull, DecodeInv, TypeOK, NoPendingEnd, FramePosition, InBatch,
          Places, DecodeState, decodableVars, historyVars, decoderVars
  <1>1. CASE StartDecode
    BY <1>1 DEF StartDecode, FirstFrame
  <1>2. CASE SearchFrame
    <2>1. CASE frame >= featOffset + rows
      <3>1. ~finished /\ frame = featOffset + rows
        BY <1>2, <2>1 DEF SearchFrame, InDecodeLoop, IsLastFrame
      <3> QED
        BY <1>2, <2>1, <3>1 DEF SearchFrame, LoadBatch, ScoresAtHand, NextOffset
    <2>2. CASE ~(frame >= featOffset + rows)
      BY <1>2, <2>2 DEF SearchFrame, ScoresAtHand
    <2> QED
      BY <2>1, <2>2
  <1>3. CASE SearchNothing
    BY <1>3 DEF SearchNothing, ScoresAtHand, InDecodeLoop
  <1>4. CASE EndUtterance
    BY <1>4 DEF EndUtterance
  <1>5. CASE NextFrame
    BY <1>5 DEF NextFrame
  <1>6. CASE EndDecode
    BY <1>6 DEF EndDecode, InDecodeLoop, IsLastFrame
  <1>7. CASE Report
    BY <1>7 DEF Report
  <1>8. CASE UNCHANGED vars
    BY <1>8 DEF vars
  <1> QED
    BY <1>1, <1>2, <1>3, <1>4, <1>5, <1>6, <1>7, <1>8 DEF Next, Step, Ended

LEMMA NextHistory == DecodeInv /\ [Next]_vars => SearchHistory'
  <1> SUFFICES ASSUME DecodeInv, [Next]_vars
               PROVE  SearchHistory'
    OBVIOUS
  <1> USE Sizes DEF BatchNotFull, DecodeInv, TypeOK, NoPendingEnd, FramePosition, InBatch,
          SearchHistory, Frames, decodableVars, historyVars, decoderVars
  <1>1. CASE StartDecode
    BY <1>1 DEF StartDecode, FirstFrame
  <1>2. CASE SearchFrame
    <2>1. frame \in Frames => searched[frame] <= IF frame \in cuts THEN 1 ELSE 0
      BY <1>2 DEF SearchFrame
    <2>2. forcingEndUtt' => frame >= featOffset + rows
      BY <1>2 DEF SearchFrame, ScoresAtHand
    <2>3. featOffset + rows <= featOffset' + rows'
      BY <1>2, Loaded DEF SearchFrame, ScoresAtHand
    <2>4. searched' = [searched EXCEPT ![frame] = @ + 1] /\ frame' = frame /\ cuts' = cuts
      BY <1>2 DEF SearchFrame
    <2>5. searched' \in [Frames -> Nat]
      BY <2>4, Counted
    <2>6. \A f \in Frames : searched'[f] = IF f = frame THEN searched[f] + 1 ELSE searched[f]
      BY <2>4, Counted
    <2>7. pc' \in {"search", "aborted"}
      BY <1>2 DEF SearchFrame, LoadBatch, ScoresAtHand, NextOffset
    <2>8. pc' # "aborted"
      BY <1>2, NextPosition
    <2>9. pc' = "search"
      BY <2>7, <2>8
    <2>10. \A f \in Frames :
             /\ f < frame => searched'[f] > 0
             /\ f > frame => searched'[f] = 0 /\ f \notin cuts
             /\ searched'[f] <= IF f \in cuts THEN 2 ELSE 1
      BY <2>1, <2>6
    <2>11. frame \in Frames =>
             /\ searched'[frame] > 0
             /\ forcingEndUtt' => searched'[frame] <= 1 /\ frame \notin cuts
      BY <2>1, <2>2, <2>6
    <2>12. \A f \in cuts : f \in Nat /\ f < featOffset' + rows'
      <3>1. featOffset + rows \in Nat /\ featOffset' + rows' \in Int
        BY <1>2, Loaded DEF SearchFrame, ScoresAtHand
      <3> QED
        BY <2>3, <3>1
    <2> QED
      BY <2>4, <2>5, <2>9, <2>10, <2>11, <2>12
  <1>3. CASE SearchNothing
    <2>1. searched' \in [Frames -> Nat]
      BY <1>3 DEF SearchNothing
    <2>2. \A f \in Frames : searched'[f] = IF f = frame THEN searched[f] + 1 ELSE searched[f]
      BY <1>3 DEF SearchNothing
    <2> QED
      BY <1>3, <2>1, <2>2 DEF SearchNothing, ScoresAtHand
  <1>4. CASE EndUtterance
    BY <1>4 DEF EndUtterance
  <1>5. CASE NextFrame
    <2>1. \A f \in Frames : f < frame + 1 => searched[f] > 0
      BY <1>5 DEF NextFrame
    <2> QED
      BY <1>5, <2>1 DEF NextFrame
  <1>6. CASE EndDecode
    BY <1>6 DEF EndDecode
  <1>7. CASE Report
    BY <1>7 DEF Report
  <1>8. CASE UNCHANGED vars
    BY <1>8 DEF vars
  <1> QED
    BY <1>1, <1>2, <1>3, <1>4, <1>5, <1>6, <1>7, <1>8 DEF Next, Step, Ended

LEMMA NextInv == DecodeInv /\ [Next]_vars => DecodeInv'
  BY NextTypes, NextPosition, NextHistory DEF DecodeInv

LEMMA SpecInv == Spec => []DecodeInv
  BY InitInv, NextInv, PTL DEF Spec

\* What the invariant says of the frames.
LEMMA FramesInOrder == DecodeInv => ScoresInReach /\ AllFramesSearched /\ OnlyCutsRepeat
  <1> SUFFICES ASSUME DecodeInv PROVE ScoresInReach /\ AllFramesSearched /\ OnlyCutsRepeat
    OBVIOUS
  <1>1. ScoresInReach
    BY DEF DecodeInv, TypeOK, FramePosition, ScoresInReach, InDecodeLoop, IsLastFrame
  <1>2. AllFramesSearched
    BY DEF DecodeInv, TypeOK, FramePosition, SearchHistory, AllFramesSearched, Frames
  <1>3. OnlyCutsRepeat
    BY DEF DecodeInv, SearchHistory, OnlyCutsRepeat
  <1> QED
    BY <1>1, <1>2, <1>3

\* The frame that a live search asks for is in the batch of features at hand
\* or the first one of the next, for every size of the decoder's and of the
\* decodable's batches, wherever utterances are cut.
THEOREM ScoresAreInReach == Spec => []ScoresInReach
  BY SpecInv, FramesInOrder, PTL

\* No frame is left out of the search when Decode reports the end.
THEOREM EveryFrameIsSearched == Spec => []AllFramesSearched
  BY SpecInv, FramesInOrder, PTL

\* A frame is searched twice at most, and only where an utterance was cut.
THEOREM RepeatsAreCuts == Spec => []OnlyCutsRepeat
  BY SpecInv, FramesInOrder, PTL
=================================================================================
