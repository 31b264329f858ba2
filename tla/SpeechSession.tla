------------------------------ MODULE SpeechSession ------------------------------
(***************************************************************************)
(* One connection of the speech server: DecodeWorker::Work on the server's *)
(* side (speechsvr/DecodeWorker.cc, RemoteAudioSource.cc) and main() of    *)
(* speechsvr/speechclient.cc on the other, over a TCP connection: two      *)
(* first-in first-out channels of packets.  A packet is a header with a    *)
(* type and its payload; a DATA_WAVE packet carries samples first ..       *)
(* first+n-1 of the client's file.                                         *)
(*                                                                         *)
(* The features, the decoder and the voice detector are reduced to what    *)
(* they do to the connection: OnlineVadFeInput::Compute reads the buffer   *)
(* once and then a batch at a time until it finds speech or a short read   *)
(* (NeedAudio), and the decoder reports results between two Computes.  Of  *)
(* the search there is left whether it has tokens (alive), and of the      *)
(* features of a file how many there are.                                  *)
(***************************************************************************)
EXTENDS Integers, Sequences, FiniteSets

CONSTANTS
    Lengths,        \* possible numbers of samples in the client's wave file
    BufferSize,     \* samples that the first Read asks for
    BatchSize,      \* samples that each later Read asks for
    AudioTypes,     \* packet types in which a client may send its audio
    MaxOutputs,     \* bound: results reported after one Compute
    FrameSize, FrameShift,  \* of the frames, in samples
    RightContext    \* right_context_, in frames

ASSUME SessionAssumption ==
    /\ Lengths \subseteq Nat \ {0}
    /\ BatchSize \in Nat \ {0}
    /\ BufferSize \in Nat /\ BufferSize > BatchSize
    /\ AudioTypes \subseteq {"DATA_WAVE", "DATA_FEATURE"}
    /\ MaxOutputs \in Nat
    /\ FrameSize \in Nat /\ FrameShift \in Nat \ {0}
    /\ RightContext \in Nat

VARIABLES
    online,         \* online_mode, chosen on the client's command line
    audio,          \* the type of the client's audio packets: DATA_WAVE for
                    \* speechclient; the protocol names DATA_FEATURE too
    length,         \* the samples of the client's file
    spc,            \* where Work() is
    cpc,            \* where the client is
    toServer, toClient,     \* packets sent and not yet received
    pos,            \* the client's position in the file
    unanswered,     \* the client has sent audio and received no result since
    heard,          \* samples that the server has received
    buffered,       \* buffer_init_
    finished,       \* a Compute returned false: no more audio
    outputs,        \* results reported since the last Compute (bounded)
    alive           \* the search has tokens

serverVars == <<heard, buffered, finished, outputs, alive>>
clientVars == <<pos, unanswered>>
setup == <<online, audio, length>>
vars == <<setup, spc, cpc, toServer, toClient, serverVars, clientVars>>

\* "returned": Work() returned;  "exited": exit(1) after a failed Receive or
\* Send;  "killed": SIGPIPE;  "bad_packet": exit(1) on the packet's type;
\* "aborted": by an assertion of Kaldi.
ServerDead == {"exited", "killed", "bad_packet", "aborted"}
ServerPlaces == {"request", "accept", "wave", "result", "need", "audio", "decode",
                 "returned"} \cup ServerDead

\* "left": main() returned and the socket is closed.
ClientGone == {"left", "exited"}
ClientPlaces == {"start", "accept", "send", "result", "loop"} \cup ClientGone

Packet(type) == [type |-> type]
Request(n) == [type |-> "DATA_WAVE_REQUEST", n |-> n]
Wave(first, n) == [type |-> audio, first |-> first, n |-> n]
Output(end) == [type |-> "DECODE_OUTPUT", end |-> end]

Smaller(a, b) == IF a < b THEN a ELSE b

Init ==
    /\ online \in BOOLEAN
    /\ audio \in AudioTypes
    /\ length \in Lengths
    /\ spc = "request"
    /\ cpc = "start"
    /\ toServer = <<>>
    /\ toClient = <<>>
    /\ pos = 0
    /\ unanswered = FALSE
    /\ heard = 0
    /\ buffered = FALSE
    /\ finished = FALSE
    /\ outputs = 0
    /\ alive = TRUE

-----------------------------------------------------------------------------
(* The server's worker.                                                    *)

\* The packet goes out, or - when the client has closed its socket - one of
\* the sends that make it up may end the process.
ServerSends(packet, next) ==
    \/ /\ toClient' = IF cpc \in ClientGone THEN toClient ELSE Append(toClient, packet)
       /\ spc' = next
    \/ /\ cpc \in ClientGone
       /\ spc' \in {"exited", "killed"}
       /\ UNCHANGED toClient

ServerReceives(type) ==
    /\ toServer # <<>>
    /\ Head(toServer).type = type
    /\ toServer' = Tail(toServer)

\* DecodeWorker::Work: the first packet.
ReceiveRequest ==
    /\ spc = "request"
    /\ ServerReceives("DECODE_REQUEST")
    /\ spc' = "accept"
    /\ UNCHANGED <<setup, cpc, toClient, serverVars, clientVars>>

\* Mutant: in online mode the server asks for audio without accepting.
FirstPacket_Request == IF online THEN Request(BufferSize) ELSE Packet("DECODE_ACCEPT")

FirstPacket == Packet("DECODE_ACCEPT")

SendAccept ==
    /\ spc = "accept"
    /\ ServerSends(FirstPacket, IF online THEN "need" ELSE "wave")
    /\ UNCHANGED <<setup, cpc, toServer, serverVars, clientVars>>

\* The frames in n samples (Kaldi's NumFrames).
NumFrames(n) == IF n < FrameSize THEN 0 ELSE (n - FrameSize) \div FrameShift + 1

\* LdaTransform makes a row of each frame but the first RightContext.
HasRows(n) == NumFrames(n) > RightContext

\* Mutant: the result is not sent (line 199 dropped).
AfterWave_Returned(n) == "returned"

\* The features of n samples: Compute fails if there is no frame, and
\* LdaTransform's Resize if there is no row.
AfterWave(n) == IF HasRows(n) THEN "result" ELSE "aborted"

\* File mode: the whole wave in one packet.
ReceiveWave ==
    /\ spc = "wave"
    /\ ServerReceives("DATA_WAVE")
    /\ heard' = heard + Head(toServer).n
    /\ spc' = AfterWave(Head(toServer).n)
    /\ UNCHANGED <<setup, cpc, toClient, buffered, finished, outputs, alive, clientVars>>

SendResult ==
    /\ spc = "result"
    /\ ServerSends(Output(TRUE), "returned")
    /\ UNCHANGED <<setup, cpc, toServer, serverVars, clientVars>>

\* Mutant: every Read asks for as much as the first one.
Asked_First == BufferSize

\* OnlineVadFeInput reads its whole buffer at first, then a batch at a time.
Asked == IF buffered THEN BatchSize ELSE BufferSize

\* Online mode, RemoteAudioSource::Read: the request.
RequestAudio ==
    /\ spc = "need"
    /\ ServerSends(Request(Asked), "audio")
    /\ UNCHANGED <<setup, cpc, toServer, serverVars, clientVars>>

\* RemoteAudioSource::Read: the answer to the first Read, whose length
\* OnlineVadFeInput::Compute ignores.
ReceiveBuffer ==
    /\ spc = "audio"
    /\ ~buffered
    /\ ServerReceives("DATA_WAVE")
    /\ heard' = heard + Head(toServer).n
    /\ buffered' = TRUE
    /\ spc' = "need"
    /\ UNCHANGED <<setup, cpc, toClient, finished, outputs, alive, clientVars>>

\* The answer to a later Read.  After a full batch the voice detector
\* decides whether Compute goes on reading; a short one ends the features.
ReceiveBatch ==
    /\ spc = "audio"
    /\ buffered
    /\ ServerReceives("DATA_WAVE")
    /\ heard' = heard + Head(toServer).n
    /\ finished' = (Head(toServer).n # BatchSize)
    /\ \/ spc' = "decode" /\ outputs' = 0
       \/ spc' = "need" /\ ~finished' /\ UNCHANGED outputs
    /\ UNCHANGED <<setup, cpc, toClient, buffered, alive, clientVars>>

\* Decode returns kEndBatch with a partial result, or kEndUtt, which only a
\* search that reads audio can.
ReportResult ==
    /\ spc = "decode"
    /\ outputs < MaxOutputs
    /\ \E end \in {FALSE, alive} : ServerSends(Output(end), "decode")
    /\ outputs' = outputs + 1
    /\ UNCHANGED <<setup, cpc, toServer, heard, buffered, finished, alive, clientVars>>

\* Decode needs the next batch of features.
NeedAudio ==
    /\ spc = "decode"
    /\ ~finished /\ alive
    /\ spc' = "need"
    /\ UNCHANGED <<setup, cpc, toServer, toClient, serverVars, clientVars>>

\* No token is left, and the end of the utterance, which would start a new
\* search, is not being forced.
SearchDies ==
    /\ spc = "decode"
    /\ ~finished /\ alive
    /\ alive' = FALSE
    /\ UNCHANGED <<setup, spc, cpc, toServer, toClient, heard, buffered, finished, outputs,
                   clientVars>>

\* A search without tokens asks for no features, and so never finds that they
\* have ended: Decode goes from frame to frame, and OnlineDecode from Decode
\* to Decode.
SearchLost == spc = "decode" /\ ~finished /\ ~alive
SearchSpins == SearchLost /\ UNCHANGED vars

\* Decode returns kEndFeats: the last result, and OnlineDecode returns.
ReportEnd ==
    /\ spc = "decode"
    /\ finished
    /\ ServerSends(Output(TRUE), "returned")
    /\ UNCHANGED <<setup, cpc, toServer, serverVars, clientVars>>

\* Mutant: the end of the stream is not an error (`< 0` for `< 1`), and the
\* loop of Receive goes round.
AfterEndOfStream_Again == spc

AfterEndOfStream == "exited"

\* Receive fails: the client has closed its socket, all it sent is read.
ServerReceiveFails ==
    /\ spc \in {"request", "wave", "audio"}
    /\ toServer = <<>>
    /\ cpc \in ClientGone
    /\ spc' = AfterEndOfStream
    /\ UNCHANGED <<setup, cpc, toServer, toClient, serverVars, clientVars>>

\* A header of another type than DATA_WAVE: in file mode Work() returns, in
\* online mode exit(1).
RejectAudio ==
    /\ spc \in {"wave", "audio"}
    /\ toServer # <<>>
    /\ Head(toServer).type # "DATA_WAVE"
    /\ toServer' = Tail(toServer)
    /\ spc' = IF online THEN "bad_packet" ELSE "returned"
    /\ UNCHANGED <<setup, cpc, toClient, serverVars, clientVars>>

ServerStep ==
    \/ ReceiveRequest \/ SendAccept \/ ReceiveWave \/ SendResult
    \/ RequestAudio \/ ReceiveBuffer \/ ReceiveBatch
    \/ ReportResult \/ NeedAudio \/ ReportEnd \/ SearchDies \/ SearchSpins
    \/ ServerReceiveFails \/ RejectAudio

-----------------------------------------------------------------------------
(* The client: main() of speechclient.cc.                                  *)

ClientSends(packet) == toServer' = Append(toServer, packet)

ClientReceives(type) ==
    /\ toClient # <<>>
    /\ Head(toClient).type = type
    /\ toClient' = Tail(toClient)

SendRequest ==
    /\ cpc = "start"
    /\ ClientSends(Packet("DECODE_REQUEST"))
    /\ cpc' = "accept"
    /\ UNCHANGED <<setup, spc, toClient, serverVars, clientVars>>

ReceiveAccept ==
    /\ cpc = "accept"
    /\ ClientReceives("DECODE_ACCEPT")
    /\ cpc' = IF online THEN "loop" ELSE "send"
    /\ UNCHANGED <<setup, spc, toServer, serverVars, clientVars>>

\* File mode.
SendFile ==
    /\ cpc = "send"
    /\ ClientSends(Wave(0, length))
    /\ pos' = length
    /\ unanswered' = TRUE
    /\ cpc' = "result"
    /\ UNCHANGED <<setup, spc, toClient, serverVars>>

ReceiveResult ==
    /\ cpc = "result"
    /\ ClientReceives("DECODE_OUTPUT")
    /\ unanswered' = FALSE
    /\ cpc' = "left"
    /\ UNCHANGED <<setup, spc, toServer, pos, serverVars>>

\* Mutant: the position is advanced before the samples are taken.
NextWave_AdvanceFirst(n) == Wave(pos + n, Smaller(length - pos, n))

NextWave(n) == Wave(pos, Smaller(length - pos, n))

\* Online mode: the next samples, fewer at the end of the file.
AnswerRequest ==
    /\ cpc = "loop" /\ pos < length
    /\ ClientReceives("DATA_WAVE_REQUEST")
    /\ ClientSends(NextWave(Head(toClient).n))
    /\ pos' = pos + Head(toClient).n
    /\ unanswered' = TRUE
    /\ UNCHANGED <<setup, spc, cpc, serverVars>>

ShowOutput ==
    /\ cpc = "loop" /\ pos < length
    /\ ClientReceives("DECODE_OUTPUT")
    /\ unanswered' = FALSE
    /\ UNCHANGED <<setup, spc, cpc, toServer, pos, serverVars>>

\* The loop ends when the file is sent; main() returns.
LeaveLoop ==
    /\ cpc = "loop" /\ pos >= length
    /\ cpc' = "left"
    /\ UNCHANGED <<setup, spc, toServer, toClient, serverVars, clientVars>>

\* The server's process has ended; the client's Receive fails.
ClientReceiveFails ==
    /\ cpc \in {"accept", "result"} \/ (cpc = "loop" /\ pos < length)
    /\ toClient = <<>>
    /\ spc \in ServerDead
    /\ cpc' = "exited"
    /\ UNCHANGED <<setup, spc, toServer, toClient, serverVars, clientVars>>

ClientStep ==
    \/ SendRequest \/ ReceiveAccept \/ SendFile \/ ReceiveResult
    \/ AnswerRequest \/ ShowOutput \/ LeaveLoop
    \/ ClientReceiveFails

-----------------------------------------------------------------------------

\* Both sides are done, or the client waits for a result that will not come:
\* the server does not close the socket of a task it is done with.
Ended ==
    /\ spc \in {"returned"} \cup ServerDead
    /\ \/ cpc \in ClientGone
       \/ spc = "returned" /\ cpc = "result" /\ toClient = <<>>
    /\ UNCHANGED vars

Next == ServerStep \/ ClientStep \/ Ended

\* Both processes run.
Spec == Init /\ [][Next]_vars /\ WF_vars(ServerStep) /\ WF_vars(ClientStep)

-----------------------------------------------------------------------------
(* Properties.                                                             *)

PacketTypes == {"DECODE_REQUEST", "DECODE_ACCEPT", "DATA_WAVE", "DATA_WAVE_REQUEST",
                "DATA_FEATURE", "DECODE_OUTPUT"}

\* What each side accepts at a place where it receives.
ServerExpects(place) ==
    CASE place = "request" -> {"DECODE_REQUEST"}
      [] place \in {"wave", "audio"} -> {audio}
      [] OTHER -> PacketTypes
ClientExpects(place) ==
    CASE place = "accept" -> {"DECODE_ACCEPT"}
      [] place = "result" -> {"DECODE_OUTPUT"}
      [] place = "loop" -> {"DATA_WAVE_REQUEST", "DECODE_OUTPUT"}
      [] OTHER -> PacketTypes

ServerWaits == spc \in {"request", "wave", "audio"} /\ toServer = <<>>
ClientWaits ==
    /\ cpc \in {"accept", "result"} \/ (cpc = "loop" /\ pos < length)
    /\ toClient = <<>>

\* RemoteAudioSource.cc:27, speechclient.cc:87, :102: both sides block in
\* Receive, but never both at once; nor does the client wait for a Work() that
\* has returned (unless it has rejected the client's features).  It may wait
\* for one whose search has lost its tokens.
AnswerIsComing ==
    /\ ~(ServerWaits /\ ClientWaits)
    /\ ClientWaits /\ audio = "DATA_WAVE" => spc # "returned"

\* protocol.h:11-29: each side finds the packet it is waiting for at the
\* front of the connection, so that none of the checks of a header's type
\* (speechclient.cc:15, :89, DecodeWorker.cc:157, :204, RemoteAudioSource.cc:30)
\* ends a session between the two programs; and they never both wait.
ProtocolFollowed ==
    /\ toServer # <<>> => Head(toServer).type \in ServerExpects(spc)
    /\ toClient # <<>> => Head(toClient).type \in ClientExpects(cpc)
    /\ AnswerIsComing

InFlight == {toServer[i] : i \in {j \in DOMAIN toServer : toServer[j].type = audio}}

\* The server hears the file from its beginning, without gap or repetition:
\* what is on its way starts where the server is, and ends where the client
\* is.  From a short answer it concludes that there is no more
\* (online-vad.cc:227-231): it does when it has heard the whole file, not before.
AudioInOrder ==
    /\ audio = "DATA_WAVE" =>
          IF InFlight = {}
            THEN heard = Smaller(pos, length)
            ELSE \A p \in InFlight : p.first = heard /\ p.first + p.n = Smaller(pos, length)
    /\ finished => heard = length

\* In file mode, the client is given the result of its whole file, and the
\* server survives it, if the file has more frames than the right context.
FileIsDecoded ==
    ~online /\ audio = "DATA_WAVE" /\ HasRows(length)
        ~> (cpc = "left" /\ ~unanswered /\ heard = length /\ spc = "returned")

\* A session ends, and the worker becomes free for another client (or the
\* process has died) - unless the search loses all its tokens.
WorkerFreedUnlessSearchDies == <>(spc \in {"returned"} \cup ServerDead) \/ <>[]SearchLost

\* Server.cc:44, "Run until cancelled": a session with speechclient, which
\* ends as that program does, leaves the server running.
ServerSurvivesSession == audio = "DATA_WAVE" => spc \notin ServerDead
==================================================================================
