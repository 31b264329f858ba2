--------------------------- MODULE SpeechSessionProofs ---------------------------
(***************************************************************************)
(* Theorems about what the two ends of a session tell each other, and      *)
(* about the words that the server tells: of SpeechSession and of          *)
(* Traceback, whose reports are the outputs of the session's ReportResult. *)
(* The two modules have no variable in common.                             *)
(*                                                                         *)
(* Of SpeechSession: the two programs follow the protocol of each other    *)
(* (ProtocolFollowed), the server hears the client's file in order         *)
(* (AudioInOrder) and to its end, and the two never wait for each other    *)
(* (AnswerIsComing), for files of any length and any sizes of the server's *)
(* reads.  There is no ordering between two packets on their way but what  *)
(* the two programs impose: the invariant says that the client never has   *)
(* more than one packet on its way, and the server sends none behind a     *)
(* request for audio until it is answered.                                 *)
(*                                                                         *)
(* Of Traceback: no word is taken back, none that is certain is held back, *)
(* the walks over tokens end, and the reports of an utterance are its best *)
(* path, for any graph and any sizes of batches.  A path that all tokens   *)
(* share ends, up to its last arc with an input label, where               *)
(* UpdateImmortalToken finds the last shared ancestor (CommonIs), and the  *)
(* immortal token is on it (ImmortalShared).                               *)
(***************************************************************************)
EXTENDS SpeechSession, Traceback, SequenceTheorems, FiniteSetTheorems,
        WellFoundedInduction, TLAPS

-----------------------------------------------------------------------------
(* SpeechSession.                                                          *)

ServerPackets == [type : {"DECODE_REQUEST"}] \cup [type : AudioTypes, first : Nat, n : Nat]

ClientPackets ==
    [type : {"DECODE_ACCEPT"}] \cup [type : {"DATA_WAVE_REQUEST"}, n : Nat]
        \cup [type : {"DECODE_OUTPUT"}, end : BOOLEAN]

SessionTypes ==
    /\ online \in BOOLEAN /\ audio \in AudioTypes
    /\ length \in Nat \ {0} /\ pos \in Nat /\ heard \in Nat
    /\ spc \in ServerPlaces /\ cpc \in ClientPlaces
    /\ toServer \in Seq(ServerPackets) /\ toClient \in Seq(ClientPackets)
    /\ buffered \in BOOLEAN /\ finished \in BOOLEAN /\ alive \in BOOLEAN

\* Both sides are in the same mode.
OfMode ==
    /\ spc \in {"wave", "result"} \/ cpc \in {"send", "result"} => ~online
    /\ spc \in {"need", "audio", "decode"} \/ cpc = "loop" => online

\* Until the client has received the DECODE_ACCEPT, it sends one packet, and
\* the server with its file still to come stays where it is.
Opening ==
    /\ cpc = "start" => spc = "request" /\ toServer = <<>>
    /\ cpc \in {"start", "accept", "send"} => pos = 0
    /\ spc \in {"request", "accept"} => toClient = <<>> /\ cpc \in {"start", "accept"}
    /\ cpc = "accept" /\ spc # "request" => toServer = <<>>
    /\ cpc = "accept" /\ spc \notin {"request", "accept"} =>
          toClient # <<>> /\ toClient[1].type = "DECODE_ACCEPT"
    /\ ~online /\ cpc = "accept" => spc \in {"request", "accept", "wave"}
    /\ cpc = "send" => spc = "wave" /\ toServer = <<>>

\* A request for audio is the last packet of the server, which waits for the
\* answer (or is dead), and the client has not sent any.
Unanswered(i) ==
    /\ i = Len(toClient)
    /\ toServer = <<>>
    /\ online /\ spc \in {"audio"} \cup ServerDead

ToClient ==
    \A i \in 1 .. Len(toClient) :
        /\ toClient[i].type = "DECODE_ACCEPT" => i = 1 /\ cpc = "accept"
        /\ toClient[i].type = "DATA_WAVE_REQUEST" => Unanswered(i)

\* The client's only packet on its way is one that the server waits for.
ToServer ==
    toServer # <<>> =>
        /\ Len(toServer) = 1
        /\ spc \in {"request", "wave", "audio"} \cup ServerDead
        /\ toServer[1].type = IF spc = "request" THEN "DECODE_REQUEST" ELSE audio

\* It continues what the server has heard.
InOrder ==
    audio = "DATA_WAVE" =>
        IF toServer # <<>> /\ spc # "request"
          THEN toServer[1].first = heard /\ heard + toServer[1].n = Smaller(pos, length)
          ELSE heard = Smaller(pos, length)

\* Who waits for a packet finds it on its way, or the one it answers.
AnswerOnItsWay ==
    /\ spc = "request" /\ cpc = "accept" => toServer # <<>>
    /\ spc = "wave" /\ cpc = "result" => toServer # <<>>
    /\ spc = "audio" /\ cpc \in {"accept", "loop"} /\ toServer = <<>> =>
          toClient # <<>> /\ toClient[Len(toClient)].type = "DATA_WAVE_REQUEST"
    /\ ~online /\ audio = "DATA_WAVE" /\ spc = "returned" /\ cpc = "result" => toClient # <<>>

\* The client sends what it was asked for, or the rest of its file.
Amounts ==
    /\ \A i \in 1 .. Len(toClient) :
          toClient[i].type = "DATA_WAVE_REQUEST" => toClient[i].n = Asked
    /\ spc = "audio" /\ buffered /\ toServer # <<>> => toServer[1].n = BatchSize \/ pos >= length

\* Only the end of the file ends the features, and only that an online session.
WholeFile ==
    /\ finished => /\ heard = length /\ pos >= length
                   /\ spc \in {"decode", "returned"} \cup ServerDead
    /\ online /\ spc = "returned" => finished

Conversation ==
    /\ OfMode /\ Opening /\ ToClient /\ ToServer /\ InOrder
    /\ AnswerOnItsWay /\ Amounts /\ WholeFile

SessionInv == SessionTypes /\ Conversation

-----------------------------------------------------------------------------
(* The two channels.                                                       *)

\* A channel that is not empty has a front.
LEMMA FrontOf ==
  ASSUME NEW S, NEW s \in Seq(S), s # <<>>
  PROVE  /\ Len(s) \in Nat /\ Len(s) > 0 /\ Head(s) = s[1] /\ s[1] \in S
         /\ Tail(s) \in Seq(S) /\ Len(Tail(s)) = Len(s) - 1
         /\ \A i \in 1 .. Len(s) - 1 : Tail(s)[i] = s[i + 1]
         /\ Len(s) = 1 => Tail(s) = <<>>
<1>1. Len(s) \in Nat /\ Len(s) > 0
  BY EmptySeq
<1>2. Head(s) = s[1] /\ s[1] \in S
  BY <1>1
<1>3. Tail(s) \in Seq(S) /\ Len(Tail(s)) = Len(s) - 1
      /\ \A i \in 1 .. Len(s) - 1 : Tail(s)[i] = s[i + 1]
  BY <1>1, HeadTailProperties
<1>4. Len(s) = 1 => Tail(s) = <<>>
  <2>1. \A t \in Seq(S) : Len(t) = 0 => t = <<>>
    BY EmptySeq
  <2>2. Len(s) = 1 => Len(Tail(s)) = 0
    BY <1>3
  <2>3. Tail(s) \in Seq(S)
    BY <1>3
  <2> QED
    BY <2>1, <2>2, <2>3, Zenon
<1> QED
  BY <1>1, <1>2, <1>3, <1>4

\* What is appended is at the back.
LEMMA Back ==
  ASSUME NEW S, NEW s \in Seq(S), NEW e \in S
  PROVE  /\ Append(s, e) \in Seq(S) /\ Append(s, e) # <<>>
         /\ Len(s) \in Nat /\ Len(Append(s, e)) = Len(s) + 1
         /\ \A i \in 1 .. Len(s) : Append(s, e)[i] = s[i]
         /\ Append(s, e)[Len(s) + 1] = e
BY AppendProperties

\* Receiving leaves nothing behind on the way to the server.
LEMMA ServerGets ==
  ASSUME SessionInv, toServer # <<>>, toServer' = Tail(toServer)
  PROVE  /\ toServer' = <<>> /\ toServer' \in Seq(ServerPackets)
         /\ Head(toServer) = toServer[1] /\ toServer[1] \in ServerPackets
BY FrontOf DEF SessionInv, SessionTypes, Conversation, ToServer

LEMMA ClientGets ==
  ASSUME SessionInv, NEW type, ClientReceives(type)
  PROVE  /\ Len(toClient) \in Nat /\ Len(toClient) > 0
         /\ Head(toClient) = toClient[1] /\ toClient[1] \in ClientPackets
         /\ toClient[1].type = type
         /\ toClient' \in Seq(ClientPackets) /\ Len(toClient') = Len(toClient) - 1
         /\ \A i \in 1 .. Len(toClient') : toClient'[i] = toClient[i + 1]
BY FrontOf DEF SessionInv, SessionTypes, ClientReceives

LEMMA Sent ==
  ASSUME SessionInv, NEW packet \in ClientPackets, NEW next, ServerSends(packet, next)
  PROVE  /\ toClient' \in Seq(ClientPackets) /\ Len(toClient) \in Nat
         /\ \/ /\ toClient' = toClient
               /\ cpc \in ClientGone
               /\ spc' = next \/ spc' \in {"exited", "killed"}
            \/ /\ toClient' # <<>> /\ Len(toClient') = Len(toClient) + 1
               /\ \A i \in 1 .. Len(toClient) : toClient'[i] = toClient[i]
               /\ toClient'[Len(toClient) + 1] = packet
               /\ spc' = next
<1>1. toClient \in Seq(ClientPackets)
  BY DEF SessionInv, SessionTypes
<1>2. Len(toClient) \in Nat
  BY <1>1, Back
<1>3. CASE toClient' = Append(toClient, packet) /\ spc' = next
  BY <1>1, <1>3, Back
<1>4. CASE toClient' = toClient /\ cpc \in ClientGone /\ (spc' = next \/ spc' \in {"exited", "killed"})
  BY <1>1, <1>2, <1>4
<1> QED
  BY <1>3, <1>4 DEF ServerSends

-----------------------------------------------------------------------------
(* Every step continues the conversation.                                  *)

LEMMA InitInv == Init => SessionInv
<1> SUFFICES ASSUME Init PROVE SessionInv
  OBVIOUS
<1> USE SessionAssumption DEF Init
<1>1. SessionTypes
  <2>1. online \in BOOLEAN /\ audio \in AudioTypes /\ length \in Nat \ {0}
    OBVIOUS
  <2>2. toServer \in Seq(ServerPackets) /\ toClient \in Seq(ClientPackets)
    BY EmptySeq
  <2>3. spc \in ServerPlaces /\ cpc \in ClientPlaces
    BY DEF ServerPlaces, ClientPlaces
  <2> QED
    BY <2>1, <2>2, <2>3 DEF SessionTypes
<1>2. OfMode /\ Opening /\ ToServer
  BY DEF OfMode, Opening, ToServer
<1>3. ToClient
  BY EmptySeq DEF ToClient
<1>4. InOrder
  BY SessionAssumption DEF InOrder, Smaller
<1>5. AnswerOnItsWay /\ Amounts /\ WholeFile
  BY EmptySeq DEF AnswerOnItsWay, Amounts, WholeFile
<1> QED
  BY <1>1, <1>2, <1>3, <1>4, <1>5 DEF SessionInv, Conversation

\* The server sends a packet that is no request for audio: a DECODE_ACCEPT
\* when nothing was sent before, or a result.
LEMMA ServerReports ==
  ASSUME SessionInv,
         \/ SendAccept
         \/ SendResult
         \/ ReportResult
         \/ ReportEnd
  PROVE  SessionInv'
<1> USE DEF SessionInv, Conversation, SessionTypes, setup, clientVars, serverVars
<1>1. PICK packet \in ClientPackets, next \in {"need", "wave", "returned", "decode"} :
        /\ ServerSends(packet, next)
        /\ packet.type = IF spc = "accept" THEN "DECODE_ACCEPT" ELSE "DECODE_OUTPUT"
        /\ spc = "accept" => next = IF online THEN "need" ELSE "wave"
        /\ spc = "decode" => next \in {"decode", "returned"}
        /\ spc = "result" => next = "returned"
        /\ spc = "decode" /\ next = "returned" => finished
  <2>1. CASE SendAccept
    BY <2>1 DEF SendAccept, FirstPacket, Packet, ClientPackets
  <2>2. CASE SendResult
    BY <2>2 DEF SendResult, Output, ClientPackets
  <2>3. CASE ReportResult
    BY <2>3 DEF ReportResult, Output, ClientPackets
  <2>4. CASE ReportEnd
    BY <2>4 DEF ReportEnd, Output, ClientPackets
  <2> QED
    BY <2>1, <2>2, <2>3, <2>4
<1>2. /\ spc \in {"accept", "result", "decode"}
      /\ UNCHANGED <<online, audio, length, cpc, toServer, heard, pos, buffered, finished, alive>>
  BY DEF SendAccept, SendResult, ReportResult, ReportEnd
<1>3. /\ toClient' \in Seq(ClientPackets) /\ Len(toClient) \in Nat
      /\ \/ /\ toClient' = toClient
            /\ cpc \in ClientGone
            /\ spc' = next \/ spc' \in {"exited", "killed"}
         \/ /\ toClient' # <<>> /\ Len(toClient') = Len(toClient) + 1
            /\ \A i \in 1 .. Len(toClient) : toClient'[i] = toClient[i]
            /\ toClient'[Len(toClient) + 1] = packet
            /\ spc' = next
  BY <1>1, Sent
<1>4. toServer = <<>>
  BY <1>2 DEF ToServer, ServerDead
<1>5. SessionTypes'
  BY <1>2, <1>3 DEF ServerPlaces, ServerDead, ServerPackets, ClientPackets
<1>6. OfMode' /\ InOrder' /\ ToServer'
  BY <1>1, <1>2, <1>3, <1>4 DEF OfMode, ServerDead, InOrder, ToServer
<1>7. Opening'
  <2>1. toClient = <<>> => Len(toClient) = 0
    BY EmptySeq
  <2>2. spc = "accept" => cpc = "accept" /\ Len(toClient) = 0
    BY <1>2, <2>1 DEF Opening
  <2> QED
    BY <1>1, <1>2, <1>3, <1>4, <2>1, <2>2 DEF Opening, ClientGone, OfMode
<1>8. ToClient'
  BY <1>1, <1>2, <1>3, <1>4 DEF ToClient, Unanswered, Opening, ServerDead, ClientGone
<1>9. AnswerOnItsWay'
  BY <1>1, <1>2, <1>3 DEF AnswerOnItsWay, Opening, ClientGone
<1>10. Amounts'
  BY <1>1, <1>2, <1>3 DEF Amounts, ToClient, Unanswered, ServerDead
<1>11. WholeFile'
  BY <1>1, <1>2, <1>3 DEF WholeFile, OfMode, ServerDead
<1> QED
  BY <1>5, <1>6, <1>7, <1>8, <1>9, <1>10, <1>11

\* The server asks for audio: its packet is the last one, and it waits.
LEMMA ServerAsks ==
  ASSUME SessionInv, RequestAudio
  PROVE  SessionInv'
<1> USE DEF SessionInv, Conversation, SessionTypes, setup, clientVars, serverVars
<1> DEFINE packet == Request(Asked)
<1>1. packet \in ClientPackets /\ packet.type = "DATA_WAVE_REQUEST" /\ packet.n = Asked
  BY SessionAssumption DEF Request, ClientPackets, Asked
<1>2. /\ spc = "need" /\ ServerSends(packet, "audio")
      /\ UNCHANGED <<online, audio, length, cpc, toServer, heard, pos, buffered, finished, alive>>
  BY DEF RequestAudio
<1> HIDE DEF packet
<1>3. /\ toClient' \in Seq(ClientPackets) /\ Len(toClient) \in Nat
      /\ \/ /\ toClient' = toClient
            /\ cpc \in ClientGone
            /\ spc' = "audio" \/ spc' \in {"exited", "killed"}
         \/ /\ toClient' # <<>> /\ Len(toClient') = Len(toClient) + 1
            /\ \A i \in 1 .. Len(toClient) : toClient'[i] = toClient[i]
            /\ toClient'[Len(toClient) + 1] = packet
            /\ spc' = "audio"
  BY <1>1, <1>2, Sent
<1>4. toServer = <<>> /\ online
  BY <1>2 DEF ToServer, ServerDead, OfMode
<1>5. SessionTypes'
  BY <1>2, <1>3 DEF ServerPlaces, ServerDead, ServerPackets, ClientPackets
<1>6. OfMode' /\ InOrder' /\ ToServer'
  BY <1>2, <1>3, <1>4 DEF OfMode, ServerDead, InOrder, ToServer
<1>7. Opening'
  <2>1. toClient # <<>> => Len(toClient) > 0
    BY EmptySeq
  <2> QED
    BY <1>2, <1>3, <1>4, <2>1 DEF Opening, ClientGone, OfMode
<1>8. ToClient'
  BY <1>1, <1>2, <1>3, <1>4 DEF ToClient, Unanswered, Opening, ServerDead, ClientGone
<1>9. AnswerOnItsWay'
  BY <1>1, <1>2, <1>3 DEF AnswerOnItsWay, ClientGone
<1>10. Amounts'
  BY <1>1, <1>2, <1>3, <1>4 DEF Amounts, Asked, ToClient, Unanswered, ServerDead
<1>11. WholeFile'
  BY <1>2, <1>3 DEF WholeFile, ServerDead
<1> QED
  BY <1>5, <1>6, <1>7, <1>8, <1>9, <1>10, <1>11

\* The server receives the client's packet, or rejects it.
LEMMA ServerHears ==
  ASSUME SessionInv,
         \/ ReceiveRequest
         \/ ReceiveWave
         \/ ReceiveBuffer
         \/ ReceiveBatch
         \/ RejectAudio
  PROVE  SessionInv'
<1> USE DEF SessionInv, Conversation, SessionTypes, setup, clientVars, serverVars
<1>1. /\ toServer # <<>> /\ toServer' = Tail(toServer)
      /\ UNCHANGED <<online, audio, length, cpc, toClient, pos>>
  BY DEF ReceiveRequest, ReceiveWave, ReceiveBuffer, ReceiveBatch, RejectAudio, ServerReceives
<1>2. /\ toServer' = <<>> /\ toServer' \in Seq(ServerPackets)
      /\ Head(toServer) = toServer[1] /\ toServer[1] \in ServerPackets
  BY <1>1, ServerGets
<1>3. audio \in {"DATA_WAVE", "DATA_FEATURE"}
  BY SessionAssumption
<1>4. /\ spc \in {"request", "wave", "audio"}
      /\ spc = "request" => spc' = "accept" /\ heard' = heard
      /\ spc = "wave" => spc' \in {"result", "aborted", "returned"}
      /\ spc = "audio" => spc' \in {"need", "decode", "bad_packet"}
      /\ IF spc = "request" THEN toServer[1].type = "DECODE_REQUEST"
         ELSE /\ toServer[1].type = audio
              /\ IF audio = "DATA_WAVE" THEN heard' = heard + toServer[1].n
                                        ELSE heard' = heard
      /\ spc' = "returned" => audio # "DATA_WAVE" /\ ~online
  <2>1. toServer[1].type = IF spc = "request" THEN "DECODE_REQUEST" ELSE audio
    BY <1>1 DEF ToServer
  <2>2. CASE ReceiveRequest
    BY <1>2, <2>1, <2>2 DEF ReceiveRequest
  <2>3. CASE ReceiveWave
    BY <1>2, <2>1, <2>3 DEF ReceiveWave, ServerReceives, AfterWave
  <2>4. CASE ReceiveBuffer \/ ReceiveBatch
    BY <1>2, <2>1, <2>4 DEF ReceiveBuffer, ReceiveBatch, ServerReceives
  <2>5. CASE RejectAudio
    BY <1>2, <2>1, <2>5 DEF RejectAudio, OfMode
  <2> QED
    BY <2>2, <2>3, <2>4, <2>5
<1>5. audio = "DATA_WAVE" /\ spc # "request" => toServer[1].n \in Nat
  BY <1>2, <1>4 DEF ServerPackets
<1>6. SessionTypes'
  <2>1. buffered' \in BOOLEAN /\ finished' \in BOOLEAN /\ alive' = alive
    BY DEF ReceiveRequest, ReceiveWave, ReceiveBuffer, ReceiveBatch, RejectAudio
  <2> QED
    BY <1>1, <1>2, <1>4, <1>5, <2>1 DEF ServerPlaces, ServerDead, ServerPackets
<1>7. OfMode' /\ ToServer' /\ InOrder'
  BY <1>1, <1>2, <1>4 DEF OfMode, ToServer, InOrder
<1>8. Opening'
  BY <1>1, <1>2, <1>4 DEF Opening, OfMode
<1>9. ToClient'
  BY <1>1 DEF ToClient, Unanswered
<1>10. AnswerOnItsWay'
  BY <1>1, <1>4 DEF AnswerOnItsWay
<1>11. Amounts'
  BY <1>1, <1>2, <1>4 DEF Amounts, ToClient, Unanswered
<1>12. WholeFile'
  <2>1. CASE ReceiveBatch
    <3>1. /\ spc = "audio" /\ buffered /\ toServer[1].type = "DATA_WAVE"
          /\ finished' = (toServer[1].n # BatchSize)
          /\ spc' = "decode" \/ (spc' = "need" /\ ~finished')
      BY <1>2, <2>1 DEF ReceiveBatch, ServerReceives
    <3>2. audio = "DATA_WAVE"
      BY <1>4, <3>1
    <3>3. heard' = Smaller(pos, length)
      BY <1>1, <1>4, <3>1, <3>2 DEF InOrder
    <3>4. finished' => pos >= length
      BY <1>1, <3>1 DEF Amounts
    <3>5. finished' => heard' = length
      BY <3>3, <3>4 DEF Smaller
    <3> QED
      BY <1>1, <3>1, <3>4, <3>5 DEF WholeFile
  <2>2. CASE ~ReceiveBatch
    <3>1. finished' = finished
      BY <2>2 DEF ReceiveRequest, ReceiveWave, ReceiveBuffer, RejectAudio
    <3>2. ~finished
      BY <1>4 DEF WholeFile, ServerDead
    <3> QED
      BY <1>1, <1>4, <3>1, <3>2 DEF WholeFile
  <2> QED
    BY <2>1, <2>2
<1> QED
  BY <1>6, <1>7, <1>8, <1>9, <1>10, <1>11, <1>12

\* The server decodes what it has, loses its tokens, or finds that the client
\* has gone.
LEMMA ServerGoesOn ==
  ASSUME SessionInv, NeedAudio \/ SearchDies \/ SearchSpins \/ ServerReceiveFails
  PROVE  SessionInv'
<1> USE DEF SessionInv, Conversation, SessionTypes, setup, clientVars, serverVars
<1>1. /\ UNCHANGED <<online, audio, length, cpc, toServer, toClient, heard, pos, buffered, finished>>
      /\ alive' \in BOOLEAN
  BY DEF NeedAudio, SearchDies, SearchSpins, vars, ServerReceiveFails
<1>2. \/ spc = "decode" /\ spc' \in {"need", "decode"} /\ ~finished
      \/ /\ spc \in {"request", "wave", "audio"} /\ spc' = "exited"
         /\ cpc \in ClientGone /\ toServer = <<>>
  BY DEF NeedAudio, SearchDies, SearchSpins, SearchLost, vars, ServerReceiveFails,
         AfterEndOfStream
<1>3. SessionTypes' /\ OfMode'
  BY <1>1, <1>2 DEF OfMode, ServerPlaces, ServerDead, ServerPackets
<1>4. Opening' /\ ToServer' /\ InOrder'
  BY <1>1, <1>2 DEF Opening, ToServer, InOrder, ClientGone, ServerDead, OfMode
<1>5. ToClient'
  BY <1>1, <1>2 DEF ToClient, Unanswered, ServerDead
<1>6. AnswerOnItsWay' /\ Amounts'
  BY <1>1, <1>2 DEF AnswerOnItsWay, Amounts, Asked
<1>7. WholeFile'
  BY <1>1, <1>2 DEF WholeFile, ServerDead
<1> QED
  BY <1>3, <1>4, <1>5, <1>6, <1>7

\* The client sends its first packet, or its file.
LEMMA ClientSendsFirst ==
  ASSUME SessionInv, SendRequest \/ SendFile
  PROVE  SessionInv'
<1> USE DEF SessionInv, Conversation, SessionTypes, setup, clientVars, serverVars
<1>1. UNCHANGED <<online, audio, length, spc, toClient, heard, buffered, finished, alive>>
  BY DEF SendRequest, SendFile
<1>2. toServer = <<>> /\ Len(toServer) = 0 /\ pos = 0 /\ Len(toClient) \in Nat
  BY EmptySeq DEF SendRequest, SendFile, Opening
<1>3. PICK packet \in ServerPackets :
        /\ toServer' = Append(toServer, packet)
        /\ \/ /\ cpc = "start" /\ spc = "request" /\ cpc' = "accept" /\ pos' = 0
              /\ packet.type = "DECODE_REQUEST"
           \/ /\ cpc = "send" /\ spc = "wave" /\ cpc' = "result" /\ pos' = length
              /\ packet.type = audio /\ packet.first = 0 /\ packet.n = length
  <2>1. CASE SendRequest
    BY <1>2, <2>1 DEF SendRequest, Packet, ClientSends, ServerPackets, Opening
  <2>2. CASE SendFile
    <3>1. Wave(0, length) \in ServerPackets
      BY DEF Wave, ServerPackets
    <3> QED
      BY <3>1, <2>2 DEF SendFile, Wave, ClientSends, Opening
  <2> QED
    BY <2>1, <2>2
<1>4. /\ toServer' \in Seq(ServerPackets) /\ toServer' # <<>>
      /\ Len(toServer') = 1 /\ toServer'[1] = packet
  BY <1>2, <1>3, Back
<1>5. SessionTypes'
  BY <1>1, <1>3, <1>4 DEF ClientPlaces, ClientGone
<1>6. OfMode' /\ ToServer'
  BY <1>1, <1>3, <1>4 DEF OfMode, ToServer
<1>7. Opening'
  BY <1>1, <1>3, <1>4 DEF Opening
<1>8. \A i \in 1 .. Len(toClient) :
        toClient[i].type \notin {"DECODE_ACCEPT", "DATA_WAVE_REQUEST"}
  BY <1>2, <1>3, EmptySeq DEF ToClient, Unanswered, ServerDead, Opening
<1>9. InOrder'
  BY <1>1, <1>2, <1>3, <1>4 DEF InOrder, Smaller
<1>10. ToClient' /\ AnswerOnItsWay' /\ Amounts'
  BY <1>1, <1>3, <1>4, <1>8 DEF ToClient, AnswerOnItsWay, Amounts
<1>11. WholeFile'
  BY <1>1, <1>3 DEF WholeFile, ServerDead
<1> QED
  BY <1>5, <1>6, <1>7, <1>9, <1>10, <1>11

\* The client receives a packet that it does not answer.
LEMMA ClientHears ==
  ASSUME SessionInv, ReceiveAccept \/ ReceiveResult \/ ShowOutput
  PROVE  SessionInv'
<1> USE DEF SessionInv, Conversation, SessionTypes, setup, clientVars, serverVars
<1>1. UNCHANGED <<online, audio, length, spc, toServer, heard, pos, buffered, finished, alive>>
  BY DEF ReceiveAccept, ReceiveResult, ShowOutput
<1>2. /\ \/ cpc = "accept" /\ cpc' = IF online THEN "loop" ELSE "send"
         \/ cpc = "result" /\ cpc' = "left"
         \/ cpc = "loop" /\ cpc' = "loop"
      /\ cpc = "accept" => ClientReceives("DECODE_ACCEPT")
      /\ cpc # "accept" => ClientReceives("DECODE_OUTPUT")
  BY DEF ReceiveAccept, ReceiveResult, ShowOutput
<1>3. /\ Len(toClient) \in Nat /\ Len(toClient) > 0
      /\ toClient' \in Seq(ClientPackets) /\ Len(toClient') = Len(toClient) - 1
      /\ \A i \in 1 .. Len(toClient') : toClient'[i] = toClient[i + 1]
  BY <1>2, ClientGets
<1>4. spc \notin {"request", "accept"}
  BY <1>3, EmptySeq DEF Opening
<1>5. SessionTypes' /\ OfMode'
  BY <1>1, <1>2, <1>3 DEF ClientPlaces, ClientGone, OfMode
<1>6. Opening'
  BY <1>1, <1>2, <1>4 DEF Opening
<1>7. ToClient'
  BY <1>1, <1>3 DEF ToClient, Unanswered
<1>8. ToServer' /\ InOrder' /\ WholeFile'
  BY <1>1 DEF ToServer, InOrder, WholeFile
<1>9. AnswerOnItsWay'
  <2> SUFFICES ASSUME spc = "audio", cpc' = "loop", toServer = <<>>
               PROVE  /\ toClient' # <<>>
                      /\ toClient'[Len(toClient')].type = "DATA_WAVE_REQUEST"
    BY <1>1, <1>2, <1>4 DEF AnswerOnItsWay
  <2>1. toClient[Len(toClient)].type = "DATA_WAVE_REQUEST"
    BY <1>2 DEF AnswerOnItsWay
  <2>2. toClient[1].type # "DATA_WAVE_REQUEST"
    BY <1>2, ClientGets
  <2>3. Len(toClient') > 0 /\ toClient'[Len(toClient')] = toClient[Len(toClient)]
    BY <1>3, <2>1, <2>2
  <2> QED
    BY <1>3, <2>1, <2>3, EmptySeq
<1>10. Amounts'
  BY <1>1, <1>3 DEF Amounts, Asked
<1> QED
  BY <1>5, <1>6, <1>7, <1>8, <1>9, <1>10

LEMMA SmallerSum ==
  ASSUME NEW a \in Nat, NEW b \in Nat, NEW n \in Nat, a < b
  PROVE  a + Smaller(b - a, n) = Smaller(a + n, b)
BY DEF Smaller

\* The client answers a request for audio.
LEMMA ClientAnswers ==
  ASSUME SessionInv, AnswerRequest
  PROVE  SessionInv'
<1> USE DEF SessionInv, Conversation, SessionTypes, setup, clientVars, serverVars
<1>1. /\ UNCHANGED <<online, audio, length, spc, cpc, heard, buffered, finished, alive>>
      /\ cpc = "loop" /\ pos < length
      /\ ClientReceives("DATA_WAVE_REQUEST")
  BY DEF AnswerRequest
<1>2. /\ Len(toClient) \in Nat /\ Len(toClient) > 0
      /\ Head(toClient) = toClient[1] /\ toClient[1] \in ClientPackets
      /\ toClient[1].type = "DATA_WAVE_REQUEST"
      /\ toClient' \in Seq(ClientPackets) /\ Len(toClient') = Len(toClient) - 1
  BY <1>1, ClientGets
<1>3. Unanswered(1)
  BY <1>2 DEF ToClient
<1> DEFINE n == toClient[1].n
<1>4. n \in Nat
  BY <1>2 DEF ClientPackets
<1>5. PICK packet \in ServerPackets :
        /\ toServer' = Append(toServer, packet) /\ pos' = pos + n
        /\ packet.type = audio
        /\ packet.first = pos /\ packet.n = Smaller(length - pos, n)
  <2>1. NextWave(n) \in ServerPackets
    BY <1>1, <1>4 DEF NextWave, Wave, ServerPackets, Smaller
  <2> QED
    BY <1>2, <2>1 DEF AnswerRequest, ClientSends, NextWave, Wave
<1>6. /\ toServer = <<>> /\ Len(toServer) = 0
      /\ toServer' \in Seq(ServerPackets) /\ toServer' # <<>>
      /\ Len(toServer') = 1 /\ toServer'[1] = packet
  BY <1>3, <1>5, EmptySeq, Back DEF Unanswered
<1>7. spc \in {"audio"} \cup ServerDead /\ Len(toClient') = 0
  BY <1>2, <1>3 DEF Unanswered
<1>8. SessionTypes' /\ OfMode'
  BY <1>1, <1>2, <1>4, <1>5, <1>6 DEF OfMode
<1>9. Opening'
  BY <1>1, <1>7 DEF Opening, ServerDead
<1>10. ToClient' /\ ToServer'
  BY <1>1, <1>5, <1>6, <1>7 DEF ToClient, ToServer, ServerDead
<1>11. InOrder'
  <2> SUFFICES ASSUME audio = "DATA_WAVE"
               PROVE  packet.first = heard /\ heard + packet.n = Smaller(pos + n, length)
    BY <1>1, <1>5, <1>6, <1>7 DEF InOrder, ServerDead
  <2>1. heard = Smaller(pos, length)
    BY <1>6 DEF InOrder
  <2>2. heard = pos
    BY <1>1, <2>1 DEF Smaller
  <2>3. pos + Smaller(length - pos, n) = Smaller(pos + n, length)
    BY <1>1, <1>4, SmallerSum
  <2> QED
    BY <1>5, <2>2, <2>3
<1>12. AnswerOnItsWay' /\ WholeFile'
  BY <1>1, <1>6, <1>7 DEF AnswerOnItsWay, WholeFile, ServerDead
<1>13. Amounts'
  <2>1. buffered => n = BatchSize
    BY <1>2 DEF Amounts, Asked
  <2>2. n = BatchSize => packet.n = BatchSize \/ pos + n >= length
    BY <1>1, <1>4, <1>5 DEF Smaller
  <2> QED
    BY <1>1, <1>5, <1>6, <1>7, <2>1, <2>2 DEF Amounts
<1> QED
  BY <1>8, <1>9, <1>10, <1>11, <1>12, <1>13

\* The client leaves.
LEMMA ClientLeaves ==
  ASSUME SessionInv, LeaveLoop \/ ClientReceiveFails
  PROVE  SessionInv'
<1> USE DEF SessionInv, Conversation, SessionTypes, setup, clientVars, serverVars
<1>1. UNCHANGED <<online, audio, length, spc, toServer, toClient, heard, pos, buffered, finished, alive>>
  BY DEF LeaveLoop, ClientReceiveFails
<1>2. /\ cpc \in {"accept", "result", "loop"} /\ cpc' \in ClientGone
      /\ cpc = "accept" => spc \in ServerDead /\ toClient = <<>>
  BY DEF LeaveLoop, ClientReceiveFails, ClientGone
<1>3. SessionTypes' /\ OfMode' /\ ToServer' /\ InOrder'
  BY <1>1, <1>2 DEF ClientPlaces, ClientGone, OfMode, ToServer, InOrder
<1>4. cpc # "accept" /\ spc \notin {"request", "accept"}
  BY <1>2 DEF Opening, ServerDead
<1>5. Opening' /\ ToClient'
  BY <1>1, <1>2, <1>4 DEF Opening, ToClient, Unanswered, ClientGone
<1>6. AnswerOnItsWay' /\ Amounts' /\ WholeFile'
  BY <1>1, <1>2 DEF AnswerOnItsWay, Amounts, Asked, WholeFile, ClientGone
<1> QED
  BY <1>3, <1>5, <1>6

LEMMA NextInv == SessionInv /\ [Next]_vars => SessionInv'
<1> SUFFICES ASSUME SessionInv, [Next]_vars PROVE SessionInv'
  OBVIOUS
<1>1. CASE ServerStep
  BY <1>1, ServerReports, ServerAsks, ServerHears, ServerGoesOn DEF ServerStep
<1>2. CASE ClientStep
  BY <1>2, ClientSendsFirst, ClientHears, ClientAnswers, ClientLeaves DEF ClientStep
<1>3. CASE Ended \/ UNCHANGED vars
  BY <1>3 DEF Ended, vars, setup, serverVars, clientVars, SessionInv, SessionTypes,
              Conversation, OfMode, Opening, ToClient, Unanswered, ToServer, InOrder,
              AnswerOnItsWay, Amounts, Asked, WholeFile
<1> QED
  BY <1>1, <1>2, <1>3 DEF Next

LEMMA SpecInv == Spec => []SessionInv
BY InitInv, NextInv, PTL DEF Spec

\* RemoteAudioSource::Read and speechclient's loops block in Receive without a
\* timeout; there is no state in which both do and nothing is on its way, and
\* Work() does not return while the client waits for a result.  (That it is
\* still running does not mean that it will send one: see SearchLost.)
THEOREM NeverBothWait == Spec => []AnswerIsComing
<1>1. ASSUME SessionInv PROVE AnswerIsComing
  <2> USE <1>1 DEF SessionInv, Conversation, ClientWaits
  <2>1. ASSUME ServerWaits, ClientWaits PROVE FALSE
    <3> USE <2>1 DEF ServerWaits
    <3>1. CASE spc = "request"
      BY <3>1 DEF Opening, AnswerOnItsWay
    <3>2. CASE spc = "wave"
      BY <3>2 DEF Opening, OfMode, AnswerOnItsWay
    <3>3. CASE spc = "audio"
      BY <3>3 DEF OfMode, AnswerOnItsWay
    <3> QED
      BY <3>1, <3>2, <3>3
  <2>2. ASSUME ClientWaits, audio = "DATA_WAVE", spc = "returned" PROVE FALSE
    <3> USE <2>2
    <3>1. CASE cpc = "accept"
      BY <3>1 DEF Opening
    <3>2. CASE cpc = "result"
      BY <3>2 DEF OfMode, AnswerOnItsWay
    <3>3. CASE cpc = "loop"
      BY <3>3 DEF OfMode, WholeFile, SessionTypes
    <3> QED
      BY <3>1, <3>2, <3>3
  <2> QED
    BY <2>1, <2>2 DEF AnswerIsComing
<1> QED
  BY <1>1, SpecInv, PTL

\* Each side finds the packet that it is waiting for: none of the checks of a
\* header's type in speechclient.cc, DecodeWorker.cc and RemoteAudioSource.cc
\* ends a session between the two programs.
THEOREM ClientAndServerAgree == Spec => []ProtocolFollowed
<1>1. ASSUME SessionInv
      PROVE  toServer # <<>> => Head(toServer).type \in ServerExpects(spc)
  <2> SUFFICES ASSUME toServer # <<>> PROVE Head(toServer).type \in ServerExpects(spc)
    OBVIOUS
  <2>1. Head(toServer) = toServer[1]
    BY <1>1, FrontOf DEF SessionInv, SessionTypes
  <2>2. audio \in {"DATA_WAVE", "DATA_FEATURE"}
    BY <1>1, SessionAssumption DEF SessionInv, SessionTypes
  <2> QED
    BY <1>1, <2>1, <2>2
    DEF SessionInv, Conversation, ToServer, ServerExpects, PacketTypes, ServerDead
<1>2. ASSUME SessionInv
      PROVE  toClient # <<>> => Head(toClient).type \in ClientExpects(cpc)
  <2> SUFFICES ASSUME toClient # <<>> PROVE Head(toClient).type \in ClientExpects(cpc)
    OBVIOUS
  <2>1. Head(toClient) = toClient[1] /\ toClient[1] \in ClientPackets /\ Len(toClient) \in Nat
        /\ Len(toClient) > 0
    BY <1>2, FrontOf DEF SessionInv, SessionTypes
  <2>2. toClient[1].type \in {"DECODE_ACCEPT", "DATA_WAVE_REQUEST", "DECODE_OUTPUT"}
    BY <2>1 DEF ClientPackets
  <2>3. /\ toClient[1].type = "DECODE_ACCEPT" => cpc = "accept"
        /\ toClient[1].type = "DATA_WAVE_REQUEST" => online
    BY <1>2, <2>1 DEF SessionInv, Conversation, ToClient, Unanswered
  <2>4. /\ cpc = "accept" => toClient[1].type = "DECODE_ACCEPT"
        /\ cpc = "result" => ~online
    BY <1>2, <2>1 DEF SessionInv, Conversation, Opening, OfMode
  <2> QED
    BY <1>2, <2>1, <2>2, <2>3, <2>4 DEF ClientExpects, PacketTypes
<1> QED
  BY <1>1, <1>2, SpecInv, NeverBothWait, PTL DEF ProtocolFollowed

\* The server hears the client's file from its beginning, without gap or
\* repetition, whatever the sizes of the reads and wherever the file ends,
\* and takes a short answer for the last one only when it has heard it all.
THEOREM FileIsHeardInOrder == Spec => []AudioInOrder
<1>1. ASSUME SessionInv PROVE AudioInOrder
  <2> USE <1>1 DEF SessionInv, Conversation, SessionTypes
  <2> SUFFICES ASSUME audio = "DATA_WAVE"
               PROVE  IF InFlight = {}
                        THEN heard = Smaller(pos, length)
                        ELSE \A p \in InFlight :
                               p.first = heard /\ p.first + p.n = Smaller(pos, length)
    BY DEF AudioInOrder, WholeFile
  <2>1. CASE toServer = <<>> \/ spc = "request"
    <3>1. InFlight = {}
      BY <2>1, EmptySeq DEF InFlight, ToServer
    <3> QED
      BY <2>1, <3>1 DEF InOrder
  <2>2. CASE toServer # <<>> /\ spc # "request"
    <3>1. InFlight = {toServer[1]}
      BY <2>2, LenProperties DEF InFlight, ToServer
    <3> QED
      BY <2>2, <3>1 DEF InOrder
  <2> QED
    BY <2>1, <2>2
<1> QED
  BY <1>1, SpecInv, PTL

-----------------------------------------------------------------------------
(* Traceback.  First, induction, and the greatest of a bounded set.        *)

\* The order of the natural numbers is well founded.
LEMMA NatOrder ==
  \E R : IsWellFoundedOn(R, Nat) /\ \A x, y \in Nat : y < x => <<y, x>> \in R
<1> DEFINE R == OpToRel(<, Nat)
<1>1. IsWellFoundedOn(R, Nat)
  BY NatLessThanWellFounded
<1>2. \A x, y \in Nat : y < x => <<y, x>> \in R
  BY DEF OpToRel
<1> HIDE DEF R
<1> QED
  BY <1>1, <1>2, Zenon

\* A set of natural numbers has a least element.
LEMMA Least ==
  ASSUME NEW T \in SUBSET Nat, T # {}
  PROVE  \E x \in T : \A y \in T : x <= y
<1>1. PICK R : IsWellFoundedOn(R, Nat) /\ \A x, y \in Nat : y < x => <<y, x>> \in R
  BY NatOrder, Zenon
<1>2. PICK x \in T : \A y \in T : ~(<<y, x>> \in R)
  BY <1>1, WFMin
<1>3. ASSUME NEW y \in T PROVE x <= y
  <2>1. x \in Nat /\ y \in Nat
    OBVIOUS
  <2>2. ~(y < x)
    BY <1>1, <1>2, <2>1, Zenon
  <2> QED
    BY <2>1, <2>2
<1> QED
  BY <1>3

\* Induction up to n, for the numbers of which something is true.
LEMMA UpTo ==
  ASSUME NEW n \in Nat, NEW S, 0 \in S,
         \A i \in 1 .. n : i - 1 \in S => i \in S
  PROVE  0 .. n \subseteq S
<1> DEFINE T == (0 .. n) \ S
<1> SUFFICES ASSUME T # {} PROVE FALSE
  OBVIOUS
<1>1. T \in SUBSET Nat
  OBVIOUS
<1>2. PICK x \in T : \A y \in T : x <= y
  BY <1>1, Least
<1> QED
  BY <1>2

\* A set of natural numbers with a bound has a greatest element.
LEMMA Greatest ==
  ASSUME NEW n \in Nat, NEW T \in SUBSET (0 .. n), T # {}
  PROVE  Max(T) \in T /\ \A y \in T : y <= Max(T)
<1> DEFINE U == {n - y : y \in T}
<1>1. PICK x \in U : \A y \in U : x <= y
  <2>1. U \in SUBSET Nat /\ U # {}
    <3>1. \A y \in T : n - y \in Nat
      OBVIOUS
    <3>2. PICK y \in T : TRUE
      OBVIOUS
    <3>3. n - y \in U
      OBVIOUS
    <3> QED
      BY <3>1, <3>3
  <2> HIDE DEF U
  <2> QED
    BY <2>1, Least
<1>2. n - x \in T /\ \A y \in T : n - x >= y
  <2>1. ASSUME NEW y \in T PROVE n - x >= y
    <3>1. n - y \in U
      OBVIOUS
    <3>2. x <= n - y /\ y \in Nat /\ x \in Int
      BY <1>1, <3>1
    <3> QED
      BY <3>2
  <2>2. PICK y \in T : x = n - y
    OBVIOUS
  <2>3. n - x = y
    BY <2>2
  <2> QED
    BY <2>1, <2>2, <2>3
<1>3. \E z \in T : \A y \in T : z >= y
  BY <1>2
<1>4. Max(T) \in T /\ \A y \in T : Max(T) >= y
  BY <1>3 DEF Max
<1> QED
  BY <1>4

-----------------------------------------------------------------------------
(* Paths and their prefixes.                                               *)

\* What IsPrefix means, arc by arc.
LEMMA PrefixIs ==
  ASSUME NEW S, NEW s \in Seq(S), NEW t \in Seq(S)
  PROVE  IsPrefix(s, t) <=> Len(s) <= Len(t) /\ \A i \in 1 .. Len(s) : s[i] = t[i]
<1>1. Len(s) \in Nat /\ Len(t) \in Nat
  BY LenProperties
<1>2. SubSeq(s, 1, Len(s)) = s
  BY SubSeqFull
<1>3. ASSUME Len(s) <= Len(t)
      PROVE  /\ SubSeq(t, 1, Len(s)) \in Seq(S)
             /\ Len(SubSeq(t, 1, Len(s))) = Len(s)
             /\ \A i \in 1 .. Len(s) : SubSeq(t, 1, Len(s))[i] = t[i]
  <2>1. \A i \in 1 .. Len(s) : t[i] \in S
    BY <1>1, <1>3, ElementOfSeq
  <2>2. 1 \in Int /\ Len(s) \in Int
    BY <1>1
  <2>3. /\ SubSeq(t, 1, Len(s)) \in Seq(S)
        /\ Len(SubSeq(t, 1, Len(s))) = IF 1 <= Len(s) THEN Len(s) - 1 + 1 ELSE 0
        /\ \A i \in 1 .. Len(s) - 1 + 1 : SubSeq(t, 1, Len(s))[i] = t[1 + i - 1]
    BY <2>1, <2>2, SubSeqProperties
  <2>4. Len(s) - 1 + 1 = Len(s) /\ \A i \in 1 .. Len(s) : 1 + i - 1 = i
    BY <1>1
  <2> QED
    BY <1>1, <2>3, <2>4
<1>4. ASSUME Len(s) <= Len(t), \A i \in 1 .. Len(s) : s[i] = t[i]
      PROVE  s = SubSeq(t, 1, Len(s))
  BY <1>3, <1>4, SeqEqual
<1>5. ASSUME Len(s) <= Len(t), s = SubSeq(t, 1, Len(s))
      PROVE  \A i \in 1 .. Len(s) : s[i] = t[i]
  BY <1>3, <1>5
<1> QED
  BY <1>2, <1>4, <1>5 DEF IsPrefix

\* The empty path is a prefix of every path, and has no other prefix.
LEMMA NoPathFirst ==
  ASSUME NEW t \in Seq(Arcs)
  PROVE  IsPrefix(<<>>, t) /\ (IsPrefix(t, <<>>) => t = <<>>)
<1>1. PICK e \in Seq(Arcs) : e = <<>> /\ Len(e) = 0
  BY EmptySeq
<1>2. Len(t) \in Nat
  BY LenProperties
<1>3. IsPrefix(e, t)
  <2>1. Len(e) <= Len(t) /\ \A i \in 1 .. Len(e) : e[i] = t[i]
    BY <1>1, <1>2
  <2> QED
    BY <2>1, PrefixIs
<1>4. ASSUME IsPrefix(t, e) PROVE t = e
  <2>1. Len(t) <= Len(e) /\ \A i \in 1 .. Len(t) : t[i] = e[i]
    BY <1>4, PrefixIs
  <2>2. Len(t) = Len(e)
    BY <1>1, <1>2, <2>1
  <2> QED
    BY <2>1, <2>2, SeqEqual
<1> QED
  BY <1>1, <1>3, <1>4

LEMMA PrefixOfItself ==
  ASSUME NEW t \in Seq(Arcs)
  PROVE  IsPrefix(t, t)
<1>1. Len(t) \in Nat
  BY LenProperties
<1> QED
  BY <1>1, PrefixIs

\* The first k arcs of a path.
LEMMA FirstArcs ==
  ASSUME NEW t \in Seq(Arcs), NEW k \in 0 .. Len(t)
  PROVE  /\ SubSeq(t, 1, k) \in Seq(Arcs) /\ Len(SubSeq(t, 1, k)) = k
         /\ \A i \in 1 .. k : SubSeq(t, 1, k)[i] = t[i]
         /\ IsPrefix(SubSeq(t, 1, k), t)
<1>1. Len(t) \in Nat /\ k \in Nat /\ k <= Len(t)
  BY LenProperties
<1>2. \A i \in 1 .. k : t[i] \in Arcs
  BY <1>1, ElementOfSeq
<1>3. /\ SubSeq(t, 1, k) \in Seq(Arcs)
      /\ Len(SubSeq(t, 1, k)) = IF 1 <= k THEN k - 1 + 1 ELSE 0
      /\ \A i \in 1 .. k - 1 + 1 : SubSeq(t, 1, k)[i] = t[1 + i - 1]
  BY <1>1, <1>2, SubSeqProperties
<1>4. k - 1 + 1 = k /\ \A i \in 1 .. k : 1 + i - 1 = i
  BY <1>1
<1>5. /\ SubSeq(t, 1, k) \in Seq(Arcs) /\ Len(SubSeq(t, 1, k)) = k
      /\ \A i \in 1 .. k : SubSeq(t, 1, k)[i] = t[i]
  BY <1>1, <1>3, <1>4
<1> QED
  BY <1>1, <1>5, PrefixIs

\* A prefix of a prefix.
LEMMA PrefixTransitive ==
  ASSUME NEW r \in Seq(Arcs), NEW s \in Seq(Arcs), NEW t \in Seq(Arcs),
         IsPrefix(r, s), IsPrefix(s, t)
  PROVE  IsPrefix(r, t)
<1>1. /\ Len(r) \in Nat /\ Len(s) \in Nat /\ Len(t) \in Nat
  BY LenProperties
<1>2. /\ Len(r) <= Len(s) /\ \A i \in 1 .. Len(r) : r[i] = s[i]
      /\ Len(s) <= Len(t) /\ \A i \in 1 .. Len(s) : s[i] = t[i]
  BY PrefixIs
<1> QED
  BY <1>1, <1>2, PrefixIs

\* Two prefixes of one path: the shorter is one of the longer.
LEMMA PrefixesNested ==
  ASSUME NEW r \in Seq(Arcs), NEW s \in Seq(Arcs), NEW t \in Seq(Arcs),
         IsPrefix(r, t), IsPrefix(s, t), Len(r) <= Len(s)
  PROVE  IsPrefix(r, s) /\ (Len(r) = Len(s) => r = s) /\ SubSeq(s, 1, Len(r)) = r
<1>1. /\ Len(r) \in Nat /\ Len(s) \in Nat /\ Len(t) \in Nat
  BY LenProperties
<1>2. /\ Len(r) <= Len(t) /\ \A i \in 1 .. Len(r) : r[i] = t[i]
      /\ Len(s) <= Len(t) /\ \A i \in 1 .. Len(s) : s[i] = t[i]
  BY PrefixIs
<1>3. \A i \in 1 .. Len(r) : r[i] = s[i]
  BY <1>1, <1>2
<1>4. IsPrefix(r, s)
  BY <1>3, PrefixIs
<1>5. Len(r) = Len(s) => r = s
  BY <1>3, SeqEqual
<1>6. /\ SubSeq(s, 1, Len(r)) \in Seq(Arcs) /\ Len(SubSeq(s, 1, Len(r))) = Len(r)
      /\ \A i \in 1 .. Len(r) : SubSeq(s, 1, Len(r))[i] = s[i]
  BY <1>1, FirstArcs
<1>7. SubSeq(s, 1, Len(r)) = r
  BY <1>3, <1>6, SeqEqual
<1> QED
  BY <1>4, <1>5, <1>7

\* One arc more.
LEMMA OneMore ==
  ASSUME NEW t \in Seq(Arcs), NEW a \in Arcs
  PROVE  /\ Append(t, a) \in Seq(Arcs) /\ Len(Append(t, a)) = Len(t) + 1
         /\ Append(t, a)[Len(t) + 1] = a
         /\ \A i \in 1 .. Len(t) : Append(t, a)[i] = t[i]
         /\ IsPrefix(t, Append(t, a))
<1>1. /\ Append(t, a) \in Seq(Arcs) /\ Len(Append(t, a)) = Len(t) + 1
      /\ Append(t, a)[Len(t) + 1] = a
      /\ \A i \in 1 .. Len(t) : Append(t, a)[i] = t[i]
  BY AppendProperties
<1>2. Len(t) \in Nat
  BY LenProperties
<1>3. IsPrefix(t, Append(t, a))
  <2>1. PICK u \in Seq(Arcs) : u = Append(t, a)
    BY <1>1
  <2>2. Len(t) <= Len(u) /\ \A i \in 1 .. Len(t) : t[i] = u[i]
    BY <1>1, <1>2, <2>1
  <2>3. IsPrefix(t, u)
    BY <2>2, PrefixIs
  <2> QED
    BY <2>1, <2>3
<1> QED
  BY <1>1, <1>3

-----------------------------------------------------------------------------
(* Arcs with an input label.                                               *)

\* How many arcs with an input label a path has is a number.
LEMMA EmittedType ==
  ASSUME NEW t, NEW k \in Nat
  PROVE  IsFiniteSet({i \in 1 .. k : t[i].emits}) /\ Emitted(t, k) \in Nat
<1>1. IsFiniteSet(1 .. k)
  BY FS_Interval
<1>2. IsFiniteSet({i \in 1 .. k : t[i].emits})
  BY <1>1, FS_Subset
<1> QED
  BY <1>2, FS_CardinalityType DEF Emitted

\* The count is that of any path that begins alike.
LEMMA EmittedAlike ==
  ASSUME NEW s, NEW t, NEW k \in Nat, \A i \in 1 .. k : s[i] = t[i]
  PROVE  Emitted(s, k) = Emitted(t, k)
<1>1. {i \in 1 .. k : s[i].emits} = {i \in 1 .. k : t[i].emits}
  OBVIOUS
<1> QED
  BY <1>1 DEF Emitted

LEMMA EmittedNone ==
  ASSUME NEW t
  PROVE  Emitted(t, 0) = 0
<1>1. {i \in 1 .. 0 : t[i].emits} = {}
  OBVIOUS
<1> QED
  BY <1>1, FS_EmptySet DEF Emitted

\* One arc more counts if it has an input label.
LEMMA EmittedNext ==
  ASSUME NEW t, NEW k \in Nat
  PROVE  Emitted(t, k + 1) = IF t[k + 1].emits THEN Emitted(t, k) + 1 ELSE Emitted(t, k)
<1> DEFINE S == {i \in 1 .. k : t[i].emits}
<1>1. IsFiniteSet(S) /\ k + 1 \notin S
  <2>1. k + 1 \notin S
    OBVIOUS
  <2> QED
    BY <2>1, EmittedType
<1>2. CASE t[k + 1].emits
  <2>1. {i \in 1 .. k + 1 : t[i].emits} = S \cup {k + 1}
    BY <1>2
  <2>2. Cardinality(S \cup {k + 1}) = Cardinality(S) + 1
    <3> HIDE DEF S
    <3> QED
      BY <1>1, FS_AddElement
  <2> QED
    BY <1>2, <2>1, <2>2 DEF Emitted
<1>3. CASE ~t[k + 1].emits
  <2>1. {i \in 1 .. k + 1 : t[i].emits} = S
    BY <1>3
  <2> QED
    BY <1>3, <2>1 DEF Emitted
<1> QED
  BY <1>2, <1>3

\* A later arc with an input label is one more.
LEMMA EmittedGrows ==
  ASSUME NEW t, NEW j \in Nat, NEW k \in Nat, j <= k
  PROVE  /\ Emitted(t, j) <= Emitted(t, k)
         /\ j < k /\ t[k].emits => Emitted(t, j) < Emitted(t, k)
<1> DEFINE S == {i \in 1 .. j : t[i].emits}
           T == {i \in 1 .. k : t[i].emits}
<1>1. IsFiniteSet(T) /\ S \in SUBSET T /\ (j < k /\ t[k].emits => S # T)
  <2>1. IsFiniteSet(T)
    BY EmittedType
  <2>2. S \in SUBSET T
    OBVIOUS
  <2>3. ASSUME j < k, t[k].emits PROVE k \in T /\ k \notin S
    BY <2>3
  <2> QED
    BY <2>1, <2>2, <2>3
<1>2. Cardinality(S) <= Cardinality(T) /\ (Cardinality(T) = Cardinality(S) => S = T)
  <2> HIDE DEF S, T
  <2> QED
    BY <1>1, FS_Subset
<1>3. Emitted(t, j) = Cardinality(S) /\ Emitted(t, k) = Cardinality(T)
  BY DEF Emitted
<1>4. Emitted(t, j) \in Nat /\ Emitted(t, k) \in Nat
  BY EmittedType
<1> HIDE DEF S, T
<1> QED
  BY <1>1, <1>2, <1>3, <1>4

-----------------------------------------------------------------------------
(* The tokens of a search, and their ancestors.                            *)

\* A token of a search of n frames: n arcs with an input label, and so one
\* ancestor for each frame.
TokenOf(tok, n) ==
    /\ tok \in Seq(Arcs)
    /\ Emitted(tok, Len(tok)) = n
    /\ \A m \in 1 .. n : \E k \in 1 .. Len(tok) : tok[k].emits /\ Emitted(tok, k) = m

\* A path to where the arc of frame n ends.
EndsAt(path, n) ==
    /\ path \in Seq(Arcs) /\ Len(path) > 0
    /\ path[Len(path)].emits /\ Emitted(path, Len(path)) = n

\* The dummy token of ResetDecoder.
LEMMA FirstToken == TokenOf(<<>>, 0)
<1>1. <<>> \in Seq(Arcs) /\ Len(<<>>) = 0
  BY EmptySeq
<1> QED
  BY <1>1, EmittedNone DEF TokenOf

\* What an arc does to a token.
LEMMA NextToken ==
  ASSUME NEW n \in Nat, NEW t, TokenOf(t, n), NEW a \in Arcs
  PROVE  TokenOf(Append(t, a), IF a.emits THEN n + 1 ELSE n)
<1>1. t \in Seq(Arcs) /\ Len(t) \in Nat /\ Emitted(t, Len(t)) = n
  BY LenProperties DEF TokenOf
<1>2. PICK u \in Seq(Arcs) :
        /\ u = Append(t, a) /\ Len(u) = Len(t) + 1 /\ u[Len(t) + 1] = a
        /\ \A i \in 1 .. Len(t) : u[i] = t[i]
  BY <1>1, OneMore
<1>3. ASSUME NEW k \in 0 .. Len(t) PROVE Emitted(u, k) = Emitted(t, k)
  <2>1. k \in Nat /\ \A i \in 1 .. k : u[i] = t[i]
    BY <1>1, <1>2
  <2> QED
    BY <2>1, EmittedAlike
<1>4. Emitted(u, Len(u)) = IF a.emits THEN n + 1 ELSE n
  <2>1. Emitted(u, Len(t)) = n
    BY <1>1, <1>3
  <2> QED
    BY <1>1, <1>2, <2>1, EmittedNext
<1>5. ASSUME NEW m \in 1 .. n
      PROVE  \E k \in 1 .. Len(u) : u[k].emits /\ Emitted(u, k) = m
  <2>1. PICK k \in 1 .. Len(t) : t[k].emits /\ Emitted(t, k) = m
    BY <1>5 DEF TokenOf
  <2>2. k \in 1 .. Len(u) /\ u[k] = t[k] /\ Emitted(u, k) = m
    BY <1>1, <1>2, <1>3, <2>1
  <2> QED
    BY <2>1, <2>2
<1>6. a.emits => \E k \in 1 .. Len(u) : u[k].emits /\ Emitted(u, k) = n + 1
  <2>1. Len(u) \in 1 .. Len(u)
    BY <1>1, <1>2
  <2> QED
    BY <1>1, <1>2, <1>4, <2>1
<1>7. TokenOf(u, IF a.emits THEN n + 1 ELSE n)
  <2>1. CASE a.emits
    <3>1. \A m \in 1 .. n + 1 : m \in 1 .. n \/ m = n + 1
      OBVIOUS
    <3>2. \A m \in 1 .. n + 1 : \E k \in 1 .. Len(u) : u[k].emits /\ Emitted(u, k) = m
      BY <1>5, <1>6, <2>1, <3>1
    <3> QED
      BY <1>2, <1>4, <2>1, <3>2 DEF TokenOf
  <2>2. CASE ~a.emits
    BY <1>2, <1>4, <1>5, <2>2 DEF TokenOf
  <2> QED
    BY <2>1, <2>2
<1> QED
  BY <1>2, <1>7

\* What the arcs of one kind make of the tokens of n frames.
LEMMA ExtendedTokens ==
  ASSUME NEW n \in Nat, NEW T, \A t \in T : TokenOf(t, n),
         NEW emitting \in BOOLEAN, NEW u \in Extended(T, emitting)
  PROVE  /\ TokenOf(u, IF emitting THEN n + 1 ELSE n)
         /\ \E t \in T : IsPrefix(t, u)
<1>1. PICK t \in T, a \in Arcs : u = Append(t, a) /\ a.emits = emitting
  BY DEF Extended
<1>2. TokenOf(t, n) /\ t \in Seq(Arcs)
  BY DEF TokenOf
<1> QED
  BY <1>1, <1>2, NextToken, OneMore

\* ProcessNonemitting: tokens of as many frames, each a continuation of one
\* that was there.
LEMMA NonemittingTokens ==
  ASSUME NEW n \in Nat, NEW T, \A t \in T : TokenOf(t, n),
         NEW U \in Nonemitting(T), NEW u \in U
  PROVE  TokenOf(u, n) /\ \E t \in T : IsPrefix(t, u)
<1>1. CASE u \in T
  <2>1. TokenOf(u, n) /\ IsPrefix(u, u)
    BY <1>1, PrefixOfItself DEF TokenOf
  <2> QED
    BY <1>1, <2>1
<1>2. CASE u \in Extended(T, FALSE)
  BY <1>2, ExtendedTokens
<1> QED
  BY <1>1, <1>2 DEF Nonemitting

\* A frame: the tokens that it leaves are those of one frame more, each a
\* continuation of one before it.
LEMMA FrameTokens ==
  ASSUME NEW n \in Nat, NEW T, \A t \in T : TokenOf(t, n),
         NEW U \in AfterFrame(T), NEW u \in U
  PROVE  TokenOf(u, n + 1) /\ \E t \in T : IsPrefix(t, u)
<1>1. PICK E \in SUBSET Extended(T, TRUE) : U \in Nonemitting(E)
  BY DEF AfterFrame
<1>2. \A e \in E : TokenOf(e, n + 1) /\ \E t \in T : IsPrefix(t, e)
  BY <1>1, ExtendedTokens
<1>3. PICK e \in E : TokenOf(u, n + 1) /\ IsPrefix(e, u)
  BY <1>1, <1>2, NonemittingTokens
<1>4. PICK t \in T : IsPrefix(t, e)
  BY <1>2
<1>5. t \in Seq(Arcs) /\ e \in Seq(Arcs) /\ u \in Seq(Arcs)
  BY <1>2, <1>3 DEF TokenOf
<1> QED
  BY <1>3, <1>4, <1>5, PrefixTransitive

\* Of two ancestors of a path, the one of the earlier frame comes first.
LEMMA AncestorsOrdered ==
  ASSUME NEW t \in Seq(Arcs), NEW m \in Nat, NEW n \in Nat, m <= n, NEW d, NEW e,
         EndsAt(d, m), EndsAt(e, n), IsPrefix(d, t), IsPrefix(e, t)
  PROVE  IsPrefix(d, e) /\ (m = n => d = e)
<1>1. /\ d \in Seq(Arcs) /\ e \in Seq(Arcs)
      /\ Len(d) \in Nat /\ Len(e) \in Nat /\ Len(d) > 0 /\ Len(e) > 0
  BY LenProperties DEF EndsAt
<1>2. ASSUME NEW c \in Seq(Arcs), NEW k \in Nat, EndsAt(c, k), IsPrefix(c, t)
      PROVE  t[Len(c)].emits /\ Emitted(t, Len(c)) = k
  <2>1. \A i \in 1 .. Len(c) : c[i] = t[i]
    BY <1>2, PrefixIs
  <2>2. Len(c) \in Nat /\ Len(c) \in 1 .. Len(c)
    BY <1>2, LenProperties DEF EndsAt
  <2>3. Emitted(c, Len(c)) = Emitted(t, Len(c))
    BY <2>1, <2>2, EmittedAlike
  <2> QED
    BY <1>2, <2>1, <2>2, <2>3 DEF EndsAt
<1>3. /\ t[Len(d)].emits /\ Emitted(t, Len(d)) = m
      /\ t[Len(e)].emits /\ Emitted(t, Len(e)) = n
  BY <1>1, <1>2
<1>4. /\ Len(e) < Len(d) => n < m
      /\ Len(d) < Len(e) => m < n
  BY <1>1, <1>3, EmittedGrows
<1> QED
  BY <1>1, <1>4, PrefixesNested

\* The walk of UpdateImmortalToken finds the one ancestor of each frame.
LEMMA AncestorIs ==
  ASSUME NEW n \in Nat, NEW t, TokenOf(t, n), NEW m \in 1 .. n
  PROVE  /\ EndsAt(EmittingAncestor(t, m), m) /\ IsPrefix(EmittingAncestor(t, m), t)
         /\ \A e : EndsAt(e, m) /\ IsPrefix(e, t) => e = EmittingAncestor(t, m)
<1>1. t \in Seq(Arcs) /\ Len(t) \in Nat /\ DOMAIN t = 1 .. Len(t) /\ m \in Nat
  BY LenProperties DEF TokenOf
<1>2. PICK k \in 1 .. Len(t) :
        t[k].emits /\ Emitted(t, k) = m /\ EmittingAncestor(t, m) = SubSeq(t, 1, k)
  <2>1. \E k \in DOMAIN t : t[k].emits /\ Emitted(t, k) = m
    BY <1>1 DEF TokenOf
  <2> QED
    BY <1>1, <2>1 DEF EmittingAncestor
<1>3. PICK e : e = EmittingAncestor(t, m)
  OBVIOUS
<1>4. /\ e \in Seq(Arcs) /\ Len(e) = k /\ \A i \in 1 .. k : e[i] = t[i]
      /\ IsPrefix(e, t)
  BY <1>1, <1>2, <1>3, FirstArcs
<1>5. EndsAt(e, m)
  <2>1. k \in Nat /\ k \in 1 .. k /\ k > 0
    BY <1>1
  <2>2. Emitted(e, k) = Emitted(t, k)
    BY <1>4, <2>1, EmittedAlike
  <2> QED
    BY <1>2, <1>4, <2>1, <2>2 DEF EndsAt
<1>6. ASSUME NEW d, EndsAt(d, m), IsPrefix(d, t) PROVE d = e
  <2>1. m <= m
    BY <1>1
  <2> QED
    BY <1>1, <1>4, <1>5, <1>6, <2>1, AncestorsOrdered
<1> QED
  BY <1>3, <1>4, <1>5, <1>6

\* The tokens of one search.
Searched == frames \in Nat /\ \A t \in toks : TokenOf(t, frames)

\* Where one ancestor is left, it is one of all tokens.
LEMMA SharedIs ==
  ASSUME Searched, toks # {}, NEW m \in 1 .. frames
  PROVE  m \in SharedFrames <=> \E e : EndsAt(e, m) /\ \A t \in toks : IsPrefix(e, t)
<1>1. \A t \in toks :
        /\ EndsAt(EmittingAncestor(t, m), m) /\ IsPrefix(EmittingAncestor(t, m), t)
        /\ \A e : EndsAt(e, m) /\ IsPrefix(e, t) => e = EmittingAncestor(t, m)
  BY AncestorIs DEF Searched
<1>2. ASSUME m \in SharedFrames
      PROVE  \E e : EndsAt(e, m) /\ \A t \in toks : IsPrefix(e, t)
  <2>1. PICK e : Ancestors(m) = {e}
    BY <1>2 DEF SharedFrames
  <2>2. \A t \in toks : EmittingAncestor(t, m) = e
    BY <2>1 DEF Ancestors
  <2> QED
    BY <1>1, <2>2
<1>3. ASSUME NEW e, EndsAt(e, m), \A t \in toks : IsPrefix(e, t)
      PROVE  m \in SharedFrames
  <2>1. \A t \in toks : EmittingAncestor(t, m) = e
    BY <1>1, <1>3
  <2>2. Ancestors(m) = {e}
    BY <2>1 DEF Ancestors
  <2> QED
    BY <2>2 DEF SharedFrames
<1> QED
  BY <1>2, <1>3

\* What UpdateImmortalToken finds: the last ancestor that all tokens share.
LEMMA TheOneIs ==
  ASSUME Searched, SharedFrames # {}
  PROVE  /\ Max(SharedFrames) \in SharedFrames
         /\ \A m \in SharedFrames : m <= Max(SharedFrames)
         /\ EndsAt(TheOne, Max(SharedFrames))
         /\ \A t \in toks : IsPrefix(TheOne, t)
<1>1. frames \in Nat /\ SharedFrames \in SUBSET (0 .. frames)
  BY DEF Searched, SharedFrames
<1>2. PICK n \in SharedFrames : n = Max(SharedFrames) /\ \A m \in SharedFrames : m <= n
  BY <1>1, Greatest
<1>3. n \in 1 .. frames
  BY DEF SharedFrames
<1>4. PICK e : Ancestors(n) = {e}
  BY DEF SharedFrames
<1>5. TheOne = e
  BY <1>2, <1>4 DEF TheOne
<1>6. \A t \in toks : EmittingAncestor(t, n) = e
  BY <1>4 DEF Ancestors
<1>7. PICK t \in toks : EmittingAncestor(t, n) = e
  BY <1>4 DEF Ancestors
<1>8. EndsAt(e, n) /\ \A u \in toks : IsPrefix(e, u)
  BY <1>3, <1>6, <1>7, AncestorIs DEF Searched
<1> QED
  BY <1>2, <1>5, <1>8

\* An arc with an input label on a path that all tokens share is that of a
\* frame at which one ancestor is left.
LEMMA ArcShared ==
  ASSUME Searched, toks # {}, NEW path \in Seq(Arcs), \A t \in toks : IsPrefix(path, t),
         NEW k \in 1 .. Len(path), path[k].emits
  PROVE  Emitted(path, k) \in SharedFrames
<1>1. PICK t \in toks : t \in Seq(Arcs) /\ IsPrefix(path, t) /\ Emitted(t, Len(t)) = frames
  BY DEF Searched, TokenOf
<1>2. /\ Len(path) \in Nat /\ Len(t) \in Nat /\ Len(path) <= Len(t)
      /\ \A i \in 1 .. Len(path) : path[i] = t[i]
  BY <1>1, LenProperties, PrefixIs
<1>3. k \in Nat /\ k \in 0 .. Len(path) /\ 0 < k /\ k <= Len(t)
  BY <1>2
<1>4. PICK e \in Seq(Arcs) :
        /\ e = SubSeq(path, 1, k) /\ Len(e) = k /\ IsPrefix(e, path)
        /\ \A i \in 1 .. k : e[i] = path[i]
  BY <1>3, FirstArcs
<1>5. PICK n : n = Emitted(path, k)
  OBVIOUS
<1>6. n \in 1 .. frames
  <2>1. n \in Nat /\ Emitted(path, 0) = 0 /\ frames \in Nat /\ 0 \in Nat /\ 0 <= k
    <3>1. Emitted(path, k) \in Nat
      BY <1>3, EmittedType
    <3>2. Emitted(path, 0) = 0
      BY EmittedNone
    <3> QED
      BY <1>3, <1>5, <3>1, <3>2 DEF Searched
  <2>2. 0 < n
    BY <1>3, <1>5, <2>1, EmittedGrows
  <2>3. Emitted(path, k) = Emitted(t, k)
    BY <1>2, <1>3, EmittedAlike
  <2>4. n <= frames
    BY <1>1, <1>2, <1>3, <1>5, <2>3, EmittedGrows
  <2> QED
    BY <2>1, <2>2, <2>4
<1>7. EndsAt(e, n)
  <2>1. k \in 1 .. k
    BY <1>3
  <2>2. Emitted(e, k) = Emitted(path, k)
    BY <1>3, <1>4, EmittedAlike
  <2> QED
    BY <1>3, <1>4, <1>5, <2>1, <2>2 DEF EndsAt
<1>8. \A u \in toks : IsPrefix(e, u)
  BY <1>4, PrefixTransitive DEF Searched, TokenOf
<1> QED
  BY <1>5, <1>6, <1>7, <1>8, SharedIs

\* The paths that all tokens share.
LEMMA SharedPaths ==
  ASSUME Searched, toks # {}
  PROVE  /\ CommonPrefixes(toks) = {c \in Seq(Arcs) : \A t \in toks : IsPrefix(c, t)}
         /\ LongestCommonPrefix(toks) \in CommonPrefixes(toks)
         /\ \A c \in CommonPrefixes(toks) : Len(c) <= Len(LongestCommonPrefix(toks))
<1> DEFINE C == CommonPrefixes(toks)
<1>1. \A t \in toks : t \in Seq(Arcs) /\ Len(t) \in Nat
  BY LenProperties DEF Searched, TokenOf
<1>2. ASSUME NEW c \in C PROVE c \in Seq(Arcs) /\ \A t \in toks : IsPrefix(c, t)
  <2>1. PICK t \in toks : c \in Prefixes(t)
    BY DEF CommonPrefixes
  <2>2. PICK l \in 0 .. Len(t) : c = SubSeq(t, 1, l)
    BY <2>1 DEF Prefixes
  <2>3. c \in Seq(Arcs)
    BY <1>1, <2>2, FirstArcs
  <2> QED
    BY <2>3 DEF CommonPrefixes
<1>3. ASSUME NEW c \in Seq(Arcs), \A t \in toks : IsPrefix(c, t) PROVE c \in C
  <2>1. PICK t \in toks : IsPrefix(c, t)
    BY <1>3
  <2>2. Len(c) \in 0 .. Len(t) /\ c = SubSeq(t, 1, Len(c))
    BY <1>1, <2>1, PrefixIs, LenProperties, SubSeqFull DEF IsPrefix
  <2>3. c \in Prefixes(t)
    BY <2>2 DEF Prefixes
  <2> QED
    BY <1>3, <2>3 DEF CommonPrefixes
<1>4. C = {c \in Seq(Arcs) : \A t \in toks : IsPrefix(c, t)}
  BY <1>2, <1>3
<1>5. \E c \in C : \A d \in C : Len(d) <= Len(c)
  <2>1. PICK t \in toks : t \in Seq(Arcs) /\ Len(t) \in Nat
    BY <1>1
  <2> DEFINE T == {Len(c) : c \in C}
  <2>2. T \in SUBSET (0 .. Len(t))
    <3>1. \A c \in C : Len(c) \in 0 .. Len(t)
      BY <1>2, <2>1, LenProperties, PrefixIs
    <3> QED
      BY <3>1
  <2>3. <<>> \in C
    <3>1. <<>> \in Seq(Arcs) /\ Len(<<>>) = 0
      BY EmptySeq
    <3>2. \A u \in toks : IsPrefix(<<>>, u)
      BY <1>1, NoPathFirst
    <3> QED
      BY <1>3, <3>1, <3>2
  <2>4. T # {}
    BY <2>3
  <2>5. PICK m \in T : \A y \in T : y <= m
    <3> HIDE DEF T
    <3> QED
      BY <2>1, <2>2, <2>4, Greatest
  <2> QED
    BY <2>5
<1>6. /\ LongestCommonPrefix(toks) \in C
      /\ \A c \in C : Len(c) <= Len(LongestCommonPrefix(toks))
  BY <1>5 DEF LongestCommonPrefix
<1> QED
  BY <1>4, <1>6

\* The last ancestor that all tokens share is what they have in common, up to
\* its last arc with an input label.
LEMMA CommonIs ==
  ASSUME Searched, toks # {}
  PROVE  CommonPath = IF SharedFrames = {} THEN DummyToken ELSE TheOne
<1>1. PICK path \in Seq(Arcs) :
        /\ path = LongestCommonPrefix(toks) /\ \A t \in toks : IsPrefix(path, t)
        /\ \A c \in Seq(Arcs) : (\A t \in toks : IsPrefix(c, t)) => Len(c) <= Len(path)
  BY SharedPaths
<1>2. PICK t \in toks : t \in Seq(Arcs) /\ IsPrefix(path, t)
  BY <1>1 DEF Searched, TokenOf
<1>3. Len(path) \in Nat
  BY LenProperties
<1> DEFINE LastArc(n) == /\ n > 0 => path[n].emits
                         /\ \A m \in n + 1 .. Len(path) : ~path[m].emits
<1>4. ASSUME NEW n \in 0 .. Len(path), LastArc(n)
      PROVE  CommonPath = SubSeq(path, 1, n)
  <2>1. ASSUME NEW i \in 0 .. Len(path), NEW j \in 0 .. Len(path), LastArc(i), LastArc(j), i < j
        PROVE  FALSE
    <3>1. j \in i + 1 .. Len(path) /\ j > 0
      BY <1>3, <2>1
    <3> QED
      BY <2>1, <3>1
  <2>2. \A i \in 0 .. Len(path) : LastArc(i) => i = n
    <3> HIDE DEF LastArc
    <3> QED
      BY <1>3, <1>4, <2>1
  <2>3. (CHOOSE i \in 0 .. Len(path) : LastArc(i)) = n
    <3> HIDE DEF LastArc
    <3> QED
      BY <1>4, <2>2
  <2> QED
    BY <1>1, <2>3 DEF CommonPath
<1>5. CASE SharedFrames = {}
  <2>1. ASSUME NEW m \in 0 + 1 .. Len(path) PROVE ~path[m].emits
    BY <1>1, <1>5, ArcShared
  <2>2. CommonPath = SubSeq(path, 1, 0)
    BY <1>3, <1>4, <2>1
  <2>3. SubSeq(path, 1, 0) = <<>>
    BY SubSeqEmpty
  <2> QED
    BY <1>5, <2>2, <2>3 DEF DummyToken
<1>6. CASE SharedFrames # {}
  <2>1. PICK M \in SharedFrames : /\ \A m \in SharedFrames : m <= M
                                  /\ EndsAt(TheOne, M) /\ \A u \in toks : IsPrefix(TheOne, u)
    BY <1>6, TheOneIs
  <2>2. PICK e \in Seq(Arcs) : e = TheOne /\ EndsAt(e, M) /\ \A u \in toks : IsPrefix(e, u)
    BY <2>1 DEF EndsAt
  <2>3. /\ Len(e) \in Nat /\ Len(e) > 0 /\ Len(e) <= Len(path)
        /\ IsPrefix(e, path) /\ SubSeq(path, 1, Len(e)) = e
    BY <1>1, <1>2, <2>2, LenProperties, PrefixesNested DEF EndsAt
  <2>4. \A i \in 1 .. Len(e) : e[i] = path[i]
    BY <2>3, PrefixIs
  <2>5. path[Len(e)].emits /\ Emitted(path, Len(e)) = M
    <3>1. Len(e) \in 1 .. Len(e) /\ Emitted(e, Len(e)) = Emitted(path, Len(e))
      BY <2>3, <2>4, EmittedAlike
    <3> QED
      BY <2>2, <2>4, <3>1 DEF EndsAt
  <2>6. ASSUME NEW m \in Len(e) + 1 .. Len(path), path[m].emits PROVE FALSE
    <3>1. m \in 1 .. Len(path) /\ m \in Nat /\ Len(e) < m
      BY <1>3, <2>3
    <3>2. Emitted(path, m) \in SharedFrames
      BY <1>1, <2>6, <3>1, ArcShared
    <3>3. Emitted(path, m) <= M
      BY <2>1, <3>2
    <3>4. Emitted(path, m) \in Nat /\ Emitted(path, Len(e)) \in Nat
      BY <2>3, <3>1, EmittedType
    <3>5. Emitted(path, Len(e)) < Emitted(path, m)
      BY <2>3, <2>6, <3>1, EmittedGrows
    <3> QED
      BY <2>5, <3>3, <3>4, <3>5
  <2>7. Len(e) \in 0 .. Len(path) /\ LastArc(Len(e))
    BY <1>3, <2>3, <2>5, <2>6
  <2>8. CommonPath = SubSeq(path, 1, Len(e))
    <3> HIDE DEF LastArc
    <3> QED
      BY <1>4, <2>7
  <2> QED
    BY <1>6, <2>2, <2>3, <2>8
<1> QED
  BY <1>5, <1>6

-----------------------------------------------------------------------------
(* The words of a path.                                                    *)

Labels == {a.word : a \in Arcs}

\* The recursion over the arcs of a path.
LEMMA WordsIs ==
  ASSUME NEW path, Len(path) \in Nat
  PROVE  \E f : /\ f = [n \in 0 .. Len(path) |->
                           IF n = 0 THEN <<>>
                           ELSE IF path[n].word = NoWord THEN f[n - 1]
                           ELSE Append(f[n - 1], path[n].word)]
                /\ Words(path) = f[Len(path)]
<1> DEFINE N == Len(path)
           Step(before, n) == IF path[n].word = NoWord THEN before
                              ELSE Append(before, path[n].word)
           Is(f, k) == f = [n \in 0 .. k |-> IF n = 0 THEN <<>> ELSE Step(f[n - 1], n)]
           S == {k \in Nat : \E f : Is(f, k)}
<1>1. N \in Nat
  OBVIOUS
<1> HIDE DEF N
<1>2. 0 \in S
  <2> DEFINE g == [n \in 0 .. 0 |-> <<>>]
  <2>1. Is(g, 0)
    OBVIOUS
  <2> QED
    BY <2>1
<1>3. ASSUME NEW k \in 1 .. N, k - 1 \in S PROVE k \in S
  <2>1. PICK f : Is(f, k - 1)
    BY <1>3
  <2> DEFINE g == [n \in 0 .. k |-> IF n = k THEN Step(f[k - 1], k) ELSE f[n]]
  <2>2. Is(g, k)
    <3>1. ASSUME NEW n \in 0 .. k
          PROVE  g[n] = IF n = 0 THEN <<>> ELSE Step(g[n - 1], n)
      <4> HIDE DEF Step
      <4> QED
        BY <1>1, <2>1
    <3> QED
      BY <3>1
  <2>3. \E h : Is(h, k)
    <3> HIDE DEF g, Is
    <3> QED
      BY <2>2
  <2>4. k \in Nat
    BY <1>1
  <2> HIDE DEF Is
  <2> QED
    BY <2>3, <2>4
<1>4. \E f : Is(f, N)
  <2>1. N \in S
    <3> HIDE DEF S
    <3> QED
      BY <1>1, <1>2, <1>3, UpTo
  <2> QED
    BY <2>1
<1> QED
  BY <1>4 DEF Words, N

LEMMA NoWords == Words(<<>>) = <<>>
<1>1. Len(<<>>) = 0
  BY EmptySeq
<1> QED
  BY <1>1, WordsIs

\* What an arc adds to the words.
LEMMA NextWord ==
  ASSUME NEW p \in Seq(Arcs), NEW a \in Arcs
  PROVE  Words(Append(p, a)) = IF a.word = NoWord THEN Words(p) ELSE Append(Words(p), a.word)
<1>1. Len(p) \in Nat
  BY LenProperties
<1>2. PICK u \in Seq(Arcs) :
        /\ u = Append(p, a) /\ Len(u) = Len(p) + 1 /\ u[Len(p) + 1] = a
        /\ \A i \in 1 .. Len(p) : u[i] = p[i]
  BY OneMore
<1>3. PICK f : /\ f = [n \in 0 .. Len(p) |->
                          IF n = 0 THEN <<>>
                          ELSE IF p[n].word = NoWord THEN f[n - 1]
                          ELSE Append(f[n - 1], p[n].word)]
               /\ Words(p) = f[Len(p)]
  BY <1>1, WordsIs
<1>4. PICK g : /\ g = [n \in 0 .. Len(p) + 1 |->
                          IF n = 0 THEN <<>>
                          ELSE IF u[n].word = NoWord THEN g[n - 1]
                          ELSE Append(g[n - 1], u[n].word)]
               /\ Words(u) = g[Len(p) + 1]
  <2>1. Len(u) \in Nat
    BY <1>1, <1>2
  <2>2. PICK g : /\ g = [n \in 0 .. Len(u) |->
                            IF n = 0 THEN <<>>
                            ELSE IF u[n].word = NoWord THEN g[n - 1]
                            ELSE Append(g[n - 1], u[n].word)]
                 /\ Words(u) = g[Len(u)]
    BY <2>1, WordsIs
  <2> QED
    BY <1>2, <2>2
<1> DEFINE S == {n \in 0 .. Len(p) : g[n] = f[n]}
<1>5. 0 \in S
  BY <1>1, <1>3, <1>4
<1>6. ASSUME NEW n \in 1 .. Len(p), n - 1 \in S PROVE n \in S
  <2>1. /\ n \in 0 .. Len(p) /\ n \in 0 .. Len(p) + 1 /\ n # 0
        /\ g[n - 1] = f[n - 1] /\ u[n] = p[n]
    BY <1>1, <1>2, <1>6
  <2>2. f[n] = IF p[n].word = NoWord THEN f[n - 1] ELSE Append(f[n - 1], p[n].word)
    BY <1>3, <2>1
  <2>3. g[n] = IF u[n].word = NoWord THEN g[n - 1] ELSE Append(g[n - 1], u[n].word)
    BY <1>4, <2>1
  <2> QED
    BY <2>1, <2>2, <2>3
<1>7. g[Len(p)] = Words(p)
  <2>1. 0 .. Len(p) \subseteq S
    <3> HIDE DEF S
    <3> QED
      BY <1>1, <1>5, <1>6, UpTo
  <2>2. Len(p) \in S
    BY <1>1, <2>1
  <2> QED
    BY <1>3, <2>2
<1>8. g[Len(p) + 1] = IF a.word = NoWord THEN g[Len(p)] ELSE Append(g[Len(p)], a.word)
  <2>1. PICK n : n = Len(p) + 1
    OBVIOUS
  <2>2. n \in 0 .. Len(p) + 1 /\ n # 0 /\ n - 1 = Len(p) /\ u[n] = a
    BY <1>1, <1>2, <2>1
  <2>3. g[n] = IF u[n].word = NoWord THEN g[n - 1] ELSE Append(g[n - 1], u[n].word)
    BY <1>4, <2>2
  <2> QED
    BY <2>1, <2>2, <2>3
<1> QED
  BY <1>2, <1>4, <1>7, <1>8

\* A path is its arcs but the last one, and that one.
LEMMA ArcByArc ==
  ASSUME NEW p \in Seq(Arcs), NEW k \in 1 .. Len(p)
  PROVE  /\ SubSeq(p, 1, k - 1) \in Seq(Arcs) /\ p[k] \in Arcs
         /\ SubSeq(p, 1, k) = Append(SubSeq(p, 1, k - 1), p[k])
<1>1. Len(p) \in Nat /\ k - 1 \in 0 .. Len(p) /\ k \in 0 .. Len(p) /\ p[k] \in Arcs
  BY LenProperties, ElementOfSeq
<1>2. PICK s \in Seq(Arcs) :
        s = SubSeq(p, 1, k) /\ Len(s) = k /\ \A i \in 1 .. k : s[i] = p[i]
  BY <1>1, FirstArcs
<1>3. PICK r \in Seq(Arcs) :
        r = SubSeq(p, 1, k - 1) /\ Len(r) = k - 1 /\ \A i \in 1 .. k - 1 : r[i] = p[i]
  BY <1>1, FirstArcs
<1>4. PICK u \in Seq(Arcs) :
        /\ u = Append(r, p[k]) /\ Len(u) = Len(r) + 1 /\ u[Len(r) + 1] = p[k]
        /\ \A i \in 1 .. Len(r) : u[i] = r[i]
  BY <1>1, OneMore
<1>5. Len(s) = Len(u) /\ \A i \in 1 .. Len(s) : s[i] = u[i]
  BY <1>1, <1>2, <1>3, <1>4
<1>6. s = u
  BY <1>5, SeqEqual
<1> QED
  BY <1>1, <1>2, <1>3, <1>4, <1>6

\* The words of a path are labels of arcs.
LEMMA WordsType ==
  ASSUME NEW p \in Seq(Arcs)
  PROVE  Words(p) \in Seq(Labels)
<1> DEFINE S == {k \in 0 .. Len(p) : Words(SubSeq(p, 1, k)) \in Seq(Labels)}
<1>1. Len(p) \in Nat
  BY LenProperties
<1>2. 0 \in S
  <2>1. SubSeq(p, 1, 0) = <<>>
    BY SubSeqEmpty
  <2>2. Words(SubSeq(p, 1, 0)) \in Seq(Labels)
    BY <2>1, NoWords, EmptySeq
  <2> QED
    BY <1>1, <2>2
<1>3. ASSUME NEW k \in 1 .. Len(p), k - 1 \in S PROVE k \in S
  <2>1. PICK r \in Seq(Arcs) :
          r = SubSeq(p, 1, k - 1) /\ p[k] \in Arcs /\ SubSeq(p, 1, k) = Append(r, p[k])
    BY ArcByArc
  <2>2. Words(r) \in Seq(Labels) /\ p[k].word \in Labels
    BY <1>3, <2>1 DEF Labels
  <2>3. Append(Words(r), p[k].word) \in Seq(Labels)
    BY <2>2, AppendProperties
  <2>4. Words(SubSeq(p, 1, k)) \in Seq(Labels)
    BY <2>1, <2>2, <2>3, NextWord
  <2> QED
    BY <1>1, <2>4
<1>4. Len(p) \in S
  <2> HIDE DEF S
  <2> QED
    BY <1>1, <1>2, <1>3, UpTo
<1>5. SubSeq(p, 1, Len(p)) = p
  BY SubSeqFull
<1> QED
  BY <1>4, <1>5

LEMMA AppendToConcat ==
  ASSUME NEW S, NEW s \in Seq(S), NEW t \in Seq(S), NEW e \in S
  PROVE  s \o t \in Seq(S) /\ s \o Append(t, e) = Append(s \o t, e)
<1>1. s \o t \in Seq(S) /\ <<e>> \in Seq(S)
  BY ConcatProperties
<1>2. Append(t, e) = t \o <<e>> /\ Append(s \o t, e) = (s \o t) \o <<e>>
  BY <1>1, AppendIsConcat
<1>3. (s \o t) \o <<e>> = s \o (t \o <<e>>)
  BY <1>1, ConcatAssociative
<1> QED
  BY <1>1, <1>2, <1>3

\* The words of two paths one behind the other.
LEMMA WordsJoined ==
  ASSUME NEW p \in Seq(Arcs), NEW q \in Seq(Arcs)
  PROVE  Words(p \o q) = Words(p) \o Words(q)
<1> DEFINE Joined(k) == Words(p \o SubSeq(q, 1, k)) = Words(p) \o Words(SubSeq(q, 1, k))
           S == {k \in 0 .. Len(q) : Joined(k)}
<1>1. Len(q) \in Nat /\ Words(p) \in Seq(Labels)
  BY LenProperties, WordsType
<1>2. 0 \in S
  <2>1. SubSeq(q, 1, 0) = <<>>
    BY SubSeqEmpty
  <2>2. p \o <<>> = p /\ Words(p) \o <<>> = Words(p)
    BY <1>1, ConcatEmptySeq
  <2>3. Words(p \o SubSeq(q, 1, 0)) = Words(p) \o Words(SubSeq(q, 1, 0))
    BY <2>1, <2>2, NoWords
  <2> QED
    BY <1>1, <2>3
<1>3. ASSUME NEW k \in 1 .. Len(q), k - 1 \in S PROVE k \in S
  <2>1. PICK r \in Seq(Arcs), a \in Arcs :
          r = SubSeq(q, 1, k - 1) /\ a = q[k] /\ SubSeq(q, 1, k) = Append(r, a)
    BY ArcByArc
  <2>2. Words(p \o r) = Words(p) \o Words(r)
    BY <1>3, <2>1
  <2>3. p \o r \in Seq(Arcs) /\ p \o Append(r, a) = Append(p \o r, a)
    BY AppendToConcat
  <2>4. Words(p \o Append(r, a))
          = IF a.word = NoWord THEN Words(p \o r) ELSE Append(Words(p \o r), a.word)
    BY <2>3, NextWord
  <2>5. Words(Append(r, a)) = IF a.word = NoWord THEN Words(r) ELSE Append(Words(r), a.word)
    BY NextWord
  <2>6. Words(r) \in Seq(Labels) /\ a.word \in Labels
    BY WordsType DEF Labels
  <2>7. Words(p) \o Append(Words(r), a.word) = Append(Words(p) \o Words(r), a.word)
    BY <1>1, <2>6, AppendToConcat
  <2>8. Words(p \o Append(r, a)) = Words(p) \o Words(Append(r, a))
    BY <2>2, <2>4, <2>5, <2>7
  <2>9. Joined(k)
    BY <2>1, <2>8, Zenon
  <2>10. k \in 0 .. Len(q)
    BY <1>1
  <2> HIDE DEF Joined
  <2> QED
    BY <2>9, <2>10
<1>4. Joined(Len(q))
  <2>1. 0 .. Len(q) \subseteq S
    <3> HIDE DEF S
    <3> QED
      BY <1>1, <1>2, <1>3, UpTo
  <2>2. Len(q) \in S
    BY <1>1, <2>1
  <2> HIDE DEF Joined
  <2> QED
    BY <2>2
<1>5. SubSeq(q, 1, Len(q)) = q
  BY SubSeqFull
<1> QED
  BY <1>4, <1>5

\* What MakeLattice returns continues the words of the path where it ends.
LEMMA LatticeContinues ==
  ASSUME NEW p \in Seq(Arcs), NEW t \in Seq(Arcs), IsPrefix(p, t)
  PROVE  /\ Words(t) = Words(p) \o MakeLattice(t, p)
         /\ IsPrefix(Words(p), Words(t))
<1>1. Len(p) \in Nat /\ Len(t) \in Nat /\ Len(p) <= Len(t)
  BY LenProperties, PrefixIs
<1>2. PICK r : r = SubSeq(t, Len(p) + 1, Len(t))
  OBVIOUS
<1>3. r \in Seq(Arcs)
  <2>1. Len(p) + 1 \in Int /\ Len(t) \in Int /\ \A i \in Len(p) + 1 .. Len(t) : t[i] \in Arcs
    BY <1>1, ElementOfSeq
  <2> QED
    BY <1>2, <2>1, SubSeqProperties
<1>4. SubSeq(t, 1, Len(p)) = p
  BY DEF IsPrefix
<1>5. p \o r = t
  <2>1. /\ 1 \in 1 .. Len(t) + 1 /\ Len(p) \in 1 - 1 .. Len(t) /\ Len(t) \in Len(p) .. Len(t)
    BY <1>1
  <2>2. SubSeq(t, 1, Len(p)) \o SubSeq(t, Len(p) + 1, Len(t)) = SubSeq(t, 1, Len(t))
    BY <2>1, ConcatAdjacentSubSeq
  <2>3. SubSeq(t, 1, Len(t)) = t
    BY SubSeqFull
  <2> QED
    BY <1>2, <1>4, <2>2, <2>3
<1>6. MakeLattice(t, p) = Words(r)
  BY <1>2 DEF MakeLattice
<1>7. Words(t) = Words(p) \o Words(r)
  BY <1>3, <1>5, WordsJoined
<1>8. IsPrefix(Words(p), Words(t))
  <2>1. Words(p) \in Seq(Labels) /\ Words(r) \in Seq(Labels) /\ Words(t) \in Seq(Labels)
    BY <1>3, WordsType
  <2>2. Len(Words(p)) \in Nat /\ Len(Words(r)) \in Nat
    BY <2>1, LenProperties
  <2>3. /\ Len(Words(t)) = Len(Words(p)) + Len(Words(r))
        /\ \A i \in 1 .. Len(Words(p)) + Len(Words(r)) :
             Words(t)[i] = IF i <= Len(Words(p)) THEN Words(p)[i]
                           ELSE Words(r)[i - Len(Words(p))]
    BY <1>7, <2>1, ConcatProperties
  <2>4. /\ Len(Words(p)) <= Len(Words(t))
        /\ \A i \in 1 .. Len(Words(p)) : Words(p)[i] = Words(t)[i]
    BY <2>2, <2>3
  <2> QED
    BY <2>1, <2>4, PrefixIs
<1> QED
  BY <1>6, <1>7, <1>8

-----------------------------------------------------------------------------
(* The invariant.                                                          *)

TokenTypes ==
    /\ immortal_tok \in Seq(Arcs) /\ prev_immortal_tok \in Seq(Arcs)
    /\ Searched /\ batchFrame \in Nat

\* The immortal token is where an arc with an input label ends, and its place
\* in every hypothesis.
Immortal ==
    /\ immortal_tok = DummyToken \/ immortal_tok[Len(immortal_tok)].emits
    /\ \A t \in toks : IsPrefix(immortal_tok, t)
    /\ IsPrefix(prev_immortal_tok, immortal_tok)

\* It is no younger than the last batch.
BeforeBatch ==
    /\ batchFrame <= frames
    /\ pc = "search" => Emitted(immortal_tok, Len(immortal_tok)) + batchFrame <= frames
    /\ pc = "partial" => Emitted(immortal_tok, Len(immortal_tok)) <= frames

\* After a batch it is the last ancestor that the active tokens share.
LastShared ==
    pc = "partial" /\ toks # {} =>
        immortal_tok = IF SharedFrames = {} THEN DummyToken ELSE TheOne

\* What was sent of the utterance is the path to the immortal token.
WordsSent == pc \in {"search", "partial"} => reported = Words(immortal_tok)

\* The best token is beyond the immortal one, and the last report closes the gap.
BestReported ==
    EndsWithToken =>
        /\ best \in toks /\ reported = Words(best)
        /\ immortal_tok # best

TracebackInv == TokenTypes /\ Immortal /\ BeforeBatch /\ LastShared /\ WordsSent /\ BestReported

\* An immortal token that every active one continues ends where they share an
\* ancestor; the last such ancestor continues it.
LEMMA ImmortalShared ==
  ASSUME TokenTypes, Immortal, toks # {}
  PROVE  /\ SharedFrames = {} => immortal_tok = <<>> /\ prev_immortal_tok = <<>>
         /\ SharedFrames # {} => IsPrefix(immortal_tok, TheOne)
<1>1. /\ immortal_tok \in Seq(Arcs) /\ prev_immortal_tok \in Seq(Arcs) /\ Searched
      /\ IsPrefix(prev_immortal_tok, immortal_tok)
      /\ \A t \in toks : IsPrefix(immortal_tok, t)
  BY DEF TokenTypes, Immortal
<1>2. PICK p \in Seq(Arcs) : p = immortal_tok /\ \A t \in toks : IsPrefix(p, t)
  BY <1>1
<1>3. Len(p) \in Nat
  BY LenProperties
<1>4. ASSUME p # <<>>
      PROVE  EndsAt(p, Emitted(p, Len(p))) /\ Emitted(p, Len(p)) \in SharedFrames
  <2>1. Len(p) > 0 /\ Len(p) \in 1 .. Len(p)
    BY <1>3, <1>4, EmptySeq
  <2>2. p[Len(p)].emits
    BY <1>2, <1>4 DEF Immortal, DummyToken
  <2>3. Emitted(p, Len(p)) \in SharedFrames
    BY <1>1, <1>2, <2>1, <2>2, ArcShared
  <2> QED
    BY <2>1, <2>2, <2>3 DEF EndsAt
<1>5. CASE SharedFrames = {}
  BY <1>1, <1>2, <1>4, <1>5, NoPathFirst
<1>6. CASE SharedFrames # {}
  <2>1. PICK M \in SharedFrames : /\ \A m \in SharedFrames : m <= M
                                  /\ EndsAt(TheOne, M) /\ \A t \in toks : IsPrefix(TheOne, t)
    BY <1>1, <1>6, TheOneIs
  <2>2. TheOne \in Seq(Arcs)
    BY <2>1 DEF EndsAt
  <2>3. CASE p = <<>>
    BY <1>2, <2>2, <2>3, NoPathFirst
  <2>4. CASE p # <<>>
    <3>1. PICK m \in SharedFrames : m = Emitted(p, Len(p)) /\ EndsAt(p, m) /\ m <= M
      BY <1>4, <2>1, <2>4
    <3>2. m \in Nat /\ M \in Nat
      BY DEF SharedFrames
    <3>3. PICK t \in toks : t \in Seq(Arcs)
      BY <1>1 DEF Searched, TokenOf
    <3> QED
      BY <1>2, <2>1, <3>1, <3>2, <3>3, AncestorsOrdered
  <2> QED
    BY <1>6, <2>3, <2>4
<1> QED
  BY <1>5, <1>6

-----------------------------------------------------------------------------
(* Each action preserves it.                                               *)

LEMMA TracebackInvInit == TracebackInit => TracebackInv
<1> SUFFICES ASSUME TracebackInit PROVE TracebackInv
  OBVIOUS
<1> USE DEF TracebackInit, DummyToken
<1>1. TokenTypes
  BY EmptySeq DEF TokenTypes, Searched
<1>2. Immortal
  BY EmptySeq, NoPathFirst DEF Immortal
<1>3. BeforeBatch /\ LastShared /\ WordsSent /\ BestReported
  BY DEF BeforeBatch, LastShared, WordsSent, BestReported, EndsWithToken
<1> QED
  BY <1>1, <1>2, <1>3 DEF TracebackInv

\* Decode, for a new utterance: nothing of the last one is left.
LEMMA StartKeeps ==
  ASSUME TracebackInv, StartUtterance
  PROVE  TracebackInv'
<1>1. /\ immortal_tok' = <<>> /\ prev_immortal_tok' = <<>> /\ reported' = <<>>
      /\ toks' \in Nonemitting({<<>>}) /\ frames' = 0 /\ batchFrame' = 0 /\ pc' = "search"
  BY DEF StartUtterance, ResetDecoder, FirstImmortal, DummyToken
<1>2. \A u \in toks' : TokenOf(u, 0)
  BY <1>1, FirstToken, NonemittingTokens
<1>3. <<>> \in Seq(Arcs) /\ Len(<<>>) = 0 /\ Emitted(<<>>, 0) = 0
  BY EmptySeq, EmittedNone
<1>4. TokenTypes'
  BY <1>1, <1>2, <1>3 DEF TokenTypes, Searched
<1>5. Immortal'
  <2>1. \A u \in toks' : IsPrefix(<<>>, u)
    BY <1>2, NoPathFirst DEF TokenOf
  <2>2. IsPrefix(<<>>, <<>>)
    BY <1>3, NoPathFirst
  <2> QED
    BY <1>1, <2>1, <2>2 DEF Immortal, DummyToken
<1>6. BeforeBatch'
  BY <1>1, <1>3 DEF BeforeBatch
<1>7. LastShared' /\ WordsSent' /\ BestReported'
  BY <1>1, NoWords DEF LastShared, WordsSent, BestReported, EndsWithToken
<1> QED
  BY <1>4, <1>5, <1>6, <1>7 DEF TracebackInv

\* A frame: what all tokens continue, those that are left continue too.
LEMMA FrameKeeps ==
  ASSUME TracebackInv, SearchFrame
  PROVE  TracebackInv'
<1>1. /\ toks' \in AfterFrame(toks) /\ frames' = frames + 1 /\ batchFrame' = batchFrame + 1
      /\ pc = "search" /\ pc' = "search" /\ immortal_tok' = immortal_tok
      /\ prev_immortal_tok' = prev_immortal_tok /\ reported' = reported
  BY DEF SearchFrame
<1>2. /\ immortal_tok \in Seq(Arcs) /\ prev_immortal_tok \in Seq(Arcs)
      /\ frames \in Nat /\ batchFrame \in Nat /\ \A t \in toks : TokenOf(t, frames)
  BY DEF TracebackInv, TokenTypes, Searched
<1>3. \A u \in toks' : TokenOf(u, frames + 1) /\ \E t \in toks : IsPrefix(t, u)
  BY <1>1, <1>2, FrameTokens
<1>4. TokenTypes'
  BY <1>1, <1>2, <1>3 DEF TokenTypes, Searched
<1>5. Immortal'
  <2>1. ASSUME NEW u \in toks' PROVE IsPrefix(immortal_tok, u)
    <3>1. PICK t \in toks : IsPrefix(t, u)
      BY <1>3
    <3>2. u \in Seq(Arcs) /\ t \in Seq(Arcs) /\ IsPrefix(immortal_tok, t)
      BY <1>2, <1>3 DEF TokenOf, TracebackInv, Immortal
    <3> QED
      BY <1>2, <3>1, <3>2, PrefixTransitive
  <2> QED
    BY <1>1, <2>1 DEF TracebackInv, Immortal
<1>6. BeforeBatch'
  <2>1. Emitted(immortal_tok, Len(immortal_tok)) \in Nat
    BY <1>2, LenProperties, EmittedType
  <2> QED
    BY <1>1, <1>2, <2>1 DEF TracebackInv, BeforeBatch
<1>7. LastShared' /\ WordsSent' /\ BestReported'
  BY <1>1 DEF TracebackInv, LastShared, WordsSent, BestReported, EndsWithToken
<1> QED
  BY <1>4, <1>5, <1>6, <1>7 DEF TracebackInv

\* PartialTraceback reports what lies between the immortal token before and
\* the one now.
LEMMA PartialKeeps ==
  ASSUME TracebackInv, PartialTraceback
  PROVE  TracebackInv'
<1>1. /\ pc = "search" /\ pc' = "partial" /\ toks' = toks /\ frames' = frames
      /\ batchFrame' = batchFrame /\ UpdateImmortalToken
      /\ toks = {} => immortal_tok = prev_immortal_tok
      /\ reported' = IF immortal_tok' = prev_immortal_tok' THEN reported
                     ELSE reported \o MakeLattice(immortal_tok', prev_immortal_tok')
  BY DEF PartialTraceback, SearchDead
<1>2. /\ immortal_tok \in Seq(Arcs) /\ prev_immortal_tok \in Seq(Arcs) /\ Searched
      /\ frames \in Nat /\ batchFrame \in Nat /\ batchFrame <= frames
      /\ Emitted(immortal_tok, Len(immortal_tok)) \in Nat
      /\ Emitted(immortal_tok, Len(immortal_tok)) + batchFrame <= frames
  <2>1. Emitted(immortal_tok, Len(immortal_tok)) \in Nat
    BY LenProperties, EmittedType DEF TracebackInv, TokenTypes
  <2> QED
    BY <1>1, <2>1 DEF TracebackInv, TokenTypes, Searched, BeforeBatch
<1>3. reported = Words(immortal_tok)
  BY <1>1 DEF TracebackInv, WordsSent
<1>4. SharedFrames' = SharedFrames /\ TheOne' = TheOne /\ Searched'
  BY <1>1, <1>2 DEF SharedFrames, TheOne, Ancestors, Searched
<1>5. BestReported'
  BY <1>1 DEF BestReported, EndsWithToken
<1>6. CASE SharedFrames = {}
  <2>1. immortal_tok' = immortal_tok /\ prev_immortal_tok' = prev_immortal_tok
    BY <1>1, <1>6 DEF UpdateImmortalToken
  <2>2. toks # {} => immortal_tok = <<>> /\ prev_immortal_tok = <<>>
    BY <1>6, ImmortalShared DEF TracebackInv
  <2>3. reported' = reported
    BY <1>1, <2>1, <2>2
  <2>4. TokenTypes' /\ Immortal' /\ BeforeBatch'
    BY <1>1, <1>2, <1>4, <2>1 DEF TracebackInv, TokenTypes, Immortal, BeforeBatch
  <2>5. LastShared'
    BY <1>1, <1>4, <1>6, <2>1, <2>2 DEF LastShared, DummyToken
  <2>6. WordsSent'
    BY <1>3, <2>1, <2>3 DEF WordsSent
  <2> QED
    BY <1>5, <2>4, <2>5, <2>6 DEF TracebackInv
<1>7. CASE SharedFrames # {}
  <2>1. immortal_tok' = TheOne /\ prev_immortal_tok' = immortal_tok
    BY <1>1, <1>7 DEF UpdateImmortalToken, Previous
  <2>2. toks # {}
    BY <1>7 DEF SharedFrames, Ancestors
  <2>3. /\ Max(SharedFrames) \in 1 .. frames /\ EndsAt(TheOne, Max(SharedFrames))
        /\ \A t \in toks : IsPrefix(TheOne, t)
    BY <1>2, <1>7, TheOneIs DEF SharedFrames
  <2>4. IsPrefix(immortal_tok, TheOne)
    BY <1>7, <2>2, ImmortalShared DEF TracebackInv
  <2>5. PICK e \in Seq(Arcs) : e = TheOne /\ e[Len(e)].emits /\ Emitted(e, Len(e)) <= frames
    BY <1>2, <2>3 DEF EndsAt
  <2>6. reported' = Words(e)
    BY <1>1, <1>2, <1>3, <2>1, <2>4, <2>5, LatticeContinues
  <2>7. TokenTypes' /\ BeforeBatch'
    BY <1>1, <1>2, <1>4, <2>1, <2>5 DEF TokenTypes, BeforeBatch
  <2>8. Immortal'
    BY <1>1, <2>1, <2>3, <2>4, <2>5 DEF Immortal
  <2>9. LastShared' /\ WordsSent'
    BY <1>4, <1>7, <2>1, <2>5, <2>6 DEF LastShared, WordsSent
  <2> QED
    BY <1>5, <2>7, <2>8, <2>9 DEF TracebackInv
<1> QED
  BY <1>6, <1>7

\* FinishTraceBack reports what lies between the immortal token and the best
\* one, which the last frame's arc keeps apart.
LEMMA FinishKeeps ==
  ASSUME TracebackInv, FinishTraceBack
  PROVE  TracebackInv'
<1>1. /\ pc = "search" /\ pc' = "final" /\ batchFrame > 0 /\ best' \in toks /\ toks' = toks
      /\ reported' = reported \o MakeLattice(best', immortal_tok)
      /\ immortal_tok' = immortal_tok /\ prev_immortal_tok' = prev_immortal_tok
      /\ frames' = frames /\ batchFrame' = batchFrame
  BY DEF FinishTraceBack, ReportedTok
<1>2. /\ immortal_tok \in Seq(Arcs) /\ TokenOf(best', frames) /\ frames \in Nat
      /\ batchFrame \in Nat /\ IsPrefix(immortal_tok, best')
      /\ reported = Words(immortal_tok)
      /\ Emitted(immortal_tok, Len(immortal_tok)) + batchFrame <= frames
  BY <1>1 DEF TracebackInv, TokenTypes, Searched, Immortal, BeforeBatch, WordsSent
<1>3. reported' = Words(best')
  BY <1>1, <1>2, LatticeContinues DEF TokenOf
<1>4. immortal_tok # best'
  <2>1. Emitted(best', Len(best')) = frames
    BY <1>2 DEF TokenOf
  <2>2. Emitted(immortal_tok, Len(immortal_tok)) \in Nat
    BY <1>2, LenProperties, EmittedType
  <2>3. Emitted(immortal_tok, Len(immortal_tok)) # frames
    BY <1>1, <1>2, <2>2
  <2> QED
    BY <2>1, <2>3
<1>5. TokenTypes' /\ Immortal' /\ BeforeBatch'
  BY <1>1 DEF TracebackInv, TokenTypes, Searched, Immortal, BeforeBatch
<1>6. LastShared' /\ WordsSent' /\ BestReported'
  BY <1>1, <1>3, <1>4 DEF LastShared, WordsSent, BestReported
<1> QED
  BY <1>5, <1>6 DEF TracebackInv

\* The next batch: what all tokens continue, those with one more arc do too.
LEMMA NextBatchKeeps ==
  ASSUME TracebackInv, NextBatch
  PROVE  TracebackInv'
<1>1. /\ toks' \in Nonemitting(toks) /\ frames' = frames /\ batchFrame' = 0
      /\ pc = "partial" /\ pc' = "search" /\ immortal_tok' = immortal_tok
      /\ prev_immortal_tok' = prev_immortal_tok /\ reported' = reported
  BY DEF NextBatch
<1>2. /\ immortal_tok \in Seq(Arcs) /\ prev_immortal_tok \in Seq(Arcs)
      /\ frames \in Nat /\ \A t \in toks : TokenOf(t, frames)
  BY DEF TracebackInv, TokenTypes, Searched
<1>3. \A u \in toks' : TokenOf(u, frames) /\ \E t \in toks : IsPrefix(t, u)
  BY <1>1, <1>2, NonemittingTokens
<1>4. TokenTypes'
  BY <1>1, <1>2, <1>3 DEF TokenTypes, Searched
<1>5. Immortal'
  <2>1. ASSUME NEW u \in toks' PROVE IsPrefix(immortal_tok, u)
    <3>1. PICK t \in toks : IsPrefix(t, u)
      BY <1>3
    <3>2. u \in Seq(Arcs) /\ t \in Seq(Arcs) /\ IsPrefix(immortal_tok, t)
      BY <1>2, <1>3 DEF TokenOf, TracebackInv, Immortal
    <3> QED
      BY <1>2, <3>1, <3>2, PrefixTransitive
  <2> QED
    BY <1>1, <2>1 DEF TracebackInv, Immortal
<1>6. BeforeBatch'
  <2>1. Emitted(immortal_tok, Len(immortal_tok)) \in Nat
    BY <1>2, LenProperties, EmittedType
  <2> QED
    BY <1>1, <1>2, <2>1 DEF TracebackInv, BeforeBatch
<1>7. LastShared' /\ WordsSent' /\ BestReported'
  BY <1>1 DEF TracebackInv, LastShared, WordsSent, BestReported, EndsWithToken
<1> QED
  BY <1>4, <1>5, <1>6, <1>7 DEF TracebackInv

\* The actions that change neither a token nor what has been sent.
LEMMA OthersKeep ==
  ASSUME TracebackInv, ReadFreedToken \/ FinishDead
  PROVE  TracebackInv'
<1>1. /\ toks' = toks /\ immortal_tok' = immortal_tok /\ frames' = frames
      /\ prev_immortal_tok' = prev_immortal_tok /\ reported' = reported
  BY DEF ReadFreedToken, FinishDead
<1>2. /\ toks = {} /\ pc' \in {"undefined", "final"} /\ batchFrame' = batchFrame
  BY DEF ReadFreedToken, FinishDead, SearchDead
<1>3. TokenTypes' /\ Immortal' /\ BeforeBatch'
  BY <1>1, <1>2 DEF TracebackInv, TokenTypes, Searched, Immortal, BeforeBatch
<1>4. LastShared' /\ WordsSent' /\ BestReported'
  BY <1>1, <1>2 DEF LastShared, WordsSent, BestReported, EndsWithToken, SearchDead
<1> QED
  BY <1>3, <1>4 DEF TracebackInv

LEMMA TracebackInvNext == TracebackInv /\ [TracebackNext]_tokenVars => TracebackInv'
<1> SUFFICES ASSUME TracebackInv, [TracebackNext]_tokenVars PROVE TracebackInv'
  OBVIOUS
<1>1. CASE StartUtterance
  BY <1>1, StartKeeps
<1>2. CASE SearchFrame
  BY <1>2, FrameKeeps
<1>3. CASE PartialTraceback
  BY <1>3, PartialKeeps
<1>4. CASE FinishTraceBack
  BY <1>4, FinishKeeps
<1>5. CASE NextBatch \/ ReadFreedToken \/ FinishDead
  BY <1>5, NextBatchKeeps, OthersKeep
<1>6. CASE UNCHANGED tokenVars
  <2>1. /\ pc' = pc /\ toks' = toks /\ immortal_tok' = immortal_tok
        /\ prev_immortal_tok' = prev_immortal_tok /\ frames' = frames
        /\ batchFrame' = batchFrame /\ reported' = reported /\ best' = best
    BY <1>6 DEF tokenVars
  <2>2. SharedFrames' = SharedFrames /\ TheOne' = TheOne
    BY <2>1 DEF SharedFrames, TheOne, Ancestors
  <2>3. TokenTypes' /\ Immortal' /\ BeforeBatch'
    BY <2>1 DEF TracebackInv, TokenTypes, Searched, Immortal, BeforeBatch
  <2>4. LastShared' /\ WordsSent' /\ BestReported'
    BY <2>1, <2>2 DEF TracebackInv, LastShared, WordsSent, BestReported, EndsWithToken,
                      SearchDead
  <2> QED
    BY <2>3, <2>4 DEF TracebackInv
<1> QED
  BY <1>1, <1>2, <1>3, <1>4, <1>5, <1>6 DEF TracebackNext, Bounded

LEMMA TracebackInvariance == TracebackSpec => []TracebackInv
<1>1. TracebackInit => TracebackInv
  BY TracebackInvInit
<1>2. TracebackInv /\ [TracebackNext]_tokenVars => TracebackInv'
  BY TracebackInvNext
<1> QED
  BY <1>1, <1>2, PTL DEF TracebackSpec

-----------------------------------------------------------------------------
(* The theorems.                                                           *)

\* What OnlineSession sends of an utterance after a batch (PartialTraceback,
\* online-faster-decoder.cc) is part of every hypothesis that is alive: no
\* later frame, whatever it prunes, takes back a word.
THEOREM SentIsFinal == TracebackSpec => []NothingTakenBack
<1>1. TracebackInv => NothingTakenBack
  <2> SUFFICES ASSUME TracebackInv, InUtterance, NEW t \in toks
               PROVE  IsPrefix(reported, Words(t))
    BY DEF NothingTakenBack
  <2>1. /\ immortal_tok \in Seq(Arcs) /\ t \in Seq(Arcs) /\ IsPrefix(immortal_tok, t)
        /\ reported = Words(immortal_tok)
    BY DEF TracebackInv, TokenTypes, Searched, TokenOf, Immortal, WordsSent, InUtterance
  <2> QED
    BY <2>1, LatticeContinues
<1> QED
  BY <1>1, TracebackInvariance, PTL

\* After a batch UpdateImmortalToken and PartialTraceback have sent all that
\* the active tokens have in common.
THEOREM CertainIsSent == TracebackSpec => []NothingHeldBack
<1>1. TracebackInv => NothingHeldBack
  <2> SUFFICES ASSUME TracebackInv, pc = "partial", toks # {}
               PROVE  reported = Words(CommonPath)
    BY DEF NothingHeldBack, SearchDead
  <2>1. CommonPath = immortal_tok
    BY CommonIs DEF TracebackInv, TokenTypes, LastShared
  <2> QED
    BY <2>1 DEF TracebackInv, WordsSent
<1> QED
  BY <1>1, TracebackInvariance, PTL

\* The walk of MakeLattice from the immortal token ends at the previous one,
\* and that of FinishTraceBack, of at least one arc, at the immortal one;
\* every active token holds both.
THEOREM WalksEnd == TracebackSpec => []WalkEnds
<1>1. TracebackInv => WalkEnds
  BY DEF TracebackInv, Immortal, BestReported, WalkEnds, IsStrictPrefix,
         InUtterance, EndsWithToken
<1> QED
  BY <1>1, TracebackInvariance, PTL

\* The partial results of an utterance and the last one, one behind the
\* other, are the words of the token that FinishTraceBack chose.
THEOREM ReportsAreBestPath == TracebackSpec => []ReportIsBestPath
<1>1. TracebackInv => ReportIsBestPath
  BY DEF TracebackInv, BestReported, ReportIsBestPath
<1> QED
  BY <1>1, TracebackInvariance, PTL

===============================================================================
