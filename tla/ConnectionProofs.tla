-------------------------- MODULE ConnectionProofs --------------------------
(***************************************************************************)
(* Proofs about module Connection, for every value of its constants: its   *)
(* types, that the two processes with their pipes implement a backend that *)
(* is called directly (module RemoteBackend), that sessions emit their     *)
(* scripts once, and that the threads do not wait for each other.          *)
(*                                                                         *)
(* The first part takes what module FrameCodecProofs proves of a codec for *)
(* each of the two pipes.  The second follows a call from its request to   *)
(* its response.  The third maps every step to one of the backend called   *)
(* directly, and the fourth proves about the scripts by those steps alone. *)
(* The last is about what each thread may wait for.                        *)
(***************************************************************************)
EXTENDS Connection, SequenceTheorems, TLAPS

(* The two codecs, with what module FrameCodecProofs proves of each.       *)
RP == INSTANCE FrameCodecProofs WITH
  Byte <- BytesOf(RequestMessage), Bodies <- BodiesOf(RequestMessage),
  MaxFrames <- MaxRequests + 1,
  writing <- reqWriting, calls <- reqCalls, pending <- reqPending,
  pipe <- reqPipe, partial <- reqPartial, outcome <- reqOutcome,
  sent <- reqSent, received <- reqReceived

SP == INSTANCE FrameCodecProofs WITH
  Byte <- BytesOf(AnswerMessage), Bodies <- BodiesOf(AnswerMessage),
  MaxFrames <- 6 * (MaxRequests + 1),
  writing <- respWriting, calls <- respCalls, pending <- respPending,
  pipe <- respPipe, partial <- respPartial, outcome <- respOutcome,
  sent <- respSent, received <- respReceived

-----------------------------------------------------------------------------
(* Bodies are made of bytes.                                               *)
LEMMA BodiesAreBytes ==
  ASSUME NEW M
  PROVE  BodiesOf(M) \subseteq Seq(BytesOf(M))
  <1>1. ASSUME NEW m \in M PROVE Body(m) \in Seq(BytesOf(M))
    BY DEF Body, BytesOf
  <1>2. ASSUME NEW m \in M PROVE LargeBody(m) \in Seq(BytesOf(M))
    <2>1. <<m>> \in Seq(BytesOf(M))
      BY DEF BytesOf
    <2>2. [i \in 1..MaxMessageBytes |-> More] \in Seq(BytesOf(M))
      BY CodecAssumption DEF BytesOf
    <2>3. QED
      BY <2>1, <2>2 DEF LargeBody
  <1>3. QED
    BY <1>1, <1>2 DEF BodiesOf

(* What the code assumes of its constants holds of the requests' codec.    *)
LEMMA ReqAssumed ==
  /\ Base \in Nat \ {0, 1}
  /\ 0..(Base - 1) \subseteq BytesOf(RequestMessage)
  /\ HeaderBytes \in Nat \ {0}
  /\ MaxMessageBytes \in 1..(RP!Place[HeaderBytes] - 1)
  /\ MaxMessageBytes \in 0..(RP!Place[HeaderBytes] - 1)
  /\ BodiesOf(RequestMessage) \subseteq Seq(BytesOf(RequestMessage))
  /\ PipeBytes \in Nat \ {0}
  /\ MaxRequests + 1 \in Nat
  <1>1. RP!Place = Requests!Place
    BY Zenon DEF RP!Place, Requests!Place
  <1>2. MaxMessageBytes \in 1..(RP!Place[HeaderBytes] - 1)
    BY <1>1, CodecAssumption
  <1>3. MaxRequests + 1 \in Nat
    <2>1. MaxRequests + 1 \in Nat
      BY ConnectionBounds
    <2>2. QED
      BY <2>1
  <1>4. BodiesOf(RequestMessage) \subseteq Seq(BytesOf(RequestMessage))
    BY BodiesAreBytes
  <1>5. QED
    BY <1>1, <1>2, <1>3, <1>4, CodecAssumption, ConnectionBounds DEF BytesOf

(* Both instances of the codec have the same steps.                        *)
LEMMA ReqSame ==
  /\ Requests!Init <=> RP!Init
  /\ \A body : Requests!WriteFrame(body) <=> RP!WriteFrame(body)
  /\ Requests!WriteByte <=> RP!WriteByte
  /\ Requests!WriterEnds <=> RP!WriterEnds
  /\ Requests!ReadByte <=> RP!ReadByte
  /\ Requests!ReadEof <=> RP!ReadEof
  <1>1. Requests!Place = RP!Place
    BY Zenon DEF Requests!Place, RP!Place
  <1>2. \A n : Requests!EncodeLength(n) = RP!EncodeLength(n)
    BY <1>1 DEF Requests!EncodeLength, RP!EncodeLength
  <1>3. \A h : Requests!DecodeLength(h) = RP!DecodeLength(h)
    BY <1>1, Zenon DEF Requests!DecodeLength, RP!DecodeLength
  <1>4. Requests!ReadByte <=> RP!ReadByte
    BY <1>3 DEF Requests!ReadByte, RP!ReadByte, Requests!Accept, RP!Accept,
      Requests!HasHeader, RP!HasHeader, Requests!BodyLength, RP!BodyLength
  <1>5. \A body : Requests!WriteFrame(body) <=> RP!WriteFrame(body)
    BY <1>2 DEF Requests!WriteFrame, RP!WriteFrame
  <1>6. Requests!ReadEof <=> RP!ReadEof
    BY DEF Requests!ReadEof, RP!ReadEof, Requests!HasHeader, RP!HasHeader
  <1>7. QED
    BY <1>4, <1>5, <1>6
    DEF Requests!Init, RP!Init, Requests!WriteByte, RP!WriteByte,
        Requests!WriterEnds, RP!WriterEnds

(* What the invariant of the requests' codec says: what was sent and what  *)
(* was read are bodies, what was read is the beginning of what was sent,   *)
(* and the pipe is within its limit.                                       *)
LEMMA ReqState ==
  ASSUME RP!IInv
  PROVE  /\ reqSent \in Seq(BodiesOf(RequestMessage))
         /\ reqReceived \in Seq(BodiesOf(RequestMessage))
         /\ Len(reqReceived) <= Len(reqSent)
         /\ \A k \in 1..Len(reqReceived) : reqReceived[k] = reqSent[k]
         /\ Len(reqReceived) = Len(reqSent) => reqPending = <<>>
         /\ Len(reqPipe) <= PipeBytes
  BY ReqAssumed, RP!NothingUnread DEF RP!IInv, RP!TypeOK, RP!InStep

(* The invariant holds at first, and while nothing touches the pipe.       *)
LEMMA ReqInit == Requests!Init => RP!IInv
  BY ReqAssumed, ReqSame, RP!InitInv

LEMMA ReqKept == RP!IInv /\ UNCHANGED reqVars => RP!IInv'
  BY ReqAssumed, RP!StutterInv DEF RP!vars, reqVars

(* A frame handed to the codec is sent, unless its body is too large.      *)
LEMMA ReqWrite ==
  ASSUME RP!IInv, NEW body \in BodiesOf(RequestMessage), Requests!WriteFrame(body)
  PROVE  /\ RP!IInv'
         /\ UNCHANGED <<reqWriting, reqReceived>>
         /\ IF Len(body) <= MaxMessageBytes
            THEN reqSent' = Append(reqSent, body) /\ reqPending' # <<>>
            ELSE reqSent' = reqSent /\ reqPending' = reqPending
  <1>1. RP!WriteFrame(body)
    BY ReqSame
  <1>2. RP!IInv'
    BY <1>1, ReqAssumed, RP!WriteFrameInv
  <1>3. IF Len(body) <= MaxMessageBytes
        THEN reqSent' = Append(reqSent, body) /\ reqPending' # <<>>
        ELSE reqSent' = reqSent /\ reqPending' = reqPending
    BY <1>1, ReqAssumed, RP!Sending
  <1>4. QED
    BY <1>1, <1>2, <1>3 DEF RP!WriteFrame

(* A byte that goes into the pipe.                                         *)
LEMMA ReqByte ==
  ASSUME RP!IInv, Requests!WriteByte
  PROVE  RP!IInv' /\ UNCHANGED <<reqWriting, reqSent, reqReceived>>
  <1>1. RP!WriteByte
    BY ReqSame
  <1>2. RP!IInv'
    BY <1>1, ReqAssumed, RP!WriteByteInv
  <1>3. QED
    BY <1>1, <1>2 DEF RP!WriteByte

(* The supervisor drops its end of the pipe.                               *)
LEMMA ReqEnds ==
  ASSUME RP!IInv, Requests!WriterEnds
  PROVE  RP!IInv' /\ reqWriting' = FALSE /\ UNCHANGED <<reqSent, reqReceived, reqPending>>
  <1>1. RP!WriterEnds
    BY ReqSame
  <1>2. RP!IInv'
    BY <1>1, ReqAssumed, RP!WriterEndsInv
  <1>3. QED
    BY <1>1, <1>2 DEF RP!WriterEnds

(* A byte read completes the next of the frames sent, or none.             *)
LEMMA ReqRead ==
  ASSUME RP!IInv, Requests!ReadByte
  PROVE  /\ RP!IInv'
         /\ UNCHANGED <<reqWriting, reqSent, reqPending>>
         /\ \/ reqReceived' = reqReceived
            \/ /\ Len(reqReceived) < Len(reqSent)
               /\ reqReceived' = Append(reqReceived, reqSent[Len(reqReceived) + 1])
  <1>1. RP!ReadByte
    BY ReqSame
  <1>2. RP!IInv'
    BY <1>1, ReqAssumed, RP!ReadByteInv
  <1>3. \/ reqReceived' = reqReceived
        \/ /\ Len(reqReceived) < Len(reqSent)
           /\ reqReceived' = Append(reqReceived, reqSent[Len(reqReceived) + 1])
    BY <1>1, ReqAssumed, RP!ReadsInOrder
  <1>4. QED
    BY <1>1, <1>2, <1>3 DEF RP!ReadByte

(* The end of the pipe is read only when its writer is gone.               *)
LEMMA ReqEof ==
  ASSUME RP!IInv, Requests!ReadEof
  PROVE  RP!IInv' /\ ~reqWriting /\
            UNCHANGED <<reqWriting, reqSent, reqReceived, reqPending>>
  <1>1. RP!ReadEof
    BY ReqSame
  <1>2. RP!IInv'
    BY <1>1, ReqAssumed, RP!ReadEofInv
  <1>3. QED
    BY <1>1, <1>2 DEF RP!ReadEof

(* The same of the answers' codec, from here.                              *)
LEMMA RespAssumed ==
  /\ Base \in Nat \ {0, 1}
  /\ 0..(Base - 1) \subseteq BytesOf(AnswerMessage)
  /\ HeaderBytes \in Nat \ {0}
  /\ MaxMessageBytes \in 1..(SP!Place[HeaderBytes] - 1)
  /\ MaxMessageBytes \in 0..(SP!Place[HeaderBytes] - 1)
  /\ BodiesOf(AnswerMessage) \subseteq Seq(BytesOf(AnswerMessage))
  /\ PipeBytes \in Nat \ {0}
  /\ 6 * (MaxRequests + 1) \in Nat
  <1>1. SP!Place = Requests!Place
    BY Zenon DEF SP!Place, Requests!Place
  <1>2. MaxMessageBytes \in 1..(SP!Place[HeaderBytes] - 1)
    BY <1>1, CodecAssumption
  <1>3. 6 * (MaxRequests + 1) \in Nat
    <2>1. MaxRequests + 1 \in Nat
      BY ConnectionBounds
    <2>2. QED
      BY <2>1
  <1>4. BodiesOf(AnswerMessage) \subseteq Seq(BytesOf(AnswerMessage))
    BY BodiesAreBytes
  <1>5. QED
    BY <1>1, <1>2, <1>3, <1>4, CodecAssumption, ConnectionBounds DEF BytesOf

(* Both instances of the codec have the same steps.                        *)
LEMMA RespSame ==
  /\ Responses!Init <=> SP!Init
  /\ \A body : Responses!WriteFrame(body) <=> SP!WriteFrame(body)
  /\ Responses!WriteByte <=> SP!WriteByte
  /\ Responses!WriterEnds <=> SP!WriterEnds
  /\ Responses!ReadByte <=> SP!ReadByte
  /\ Responses!ReadEof <=> SP!ReadEof
  <1>1. Responses!Place = SP!Place
    BY Zenon DEF Responses!Place, SP!Place
  <1>2. \A n : Responses!EncodeLength(n) = SP!EncodeLength(n)
    BY <1>1 DEF Responses!EncodeLength, SP!EncodeLength
  <1>3. \A h : Responses!DecodeLength(h) = SP!DecodeLength(h)
    BY <1>1, Zenon DEF Responses!DecodeLength, SP!DecodeLength
  <1>4. Responses!ReadByte <=> SP!ReadByte
    BY <1>3 DEF Responses!ReadByte, SP!ReadByte, Responses!Accept, SP!Accept,
      Responses!HasHeader, SP!HasHeader, Responses!BodyLength, SP!BodyLength
  <1>5. \A body : Responses!WriteFrame(body) <=> SP!WriteFrame(body)
    BY <1>2 DEF Responses!WriteFrame, SP!WriteFrame
  <1>6. Responses!ReadEof <=> SP!ReadEof
    BY DEF Responses!ReadEof, SP!ReadEof, Responses!HasHeader, SP!HasHeader
  <1>7. QED
    BY <1>4, <1>5, <1>6
    DEF Responses!Init, SP!Init, Responses!WriteByte, SP!WriteByte,
        Responses!WriterEnds, SP!WriterEnds

(* What was sent and what was read of the answers.                         *)
LEMMA RespState ==
  ASSUME SP!IInv
  PROVE  /\ respSent \in Seq(BodiesOf(AnswerMessage))
         /\ respReceived \in Seq(BodiesOf(AnswerMessage))
         /\ Len(respReceived) <= Len(respSent)
         /\ \A k \in 1..Len(respReceived) : respReceived[k] = respSent[k]
         /\ Len(respReceived) = Len(respSent) => respPending = <<>>
         /\ Len(respPipe) <= PipeBytes
  BY RespAssumed, SP!NothingUnread DEF SP!IInv, SP!TypeOK, SP!InStep

(* The invariant holds at first, and while nothing touches the pipe.       *)
LEMMA RespInit == Responses!Init => SP!IInv
  BY RespAssumed, RespSame, SP!InitInv

LEMMA RespKept == SP!IInv /\ UNCHANGED respVars => SP!IInv'
  BY RespAssumed, SP!StutterInv DEF SP!vars, respVars

(* A frame handed to the codec is sent, unless its body is too large.      *)
LEMMA RespWrite ==
  ASSUME SP!IInv, NEW body \in BodiesOf(AnswerMessage), Responses!WriteFrame(body)
  PROVE  /\ SP!IInv'
         /\ UNCHANGED <<respWriting, respReceived>>
         /\ IF Len(body) <= MaxMessageBytes
            THEN respSent' = Append(respSent, body) /\ respPending' # <<>>
            ELSE respSent' = respSent /\ respPending' = respPending
  <1>1. SP!WriteFrame(body)
    BY RespSame
  <1>2. SP!IInv'
    BY <1>1, RespAssumed, SP!WriteFrameInv
  <1>3. IF Len(body) <= MaxMessageBytes
        THEN respSent' = Append(respSent, body) /\ respPending' # <<>>
        ELSE respSent' = respSent /\ respPending' = respPending
    BY <1>1, RespAssumed, SP!Sending
  <1>4. QED
    BY <1>1, <1>2, <1>3 DEF SP!WriteFrame

(* A byte that goes into the pipe.                                         *)
LEMMA RespByte ==
  ASSUME SP!IInv, Responses!WriteByte
  PROVE  SP!IInv' /\ UNCHANGED <<respWriting, respSent, respReceived>>
  <1>1. SP!WriteByte
    BY RespSame
  <1>2. SP!IInv'
    BY <1>1, RespAssumed, SP!WriteByteInv
  <1>3. QED
    BY <1>1, <1>2 DEF SP!WriteByte

(* The bridge drops its end of the pipe.                                   *)
LEMMA RespEnds ==
  ASSUME SP!IInv, Responses!WriterEnds
  PROVE  SP!IInv' /\ respWriting' = FALSE /\
            UNCHANGED <<respSent, respReceived, respPending>>
  <1>1. SP!WriterEnds
    BY RespSame
  <1>2. SP!IInv'
    BY <1>1, RespAssumed, SP!WriterEndsInv
  <1>3. QED
    BY <1>1, <1>2 DEF SP!WriterEnds

(* A byte read completes the next of the frames sent, or none.             *)
LEMMA RespRead ==
  ASSUME SP!IInv, Responses!ReadByte
  PROVE  /\ SP!IInv'
         /\ UNCHANGED <<respWriting, respSent, respPending>>
         /\ \/ respReceived' = respReceived
            \/ /\ Len(respReceived) < Len(respSent)
               /\ respReceived' = Append(respReceived, respSent[Len(respReceived) + 1])
  <1>1. SP!ReadByte
    BY RespSame
  <1>2. SP!IInv'
    BY <1>1, RespAssumed, SP!ReadByteInv
  <1>3. \/ respReceived' = respReceived
        \/ /\ Len(respReceived) < Len(respSent)
           /\ respReceived' = Append(respReceived, respSent[Len(respReceived) + 1])
    BY <1>1, RespAssumed, SP!ReadsInOrder
  <1>4. QED
    BY <1>1, <1>2, <1>3 DEF SP!ReadByte

(* The end of the pipe is read only when its writer is gone.               *)
LEMMA RespEof ==
  ASSUME SP!IInv, Responses!ReadEof
  PROVE  SP!IInv' /\ ~respWriting /\
            UNCHANGED <<respWriting, respSent, respReceived, respPending>>
  <1>1. SP!ReadEof
    BY RespSame
  <1>2. SP!IInv'
    BY <1>1, RespAssumed, SP!ReadEofInv
  <1>3. QED
    BY <1>1, <1>2 DEF SP!ReadEof

-----------------------------------------------------------------------------
(* The message a body carries, large or not.                               *)
LEMMA MessageOfBody ==
  ASSUME NEW M, NEW body \in BodiesOf(M)
  PROVE  Message(body) \in M
  <1>1. ASSUME NEW m \in M PROVE Message(Body(m)) = m
    BY DEF Message, Body
  <1>2. ASSUME NEW m \in M PROVE Message(LargeBody(m)) = m
    <2> DEFINE more == [i \in 1..MaxMessageBytes |-> More]
    <2>1. more \in Seq({More}) /\ <<m>> \in Seq({m})
      BY CodecAssumption
    <2> HIDE DEF more
    <2>2. Head(<<m>> \o more) = m
      BY <2>1
    <2>3. QED
      BY <2>2 DEF Message, LargeBody, more
  <1>3. QED
    BY <1>1, <1>2 DEF BodiesOf

(* A byte read completes a message that was sent, or none.                 *)
LEMMA RequestRead ==
  ASSUME RP!IInv, Requests!ReadByte
  PROVE  \/ reqReceived' = reqReceived
         \/ /\ reqReceived' # reqReceived
            /\ Len(reqReceived) < Len(reqSent)
            /\ Len(reqReceived') = Len(reqReceived) + 1
            /\ Last(reqReceived') = reqSent[Len(reqReceived) + 1]
            /\ Message(Last(reqReceived')) \in RequestMessage
  <1>1. /\ reqSent \in Seq(BodiesOf(RequestMessage))
        /\ reqReceived \in Seq(BodiesOf(RequestMessage))
    BY ReqState
  <1>2. CASE reqReceived' = reqReceived
    BY <1>2
  <1>3. CASE /\ Len(reqReceived) < Len(reqSent)
             /\ reqReceived' = Append(reqReceived, reqSent[Len(reqReceived) + 1])
    <2> DEFINE b == reqSent[Len(reqReceived) + 1]
    <2>1. b \in BodiesOf(RequestMessage)
      BY <1>1, <1>3
    <2>2. Message(b) \in RequestMessage
      BY <2>1, MessageOfBody
    <2> HIDE DEF b
    <2>3. /\ Len(Append(reqReceived, b)) = Len(reqReceived) + 1
          /\ Last(Append(reqReceived, b)) = b
          /\ Append(reqReceived, b) # reqReceived
      BY <1>1, <2>1 DEF Last
    <2>4. QED
      BY <1>3, <2>2, <2>3 DEF b
  <1>4. QED
    BY <1>2, <1>3, ReqRead

(* The same for the answers.                                               *)
LEMMA AnswerRead ==
  ASSUME SP!IInv, Responses!ReadByte
  PROVE  \/ respReceived' = respReceived
         \/ /\ respReceived' # respReceived
            /\ Len(respReceived) < Len(respSent)
            /\ Len(respReceived') = Len(respReceived) + 1
            /\ Last(respReceived') = respSent[Len(respReceived) + 1]
            /\ Message(Last(respReceived')) \in AnswerMessage
  <1>1. /\ respSent \in Seq(BodiesOf(AnswerMessage))
        /\ respReceived \in Seq(BodiesOf(AnswerMessage))
    BY RespState
  <1>2. CASE respReceived' = respReceived
    BY <1>2
  <1>3. CASE /\ Len(respReceived) < Len(respSent)
             /\ respReceived' = Append(respReceived, respSent[Len(respReceived) + 1])
    <2> DEFINE b == respSent[Len(respReceived) + 1]
    <2>1. b \in BodiesOf(AnswerMessage)
      BY <1>1, <1>3
    <2>2. Message(b) \in AnswerMessage
      BY <2>1, MessageOfBody
    <2> HIDE DEF b
    <2>3. /\ Len(Append(respReceived, b)) = Len(respReceived) + 1
          /\ Last(Append(respReceived, b)) = b
          /\ Append(respReceived, b) # respReceived
      BY <1>1, <2>1 DEF Last
    <2>4. QED
      BY <1>3, <2>2, <2>3 DEF b
  <1>4. QED
    BY <1>2, <1>3, RespRead

-----------------------------------------------------------------------------
(* The backend keeps to its types.                                         *)
LEMMA ScriptTyped ==
  ASSUME NEW d \in Decoder
  PROVE  Script[d] \in Seq([from : Nat, to : Nat, class : 0..2])
  <1> DEFINE T == [from : Nat, to : Nat, class : 0..2]
  <1>1. OneWire \in Seq(T)
    BY DEF OneWire, Span
  <1>2. Jtag \in Seq(T)
    BY DEF Jtag, Span
  <1>3. Pwm \in Seq(T)
    BY DEF Pwm, Span
  <1>4. Dmx \in Seq(T)
    BY DEF Dmx, Span
  <1>5. Modbus \in Seq(T)
    BY DEF Modbus, Span
  <1>6. d \in {"onewire", "jtag", "pwm", "dmx512", "modbus"}
    BY DEF Decoder, RequiredChannels
  <1> HIDE DEF T
  <1>7. Script[d] \in {OneWire, Jtag, Pwm, Dmx, Modbus}
    BY <1>6 DEF Script
  <1>8. QED
    BY <1>1, <1>2, <1>3, <1>4, <1>5, <1>7 DEF T

(* What a session emits is its script, every annotation of that session.   *)
LEMMA PlayedTyped ==
  ASSUME NEW s \in SessionId, NEW d \in Decoder, NEW fs \in Nat
  PROVE  /\ Played(s, d, fs) \in Seq(Event)
         /\ Len(Played(s, d, fs)) = Len(Script[d])
         /\ \A i \in 1..Len(Script[d]) : Played(s, d, fs)[i].session = s
  <1> DEFINE q == Script[d]
             T == [from : Nat, to : Nat, class : 0..2]
  <1>1. q \in Seq(T)
    BY ScriptTyped
  <1> HIDE DEF q, T
  <1> DEFINE e(i) == [session |-> s, start |-> (fs + q[i].from) % Word,
                      end |-> (fs + q[i].to) % Word, class |-> q[i].class]
  <1>2. \A i \in 1..Len(q) : e(i) \in Event /\ e(i).session = s
    <2> TAKE i \in 1..Len(q)
    <2>1. q[i] \in T
      BY <1>1
    <2>2. \A t \in Nat : (fs + t) % Word \in 0..(Word - 1)
      BY WordAssumption
    <2>3. QED
      BY <2>1, <2>2 DEF Event, T
  <1> HIDE DEF e
  <1>3. Len(q) \in Nat /\ DOMAIN q = 1..Len(q)
    BY <1>1
  <1>4. [i \in 1..Len(q) |-> e(i)] \in Seq(Event)
    BY <1>2, <1>3
  <1>5. Played(s, d, fs) = [i \in 1..Len(q) |-> e(i)]
    BY <1>3 DEF Played, q, e
  <1>6. QED
    BY <1>2, <1>3, <1>4, <1>5 DEF q

(* What each kind of request that the shim asks is made of.                *)
LEMMA AskedOf ==
  ASSUME NEW req \in Asked
  PROVE  /\ req # Shutdown
         /\ req.op = "feed" => req.session \in SessionId /\ req.fs \in FedTimes
                               /\ req.set \in SUBSET Nat
  BY CreationsAssumption DEF Asked, Shutdown

(* Every request keeps the backend to its types and yields an answer.      *)
LEMMA HandleTyped ==
  ASSUME MockTypeOK, NEW req \in Asked, Handle(req)
  PROVE  MockTypeOK'
  <1>1. <<>> \in Seq(Event) /\ NoSession \in SessionId \cup {NoSession}
    OBVIOUS
  <1>2. Ok(NoSession, <<>>) \in Answer /\ Err \in Answer
    BY <1>1 DEF Ok, Err, Answer
  <1>3. CASE ListDecoders(req)
    BY <1>2, <1>3 DEF ListDecoders, MockTypeOK
  <1>4. CASE CreateSession(req)
    <2>1. CASE Acceptable(req)
      <3>1. nextSession \in SessionId /\ nextSession + 1 \in 1..(MaxSessions + 1)
        BY <1>4, <2>1, MockBound DEF CreateSession, MockTypeOK, SessionId
      <3>2. Ok(nextSession, <<>>) \in Answer
        BY <1>1, <3>1 DEF Ok, Answer
      <3>3. [decoder |-> req.decoder, known |-> {}, emitted |-> FALSE] \in Session
        BY <2>1 DEF Acceptable, Session
      <3>4. /\ nextSession' = nextSession + 1 /\ answer' = Ok(nextSession, <<>>)
            /\ sessions' = [s \in DOMAIN sessions \cup {nextSession} |->
                              IF s = nextSession
                              THEN [decoder |-> req.decoder, known |-> {},
                                    emitted |-> FALSE]
                              ELSE sessions[s]]
        BY <1>4, <2>1 DEF CreateSession
      <3>5. \A s \in DOMAIN sessions' : sessions'[s] \in Session
        BY <3>3, <3>4 DEF MockTypeOK
      <3>6. DOMAIN sessions' \subseteq SessionId
        BY <3>1, <3>4 DEF MockTypeOK
      <3>7. QED
        BY <3>1, <3>2, <3>4, <3>5, <3>6 DEF MockTypeOK
    <2>2. CASE ~Acceptable(req)
      BY <1>2, <1>4, <2>2 DEF CreateSession, MockTypeOK
    <2>3. QED
      BY <2>1, <2>2
  <1>5. CASE Feed(req)
    <2> DEFINE s == req.session
    <2>1. s \in SessionId /\ req.fs \in Nat /\ req.set \in SUBSET Nat
      BY <1>5, AskedOf, TimesAssumption DEF Feed
    <2>2. CASE s \in DOMAIN sessions
      <3> DEFINE k == sessions[s].known \cup req.set
      <3>1. sessions[s] \in Session
        BY <2>2 DEF MockTypeOK
      <3>2. /\ sessions' = [sessions EXCEPT ![s] =
                              [decoder |-> sessions[s].decoder, known |-> k,
                               emitted |-> sessions[s].emitted \/ k # {}]]
            /\ nextSession' = nextSession
            /\ answer' = Ok(NoSession, IF Plays(sessions[s], k)
                                       THEN Played(s, sessions[s].decoder, req.fs)
                                       ELSE <<>>)
        BY <1>5, <2>2 DEF Feed
      <3>3. k \in SUBSET Nat
        BY <2>1, <3>1 DEF Session
      <3> HIDE DEF k
      <3>4. [decoder |-> sessions[s].decoder, known |-> k,
             emitted |-> sessions[s].emitted \/ k # {}] \in Session
        BY <3>1, <3>3 DEF Session
      <3>5. DOMAIN sessions' = DOMAIN sessions
            /\ \A t \in DOMAIN sessions : sessions'[t] \in Session
        <4> DEFINE x == [decoder |-> sessions[s].decoder, known |-> k,
                         emitted |-> sessions[s].emitted \/ k # {}]
        <4>1. x \in Session
          BY <3>4
        <4>2. sessions' = [sessions EXCEPT ![s] = x]
          BY <3>2
        <4> HIDE DEF x, s
        <4>3. DOMAIN sessions' = DOMAIN sessions
          BY <4>2
        <4>4. \A t \in DOMAIN sessions : sessions'[t] = IF t = s THEN x ELSE sessions[t]
          BY <4>2
        <4>5. QED
          BY <4>1, <4>3, <4>4 DEF MockTypeOK
      <3>6. Played(s, sessions[s].decoder, req.fs) \in Seq(Event)
        BY <2>1, <3>1, PlayedTyped DEF Session
      <3>7. answer' \in Answer
        BY <1>1, <3>2, <3>6 DEF Ok, Answer
      <3>8. QED
        BY <3>2, <3>5, <3>7 DEF MockTypeOK
    <2>3. CASE s \notin DOMAIN sessions
      BY <1>2, <1>5, <2>3 DEF Feed, MockTypeOK
    <2>4. QED
      BY <2>2, <2>3
  <1>6. CASE Finalize(req)
    BY <1>2, <1>6 DEF Finalize, MockTypeOK
  <1>7. CASE Destroy(req)
    BY <1>2, <1>7 DEF Destroy, MockTypeOK
  <1>8. QED
    BY <1>3, <1>4, <1>5, <1>6, <1>7 DEF Handle

(* The frames of a reply: the events in their order, then one response.    *)
LEMMA ReplyTyped ==
  ASSUME NEW id \in 0..MaxRequests, NEW a \in Answer
  PROVE  /\ Reply(id, a) \in Seq(AnswerMessage)
         /\ Len(Reply(id, a)) = Len(a.events) + 1
         /\ Reply(id, a) # <<>>
         /\ \A i \in 1..Len(a.events) :
               Reply(id, a)[i] = [kind |-> "event", event |-> a.events[i]]
         /\ Reply(id, a)[Len(a.events) + 1] =
              [kind |-> "response", id |-> id, status |-> a.status, session |-> a.session]
  <1> DEFINE n == Len(a.events)
             f(i) == IF i <= n THEN [kind |-> "event", event |-> a.events[i]]
                     ELSE [kind |-> "response", id |-> id, status |-> a.status,
                           session |-> a.session]
  <1>1. a.events \in Seq(Event) /\ a.status \in {"ok", "err"}
        /\ a.session \in SessionId \cup {NoSession}
    BY DEF Answer
  <1>2. n \in Nat /\ \A i \in 1..n : a.events[i] \in Event
    BY <1>1
  <1>3. \A i \in 1..(n + 1) : f(i) \in AnswerMessage
    BY <1>1, <1>2 DEF AnswerMessage, EventMessage, ResponseMessage
  <1>4. Reply(id, a) = [i \in 1..(n + 1) |-> f(i)]
    BY DEF Reply
  <1>5. \A i \in 1..n : f(i) = [kind |-> "event", event |-> a.events[i]]
    BY <1>2
  <1>6. f(n + 1) = [kind |-> "response", id |-> id, status |-> a.status,
                       session |-> a.session]
    BY <1>2
  <1> HIDE DEF f, n
  <1>7. [i \in 1..(n + 1) |-> f(i)] \in Seq(AnswerMessage)
    BY <1>2, <1>3
  <1> DEFINE r == [i \in 1..(n + 1) |-> f(i)]
  <1>8. Len(r) = n + 1 /\ \A i \in 1..(n + 1) : r[i] = f(i)
    BY <1>2
  <1>9. n + 1 \in 1..(n + 1) /\ \A i \in 1..n : i \in 1..(n + 1)
    BY <1>2
  <1>10. r # <<>>
    BY <1>2, <1>8
  <1>11. Reply(id, a) = r /\ r \in Seq(AnswerMessage)
    BY <1>4, <1>7
  <1> HIDE DEF r
  <1>12. QED
    BY <1>5, <1>6, <1>8, <1>9, <1>10, <1>11 DEF n

-----------------------------------------------------------------------------
(* Types, by the part of the system that changes them.                     *)
LogTyped ==
  /\ errPipe \in Seq({"text", "other"}) /\ Len(errPipe) <= ErrLines
  /\ draining \in BOOLEAN

LoopTyped ==
  /\ loop \in {"read", "log", "write", "exited"}
  /\ outbox \in Seq(AnswerMessage)
  /\ loop = "read" => outbox = <<>> /\ respPending = <<>>
  /\ loop = "exited" => outbox = <<>>
  /\ respWriting <=> loop # "exited"
  /\ logLeft \in 0..MaxLogLines

SupervisorTyped ==
  /\ owner \in {"registration", "sessions"}
  /\ phase \in {"idle", "send", "refused", "await", "stop", "wait", "gone"}
  /\ reqWriting <=> phase # "gone"
  /\ nextId \in 1..(MaxRequests + 1)
  /\ eventQueue \in Seq(Event)

CallTyped ==
  /\ result \in [status : {"none", "ok", "err"}, session : SessionId \cup {NoSession}]
  /\ request \in Asked \cup {NoRequest}
  /\ progress \in {"idle", "asked", "answered"}
  /\ gotBefore \in 0..Len(eventQueue)

(* The inductive part of the types: the codecs keep to their invariants.   *)
TypeInv ==
  /\ RP!IInv /\ SP!IInv
  /\ MockTypeOK /\ LogTyped /\ LoopTyped /\ SupervisorTyped /\ CallTyped

(* It implies the type invariant of module Connection.                     *)
LEMMA TypeInvTypes == TypeInv => TypeOK
  <1> SUFFICES ASSUME TypeInv PROVE TypeOK
    OBVIOUS
  <1>1. Len(reqPipe) <= PipeBytes /\ reqReceived \in Seq(BodiesOf(RequestMessage))
    BY ReqState DEF TypeInv
  <1>2. Len(respPipe) <= PipeBytes
    BY RespState DEF TypeInv
  <1>3. \A i \in DOMAIN reqReceived : Message(reqReceived[i]) \in RequestMessage
    <2> TAKE i \in DOMAIN reqReceived
    <2>1. reqReceived[i] \in BodiesOf(RequestMessage)
      BY <1>1
    <2>2. QED
      BY <2>1, MessageOfBody
  <1>4. QED
    BY <1>1, <1>2, <1>3 DEF TypeInv, LogTyped, LoopTyped, SupervisorTyped, CallTyped, TypeOK

(* It holds at first.                                                      *)
LEMMA TypeInvInit == Init => TypeInv
  <1> SUFFICES ASSUME Init PROVE TypeInv
    OBVIOUS
  <1>1. RP!IInv /\ SP!IInv
    BY ReqInit, RespInit DEF Init
  <1>2. reqWriting = TRUE /\ respWriting = TRUE /\ respPending = <<>>
    BY DEF Init, Requests!Init, Responses!Init
  <1>3. MockTypeOK
    <2>1. Err \in Answer
      BY DEF Err, Answer
    <2>2. QED
      BY <2>1, MockBound DEF Init, MockInit, MockTypeOK
  <1>4. LogTyped /\ LoopTyped /\ SupervisorTyped /\ CallTyped
    BY <1>2, ConnectionBounds
    DEF Init, LogTyped, LoopTyped, SupervisorTyped, CallTyped, NoResult
  <1>5. QED
    BY <1>1, <1>3, <1>4 DEF TypeInv

(* What each group of variables leaves as it is.                           *)
LEMMA PartsKept ==
  ASSUME TypeInv
  PROVE  /\ UNCHANGED mockVars => MockTypeOK'
         /\ UNCHANGED reqVars => RP!IInv'
         /\ UNCHANGED respVars => SP!IInv'
         /\ UNCHANGED errVars => LogTyped'
         /\ UNCHANGED <<loopVars, respVars>> => LoopTyped'
         /\ UNCHANGED <<loop, outbox, logLeft, respWriting, respPending>> => LoopTyped'
         /\ UNCHANGED <<supVars, reqVars>> => SupervisorTyped'
         /\ UNCHANGED <<supVars, reqWriting>> => SupervisorTyped'
         /\ UNCHANGED <<callVars, eventQueue>> => CallTyped'
  <1>1. UNCHANGED mockVars => MockTypeOK'
    BY DEF TypeInv, mockVars, MockTypeOK
  <1>2. UNCHANGED errVars => LogTyped'
    BY DEF TypeInv, errVars, LogTyped
  <1>3. UNCHANGED <<loop, outbox, logLeft, respWriting, respPending>> => LoopTyped'
    BY DEF TypeInv, LoopTyped
  <1>4. UNCHANGED <<loopVars, respVars>> => LoopTyped'
    BY <1>3 DEF loopVars, respVars
  <1>5. UNCHANGED <<supVars, reqWriting>> => SupervisorTyped'
    BY DEF TypeInv, supVars, SupervisorTyped
  <1>6. UNCHANGED <<supVars, reqVars>> => SupervisorTyped'
    BY <1>5 DEF reqVars
  <1>7. UNCHANGED <<callVars, eventQueue>> => CallTyped'
    BY DEF TypeInv, callVars, CallTyped
  <1>8. QED
    BY <1>1, <1>2, <1>3, <1>4, <1>5, <1>6, <1>7, ReqKept, RespKept DEF TypeInv

(* The supervisor's steps.                                                 *)
LEMMA AskTyped ==
  ASSUME TypeInv, NEW req \in Asked, Ask(req)
  PROVE  TypeInv'
  <1> DEFINE m == [id |-> nextId, req |-> req]
  <1>1. m \in RequestMessage
    BY ConnectionBounds DEF TypeInv, SupervisorTyped, Ask, RequestMessage
  <1>2. Body(m) \in BodiesOf(RequestMessage) /\ LargeBody(m) \in BodiesOf(RequestMessage)
    BY <1>1 DEF BodiesOf
  <1>3. \/ UNCHANGED reqVars
        \/ Requests!WriteFrame(Body(m))
        \/ Requests!WriteFrame(LargeBody(m))
    BY DEF Ask
  <1>4. RP!IInv' /\ reqWriting' = reqWriting
    BY <1>2, <1>3, ReqWrite, PartsKept DEF TypeInv, reqVars
  <1>5. MockTypeOK' /\ SP!IInv' /\ LogTyped' /\ LoopTyped'
    BY PartsKept DEF Ask
  <1>6. SupervisorTyped'
    BY <1>4, ConnectionBounds DEF TypeInv, SupervisorTyped, Ask
  <1>7. CallTyped'
    BY DEF TypeInv, SupervisorTyped, CallTyped, Ask, NoResult
  <1>8. QED
    BY <1>4, <1>5, <1>6, <1>7 DEF TypeInv

(* A byte of a request goes into the pipe.                                 *)
LEMMA SendByteTyped ==
  ASSUME TypeInv, SendByte
  PROVE  TypeInv'
  <1>1. RP!IInv' /\ reqWriting' = reqWriting
    BY ReqByte DEF TypeInv, SendByte
  <1>2. MockTypeOK' /\ SP!IInv' /\ LogTyped' /\ LoopTyped' /\ CallTyped'
    BY PartsKept DEF SendByte
  <1>3. SupervisorTyped'
    BY <1>1 DEF TypeInv, SupervisorTyped, SendByte
  <1>4. QED
    BY <1>1, <1>2, <1>3 DEF TypeInv

(* A call returns.                                                         *)
LEMMA ConcludeTyped ==
  ASSUME TypeInv, NEW r \in [status : {"ok", "err"}, session : SessionId \cup {NoSession}],
         Conclude(r), phase # "gone", UNCHANGED <<eventQueue, reqWriting>>
  PROVE  SupervisorTyped' /\ CallTyped'
  BY DEF TypeInv, SupervisorTyped, CallTyped, Conclude

(* What a call that failed returns.                                        *)
LEMMA FailureTyped ==
  Failure \in [status : {"ok", "err"}, session : SessionId \cup {NoSession}]
  BY DEF Failure

(* A request that is too large, or a pipe nobody reads.                    *)
LEMMA SendFailsTyped ==
  ASSUME TypeInv, SendFails
  PROVE  TypeInv'
  <1>1. MockTypeOK' /\ RP!IInv' /\ SP!IInv' /\ LogTyped' /\ LoopTyped'
    BY PartsKept DEF SendFails
  <1>2. SupervisorTyped' /\ CallTyped'
    BY FailureTyped, ConcludeTyped DEF SendFails, reqVars
  <1>3. QED
    BY <1>1, <1>2 DEF TypeInv

(* A byte of an answer is read; a frame that is complete is taken.         *)
LEMMA ReceiveByteTyped ==
  ASSUME TypeInv, ReceiveByte
  PROVE  TypeInv'
  <1>1. SP!IInv' /\ UNCHANGED <<respWriting, respPending>>
    BY RespRead DEF TypeInv, ReceiveByte
  <1>2. MockTypeOK' /\ RP!IInv' /\ LogTyped'
    BY PartsKept DEF ReceiveByte
  <1>3. LoopTyped'
    BY <1>1, PartsKept DEF ReceiveByte, loopVars
  <1>4. reqWriting' = reqWriting /\ phase = "await"
    BY DEF ReceiveByte, reqVars
  <1>5. CASE respReceived' = respReceived
    <2>1. UNCHANGED <<supVars, callVars>>
      BY <1>5 DEF ReceiveByte
    <2>2. SupervisorTyped' /\ CallTyped'
      BY <1>4, <2>1, PartsKept DEF supVars
    <2>3. QED
      BY <1>1, <1>2, <1>3, <2>2 DEF TypeInv
  <1>6. CASE respReceived' # respReceived
    <2> DEFINE m == Message(Last(respReceived'))
    <2>1. m \in AnswerMessage
      BY <1>6, AnswerRead DEF TypeInv, ReceiveByte
    <2>2. Take(m)
      BY <1>6 DEF ReceiveByte
    <2> HIDE DEF m
    <2>3. CASE m.kind = "event"
      <3>1. m.event \in Event
        BY <2>1, <2>3 DEF AnswerMessage, EventMessage, ResponseMessage
      <3>2. eventQueue' = Append(eventQueue, m.event)
            /\ UNCHANGED <<owner, phase, nextId, callVars>>
        BY <2>2, <2>3 DEF Take
      <3>3. eventQueue' \in Seq(Event) /\ Len(eventQueue') = Len(eventQueue) + 1
        BY <3>1, <3>2 DEF TypeInv, SupervisorTyped
      <3>4. SupervisorTyped'
        BY <1>4, <3>2, <3>3 DEF TypeInv, SupervisorTyped
      <3>5. CallTyped'
        BY <3>2, <3>3 DEF TypeInv, SupervisorTyped, CallTyped, callVars
      <3>6. QED
        BY <1>1, <1>2, <1>3, <3>4, <3>5 DEF TypeInv
    <2>4. CASE m.kind # "event"
      <3>1. [status |-> m.status, session |-> m.session]
              \in [status : {"ok", "err"}, session : SessionId \cup {NoSession}]
        BY <2>1, <2>4 DEF AnswerMessage, EventMessage, ResponseMessage
      <3>2. /\ UNCHANGED eventQueue
            /\ \/ Conclude([status |-> m.status, session |-> m.session])
               \/ UNCHANGED <<owner, phase, nextId, callVars>>
        BY <2>2, <2>4 DEF Take
      <3>3. CASE Conclude([status |-> m.status, session |-> m.session])
        BY <1>1, <1>2, <1>3, <1>4, <3>1, <3>2, <3>3, ConcludeTyped DEF TypeInv
      <3>4. CASE UNCHANGED <<owner, phase, nextId, callVars>>
        BY <1>1, <1>2, <1>3, <1>4, <3>2, <3>4, PartsKept DEF TypeInv, supVars
      <3>5. QED
        BY <3>2, <3>3, <3>4
    <2>5. QED
      BY <2>3, <2>4
  <1>7. QED
    BY <1>5, <1>6

(* The answers end.                                                        *)
LEMMA ReceiveEofTyped ==
  ASSUME TypeInv, ReceiveEof
  PROVE  TypeInv'
  <1>1. SP!IInv' /\ UNCHANGED <<respWriting, respPending>>
    BY RespEof DEF TypeInv, ReceiveEof
  <1>2. MockTypeOK' /\ RP!IInv' /\ LogTyped'
    BY PartsKept DEF ReceiveEof
  <1>3. LoopTyped'
    BY <1>1, PartsKept DEF ReceiveEof, loopVars
  <1>4. SupervisorTyped' /\ CallTyped'
    BY FailureTyped, ConcludeTyped DEF ReceiveEof, reqVars
  <1>5. QED
    BY <1>1, <1>2, <1>3, <1>4 DEF TypeInv

(* The last request is one that the codec carries.                         *)
LEMMA StopBody == Body([id |-> 0, req |-> Shutdown]) \in BodiesOf(RequestMessage)
  BY DEF BodiesOf, RequestMessage

(* The supervisor is dropped.                                              *)
LEMMA BeginDropTyped ==
  ASSUME TypeInv, BeginDrop
  PROVE  TypeInv'
  <1>1. UNCHANGED reqVars \/ Requests!WriteFrame(Body([id |-> 0, req |-> Shutdown]))
    BY DEF BeginDrop
  <1>2. RP!IInv' /\ reqWriting' = reqWriting
    BY <1>1, StopBody, ReqWrite, PartsKept DEF TypeInv, reqVars
  <1>3. MockTypeOK' /\ SP!IInv' /\ LogTyped' /\ LoopTyped' /\ CallTyped'
    BY PartsKept DEF BeginDrop
  <1>4. SupervisorTyped'
    BY <1>2 DEF TypeInv, SupervisorTyped, BeginDrop
  <1>5. QED
    BY <1>2, <1>3, <1>4 DEF TypeInv

(* The last request cannot be written.                                     *)
LEMMA StopFailsTyped ==
  ASSUME TypeInv, StopFails
  PROVE  TypeInv'
  <1>1. MockTypeOK' /\ RP!IInv' /\ SP!IInv' /\ LogTyped' /\ LoopTyped' /\ CallTyped'
    BY PartsKept DEF StopFails
  <1>2. SupervisorTyped'
    BY DEF TypeInv, SupervisorTyped, StopFails, reqVars
  <1>3. QED
    BY <1>1, <1>2 DEF TypeInv

(* The bridge is gone, and its exit is waited for.                         *)
LEMMA GoneTyped ==
  ASSUME TypeInv, Reap \/ HostDies
  PROVE  TypeInv'
  <1>1. RP!IInv' /\ reqWriting' = FALSE
    BY ReqEnds DEF TypeInv, Reap, HostDies
  <1>2. MockTypeOK' /\ SP!IInv' /\ LoopTyped' /\ CallTyped'
    BY PartsKept DEF Reap, HostDies
  <1>3. LogTyped'
    <2>1. UNCHANGED errVars \/ (draining' = FALSE /\ UNCHANGED errPipe)
      BY DEF Reap, HostDies
    <2>2. QED
      BY <2>1, PartsKept DEF TypeInv, LogTyped
  <1>4. SupervisorTyped'
    BY <1>1 DEF TypeInv, SupervisorTyped, Reap, HostDies
  <1>5. QED
    BY <1>1, <1>2, <1>3, <1>4 DEF TypeInv

(* The draining thread's.                                                  *)
LEMMA DrainTyped ==
  ASSUME TypeInv, DrainStep
  PROVE  TypeInv'
  <1>1. /\ MockTypeOK' /\ RP!IInv' /\ SP!IInv'
        /\ LoopTyped' /\ SupervisorTyped' /\ CallTyped'
    BY PartsKept DEF DrainStep, DrainLine, DrainEof, supVars
  <1>2. LogTyped'
    <2>1. errPipe \in Seq({"text", "other"}) /\ Len(errPipe) <= ErrLines
          /\ draining \in BOOLEAN
      BY DEF TypeInv, LogTyped
    <2>2. errPipe # <<>> => /\ Tail(errPipe) \in Seq({"text", "other"})
                            /\ Len(Tail(errPipe)) <= ErrLines
      BY <2>1, ConnectionBounds
    <2>3. <<>> \in Seq({"text", "other"}) /\ Len(<<>>) <= ErrLines
      BY ConnectionBounds
    <2>4. QED
      BY <2>1, <2>2, <2>3 DEF DrainStep, DrainLine, DrainEof, LogTyped
  <1>3. QED
    BY <1>1, <1>2 DEF TypeInv

(* The bridge's.                                                           *)
LEMMA DispatchTyped ==
  ASSUME TypeInv, NEW m \in RequestMessage, Dispatch(m)
  PROVE  /\ MockTypeOK'
         /\ outbox' \in Seq(AnswerMessage) /\ loop' = "log" /\ logLeft' \in 0..MaxLogLines
         /\ progress' \in {progress, "answered"}
  <1>1. CASE m.req = Shutdown
    <2>1. UNCHANGED mockVars /\ outbox' = Reply(0, Ok(NoSession, <<>>))
          /\ progress' = progress
      BY <1>1 DEF Dispatch
    <2>2. Ok(NoSession, <<>>) \in Answer /\ 0 \in 0..MaxRequests
      BY ConnectionBounds DEF Ok, Answer
    <2>3. QED
      BY <2>1, <2>2, ReplyTyped, PartsKept DEF Dispatch
  <1>2. CASE m.req # Shutdown
    <2>1. m.req \in Asked /\ m.id \in 0..MaxRequests
      BY <1>2, ConnectionBounds DEF RequestMessage
    <2>2. MockTypeOK'
      BY <1>2, <2>1, HandleTyped DEF Dispatch, TypeInv
    <2>3. answer' \in Answer
      BY <2>2 DEF MockTypeOK
    <2>4. QED
      BY <1>2, <2>1, <2>2, <2>3, ReplyTyped DEF Dispatch
  <1>3. QED
    BY <1>1, <1>2

(* The bridge reads a byte of a request; one that is complete is executed. *)
LEMMA ReadRequestByteTyped ==
  ASSUME TypeInv, ReadRequestByte
  PROVE  TypeInv'
  <1>1. RP!IInv' /\ UNCHANGED reqWriting
    BY ReqRead DEF TypeInv, ReadRequestByte
  <1>2. SP!IInv' /\ LogTyped'
    BY PartsKept DEF ReadRequestByte
  <1>3. SupervisorTyped'
    BY <1>1, PartsKept DEF ReadRequestByte
  <1>4. UNCHANGED <<respWriting, respPending, result, request, gotBefore, eventQueue>>
        /\ loop = "read"
    BY DEF ReadRequestByte, respVars, supVars
  <1>5. CASE reqReceived' = reqReceived
    <2>1. UNCHANGED <<mockVars, loopVars, progress>>
      BY <1>5 DEF ReadRequestByte
    <2>2. MockTypeOK' /\ LoopTyped' /\ CallTyped'
      BY <1>4, <2>1, PartsKept DEF loopVars, callVars
    <2>3. QED
      BY <1>1, <1>2, <1>3, <2>2 DEF TypeInv
  <1>6. CASE reqReceived' # reqReceived
    <2> DEFINE m == Message(Last(reqReceived'))
    <2>1. m \in RequestMessage /\ Dispatch(m)
      BY <1>6, RequestRead DEF TypeInv, ReadRequestByte
    <2> HIDE DEF m
    <2>2. /\ MockTypeOK'
          /\ outbox' \in Seq(AnswerMessage) /\ loop' = "log" /\ logLeft' \in 0..MaxLogLines
          /\ progress' \in {progress, "answered"}
      BY <2>1, DispatchTyped
    <2>3. LoopTyped'
      BY <1>4, <2>2 DEF TypeInv, LoopTyped
    <2>4. CallTyped'
      BY <1>4, <2>2 DEF TypeInv, CallTyped
    <2>5. QED
      BY <1>1, <1>2, <1>3, <2>2, <2>3, <2>4 DEF TypeInv
  <1>7. QED
    BY <1>5, <1>6

(* The bridge writes a line of its log.                                    *)
LEMMA WriteLogLineTyped ==
  ASSUME TypeInv, WriteLogLine
  PROVE  TypeInv'
  <1>1. MockTypeOK' /\ RP!IInv' /\ SP!IInv' /\ SupervisorTyped' /\ CallTyped'
    BY PartsKept DEF WriteLogLine, supVars
  <1>2. LoopTyped'
    BY ConnectionBounds DEF TypeInv, LoopTyped, WriteLogLine, respVars
  <1>3. LogTyped'
    <2>1. errPipe \in Seq({"text", "other"}) /\ Len(errPipe) <= ErrLines
          /\ draining' = draining
      BY DEF TypeInv, LogTyped, WriteLogLine
    <2>2. CASE UNCHANGED errPipe
      BY <2>1, <2>2 DEF TypeInv, LogTyped
    <2>3. ASSUME NEW line \in {"text", "other"}, errPipe' = Append(errPipe, line),
                 Len(errPipe) < ErrLines
          PROVE  LogTyped'
      <3>1. errPipe' \in Seq({"text", "other"}) /\ Len(errPipe') <= ErrLines
        BY <2>1, <2>3, ConnectionBounds
      <3>2. QED
        BY <2>1, <3>1 DEF TypeInv, LogTyped
    <2>4. QED
      BY <2>2, <2>3 DEF WriteLogLine
  <1>4. QED
    BY <1>1, <1>2, <1>3 DEF TypeInv

(* Its log written, the bridge turns to the answer.                        *)
LEMMA TurnTyped ==
  ASSUME TypeInv, BeginReply \/ NextTurn
  PROVE  TypeInv'
  <1>1. MockTypeOK' /\ RP!IInv' /\ SP!IInv' /\ LogTyped' /\ SupervisorTyped' /\ CallTyped'
    BY PartsKept DEF BeginReply, NextTurn, supVars
  <1>2. LoopTyped'
    BY DEF TypeInv, LoopTyped, BeginReply, NextTurn, respVars
  <1>3. QED
    BY <1>1, <1>2 DEF TypeInv

(* A message is a body within the limit, so it is sent.                    *)
LEMMA Sendable ==
  ASSUME NEW M, NEW m \in M
  PROVE  Body(m) \in BodiesOf(M) /\ Len(Body(m)) <= MaxMessageBytes
  BY CodecAssumption DEF Body, BodiesOf

(* The bridge hands the next frame of its answer to the codec.             *)
LEMMA SendFrameTyped ==
  ASSUME TypeInv, SendFrame
  PROVE  TypeInv'
  <1>1. outbox \in Seq(AnswerMessage) /\ outbox # <<>> /\ loop = "write"
    BY DEF TypeInv, LoopTyped, SendFrame
  <1>2. Head(outbox) \in AnswerMessage /\ Tail(outbox) \in Seq(AnswerMessage)
    BY <1>1
  <1>3. Body(Head(outbox)) \in BodiesOf(AnswerMessage)
    BY <1>2, Sendable
  <1>4. SP!IInv' /\ UNCHANGED respWriting
    BY <1>3, RespWrite DEF TypeInv, SendFrame
  <1>5. MockTypeOK' /\ RP!IInv' /\ LogTyped' /\ SupervisorTyped' /\ CallTyped'
    BY PartsKept DEF SendFrame, supVars
  <1>6. LoopTyped'
    BY <1>1, <1>2, <1>4 DEF TypeInv, LoopTyped, SendFrame
  <1>7. QED
    BY <1>4, <1>5, <1>6 DEF TypeInv

(* A byte of it goes into the pipe.                                        *)
LEMMA WriteReplyByteTyped ==
  ASSUME TypeInv, WriteReplyByte
  PROVE  TypeInv'
  <1>1. SP!IInv' /\ UNCHANGED respWriting /\ loop = "write"
    BY RespByte DEF TypeInv, WriteReplyByte
  <1>2. MockTypeOK' /\ RP!IInv' /\ LogTyped' /\ SupervisorTyped' /\ CallTyped'
    BY PartsKept DEF WriteReplyByte, supVars
  <1>3. LoopTyped'
    BY <1>1 DEF TypeInv, LoopTyped, WriteReplyByte, loopVars
  <1>4. QED
    BY <1>1, <1>2, <1>3 DEF TypeInv

(* The bridge exits.                                                       *)
LEMMA ExitTyped ==
  ASSUME TypeInv, Exit, UNCHANGED <<mockVars, errVars, callVars, supVars>>,
         UNCHANGED reqVars \/ Requests!ReadEof
  PROVE  TypeInv'
  <1>1. RP!IInv' /\ UNCHANGED reqWriting
    BY ReqEof, PartsKept DEF TypeInv, reqVars
  <1>2. SP!IInv' /\ respWriting' = FALSE
    BY RespEnds DEF TypeInv, Exit
  <1>3. MockTypeOK' /\ LogTyped' /\ SupervisorTyped' /\ CallTyped'
    BY <1>1, PartsKept DEF supVars
  <1>4. LoopTyped'
    BY <1>2, ConnectionBounds DEF TypeInv, LoopTyped, Exit
  <1>5. QED
    BY <1>1, <1>2, <1>3, <1>4 DEF TypeInv

(* The ways the bridge ends, in one.                                       *)
LEMMA Exits ==
  ASSUME ExitAfterShutdown \/ ExitUnread \/ ExitAtEof \/ Crash \/ Kill
  PROVE  /\ Exit
         /\ UNCHANGED <<mockVars, errVars, callVars, supVars>>
         /\ UNCHANGED reqVars \/ Requests!ReadEof
  BY DEF ExitAfterShutdown, ExitUnread, ExitAtEof, Crash, Kill

(* Every step keeps the types.                                             *)
LEMMA NextTyped == TypeInv /\ [Next]_vars => TypeInv'
  <1> SUFFICES ASSUME TypeInv, [Next]_vars PROVE TypeInv'
    OBVIOUS
  <1>1. ASSUME NEW req \in Asked, Ask(req) PROVE TypeInv'
    BY <1>1, AskTyped
  <1>2. CASE BeginDrop
    BY <1>2, BeginDropTyped
  <1>3. CASE SupervisorStep
    BY <1>3, SendByteTyped, SendFailsTyped, ReceiveByteTyped, ReceiveEofTyped,
       StopFailsTyped, GoneTyped DEF SupervisorStep
  <1>4. CASE DrainStep
    BY <1>4, DrainTyped
  <1>5. CASE BridgeStep
    BY <1>5, ReadRequestByteTyped, WriteLogLineTyped, TurnTyped, SendFrameTyped,
       WriteReplyByteTyped, ExitTyped, Exits DEF BridgeStep
  <1>6. CASE Kill \/ Crash
    BY <1>6, ExitTyped, Exits
  <1>7. CASE HostDies
    BY <1>7, GoneTyped
  <1>8. CASE Rest \/ UNCHANGED vars
    <2>1. UNCHANGED vars
      BY <1>8 DEF Rest
    <2>2. QED
      BY <2>1, PartsKept DEF TypeInv, vars, supVars
  <1>9. QED
    BY <1>1, <1>2, <1>3, <1>4, <1>5, <1>6, <1>7, <1>8 DEF Next

(* So they always hold.                                                    *)
LEMMA Typed == Spec => []TypeInv
  BY TypeInvInit, NextTyped, PTL DEF Spec

(* Whatever the sizes of the pipes and of the messages, the two processes  *)
(* and the pipes between them keep to their types; in particular the bytes *)
(* that arrive are always decoded to messages that were meant              *)
(* (ipc/src/lib.rs, shim/src/supervisor.rs and bridge/src/main.rs).        *)
THEOREM ConnectionTyped == Spec => []TypeOK
  BY Typed, TypeInvTypes, PTL

-----------------------------------------------------------------------------
(* The call in progress.                                                   *)

(* Answers on their way to the shim: those in the pipe and those the       *)
(* bridge has still to write.                                              *)
Unread == Len(respSent) - Len(respReceived)
Coming == Unread + Len(outbox)
ComingAt(i) ==
  IF i <= Unread THEN Message(respSent[Len(respReceived) + i])
  ELSE outbox[i - Unread]

(* Annotations of this call that the shim has got.                         *)
Got == Len(eventQueue) - gotBefore

(* How far the call is, where the supervisor is.                           *)
PhaseInv ==
  /\ phase \in {"idle", "stop", "wait"} => progress = "idle"
  /\ phase \in {"send", "refused"} => progress = "asked"
  /\ phase = "await" => progress # "idle"
  /\ progress = "asked" => gotBefore = Len(eventQueue)

(* The request of the call in progress, and the supervisor's last one.     *)
Current == [id |-> nextId - 1, req |-> request]
Stop == [id |-> 0, req |-> Shutdown]

(* The one request the bridge may still have to read.                      *)
AwaitsReading ==
  \/ /\ progress = "asked" /\ phase \in {"send", "await", "gone"}
     /\ reqSent[Len(reqSent)] = Body(Current)
  \/ /\ progress = "idle" /\ phase \in {"stop", "wait", "gone"}
     /\ reqSent[Len(reqSent)] = Body(Stop)

(* The bridge has read all requests but at most one.                       *)
RequestInv ==
  loop # "exited" =>
    /\ Len(reqSent) \in {Len(reqReceived), Len(reqReceived) + 1}
    /\ Len(reqSent) = Len(reqReceived) + 1 => AwaitsReading
    /\ phase = "send" => reqPending # <<>>

(* Before a request is executed there is nothing to read.                  *)
NothingComes ==
  /\ progress = "asked" /\ (loop # "exited" \/ phase = "await") => Coming = 0
  /\ phase = "idle" /\ loop # "exited" => Coming = 0

(* What the shim has got is the beginning of the answer, and what comes is *)
(* its rest, all of it unless the bridge is gone.                          *)
AnswerComes ==
  progress = "answered" =>
    /\ Got <= Len(answer.events)
    /\ \A i \in 1..Got : eventQueue[gotBefore + i] = answer.events[i]
    /\ Coming <= Len(answer.events) + 1 - Got
    /\ loop # "exited" => Coming = Len(answer.events) + 1 - Got
    /\ \A i \in 1..Coming : ComingAt(i) = Reply(nextId - 1, answer)[Got + i]

(* What a call knows of the requests and the answers on their way.         *)
CallInv == PhaseInv /\ RequestInv /\ NothingComes /\ AnswerComes

(* The lengths these are about are numbers, and what is read was sent.     *)
LEMMA Counts ==
  ASSUME TypeInv
  PROVE  /\ Unread \in Nat /\ Len(outbox) \in Nat /\ Coming \in Nat
         /\ Got \in Nat /\ gotBefore \in Nat /\ Len(eventQueue) = gotBefore + Got
         /\ Len(respSent) \in Nat /\ Len(respReceived) \in Nat
         /\ Len(reqSent) \in Nat /\ Len(reqReceived) \in Nat
  <1>1. respSent \in Seq(BodiesOf(AnswerMessage))
        /\ respReceived \in Seq(BodiesOf(AnswerMessage))
        /\ Len(respReceived) <= Len(respSent)
    BY RespState DEF TypeInv
  <1>2. reqSent \in Seq(BodiesOf(RequestMessage))
        /\ reqReceived \in Seq(BodiesOf(RequestMessage))
    BY ReqState DEF TypeInv
  <1>3. outbox \in Seq(AnswerMessage) /\ eventQueue \in Seq(Event)
        /\ gotBefore \in 0..Len(eventQueue)
    BY DEF TypeInv, LoopTyped, SupervisorTyped, CallTyped
  <1>4. /\ Len(respSent) \in Nat /\ Len(respReceived) \in Nat
        /\ Len(reqSent) \in Nat /\ Len(reqReceived) \in Nat
        /\ Len(outbox) \in Nat /\ Len(eventQueue) \in Nat
    BY <1>1, <1>2, <1>3
  <1>5. QED
    BY <1>1, <1>3, <1>4 DEF Unread, Coming, Got

(* The parts of an answer.                                                 *)
LEMMA AnswerIs ==
  ASSUME TypeInv
  PROVE  answer \in Answer /\ answer.events \in Seq(Event) /\ Len(answer.events) \in Nat
  <1>1. answer \in Answer
    BY DEF TypeInv, MockTypeOK
  <1>2. answer.events \in Seq(Event)
    BY <1>1 DEF Answer
  <1>3. QED
    BY <1>1, <1>2

(* What comes, as the bridge writes a frame.                               *)
LEMMA ComingSent ==
  ASSUME TypeInv, SendFrame
  PROVE  Coming' = Coming /\ \A i \in 1..Coming : ComingAt(i)' = ComingAt(i)
  <1> DEFINE b == Body(Head(outbox))
  <1>1. outbox \in Seq(AnswerMessage) /\ outbox # <<>>
    BY DEF TypeInv, LoopTyped, SendFrame
  <1>2. Head(outbox) \in AnswerMessage /\ Message(b) = Head(outbox)
    BY <1>1 DEF Message, Body
  <1>3. b \in BodiesOf(AnswerMessage) /\ Len(b) <= MaxMessageBytes
    BY <1>2, Sendable
  <1>4. respSent' = Append(respSent, b) /\ respReceived' = respReceived
    BY <1>3, RespWrite DEF TypeInv, SendFrame
  <1>5. outbox' = Tail(outbox)
    BY DEF SendFrame
  <1> HIDE DEF b
  <1>6. respSent \in Seq(BodiesOf(AnswerMessage))
    BY RespState DEF TypeInv
  <1>7. /\ Len(respSent') = Len(respSent) + 1
        /\ respSent'[Len(respSent) + 1] = b
        /\ \A i \in 1..Len(respSent) : respSent'[i] = respSent[i]
    BY <1>3, <1>4, <1>6
  <1>8. /\ Len(outbox') = Len(outbox) - 1
        /\ \A i \in 1..Len(outbox') : outbox'[i] = outbox[i + 1]
        /\ Head(outbox) = outbox[1]
    BY <1>1, <1>5
  <1>9. Unread' = Unread + 1 /\ Coming' = Coming
    BY <1>4, <1>7, <1>8, Counts DEF Unread, Coming
  <1>10. ASSUME NEW i \in 1..Coming PROVE ComingAt(i)' = ComingAt(i)
    <2>1. i \in Nat /\ 1 <= i /\ i <= Coming
      BY Counts
    <2>2. CASE i <= Unread
      <3>1. i <= Unread' /\ Len(respReceived) + i \in 1..Len(respSent)
        BY <1>9, <2>1, <2>2, Counts DEF Unread
      <3>2. QED
        BY <1>4, <1>7, <2>2, <3>1 DEF ComingAt
    <2>3. CASE i = Unread + 1
      <3>1. i <= Unread' /\ ~(i <= Unread) /\ Len(respReceived) + i = Len(respSent) + 1
            /\ i - Unread = 1
        BY <1>9, <2>3, Counts DEF Unread
      <3>2. ComingAt(i)' = Message(respSent'[Len(respSent) + 1])
        BY <1>4, <3>1 DEF ComingAt
      <3>3. QED
        BY <1>2, <1>7, <1>8, <3>1, <3>2 DEF ComingAt
    <2>4. CASE i > Unread + 1
      <3>1. ~(i <= Unread') /\ ~(i <= Unread) /\ i - Unread' \in 1..Len(outbox')
            /\ i - Unread = (i - Unread') + 1
        <4>1. Unread \in Nat /\ Len(outbox) \in Nat /\ i <= Unread + Len(outbox)
          BY <2>1, Counts DEF Coming
        <4>2. QED
          BY ONLY <1>8, <1>9, <2>1, <2>4, <4>1
      <3>2. QED
        BY <1>8, <3>1 DEF ComingAt
    <2>5. QED
      BY <2>1, <2>2, <2>3, <2>4, Counts
  <1>11. QED
    BY <1>9, <1>10

(* As the shim reads one: it is the first that comes.                      *)
LEMMA ComingRead ==
  ASSUME TypeInv, Responses!ReadByte, UNCHANGED outbox, respReceived' # respReceived
  PROVE  /\ Coming # 0 /\ Coming' = Coming - 1
         /\ Message(Last(respReceived')) = ComingAt(1)
         /\ \A i \in 1..Coming' : ComingAt(i)' = ComingAt(i + 1)
  <1>1. /\ Len(respReceived) < Len(respSent)
        /\ Len(respReceived') = Len(respReceived) + 1
        /\ Last(respReceived') = respSent[Len(respReceived) + 1]
    BY AnswerRead DEF TypeInv
  <1>2. respSent' = respSent
    BY RespRead DEF TypeInv
  <1>3. Unread # 0 /\ Unread' = Unread - 1 /\ Coming # 0 /\ Coming' = Coming - 1
    BY <1>1, <1>2, Counts DEF Unread, Coming
  <1>4. Message(Last(respReceived')) = ComingAt(1)
    <2>1. 1 <= Unread
      BY <1>3, Counts
    <2>2. QED
      BY <1>1, <2>1 DEF ComingAt
  <1>5. ASSUME NEW i \in 1..Coming' PROVE ComingAt(i)' = ComingAt(i + 1)
    <2>1. i \in Nat /\ Unread \in Nat /\ Unread' = Unread - 1
          /\ Len(respReceived) \in Nat /\ Len(respReceived') = Len(respReceived) + 1
      BY <1>1, <1>3, Counts
    <2>2. /\ i <= Unread' <=> i + 1 <= Unread
          /\ Len(respReceived') + i = Len(respReceived) + (i + 1)
          /\ i - Unread' = (i + 1) - Unread
      BY ONLY <2>1
    <2>3. QED
      BY <1>2, <2>2 DEF ComingAt
  <1>6. QED
    BY <1>3, <1>4, <1>5

(* As the bridge ends: what it had not written is lost.                    *)
LEMMA ComingLost ==
  ASSUME TypeInv, Exit
  PROVE  /\ Coming' \in 0..Coming
         /\ \A i \in 1..Coming' : ComingAt(i)' = ComingAt(i)
  <1>1. UNCHANGED <<respSent, respReceived>> /\ outbox' = <<>>
    BY RespEnds DEF TypeInv, Exit
  <1>2. Unread' = Unread /\ Coming' = Unread
    BY <1>1, Counts DEF Unread, Coming
  <1>3. Coming' \in 0..Coming
    BY <1>2, Counts DEF Coming
  <1>4. \A i \in 1..Coming' : i <= Unread
    BY <1>2, Counts
  <1>5. QED
    BY <1>1, <1>2, <1>3, <1>4 DEF ComingAt

(* What comes depends on the answers alone.                                *)
LEMMA ComingKept ==
  UNCHANGED <<respSent, respReceived, outbox>> =>
    Coming' = Coming /\ \A i \in 1..Coming : ComingAt(i)' = ComingAt(i)
  BY DEF Coming, Unread, ComingAt

-----------------------------------------------------------------------------
(* Steps that leave the call where it is, or only advance the bytes.       *)
LEMMA Quiet ==
  ASSUME TypeInv, CallInv,
         UNCHANGED <<answer, eventQueue, callVars, phase, nextId,
                     reqSent, reqReceived, reqPending>>,
         loop' = "exited" <=> loop = "exited",
         Coming' = Coming, \A i \in 1..Coming : ComingAt(i)' = ComingAt(i)
  PROVE  CallInv'
  <1>1. PhaseInv'
    BY DEF CallInv, PhaseInv, callVars
  <1>2. RequestInv'
    BY DEF CallInv, RequestInv, AwaitsReading, Current, callVars
  <1>3. NothingComes'
    BY DEF CallInv, NothingComes, callVars
  <1>4. AnswerComes'
    <2>1. Got' = Got
      BY DEF Got, callVars
    <2>2. UNCHANGED <<answer, eventQueue, progress, gotBefore, nextId>>
      BY DEF callVars
    <2>3. Reply(nextId - 1, answer)' = Reply(nextId - 1, answer)
      BY <2>2 DEF Reply
    <2> HIDE DEF Reply
    <2>4. QED
      BY <2>1, <2>2, <2>3 DEF CallInv, AnswerComes
  <1>5. QED
    BY <1>1, <1>2, <1>3, <1>4 DEF CallInv

(* Steps of the bridge's end.                                              *)
LEMMA ExitCall ==
  ASSUME TypeInv, CallInv, Exit, UNCHANGED <<mockVars, callVars, supVars>>
  PROVE  CallInv'
  <1>1. loop' = "exited"
    BY DEF Exit
  <1>2. /\ Coming' <= Coming /\ loop # "exited"
        /\ \A i \in 1..Coming' : ComingAt(i)' = ComingAt(i)
    BY ComingLost, Counts DEF Exit
  <1>3. Coming \in Nat /\ Coming' \in Nat
    BY ComingLost, Counts
  <1>4. PhaseInv' /\ RequestInv'
    BY <1>1 DEF CallInv, PhaseInv, RequestInv, callVars, supVars
  <1>5. NothingComes'
    BY <1>1, <1>2, <1>3 DEF CallInv, NothingComes, callVars, supVars
  <1>6. AnswerComes'
    <2>1. Got' = Got /\ Got \in Nat /\ Len(answer.events) \in Nat
      BY Counts, AnswerIs DEF Got, callVars, supVars
    <2>2. UNCHANGED <<answer, eventQueue, progress, gotBefore, nextId>>
      BY DEF callVars, mockVars, supVars
    <2>3. Reply(nextId - 1, answer)' = Reply(nextId - 1, answer)
      BY <2>2 DEF Reply
    <2>4. Coming' <= Coming /\ \A i \in 1..Coming' : i \in 1..Coming
      BY <1>2, <1>3
    <2>5. ASSUME progress = "answered"
          PROVE  /\ Coming' <= Len(answer.events) + 1 - Got
                 /\ \A i \in 1..Coming' : ComingAt(i)' = Reply(nextId - 1, answer)[Got + i]
      BY <1>2, <1>3, <2>1, <2>4, <2>5 DEF CallInv, AnswerComes
    <2>6. QED
      BY <1>1, <2>1, <2>2, <2>3, <2>5 DEF CallInv, AnswerComes
  <1>7. QED
    BY <1>4, <1>5, <1>6 DEF CallInv

(* At first there is no call.                                              *)
LEMMA CallInvInit == Init => CallInv
  <1> SUFFICES ASSUME Init PROVE CallInv
    OBVIOUS
  <1>1. PhaseInv
    BY DEF Init, PhaseInv
  <1>2. RequestInv
    BY DEF Init, Requests!Init, RequestInv
  <1>3. Coming = 0
    BY DEF Init, Responses!Init, Coming, Unread
  <1>4. QED
    BY <1>1, <1>2, <1>3 DEF Init, CallInv, NothingComes, AnswerComes

(* What a reply depends on.                                                *)
LEMMA ReplyKept ==
  UNCHANGED <<answer, nextId>> => Reply(nextId - 1, answer)' = Reply(nextId - 1, answer)
  BY DEF Reply

(* The answers, when only the supervisor's place changes.                  *)
LEMMA AnswersKept ==
  ASSUME CallInv, UNCHANGED <<answer, eventQueue, gotBefore, nextId, respVars, loopVars>>,
         progress' = progress
  PROVE  AnswerComes'
  <1>1. Got' = Got
    BY DEF Got
  <1>2. Coming' = Coming /\ \A i \in 1..Coming : ComingAt(i)' = ComingAt(i)
    BY ComingKept DEF respVars, loopVars
  <1>3. UNCHANGED <<answer, eventQueue, progress, gotBefore, nextId>> /\ loop' = loop
    BY DEF loopVars
  <1>4. Reply(nextId - 1, answer)' = Reply(nextId - 1, answer)
    BY <1>3, ReplyKept
  <1> HIDE DEF Reply
  <1>5. QED
    BY <1>1, <1>2, <1>3, <1>4 DEF CallInv, AnswerComes

(* What comes is the same when neither the pipe nor the loop moves.        *)
LEMMA ComingSame ==
  UNCHANGED <<respVars, loopVars>> => Coming' = Coming /\ loop' = loop
  BY DEF respVars, loopVars, Coming, Unread

(* Nothing is left to read when the supervisor is idle.                    *)
LEMMA NothingAsked ==
  ASSUME TypeInv, CallInv, loop # "exited", phase \in {"idle", "refused"}
  PROVE  Len(reqSent) = Len(reqReceived)
  BY DEF CallInv, PhaseInv, RequestInv, AwaitsReading

(* A large body is one the codec refuses.                                  *)
LEMMA LargeBodyIsLarge ==
  ASSUME NEW M, NEW m \in M
  PROVE  LargeBody(m) \in BodiesOf(M) /\ ~(Len(LargeBody(m)) <= MaxMessageBytes)
  <1> DEFINE more == [i \in 1..MaxMessageBytes |-> More]
  <1>1. MaxMessageBytes \in Nat
    <2>1. MaxMessageBytes \in 1..(RP!Place[HeaderBytes] - 1)
      BY ReqAssumed
    <2>2. QED
      BY <2>1
  <1>2. more \in Seq({More}) /\ Len(more) = MaxMessageBytes
    BY <1>1
  <1> HIDE DEF more
  <1>3. Len(<<m>> \o more) = MaxMessageBytes + 1
    BY <1>2
  <1>4. QED
    BY <1>1, <1>3 DEF LargeBody, more, BodiesOf

(* A call begins; its request is sent, or refused as too large.            *)
LEMMA AskCall ==
  ASSUME TypeInv, CallInv, NEW req \in Asked, Ask(req)
  PROVE  CallInv'
  <1> DEFINE m == [id |-> nextId, req |-> req]
  <1>1. m \in RequestMessage /\ nextId \in Nat
    BY ConnectionBounds DEF TypeInv, SupervisorTyped, Ask, RequestMessage
  <1>2. /\ phase = "idle" /\ phase' \in {"send", "refused"}
        /\ nextId' = nextId + 1 /\ request' = req /\ progress' = "asked"
        /\ gotBefore' = Len(eventQueue) /\ eventQueue' = eventQueue
        /\ UNCHANGED <<respVars, loopVars>>
    BY DEF Ask
  <1>3. Coming' = Coming /\ loop' = loop
    BY <1>2, ComingSame
  <1>4. PhaseInv'
    BY <1>2 DEF PhaseInv
  <1>5. NothingComes' /\ AnswerComes'
    BY <1>2, <1>3 DEF CallInv, NothingComes, AnswerComes
  <1>6. ASSUME loop' # "exited" PROVE RequestInv'
    <2>1. Len(reqSent) = Len(reqReceived)
      BY <1>2, <1>3, <1>6, NothingAsked
    <2>2. Current' = m
      <3>1. nextId' - 1 = nextId
        BY <1>1, <1>2
      <3>2. QED
        BY <1>2, <3>1 DEF Current
    <2>3. CASE phase' = "send" /\ Requests!WriteFrame(Body(m))
      <3>1. Body(m) \in BodiesOf(RequestMessage) /\ Len(Body(m)) <= MaxMessageBytes
        BY <1>1, Sendable
      <3>2. reqSent' = Append(reqSent, Body(m)) /\ reqPending' # <<>>
            /\ reqReceived' = reqReceived
        BY <2>3, <3>1, ReqWrite DEF TypeInv
      <3>3. reqSent \in Seq(BodiesOf(RequestMessage))
        BY ReqState DEF TypeInv
      <3> HIDE DEF m
      <3>4. Len(reqSent') = Len(reqSent) + 1 /\ reqSent'[Len(reqSent')] = Body(m)
        BY <3>1, <3>2, <3>3
      <3>5. QED
        BY <1>2, <2>1, <2>2, <2>3, <3>2, <3>4 DEF RequestInv, AwaitsReading
    <2>4. CASE phase' = "refused" /\ Requests!WriteFrame(LargeBody(m))
      <3>1. reqSent' = reqSent /\ reqReceived' = reqReceived
        BY <1>1, <2>4, LargeBodyIsLarge, ReqWrite DEF TypeInv
      <3>2. Len(reqSent) # Len(reqSent) + 1
        BY Counts
      <3>3. QED
        BY <2>1, <2>4, <3>1, <3>2 DEF RequestInv
    <2>5. QED
      BY <1>3, <1>6, <2>3, <2>4 DEF Ask
  <1>7. RequestInv'
    BY <1>6 DEF RequestInv
  <1>8. QED
    BY <1>4, <1>5, <1>7 DEF CallInv

(* A byte of it goes into the pipe.                                        *)
LEMMA SendByteCall ==
  ASSUME TypeInv, CallInv, SendByte
  PROVE  CallInv'
  <1>1. UNCHANGED <<reqSent, reqReceived>>
    BY ReqByte DEF TypeInv, SendByte
  <1>2. /\ phase \in {"send", "stop"} /\ loop # "exited"
        /\ phase' = IF reqPending' # <<>> THEN phase
                    ELSE IF phase = "send" THEN "await" ELSE "wait"
        /\ UNCHANGED <<answer, eventQueue, result, request, progress, gotBefore, nextId,
                       respVars, loopVars>>
    BY DEF SendByte, mockVars, callVars
  <1>3. Coming' = Coming /\ loop' = loop
    BY <1>2, ComingSame
  <1>4. PhaseInv' /\ NothingComes'
    BY <1>2, <1>3 DEF CallInv, PhaseInv, NothingComes
  <1>5. AnswerComes'
    BY <1>2, AnswersKept
  <1>6. RequestInv'
    BY <1>1, <1>2, <1>3 DEF CallInv, RequestInv, AwaitsReading, Current
  <1>7. QED
    BY <1>4, <1>5, <1>6 DEF CallInv

(* A call that ends with nothing on its way, or without a bridge.          *)
LEMMA ConcludeCall ==
  ASSUME TypeInv, CallInv, NEW r, Conclude(r), UNCHANGED <<loop, reqSent, reqReceived>>,
         loop # "exited" => Coming' = 0 /\ Len(reqSent) = Len(reqReceived)
  PROVE  CallInv'
  <1>1. Len(reqSent) # Len(reqSent) + 1
    BY Counts
  <1>2. QED
    BY <1>1
    DEF CallInv, PhaseInv, RequestInv, NothingComes, AnswerComes, Conclude

(* The request cannot be sent.                                             *)
LEMMA SendFailsCall ==
  ASSUME TypeInv, CallInv, SendFails
  PROVE  CallInv'
  <1>1. Conclude(Failure) /\ UNCHANGED <<reqVars, respVars, loopVars>>
    BY DEF SendFails
  <1>2. loop # "exited" => phase = "refused" /\ progress = "asked"
    BY DEF CallInv, PhaseInv, SendFails
  <1>3. loop # "exited" => Coming = 0 /\ Len(reqSent) = Len(reqReceived)
    BY <1>2, NothingAsked DEF CallInv, NothingComes
  <1>4. QED
    BY <1>1, <1>3, ComingSame, ConcludeCall DEF reqVars, loopVars

(* The answers end before the response.                                    *)
LEMMA ReceiveEofCall ==
  ASSUME TypeInv, CallInv, ReceiveEof
  PROVE  CallInv' /\ loop = "exited"
  <1>1. loop = "exited"
    BY RespEof DEF TypeInv, LoopTyped, ReceiveEof
  <1>2. Conclude(Failure) /\ UNCHANGED <<reqVars, loopVars>>
    BY DEF ReceiveEof
  <1>3. QED
    BY <1>1, <1>2, ConcludeCall DEF reqVars, loopVars

(* What a byte completes is the next message of the answer.                *)
LEMMA Received ==
  ASSUME TypeInv, CallInv, ReceiveByte, respReceived' # respReceived
  PROVE  LET m == Message(Last(respReceived'))
         IN  /\ progress = "answered" /\ Take(m)
             /\ Coming # 0 /\ Coming' = Coming - 1
             /\ \A i \in 1..Coming' : ComingAt(i)' = ComingAt(i + 1)
             /\ m = Reply(nextId - 1, answer)[Got + 1]
             /\ \/ /\ Got < Len(answer.events)
                   /\ m = [kind |-> "event", event |-> answer.events[Got + 1]]
                \/ /\ Got = Len(answer.events)
                   /\ m = [kind |-> "response", id |-> nextId - 1,
                           status |-> answer.status, session |-> answer.session]
  <1> DEFINE m == Message(Last(respReceived'))
             n == Len(answer.events)
             w == Reply(nextId - 1, answer)
  <1>1. Responses!ReadByte /\ UNCHANGED <<mockVars, reqVars, errVars, loopVars>>
        /\ Take(m) /\ phase = "await"
    BY DEF ReceiveByte
  <1>2. /\ Coming # 0 /\ Coming' = Coming - 1
        /\ m = ComingAt(1)
        /\ \A i \in 1..Coming' : ComingAt(i)' = ComingAt(i + 1)
    BY <1>1, ComingRead DEF loopVars
  <1>3. progress = "answered"
    BY <1>1, <1>2 DEF TypeInv, CallTyped, CallInv, PhaseInv, NothingComes
  <1>4. /\ Got \in Nat /\ n \in Nat /\ Coming \in Nat
        /\ Got <= n /\ Coming <= n + 1 - Got
    BY <1>3, Counts, AnswerIs DEF CallInv, AnswerComes
  <1>5. m = w[Got + 1]
    <2>1. 1 \in 1..Coming
      BY <1>2, <1>4
    <2>2. QED
      BY <1>2, <1>3, <2>1 DEF CallInv, AnswerComes
  <1>6. /\ \A i \in 1..n : w[i] = [kind |-> "event", event |-> answer.events[i]]
        /\ w[n + 1] = [kind |-> "response", id |-> nextId - 1, status |-> answer.status,
                       session |-> answer.session]
    <2>1. nextId - 1 \in 0..MaxRequests
      BY ConnectionBounds DEF TypeInv, SupervisorTyped
    <2>2. QED
      BY <2>1, AnswerIs, ReplyTyped
  <1>7. \/ Got < n /\ Got + 1 \in 1..n
        \/ Got = n
    BY <1>4
  <1> HIDE DEF m, w, n
  <1>8. \/ Got < n /\ m = [kind |-> "event", event |-> answer.events[Got + 1]]
        \/ Got = n /\ m = [kind |-> "response", id |-> nextId - 1, status |-> answer.status,
                           session |-> answer.session]
    BY <1>5, <1>6, <1>7
  <1>9. QED
    BY <1>1, <1>2, <1>3, <1>5, <1>8 DEF m, w, n

(* A byte of an answer is read: an event joins the queue, and the response *)
(* ends the call.                                                          *)
LEMMA ReceiveByteCall ==
  ASSUME TypeInv, CallInv, ReceiveByte
  PROVE  CallInv'
  <1> DEFINE m == Message(Last(respReceived'))
             n == Len(answer.events)
             w == Reply(nextId - 1, answer)
  <1>1. /\ phase = "await" /\ Responses!ReadByte
        /\ UNCHANGED <<answer, loop, outbox, reqSent, reqReceived, reqPending>>
        /\ respReceived' = respReceived => UNCHANGED <<supVars, callVars>>
    BY DEF ReceiveByte, mockVars, loopVars, reqVars
  <1>2. CASE respReceived' = respReceived
    <2>1. respSent' = respSent
      BY <1>1, RespRead DEF TypeInv
    <2>2. Coming' = Coming /\ \A i \in 1..Coming : ComingAt(i)' = ComingAt(i)
      BY <1>1, <1>2, <2>1, ComingKept
    <2>3. QED
      BY <1>1, <1>2, <2>2, Quiet DEF supVars
  <1>3. CASE respReceived' # respReceived
    <2>1. /\ progress = "answered" /\ Take(m)
          /\ Coming # 0 /\ Coming' = Coming - 1
          /\ \A i \in 1..Coming' : ComingAt(i)' = ComingAt(i + 1)
          /\ \/ /\ Got < n
                /\ m = [kind |-> "event", event |-> answer.events[Got + 1]]
             \/ /\ Got = n
                /\ m = [kind |-> "response", id |-> nextId - 1,
                        status |-> answer.status, session |-> answer.session]
      BY <1>3, Received
    <2>2. /\ Got \in Nat /\ n \in Nat /\ Coming \in Nat /\ gotBefore \in Nat
          /\ Len(eventQueue) = gotBefore + Got /\ nextId \in Nat
          /\ eventQueue \in Seq(Event)
      BY Counts, AnswerIs DEF TypeInv, SupervisorTyped
    <2>3. /\ \A i \in 1..Got : eventQueue[gotBefore + i] = answer.events[i]
          /\ Coming <= n + 1 - Got
          /\ loop # "exited" => Coming = n + 1 - Got
          /\ \A i \in 1..Coming : ComingAt(i) = w[Got + i]
      BY <2>1 DEF CallInv, AnswerComes
    <2> HIDE DEF m, n, w
    <2>4. CASE Got < n /\ m = [kind |-> "event", event |-> answer.events[Got + 1]]
      <3>1. /\ eventQueue' = Append(eventQueue, answer.events[Got + 1])
            /\ UNCHANGED <<owner, phase, nextId, callVars>>
        BY <2>1, <2>4 DEF Take
      <3>2. /\ Len(eventQueue') = Len(eventQueue) + 1
            /\ eventQueue'[Len(eventQueue) + 1] = answer.events[Got + 1]
            /\ \A i \in 1..Len(eventQueue) : eventQueue'[i] = eventQueue[i]
        BY <2>2, <3>1
      <3>3. Got' = Got + 1
        BY <2>2, <3>1, <3>2 DEF Got, callVars
      <3>4. UNCHANGED <<answer, loop, progress, gotBefore, nextId, phase, request>>
        BY <1>1, <3>1 DEF callVars
      <3>5. w' = w
        BY <3>4, ReplyKept DEF w
      <3>6. \A i \in 1..Got' : eventQueue'[gotBefore' + i] = answer'.events[i]
        <4> TAKE i \in 1..Got'
        <4>1. CASE i = Got + 1
          BY <2>2, <3>2, <3>4, <4>1
        <4>2. CASE i \in 1..Got
          <5>1. gotBefore + i \in 1..Len(eventQueue)
            BY ONLY <2>2, <4>2
          <5>2. eventQueue'[gotBefore + i] = eventQueue[gotBefore + i]
            BY <3>2, <5>1
          <5>3. eventQueue[gotBefore + i] = answer.events[i]
            BY <2>3, <4>2
          <5>4. QED
            BY <3>4, <5>2, <5>3
        <4>3. QED
          BY <2>2, <3>3, <4>1, <4>2
      <3>7. \A i \in 1..Coming' : ComingAt(i)' = w[Got' + i]
        <4> TAKE i \in 1..Coming'
        <4>1. /\ Coming \in Nat /\ Coming' = Coming - 1 /\ i \in 1..Coming'
              /\ Got \in Nat /\ Got' = Got + 1
          BY <2>1, <2>2, <3>3
        <4>2. i + 1 \in 1..Coming /\ Got + (i + 1) = Got' + i
          BY ONLY <4>1
        <4>3. QED
          BY <2>1, <2>3, <4>2
      <3>8. AnswerComes'
        <4>1. /\ Got' <= n /\ Coming' <= n + 1 - Got'
              /\ loop # "exited" => Coming' = n + 1 - Got'
          BY <2>1, <2>2, <2>3, <2>4, <3>3
        <4>2. n' = n
          BY <3>4 DEF n
        <4>3. QED
          BY <3>4, <3>5, <3>6, <3>7, <4>1, <4>2 DEF AnswerComes, n, w
      <3>9. PhaseInv' /\ RequestInv' /\ NothingComes'
        BY <1>1, <2>1, <3>1, <3>4
        DEF CallInv, PhaseInv, RequestInv, AwaitsReading, Current, NothingComes
      <3>10. QED
        BY <3>8, <3>9 DEF CallInv
    <2>5. CASE /\ Got = n
               /\ m = [kind |-> "response", id |-> nextId - 1,
                       status |-> answer.status, session |-> answer.session]
      <3>1. Conclude([status |-> answer.status, session |-> answer.session])
        BY <2>1, <2>5 DEF Take
      <3>2. loop # "exited" => Coming' = 0
        BY <2>1, <2>2, <2>3, <2>5
      <3>3. loop # "exited" => Len(reqSent) = Len(reqReceived)
        BY <2>1 DEF CallInv, RequestInv, AwaitsReading
      <3>4. QED
        BY <1>1, <3>1, <3>2, <3>3, ConcludeCall
    <2>6. QED
      BY <2>1, <2>4, <2>5
  <1>4. QED
    BY <1>2, <1>3

(* The supervisor asks the bridge to leave.                                *)
LEMMA BeginDropCall ==
  ASSUME TypeInv, CallInv, BeginDrop
  PROVE  CallInv'
  <1>1. /\ phase = "idle" /\ phase' \in {"stop", "wait"}
        /\ UNCHANGED <<answer, eventQueue, result, request, progress, gotBefore, nextId,
                       respVars, loopVars>>
    BY DEF BeginDrop, mockVars, callVars
  <1>2. Coming' = Coming /\ loop' = loop
    BY <1>1, ComingSame
  <1>3. progress = "idle"
    BY <1>1 DEF CallInv, PhaseInv
  <1>4. PhaseInv' /\ NothingComes'
    BY <1>1, <1>3 DEF PhaseInv, NothingComes
  <1>5. AnswerComes'
    BY <1>1, AnswersKept
  <1>6. ASSUME loop # "exited" PROVE RequestInv'
    <2>1. Len(reqSent) = Len(reqReceived)
      BY <1>1, <1>6, NothingAsked
    <2>2. phase' = "stop" /\ Requests!WriteFrame(Body(Stop))
      BY <1>6 DEF BeginDrop, Stop
    <2>3. Stop \in RequestMessage
      BY DEF Stop, RequestMessage
    <2>4. Body(Stop) \in BodiesOf(RequestMessage) /\ Len(Body(Stop)) <= MaxMessageBytes
      BY <2>3, Sendable
    <2>5. reqSent' = Append(reqSent, Body(Stop)) /\ reqReceived' = reqReceived
      BY <2>2, <2>4, ReqWrite DEF TypeInv
    <2>6. reqSent \in Seq(BodiesOf(RequestMessage))
      BY ReqState DEF TypeInv
    <2>7. Len(reqSent') = Len(reqSent) + 1 /\ reqSent'[Len(reqSent')] = Body(Stop)
      BY <2>4, <2>5, <2>6
    <2>8. QED
      BY <1>1, <1>3, <2>1, <2>2, <2>5, <2>7 DEF RequestInv, AwaitsReading, Stop
  <1>7. RequestInv'
    BY <1>2, <1>6 DEF RequestInv
  <1>8. QED
    BY <1>4, <1>5, <1>7 DEF CallInv

(* The supervisor goes on to wait for the child, or goes.                  *)
LEMMA LeavingCall ==
  ASSUME TypeInv, CallInv, StopFails \/ Reap \/ HostDies
  PROVE  CallInv'
  <1>1. /\ phase' = "gone" \/ (phase = "stop" /\ phase' = "wait" /\ loop = "exited")
        /\ UNCHANGED <<answer, eventQueue, result, request, progress, gotBefore, nextId,
                       respVars, loopVars>>
    BY DEF StopFails, Reap, HostDies, mockVars, callVars
  <1>2. UNCHANGED <<reqSent, reqReceived>>
    BY ReqEnds DEF TypeInv, StopFails, Reap, HostDies, reqVars
  <1>3. Coming' = Coming /\ loop' = loop
    BY <1>1, ComingSame
  <1>4. PhaseInv' /\ NothingComes'
    BY <1>1, <1>3 DEF CallInv, PhaseInv, NothingComes
  <1>5. AnswerComes'
    BY <1>1, AnswersKept
  <1>6. RequestInv'
    BY <1>1, <1>2, <1>3 DEF CallInv, RequestInv, AwaitsReading, Current
  <1>7. QED
    BY <1>4, <1>5, <1>6 DEF CallInv

(* With every request read, nothing is left to send.                       *)
NothingUnsent == Len(reqReceived) = Len(reqSent) => reqPending = <<>>

LEMMA AllRead == RP!IInv => NothingUnsent
  BY ReqState DEF NothingUnsent

LEMMA AllReadThen == RP!IInv' => NothingUnsent'
  BY AllRead, PTL

(* The request the bridge completes is the one asked, or the last one.     *)
LEMMA Dispatched ==
  ASSUME TypeInv, CallInv, ReadRequestByte, reqReceived' # reqReceived
  PROVE  LET m == Message(Last(reqReceived'))
         IN  /\ m \in RequestMessage /\ Dispatch(m)
             /\ Len(reqSent') = Len(reqReceived')
             /\ \/ /\ progress = "asked" /\ phase \in {"await", "gone"}
                   /\ m = Current /\ request \in Asked /\ m.req # Shutdown
                \/ progress = "idle" /\ phase \in {"stop", "wait", "gone"} /\ m = Stop
  <1> DEFINE m == Message(Last(reqReceived'))
  <1>1. /\ Len(reqReceived) < Len(reqSent)
        /\ Len(reqReceived') = Len(reqReceived) + 1
        /\ Last(reqReceived') = reqSent[Len(reqReceived) + 1]
        /\ m \in RequestMessage
    BY RequestRead DEF TypeInv, ReadRequestByte
  <1>2. Dispatch(m) /\ loop # "exited"
    BY DEF ReadRequestByte
  <1>3. /\ RP!IInv' /\ reqSent' = reqSent /\ reqPending' = reqPending
    BY ReqRead DEF TypeInv, ReadRequestByte
  <1>4. Len(reqSent) = Len(reqReceived) + 1 /\ AwaitsReading
        /\ (phase = "send" => reqPending # <<>>)
    BY <1>1, <1>2, Counts DEF CallInv, RequestInv
  <1>5. reqPending' = <<>>
    BY <1>1, <1>3, <1>4, AllReadThen DEF NothingUnsent
  <1>6. phase # "send"
    BY <1>3, <1>4, <1>5
  <1>7. \A x : Message(Body(x)) = x
    BY DEF Message, Body
  <1>8. m \in {Current, Stop}
        /\ \/ progress = "asked" /\ phase \in {"send", "await", "gone"} /\ m = Current
           \/ progress = "idle" /\ phase \in {"stop", "wait", "gone"} /\ m = Stop
    BY <1>1, <1>4, <1>7 DEF AwaitsReading
  <1>9. m = Current => request \in Asked /\ m.req # Shutdown
    <2>1. request \in Asked \cup {NoRequest}
      BY DEF TypeInv, CallTyped
    <2>2. NoRequest \notin Asked /\ NoRequest # Shutdown
      BY CreationsAssumption DEF Asked, NoRequest, Shutdown
    <2>3. Shutdown \notin Asked
      BY AskedOf
    <2>4. m = Current => m.req = request
      BY DEF Current
    <2>5. m.req \in Asked \cup {Shutdown}
      BY <1>1 DEF RequestMessage
    <2>6. QED
      BY <2>1, <2>2, <2>3, <2>4, <2>5
  <1> HIDE DEF m
  <1>10. QED
    BY <1>1, <1>2, <1>3, <1>4, <1>6, <1>8, <1>9 DEF m

(* The bridge reads a byte; a request that is complete is executed, and    *)
(* its answer is what comes.                                               *)
LEMMA ReadRequestByteCall ==
  ASSUME TypeInv, CallInv, ReadRequestByte
  PROVE  CallInv'
  <1>1. /\ loop = "read" /\ outbox = <<>>
        /\ UNCHANGED <<respVars, supVars, result, request, gotBefore>>
        /\ reqReceived' = reqReceived => UNCHANGED <<mockVars, loopVars, progress>>
    BY DEF TypeInv, LoopTyped, ReadRequestByte
  <1>2. reqSent' = reqSent /\ reqPending' = reqPending
    BY ReqRead DEF TypeInv, ReadRequestByte
  <1>3. CASE reqReceived' = reqReceived
    <2>1. Coming' = Coming /\ \A i \in 1..Coming : ComingAt(i)' = ComingAt(i)
      BY <1>1, <1>3, ComingKept DEF respVars, loopVars
    <2>2. QED
      BY <1>1, <1>2, <1>3, <2>1, Quiet DEF supVars, callVars, mockVars, loopVars
  <1>4. CASE reqReceived' # reqReceived
    <2> DEFINE m == Message(Last(reqReceived'))
    <2>1. /\ m \in RequestMessage /\ Dispatch(m)
          /\ Len(reqSent') = Len(reqReceived')
          /\ \/ /\ progress = "asked" /\ phase \in {"await", "gone"}
                /\ m = Current /\ request \in Asked /\ m.req # Shutdown
             \/ progress = "idle" /\ phase \in {"stop", "wait", "gone"} /\ m = Stop
      BY <1>4, Dispatched
    <2> HIDE DEF m
    <2>2. UNCHANGED <<phase, nextId, eventQueue, gotBefore, request>> /\ loop' = "log"
      BY <1>1, <2>1 DEF supVars, Dispatch
    <2>3. ASSUME NEW n \in Nat PROVE n # n + 1
      OBVIOUS
    <2>4. Len(reqReceived') \in Nat
      <3>1. Len(reqReceived') = Len(reqSent)
        BY <1>2, <2>1
      <3>2. QED
        BY <3>1, Counts
    <2>5. RequestInv'
      BY <2>1, <2>2, <2>3, <2>4 DEF RequestInv
    <2>6. CASE /\ progress = "asked" /\ phase \in {"await", "gone"}
               /\ m = Current /\ request \in Asked /\ m.req # Shutdown
      <3> DEFINE w == Reply(nextId - 1, answer')
      <3>1. progress' = "answered" /\ Handle(request) /\ outbox' = w
        BY <2>1, <2>6 DEF Dispatch, Current
      <3>2. answer' \in Answer
        BY <2>6, <3>1, HandleTyped DEF TypeInv, MockTypeOK
      <3>3. nextId - 1 \in 0..MaxRequests
        BY ConnectionBounds DEF TypeInv, SupervisorTyped
      <3>4. w \in Seq(AnswerMessage) /\ Len(w) = Len(answer'.events) + 1
        BY <3>2, <3>3, ReplyTyped
      <3>5. Coming = 0 /\ gotBefore = Len(eventQueue)
        BY <1>1, <2>6 DEF CallInv, NothingComes, PhaseInv
      <3>6. Unread = 0 /\ Got = 0 /\ Len(eventQueue) \in Nat
        BY <3>5, <1>1, Counts DEF Coming, Got
      <3>7. Len(answer'.events) \in Nat
        <4>1. answer'.events \in Seq(Event)
          BY <3>2 DEF Answer
        <4>2. QED
          BY <4>1
      <3>8. Unread' = 0 /\ Got' = 0
        BY <1>1, <2>2, <3>6 DEF Unread, Got, respVars
      <3> HIDE DEF w
      <3>9. Coming' = Len(answer'.events) + 1
        BY <3>1, <3>4, <3>7, <3>8 DEF Coming
      <3>10. \A i \in 1..Coming' : ComingAt(i)' = w[i]
        <4> TAKE i \in 1..Coming'
        <4>1. i \in Nat /\ ~(i <= 0) /\ i - 0 = i
          BY <3>7, <3>9
        <4>2. QED
          BY <3>1, <3>8, <4>1 DEF ComingAt
      <3>11. AnswerComes'
        <4>1. w = Reply(nextId - 1, answer)'
          BY <2>2 DEF w, Reply
        <4>2. /\ Got' <= Len(answer'.events)
              /\ Coming' = Len(answer'.events) + 1 - Got'
              /\ Coming' <= Len(answer'.events) + 1 - Got'
          BY <3>7, <3>8, <3>9
        <4>3. \A i \in 1..Coming' : Got' + i = i
          BY <3>7, <3>8, <3>9
        <4>4. \A i \in 1..Got' : FALSE
          BY <3>8
        <4>5. QED
          BY <3>10, <4>1, <4>2, <4>3, <4>4 DEF AnswerComes
      <3>12. PhaseInv' /\ NothingComes'
        BY <2>2, <2>6, <3>1 DEF CallInv, PhaseInv, NothingComes
      <3>13. QED
        BY <2>5, <3>11, <3>12 DEF CallInv
    <2>7. CASE progress = "idle" /\ phase \in {"stop", "wait", "gone"} /\ m = Stop
      <3>1. progress' = "idle"
        BY <2>1, <2>7 DEF Dispatch, Stop
      <3>2. PhaseInv' /\ NothingComes' /\ AnswerComes'
        BY <2>2, <2>7, <3>1 DEF CallInv, PhaseInv, NothingComes, AnswerComes
      <3>3. QED
        BY <2>5, <3>2 DEF CallInv
    <2>8. QED
      BY <2>1, <2>6, <2>7
  <1>5. QED
    BY <1>3, <1>4

(* Steps that only move log lines, bytes of answers, or the bridge's loop. *)
LEMMA QuietSteps ==
  ASSUME TypeInv, CallInv,
         \/ DrainStep \/ WriteLogLine \/ BeginReply \/ SendFrame \/ WriteReplyByte
         \/ NextTurn \/ UNCHANGED vars
  PROVE  CallInv'
  <1>1. /\ UNCHANGED <<answer, eventQueue, callVars, phase, nextId,
                       reqSent, reqReceived, reqPending>>
        /\ loop' = "exited" <=> loop = "exited"
    BY DEF DrainStep, DrainLine, DrainEof, WriteLogLine, BeginReply, SendFrame,
      WriteReplyByte, NextTurn, vars, mockVars, supVars, reqVars, loopVars
  <1>2. Coming' = Coming /\ \A i \in 1..Coming : ComingAt(i)' = ComingAt(i)
    <2>1. CASE SendFrame
      BY <2>1, ComingSent
    <2>2. CASE WriteReplyByte
      <3>1. UNCHANGED <<respSent, respReceived, outbox>>
        BY <2>2, RespByte DEF TypeInv, WriteReplyByte, loopVars
      <3>2. QED
        BY <3>1, ComingKept
    <2>3. CASE DrainStep \/ WriteLogLine \/ BeginReply \/ NextTurn \/ UNCHANGED vars
      <3>1. UNCHANGED <<respSent, respReceived, outbox>>
        BY <2>3 DEF DrainStep, DrainLine, DrainEof, WriteLogLine, BeginReply, NextTurn,
          vars, respVars, loopVars
      <3>2. QED
        BY <3>1, ComingKept
    <2>4. QED
      BY <2>1, <2>2, <2>3
  <1>3. QED
    BY <1>1, <1>2, Quiet

(* Every step keeps the call invariant.                                    *)
LEMMA NextCall == TypeInv /\ CallInv /\ [Next]_vars => CallInv'
  <1> SUFFICES ASSUME TypeInv, CallInv, [Next]_vars PROVE CallInv'
    OBVIOUS
  <1>1. ASSUME NEW req \in Asked, Ask(req) PROVE CallInv'
    BY <1>1, AskCall
  <1>2. CASE BeginDrop
    BY <1>2, BeginDropCall
  <1>3. CASE SupervisorStep
    BY <1>3, SendByteCall, SendFailsCall, ReceiveByteCall, ReceiveEofCall,
       LeavingCall DEF SupervisorStep
  <1>4. CASE DrainStep
    BY <1>4, QuietSteps
  <1>5. CASE BridgeStep
    BY <1>5, ReadRequestByteCall, QuietSteps, ExitCall, Exits DEF BridgeStep
  <1>6. CASE Kill \/ Crash
    BY <1>6, ExitCall, Exits
  <1>7. CASE HostDies
    BY <1>7, LeavingCall
  <1>8. CASE Rest \/ UNCHANGED vars
    BY <1>8, QuietSteps DEF Rest
  <1>9. QED
    BY <1>1, <1>2, <1>3, <1>4, <1>5, <1>6, <1>7, <1>8 DEF Next

(* So it always holds.                                                     *)
LEMMA Called == Spec => []CallInv
  <1>1. Init => TypeInv /\ CallInv
    BY TypeInvInit, CallInvInit
  <1>2. TypeInv /\ CallInv /\ [Next]_vars => (TypeInv /\ CallInv)'
    BY NextTyped, NextCall
  <1>3. QED
    BY <1>1, <1>2, PTL DEF Spec

-----------------------------------------------------------------------------
(* The connection implements the backend that is called directly.          *)

(* The backend is the same one.                                            *)
LEMMA SameBackend ==
  /\ Remote!MockInit <=> MockInit
  /\ \A req : Remote!Handle(req) <=> Handle(req)
  /\ Remote!Failure = Failure
  <1>1. Remote!Script = Script
    BY DEF Remote!Script, Script, Remote!OneWire, OneWire, Remote!Jtag, Jtag,
      Remote!Pwm, Pwm, Remote!Dmx, Dmx, Remote!Modbus, Modbus, Remote!Span, Span
  <1>2. \A s, d, fs : Remote!Played(s, d, fs) = Played(s, d, fs)
    BY <1>1 DEF Remote!Played, Played
  <1>3. Remote!RequiredChannels = RequiredChannels
    BY DEF Remote!RequiredChannels, RequiredChannels
  <1>4. \A req : Remote!Acceptable(req) <=> Acceptable(req)
    BY <1>3 DEF Remote!Acceptable, Acceptable, Remote!Decoder, Decoder
  <1>5. /\ \A s, q : Remote!Ok(s, q) = Ok(s, q)
        /\ Remote!Err = Err /\ Remote!Failure = Failure
    BY DEF Remote!Ok, Ok, Remote!Err, Err, Remote!Failure, Failure,
      Remote!NoSession, NoSession
  <1>6. \A req : Remote!ListDecoders(req) <=> ListDecoders(req)
    BY <1>5 DEF Remote!ListDecoders, ListDecoders, Remote!NoSession, NoSession
  <1>7. \A req : Remote!CreateSession(req) <=> CreateSession(req)
    BY <1>4, <1>5 DEF Remote!CreateSession, CreateSession
  <1>8. \A req : Remote!Feed(req) <=> Feed(req)
    BY <1>2, <1>5 DEF Remote!Feed, Feed, Remote!Plays, Plays, Remote!NoSession, NoSession
  <1>9. \A req : Remote!Finalize(req) <=> Finalize(req)
    BY <1>5 DEF Remote!Finalize, Finalize, Remote!NoSession, NoSession
  <1>10. \A req : Remote!Destroy(req) <=> Destroy(req)
    BY <1>5 DEF Remote!Destroy, Destroy, Remote!NoSession, NoSession
  <1>11. \A req : Remote!Handle(req) <=> Handle(req)
    BY <1>6, <1>7, <1>8, <1>9, <1>10 DEF Remote!Handle, Handle
  <1>12. Remote!MockInit <=> MockInit
    BY <1>5 DEF Remote!MockInit, MockInit
  <1>13. QED
    BY <1>5, <1>11, <1>12

(* The annotations that were with the caller when it last was idle.        *)
Had == SubSeq(eventQueue, 1, IF progress = "idle" THEN Len(eventQueue) ELSE gotBefore)

(* What that is, by the progress of the call.                              *)
LEMMA HadIs ==
  ASSUME TypeInv
  PROVE  /\ progress = "idle" => Had = eventQueue
         /\ progress # "idle" => Had = SubSeq(eventQueue, 1, gotBefore)
  <1>1. eventQueue \in Seq(Event)
    BY DEF TypeInv, SupervisorTyped
  <1>2. SubSeq(eventQueue, 1, Len(eventQueue)) = eventQueue
    BY <1>1
  <1>3. QED
    BY <1>2 DEF Had

(* The backend seen through the connection begins as one called directly.  *)
LEMMA RemoteInit == Init => Remote!Init
  <1> SUFFICES ASSUME Init PROVE Remote!Init
    OBVIOUS
  <1>1. SubSeq(eventQueue, 1, IF progress = "idle" THEN Len(eventQueue) ELSE gotBefore)
          = <<>>
    BY DEF Init
  <1>2. QED
    BY <1>1, SameBackend DEF Init, Remote!Init, NoRequest, NoResult, NoSession,
      Remote!NoRequest, Remote!NoResult, Remote!NoSession

(* Steps that the caller of a backend does not see.                        *)
LEMMA Unseen ==
  ASSUME UNCHANGED <<mockVars, progress, request, result, Had>>,
         phase' = "gone" <=> phase = "gone", loop' = "exited" <=> loop = "exited"
  PROVE  UNCHANGED <<Remote!mockVars, Remote!remoteVars>>
  BY DEF Remote!mockVars, mockVars, Remote!remoteVars, Had

(* What was there before the call stays, when the queue and the call do.   *)
LEMMA HadKept ==
  UNCHANGED <<eventQueue, progress, gotBefore>> => UNCHANGED Had
  BY DEF Had

(* To call is to ask.                                                      *)
LEMMA AskRemote ==
  ASSUME TypeInv, CallInv, NEW req \in Asked, Ask(req)
  PROVE  Remote!Ask(req)
  <1>1. /\ phase = "idle" /\ phase' \in {"send", "refused"} /\ progress = "idle"
        /\ progress' = "asked" /\ request' = req /\ result' = NoResult
        /\ gotBefore' = Len(eventQueue)
        /\ UNCHANGED <<mockVars, eventQueue, loop>>
    BY DEF Ask, CallInv, PhaseInv, loopVars
  <1>2. UNCHANGED Had
    BY <1>1 DEF Had
  <1>3. QED
    BY <1>1, <1>2 DEF Remote!Ask, Remote!NoResult, NoResult, Remote!NoSession, NoSession,
      mockVars, Remote!mockVars, Had

(* The bridge that completes a request executes it.                        *)
LEMMA ReadRequestByteRemote ==
  ASSUME TypeInv, CallInv, ReadRequestByte
  PROVE  Remote!Execute \/ UNCHANGED <<Remote!mockVars, Remote!remoteVars>>
  <1>1. /\ loop = "read" /\ UNCHANGED <<phase, eventQueue, result, request, gotBefore>>
        /\ reqReceived' = reqReceived => UNCHANGED <<mockVars, loopVars, progress>>
    BY DEF ReadRequestByte, supVars
  <1>2. CASE reqReceived' = reqReceived
    BY <1>1, <1>2, HadKept, Unseen DEF loopVars
  <1>3. CASE reqReceived' # reqReceived
    <2> DEFINE m == Message(Last(reqReceived'))
    <2>1. /\ Dispatch(m)
          /\ \/ progress = "asked" /\ m = Current /\ m.req # Shutdown
             \/ progress = "idle" /\ m = Stop
      BY <1>3, Dispatched
    <2> HIDE DEF m
    <2>2. loop' = "log"
      BY <2>1 DEF Dispatch
    <2>3. CASE progress = "asked" /\ m = Current /\ m.req # Shutdown
      <3>1. Handle(request) /\ progress' = "answered"
        BY <2>1, <2>3 DEF Dispatch, Current
      <3>2. UNCHANGED Had
        BY <1>1, <2>3, <3>1 DEF Had
      <3>3. Remote!Handle(request)
        BY <3>1, SameBackend
      <3>4. QED
        BY <1>1, <2>2, <2>3, <3>1, <3>2, <3>3 DEF Remote!Execute, Had
    <2>4. CASE progress = "idle" /\ m = Stop
      <3>1. UNCHANGED <<mockVars, progress>>
        BY <2>1, <2>4 DEF Dispatch, Stop
      <3>2. QED
        BY <1>1, <2>2, <3>1, HadKept, Unseen
    <2>5. QED
      BY <2>1, <2>3, <2>4
  <1>4. QED
    BY <1>2, <1>3

(* A sequence that goes on, after its first part, as another begins.       *)
LEMMA Joined ==
  ASSUME NEW S, NEW q \in Seq(S), NEW a \in Seq(S), NEW g \in Nat, NEW k \in Nat,
         Len(q) = g + k, k <= Len(a), \A i \in 1..k : q[g + i] = a[i]
  PROVE  q = SubSeq(q, 1, g) \o SubSeq(a, 1, k)
  <1> DEFINE old == SubSeq(q, 1, g)
             new == SubSeq(a, 1, k)
  <1>1. /\ old \in Seq(S) /\ Len(old) = g
        /\ \A i \in 1..g : old[i] = q[i]
    OBVIOUS
  <1>2. /\ new \in Seq(S) /\ Len(new) = k
        /\ \A i \in 1..k : new[i] = a[i]
    OBVIOUS
  <1> HIDE DEF old, new
  <1>3. /\ old \o new \in Seq(S) /\ Len(old \o new) = Len(q)
        /\ \A i \in 1..Len(q) :
             (old \o new)[i] = IF i <= g THEN old[i] ELSE new[i - g]
    <2>1. /\ old \o new \in Seq(S) /\ Len(old \o new) = Len(old) + Len(new)
          /\ \A i \in 1..(Len(old) + Len(new)) :
               (old \o new)[i] = IF i <= Len(old) THEN old[i] ELSE new[i - Len(old)]
      BY <1>1, <1>2, ConcatProperties
    <2>2. QED
      BY <1>1, <1>2, <2>1
  <1>4. ASSUME NEW i \in 1..Len(q) PROVE (old \o new)[i] = q[i]
    <2>1. CASE i <= g
      <3>1. i \in 1..g
        BY <2>1
      <3>2. QED
        BY <1>1, <1>3, <2>1, <3>1
    <2>2. CASE ~(i <= g)
      <3>1. i - g \in 1..k /\ g + (i - g) = i
        BY <2>2
      <3>2. QED
        BY <1>2, <1>3, <2>2, <3>1
    <2>3. QED
      BY <2>1, <2>2
  <1>5. old \o new = q
    BY <1>3, <1>4, SeqEqual
  <1>6. QED
    BY <1>5 DEF old, new

(* The queue is what was there before the call and what came since.        *)
LEMMA QueueIs ==
  ASSUME TypeInv, CallInv, progress = "answered"
  PROVE  /\ Got \in 0..Len(answer.events)
         /\ eventQueue = Had \o SubSeq(answer.events, 1, Got)
  <1>1. eventQueue \in Seq(Event) /\ answer.events \in Seq(Event)
    BY AnswerIs DEF TypeInv, SupervisorTyped
  <1>2. /\ Got \in Nat /\ gotBefore \in Nat /\ Len(eventQueue) = gotBefore + Got
        /\ Len(answer.events) \in Nat /\ Got <= Len(answer.events)
        /\ \A i \in 1..Got : eventQueue[gotBefore + i] = answer.events[i]
    BY Counts, AnswerIs DEF CallInv, AnswerComes
  <1>3. Had = SubSeq(eventQueue, 1, gotBefore)
    BY HadIs
  <1>4. eventQueue = SubSeq(eventQueue, 1, gotBefore) \o SubSeq(answer.events, 1, Got)
    BY <1>1, <1>2, Joined
  <1>5. QED
    BY <1>2, <1>3, <1>4

(* A response that is read returns the answer; an event is not seen.       *)
LEMMA ReceiveByteRemote ==
  ASSUME TypeInv, CallInv, ReceiveByte
  PROVE  Remote!Return \/ UNCHANGED <<Remote!mockVars, Remote!remoteVars>>
  <1> DEFINE m == Message(Last(respReceived'))
             n == Len(answer.events)
  <1>1. /\ phase = "await" /\ UNCHANGED <<mockVars, loop>>
        /\ respReceived' = respReceived => UNCHANGED <<supVars, callVars>>
    BY DEF ReceiveByte, loopVars
  <1>2. CASE respReceived' = respReceived
    BY <1>1, <1>2, HadKept, Unseen DEF supVars, callVars
  <1>3. CASE respReceived' # respReceived
    <2>1. /\ progress = "answered" /\ Take(m)
          /\ \/ m.kind = "event"
             \/ /\ Got = n
                /\ m = [kind |-> "response", id |-> nextId - 1,
                        status |-> answer.status, session |-> answer.session]
      BY <1>3, Received
    <2> HIDE DEF m
    <2>2. CASE m.kind = "event"
      <3>1. UNCHANGED <<owner, phase, nextId, callVars>>
            /\ eventQueue' = Append(eventQueue, m.event)
        BY <2>1, <2>2 DEF Take
      <3>2. UNCHANGED Had
        <4>1. gotBefore \in 0..Len(eventQueue) /\ eventQueue \in Seq(Event)
          BY DEF TypeInv, CallTyped, SupervisorTyped
        <4>2. SubSeq(Append(eventQueue, m.event), 1, gotBefore)
              = SubSeq(eventQueue, 1, gotBefore)
          <5> DEFINE q == Append(eventQueue, m.event)
          <5>1. /\ \A i \in 1..Len(eventQueue) : q[i] = eventQueue[i]
                /\ gotBefore \in Nat /\ Len(eventQueue) \in Nat
            BY <4>1
          <5>2. \A i \in 1..gotBefore : q[i] = eventQueue[i]
            BY <4>1, <5>1
          <5> HIDE DEF q
          <5>3. [i \in 1..gotBefore |-> q[i]] = [i \in 1..gotBefore |-> eventQueue[i]]
            BY <5>2
          <5>4. \A s : SubSeq(s, 1, gotBefore) = [i \in 1..gotBefore |-> s[i]]
            BY <5>1
          <5>5. QED
            BY <5>3, <5>4 DEF q
        <4>3. QED
          BY <2>1, <3>1, <4>2 DEF Had, callVars
      <3>3. QED
        BY <1>1, <3>1, <3>2, Unseen DEF callVars
    <2>3. CASE /\ Got = n
               /\ m = [kind |-> "response", id |-> nextId - 1,
                       status |-> answer.status, session |-> answer.session]
      <3>1. Conclude([status |-> answer.status, session |-> answer.session])
            /\ eventQueue' = eventQueue
        BY <2>1, <2>3 DEF Take
      <3>2. eventQueue = Had \o answer.events
        <4>1. SubSeq(answer.events, 1, n) = answer.events
          BY AnswerIs
        <4>2. QED
          BY <2>1, <2>3, <4>1, QueueIs
      <3>3. Had' = Had \o answer.events
        <4>1. eventQueue \in Seq(Event)
          BY DEF TypeInv, SupervisorTyped
        <4>2. SubSeq(eventQueue, 1, Len(eventQueue)) = eventQueue
          BY <4>1
        <4>3. Had' = eventQueue
          BY <3>1, <4>2 DEF Had, Conclude
        <4>4. QED
          BY <3>2, <4>3
      <3>4. /\ progress' = "idle" /\ phase' = "idle" /\ request' = request
            /\ result' = [status |-> answer.status, session |-> answer.session]
        BY <3>1 DEF Conclude
      <3>5. QED
        BY <1>1, <2>1, <3>3, <3>4 DEF Remote!Return, Had, mockVars, Remote!mockVars
    <2>4. QED
      BY <2>1, <2>2, <2>3
  <1>4. QED
    BY <1>2, <1>3

(* A request that is not sent fails the call.                              *)
LEMMA SendFailsRemote ==
  ASSUME TypeInv, CallInv, SendFails
  PROVE  Remote!Refuse
  <1>1. /\ phase \in {"send", "refused"} /\ Conclude(Failure)
        /\ UNCHANGED <<mockVars, loop, eventQueue>>
    BY DEF SendFails, loopVars
  <1>2. progress = "asked" /\ gotBefore = Len(eventQueue)
    BY <1>1 DEF CallInv, PhaseInv
  <1>3. UNCHANGED Had
    BY <1>1, <1>2 DEF Had, Conclude
  <1>4. progress' = "idle" /\ phase' = "idle" /\ request' = request /\ result' = Failure
    BY <1>1 DEF Conclude
  <1>5. QED
    BY <1>1, <1>2, <1>3, <1>4, SameBackend
    DEF Remote!Refuse, Had, mockVars, Remote!mockVars

(* A call whose answers end fails, with a beginning of the events.         *)
LEMMA ReceiveEofRemote ==
  ASSUME TypeInv, CallInv, ReceiveEof
  PROVE  Remote!Fail
  <1>1. /\ phase = "await" /\ Conclude(Failure) /\ loop = "exited"
        /\ UNCHANGED <<mockVars, loop, eventQueue>>
    BY ReceiveEofCall DEF ReceiveEof, loopVars
  <1>2. progress' = "idle" /\ phase' = "idle" /\ request' = request /\ result' = Failure
    BY <1>1 DEF Conclude
  <1>3. progress \in {"asked", "answered"}
    BY <1>1 DEF TypeInv, CallTyped, CallInv, PhaseInv
  <1>4. eventQueue \in Seq(Event)
    BY DEF TypeInv, SupervisorTyped
  <1>5. Had' = eventQueue
    <2>1. SubSeq(eventQueue, 1, Len(eventQueue)) = eventQueue
      BY <1>4
    <2>2. QED
      BY <1>1, <1>2, <2>1 DEF Had
  <1>6. \E k \in 0..(IF progress = "answered" THEN Len(answer.events) ELSE 0) :
          Had' = Had \o SubSeq(answer.events, 1, k)
    <2>1. CASE progress = "answered"
      BY <1>5, <2>1, QueueIs
    <2>2. CASE progress = "asked"
      <3>1. Had = eventQueue
        <4>1. SubSeq(eventQueue, 1, Len(eventQueue)) = eventQueue
          BY <1>4
        <4>2. QED
          BY <2>2, <4>1 DEF Had, CallInv, PhaseInv
      <3>2. SubSeq(answer.events, 1, 0) = <<>>
        BY AnswerIs
      <3>3. eventQueue = eventQueue \o <<>>
        BY <1>4
      <3>4. Had' = Had \o SubSeq(answer.events, 1, 0)
        BY <1>5, <3>1, <3>2, <3>3
      <3>5. 0 \in 0..(IF progress = "answered" THEN Len(answer.events) ELSE 0)
        BY <2>2
      <3>6. QED
        BY <3>4, <3>5
    <2>3. QED
      BY <1>3, <2>1, <2>2
  <1>7. QED
    BY <1>1, <1>2, <1>3, <1>6, SameBackend
    DEF Remote!Fail, Had, mockVars, Remote!mockVars

(* The bridge that exits is one that crashes or leaves.                    *)
LEMMA ExitRemote ==
  ASSUME Exit, UNCHANGED <<mockVars, callVars, supVars>>
  PROVE  Remote!Break
  <1>1. loop' = "exited" /\ UNCHANGED <<mockVars, phase, eventQueue, progress, request,
                                        result, gotBefore>>
    BY DEF Exit, callVars, supVars
  <1>2. UNCHANGED Had
    BY <1>1, HadKept
  <1>3. QED
    BY <1>1, <1>2 DEF Remote!Break, Had, mockVars, Remote!mockVars

(* The supervisor that is dropped leaves.                                  *)
LEMMA LeavingRemote ==
  ASSUME Reap \/ HostDies
  PROVE  Remote!Leave
  <1>1. phase' = "gone" /\ UNCHANGED <<mockVars, loop, eventQueue, progress, request,
                                       result, gotBefore>>
    BY DEF Reap, HostDies, callVars, loopVars
  <1>2. UNCHANGED Had
    BY <1>1, HadKept
  <1>3. QED
    BY <1>1, <1>2 DEF Remote!Leave, Had, mockVars, Remote!mockVars

(* Whatever else happens is not seen.                                      *)
LEMMA OthersRemote ==
  ASSUME TypeInv,
         \/ SendByte \/ StopFails \/ BeginDrop
         \/ DrainStep \/ WriteLogLine \/ BeginReply \/ SendFrame \/ WriteReplyByte
         \/ NextTurn \/ UNCHANGED vars
  PROVE  UNCHANGED <<Remote!mockVars, Remote!remoteVars>>
  <1>1. /\ UNCHANGED <<mockVars, progress, request, result, eventQueue, gotBefore>>
        /\ phase' = "gone" <=> phase = "gone"
        /\ loop' = "exited" <=> loop = "exited"
    BY DEF SendByte, StopFails, BeginDrop, DrainStep, DrainLine, DrainEof, WriteLogLine,
      BeginReply, SendFrame, WriteReplyByte, NextTurn, vars, supVars, loopVars, callVars
  <1>2. UNCHANGED Had
    BY <1>1, HadKept
  <1>3. QED
    BY <1>1, <1>2, Unseen

(* Every step is one of the backend called directly, or is not seen.       *)
LEMMA RemoteStep ==
  TypeInv /\ CallInv /\ [Next]_vars => [Remote!Next]_<<Remote!mockVars, Remote!remoteVars>>
  <1> DEFINE Seen == [Remote!Next]_<<Remote!mockVars, Remote!remoteVars>>
  <1> SUFFICES ASSUME TypeInv, CallInv, [Next]_vars PROVE Seen
    OBVIOUS
  <1>1. ASSUME NEW req \in Asked, Ask(req) PROVE Seen
    BY <1>1, AskRemote DEF Remote!Next
  <1>2. CASE SupervisorStep
    BY <1>2, SendFailsRemote, ReceiveByteRemote, ReceiveEofRemote, LeavingRemote,
       OthersRemote DEF SupervisorStep, Remote!Next
  <1>3. CASE BridgeStep
    BY <1>3, ReadRequestByteRemote, ExitRemote, Exits, OthersRemote
    DEF BridgeStep, Remote!Next
  <1>4. CASE Kill \/ Crash
    BY <1>4, ExitRemote, Exits DEF Remote!Next
  <1>5. CASE HostDies
    BY <1>5, LeavingRemote DEF Remote!Next
  <1>6. CASE BeginDrop \/ DrainStep \/ Rest \/ UNCHANGED vars
    BY <1>6, OthersRemote DEF Rest
  <1>7. QED
    BY <1>1, <1>2, <1>3, <1>4, <1>5, <1>6 DEF Next

(* A backend on the other side of two byte pipes, with its frames, its log *)
(* and its exits, does for the shim what a backend called directly would:  *)
(* each request is executed at most once, in the order asked, and a call   *)
(* that succeeds returns that request's answer, whole                      *)
(* (shim/src/supervisor.rs, call, with bridge/src/main.rs).                *)
THEOREM RemoteImplemented == Spec => ImplementsRemoteBackend
  <1>1. TypeInv /\ CallInv /\ [Next]_vars =>
          [Remote!Next]_<<Remote!mockVars, Remote!remoteVars>>
    BY RemoteStep
  <1>2. Spec => []TypeInv /\ []CallInv
    BY Typed, Called, PTL
  <1>3. QED
    BY <1>1, <1>2, RemoteInit, PTL DEF Spec, ImplementsRemoteBackend, Remote!Spec

-----------------------------------------------------------------------------
(* OfSession is what its recursion says.                                   *)
Steps(f, q, s) ==
  /\ f[0] = <<>>
  /\ \A i \in 1..Len(q) :
       f[i] = IF q[i].session = s THEN Append(f[i - 1], q[i]) ELSE f[i - 1]

LEMMA OfSessionIsDefined ==
  ASSUME NEW q \in Seq(Event), NEW s
  PROVE  \E f : Steps(f, q, s) /\ OfSession(q, s) = f[Len(q)]
  <1> DEFINE n == Len(q)
             X == Seq(Event)
             step == [p \in Nat \X X |->
                        IF p[1] \in 1..n /\ q[p[1]].session = s
                        THEN Append(p[2], q[p[1]]) ELSE p[2]]
             Rec(f) == [i \in 0..n |->
                          IF i = 0 THEN <<>>
                          ELSE IF q[i].session = s THEN Append(f[i - 1], q[i])
                          ELSE f[i - 1]]
             G == CHOOSE f : f = Rec(f)
  <1>1. n \in Nat /\ \A i \in 1..n : q[i] \in Event
    BY ElementOfSeq
  <1>2. <<>> \in X
    BY EmptySeq
  <1>3. \A r \in X, x \in Event : Append(r, x) \in X
    OBVIOUS
  <1> HIDE DEF X
  <1>4. step \in [Nat \X X -> X]
    BY <1>1, <1>3
  <1>5. \A i \in 1..n, r \in X :
          step[<<i, r>>] = IF q[i].session = s THEN Append(r, q[i]) ELSE r
    BY <1>1
  <1> HIDE DEF step, n
  <1>6. RP!HasRecursion(X, <<>>, step, n)
    BY <1>1, <1>2, <1>4, ReqAssumed, RP!Recursion
  <1>7. PICK g \in [0..n -> X] :
          g[0] = <<>> /\ \A i \in 1..n : g[i] = step[<<i, g[i - 1]>>]
    BY <1>6 DEF RP!HasRecursion
  <1>8. \A i \in 1..n : g[i - 1] \in X
    BY <1>1
  <1>9. g = Rec(g)
    <2>1. \A i \in 1..n :
            g[i] = IF q[i].session = s THEN Append(g[i - 1], q[i]) ELSE g[i - 1]
      BY <1>5, <1>7, <1>8
    <2>2. \A i \in 0..n : i = 0 \/ i \in 1..n
      BY <1>1
    <2>3. \A i \in 0..n :
            g[i] = IF i = 0 THEN <<>>
                   ELSE IF q[i].session = s THEN Append(g[i - 1], q[i]) ELSE g[i - 1]
      BY <1>1, <1>7, <2>1, <2>2
    <2>4. QED
      BY <1>7, <2>3
  <1>10. G = Rec(G)
    <2> HIDE DEF Rec
    <2>1. QED
      BY <1>9
  <1>11. OfSession(q, s) = G[n]
    BY Zenon DEF OfSession, n
  <1> HIDE DEF G
  <1>12. G[0] = <<>>
    BY <1>1, <1>10
  <1>13. ASSUME NEW i \in 1..n
         PROVE  G[i] = IF q[i].session = s THEN Append(G[i - 1], q[i]) ELSE G[i - 1]
    <2>1. i \in 0..n /\ i # 0
      BY <1>1
    <2>2. QED
      BY <1>10, <2>1
  <1>14. Steps(G, q, s)
    BY <1>12, <1>13 DEF Steps, n
  <1>15. QED
    BY <1>11, <1>14 DEF n

(* Induction, for sets of numbers.                                         *)
LEMMA InductionOnNat ==
  ASSUME NEW T \in SUBSET Nat, 0 \in T, \A n \in T : n + 1 \in T
  PROVE  T = Nat
  BY ReqAssumed, RP!Induction

(* Two such sequences that begin alike give the same of their beginnings.  *)
LEMMA SameSteps ==
  ASSUME NEW q \in Seq(Event), NEW r \in Seq(Event), NEW s, NEW f, NEW g,
         Steps(f, q, s), Steps(g, r, s),
         NEW m \in Nat, m <= Len(q), m <= Len(r), \A i \in 1..m : q[i] = r[i]
  PROVE  f[m] = g[m]
  <1> DEFINE T == {n \in Nat : n <= m => f[n] = g[n]}
  <1>1. 0 \in T
    BY DEF Steps
  <1>2. ASSUME NEW n \in T PROVE n + 1 \in T
    <2>1. n \in Nat /\ (n <= m => f[n] = g[n])
      OBVIOUS
    <2>2. ASSUME n + 1 <= m PROVE f[n + 1] = g[n + 1]
      <3>1. n <= m /\ n + 1 \in 1..Len(q) /\ n + 1 \in 1..Len(r) /\ n + 1 \in 1..m
            /\ (n + 1) - 1 = n
        BY <2>1, <2>2
      <3>2. f[n + 1] = IF q[n + 1].session = s THEN Append(f[n], q[n + 1]) ELSE f[n]
        BY <3>1 DEF Steps
      <3>3. g[n + 1] = IF r[n + 1].session = s THEN Append(g[n], r[n + 1]) ELSE g[n]
        BY <3>1 DEF Steps
      <3>4. QED
        BY <2>1, <3>1, <3>2, <3>3
    <2>3. QED
      BY <2>1, <2>2
  <1>3. T \in SUBSET Nat
    OBVIOUS
  <1> HIDE DEF T
  <1>4. T = Nat
    BY <1>1, <1>2, <1>3, InductionOnNat
  <1>5. QED
    BY <1>4 DEF T

(* An empty sequence has nothing of any session.                           *)
LEMMA OfEmpty == \A s : OfSession(<<>>, s) = <<>>
  <1> TAKE s
  <1>1. <<>> \in Seq(Event) /\ Len(<<>>) = 0
    OBVIOUS
  <1>2. PICK f : Steps(f, <<>>, s) /\ OfSession(<<>>, s) = f[Len(<<>>)]
    BY <1>1, OfSessionIsDefined
  <1>3. QED
    BY <1>1, <1>2 DEF Steps

(* An annotation more is one more of its own session alone.                *)
LEMMA OfAppend ==
  ASSUME NEW q \in Seq(Event), NEW x \in Event, NEW s
  PROVE  OfSession(Append(q, x), s) =
           IF x.session = s THEN Append(OfSession(q, s), x) ELSE OfSession(q, s)
  <1> DEFINE r == Append(q, x)
  <1>1. /\ r \in Seq(Event) /\ Len(q) \in Nat /\ Len(r) = Len(q) + 1
        /\ r[Len(q) + 1] = x /\ \A i \in 1..Len(q) : q[i] = r[i]
    OBVIOUS
  <1> HIDE DEF r
  <1>2. PICK f : Steps(f, q, s) /\ OfSession(q, s) = f[Len(q)]
    BY OfSessionIsDefined
  <1>3. PICK g : Steps(g, r, s) /\ OfSession(r, s) = g[Len(r)]
    BY <1>1, OfSessionIsDefined
  <1>4. f[Len(q)] = g[Len(q)]
    BY <1>1, <1>2, <1>3, SameSteps
  <1>5. Len(q) + 1 \in 1..Len(r) /\ (Len(q) + 1) - 1 = Len(q)
    BY <1>1
  <1>6. g[Len(q) + 1] = IF x.session = s THEN Append(g[Len(q)], x) ELSE g[Len(q)]
    BY <1>1, <1>3, <1>5 DEF Steps
  <1>7. QED
    BY <1>1, <1>2, <1>3, <1>4, <1>6 DEF r

(* Of a sequence that goes on, there is what was there and some more: all  *)
(* that follows if it is all of the session, nothing if none of it is.     *)
GoesOn(q, r, s, of) ==
  \E t \in Seq(Event) :
    /\ of = OfSession(q, s) \o t
    /\ (\A i \in DOMAIN r : r[i].session = s) => t = r
    /\ (\A i \in DOMAIN r : r[i].session # s) => t = <<>>

(* What there is of a session is made of annotations.                      *)
LEMMA OfTyped ==
  ASSUME NEW q \in Seq(Event), NEW s
  PROVE  OfSession(q, s) \in Seq(Event)
  <1>1. PICK f : Steps(f, q, s) /\ OfSession(q, s) = f[Len(q)]
    BY OfSessionIsDefined
  <1> DEFINE T == {n \in Nat : n <= Len(q) => f[n] \in Seq(Event)}
  <1>2. 0 \in T
    BY <1>1, EmptySeq DEF Steps
  <1>3. ASSUME NEW n \in T PROVE n + 1 \in T
    <2>1. n \in Nat /\ (n <= Len(q) => f[n] \in Seq(Event)) /\ Len(q) \in Nat
      OBVIOUS
    <2>2. ASSUME n + 1 <= Len(q) PROVE f[n + 1] \in Seq(Event)
      <3>1. n <= Len(q) /\ n + 1 \in 1..Len(q) /\ (n + 1) - 1 = n
        BY <2>1, <2>2
      <3>2. q[n + 1] \in Event
        BY <3>1, ElementOfSeq
      <3>3. f[n + 1] = IF q[n + 1].session = s THEN Append(f[n], q[n + 1]) ELSE f[n]
        BY <1>1, <3>1 DEF Steps
      <3>4. f[n] \in Seq(Event)
        BY <2>1, <3>1
      <3>5. QED
        BY <3>2, <3>3, <3>4
    <2>3. QED
      BY <2>1, <2>2
  <1>4. T \in SUBSET Nat /\ Len(q) \in Nat
    OBVIOUS
  <1> HIDE DEF T
  <1>5. T = Nat
    BY <1>2, <1>3, <1>4, InductionOnNat
  <1>6. QED
    BY <1>1, <1>4, <1>5 DEF T

(* To append to the end of two sequences is to append to the second.       *)
LEMMA AppendToConcat ==
  ASSUME NEW S, NEW a \in Seq(S), NEW t \in Seq(S), NEW x \in S
  PROVE  Append(a \o t, x) = a \o Append(t, x) /\ Append(t, x) \in Seq(S)
  <1>1. a \o t \in Seq(S) /\ <<x>> \in Seq(S)
    BY ConcatProperties
  <1>2. Append(a \o t, x) = (a \o t) \o <<x>> /\ Append(t, x) = t \o <<x>>
    BY <1>1, AppendIsConcat
  <1>3. (a \o t) \o <<x>> = a \o (t \o <<x>>)
    BY <1>1, ConcatAssociative
  <1>4. QED
    BY <1>2, <1>3

(* By induction on the second sequence.                                    *)
LEMMA OfConcat ==
  ASSUME NEW q \in Seq(Event), NEW r \in Seq(Event), NEW s
  PROVE  GoesOn(q, r, s, OfSession(q \o r, s))
  <1> DEFINE b(k) == SubSeq(r, 1, k)
             T == {k \in Nat : k <= Len(r) => GoesOn(q, b(k), s, OfSession(q \o b(k), s))}
  <1>1. Len(r) \in Nat /\ OfSession(q, s) \in Seq(Event)
    BY OfTyped
  <1>2. 0 \in T
    <2>1. b(0) = <<>>
      OBVIOUS
    <2>2. q \o <<>> = q /\ OfSession(q, s) \o <<>> = OfSession(q, s)
      BY <1>1, ConcatEmptySeq
    <2>3. GoesOn(q, <<>>, s, OfSession(q, s))
      BY <2>2, EmptySeq DEF GoesOn
    <2> HIDE DEF b
    <2>4. QED
      BY <2>1, <2>2, <2>3
  <1>3. ASSUME NEW k \in T PROVE k + 1 \in T
    <2>1. k \in Nat /\ (k <= Len(r) => GoesOn(q, b(k), s, OfSession(q \o b(k), s)))
      OBVIOUS
    <2>2. ASSUME k + 1 <= Len(r)
          PROVE  GoesOn(q, b(k + 1), s, OfSession(q \o b(k + 1), s))
      <3> DEFINE x == r[k + 1]
                 c == b(k)
      <3>1. k <= Len(r) /\ k + 1 \in 1..Len(r)
        BY <1>1, <2>1, <2>2
      <3>2. x \in Event
        BY <3>1, ElementOfSeq
      <3>3. c \in Seq(Event) /\ Len(c) = k /\ \A i \in 1..k : c[i] = r[i]
        BY <2>1, <3>1
      <3>4. b(k + 1) = Append(c, x)
        <4>1. /\ b(k + 1) \in Seq(Event) /\ Len(b(k + 1)) = k + 1
              /\ \A i \in 1..(k + 1) : b(k + 1)[i] = r[i]
          BY <2>1, <3>1, <2>2
        <4> HIDE DEF b, x
        <4>2. /\ Append(c, x) \in Seq(Event) /\ Len(Append(c, x)) = k + 1
              /\ \A i \in 1..k : Append(c, x)[i] = r[i]
              /\ Append(c, x)[k + 1] = x
          BY <3>2, <3>3
        <4>3. \A i \in 1..(k + 1) : b(k + 1)[i] = Append(c, x)[i]
          BY <2>1, <4>1, <4>2 DEF x
        <4>4. QED
          BY <4>1, <4>2, <4>3, SeqEqual
      <3>5. PICK t \in Seq(Event) :
              /\ OfSession(q \o c, s) = OfSession(q, s) \o t
              /\ (\A i \in DOMAIN c : c[i].session = s) => t = c
              /\ (\A i \in DOMAIN c : c[i].session # s) => t = <<>>
        BY <2>1, <3>1 DEF GoesOn
      <3> HIDE DEF b, x, c
      <3>6. q \o Append(c, x) = Append(q \o c, x) /\ q \o c \in Seq(Event)
        BY <3>2, <3>3, AppendToConcat, ConcatProperties
      <3>7. OfSession(q \o Append(c, x), s) =
              IF x.session = s THEN Append(OfSession(q, s) \o t, x)
              ELSE OfSession(q, s) \o t
        <4>1. \A d \in Seq(Event) :
                OfSession(Append(d, x), s) =
                  IF x.session = s THEN Append(OfSession(d, s), x) ELSE OfSession(d, s)
          BY <3>2, OfAppend
        <4>2. OfSession(Append(q \o c, x), s) =
                IF x.session = s THEN Append(OfSession(q \o c, s), x)
                ELSE OfSession(q \o c, s)
          BY <3>6, <4>1
        <4>3. QED
          BY <3>5, <3>6, <4>2
      <3>8. Append(OfSession(q, s) \o t, x) = OfSession(q, s) \o Append(t, x)
            /\ Append(t, x) \in Seq(Event)
        <4>1. \A a, e \in Seq(Event), y \in Event :
                Append(a \o e, y) = a \o Append(e, y) /\ Append(e, y) \in Seq(Event)
          BY ONLY AppendToConcat
        <4>2. QED
          BY <1>1, <3>2, <4>1
      <3>9. /\ DOMAIN c = 1..k /\ DOMAIN Append(c, x) = 1..(k + 1)
            /\ k + 1 \in 1..(k + 1) /\ Append(c, x)[k + 1] = x
            /\ \A i \in 1..k : i \in 1..(k + 1) /\ Append(c, x)[i] = c[i]
        BY <2>1, <3>2, <3>3
      <3> DEFINE u == IF x.session = s THEN Append(t, x) ELSE t
      <3>10. OfSession(q \o Append(c, x), s) = OfSession(q, s) \o u /\ u \in Seq(Event)
        BY <3>7, <3>8
      <3>11. (\A i \in DOMAIN Append(c, x) : Append(c, x)[i].session = s)
                 => u = Append(c, x)
        BY <3>5, <3>9
      <3>12. (\A i \in DOMAIN Append(c, x) : Append(c, x)[i].session # s) => u = <<>>
        BY <3>5, <3>9
      <3> HIDE DEF u
      <3>13. GoesOn(q, Append(c, x), s, OfSession(q \o Append(c, x), s))
        BY <3>10, <3>11, <3>12 DEF GoesOn
      <3>14. QED
        BY <3>4, <3>13 DEF c
    <2> HIDE DEF b
    <2>3. QED
      BY <2>1, <2>2
  <1>4. b(Len(r)) = r
    BY SubSeqFull
  <1>5. T \in SUBSET Nat
    OBVIOUS
  <1> HIDE DEF T
  <1>6. T = Nat
    BY <1>2, <1>3, <1>5, InductionOnNat
  <1>7. Len(r) <= Len(r)
    BY <1>1
  <1>8. QED
    BY <1>1, <1>4, <1>6, <1>7 DEF T

-----------------------------------------------------------------------------
(* The scripts.                                                            *)

(* The annotations the caller will have when the call returns.             *)
Due == IF progress = "answered" THEN Had \o answer.events ELSE Had

(* r begins with q.                                                        *)
Begins(q, r) == \E t \in Seq(Event) : r = q \o t

(* A session has nothing until it has emitted, and then its whole script;  *)
(* or, with the bridge gone, the beginning of it.                          *)
ScriptOf(s) ==
  /\ s < nextSession
  /\ ~sessions[s].emitted => OfSession(Due, s) = <<>>
  /\ sessions[s].emitted =>
       \E fs \in FedTimes :
         LET whole == Played(s, sessions[s].decoder, fs)
         IN /\ Begins(OfSession(Due, s), whole)
            /\ loop # "exited" => OfSession(Due, s) = whole

(* So it is with every session, and numbers of sessions are not reused.    *)
ScriptInv ==
  /\ \A i \in DOMAIN Due : Due[i].session < nextSession
  /\ \A s \in DOMAIN sessions : ScriptOf(s)

(* These are sequences of annotations.                                     *)
DueType == Had \in Seq(Event) /\ Due \in Seq(Event)

LEMMA DueTyped == TypeInv => DueType
  <1> SUFFICES ASSUME TypeInv PROVE DueType
    OBVIOUS
  <1>1. eventQueue \in Seq(Event) /\ gotBefore \in 0..Len(eventQueue)
        /\ answer.events \in Seq(Event)
    BY AnswerIs DEF TypeInv, SupervisorTyped, CallTyped
  <1>2. SubSeq(eventQueue, 1, gotBefore) \in Seq(Event)
    BY <1>1
  <1>3. Had \in Seq(Event)
    BY <1>1, <1>2, HadIs
  <1>4. Had \o answer.events \in Seq(Event)
    BY <1>1, <1>3, ConcatProperties
  <1>5. QED
    BY <1>3, <1>4 DEF DueType, Due

LEMMA DueTypedThen == TypeInv' => DueType'
  BY DueTyped, PTL

(* Three sequences one after the other.                                    *)
LEMMA Regrouped ==
  ASSUME NEW a \in Seq(Event), NEW b \in Seq(Event), NEW c \in Seq(Event)
  PROVE  (a \o b) \o c = a \o (b \o c) /\ b \o c \in Seq(Event)
  <1>1. b \o c \in Seq(Event)
    BY ConcatProperties
  <1>2. (a \o b) \o c = a \o (b \o c)
    BY ConcatAssociative
  <1>3. QED
    BY <1>1, <1>2

(* What begins a beginning begins the whole.                               *)
LEMMA BeginsAgain ==
  ASSUME NEW q \in Seq(Event), NEW r \in Seq(Event), NEW w, Begins(q, r), Begins(r, w)
  PROVE  Begins(q, w)
  <1>1. PICK t \in Seq(Event) : r = q \o t
    BY DEF Begins
  <1>2. PICK u \in Seq(Event) : w = r \o u
    BY DEF Begins
  <1>3. (q \o t) \o u = q \o (t \o u) /\ t \o u \in Seq(Event)
    BY Regrouped
  <1>4. QED
    BY <1>1, <1>2, <1>3 DEF Begins

(* A beginning has a beginning of what there is of a session.              *)
LEMMA OfBegins ==
  ASSUME NEW q \in Seq(Event), NEW r \in Seq(Event), NEW s, Begins(q, r)
  PROVE  Begins(OfSession(q, s), OfSession(r, s))
  <1>1. PICK t \in Seq(Event) : r = q \o t
    BY DEF Begins
  <1>2. GoesOn(q, t, s, OfSession(q \o t, s))
    BY OfConcat
  <1>3. QED
    BY <1>1, <1>2 DEF GoesOn, Begins

(* Nothing but nothing begins nothing.                                     *)
LEMMA NothingBegins ==
  ASSUME NEW q \in Seq(Event), Begins(q, <<>>)
  PROVE  q = <<>>
  <1>1. PICK t \in Seq(Event) : <<>> = q \o t
    BY DEF Begins
  <1>2. Len(q \o t) = Len(q) + Len(t) /\ Len(q) \in Nat /\ Len(t) \in Nat
    BY ConcatProperties
  <1>3. Len(q) = 0
    <2>1. Len(q \o t) = 0
      BY <1>1
    <2>2. QED
      BY ONLY <1>2, <2>1
  <1>4. QED
    BY <1>3

(* Less of what follows is a beginning.                                    *)
LEMMA PartBegins ==
  ASSUME NEW q \in Seq(Event), NEW r \in Seq(Event), NEW k \in 0..Len(r)
  PROVE  Begins(q \o SubSeq(r, 1, k), q \o r)
  <1> DEFINE b == SubSeq(r, 1, k)
             e == SubSeq(r, k + 1, Len(r))
  <1>1. b \in Seq(Event) /\ e \in Seq(Event)
    OBVIOUS
  <1>2. r = b \o e
    <2>1. /\ Len(r) \in Nat /\ 1 \in 1..(Len(r) + 1)
          /\ k \in (1 - 1)..Len(r) /\ Len(r) \in k..Len(r)
      OBVIOUS
    <2>2. b \o e = SubSeq(r, 1, Len(r))
      BY <2>1, ConcatAdjacentSubSeq
    <2>3. QED
      BY <2>2, SubSeqFull
  <1> HIDE DEF b, e
  <1>3. q \o r = (q \o b) \o e
    BY <1>1, <1>2, Regrouped
  <1>4. QED
    BY <1>1, <1>3 DEF b, Begins

(* At first there are no sessions.                                         *)
LEMMA ScriptInit == Init => ScriptInv
  <1> SUFFICES ASSUME Init PROVE ScriptInv
    OBVIOUS
  <1>1. Due = <<>> /\ DOMAIN sessions = {}
    BY DEF Init, MockInit, Due, Had
  <1>2. QED
    BY <1>1 DEF ScriptInv

(* Steps that give the caller nothing more; a part may be lost when the    *)
(* bridge is gone.                                                         *)
LEMMA ScriptKept ==
  ASSUME DueType, DueType', ScriptInv, UNCHANGED <<sessions, nextSession>>,
         loop = "exited" => loop' = "exited",
         Due' = Due \/ (Begins(Due', Due) /\ loop' = "exited")
  PROVE  ScriptInv'
  <1>1. Due \in Seq(Event) /\ Due' \in Seq(Event)
    BY DEF DueType
  <1>2. CASE Due' = Due
    BY <1>2 DEF ScriptInv, ScriptOf
  <1>3. CASE Begins(Due', Due) /\ loop' = "exited"
    <2>1. \A i \in DOMAIN Due' : Due'[i].session < nextSession
      <3>1. PICK t \in Seq(Event) : Due = Due' \o t
        BY <1>3 DEF Begins
      <3>2. \A i \in 1..Len(Due') : i \in 1..Len(Due) /\ Due[i] = Due'[i]
        <4>1. /\ Len(Due') \in Nat /\ Len(t) \in Nat /\ Len(Due) = Len(Due') + Len(t)
              /\ \A i \in 1..(Len(Due') + Len(t)) :
                   Due[i] = IF i <= Len(Due') THEN Due'[i] ELSE t[i - Len(Due')]
          BY <1>1, <3>1, ConcatProperties
        <4>2. QED
          BY <4>1
      <3>3. QED
        BY <1>1, <3>2 DEF ScriptInv
    <2>2. ASSUME NEW s \in DOMAIN sessions PROVE ScriptOf(s)'
      <3>1. ScriptOf(s) /\ UNCHANGED <<sessions, nextSession>>
        BY DEF ScriptInv
      <3>2. /\ OfSession(Due', s) \in Seq(Event) /\ OfSession(Due, s) \in Seq(Event)
            /\ Begins(OfSession(Due', s), OfSession(Due, s))
        BY <1>1, <1>3, OfTyped, OfBegins
      <3>3. ~sessions[s].emitted => OfSession(Due', s) = <<>>
        BY <3>1, <3>2, NothingBegins DEF ScriptOf
      <3>4. ASSUME sessions[s].emitted
            PROVE  \E fs \in FedTimes :
                     Begins(OfSession(Due', s), Played(s, sessions[s].decoder, fs))
        <4>1. PICK fs \in FedTimes :
                Begins(OfSession(Due, s), Played(s, sessions[s].decoder, fs))
          BY <3>1, <3>4 DEF ScriptOf
        <4>2. QED
          BY <3>2, <4>1, BeginsAgain
      <3>5. QED
        BY <1>3, <3>1, <3>3, <3>4 DEF ScriptOf
    <2>3. QED
      BY <2>1, <2>2 DEF ScriptInv
  <1>4. QED
    BY <1>2, <1>3

(* A session that is as it was, to which nothing came.                     *)
LEMMA SameScript ==
  ASSUME NEW s \in DOMAIN sessions, ScriptOf(s), s \in DOMAIN sessions',
         OfSession(Due', s) = OfSession(Due, s),
         sessions'[s].decoder = sessions[s].decoder,
         sessions'[s].emitted <=> sessions[s].emitted,
         nextSession' \in {nextSession, nextSession + 1}, nextSession \in Nat, s \in Nat,
         loop = "exited" => loop' = "exited"
  PROVE  ScriptOf(s)'
  <1>1. s < nextSession'
    BY DEF ScriptOf
  <1>2. QED
    BY <1>1 DEF ScriptOf

(* A request that is executed.                                             *)
LEMMA ScriptExecute ==
  ASSUME TypeInv, TypeInv', ScriptInv, loop # "exited", loop' # "exited",
         progress = "asked", progress' = "answered", Had' = Had, Handle(request)
  PROVE  ScriptInv'
  <1> DEFINE a == answer'.events
  <1>1. Due \in Seq(Event) /\ Due' \in Seq(Event) /\ Due = Had /\ Due' = Due \o a
    BY DueTyped, DueTypedThen DEF DueType, Due
  <1>2. MockTypeOK /\ MockTypeOK' /\ request \in Asked
    <2>1. request \in Asked \cup {NoRequest}
      BY DEF TypeInv, CallTyped
    <2>2. request # NoRequest
      BY DEF NoRequest, Handle, ListDecoders, CreateSession, Feed, Finalize, Destroy
    <2>3. QED
      BY <2>1, <2>2 DEF TypeInv
  <1>3. /\ nextSession \in Nat /\ DOMAIN sessions \subseteq Nat
        /\ answer' \in Answer /\ a \in Seq(Event)
    BY <1>2, MockBound DEF MockTypeOK, SessionId, Answer
  <1>4. a = <<>> => Due' = Due
    BY <1>1, ConcatEmptySeq
  <1>5. DueType /\ DueType'
    BY DueTyped, DueTypedThen
  <1>6. Ok(NoSession, <<>>).events = <<>> /\ Err.events = <<>>
        /\ Ok(nextSession, <<>>).events = <<>>
    BY DEF Ok, Err
  <1> HIDE DEF a
  <1>7. CASE a = <<>> /\ UNCHANGED <<sessions, nextSession>>
    BY <1>4, <1>5, <1>7, ScriptKept
  <1>8. CASE ListDecoders(request) \/ Finalize(request)
    BY <1>6, <1>7, <1>8 DEF ListDecoders, Finalize, a
  <1>9. CASE Destroy(request)
    <2>1. /\ a = <<>> /\ nextSession' = nextSession
          /\ sessions' = [s \in DOMAIN sessions \ {request.session} |-> sessions[s]]
      BY <1>6, <1>9 DEF Destroy, a
    <2>2. ASSUME NEW s \in DOMAIN sessions' PROVE ScriptOf(s)'
      <3>1. s \in DOMAIN sessions /\ sessions'[s] = sessions[s] /\ s \in Nat /\ ScriptOf(s)
        BY <1>3, <2>1 DEF ScriptInv
      <3>2. QED
        BY <1>3, <1>4, <2>1, <3>1, SameScript
    <2>3. QED
      BY <1>4, <2>1, <2>2 DEF ScriptInv
  <1>10. CASE CreateSession(request)
    <2>1. CASE ~Acceptable(request)
      BY <1>6, <1>7, <1>10, <2>1 DEF CreateSession, a
    <2>2. CASE Acceptable(request)
      <3> DEFINE n == nextSession
      <3>1. /\ a = <<>> /\ nextSession' = n + 1
            /\ sessions' = [s \in DOMAIN sessions \cup {n} |->
                              IF s = n THEN [decoder |-> request.decoder, known |-> {},
                                             emitted |-> FALSE]
                              ELSE sessions[s]]
        BY <1>6, <1>10, <2>2 DEF CreateSession, a
      <3>2. Due' = Due /\ \A i \in DOMAIN Due : Due[i].session < n
        BY <1>4, <3>1 DEF ScriptInv
      <3>3. \A i \in DOMAIN Due : Due[i].session \in Nat
        <4>1. \A i \in DOMAIN Due : Due[i] \in Event
          BY <1>1
        <4>2. QED
          BY <4>1, MockBound DEF Event, SessionId
      <3>4. \A i \in DOMAIN Due : Due[i].session < n + 1
        BY <1>3, <3>2, <3>3
      <3>5. OfSession(Due, n) = <<>>
        <4>1. GoesOn(<<>>, Due, n, OfSession(<<>> \o Due, n))
          BY <1>1, EmptySeq, OfConcat
        <4>2. \A i \in DOMAIN Due : Due[i].session # n
          BY <1>3, <3>2, <3>3
        <4>3. OfSession(<<>> \o Due, n) = OfSession(<<>>, n) \o <<>>
          BY <4>1, <4>2 DEF GoesOn
        <4>4. <<>> \o Due = Due
          BY <1>1, ConcatEmptySeq
        <4>5. QED
          BY <4>3, <4>4, OfEmpty
      <3>6. ASSUME NEW s \in DOMAIN sessions' PROVE ScriptOf(s)'
        <4>1. CASE s = n
          <5>1. sessions'[s].emitted = FALSE /\ s < nextSession'
            BY <1>3, <3>1, <4>1
          <5>2. OfSession(Due', s) = <<>>
            BY <3>2, <3>5, <4>1
          <5>3. QED
            BY <5>1, <5>2 DEF ScriptOf
        <4>2. CASE s # n
          <5>1. s \in DOMAIN sessions /\ sessions'[s] = sessions[s] /\ s \in Nat
                /\ ScriptOf(s)
            BY <1>3, <3>1, <4>2 DEF ScriptInv
          <5>2. OfSession(Due', s) = OfSession(Due, s)
            BY <3>2
          <5>3. QED
            BY <1>3, <3>1, <5>1, <5>2, SameScript
        <4>3. QED
          BY <4>1, <4>2
      <3>7. QED
        BY <3>1, <3>2, <3>4, <3>6 DEF ScriptInv
    <2>3. QED
      BY <2>1, <2>2
  <1>11. CASE Feed(request)
    <2>1. PICK s \in SessionId :
            s = request.session /\ request.fs \in FedTimes /\ request.set \in SUBSET Nat
      BY <1>2, <1>11, AskedOf DEF Feed
    <2>2. CASE s \notin DOMAIN sessions
      BY <1>6, <1>7, <1>11, <2>1, <2>2 DEF Feed, a
    <2>3. CASE s \in DOMAIN sessions
      <3> DEFINE d == sessions[s].decoder
                 k == sessions[s].known \cup request.set
                 w == Played(s, d, request.fs)
                 x == [decoder |-> d, known |-> k,
                       emitted |-> sessions[s].emitted \/ k # {}]
      <3>1. /\ sessions' = [sessions EXCEPT ![s] = x]
            /\ nextSession' = nextSession
            /\ a = IF Plays(sessions[s], k) THEN w ELSE <<>>
        BY <1>11, <2>1, <2>3 DEF Feed, a, Ok
      <3>2. sessions[s] \in Session
        BY <1>2, <2>3 DEF MockTypeOK
      <3>3. x.decoder = d /\ (x.emitted <=> sessions[s].emitted \/ k # {})
        OBVIOUS
      <3>4. w \in Seq(Event) /\ \A i \in DOMAIN w : w[i].session = s
        <4>1. w \in Seq(Event) /\ Len(w) = Len(Script[d])
              /\ \A i \in 1..Len(Script[d]) : w[i].session = s
          <5>1. d \in Decoder
            BY <3>2 DEF Session
          <5>2. request.fs \in Nat
            BY <2>1, TimesAssumption
          <5>3. QED
            BY <5>1, <5>2, PlayedTyped
        <4>2. DOMAIN w = 1..Len(w)
          BY <4>1
        <4>3. QED
          BY <4>1, <4>2
      <3> HIDE DEF x, w
      <3>5. /\ DOMAIN sessions' = DOMAIN sessions /\ sessions'[s] = x
            /\ \A t \in DOMAIN sessions : t # s => sessions'[t] = sessions[t]
        BY <2>3, <3>1
      <3>6. ScriptOf(s) /\ s \in Nat
        BY <1>3, <2>3 DEF ScriptInv
      <3>7. CASE ~Plays(sessions[s], k)
        <4>1. Due' = Due
          BY <1>4, <3>1, <3>7
        <4>2. sessions'[s].emitted <=> sessions[s].emitted
          BY <3>3, <3>5, <3>7 DEF Plays
        <4>3. ASSUME NEW t \in DOMAIN sessions' PROVE ScriptOf(t)'
          <5>1. t \in DOMAIN sessions /\ t \in Nat /\ ScriptOf(t)
            BY <1>3, <3>5 DEF ScriptInv
          <5>2. /\ sessions'[t].decoder = sessions[t].decoder
                /\ sessions'[t].emitted <=> sessions[t].emitted
            BY <3>3, <3>5, <4>2, <5>1
          <5>3. QED
            BY <1>3, <3>1, <4>1, <5>1, <5>2, SameScript
        <4>4. QED
          BY <3>1, <4>1, <4>3 DEF ScriptInv
      <3>8. CASE Plays(sessions[s], k)
        <4>1. a = w /\ ~sessions[s].emitted /\ sessions'[s].emitted
              /\ sessions'[s].decoder = d
          BY <3>1, <3>3, <3>5, <3>8 DEF Plays
        <4>2. \A t : GoesOn(Due, w, t, OfSession(Due', t))
          BY <1>1, <3>4, <4>1, OfConcat
        <4>3. OfSession(Due', s) = w
          <5>1. OfSession(Due', s) = OfSession(Due, s) \o w
            BY <3>4, <4>2 DEF GoesOn
          <5>2. OfSession(Due, s) = <<>>
            BY <3>6, <4>1 DEF ScriptOf
          <5>3. QED
            BY <3>4, <5>1, <5>2, ConcatEmptySeq
        <4>4. ScriptOf(s)'
          <5>1. Begins(w, w)
            BY <3>4, ConcatEmptySeq, EmptySeq DEF Begins
          <5>2. w = Played(s, sessions'[s].decoder, request.fs)
            BY <4>1 DEF w
          <5>3. s < nextSession'
            BY <3>1, <3>6 DEF ScriptOf
          <5>4. QED
            BY <2>1, <4>1, <4>3, <5>1, <5>2, <5>3 DEF ScriptOf
        <4>5. ASSUME NEW t \in DOMAIN sessions', t # s PROVE ScriptOf(t)'
          <5>1. t \in DOMAIN sessions /\ t \in Nat /\ ScriptOf(t)
            /\ sessions'[t] = sessions[t]
            BY <1>3, <3>5, <4>5 DEF ScriptInv
          <5>2. OfSession(Due', t) = OfSession(Due, t)
            <6>1. \A i \in DOMAIN w : w[i].session # t
              BY <3>4, <4>5
            <6>2. OfSession(Due', t) = OfSession(Due, t) \o <<>>
              BY <4>2, <6>1 DEF GoesOn
            <6>3. OfSession(Due, t) \in Seq(Event)
              BY <1>1, OfTyped
            <6>4. QED
              BY <6>2, <6>3, ConcatEmptySeq
          <5>3. QED
            BY <1>3, <3>1, <5>1, <5>2, SameScript
        <4>6. \A i \in DOMAIN Due' : Due'[i].session < nextSession'
          <5>1. /\ Len(Due) \in Nat /\ Len(w) \in Nat /\ Len(Due') = Len(Due) + Len(w)
                /\ \A i \in 1..(Len(Due) + Len(w)) :
                     Due'[i] = IF i <= Len(Due) THEN Due[i] ELSE w[i - Len(Due)]
            BY <1>1, <3>4, <4>1, ConcatProperties
          <5>2. ASSUME NEW i \in 1..Len(Due') PROVE Due'[i].session < nextSession
            <6>1. CASE i <= Len(Due)
              BY <1>1, <5>1, <6>1 DEF ScriptInv
            <6>2. CASE ~(i <= Len(Due))
              <7>1. i - Len(Due) \in DOMAIN w
                BY <3>4, <5>1, <6>2
              <7>2. QED
                BY <3>4, <3>6, <5>1, <6>2, <7>1 DEF ScriptOf
            <6>3. QED
              BY <6>1, <6>2
          <5>3. DOMAIN Due' = 1..Len(Due')
            BY <1>1
          <5>4. QED
            BY <3>1, <5>2, <5>3
        <4>7. QED
          BY <4>4, <4>5, <4>6 DEF ScriptInv
      <3>9. QED
        BY <3>7, <3>8
    <2>4. QED
      BY <2>2, <2>3
  <1>12. QED
    BY <1>8, <1>9, <1>10, <1>11 DEF Handle

(* What the steps of the backend that is called directly do to what is due *)
LEMMA ScriptNext ==
  ASSUME TypeInv, TypeInv', ScriptInv,
         [Remote!Next]_<<Remote!mockVars, Remote!remoteVars>>
  PROVE  ScriptInv'
  <1>1. DueType /\ DueType'
    BY DueTyped, DueTypedThen
  <1>2. Had \in Seq(Event) /\ answer.events \in Seq(Event) /\ Len(answer.events) \in Nat
    BY <1>1, AnswerIs DEF DueType
  <1>3. CASE \/ \E req \in Asked : Remote!Ask(req)
             \/ Remote!Refuse \/ Remote!Break \/ Remote!Leave
             \/ UNCHANGED <<Remote!mockVars, Remote!remoteVars>>
    <2>1. /\ UNCHANGED <<sessions, nextSession>> /\ Had' = Had
          /\ loop = "exited" => loop' = "exited"
          /\ \/ UNCHANGED <<answer, progress>>
             \/ progress # "answered" /\ progress' # "answered"
      BY <1>3 DEF Remote!Ask, Remote!Refuse, Remote!Break, Remote!Leave,
        Remote!mockVars, Remote!remoteVars, Had
    <2>2. Due' = Due
      BY <2>1 DEF Due
    <2>3. QED
      BY <1>1, <2>1, <2>2, ScriptKept
  <1>4. CASE Remote!Execute
    <2>1. /\ progress = "asked" /\ progress' = "answered" /\ Had' = Had
          /\ loop # "exited" /\ loop' # "exited" /\ Remote!Handle(request)
      BY <1>4 DEF Remote!Execute, Had
    <2>2. QED
      BY <2>1, SameBackend, ScriptExecute
  <1>5. CASE Remote!Return
    <2>1. /\ UNCHANGED <<sessions, nextSession>> /\ Had' = Had \o answer.events
          /\ (loop = "exited") <=> (loop' = "exited")
          /\ progress = "answered" /\ progress' = "idle"
      BY <1>5 DEF Remote!Return, Remote!mockVars, Had
    <2>2. Due' = Due
      BY <2>1 DEF Due
    <2>3. QED
      BY <1>1, <2>1, <2>2, ScriptKept
  <1>6. CASE Remote!Fail
    <2>1. /\ UNCHANGED <<sessions, nextSession>> /\ progress' = "idle"
          /\ loop = "exited" /\ loop' = "exited"
          /\ \E k \in 0..(IF progress = "answered" THEN Len(answer.events) ELSE 0) :
               Had' = Had \o SubSeq(answer.events, 1, k)
      BY <1>6 DEF Remote!Fail, Remote!mockVars, Had
    <2>2. Due' = Had'
      BY <2>1 DEF Due
    <2>3. CASE progress # "answered"
      <3>1. Had' = Had \o <<>>
        <4>1. Had' = Had \o SubSeq(answer.events, 1, 0)
          BY <2>1, <2>3
        <4>2. QED
          BY <1>2, <4>1
      <3>2. Due' = Due
        BY <1>2, <2>2, <2>3, <3>1, ConcatEmptySeq DEF Due
      <3>3. QED
        BY <1>1, <2>1, <3>2, ScriptKept
    <2>4. CASE progress = "answered"
      <3>1. PICK k \in 0..Len(answer.events) : Had' = Had \o SubSeq(answer.events, 1, k)
        BY <2>1, <2>4
      <3>2. Begins(Had \o SubSeq(answer.events, 1, k), Had \o answer.events)
        BY <1>2, PartBegins
      <3>3. Begins(Due', Due)
        BY <2>2, <2>4, <3>1, <3>2 DEF Due
      <3>4. QED
        BY <1>1, <2>1, <3>3, ScriptKept
    <2>5. QED
      BY <2>3, <2>4
  <1>7. QED
    BY <1>3, <1>4, <1>5, <1>6 DEF Remote!Next

(* It holds throughout: by the steps of the backend called directly.       *)
LEMMA Scripted == Spec => []ScriptInv
  <1>1. Init => TypeInv /\ CallInv /\ ScriptInv
    BY TypeInvInit, CallInvInit, ScriptInit
  <1>2. TypeInv /\ CallInv /\ ScriptInv /\ [Next]_vars => (TypeInv /\ CallInv /\ ScriptInv)'
    BY NextTyped, NextCall, RemoteStep, ScriptNext
  <1>3. QED
    BY <1>1, <1>2, PTL DEF Spec

(* A beginning is no longer, and the same as far as it goes.               *)
LEMMA BeginsAgrees ==
  ASSUME NEW q \in Seq(Event), NEW r, Begins(q, r)
  PROVE  Len(q) <= Len(r) /\ \A i \in DOMAIN q : i \in 1..Len(r) /\ q[i] = r[i]
  <1>1. PICK t \in Seq(Event) : r = q \o t
    BY DEF Begins
  <1>2. /\ q \o t \in Seq(Event) /\ Len(q \o t) = Len(q) + Len(t)
        /\ Len(q) \in Nat /\ Len(t) \in Nat /\ DOMAIN q = 1..Len(q)
        /\ \A i \in 1..(Len(q) + Len(t)) :
             (q \o t)[i] = IF i <= Len(q) THEN q[i] ELSE t[i - Len(q)]
    BY ConcatProperties
  <1> HIDE DEF Begins
  <1>3. QED
    BY <1>1, <1>2

(* What is played is where the script puts it.                             *)
LEMMA PlayedIsPlaced ==
  ASSUME NEW s \in SessionId, NEW d \in Decoder, NEW fs \in Nat,
         NEW i \in 1..Len(Script[d])
  PROVE  PlacedAt(Played(s, d, fs)[i], Script[d][i], fs)
  <1> DEFINE q == Script[d]
             T == [from : Nat, to : Nat, class : 0..2]
  <1>1. q \in Seq(T)
    BY ScriptTyped
  <1> HIDE DEF q, T
  <1>2. q[i] \in T /\ i \in DOMAIN q
    BY <1>1 DEF q
  <1>3. q[i].from \in Nat /\ q[i].to \in Nat
    BY <1>2 DEF T
  <1>4. \A t \in Nat : fs + t < Word => (fs + t) % Word = fs + t
    BY WordAssumption
  <1>5. Played(s, d, fs)[i] = [session |-> s, start |-> (fs + q[i].from) % Word,
                               end |-> (fs + q[i].to) % Word, class |-> q[i].class]
    BY <1>2 DEF Played, q
  <1>6. /\ fs + q[i].from < Word => (fs + q[i].from) % Word = fs + q[i].from
        /\ fs + q[i].to < Word => (fs + q[i].to) % Word = fs + q[i].to
    BY <1>3, <1>4
  <1>7. /\ Played(s, d, fs)[i].start = (fs + q[i].from) % Word
        /\ Played(s, d, fs)[i].end = (fs + q[i].to) % Word
        /\ Played(s, d, fs)[i].class = q[i].class
    BY <1>5
  <1>8. PlacedAt(Played(s, d, fs)[i], q[i], fs)
    BY ONLY <1>6, <1>7, Zenon DEF PlacedAt
  <1>9. QED
    BY <1>8 DEF q

(* The annotations in the queue begin those that are due.                  *)
LEMMA EventsBeginDue ==
  ASSUME TypeInv, CallInv
  PROVE  /\ Begins(eventQueue, Due)
         /\ progress = "idle" => eventQueue = Due
  <1>1. eventQueue \in Seq(Event) /\ answer.events \in Seq(Event) /\ Had \in Seq(Event)
    BY AnswerIs, DueTyped DEF TypeInv, SupervisorTyped, DueType
  <1>2. CASE progress = "answered"
    BY <1>1, <1>2, QueueIs, PartBegins DEF Due
  <1>3. CASE progress # "answered"
    <2>1. progress = "idle" \/ (progress = "asked" /\ gotBefore = Len(eventQueue))
      BY <1>3 DEF TypeInv, CallTyped, CallInv, PhaseInv
    <2>2. Had = eventQueue
      BY <1>1, <2>1 DEF Had
    <2>3. eventQueue = eventQueue \o <<>> /\ <<>> \in Seq(Event)
      BY <1>1, ConcatEmptySeq, EmptySeq
    <2>4. QED
      BY <1>3, <2>2, <2>3 DEF Due, Begins
  <1>4. QED
    BY <1>2, <1>3

(* So each session has emitted its script once, or a beginning of it.      *)
LEMMA ScriptsFollow == TypeInv /\ CallInv /\ ScriptInv => ScriptsPlayOnce
  <1> SUFFICES ASSUME TypeInv, CallInv, ScriptInv, NEW s \in DOMAIN sessions
      PROVE  LET got == OfSession(eventQueue, s)
                 script == Script[sessions[s].decoder]
             IN \E fs \in FedTimes :
                  /\ Len(got) <= Len(script)
                  /\ \A i \in DOMAIN got : PlacedAt(got[i], script[i], fs)
                  /\ progress = "idle" /\ loop # "exited" /\ sessions[s].emitted =>
                       Len(got) = Len(script)
    BY DEF ScriptsPlayOnce
  <1> DEFINE got == OfSession(eventQueue, s)
             script == Script[sessions[s].decoder]
             whole(fs) == Played(s, sessions[s].decoder, fs)
  <1>1. eventQueue \in Seq(Event) /\ Due \in Seq(Event)
    BY DueTyped DEF TypeInv, SupervisorTyped, DueType
  <1>2. got \in Seq(Event) /\ OfSession(Due, s) \in Seq(Event)
        /\ Begins(got, OfSession(Due, s))
    BY <1>1, EventsBeginDue, OfTyped, OfBegins
  <1>3. progress = "idle" => got = OfSession(Due, s)
    BY EventsBeginDue
  <1>4. ScriptOf(s)
    BY DEF ScriptInv
  <1>5. s \in SessionId /\ sessions[s].decoder \in Decoder
    BY DEF TypeInv, MockTypeOK, Session
  <1>6. \A fs \in FedTimes :
          /\ Len(whole(fs)) = Len(script)
          /\ \A i \in 1..Len(script) : PlacedAt(whole(fs)[i], script[i], fs)
    BY <1>5, TimesAssumption, PlayedTyped, PlayedIsPlaced
  <1> HIDE DEF got, script, whole
  <1>7. CASE sessions[s].emitted
    <2>1. PICK fs \in FedTimes :
            /\ Begins(OfSession(Due, s), whole(fs))
            /\ loop # "exited" /\ progress = "idle" => OfSession(Due, s) = whole(fs)
      BY <1>4, <1>7 DEF ScriptOf, whole
    <2>2. Begins(got, whole(fs))
      BY <1>2, <2>1, BeginsAgain
    <2>3. /\ Len(got) <= Len(whole(fs))
          /\ \A i \in DOMAIN got : i \in 1..Len(whole(fs)) /\ got[i] = whole(fs)[i]
      BY <1>2, <2>2, BeginsAgrees
    <2>4. progress = "idle" /\ loop # "exited" => Len(got) = Len(script)
      BY <1>3, <1>6, <2>1
    <2>5. QED
      BY <1>6, <2>3, <2>4 DEF got, script
  <1>8. CASE ~sessions[s].emitted
    <2>1. OfSession(Due, s) = <<>>
      BY <1>4, <1>8 DEF ScriptOf
    <2>2. got = <<>>
      BY <1>2, <2>1, NothingBegins
    <2>3. PICK fs \in FedTimes : TRUE
      BY TimesAssumption
    <2>4. script \in Seq([from : Nat, to : Nat, class : 0..2])
      BY <1>5, ScriptTyped DEF script
    <2>5. Len(got) <= Len(script) /\ DOMAIN got = {}
      BY <2>2, <2>4
    <2>6. QED
      BY <1>8, <2>3, <2>5 DEF got, script
  <1>9. QED
    BY <1>7, <1>8

(* Whatever is fed and in whatever pieces, the annotations the shim has of *)
(* a session are those of its script, once and in order, or with the       *)
(* bridge gone a beginning of them (bridge/src/mock.rs, feed and finalize, *)
(* through the connection).                                                *)
THEOREM ScriptsArePlayedOnce == Spec => []ScriptsPlayOnce
  BY Typed, Called, Scripted, ScriptsFollow, PTL

-----------------------------------------------------------------------------
(* Nobody waits in vain.                                                   *)

(* What it takes for nobody to wait in vain: a request asked is not read   *)
(* yet, one that is awaited has left, and the last one has not while it is *)
(* being sent, with no answers under way.                                  *)
WaitInv ==
  loop # "exited" =>
    /\ progress = "asked" /\ phase \in {"send", "await"} =>
         Len(reqSent) = Len(reqReceived) + 1
    /\ phase = "await" => reqPending = <<>>
    /\ phase = "stop" => reqPending # <<>> /\ Coming = 0

(* At first nobody asks.                                                   *)
LEMMA WaitInit == Init => WaitInv
  BY DEF Init, WaitInv

(* Steps that leave the requests and the supervisor where they are.        *)
LEMMA WaitKept ==
  ASSUME WaitInv, UNCHANGED <<phase, progress, reqSent, reqReceived, reqPending>>,
         loop' # "exited" => loop # "exited", phase = "stop" => Coming' = Coming
  PROVE  WaitInv'
  BY DEF WaitInv

(* A call begins.                                                          *)
LEMMA AskWait ==
  ASSUME TypeInv, CallInv, NEW req \in Asked, Ask(req)
  PROVE  WaitInv'
  <1> DEFINE m == [id |-> nextId, req |-> req]
  <1>1. m \in RequestMessage
    BY ConnectionBounds DEF TypeInv, SupervisorTyped, Ask, RequestMessage
  <1>2. phase = "idle" /\ phase' \in {"send", "refused"} /\ UNCHANGED loopVars
    BY DEF Ask
  <1>3. loop' = loop
    BY <1>2 DEF loopVars
  <1>4. CASE phase' = "send" /\ loop # "exited"
    <2>1. Requests!WriteFrame(Body(m))
      BY <1>4 DEF Ask
    <2>2. Body(m) \in BodiesOf(RequestMessage) /\ Len(Body(m)) <= MaxMessageBytes
      BY <1>1, Sendable
    <2>3. reqSent' = Append(reqSent, Body(m)) /\ reqReceived' = reqReceived
      BY <2>1, <2>2, ReqWrite DEF TypeInv
    <2>4. Len(reqSent) = Len(reqReceived)
      BY <1>2, <1>4, NothingAsked
    <2>5. reqSent \in Seq(BodiesOf(RequestMessage))
      BY ReqState DEF TypeInv
    <2> HIDE DEF m
    <2>6. Len(reqSent') = Len(reqReceived') + 1
      BY <2>2, <2>3, <2>4, <2>5
    <2>7. QED
      BY <1>4, <2>6 DEF WaitInv
  <1>5. CASE phase' = "refused" \/ loop = "exited"
    BY <1>3, <1>5 DEF WaitInv
  <1>6. QED
    BY <1>2, <1>4, <1>5

(* A byte of the request goes into the pipe, the last one perhaps.         *)
LEMMA SendByteWait ==
  ASSUME TypeInv, WaitInv, SendByte
  PROVE  WaitInv'
  <1>1. UNCHANGED <<reqSent, reqReceived>>
    BY ReqByte DEF TypeInv, SendByte
  <1>2. /\ phase \in {"send", "stop"} /\ loop # "exited"
        /\ phase' = IF reqPending' # <<>> THEN phase
                    ELSE IF phase = "send" THEN "await" ELSE "wait"
        /\ UNCHANGED <<progress, respVars, loopVars>>
    BY DEF SendByte, callVars
  <1>3. Coming' = Coming /\ loop' = loop
    BY <1>2, ComingSame
  <1>4. QED
    BY <1>1, <1>2, <1>3 DEF WaitInv

(* A byte of an answer is read.                                            *)
LEMMA ReceiveByteWait ==
  ASSUME TypeInv, CallInv, WaitInv, ReceiveByte
  PROVE  WaitInv'
  <1>1. /\ phase = "await" /\ UNCHANGED <<loop, reqSent, reqReceived, reqPending>>
        /\ respReceived' = respReceived => UNCHANGED <<phase, progress>>
    BY DEF ReceiveByte, loopVars, reqVars, supVars, callVars
  <1>2. CASE respReceived' = respReceived
    BY <1>1, <1>2, WaitKept
  <1>3. CASE respReceived' # respReceived
    <2>1. phase' = "idle" \/ UNCHANGED <<phase, progress>>
      BY <1>3, Received DEF Take, Conclude, callVars
    <2>2. CASE phase' = "idle"
      BY <2>2 DEF WaitInv
    <2>3. CASE UNCHANGED <<phase, progress>>
      BY <1>1, <2>3, WaitKept
    <2>4. QED
      BY <2>1, <2>2, <2>3
  <1>4. QED
    BY <1>2, <1>3

(* The last request is handed to the codec, with nothing under way.        *)
LEMMA BeginDropWait ==
  ASSUME TypeInv, CallInv, BeginDrop
  PROVE  WaitInv'
  <1>1. /\ phase = "idle" /\ phase' \in {"stop", "wait"}
        /\ UNCHANGED <<respVars, loopVars>>
    BY DEF BeginDrop
  <1>2. Coming' = Coming /\ loop' = loop
    BY <1>1, ComingSame
  <1>3. ASSUME loop # "exited" PROVE reqPending' # <<>> /\ Coming = 0
    <2>1. Requests!WriteFrame(Body(Stop)) /\ Stop \in RequestMessage
      BY <1>3 DEF BeginDrop, Stop, RequestMessage
    <2>2. Body(Stop) \in BodiesOf(RequestMessage) /\ Len(Body(Stop)) <= MaxMessageBytes
      BY <2>1, Sendable
    <2>3. reqPending' # <<>>
      BY <2>1, <2>2, ReqWrite DEF TypeInv
    <2>4. QED
      BY <1>1, <1>3, <2>3 DEF CallInv, NothingComes
  <1>4. QED
    BY <1>1, <1>2, <1>3 DEF WaitInv

(* The bridge reads a byte.  The last request is complete only when it has *)
(* left the supervisor.                                                    *)
LEMMA ReadRequestByteWait ==
  ASSUME TypeInv, TypeInv', CallInv, WaitInv, ReadRequestByte
  PROVE  WaitInv'
  <1>1. /\ loop = "read" /\ UNCHANGED <<respVars, phase>>
        /\ reqReceived' = reqReceived => UNCHANGED <<loopVars, progress>>
    BY DEF ReadRequestByte, supVars
  <1>2. reqSent' = reqSent /\ reqPending' = reqPending
    BY ReqRead DEF TypeInv, ReadRequestByte
  <1>3. CASE reqReceived' = reqReceived
    <2>1. Coming' = Coming /\ loop' = loop
      BY <1>1, <1>3, ComingSame
    <2>2. QED
      BY <1>1, <1>2, <1>3, <2>1, WaitKept
  <1>4. CASE reqReceived' # reqReceived
    <2> DEFINE m == Message(Last(reqReceived'))
    <2>1. /\ Dispatch(m) /\ Len(reqSent') = Len(reqReceived')
          /\ \/ progress = "asked" /\ phase \in {"await", "gone"} /\ m.req # Shutdown
             \/ progress = "idle" /\ phase \in {"stop", "wait", "gone"} /\ m = Stop
      BY <1>4, Dispatched
    <2> HIDE DEF m
    <2>2. NothingUnsent'
      BY AllReadThen DEF TypeInv
    <2>3. reqPending = <<>>
      BY <1>2, <2>1, <2>2 DEF NothingUnsent
    <2>4. phase # "stop"
      BY <1>1, <2>3 DEF WaitInv
    <2>5. CASE progress = "asked" /\ m.req # Shutdown
      <3>1. progress' = "answered"
        BY <2>1, <2>5 DEF Dispatch
      <3>2. QED
        BY <1>1, <1>2, <2>3, <2>4, <3>1 DEF WaitInv
    <2>6. CASE progress = "idle" /\ m = Stop
      <3>1. progress' = "idle"
        BY <2>1, <2>6 DEF Dispatch, Stop
      <3>2. QED
        BY <1>1, <1>2, <2>3, <2>4, <3>1 DEF WaitInv
    <2>7. QED
      BY <2>1, <2>5, <2>6
  <1>5. QED
    BY <1>3, <1>4

(* Steps of the log, of the bytes of answers, or of the bridge's loop.     *)
LEMMA QuietWait ==
  ASSUME TypeInv, WaitInv,
         \/ DrainStep \/ WriteLogLine \/ BeginReply \/ SendFrame \/ WriteReplyByte
         \/ NextTurn \/ UNCHANGED vars
  PROVE  WaitInv'
  <1>1. /\ UNCHANGED <<phase, progress, reqSent, reqReceived, reqPending>>
        /\ loop' # "exited" => loop # "exited"
    BY DEF DrainStep, DrainLine, DrainEof, WriteLogLine, BeginReply, SendFrame,
      WriteReplyByte, NextTurn, vars, callVars, supVars, reqVars, loopVars
  <1>2. Coming' = Coming
    <2>1. CASE SendFrame
      BY <2>1, ComingSent
    <2>2. CASE WriteReplyByte
      <3>1. UNCHANGED <<respSent, respReceived, outbox>>
        BY <2>2, RespByte DEF TypeInv, WriteReplyByte, loopVars
      <3>2. QED
        BY <3>1, ComingKept
    <2>3. CASE DrainStep \/ WriteLogLine \/ BeginReply \/ NextTurn \/ UNCHANGED vars
      <3>1. UNCHANGED <<respSent, respReceived, outbox>>
        BY <2>3 DEF DrainStep, DrainLine, DrainEof, WriteLogLine, BeginReply, NextTurn,
          vars, respVars, loopVars
      <3>2. QED
        BY <3>1, ComingKept
    <2>4. QED
      BY <2>1, <2>2, <2>3
  <1>3. QED
    BY <1>1, <1>2, WaitKept

(* Every step keeps it.                                                    *)
LEMMA NextWait ==
  TypeInv /\ TypeInv' /\ CallInv /\ WaitInv /\ [Next]_vars => WaitInv'
  <1> SUFFICES ASSUME TypeInv, TypeInv', CallInv, WaitInv, [Next]_vars PROVE WaitInv'
    OBVIOUS
  <1>1. ASSUME NEW req \in Asked, Ask(req) PROVE WaitInv'
    BY <1>1, AskWait
  <1>2. CASE BeginDrop
    BY <1>2, BeginDropWait
  <1>3. CASE SendByte \/ ReceiveByte
    BY <1>3, SendByteWait, ReceiveByteWait
  <1>4. CASE SendFails \/ ReceiveEof \/ StopFails \/ Reap \/ HostDies
    BY <1>4 DEF SendFails, ReceiveEof, Conclude, StopFails, Reap, HostDies, WaitInv
  <1>5. CASE ReadRequestByte
    BY <1>5, ReadRequestByteWait
  <1>6. CASE ExitAfterShutdown \/ ExitUnread \/ ExitAtEof \/ Kill \/ Crash
    BY <1>6, Exits DEF Exit, WaitInv
  <1>7. CASE \/ DrainStep \/ WriteLogLine \/ BeginReply \/ SendFrame \/ WriteReplyByte
             \/ NextTurn \/ Rest \/ UNCHANGED vars
    BY <1>7, QuietWait DEF Rest
  <1>8. QED
    BY <1>1, <1>2, <1>3, <1>4, <1>5, <1>6, <1>7 DEF Next, SupervisorStep, BridgeStep

(* So it always holds.                                                     *)
LEMMA Waited == Spec => []WaitInv
  <1>1. Init => TypeInv /\ CallInv /\ WaitInv
    BY TypeInvInit, CallInvInit, WaitInit
  <1>2. TypeInv /\ CallInv /\ WaitInv /\ [Next]_vars => (TypeInv /\ CallInv /\ WaitInv)'
    BY NextTyped, NextCall, NextWait
  <1>3. QED
    BY <1>1, <1>2, PTL DEF Spec

(* While the log is full, the draining thread has something to read.       *)
LEMMA LogMovesOn ==
  ASSUME TypeInv, loop = "log", draining, Len(errPipe) = ErrLines
  PROVE  ~DrainWaits
  <1>1. ErrLines # 0
    BY ConnectionBounds
  <1>2. errPipe # <<>>
    BY <1>1
  <1>3. QED
    BY <1>2 DEF DrainWaits

(* With no answer under way, the bridge has none in its hands.             *)
LEMMA NothingToWrite ==
  ASSUME TypeInv, Coming = 0
  PROVE  respPending = <<>>
  <1>1. Unread = 0
    BY Counts DEF Coming
  <1>2. Len(respReceived) = Len(respSent)
    BY <1>1, Counts DEF Unread
  <1>3. QED
    BY <1>2, RespAssumed, SP!NothingUnread DEF TypeInv

(* A shim that awaits an answer of which nothing is in the pipe, from a    *)
(* bridge that reads: then the request is in the pipe.                     *)
LEMMA AwaitedComes ==
  ASSUME TypeInv, CallInv, WaitInv, phase = "await", loop = "read", respPipe = <<>>
  PROVE  reqPipe # <<>>
  <1> SUFFICES ASSUME reqPipe = <<>> PROVE FALSE
    OBVIOUS
  <1>1. outbox = <<>> /\ respPending = <<>> /\ reqPending = <<>>
    BY DEF TypeInv, LoopTyped, WaitInv
  <1>2. Len(reqReceived) = Len(reqSent)
    BY <1>1, ReqAssumed, RP!AllArrived DEF TypeInv
  <1>3. Len(respReceived) = Len(respSent)
    BY <1>1, RespAssumed, SP!AllArrived DEF TypeInv
  <1>4. Coming = 0
    BY <1>1, <1>3, Counts DEF Coming, Unread
  <1>5. CASE progress = "asked"
    <2>1. Len(reqSent) = Len(reqReceived) + 1
      BY <1>5 DEF WaitInv
    <2>2. QED
      BY <1>2, <2>1, Counts
  <1>6. CASE progress = "answered"
    <2>1. Got <= Len(answer.events) /\ Coming = Len(answer.events) + 1 - Got
      BY <1>6 DEF CallInv, AnswerComes
    <2>2. QED
      BY <1>4, <2>1, Counts, AnswerIs
  <1>7. QED
    BY <1>5, <1>6 DEF CallInv, PhaseInv, TypeInv, CallTyped

(* So not all of them wait.                                                *)
LEMMA NotAllWait == TypeInv /\ CallInv /\ WaitInv => NoCircularWait
  <1> SUFFICES ASSUME TypeInv, CallInv, WaitInv, SupervisorWaits \/ phase = "gone",
                      BridgeWaits, DrainWaits
               PROVE  FALSE
    BY DEF NoCircularWait
  <1>1. PipeBytes # 0
    BY ConnectionBounds, CodecAssumption
  <1>2. loop # "log"
    BY LogMovesOn DEF BridgeWaits
  <1>3. CASE phase = "gone"
    BY <1>2, <1>3 DEF BridgeWaits, TypeInv, SupervisorTyped
  <1>4. CASE phase \in {"send", "stop"} /\ loop # "exited" /\ Len(reqPipe) = PipeBytes
    <2>1. reqPipe # <<>>
      BY <1>1, <1>4
    <2>2. loop = "write" /\ respPending # <<>>
      BY <1>2, <2>1 DEF BridgeWaits
    <2>3. Coming = 0
      BY <1>4, <2>2 DEF CallInv, PhaseInv, NothingComes, WaitInv
    <2>4. QED
      BY <2>2, <2>3, NothingToWrite
  <1>5. CASE phase = "await" /\ respPipe = <<>> /\ respWriting
    <2>1. Len(respPipe) # PipeBytes
      BY <1>1, <1>5
    <2>2. loop = "read" /\ reqPipe = <<>>
      BY <1>2, <2>1 DEF BridgeWaits
    <2>3. QED
      BY <1>5, <2>2, AwaitedComes
  <1>6. QED
    BY <1>3, <1>4, <1>5 DEF SupervisorWaits

(* Whatever the sizes of the pipes, if only a byte and a line fit, the     *)
(* supervisor, the bridge and the draining thread never all wait           *)
(* (shim/src/supervisor.rs, request and drain_stderr;                      *)
(* bridge/src/ipc_loop.rs, run).                                           *)
THEOREM NoWaitingCircle == Spec => []NoCircularWait
  BY Typed, Called, Waited, NotAllWait, PTL

=============================================================================
