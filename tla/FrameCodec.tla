----------------------------- MODULE FrameCodec -----------------------------
(***************************************************************************)
(* crates/ipc/src/codec.rs: FrameWriter and FrameReader at the two ends of *)
(* a pipe of bytes.  A frame is a length, little-endian in a fixed number  *)
(* of bytes, and a body of that many bytes.  The pipe takes and gives one  *)
(* byte at a time (write_all and read_exact loop over partial transfers),  *)
(* blocks its writer when it is full and its reader when it is empty, and  *)
(* the writing process may die between any two bytes.                      *)
(*                                                                         *)
(* Base = 256 and HeaderBytes = 4 in the code.  The bytes of a length are  *)
(* numbers below Base; at those of a body the codec never looks, so they   *)
(* may be anything.                                                        *)
(***************************************************************************)
EXTENDS Naturals, Sequences, SequencesExt

CONSTANTS
  Byte,             \* what a byte may be
  Base,             \* number of values of a byte of a length
  HeaderBytes,      \* bytes of a length
  MaxMessageBytes,  \* MAX_MESSAGE_BYTES
  Bodies,           \* bodies the writer may be given
  PipeBytes,        \* bytes the pipe holds
  MaxFrames         \* bound: calls of write_frame

(* What one stands for in each byte of a length: 1, Base, Base^2 and so on. *)
Place[i \in 0..HeaderBytes] == IF i = 0 THEN 1 ELSE Base * Place[i - 1]

ASSUME BaseAssumption == Base \in Nat \ {0, 1}
ASSUME ByteAssumption == 0..(Base - 1) \subseteq Byte
ASSUME HeaderAssumption == HeaderBytes \in Nat \ {0}
ASSUME LimitAssumption == MaxMessageBytes \in 0..(Place[HeaderBytes] - 1)
ASSUME BodiesAssumption == Bodies \subseteq Seq(Byte)
ASSUME CodecBounds == PipeBytes \in Nat \ {0} /\ MaxFrames \in Nat

VARIABLES
  writing,   \* whether the writing process is alive
  calls,     \* calls of write_frame so far
  pending,   \* bytes of the current write_frame not yet in the pipe
  pipe,      \* bytes in the pipe
  partial,   \* bytes read_frame holds of the frame it is reading
  outcome,   \* "reading", or the error the reader stopped with
  sent,      \* history: bodies write_frame accepted
  received   \* history: bodies read_frame returned

vars == <<writing, calls, pending, pipe, partial, outcome, sent, received>>

Outcome == {"reading", "PeerClosed", "Io", "FrameTooLarge"}

TypeOK ==
  /\ writing \in BOOLEAN
  /\ calls \in 0..MaxFrames
  /\ pending \in Seq(Byte)
  /\ pipe \in Seq(Byte) /\ Len(pipe) <= PipeBytes
  /\ partial \in Seq(Byte) /\ Len(partial) <= HeaderBytes + MaxMessageBytes
  /\ outcome \in Outcome
  /\ sent \in Seq(Bodies)
  /\ received \in Seq(Bodies)

Init ==
  /\ writing = TRUE
  /\ calls = 0
  /\ pending = <<>>
  /\ pipe = <<>>
  /\ partial = <<>>
  /\ outcome = "reading"
  /\ sent = <<>>
  /\ received = <<>>

-----------------------------------------------------------------------------
(* Mutant: the length is written big-endian.                               *)
BigEndianLength(n) ==
  [i \in 1..HeaderBytes |-> (n \div Place[HeaderBytes - i]) % Base]

(* write_u32 and read_u32, little-endian.                                  *)
EncodeLength(n) == [i \in 1..HeaderBytes |-> (n \div Place[i - 1]) % Base]
DecodeLength(header) ==
  LET value[i \in 0..Len(header)] ==
        IF i = 0 THEN 0 ELSE value[i - 1] + header[i] * Place[i - 1]
  IN value[Len(header)]

(* write_frame: a body over the limit is refused before the first byte.    *)
(* The next call comes when this one has put everything into the pipe.     *)
WriteFrame(body) ==
  /\ writing
  /\ pending = <<>>
  /\ calls < MaxFrames
  /\ calls' = calls + 1
  /\ IF Len(body) > MaxMessageBytes
     THEN UNCHANGED <<pending, sent>>
     ELSE /\ pending' = EncodeLength(Len(body)) \o body
          /\ sent' = Append(sent, body)
  /\ UNCHANGED <<writing, pipe, partial, outcome, received>>

WriteByte ==
  /\ writing
  /\ pending # <<>>
  /\ Len(pipe) < PipeBytes
  /\ pipe' = Append(pipe, Head(pending))
  /\ pending' = Tail(pending)
  /\ UNCHANGED <<writing, calls, partial, outcome, sent, received>>

(* The writing process ends, in the middle of a frame or not.              *)
WriterEnds ==
  /\ writing
  /\ writing' = FALSE
  /\ UNCHANGED <<calls, pending, pipe, partial, outcome, sent, received>>

(* read_frame, once `bytes` are in: the frame is too large, complete, or   *)
(* needs more.                                                             *)
HasHeader(bytes) == Len(bytes) >= HeaderBytes
BodyLength(bytes) == DecodeLength(SubSeq(bytes, 1, HeaderBytes))

(* Mutant: the body is read one byte too far.                              *)
AcceptLate(bytes) ==
  IF HasHeader(bytes) /\ Len(bytes) > HeaderBytes + BodyLength(bytes)
  THEN /\ received' = Append(received, SubSeq(bytes, HeaderBytes + 1, Len(bytes) - 1))
       /\ partial' = <<>>
       /\ UNCHANGED outcome
  ELSE /\ partial' = bytes
       /\ UNCHANGED <<outcome, received>>

Accept(bytes) ==
  IF HasHeader(bytes) /\ BodyLength(bytes) > MaxMessageBytes
  THEN /\ outcome' = "FrameTooLarge"
       /\ partial' = bytes
       /\ UNCHANGED received
  ELSE IF HasHeader(bytes) /\ Len(bytes) = HeaderBytes + BodyLength(bytes)
  THEN /\ received' = Append(received, SubSeq(bytes, HeaderBytes + 1, Len(bytes)))
       /\ partial' = <<>>
       /\ UNCHANGED outcome
  ELSE /\ partial' = bytes
       /\ UNCHANGED <<outcome, received>>

ReadByte ==
  /\ outcome = "reading"
  /\ pipe # <<>>
  /\ Accept(Append(partial, Head(pipe)))
  /\ pipe' = Tail(pipe)
  /\ UNCHANGED <<writing, calls, pending, sent>>

(* Mutant: what was read of a body is returned as a frame at its end.      *)
EofReturnsPartial ==
  /\ outcome = "reading"
  /\ pipe = <<>>
  /\ ~writing
  /\ IF HasHeader(partial)
     THEN received' = Append(received, SubSeq(partial, HeaderBytes + 1, Len(partial)))
     ELSE UNCHANGED received
  /\ outcome' = "PeerClosed"
  /\ UNCHANGED <<writing, calls, pending, pipe, partial, sent>>

(* End of file: PeerClosed as long as the length is not complete, Io in    *)
(* the body.  It is the only way a read fails: both streams are anonymous  *)
(* pipes, on which read_exact retries an interrupted read and no other     *)
(* error arises.                                                           *)
ReadEof ==
  /\ outcome = "reading"
  /\ pipe = <<>>
  /\ ~writing
  /\ outcome' = IF HasHeader(partial) THEN "Io" ELSE "PeerClosed"
  /\ UNCHANGED <<writing, calls, pending, pipe, partial, sent, received>>

(* The reader has stopped: nobody waits for this connection any more.      *)
Done == outcome # "reading" /\ UNCHANGED vars

Next ==
  \/ \E body \in Bodies : WriteFrame(body)
  \/ WriteByte
  \/ WriterEnds
  \/ ReadByte
  \/ ReadEof
  \/ Done

Spec == Init /\ [][Next]_vars

(* Both ends keep running; nobody has to write and nobody has to die.      *)
FairSpec == Spec /\ WF_vars(WriteByte) /\ WF_vars(ReadByte) /\ WF_vars(ReadEof)

-----------------------------------------------------------------------------
(* Refinement: the bodies that are in the pipe with their last byte.       *)
Written == IF pending = <<>> THEN sent ELSE Front(sent)
Pipe == INSTANCE FramePipe WITH
  Frames <- Bodies,
  queue <- SubSeq(Written, Len(received) + 1, Len(Written)),
  read <- received,
  ended <- outcome # "reading"

(* The codec implements the queue of whole frames: whatever the partial    *)
(* transfers and wherever the writer dies, the reader gets the frames that *)
(* were written completely, each once, in order and intact, all of them    *)
(* before the end, and never a part of one.                                *)
ImplementsFramePipe == Pipe!Spec

(* A frame that was handed to write_frame arrives without another having   *)
(* to follow it, however small the pipe, unless the writer dies.           *)
FramesArrive ==
  \A n \in 1..MaxFrames :
    Len(sent) >= n ~> Len(received) >= n \/ ~writing
=============================================================================
