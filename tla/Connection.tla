---------------------------- MODULE Connection -----------------------------
(***************************************************************************)
(* One bridge process and the supervisor that talks to it, byte by byte:   *)
(* crates/shim/src/supervisor.rs and crates/bridge/src/ipc_loop.rs over    *)
(* three pipes.  Requests and answers travel on the child's stdin and      *)
(* stdout, each an instance of module FrameCodec; log lines on its stderr, *)
(* which a thread of the shim drains.  The backend is that of module       *)
(* MockBackend.  Frames are longer than the pipes can hold, so each end    *)
(* may have to wait for the other in the middle of one.                    *)
(*                                                                         *)
(* A supervisor serves either registration, which lists the decoders and   *)
(* may drop it, or the sessions, whose supervisor is never dropped.  The   *)
(* bridge may die at any time (a decoder, the library, a frame too large   *)
(* to send, a panic), and so may the host the shim is loaded in.           *)
(***************************************************************************)
EXTENDS MockBackend, SequencesExt

CONSTANTS
  Base, HeaderBytes, MaxMessageBytes, PipeBytes,   \* see FrameCodec
  Creations,     \* the create_session requests there are
  FedTimes,      \* times fed
  ErrLines,      \* log lines the stderr pipe holds
  MaxLogLines,   \* bound: log lines per request
  MaxRequests    \* bound: requests of one supervisor

ASSUME ConnectionBounds ==
  ErrLines \in Nat \ {0} /\ MaxLogLines \in Nat /\ MaxRequests \in Nat
ASSUME CreationsAssumption == \A req \in Creations : req.op = "create_session"
ASSUME TimesAssumption == FedTimes \subseteq Nat /\ FedTimes # {}

VARIABLES
  \* the child's stdin
  reqWriting, reqCalls, reqPending, reqPipe, reqPartial, reqOutcome, reqSent,
  reqReceived,
  \* its stdout
  respWriting, respCalls, respPending, respPipe, respPartial, respOutcome,
  respSent, respReceived,
  \* its stderr
  errPipe,     \* log lines in the pipe
  draining,    \* whether drain_stderr runs; it holds the pipe's reading end
  \* the bridge
  loop,        \* where run() stands
  outbox,      \* messages handle() returned, not yet written
  logLeft,     \* log lines still to write before it answers
  \* the supervisor
  owner,       \* whom it serves
  phase,       \* where it stands
  nextId,      \* Supervisor::next_id
  eventQueue,  \* Supervisor::event_queue (never drained here)
  result,      \* what the last request returned
  request,     \* history: the request of the current or the last call
  progress,    \* history: how far that request has got
  gotBefore    \* history: length of eventQueue when it was asked

reqVars == <<reqWriting, reqCalls, reqPending, reqPipe, reqPartial, reqOutcome,
             reqSent, reqReceived>>
respVars == <<respWriting, respCalls, respPending, respPipe, respPartial,
              respOutcome, respSent, respReceived>>
errVars == <<errPipe, draining>>
loopVars == <<loop, outbox, logLeft>>
callVars == <<result, request, progress, gotBefore>>
supVars == <<owner, phase, nextId, eventQueue>>
vars == <<mockVars, reqVars, respVars, errVars, loopVars, callVars, supVars>>

-----------------------------------------------------------------------------
(* Messages.  A body is its message; one that is too large has more.       *)
Body(m) == <<m>>
More == "more"
LargeBody(m) == <<m>> \o [i \in 1..MaxMessageBytes |-> More]
Message(body) == Head(body)

Asked ==
  Creations
    \cup [op : {"feed"}, session : SessionId, fs : FedTimes, set : {{}, {0}}]
    \cup [op : {"finalize", "destroy"}, session : SessionId]
    \cup [op : {"list_decoders"}]
Shutdown == [op |-> "shutdown"]
RequestMessage ==
  [id : 1..MaxRequests, req : Asked] \cup [id : {0}, req : {Shutdown}]

EventMessage == [kind : {"event"}, event : Event]
ResponseMessage == [kind : {"response"}, id : 0..MaxRequests,
                    status : {"ok", "err"}, session : SessionId \cup {NoSession}]
AnswerMessage == EventMessage \cup ResponseMessage

NoRequest == [op |-> "none"]
NoResult == [status |-> "none", session |-> NoSession]
Failure == [status |-> "err", session |-> NoSession]

BodiesOf(messages) == {Body(m) : m \in messages} \cup {LargeBody(m) : m \in messages}
BytesOf(messages) == 0..(Base - 1) \cup messages \cup {More}

Requests == INSTANCE FrameCodec WITH
  Byte <- BytesOf(RequestMessage), Bodies <- BodiesOf(RequestMessage),
  MaxFrames <- MaxRequests + 1,
  writing <- reqWriting, calls <- reqCalls, pending <- reqPending,
  pipe <- reqPipe, partial <- reqPartial, outcome <- reqOutcome,
  sent <- reqSent, received <- reqReceived

Responses == INSTANCE FrameCodec WITH
  Byte <- BytesOf(AnswerMessage), Bodies <- BodiesOf(AnswerMessage),
  MaxFrames <- 6 * (MaxRequests + 1),   \* no script is longer than five
  writing <- respWriting, calls <- respCalls, pending <- respPending,
  pipe <- respPipe, partial <- respPartial, outcome <- respOutcome,
  sent <- respSent, received <- respReceived

ASSUME CodecAssumption ==
  /\ Base \in Nat \ {0, 1} /\ HeaderBytes \in Nat \ {0} /\ PipeBytes \in Nat \ {0}
  /\ MaxMessageBytes \in 1..(Requests!Place[HeaderBytes] - 1)

TypeOK ==
  /\ MockTypeOK
  /\ Len(reqPipe) <= PipeBytes /\ Len(respPipe) <= PipeBytes
  /\ \A i \in DOMAIN reqReceived : Message(reqReceived[i]) \in RequestMessage
  /\ Len(errPipe) <= ErrLines /\ \A i \in DOMAIN errPipe : errPipe[i] \in {"text", "other"}
  /\ draining \in BOOLEAN
  /\ loop \in {"read", "log", "write", "exited"}
  /\ loop = "read" => outbox = <<>> /\ respPending = <<>>
  /\ logLeft \in 0..MaxLogLines
  /\ owner \in {"registration", "sessions"}
  /\ phase \in {"idle", "send", "refused", "await", "stop", "wait", "gone"}
  /\ nextId \in 1..(MaxRequests + 1)
  /\ eventQueue \in Seq(Event)
  /\ result \in [status : {"none", "ok", "err"}, session : SessionId \cup {NoSession}]
  /\ request \in Asked \cup {NoRequest}
  /\ progress \in {"idle", "asked", "answered"}
  /\ gotBefore \in 0..Len(eventQueue)

Init ==
  /\ MockInit
  /\ Requests!Init
  /\ Responses!Init
  /\ errPipe = <<>>
  /\ draining = TRUE
  /\ loop = "read"
  /\ outbox = <<>>
  /\ logLeft = 0
  /\ owner \in {"registration", "sessions"}
  /\ phase = "idle"
  /\ nextId = 1
  /\ eventQueue = <<>>
  /\ result = NoResult
  /\ request = NoRequest
  /\ progress = "idle"
  /\ gotBefore = 0

-----------------------------------------------------------------------------
(* The supervisor.                                                         *)

(* What the owner may ask for: sessions that were opened, destroyed ones   *)
(* too, so that the table's refusals are seen.                             *)
MayAsk(req) ==
  IF owner = "registration" THEN req.op = "list_decoders"
  ELSE /\ req.op # "list_decoders"
       /\ req \notin Creations => req.session < nextSession

(* request(): the frame is handed to the writer.  If the bridge has gone   *)
(* nothing is written any more; if the body is too large nothing is        *)
(* written either, and the connection stays usable.                        *)
Ask(req) ==
  /\ phase = "idle"
  /\ nextId <= MaxRequests
  /\ MayAsk(req)
  /\ LET m == [id |-> nextId, req |-> req]
     IN IF loop = "exited"
        THEN phase' = "send" /\ UNCHANGED reqVars
        ELSE \/ phase' = "send" /\ Requests!WriteFrame(Body(m))
             \/ phase' = "refused" /\ Requests!WriteFrame(LargeBody(m))
  /\ nextId' = nextId + 1
  /\ request' = req
  /\ result' = NoResult
  /\ progress' = "asked"
  /\ gotBefore' = Len(eventQueue)
  /\ UNCHANGED <<mockVars, respVars, errVars, loopVars, owner, eventQueue>>

SendByte ==
  /\ phase \in {"send", "stop"}
  /\ loop # "exited"
  /\ Requests!WriteByte
  /\ phase' = IF reqPending' # <<>> THEN phase
              ELSE IF phase = "send" THEN "await" ELSE "wait"
  /\ UNCHANGED <<mockVars, respVars, errVars, loopVars, callVars, owner, nextId,
                 eventQueue>>

Conclude(r) ==
  /\ phase' = "idle"
  /\ result' = r
  /\ progress' = "idle"
  /\ UNCHANGED <<owner, nextId, request, gotBefore>>

(* Nobody reads the pipe any more, or write_frame refused the body.        *)
SendFails ==
  /\ \/ phase = "send" /\ loop = "exited"
     \/ phase = "refused"
  /\ Conclude(Failure)
  /\ UNCHANGED <<mockVars, reqVars, respVars, errVars, loopVars, eventQueue>>

Take(m) ==
  IF m.kind = "event"
  THEN /\ eventQueue' = Append(eventQueue, m.event)
       /\ UNCHANGED <<owner, phase, nextId, callVars>>
  ELSE /\ UNCHANGED eventQueue
       /\ IF m.id = nextId - 1
          THEN Conclude([status |-> m.status, session |-> m.session])
          ELSE UNCHANGED <<owner, phase, nextId, callVars>>

(* The receive loop reads a byte, and takes the message it completes.      *)
ReceiveByte ==
  /\ phase = "await"
  /\ Responses!ReadByte
  /\ IF respReceived' = respReceived
     THEN UNCHANGED <<supVars, callVars>>
     ELSE Take(Message(Last(respReceived')))
  /\ UNCHANGED <<mockVars, reqVars, errVars, loopVars>>

ReceiveEof ==
  /\ phase = "await"
  /\ Responses!ReadEof
  /\ Conclude(Failure)
  /\ UNCHANGED <<mockVars, reqVars, errVars, loopVars, eventQueue>>

(* Drop: the shutdown request, then waiting for the child.  Errors of the  *)
(* write are ignored.                                                      *)
BeginDrop ==
  /\ phase = "idle"
  /\ owner = "registration"
  /\ IF loop = "exited"
     THEN phase' = "wait" /\ UNCHANGED reqVars
     ELSE phase' = "stop" /\ Requests!WriteFrame(Body([id |-> 0, req |-> Shutdown]))
  /\ UNCHANGED <<mockVars, respVars, errVars, loopVars, callVars, owner, nextId,
                 eventQueue>>

StopFails ==
  /\ phase = "stop"
  /\ loop = "exited"
  /\ phase' = "wait"
  /\ UNCHANGED <<mockVars, reqVars, respVars, errVars, loopVars, callVars, owner,
                 nextId, eventQueue>>

(* The child has exited, by itself or killed: the pipes are closed.        *)
Reap ==
  /\ phase = "wait"
  /\ loop = "exited"
  /\ phase' = "gone"
  /\ Requests!WriterEnds
  /\ UNCHANGED <<mockVars, respVars, errVars, loopVars, callVars, owner, nextId,
                 eventQueue>>

(* The host ends without dropping anything.                                *)
HostDies ==
  /\ phase # "gone"
  /\ phase' = "gone"
  /\ Requests!WriterEnds
  /\ draining' = FALSE
  /\ UNCHANGED <<mockVars, respVars, errPipe, loopVars, callVars, owner, nextId,
                 eventQueue>>

-----------------------------------------------------------------------------
(* The thread that drains the child's stderr.                              *)

(* Mutant: the thread ends at such a line but the pipe is kept open.       *)
DrainKeepsPipe ==
  /\ draining
  /\ errPipe # <<>>
  /\ Head(errPipe) = "text"
  /\ errPipe' = Tail(errPipe)
  /\ UNCHANGED <<mockVars, reqVars, respVars, draining, loopVars, callVars, supVars>>

(* A line of text is forwarded.  At one that is not UTF-8 the thread ends, *)
(* and with it the reading end of the pipe.                                *)
DrainLine ==
  /\ draining
  /\ errPipe # <<>>
  /\ IF Head(errPipe) = "text"
     THEN errPipe' = Tail(errPipe) /\ UNCHANGED draining
     ELSE errPipe' = <<>> /\ draining' = FALSE
  /\ UNCHANGED <<mockVars, reqVars, respVars, loopVars, callVars, supVars>>

DrainEof ==
  /\ draining
  /\ errPipe = <<>>
  /\ loop = "exited"
  /\ draining' = FALSE
  /\ UNCHANGED <<mockVars, reqVars, respVars, errPipe, loopVars, callVars, supVars>>

-----------------------------------------------------------------------------
(* The bridge.                                                             *)

(* Mutant: the response comes before the events.                           *)
ResponseFirst(id, a) ==
  [i \in 1..(Len(a.events) + 1) |->
     IF i = 1
     THEN [kind |-> "response", id |-> id, status |-> a.status,
           session |-> a.session]
     ELSE [kind |-> "event", event |-> a.events[i - 1]]]

(* What run() writes for an answer: its events, then the response.         *)
Reply(id, a) ==
  [i \in 1..(Len(a.events) + 1) |->
     IF i <= Len(a.events)
     THEN [kind |-> "event", event |-> a.events[i]]
     ELSE [kind |-> "response", id |-> id, status |-> a.status,
           session |-> a.session]]

(* handle(), and what is logged on the way.                                *)
Dispatch(m) ==
  /\ IF m.req = Shutdown
     THEN /\ outbox' = Reply(0, Ok(NoSession, <<>>))
          /\ UNCHANGED <<mockVars, progress>>
     ELSE /\ Handle(m.req)
          /\ outbox' = Reply(m.id, answer')
          /\ progress' = "answered"
  /\ logLeft' \in 0..MaxLogLines
  /\ loop' = "log"

ReadRequestByte ==
  /\ loop = "read"
  /\ Requests!ReadByte
  /\ IF reqReceived' = reqReceived
     THEN UNCHANGED <<mockVars, loopVars, progress>>
     ELSE Dispatch(Message(Last(reqReceived')))
  /\ UNCHANGED <<respVars, errVars, supVars, result, request, gotBefore>>

(* A log line waits for room in the pipe while somebody may read it, and   *)
(* is lost when nobody can.                                                *)
WriteLogLine ==
  /\ loop = "log"
  /\ logLeft > 0
  /\ IF draining
     THEN /\ Len(errPipe) < ErrLines
          /\ \E line \in {"text", "other"} : errPipe' = Append(errPipe, line)
     ELSE UNCHANGED errPipe
  /\ logLeft' = logLeft - 1
  /\ UNCHANGED <<mockVars, reqVars, respVars, draining, loop, outbox, callVars,
                 supVars>>

BeginReply ==
  /\ loop = "log"
  /\ logLeft = 0
  /\ loop' = "write"
  /\ UNCHANGED <<mockVars, reqVars, respVars, errVars, outbox, logLeft, callVars,
                 supVars>>

SendFrame ==
  /\ loop = "write"
  /\ outbox # <<>>
  /\ Responses!WriteFrame(Body(Head(outbox)))
  /\ outbox' = Tail(outbox)
  /\ UNCHANGED <<mockVars, reqVars, errVars, loop, logLeft, callVars, supVars>>

WriteReplyByte ==
  /\ loop = "write"
  /\ phase # "gone"
  /\ Responses!WriteByte
  /\ UNCHANGED <<mockVars, reqVars, errVars, loopVars, callVars, supVars>>

ShutdownHandled == Message(Last(reqReceived)).id = 0

(* Mutant: the next request is read as soon as the frame is out.           *)
TurnAfterOneFrame ==
  /\ loop = "write"
  /\ respPending = <<>>
  /\ ~ShutdownHandled
  /\ loop' = "read"
  /\ UNCHANGED <<mockVars, reqVars, respVars, errVars, outbox, logLeft, callVars,
                 supVars>>

NextTurn ==
  /\ loop = "write"
  /\ outbox = <<>>
  /\ respPending = <<>>
  /\ ~ShutdownHandled
  /\ loop' = "read"
  /\ UNCHANGED <<mockVars, reqVars, respVars, errVars, outbox, logLeft, callVars,
                 supVars>>

(* The process ends: its pipes are closed, what it had not written is      *)
(* lost.                                                                   *)
Exit ==
  /\ loop # "exited"
  /\ loop' = "exited"
  /\ outbox' = <<>>
  /\ logLeft' = 0
  /\ Responses!WriterEnds

(* run() returns after the shutdown request, when writing fails because    *)
(* nobody can read the answer any more, and at the end of its input.       *)
ExitAfterShutdown ==
  /\ loop = "write"
  /\ outbox = <<>>
  /\ respPending = <<>>
  /\ ShutdownHandled
  /\ Exit
  /\ UNCHANGED <<mockVars, reqVars, errVars, callVars, supVars>>

ExitUnread ==
  /\ loop = "write"
  /\ respPending # <<>>
  /\ phase = "gone"
  /\ Exit
  /\ UNCHANGED <<mockVars, reqVars, errVars, callVars, supVars>>

(* Mutant: only a clean end of the input ends the loop.                    *)
ExitAtCleanEof ==
  /\ loop = "read"
  /\ reqPartial = <<>>
  /\ Requests!ReadEof
  /\ Exit
  /\ UNCHANGED <<mockVars, errVars, callVars, supVars>>

ExitAtEof ==
  /\ loop = "read"
  /\ Requests!ReadEof
  /\ Exit
  /\ UNCHANGED <<mockVars, errVars, callVars, supVars>>

(* It dies, or is killed by a supervisor that has waited long enough.      *)
Crash ==
  /\ Exit
  /\ UNCHANGED <<mockVars, reqVars, errVars, callVars, supVars>>

Kill ==
  /\ phase = "wait"
  /\ Exit
  /\ UNCHANGED <<mockVars, reqVars, errVars, callVars, supVars>>

-----------------------------------------------------------------------------
SupervisorStep ==
  \/ SendByte
  \/ SendFails
  \/ ReceiveByte
  \/ ReceiveEof
  \/ StopFails
  \/ Reap

DrainStep == DrainLine \/ DrainEof

BridgeStep ==
  \/ ReadRequestByte
  \/ WriteLogLine
  \/ BeginReply
  \/ SendFrame
  \/ WriteReplyByte
  \/ NextTurn
  \/ ExitAfterShutdown
  \/ ExitUnread
  \/ ExitAtEof

(* Nobody is waiting for anybody.                                          *)
Rest ==
  /\ phase \in {"idle", "gone"}
  /\ phase = "gone" => loop = "exited"
  /\ UNCHANGED vars

Next ==
  \/ \E req \in Asked : Ask(req)
  \/ BeginDrop
  \/ SupervisorStep
  \/ DrainStep
  \/ BridgeStep
  \/ Kill
  \/ Crash
  \/ HostDies
  \/ Rest

Spec == Init /\ [][Next]_vars

(* The supervisor's thread, the draining thread and the bridge's loop go   *)
(* on while they can, and the deadline of Drop passes.  Nobody has to ask, *)
(* to drop or to die.                                                      *)
Fairness ==
  /\ WF_vars(SupervisorStep)
  /\ WF_vars(DrainStep)
  /\ WF_vars(BridgeStep)
  /\ WF_vars(Kill)

FairSpec == Spec /\ Fairness

-----------------------------------------------------------------------------
(* Properties.                                                             *)

Remote == INSTANCE RemoteBackend WITH
  Askable <- Asked,
  call <- progress,
  received <- SubSeq(eventQueue, 1,
                IF progress = "idle" THEN Len(eventQueue) ELSE gotBefore),
  present <- phase # "gone",
  broken <- loop = "exited"

(* The connection implements a backend that is called directly: a request  *)
(* is executed at most once; a call that returns an answer returns that of *)
(* its own execution, with all the annotations of it and no others; and    *)
(* only a bridge that is gone for good, or a request too large to send,    *)
(* makes a call fail (supervisor.rs request, ipc_loop.rs run).  So it is   *)
(* for frames cut anywhere, pipes full at any time, and both ends dying.   *)
ImplementsRemoteBackend == Remote!Spec

(* The annotations in q that are of session s, in their order.             *)
OfSession(q, s) ==
  LET kept[i \in 0..Len(q)] ==
        IF i = 0 THEN <<>>
        ELSE IF q[i].session = s THEN Append(kept[i - 1], q[i]) ELSE kept[i - 1]
  IN kept[Len(q)]

(* An annotation is where its place in the script, played at fs, puts it;  *)
(* a time that would lie past the end of the axis is left open.            *)
PlacedAt(annotation, place, fs) ==
  /\ annotation.class = place.class
  /\ fs + place.from < Word => annotation.start = fs + place.from
  /\ fs + place.to < Word => annotation.end = fs + place.to

(* Each session's annotations are the script of its decoder, played once   *)
(* from the time of one of its feeds, as far as the time axis reaches:     *)
(* whatever is fed later or again (the loader retries with the same        *)
(* sample), finalized, or fed to other sessions, nothing is played twice,  *)
(* and a call that fails leaves at most a beginning of it.                 *)
ScriptsPlayOnce ==
  \A s \in DOMAIN sessions :
    LET got == OfSession(eventQueue, s)
        script == Script[sessions[s].decoder]
    IN \E fs \in FedTimes :
         /\ Len(got) <= Len(script)
         /\ \A i \in DOMAIN got : PlacedAt(got[i], script[i], fs)
         /\ progress = "idle" /\ loop # "exited" /\ sessions[s].emitted =>
              Len(got) = Len(script)

(* Who waits: to read a pipe that is empty while it has a writer, or to    *)
(* write one that is full while it has a reader.  Of the draining thread   *)
(* nothing more is to be expected once it has ended.                       *)
SupervisorWaits ==
  \/ phase \in {"send", "stop"} /\ loop # "exited" /\ Len(reqPipe) = PipeBytes
  \/ phase = "await" /\ respPipe = <<>> /\ respWriting
BridgeWaits ==
  \/ loop = "read" /\ reqPipe = <<>> /\ reqWriting
  \/ loop = "log" /\ logLeft > 0 /\ draining /\ Len(errPipe) = ErrLines
  \/ /\ loop = "write" /\ respPending # <<>>
     /\ Len(respPipe) = PipeBytes /\ phase # "gone"
DrainWaits == ~draining \/ (errPipe = <<>> /\ loop # "exited")

(* However small the pipes, the three threads never all wait: not the      *)
(* supervisor to send a request while the bridge has an answer to write,   *)
(* not for an answer to a request that never left, not the bridge for its  *)
(* log when nobody reads it; and a bridge whose host is gone waits for     *)
(* nothing (supervisor.rs request, Drop and drain_stderr; ipc_loop.rs      *)
(* run).                                                                   *)
NoCircularWait ==
  SupervisorWaits \/ phase = "gone" => ~(BridgeWaits /\ DrainWaits)

(* Every request returns, as does every drop: however small the three      *)
(* pipes are, the supervisor, the bridge and the draining thread never     *)
(* wait for each other, also when a log line is not text and the draining  *)
(* thread has ended (supervisor.rs drain_stderr), provided that decoders   *)
(* return.                                                                 *)
RequestsReturn == phase \notin {"idle", "gone"} ~> phase \in {"idle", "gone"}

(* When the host or the supervisor goes, in the middle of a frame or not,  *)
(* the bridge ends: it is not left behind waiting.                         *)
BridgeLeavesToo == phase = "gone" ~> loop = "exited"
=============================================================================
