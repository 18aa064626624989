---------------------------- MODULE ShimSessions ----------------------------
(***************************************************************************)
(* The plugin side of crates/shim (abi.rs callbacks, registry.rs Instance  *)
(* and SharedRegistry, supervisor.rs Supervisor) composed with the bridge  *)
(* process of module IpcLoop.                                              *)
(*                                                                         *)
(* The loader may hold several decoder handles and call each of them from  *)
(* one thread at a time; different handles may be called from different    *)
(* threads.  A call is a sequence of steps here, cut where the code takes  *)
(* or releases a mutex and where it reads a frame:                         *)
(*                                                                         *)
(*   create:  BeginCreate, Enter, Ensure (or Refuse), SendRequest,         *)
(*            Receive...                                                   *)
(*   feed, flush:  BeginDecode, SendRequest, Receive..., Drain             *)
(*   destroy:  BeginDestroy, SendRequest, Receive...                       *)
(*                                                                         *)
(* sharedLock is the mutex around SHARED, held from SendRequest until the  *)
(* response is in (or the connection fails), released, and taken again by  *)
(* Drain; registryLock is the mutex around REGISTRY, held through create.  *)
(* The event queue is kept per session: its order across sessions is never *)
(* observed, since a drain empties it whole and keeps one session's part.  *)
(***************************************************************************)
EXTENDS IpcLoop, SequencesExt

CONSTANTS
  Handles,          \* what the loader may use as decoder handles
  Nobody,           \* the owner of a free mutex
  SlotCounts,       \* sizes of the transaction arrays the loader passes
  MaxRequests       \* bound: requests sent on the connection

ASSUME NobodyIsNoHandle == Nobody \notin Handles
ASSUME SlotCountsAssumption == SlotCounts \subseteq Nat
ASSUME RequestBound == MaxRequests \in Nat

VARIABLES
  registryLock,  \* the thread holding REGISTRY, named by its handle
  sharedLock,    \* the thread holding SHARED
  supervisor,    \* whether SHARED holds a supervisor
  nextId,        \* Supervisor::next_id
  eventQueue,    \* Supervisor::event_queue, by session
  phase,         \* where the handle's current call stands
  op,            \* the request of that call
  slots,         \* the size of the array that call passed
  session,       \* Instance::session_id
  inbox,         \* Instance::inbox
  emitted,       \* Instance::emitted: strings the loader may still read
  delivered,     \* history: all the handle's calls have returned
  result         \* the code the handle's last call returned

shimVars == <<registryLock, sharedLock, supervisor, nextId, eventQueue, phase,
              op, slots, session, inbox, emitted, delivered, result>>
vars == <<bridgeVars, shimVars>>

Phase == {"absent", "enter", "spawn", "request", "await", "drain", "ready"}
Idle == {"absent", "ready"}
CurrentId == nextId - 1

TypeOK ==
  /\ BridgeTypeOK
  /\ registryLock \in Handles \cup {Nobody}
  /\ sharedLock \in Handles \cup {Nobody}
  /\ supervisor \in BOOLEAN
  /\ nextId \in Nat \ {0}
  /\ eventQueue \in [SessionId -> Seq(Annotation)]
  /\ phase \in [Handles -> Phase]
  /\ op \in [Handles -> RequestOp]
  /\ slots \in [Handles -> Nat]
  /\ session \in [Handles -> SessionId \cup {NoSession}]
  /\ inbox \in [Handles -> Seq(Annotation)]
  /\ emitted \in [Handles -> Seq(Annotation)]
  /\ delivered \in [Handles -> Seq(Annotation)]
  /\ result \in [Handles -> {"none", "ok", "more", "err"}]

Init ==
  /\ BridgeInit
  /\ registryLock = Nobody
  /\ sharedLock = Nobody
  /\ supervisor = FALSE
  /\ nextId = 1
  /\ eventQueue = [s \in SessionId |-> <<>>]
  /\ phase = [h \in Handles |-> "absent"]
  /\ op = [h \in Handles |-> "create"]
  /\ slots = [h \in Handles |-> 0]
  /\ session = [h \in Handles |-> NoSession]
  /\ inbox = [h \in Handles |-> <<>>]
  /\ emitted = [h \in Handles |-> <<>>]
  /\ delivered = [h \in Handles |-> <<>>]
  /\ result = [h \in Handles |-> "none"]

-----------------------------------------------------------------------------
(* The loader.                                                             *)

(* The loader may start a call: one per handle at a time, on any handles   *)
(* at the same time.                                                       *)
MayCall == nextId <= MaxRequests

BeginCreate(h) ==
  /\ phase[h] = "absent"
  /\ MayCall
  /\ phase' = [phase EXCEPT ![h] = "enter"]
  /\ op' = [op EXCEPT ![h] = "create"]
  /\ result' = [result EXCEPT ![h] = "none"]
  /\ UNCHANGED <<bridgeVars, registryLock, sharedLock, supervisor, nextId,
                 eventQueue, slots, session, inbox, emitted, delivered>>

(* feed and flush differ only in the request they send.                    *)
BeginDecode(h) ==
  /\ phase[h] = "ready"
  /\ MayCall
  /\ phase' = [phase EXCEPT ![h] = "request"]
  /\ \E o \in {"feed", "finalize"} : op' = [op EXCEPT ![h] = o]
  /\ \E n \in SlotCounts : slots' = [slots EXCEPT ![h] = n]
  /\ result' = [result EXCEPT ![h] = "none"]
  /\ UNCHANGED <<bridgeVars, registryLock, sharedLock, supervisor, nextId,
                 eventQueue, session, inbox, emitted, delivered>>

BeginDestroy(h) ==
  /\ phase[h] = "ready"
  /\ MayCall
  /\ phase' = [phase EXCEPT ![h] = "request"]
  /\ op' = [op EXCEPT ![h] = "destroy"]
  /\ result' = [result EXCEPT ![h] = "none"]
  /\ UNCHANGED <<bridgeVars, registryLock, sharedLock, supervisor, nextId,
                 eventQueue, slots, session, inbox, emitted, delivered>>

-----------------------------------------------------------------------------
(* How a call ends.                                                        *)

(* The handle is gone, or never came to be: create returned null, or the   *)
(* Box of the instance was dropped.                                        *)
Dispose(h, r) ==
  /\ phase' = [phase EXCEPT ![h] = "absent"]
  /\ session' = [session EXCEPT ![h] = NoSession]
  /\ inbox' = [inbox EXCEPT ![h] = <<>>]
  /\ emitted' = [emitted EXCEPT ![h] = <<>>]
  /\ delivered' = [delivered EXCEPT ![h] = <<>>]
  /\ result' = [result EXCEPT ![h] = r]

Open(h, s) ==
  /\ phase' = [phase EXCEPT ![h] = "ready"]
  /\ session' = [session EXCEPT ![h] = s]
  /\ result' = [result EXCEPT ![h] = "ok"]
  /\ UNCHANGED <<inbox, emitted, delivered>>

GoTo(h, p, r) ==
  /\ phase' = [phase EXCEPT ![h] = p]
  /\ result' = [result EXCEPT ![h] = r]
  /\ UNCHANGED <<session, inbox, emitted, delivered>>

(* The request of h failed: io error, dead bridge, or an error response.   *)
(* A failed create returns null, a failed feed or flush an error code; the *)
(* result of a destroy is ignored.                                         *)
Fail(h) ==
  CASE op[h] = "create" -> Dispose(h, "err")
    [] op[h] = "destroy" -> Dispose(h, "ok")
    [] OTHER -> GoTo(h, "ready", "err")

Succeed(h, resp) ==
  CASE op[h] = "create" -> Open(h, resp.session)
    [] op[h] = "destroy" -> Dispose(h, "ok")
    [] OTHER -> GoTo(h, "drain", "none")

(* Mutant: REGISTRY stays locked after a create.                           *)
ReleaseSharedOnly(h) ==
  /\ sharedLock' = Nobody
  /\ UNCHANGED registryLock

(* The guard of SHARED goes out of scope, and for a create that of         *)
(* REGISTRY too.                                                           *)
ReleaseLocks(h) ==
  /\ sharedLock' = Nobody
  /\ registryLock' = IF op[h] = "create" THEN Nobody ELSE registryLock

-----------------------------------------------------------------------------
(* Steps of a call.                                                        *)

(* create takes REGISTRY for the whole of create_instance.                 *)
Enter(h) ==
  /\ phase[h] = "enter"
  /\ registryLock = Nobody
  /\ registryLock' = h
  /\ phase' = [phase EXCEPT ![h] = "spawn"]
  /\ UNCHANGED <<bridgeVars, sharedLock, supervisor, nextId, eventQueue, op,
                 slots, session, inbox, emitted, delivered, result>>

(* create stops before the request: a configuration create_instance        *)
(* rejects, or a bridge binary that cannot be spawned.                     *)
Refuse(h) ==
  /\ phase[h] = "spawn"
  /\ Dispose(h, "err")
  /\ registryLock' = Nobody
  /\ UNCHANGED <<bridgeVars, sharedLock, supervisor, nextId, eventQueue, op,
                 slots>>

(* SharedRegistry::ensure spawns only when there is no supervisor yet.     *)
Ensure(h) ==
  /\ phase[h] = "spawn"
  /\ sharedLock = Nobody
  /\ IF supervisor THEN UNCHANGED bridgeVars ELSE Spawn
  /\ supervisor' = TRUE
  /\ phase' = [phase EXCEPT ![h] = "request"]
  /\ UNCHANGED <<registryLock, sharedLock, nextId, eventQueue, op, slots,
                 session, inbox, emitted, delivered, result>>

(* Supervisor::request up to the write, under SHARED.  The request is      *)
(* written, blocking while the pipe is full; or write_frame fails before   *)
(* the first byte: on a dead bridge's pipe, or (FrameTooLarge) because the *)
(* body is over the limit, as a create's with its configuration and a      *)
(* feed's with its batch may be.  The others carry only a session id.      *)
OversizeOp == {"create", "feed"}

Write(h) ==
  /\ bridge = "running"
  /\ Len(reqPipe) < PipeCapacity
  /\ reqPipe' = Append(reqPipe, [id |-> nextId, op |-> op[h],
                                 session |-> session[h]])
  /\ sharedLock' = h
  /\ phase' = [phase EXCEPT ![h] = "await"]
  /\ UNCHANGED <<registryLock, session, inbox, emitted, delivered, result>>

WriteFails(h) ==
  /\ bridge # "running" \/ op[h] \in OversizeOp
  /\ Fail(h)
  /\ ReleaseLocks(h)
  /\ UNCHANGED reqPipe

SendRequest(h) ==
  /\ phase[h] = "request"
  /\ sharedLock = Nobody
  /\ nextId' = nextId + 1
  /\ Write(h) \/ WriteFails(h)
  /\ UNCHANGED <<bridge, respPipe, outbox, sessions, nextSession, produced,
                 supervisor, eventQueue, op, slots>>

(* The receive loop of Supervisor::request, one frame at a time.           *)
ReceiveEvent(h) ==
  /\ phase[h] = "await"
  /\ respPipe # <<>>
  /\ Head(respPipe).kind = "event"
  /\ LET e == Head(respPipe)
     IN eventQueue' = [eventQueue EXCEPT
                         ![e.session] = Append(@, [session |-> e.session,
                                                   n |-> e.n])]
  /\ respPipe' = Tail(respPipe)
  /\ UNCHANGED <<bridge, reqPipe, outbox, sessions, nextSession, produced,
                 registryLock, sharedLock, supervisor, nextId, phase, op,
                 slots, session, inbox, emitted, delivered, result>>

Conclude(h, resp) ==
  /\ IF resp.status = "ok" THEN Succeed(h, resp) ELSE Fail(h)
  /\ ReleaseLocks(h)

(* A response to another request is dropped and the loop goes on.          *)
DropOrphan ==
  UNCHANGED <<registryLock, sharedLock, phase, session, inbox, emitted,
              delivered, result>>

ReceiveResponse(h) ==
  /\ phase[h] = "await"
  /\ respPipe # <<>>
  /\ Head(respPipe).kind = "response"
  /\ IF Head(respPipe).id = CurrentId
     THEN Conclude(h, Head(respPipe))
     ELSE DropOrphan
  /\ respPipe' = Tail(respPipe)
  /\ UNCHANGED <<bridge, reqPipe, outbox, sessions, nextSession, produced,
                 supervisor, nextId, eventQueue, op, slots>>

(* End of file on the response pipe: everything the dead bridge wrote has  *)
(* been read.                                                              *)
ReceiveEof(h) ==
  /\ phase[h] = "await"
  /\ respPipe = <<>>
  /\ bridge = "dead"
  /\ Fail(h)
  /\ ReleaseLocks(h)
  /\ UNCHANGED <<bridgeVars, supervisor, nextId, eventQueue, op, slots>>

(* Mutants: the drain does not filter by session; it takes one event.      *)
DrainsEverything(s) == FlattenSeq(eventQueue)
DrainsOne(s) ==
  IF eventQueue[s] = <<>> THEN <<>> ELSE <<Head(eventQueue[s])>>

(* drain_pending_events_for: what the caller gets out of the queue, and    *)
(* what is left in it.                                                     *)
DrainedFor(s) == eventQueue[s]
LeftAfterDrain(s) == [t \in SessionId |-> <<>>]

(* Mutant: what an earlier call left in the inbox is dropped.              *)
HandOutFresh(h, all) ==
  /\ inbox' = [inbox EXCEPT ![h] = <<>>]
  /\ emitted' = [emitted EXCEPT ![h] = DrainedFor(session[h])]
  /\ delivered' = [delivered EXCEPT ![h] = @ \o DrainedFor(session[h])]
  /\ result' = [result EXCEPT ![h] = "ok"]

(* take_up_to: the loader gets the whole inbox, or is told how many slots  *)
(* it needs and the inbox keeps it.                                        *)
HandOut(h, all) ==
  /\ inbox' = [inbox EXCEPT ![h] = <<>>]
  /\ emitted' = [emitted EXCEPT ![h] = all]
  /\ delivered' = [delivered EXCEPT ![h] = @ \o all]
  /\ result' = [result EXCEPT ![h] = "ok"]

AskForMore(h, all) ==
  /\ inbox' = [inbox EXCEPT ![h] = all]
  /\ result' = [result EXCEPT ![h] = "more"]
  /\ UNCHANGED <<emitted, delivered>>

(* Mutant: the queue is drained without taking SHARED.                     *)
DrainUnlocked(h) ==
  /\ phase[h] = "drain"
  /\ eventQueue' = LeftAfterDrain(session[h])
  /\ LET all == inbox[h] \o DrainedFor(session[h])
     IN IF Len(all) <= slots[h] THEN HandOut(h, all) ELSE AskForMore(h, all)
  /\ phase' = [phase EXCEPT ![h] = "ready"]
  /\ UNCHANGED <<bridgeVars, registryLock, sharedLock, supervisor, nextId, op,
                 slots, session>>

(* drain_events, with SHARED taken again, and take_up_to.                  *)
Drain(h) ==
  /\ phase[h] = "drain"
  /\ sharedLock = Nobody
  /\ eventQueue' = LeftAfterDrain(session[h])
  /\ LET all == inbox[h] \o DrainedFor(session[h])
     IN IF Len(all) <= slots[h] THEN HandOut(h, all) ELSE AskForMore(h, all)
  /\ phase' = [phase EXCEPT ![h] = "ready"]
  /\ UNCHANGED <<bridgeVars, registryLock, sharedLock, supervisor, nextId, op,
                 slots, session>>

-----------------------------------------------------------------------------
Call(h) == BeginCreate(h) \/ BeginDecode(h) \/ BeginDestroy(h)
ShimStep(h) ==
  \/ Enter(h)
  \/ Refuse(h)
  \/ Ensure(h)
  \/ SendRequest(h)
  \/ ReceiveEvent(h)
  \/ ReceiveResponse(h)
  \/ ReceiveEof(h)
  \/ Drain(h)
BridgeStep == ReadRequest \/ WriteFrame

(* Nothing is under way and the loader stops calling: the only way the     *)
(* system may rest.                                                        *)
AllIdle == \A h \in Handles : phase[h] \in Idle
Rest == AllIdle /\ UNCHANGED vars

Next ==
  \/ \E h \in Handles : Call(h) \/ ShimStep(h)
  \/ BridgeStep /\ UNCHANGED shimVars
  \/ Crash /\ UNCHANGED shimVars
  \/ Rest

Spec == Init /\ [][Next]_vars

(* Threads inside a call keep running, and so does the bridge's loop.  The *)
(* loader owes nobody another call and the bridge need not crash.          *)
Fairness ==
  /\ \A h \in Handles : WF_vars(ShimStep(h))
  /\ WF_vars(BridgeStep /\ UNCHANGED shimVars)

FairSpec == Spec /\ Fairness

-----------------------------------------------------------------------------
(* Properties.                                                             *)

OpenHandles == {h \in Handles : session[h] # NoSession}
IsResponse(f) == f.kind = "response"

(* Requests and responses correspond one to one (supervisor.rs request,    *)
(* ipc_loop.rs run): whatever is under way between the two processes is    *)
(* there for the one thread that holds SHARED, carries the id it waits     *)
(* for, and nothing follows the response.  So nothing of an earlier call,  *)
(* failed or not, can be taken for the answer to a later one, and the      *)
(* orphan branch of the receive loop is never taken.                       *)
OneInFlight ==
  LET wire == respPipe \o outbox
  IN /\ sharedLock = Nobody => reqPipe = <<>> /\ wire = <<>>
     /\ \A i \in DOMAIN reqPipe :
          /\ i = 1
          /\ wire = <<>>
          /\ reqPipe[i].id = CurrentId
          /\ reqPipe[i].op = op[sharedLock]
     /\ \A i \in DOMAIN wire :
          IF IsResponse(wire[i])
          THEN i = Len(wire) /\ wire[i].id = CurrentId
          ELSE wire[i].session = session[sharedLock]

(* Refinement: what the service holds for an open handle is in its inbox,  *)
(* in the queue and, while it waits, in the response pipe and the bridge's *)
(* outbox, in that order; a response among them comes last (OneInFlight).  *)
Answered(frames) == frames # <<>> /\ IsResponse(frames[Len(frames)])
EventsOf(frames) ==
  [i \in 1..(IF Answered(frames) THEN Len(frames) - 1 ELSE Len(frames)) |->
     [session |-> frames[i].session, n |-> frames[i].n]]
UnderWay(h) == IF sharedLock = h THEN EventsOf(respPipe \o outbox) ELSE <<>>
HeldFor(h) ==
  IF session[h] = NoSession THEN <<>>
  ELSE (inbox[h] \o eventQueue[session[h]]) \o UnderWay(h)

Busy == {h \in Handles : phase[h] \notin Idle}
Made == [h \in Handles |-> IF session[h] = NoSession THEN 0
                           ELSE produced[session[h]]]
Held == [h \in Handles |-> HeldFor(h)]
Broken == bridge = "dead"

Service == INSTANCE DecodeService WITH
  Streams <- SessionId,
  NoStream <- NoSession,
  busy <- Busy,
  stream <- session,
  made <- Made,
  held <- Held,
  broken <- Broken

(* The plugin and the bridge together implement the service of module      *)
(* DecodeService: a call on a handle that no other call overlaps hands out *)
(* everything its session has produced, each annotation once and in order, *)
(* or keeps all of it for the next one (registry.rs feed and flush; the    *)
(* order of frames in ipc_loop.rs; the drain and the inbox).               *)
ImplementsDecodeService == Service!Spec

(* A handle sees its own session only, each annotation at most once and in *)
(* the order the decoder produced them (registry.rs drain_events filters   *)
(* by session, ipc_loop.rs tags events), whatever the other handles do,    *)
(* whatever fails, and however often a call is retried.                    *)
OwnInOrder ==
  \A h \in Handles :
    LET seen == delivered[h] \o inbox[h]
    IN /\ \A i \in DOMAIN seen : seen[i].session = session[h]
       /\ \A i, j \in DOMAIN seen : i < j => seen[i].n < seen[j].n
       /\ \A i \in DOMAIN seen : seen[i].n <= produced[session[h]]

(* The bridge's session table and the shim's instances agree whenever no   *)
(* request is under way: an open handle has its session, no two handles    *)
(* share one, and the bridge keeps no session without a handle (the        *)
(* outcome of a failed create or a destroy is not remembered anywhere).    *)
SessionTablesAgree ==
  sharedLock = Nobody /\ bridge = "running" =>
    /\ sessions = {session[h] : h \in OpenHandles}
    /\ \A g, h \in OpenHandles : g # h => session[g] # session[h]

(* What a feed or flush has put in the inbox or returned stays there until *)
(* the handle is destroyed: a call that asks for more slots, fails, or     *)
(* meets a dead bridge takes nothing back (registry.rs take_up_to).        *)
DeliveryOnlyAppends ==
  [][\A h \in Handles : session'[h] = session[h] =>
       /\ IsPrefix(delivered[h], delivered'[h])
       /\ IsPrefix(delivered[h] \o inbox[h], delivered'[h] \o inbox'[h])]_vars

(* A call that returns OK has handed out every annotation the session has  *)
(* produced so far (registry.rs:311, "return any annotations the bridge    *)
(* has produced since the last call"): none is late and none is lost.      *)
OkMeansComplete ==
  \A h \in Handles :
    phase[h] = "ready" /\ result[h] = "ok"
      => Len(delivered[h]) = produced[session[h]]

(* An annotation can be lost in one window only: after the response to a   *)
(* feed and before the drain of the same call, while SHARED is free and    *)
(* another handle drains the common queue; the call's own drain loses      *)
(* nothing.  Once the bridge is dead, another handle's drain may also      *)
(* discard what a failed call left in the queue.                           *)
LossOnlyInWindow ==
  [][\A h \in OpenHandles :
       /\ eventQueue[session[h]] # <<>>
       /\ eventQueue'[session[h]] = <<>>
       /\ phase'[h] # "absent"
       /\ inbox'[h] = inbox[h]
       /\ delivered'[h] = delivered[h]
       => /\ phase[h] = "drain" \/ bridge = "dead"
          /\ phase'[h] = phase[h]]_vars

(* Who waits in a call: for a mutex that is held, for room in the request  *)
(* pipe, or for an answer.  The bridge goes on when it has a request to    *)
(* read or room to write.                                                  *)
Waits(h) ==
  \/ phase[h] = "enter" /\ registryLock # Nobody
  \/ phase[h] \in {"spawn", "request", "drain"} /\ sharedLock # Nobody
  \/ phase[h] = "request" /\ bridge = "running" /\ Len(reqPipe) = PipeCapacity
  \/ phase[h] = "await" /\ respPipe = <<>> /\ bridge # "dead"
BridgeGoesOn ==
  /\ bridge = "running"
  /\ IF outbox = <<>> THEN reqPipe # <<>> ELSE Len(respPipe) < PipeCapacity

(* However many handles are called at once and however small the pipes,    *)
(* the calls never all wait with nobody to go on: not for each other's     *)
(* mutexes, of which create holds one while it takes the other, not for an *)
(* answer that nobody writes, not for a bridge that has died (registry.rs  *)
(* create, feed and flush; supervisor.rs request; ipc_loop.rs run).        *)
NoCallIsStuck ==
  Busy # {} => BridgeGoesOn \/ \E h \in Busy : ~Waits(h)

(* A call returns, the bridge alive or dead, unless other handles make one *)
(* call after the other for ever: neither the order of the two mutexes nor *)
(* the pipes, whatever their capacity, can hold a thread up by themselves  *)
(* (std's Mutex is not fair, so a stream of calls can starve a waiter).    *)
CallsReturn ==
  \A h \in Handles :
    <>[](phase[h] \notin Idle) =>
      \E g \in Handles \ {h} : []<>(phase[g] \in Idle) /\ []<>(phase[g] \notin Idle)

(* "The next create_session call respawns a fresh subprocess" after a      *)
(* crash (docs/ARCHITECTURE.md:197-199): a create that goes on to its      *)
(* request has a running bridge once ensure is through.                    *)
CreateRespawns ==
  [][\A h \in Handles :
       phase[h] = "spawn" /\ phase'[h] = "request" => bridge' = "running"]_vars
=============================================================================
