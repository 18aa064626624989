------------------------- MODULE ShimSessionsProofs -------------------------
(***************************************************************************)
(* Proofs about module ShimSessions, for every value of its constants.     *)
(*                                                                         *)
(* First its types, and that requests and responses are in step.  Then, by *)
(* the same invariant, what the handles get: the sessions they were given, *)
(* and the annotations of those; and that the shim with its bridge         *)
(* implements module DecodeService.                                        *)
(***************************************************************************)
EXTENDS ShimSessions, SequenceTheorems, TLAPS

(***************************************************************************)
(* The inductive invariant.  TypeOK alone is not inductive: that a drain   *)
(* looks up an existing session, say, rests on the answer to a create      *)
(* having been taken for that create and for nothing else.                 *)
(***************************************************************************)

(* Who holds the two mutexes, and what each point of a call knows of it.   *)
InCreate(h) ==
  phase[h] = "spawn" \/ (phase[h] \in {"request", "await"} /\ op[h] = "create")
HasSession(h) ==
  \/ phase[h] \in {"ready", "drain"}
  \/ phase[h] \in {"request", "await"} /\ op[h] # "create"

LockInv ==
  \A h \in Handles :
    /\ phase[h] = "await" <=> sharedLock = h
    /\ InCreate(h) <=> registryLock = h
    /\ phase[h] \in {"enter", "spawn"} => op[h] = "create"
    /\ phase[h] = "drain" => op[h] \in {"feed", "finalize"}
    /\ HasSession(h) <=> session[h] # NoSession

(* f may be on the wire while h waits: an event of h's session, or the     *)
(* response to h's request.                                                *)
Awaited(h, f) ==
  IF IsResponse(f)
  THEN /\ f.id = CurrentId
       /\ op[h] = "create" /\ f.status = "ok" => f.session # NoSession
  ELSE f.session = session[h]

(* All frames of q are awaited by h and a response ends it.                *)
AnswerStream(h, q) ==
  \A i \in DOMAIN q : Awaited(h, q[i]) /\ (IsResponse(q[i]) => i = Len(q))

WireInv ==
  /\ sharedLock = Nobody => reqPipe = <<>> /\ respPipe = <<>> /\ outbox = <<>>
  /\ bridge # "running" => reqPipe = <<>> /\ outbox = <<>>
  /\ reqPipe # <<>> => respPipe = <<>> /\ outbox = <<>>
  /\ outbox # <<>> => \A i \in DOMAIN respPipe : ~IsResponse(respPipe[i])
  /\ \A h \in Handles : sharedLock = h =>
       /\ reqPipe # <<>> => reqPipe = <<[id |-> CurrentId, op |-> op[h],
                                         session |-> session[h]]>>
       /\ AnswerStream(h, respPipe)
       /\ AnswerStream(h, outbox)

IInv == TypeOK /\ LockInv /\ WireInv

-----------------------------------------------------------------------------
(* A sequence that is not empty has a typed head and a typed tail.         *)
LEMMA HeadTailTyped ==
  ASSUME NEW S, NEW q \in Seq(S), q # <<>>
  PROVE  Head(q) \in S /\ Tail(q) \in Seq(S)
  OBVIOUS

(* What the bridge writes for a decoding request is a sequence of frames.  *)
LEMMA EventsThenResponseTyped ==
  ASSUME BridgeTypeOK, NEW id \in Nat, NEW s \in SessionId, NEW k \in Nat
  PROVE  EventsThenResponse(id, s, k) \in Seq(Frame)
<1>1. \A i \in 1..k : Event(s, produced[s] + i) \in Frame
  BY DEF BridgeTypeOK, Event, Frame, EventFrame
<1>2. Response(id, "ok", s) \in Frame
  BY DEF Response, Frame, ResponseFrame
<1> QED
  BY <1>1, <1>2 DEF EventsThenResponse

(* Type correctness of the bridge's variables under each step of the       *)
(* bridge.                                                                 *)
LEMMA ReadRequestTyped ==
  ASSUME BridgeTypeOK, ReadRequest
  PROVE  BridgeTypeOK'
<1> DEFINE req == Head(reqPipe)
<1>1. req \in Request /\ Tail(reqPipe) \in Seq(Request)
  BY HeadTailTyped DEF BridgeTypeOK, ReadRequest
<1>2. req.id \in Nat /\ req.session \in SessionId \cup {NoSession}
  BY <1>1 DEF Request
<1>3. \A s \in SessionId \cup {NoSession}, st \in {"ok", "err"} :
        <<Response(req.id, st, s)>> \in Seq(Frame)
  BY <1>2 DEF Response, Frame, ResponseFrame
<1>4. UNCHANGED <<bridge, respPipe>> /\ reqPipe' \in Seq(Request)
  BY <1>1 DEF ReadRequest
<1>5. CASE HandleCreateSession(req)
  <2>1. CASE /\ nextSession <= MaxSessions
             /\ sessions' = sessions \cup {nextSession}
             /\ nextSession' = nextSession + 1
             /\ outbox' = <<Response(req.id, "ok", nextSession)>>
    <3>1. nextSession \in SessionId
      BY <2>1, SessionBound DEF BridgeTypeOK, SessionId
    <3>2. outbox' \in Seq(Frame) /\ sessions' \subseteq SessionId
      BY <2>1, <3>1, <1>3 DEF BridgeTypeOK
    <3>3. nextSession' \in 1..(MaxSessions + 1)
      BY <2>1, SessionBound DEF BridgeTypeOK
    <3> QED
      BY <3>2, <3>3, <1>4, <1>5 DEF HandleCreateSession, BridgeTypeOK
  <2>2. CASE /\ outbox' = <<Response(req.id, "err", NoSession)>>
             /\ UNCHANGED <<sessions, nextSession>>
    BY <2>2, <1>3, <1>4, <1>5 DEF HandleCreateSession, BridgeTypeOK
  <2> QED
    BY <1>5, <2>1, <2>2 DEF HandleCreateSession
<1>6. CASE HandleDecode(req)
  <2>1. CASE req.session \in sessions
             /\ \E k \in 0..(MaxAnnotations - produced[req.session]) :
                  /\ outbox' = EventsThenResponse(req.id, req.session, k)
                  /\ produced' = [produced EXCEPT ![req.session] = @ + k]
    <3>1. PICK k \in 0..(MaxAnnotations - produced[req.session]) :
                  /\ outbox' = EventsThenResponse(req.id, req.session, k)
                  /\ produced' = [produced EXCEPT ![req.session] = @ + k]
      BY <2>1
    <3>2. req.session \in SessionId
      BY <2>1 DEF BridgeTypeOK
    <3>a. k \in Nat /\ req.id \in Nat
      BY <1>2
    <3>3. outbox' \in Seq(Frame)
      <4>1. EventsThenResponse(req.id, req.session, k) \in Seq(Frame)
        BY <3>a, <3>2, EventsThenResponseTyped
      <4> QED
        BY <4>1, <3>1
    <3>4. produced' \in [SessionId -> 0..MaxAnnotations]
      BY <3>1, <3>2, AnnotationBound DEF BridgeTypeOK
    <3> QED
      BY <3>3, <3>4, <1>4, <1>6 DEF HandleDecode, BridgeTypeOK
  <2>2. CASE /\ outbox' = <<Response(req.id, "err", NoSession)>>
             /\ UNCHANGED produced
    BY <2>2, <1>3, <1>4, <1>6 DEF HandleDecode, BridgeTypeOK
  <2> QED
    BY <1>6, <2>1, <2>2 DEF HandleDecode
<1>7. CASE HandleDestroy(req)
  BY <1>3, <1>4, <1>7 DEF HandleDestroy, BridgeTypeOK
<1> QED
  BY <1>5, <1>6, <1>7 DEF ReadRequest, Handle

(* Each step of the bridge, and its death, keeps the types of the bridge's *)
(* variables.                                                              *)
LEMMA BridgeStepTyped ==
  ASSUME BridgeTypeOK, BridgeStep \/ Crash
  PROVE  BridgeTypeOK'
<1>1. CASE ReadRequest
  BY <1>1, ReadRequestTyped
<1>2. CASE WriteFrame
  BY <1>2, HeadTailTyped DEF WriteFrame, BridgeTypeOK
<1>3. CASE Crash
  BY <1>3 DEF Crash, BridgeTypeOK
<1> QED
  BY <1>1, <1>2, <1>3 DEF BridgeStep

-----------------------------------------------------------------------------
(* The variables the outcome of a call changes.                            *)
OutcomeTypeOK ==
  /\ phase \in [Handles -> Phase]
  /\ session \in [Handles -> SessionId \cup {NoSession}]
  /\ inbox \in [Handles -> Seq(Annotation)]
  /\ emitted \in [Handles -> Seq(Annotation)]
  /\ delivered \in [Handles -> Seq(Annotation)]
  /\ result \in [Handles -> {"none", "ok", "more", "err"}]

(* Giving a handle up keeps the types of the outcome variables.            *)
LEMMA DisposeTyped ==
  ASSUME OutcomeTypeOK, NEW h \in Handles, NEW r \in {"ok", "err"},
         Dispose(h, r)
  PROVE  OutcomeTypeOK'
  BY DEF OutcomeTypeOK, Dispose, Phase

(* So does moving a call on, with any code.                                *)
LEMMA GoToTyped ==
  ASSUME OutcomeTypeOK, NEW h \in Handles, NEW p \in Phase,
         NEW r \in {"none", "ok", "err"}, GoTo(h, p, r)
  PROVE  OutcomeTypeOK'
  BY DEF OutcomeTypeOK, GoTo

(* So does opening a handle, with a session or without.                    *)
LEMMA OpenTyped ==
  ASSUME OutcomeTypeOK, NEW h \in Handles,
         NEW s \in SessionId \cup {NoSession}, Open(h, s)
  PROVE  OutcomeTypeOK'
  BY DEF OutcomeTypeOK, Open, Phase

(* A failed request ends its call with well-typed variables, whatever the  *)
(* operation.                                                              *)
LEMMA FailTyped ==
  ASSUME OutcomeTypeOK, NEW h \in Handles, op[h] \in RequestOp, Fail(h)
  PROVE  OutcomeTypeOK'
<1>1. CASE op[h] = "create"
  BY <1>1, DisposeTyped DEF Fail
<1>2. CASE op[h] = "destroy"
  BY <1>2, DisposeTyped DEF Fail
<1>3. CASE op[h] \in {"feed", "finalize"}
  <2>1. GoTo(h, "ready", "err")
    BY <1>3 DEF Fail
  <2> QED
    BY <2>1, GoToTyped DEF Phase
<1> QED
  BY <1>1, <1>2, <1>3 DEF RequestOp

(* So does a successful one.                                               *)
LEMMA SucceedTyped ==
  ASSUME OutcomeTypeOK, NEW h \in Handles, op[h] \in RequestOp,
         NEW resp \in ResponseFrame, Succeed(h, resp)
  PROVE  OutcomeTypeOK'
<1>1. CASE op[h] = "create"
  BY <1>1, OpenTyped DEF Succeed, ResponseFrame
<1>2. CASE op[h] = "destroy"
  BY <1>2, DisposeTyped DEF Succeed
<1>3. CASE op[h] \in {"feed", "finalize"}
  <2>1. GoTo(h, "drain", "none")
    BY <1>3 DEF Succeed
  <2> QED
    BY <2>1, GoToTyped DEF Phase
<1> QED
  BY <1>1, <1>2, <1>3 DEF RequestOp

(* TypeOK in the three parts the steps treat apart: the bridge, the        *)
(* outcome of calls, and the rest.                                         *)
LEMMA TypeOKSplit ==
  TypeOK <=> /\ BridgeTypeOK
             /\ OutcomeTypeOK
             /\ registryLock \in Handles \cup {Nobody}
             /\ sharedLock \in Handles \cup {Nobody}
             /\ supervisor \in BOOLEAN
             /\ nextId \in Nat \ {0}
             /\ eventQueue \in [SessionId -> Seq(Annotation)]
             /\ op \in [Handles -> RequestOp]
             /\ slots \in [Handles -> Nat]
  BY DEF TypeOK, OutcomeTypeOK

(* The initial state is well typed.                                        *)
LEMMA InitTyped == Init => TypeOK
<1> SUFFICES ASSUME Init PROVE TypeOK
  OBVIOUS
<1>1. BridgeTypeOK
  BY SessionBound, AnnotationBound DEF Init, BridgeInit, BridgeTypeOK
<1>2. OutcomeTypeOK
  BY DEF Init, OutcomeTypeOK, Phase
<1>3. /\ op \in [Handles -> RequestOp]
      /\ slots \in [Handles -> Nat]
      /\ eventQueue \in [SessionId -> Seq(Annotation)]
  BY DEF Init, RequestOp
<1>4. supervisor \in BOOLEAN
  BY Zenon DEF Init
<1>5. /\ nextId \in Nat \ {0}
      /\ registryLock \in Handles \cup {Nobody}
      /\ sharedLock \in Handles \cup {Nobody}
  <2>1. nextId = 1 /\ registryLock = Nobody /\ sharedLock = Nobody
    BY DEF Init
  <2> QED
    BY <2>1
<1> QED
  BY <1>1, <1>2, <1>3, <1>4, <1>5, TypeOKSplit

(* The loader's calls only touch the handle they are made on.              *)
LEMMA CallTyped ==
  ASSUME TypeOK, NEW h \in Handles, Call(h)
  PROVE  TypeOK'
<1>0. UNCHANGED <<bridge, reqPipe, respPipe, outbox, sessions, nextSession,
                  produced>>
  BY DEF Call, BeginCreate, BeginDecode, BeginDestroy, bridgeVars
<1>1. BridgeTypeOK'
  BY <1>0 DEF TypeOK, BridgeTypeOK
<1>2. CASE BeginCreate(h)
  BY <1>1, <1>2 DEF BeginCreate, TypeOK, Phase, RequestOp
<1>3. CASE BeginDecode(h)
  BY <1>1, <1>3, SlotCountsAssumption DEF BeginDecode, TypeOK, Phase, RequestOp
<1>4. CASE BeginDestroy(h)
  BY <1>1, <1>4 DEF BeginDestroy, TypeOK, Phase, RequestOp
<1> QED
  BY <1>2, <1>3, <1>4 DEF Call

(* A step of the shim alone leaves the bridge's types as they are.         *)
LEMMA BridgeUnchangedTyped ==
  ASSUME TypeOK, UNCHANGED bridgeVars
  PROVE  BridgeTypeOK'
  BY DEF TypeOK, BridgeTypeOK, bridgeVars

(* Spawning the bridge keeps its types.                                    *)
LEMMA SpawnTyped ==
  ASSUME BridgeTypeOK, Spawn
  PROVE  BridgeTypeOK'
  BY DEF BridgeTypeOK, Spawn

(* Sending a request, or failing to, keeps the types.                      *)
LEMMA SendRequestTyped ==
  ASSUME TypeOK, NEW h \in Handles, SendRequest(h)
  PROVE  TypeOK'
<1>1. CASE Write(h)
  <2>1. [id |-> nextId, op |-> op[h], session |-> session[h]] \in Request
    BY DEF TypeOK, Request
  <2>a. reqPipe' \in Seq(Request)
    <3>1. reqPipe' = Append(reqPipe, [id |-> nextId, op |-> op[h],
                                      session |-> session[h]])
      BY <1>1 DEF Write
    <3> QED
      BY <2>1, <3>1, AppendProperties DEF TypeOK, BridgeTypeOK
  <2>2. BridgeTypeOK'
    BY <2>a DEF SendRequest, TypeOK, BridgeTypeOK
  <2>3. OutcomeTypeOK'
    BY <1>1 DEF Write, TypeOK, OutcomeTypeOK, Phase
  <2>4. /\ UNCHANGED <<registryLock, supervisor, eventQueue, op, slots>>
        /\ sharedLock' = h /\ nextId' = nextId + 1
    BY <1>1 DEF SendRequest, Write
  <2>5. nextId' \in Nat \ {0}
    BY <2>4 DEF TypeOK
  <2> QED
    BY <2>2, <2>3, <2>4, <2>5, TypeOKSplit DEF TypeOK, OutcomeTypeOK
<1>2. CASE WriteFails(h)
  <2>1. OutcomeTypeOK'
    BY <1>2, FailTyped DEF SendRequest, WriteFails, TypeOK, OutcomeTypeOK
  <2>2. BridgeTypeOK'
    BY <1>2 DEF SendRequest, WriteFails, TypeOK, BridgeTypeOK
  <2> QED
    BY <1>2, <2>1, <2>2
    DEF SendRequest, WriteFails, ReleaseLocks, TypeOK, OutcomeTypeOK
<1> QED
  BY <1>1, <1>2 DEF SendRequest

(* What is queued for a session is an annotation.                          *)
LEMMA ReceiveEventTyped ==
  ASSUME TypeOK, NEW h \in Handles, ReceiveEvent(h)
  PROVE  TypeOK'
<1> DEFINE e == Head(respPipe)
<1>1. e \in Frame /\ respPipe' \in Seq(Frame)
  BY HeadTailTyped DEF TypeOK, BridgeTypeOK, ReceiveEvent
<1>2. e \in EventFrame
  BY <1>1 DEF ReceiveEvent, Frame, ResponseFrame
<1>3. [session |-> e.session, n |-> e.n] \in Annotation /\ e.session \in SessionId
  BY <1>2 DEF EventFrame, Annotation
<1>4. eventQueue' \in [SessionId -> Seq(Annotation)]
  BY <1>3 DEF TypeOK, ReceiveEvent
<1>5. BridgeTypeOK'
  BY <1>1 DEF TypeOK, BridgeTypeOK, ReceiveEvent
<1> QED
  BY <1>4, <1>5 DEF TypeOK, ReceiveEvent

(* A response, taken or dropped, keeps the types.                          *)
LEMMA ReceiveResponseTyped ==
  ASSUME TypeOK, NEW h \in Handles, ReceiveResponse(h)
  PROVE  TypeOK'
<1> DEFINE resp == Head(respPipe)
<1>1. resp \in Frame /\ respPipe' \in Seq(Frame)
  BY HeadTailTyped DEF TypeOK, BridgeTypeOK, ReceiveResponse
<1>2. resp \in ResponseFrame
  BY <1>1 DEF ReceiveResponse, Frame, EventFrame
<1>3. BridgeTypeOK'
  BY <1>1 DEF TypeOK, BridgeTypeOK, ReceiveResponse
<1>4. OutcomeTypeOK /\ op[h] \in RequestOp
  BY DEF TypeOK, OutcomeTypeOK
<1>5. /\ OutcomeTypeOK'
      /\ registryLock' \in Handles \cup {Nobody}
      /\ sharedLock' \in Handles \cup {Nobody}
  <2>1. CASE Conclude(h, resp)
    <3>1. OutcomeTypeOK'
      BY <2>1, <1>2, <1>4, SucceedTyped, FailTyped DEF Conclude
    <3> QED
      BY <2>1, <3>1 DEF Conclude, ReleaseLocks, TypeOK
  <2>2. CASE DropOrphan
    BY <2>2, <1>4 DEF DropOrphan, OutcomeTypeOK, TypeOK
  <2> QED
    BY <2>1, <2>2 DEF ReceiveResponse
<1> QED
  BY <1>3, <1>5 DEF TypeOK, OutcomeTypeOK, ReceiveResponse

(* A drain is made for a session that exists.                              *)
LEMMA DrainTyped ==
  ASSUME TypeOK, LockInv, NEW h \in Handles, Drain(h)
  PROVE  TypeOK'
<1> DEFINE all == inbox[h] \o DrainedFor(session[h])
<1>1. BridgeTypeOK'
  BY BridgeUnchangedTyped DEF Drain
<1>2. eventQueue' \in [SessionId -> Seq(Annotation)]
  BY DEF Drain, LeftAfterDrain
<1>3. session[h] \in SessionId
  BY DEF Drain, LockInv, HasSession, TypeOK
<1>4. all \in Seq(Annotation)
  BY <1>3, ConcatProperties DEF DrainedFor, TypeOK
<1>5. HandOut(h, all) \/ AskForMore(h, all)
  BY DEF Drain
<1>6. /\ inbox' \in [Handles -> Seq(Annotation)]
      /\ emitted' \in [Handles -> Seq(Annotation)]
      /\ delivered' \in [Handles -> Seq(Annotation)]
      /\ result' \in [Handles -> {"none", "ok", "more", "err"}]
  <2> HIDE DEF all
  <2>1. CASE HandOut(h, all)
    BY <2>1, <1>4, ConcatProperties DEF HandOut, TypeOK
  <2>2. CASE AskForMore(h, all)
    BY <2>2, <1>4 DEF AskForMore, TypeOK
  <2> QED
    BY <1>5, <2>1, <2>2
<1>7. phase' \in [Handles -> Phase]
  BY DEF Drain, TypeOK, Phase
<1> QED
  BY <1>1, <1>2, <1>6, <1>7 DEF Drain, TypeOK

(* Every step of a call keeps the types, given who holds which mutex: a    *)
(* drain needs a session.                                                  *)
LEMMA ShimStepTyped ==
  ASSUME TypeOK, LockInv, NEW h \in Handles, ShimStep(h)
  PROVE  TypeOK'
<1>1. CASE Enter(h)
  <2>1. BridgeTypeOK'
    BY <1>1, BridgeUnchangedTyped DEF Enter
  <2> QED
    BY <1>1, <2>1 DEF Enter, TypeOK, Phase
<1>2. CASE Refuse(h)
  <2>1. BridgeTypeOK' /\ OutcomeTypeOK'
    BY <1>2, BridgeUnchangedTyped, DisposeTyped, TypeOKSplit DEF Refuse
  <2> QED
    BY <1>2, <2>1 DEF Refuse, TypeOK, OutcomeTypeOK
<1>3. CASE Ensure(h)
  <2>1. BridgeTypeOK'
    BY <1>3, BridgeUnchangedTyped, SpawnTyped DEF Ensure, TypeOK
  <2> QED
    BY <1>3, <2>1 DEF Ensure, TypeOK, Phase
<1>4. CASE ReceiveEof(h)
  <2>1. BridgeTypeOK' /\ OutcomeTypeOK'
    BY <1>4, BridgeUnchangedTyped, FailTyped, TypeOKSplit DEF ReceiveEof, TypeOK
  <2> QED
    BY <1>4, <2>1 DEF ReceiveEof, ReleaseLocks, TypeOK, OutcomeTypeOK
<1> QED
  BY <1>1, <1>2, <1>3, <1>4, SendRequestTyped, ReceiveEventTyped,
     ReceiveResponseTyped, DrainTyped
  DEF ShimStep

(* TypeOK is kept by every step, given who holds which mutex.              *)
LEMMA NextTyped ==
  ASSUME TypeOK, LockInv, [Next]_vars
  PROVE  TypeOK'
<1>1. CASE \E h \in Handles : Call(h) \/ ShimStep(h)
  BY <1>1, CallTyped, ShimStepTyped
<1>2. CASE (BridgeStep \/ Crash) /\ UNCHANGED shimVars
  <2>1. BridgeTypeOK'
    BY <1>2, BridgeStepTyped DEF TypeOK
  <2> QED
    BY <1>2, <2>1 DEF TypeOK, shimVars
<1>3. CASE UNCHANGED vars
  BY <1>3, BridgeUnchangedTyped DEF TypeOK, vars, bridgeVars, shimVars
<1> QED
  BY <1>1, <1>2, <1>3 DEF Next, Rest

-----------------------------------------------------------------------------
(* The discipline of the two mutexes.                                      *)

(* Nobody holds a mutex initially.                                         *)
LEMMA InitLock == Init => LockInv
  BY NobodyIsNoHandle DEF Init, LockInv, InCreate, HasSession

(* A request that fails leaves the handle without lock and, unless it was  *)
(* a feed or a flush, without session.                                     *)
LEMMA FailLock ==
  ASSUME TypeOK, LockInv, NEW h \in Handles,
         phase[h] \in {"request", "await"}, sharedLock \in {h, Nobody},
         Fail(h), ReleaseLocks(h), UNCHANGED op
  PROVE  LockInv'
<1>1. CASE op[h] \in {"create", "destroy"}
  <2>1. /\ phase' = [phase EXCEPT ![h] = "absent"]
        /\ session' = [session EXCEPT ![h] = NoSession]
    BY <1>1 DEF Fail, Dispose
  <2> QED
    BY <1>1, <2>1, NobodyIsNoHandle
    DEF ReleaseLocks, TypeOK, LockInv, InCreate, HasSession
<1>2. CASE op[h] \in {"feed", "finalize"}
  <2>1. phase' = [phase EXCEPT ![h] = "ready"] /\ UNCHANGED session
    BY <1>2 DEF Fail, GoTo
  <2> QED
    BY <1>2, <2>1, NobodyIsNoHandle
    DEF ReleaseLocks, TypeOK, LockInv, InCreate, HasSession
<1> QED
  BY <1>1, <1>2 DEF TypeOK, RequestOp

(* A request that succeeds does so with the session a create was waiting   *)
(* for.                                                                    *)
LEMMA SucceedLock ==
  ASSUME TypeOK, LockInv, NEW h \in Handles, phase[h] = "await",
         NEW resp \in ResponseFrame,
         op[h] = "create" => resp.session # NoSession,
         Succeed(h, resp), ReleaseLocks(h), UNCHANGED op
  PROVE  LockInv'
<1>0. sharedLock = h
  BY DEF LockInv
<1>1. CASE op[h] = "create"
  <2>1. /\ phase' = [phase EXCEPT ![h] = "ready"]
        /\ session' = [session EXCEPT ![h] = resp.session]
    BY <1>1 DEF Succeed, Open
  <2> QED
    BY <1>0, <1>1, <2>1, NobodyIsNoHandle
    DEF ReleaseLocks, TypeOK, LockInv, InCreate, HasSession
<1>2. CASE op[h] = "destroy"
  <2>1. Fail(h)
    BY <1>2 DEF Succeed, Fail
  <2> QED
    BY <2>1, <1>0, FailLock
<1>3. CASE op[h] \in {"feed", "finalize"}
  <2>1. phase' = [phase EXCEPT ![h] = "drain"] /\ UNCHANGED session
    BY <1>3 DEF Succeed, GoTo
  <2> QED
    BY <1>0, <1>3, <2>1, NobodyIsNoHandle
    DEF ReleaseLocks, TypeOK, LockInv, InCreate, HasSession
<1> QED
  BY <1>1, <1>2, <1>3 DEF TypeOK, RequestOp

(* A call of the loader starts without either mutex.                       *)
LEMMA CallLock ==
  ASSUME TypeOK, LockInv, NEW h \in Handles, Call(h)
  PROVE  LockInv'
<1>1. CASE BeginCreate(h)
  BY <1>1 DEF BeginCreate, TypeOK, LockInv, InCreate, HasSession
<1>2. CASE BeginDecode(h)
  <2>1. PICK o \in {"feed", "finalize"} : op' = [op EXCEPT ![h] = o]
    BY <1>2 DEF BeginDecode
  <2>2. /\ phase[h] = "ready"
        /\ phase' = [phase EXCEPT ![h] = "request"]
        /\ UNCHANGED <<registryLock, sharedLock, session>>
    BY <1>2 DEF BeginDecode
  <2> QED
    BY <2>1, <2>2 DEF TypeOK, LockInv, InCreate, HasSession
<1>3. CASE BeginDestroy(h)
  BY <1>3 DEF BeginDestroy, TypeOK, LockInv, InCreate, HasSession
<1> QED
  BY <1>1, <1>2, <1>3 DEF Call

(* The response a handle takes is the one it waits for.                    *)
LEMMA HeadAwaited ==
  ASSUME TypeOK, LockInv, WireInv, NEW h \in Handles, phase[h] = "await",
         respPipe # <<>>
  PROVE  Awaited(h, Head(respPipe))
<1>1. sharedLock = h
  BY DEF LockInv
<1>2. 1 \in DOMAIN respPipe /\ respPipe[1] = Head(respPipe)
  BY DEF TypeOK, BridgeTypeOK
<1> QED
  BY <1>1, <1>2 DEF WireInv, AnswerStream

(* A call that gets its response gives up SHARED, and a create REGISTRY    *)
(* too.                                                                    *)
LEMMA ReceiveResponseLock ==
  ASSUME TypeOK, LockInv, WireInv, NEW h \in Handles, ReceiveResponse(h)
  PROVE  LockInv'
<1> DEFINE resp == Head(respPipe)
<1>1. resp \in ResponseFrame
  BY HeadTailTyped DEF ReceiveResponse, TypeOK, BridgeTypeOK, Frame, EventFrame
<1>2. Awaited(h, resp) /\ IsResponse(resp)
  BY HeadAwaited DEF ReceiveResponse, IsResponse
<1>3. Conclude(h, resp) /\ UNCHANGED op
  BY <1>2 DEF ReceiveResponse, Awaited
<1>4. phase[h] = "await" /\ sharedLock = h
  BY DEF ReceiveResponse, LockInv
<1>5. CASE resp.status = "ok"
  BY <1>1, <1>2, <1>3, <1>4, <1>5, SucceedLock DEF Conclude, Awaited
<1>6. CASE resp.status # "ok"
  BY <1>3, <1>4, <1>6, FailLock DEF Conclude
<1> QED
  BY <1>5, <1>6

(* Every step of a call keeps the two mutexes in line with the points the  *)
(* calls have reached.                                                     *)
LEMMA ShimStepLock ==
  ASSUME IInv, NEW h \in Handles, ShimStep(h)
  PROVE  LockInv'
<1> USE DEF IInv
<1>1. CASE Enter(h)
  BY <1>1, NobodyIsNoHandle DEF Enter, TypeOK, LockInv, InCreate, HasSession
<1>2. CASE Refuse(h)
  BY <1>2, NobodyIsNoHandle
  DEF Refuse, Dispose, TypeOK, LockInv, InCreate, HasSession
<1>3. CASE Ensure(h)
  BY <1>3 DEF Ensure, TypeOK, LockInv, InCreate, HasSession
<1>4. CASE SendRequest(h)
  <2>1. CASE Write(h)
    BY <1>4, <2>1, NobodyIsNoHandle
    DEF SendRequest, Write, TypeOK, LockInv, InCreate, HasSession
  <2>2. CASE WriteFails(h)
    BY <1>4, <2>2, FailLock DEF SendRequest, WriteFails
  <2> QED
    BY <1>4, <2>1, <2>2 DEF SendRequest
<1>5. CASE ReceiveEvent(h)
  BY <1>5 DEF ReceiveEvent, LockInv, InCreate, HasSession
<1>6. CASE ReceiveResponse(h)
  BY <1>6, ReceiveResponseLock
<1>7. CASE ReceiveEof(h)
  <2>1. sharedLock = h /\ phase[h] = "await"
    BY <1>7 DEF ReceiveEof, LockInv
  <2> QED
    BY <1>7, <2>1, FailLock DEF ReceiveEof
<1>8. CASE Drain(h)
  <2>1. /\ phase[h] = "drain"
        /\ phase' = [phase EXCEPT ![h] = "ready"]
        /\ UNCHANGED <<registryLock, sharedLock, op, session>>
    BY <1>8 DEF Drain
  <2> QED
    BY <2>1 DEF TypeOK, LockInv, InCreate, HasSession
<1> QED
  BY <1>1, <1>2, <1>3, <1>4, <1>5, <1>6, <1>7, <1>8 DEF ShimStep

(* LockInv is kept by every step from a state of the inductive invariant.  *)
LEMMA NextLock ==
  ASSUME IInv, [Next]_vars
  PROVE  LockInv'
<1>1. CASE \E h \in Handles : Call(h) \/ ShimStep(h)
  BY <1>1, CallLock, ShimStepLock DEF IInv
<1>2. CASE UNCHANGED shimVars
  BY <1>2 DEF IInv, shimVars, LockInv, InCreate, HasSession
<1> QED
  BY <1>1, <1>2 DEF Next, Rest, vars

-----------------------------------------------------------------------------
(* What is on the wire.                                                    *)

(* Nothing is on the wire and nobody waits.                                *)
Quiet ==
  sharedLock = Nobody /\ reqPipe = <<>> /\ respPipe = <<>> /\ outbox = <<>>

(* With nothing under way, WireInv holds.                                  *)
LEMMA QuietWire == Quiet => WireInv
  BY NobodyIsNoHandle DEF Quiet, WireInv

(* Nothing is under way initially.                                         *)
LEMMA InitWire == Init => WireInv
  BY QuietWire DEF Init, BridgeInit, Quiet

(* A step that leaves the wire, the lock and the waiting call alone.       *)
LEMMA WireUntouched ==
  ASSUME WireInv,
         UNCHANGED <<bridge, reqPipe, respPipe, outbox, sharedLock, nextId>>,
         \A g \in Handles :
           sharedLock = g => op'[g] = op[g] /\ session'[g] = session[g]
  PROVE  WireInv'
<1>1. \A g \in Handles : \A f :
        sharedLock = g /\ Awaited(g, f) => Awaited(g, f)'
  BY DEF Awaited, IsResponse, CurrentId
<1>2. \A g \in Handles : \A q :
        sharedLock = g /\ AnswerStream(g, q) => AnswerStream(g, q)'
  BY <1>1 DEF AnswerStream, IsResponse
<1>3. \A g \in Handles : sharedLock = g =>
        AnswerStream(g, respPipe)' /\ AnswerStream(g, outbox)'
  BY <1>2 DEF WireInv
<1>4. CurrentId' = CurrentId
  BY DEF CurrentId
<1> QED
  BY <1>3, <1>4 DEF WireInv, IsResponse

(* A call of the loader puts nothing on the wire.                          *)
LEMMA CallWire ==
  ASSUME IInv, NEW h \in Handles, Call(h)
  PROVE  WireInv'
<1>1. /\ UNCHANGED <<bridge, reqPipe, respPipe, outbox, sharedLock, nextId>>
      /\ UNCHANGED session
      /\ \A g \in Handles \ {h} : op'[g] = op[g]
      /\ phase[h] # "await"
  BY DEF Call, BeginCreate, BeginDecode, BeginDestroy, bridgeVars, IInv, TypeOK
<1>2. sharedLock # h
  BY <1>1 DEF IInv, LockInv
<1> QED
  BY <1>1, <1>2, WireUntouched DEF IInv

(* A request goes out on an empty wire, and carries the id its sender      *)
(* waits for.                                                              *)
LEMMA SendRequestWire ==
  ASSUME IInv, NEW h \in Handles, SendRequest(h)
  PROVE  WireInv'
<1>1. Quiet
  BY DEF SendRequest, IInv, WireInv, Quiet
<1>2. CASE Write(h)
  <2>1. reqPipe' = <<[id |-> nextId, op |-> op[h], session |-> session[h]]>>
    BY <1>1, <1>2 DEF Write, Quiet
  <2>2. CurrentId' = nextId
    BY DEF SendRequest, CurrentId, IInv, TypeOK
  <2>3. /\ sharedLock' = h
        /\ UNCHANGED <<bridge, respPipe, outbox, op, session>>
    BY <1>2 DEF SendRequest, Write
  <2>4. respPipe' = <<>> /\ outbox' = <<>> /\ bridge' = "running"
    BY <1>1, <1>2, <2>3 DEF Write, Quiet
  <2>5. AnswerStream(h, respPipe)' /\ AnswerStream(h, outbox)'
    BY <2>4 DEF AnswerStream
  <2>6. \A g \in Handles : sharedLock' = g =>
          reqPipe' = <<[id |-> CurrentId', op |-> op'[g], session |-> session'[g]]>>
    BY <2>1, <2>2, <2>3
  <2> QED
    BY <2>3, <2>4, <2>5, <2>6, NobodyIsNoHandle DEF WireInv
<1>3. CASE WriteFails(h)
  <2>1. Quiet'
    BY <1>1, <1>3 DEF SendRequest, WriteFails, ReleaseLocks, Quiet
  <2> QED
    BY <2>1, NobodyIsNoHandle DEF Quiet, WireInv
<1> QED
  BY <1>2, <1>3 DEF SendRequest

(* Taking an event off the wire leaves the rest of the answer.             *)
LEMMA ReceiveEventWire ==
  ASSUME IInv, NEW h \in Handles, ReceiveEvent(h)
  PROVE  WireInv'
<1>1. sharedLock = h
  BY DEF ReceiveEvent, IInv, LockInv
<1>2. /\ respPipe # <<>>
      /\ respPipe' = Tail(respPipe)
      /\ UNCHANGED <<bridge, reqPipe, outbox, sharedLock, nextId, op, session>>
  BY DEF ReceiveEvent
<1>3. CurrentId' = CurrentId
  BY <1>2 DEF CurrentId
<1>4. respPipe \in Seq(Frame)
  BY DEF IInv, TypeOK, BridgeTypeOK
<1>5. \A i \in DOMAIN Tail(respPipe) :
        /\ i + 1 \in DOMAIN respPipe
        /\ Tail(respPipe)[i] = respPipe[i + 1]
        /\ i + 1 = Len(respPipe) => i = Len(Tail(respPipe))
  BY <1>2, <1>4
<1>6. AnswerStream(h, respPipe) /\ AnswerStream(h, outbox)
  BY <1>1 DEF IInv, WireInv
<1>7. AnswerStream(h, respPipe)' /\ AnswerStream(h, outbox)'
  BY <1>2, <1>3, <1>5, <1>6 DEF AnswerStream, Awaited, IsResponse
<1>8. outbox # <<>> => \A i \in DOMAIN respPipe' : ~IsResponse(respPipe'[i])
  BY <1>2, <1>5 DEF IInv, WireInv
<1> QED
  BY <1>1, <1>2, <1>3, <1>7, <1>8, NobodyIsNoHandle DEF IInv, WireInv, IsResponse

(* The response taken is the one awaited, and the last frame under way.    *)
LEMMA ReceiveResponseWire ==
  ASSUME IInv, NEW h \in Handles, ReceiveResponse(h)
  PROVE  Quiet'
<1>1. sharedLock = h
  BY DEF ReceiveResponse, IInv, LockInv
<1>2. respPipe \in Seq(Frame) /\ respPipe # <<>> /\ IsResponse(respPipe[1])
  BY DEF ReceiveResponse, IsResponse, IInv, TypeOK, BridgeTypeOK
<1>3. 1 \in DOMAIN respPipe
  BY <1>2
<1>4. Len(respPipe) = 1 /\ Awaited(h, respPipe[1])
  BY <1>1, <1>2, <1>3 DEF IInv, WireInv, AnswerStream
<1>5. respPipe' = <<>>
  BY <1>2, <1>4 DEF ReceiveResponse
<1>6. reqPipe = <<>> /\ outbox = <<>>
  BY <1>2, <1>3 DEF IInv, WireInv
<1>7. Head(respPipe).id = CurrentId
  BY <1>2, <1>4 DEF Awaited
<1> QED
  BY <1>5, <1>6, <1>7 DEF ReceiveResponse, Conclude, ReleaseLocks, Quiet

(* Every step of a call keeps the wire in line with the one thread that    *)
(* waits.                                                                  *)
LEMMA ShimStepWire ==
  ASSUME IInv, NEW h \in Handles, ShimStep(h)
  PROVE  WireInv'
<1>1. CASE Enter(h)
  BY <1>1, WireUntouched DEF Enter, bridgeVars, IInv
<1>2. CASE Refuse(h)
  <2>1. sharedLock # h
    BY <1>2 DEF Refuse, IInv, LockInv
  <2>2. \A g \in Handles \ {h} : session'[g] = session[g]
    BY <1>2 DEF Refuse, Dispose, IInv, TypeOK
  <2> QED
    BY <1>2, <2>1, <2>2, WireUntouched DEF Refuse, bridgeVars, IInv
<1>3. CASE Ensure(h)
  <2>1. Quiet
    BY <1>3 DEF Ensure, IInv, WireInv, Quiet
  <2>2. Quiet'
    BY <1>3, <2>1 DEF Ensure, Spawn, bridgeVars, Quiet
  <2> QED
    BY <2>2, QuietWire, NobodyIsNoHandle DEF Quiet, WireInv
<1>4. CASE SendRequest(h)
  BY <1>4, SendRequestWire
<1>5. CASE ReceiveEvent(h)
  BY <1>5, ReceiveEventWire
<1>6. CASE ReceiveResponse(h)
  <2>1. Quiet'
    BY <1>6, ReceiveResponseWire
  <2> QED
    BY <2>1, NobodyIsNoHandle DEF Quiet, WireInv
<1>7. CASE ReceiveEof(h)
  <2>1. Quiet'
    BY <1>7 DEF ReceiveEof, ReleaseLocks, bridgeVars, IInv, WireInv, Quiet
  <2> QED
    BY <2>1, NobodyIsNoHandle DEF Quiet, WireInv
<1>8. CASE Drain(h)
  <2>1. UNCHANGED <<bridgeVars, sharedLock, nextId, op, session>>
    BY <1>8 DEF Drain
  <2> QED
    BY <2>1, WireUntouched DEF bridgeVars, IInv
<1> QED
  BY <1>1, <1>2, <1>3, <1>4, <1>5, <1>6, <1>7, <1>8 DEF ShimStep

-----------------------------------------------------------------------------
(* The bridge's side of the wire.                                          *)

(* All that is written for a decoding request is awaited by its sender.    *)
LEMMA EventsThenResponseAwaited ==
  ASSUME NEW h \in Handles, NEW k \in Nat, op[h] # "create"
  PROVE  AnswerStream(h, EventsThenResponse(CurrentId, session[h], k))
<1> DEFINE q == EventsThenResponse(CurrentId, session[h], k)
<1>1. DOMAIN q = 1..(k + 1) /\ Len(q) = k + 1
  BY DEF EventsThenResponse
<1>2. \A i \in 1..(k + 1) :
        q[i] = IF i <= k THEN Event(session[h], produced[session[h]] + i)
                         ELSE Response(CurrentId, "ok", session[h])
  BY DEF EventsThenResponse
<1> HIDE DEF q
<1>3. \A i \in 1..k : Awaited(h, q[i]) /\ ~IsResponse(q[i])
  <2>1. \A i \in 1..k : q[i] = Event(session[h], produced[session[h]] + i)
    BY <1>2
  <2>2. \A n : LET e == Event(session[h], n)
               IN Awaited(h, e) /\ ~IsResponse(e)
    BY DEF Awaited, IsResponse, Event
  <2> QED
    BY <2>1, <2>2
<1>4. Awaited(h, q[k + 1])
  BY <1>2 DEF Awaited, IsResponse, Response
<1>5. AnswerStream(h, q)
  BY <1>1, <1>3, <1>4 DEF AnswerStream
<1> QED
  BY <1>5 DEF q

(* What the bridge answers a request with is what the sender of it awaits. *)
LEMMA ReadRequestWire ==
  ASSUME IInv, ReadRequest, UNCHANGED shimVars
  PROVE  WireInv'
<1>1. PICK h \in Handles : sharedLock = h
  BY DEF ReadRequest, IInv, WireInv, TypeOK
<1> DEFINE req == Head(reqPipe)
<1>2. /\ reqPipe = <<[id |-> CurrentId, op |-> op[h], session |-> session[h]]>>
      /\ respPipe = <<>>
  BY <1>1 DEF ReadRequest, IInv, WireInv
<1>3. req.id = CurrentId /\ req.op = op[h] /\ req.session = session[h]
  BY <1>2
<1>4. /\ reqPipe' = <<>>
      /\ respPipe' = <<>>
      /\ bridge' = "running"
      /\ UNCHANGED <<sharedLock, op, session, nextId>>
  BY <1>2 DEF ReadRequest, shimVars
<1>5. AnswerStream(h, outbox')
  <2>1. CASE HandleCreateSession(req)
    <3>1. PICK st \in {"ok", "err"}, s \in 0..MaxSessions :
            /\ outbox' = <<Response(CurrentId, st, s)>>
            /\ st = "ok" => s # NoSession
      BY <2>1, <1>3, SessionBound
      DEF HandleCreateSession, IInv, TypeOK, BridgeTypeOK, NoSession
    <3> QED
      BY <3>1 DEF AnswerStream, Awaited, IsResponse, Response
  <2>2. CASE HandleDecode(req)
    <3>1. op[h] # "create"
      BY <2>2, <1>3 DEF HandleDecode
    <3>2. CASE outbox' = <<Response(req.id, "err", NoSession)>>
      BY <3>1, <3>2, <1>3 DEF AnswerStream, Awaited, IsResponse, Response
    <3>3. CASE \E k \in 0..(MaxAnnotations - produced[req.session]) :
                 outbox' = EventsThenResponse(req.id, req.session, k)
      <4>1. PICK k \in Nat :
              outbox' = EventsThenResponse(CurrentId, session[h], k)
        BY <3>3, <1>3
      <4> QED
        BY <3>1, <4>1, EventsThenResponseAwaited
    <3> QED
      BY <2>2, <3>2, <3>3 DEF HandleDecode
  <2>3. CASE HandleDestroy(req)
    BY <2>3, <1>3 DEF HandleDestroy, AnswerStream, Awaited, IsResponse, Response
  <2> QED
    BY <2>1, <2>2, <2>3 DEF ReadRequest, Handle
<1>6. AnswerStream(h, outbox)' /\ AnswerStream(h, respPipe)'
  BY <1>4, <1>5 DEF AnswerStream, Awaited, IsResponse, CurrentId
<1> QED
  BY <1>1, <1>4, <1>6, NobodyIsNoHandle DEF WireInv

(* Moving a frame from the outbox to the pipe does not reorder the answer. *)
LEMMA WriteFrameWire ==
  ASSUME IInv, WriteFrame, UNCHANGED shimVars
  PROVE  WireInv'
<1> DEFINE f == Head(outbox)
<1>1. PICK h \in Handles : sharedLock = h
  BY DEF WriteFrame, IInv, WireInv, TypeOK
<1>2. /\ outbox # <<>>
      /\ respPipe' = Append(respPipe, f)
      /\ outbox' = Tail(outbox)
      /\ UNCHANGED <<bridge, reqPipe, sharedLock, nextId, op, session>>
      /\ bridge = "running"
  BY DEF WriteFrame, shimVars
<1>3. respPipe \in Seq(Frame) /\ outbox \in Seq(Frame) /\ f \in Frame
  BY <1>2, HeadTailTyped DEF IInv, TypeOK, BridgeTypeOK
<1>4. /\ AnswerStream(h, respPipe) /\ AnswerStream(h, outbox)
      /\ \A i \in DOMAIN respPipe : ~IsResponse(respPipe[i])
      /\ reqPipe = <<>>
  BY <1>1, <1>2 DEF IInv, WireInv
<1>5. 1 \in DOMAIN outbox /\ f = outbox[1]
  BY <1>2, <1>3
<1>6. Awaited(h, f) /\ (IsResponse(f) => Len(outbox) = 1)
  BY <1>4, <1>5 DEF AnswerStream
<1>7. /\ DOMAIN respPipe' = 1..(Len(respPipe) + 1)
      /\ Len(respPipe') = Len(respPipe) + 1
      /\ \A i \in 1..Len(respPipe) : respPipe'[i] = respPipe[i]
      /\ respPipe'[Len(respPipe) + 1] = f
  BY <1>2, <1>3, AppendProperties
<1>8. \A i \in DOMAIN Tail(outbox) :
        /\ i + 1 \in DOMAIN outbox
        /\ Tail(outbox)[i] = outbox[i + 1]
        /\ i + 1 = Len(outbox) => i = Len(Tail(outbox))
  BY <1>2, <1>3
<1>9. AnswerStream(h, respPipe')
  <2>1. DOMAIN respPipe = 1..Len(respPipe) /\ Len(respPipe) \in Nat
    BY <1>3
  <2>2. \A i \in 1..Len(respPipe) :
          Awaited(h, respPipe'[i]) /\ ~IsResponse(respPipe'[i])
    BY <2>1, <1>4, <1>7 DEF AnswerStream
  <2>3. Awaited(h, respPipe'[Len(respPipe) + 1])
    BY <1>6, <1>7
  <2> QED
    BY <2>1, <2>2, <2>3, <1>7 DEF AnswerStream
<1>10. AnswerStream(h, outbox')
  BY <1>2, <1>4, <1>8 DEF AnswerStream
<1>11. AnswerStream(h, respPipe)' /\ AnswerStream(h, outbox)'
  BY <1>2, <1>9, <1>10 DEF AnswerStream, Awaited, IsResponse, CurrentId
<1>12. ASSUME outbox' # <<>>, NEW i \in DOMAIN respPipe'
       PROVE  ~IsResponse(respPipe'[i])
  <2>1. Len(outbox) # 1
    BY <1>2, <1>3, <1>12
  <2>2. ~IsResponse(f)
    BY <2>1, <1>6
  <2>3. i \in DOMAIN respPipe \/ i = Len(respPipe) + 1
    BY <1>3, <1>7
  <2> QED
    BY <2>2, <2>3, <1>3, <1>4, <1>7
<1> QED
  BY <1>1, <1>2, <1>4, <1>11, <1>12, NobodyIsNoHandle DEF WireInv, IsResponse

(* A crash only takes things off the wire.                                 *)
LEMMA CrashWire ==
  ASSUME IInv, Crash, UNCHANGED shimVars
  PROVE  WireInv'
<1>1. /\ reqPipe' = <<>> /\ outbox' = <<>>
      /\ UNCHANGED <<respPipe, sharedLock, nextId, op, session>>
  BY DEF Crash, shimVars
<1>2. \A h \in Handles : sharedLock = h => AnswerStream(h, respPipe)'
  BY <1>1 DEF IInv, WireInv, AnswerStream, Awaited, IsResponse, CurrentId
<1>3. \A h \in Handles : AnswerStream(h, outbox)'
  BY <1>1 DEF AnswerStream
<1> QED
  BY <1>1, <1>2, <1>3 DEF IInv, WireInv

(* WireInv is kept by every step from a state of the inductive invariant.  *)
LEMMA NextWire ==
  ASSUME IInv, [Next]_vars
  PROVE  WireInv'
<1>1. CASE \E h \in Handles : Call(h) \/ ShimStep(h)
  BY <1>1, CallWire, ShimStepWire
<1>2. CASE BridgeStep /\ UNCHANGED shimVars
  BY <1>2, ReadRequestWire, WriteFrameWire DEF BridgeStep
<1>3. CASE Crash /\ UNCHANGED shimVars
  BY <1>3, CrashWire
<1>4. CASE UNCHANGED vars
  <2>1. UNCHANGED <<bridge, reqPipe, respPipe, outbox, sharedLock, nextId, op,
                    session>>
    BY <1>4 DEF vars, bridgeVars, shimVars
  <2> QED
    BY <2>1, WireUntouched DEF IInv
<1> QED
  BY <1>1, <1>2, <1>3, <1>4 DEF Next, Rest

-----------------------------------------------------------------------------
(* The invariant holds of the specification.                               *)
THEOREM Invariance == Spec => []IInv
<1>1. Init => IInv
  BY InitTyped, InitLock, InitWire DEF IInv
<1>2. IInv /\ [Next]_vars => IInv'
  BY NextTyped, NextLock, NextWire DEF IInv
<1> QED
  BY <1>1, <1>2, PTL DEF Spec

(* Every variable keeps its type.  In particular a drain never looks up a  *)
(* session that does not exist, and every handle the loader gets has one.  *)
THEOREM TypeCorrect == Spec => []TypeOK
<1>1. IInv => TypeOK
  BY DEF IInv
<1> QED
  BY <1>1, Invariance, PTL

(* What the invariant says of the two streams says the same of the wire    *)
(* they make up.                                                           *)
LEMMA InvariantImpliesOneInFlight == IInv => OneInFlight
<1> SUFFICES ASSUME IInv PROVE OneInFlight
  OBVIOUS
<1> DEFINE wire == respPipe \o outbox
<1>1. respPipe \in Seq(Frame) /\ outbox \in Seq(Frame) /\ reqPipe \in Seq(Request)
  BY DEF IInv, TypeOK, BridgeTypeOK
<1>2. /\ Len(wire) = Len(respPipe) + Len(outbox)
      /\ DOMAIN wire = 1..(Len(respPipe) + Len(outbox))
      /\ \A i \in 1..(Len(respPipe) + Len(outbox)) :
           wire[i] = IF i <= Len(respPipe) THEN respPipe[i]
                                           ELSE outbox[i - Len(respPipe)]
  BY <1>1, ConcatProperties
<1>3. CASE sharedLock = Nobody
  <2>1. reqPipe = <<>> /\ respPipe = <<>> /\ outbox = <<>>
    BY <1>3 DEF IInv, WireInv
  <2>2. wire = <<>>
    BY <2>1
  <2> QED
    BY <2>1, <2>2 DEF OneInFlight
<1>4. CASE sharedLock # Nobody
  <2>1. PICK h \in Handles : sharedLock = h
    BY <1>4 DEF IInv, TypeOK
  <2>2. AnswerStream(h, respPipe) /\ AnswerStream(h, outbox)
    BY <2>1 DEF IInv, WireInv
  <2>3. ASSUME NEW i \in DOMAIN reqPipe
        PROVE  /\ i = 1
               /\ wire = <<>>
               /\ reqPipe[i].id = CurrentId
               /\ reqPipe[i].op = op[sharedLock]
    <3>1. /\ reqPipe = <<[id |-> CurrentId, op |-> op[h], session |-> session[h]]>>
          /\ respPipe = <<>> /\ outbox = <<>>
      BY <1>1, <2>1, <2>3 DEF IInv, WireInv
    <3> QED
      BY <3>1, <2>1, <2>3
  <2>4. ASSUME NEW i \in DOMAIN wire
        PROVE  IF IsResponse(wire[i])
               THEN i = Len(wire) /\ wire[i].id = CurrentId
               ELSE wire[i].session = session[sharedLock]
    <3> HIDE DEF wire
    <3>1. CASE i <= Len(respPipe)
      <4>1. i \in DOMAIN respPipe /\ wire[i] = respPipe[i]
        BY <1>1, <1>2, <2>4, <3>1
      <4>2. IsResponse(respPipe[i]) => i = Len(respPipe) /\ outbox = <<>>
        BY <2>2, <4>1 DEF AnswerStream, IInv, WireInv
      <4>3. Awaited(h, respPipe[i])
        BY <2>2, <4>1 DEF AnswerStream
      <4>4. IsResponse(respPipe[i]) => i = Len(wire)
        BY <1>1, <1>2, <4>2
      <4> QED
        BY <2>1, <4>1, <4>3, <4>4 DEF Awaited
    <3>2. CASE ~(i <= Len(respPipe))
      <4> DEFINE j == i - Len(respPipe)
      <4>1. j \in DOMAIN outbox /\ wire[i] = outbox[j]
        BY <1>1, <1>2, <2>4, <3>2
      <4>2. IsResponse(outbox[j]) => j = Len(outbox)
        BY <2>2, <4>1 DEF AnswerStream
      <4>3. Awaited(h, outbox[j])
        BY <2>2, <4>1 DEF AnswerStream
      <4>4. j = Len(outbox) => i = Len(wire)
        BY <1>1, <1>2, <2>4
      <4> QED
        BY <2>1, <4>1, <4>2, <4>3, <4>4 DEF Awaited
    <3> QED
      BY <3>1, <3>2
  <2> QED
    BY <1>4, <2>3, <2>4 DEF OneInFlight
<1> QED
  BY <1>3, <1>4

(* Requests and responses stay in step for any number of handles, calls,   *)
(* annotations and crashes: a caller is only ever given the answer to its  *)
(* own request, and nothing is left over for the next one.                 *)
THEOREM RequestsMatchResponses == Spec => []OneInFlight
<1>1. IInv => OneInFlight
  BY InvariantImpliesOneInFlight
<1> QED
  BY <1>1, Invariance, PTL

-----------------------------------------------------------------------------
(* The sessions the shim has handles for, and the frames of an answer.     *)
Tabled == {session[h] : h \in OpenHandles}
Answers == {respPipe[i] : i \in DOMAIN respPipe} \cup {outbox[i] : i \in DOMAIN outbox}

Opens(h, f) == op[h] = "create" /\ f.status = "ok"

(* No number is given to two sessions.                                     *)
FreshInv ==
  /\ \A h \in Handles : session[h] < nextSession
  /\ \A g, h \in Handles : g # h /\ session[g] # NoSession => session[g] # session[h]
  /\ \A s \in sessions : s < nextSession
  /\ \A h \in Handles, f \in Answers : sharedLock = h /\ IsResponse(f) /\ Opens(h, f) =>
       f.session \notin Tabled /\ f.session < nextSession

(* The session table of a living bridge is that of the shim, give or take  *)
(* the request that has been handled and whose answer is under way.        *)
TableInv ==
  /\ ~supervisor => /\ bridge # "running" /\ sharedLock = Nobody
                    /\ sessions = {} /\ Tabled = {}
  /\ bridge = "running" =>
       /\ sharedLock = Nobody \/ reqPipe # <<>> => sessions = Tabled
       /\ \A h \in Handles, f \in Answers : sharedLock = h /\ IsResponse(f) =>
            sessions = IF Opens(h, f) THEN Tabled \cup {f.session}
                       ELSE IF op[h] = "destroy" THEN Tabled \ {session[h]}
                       ELSE Tabled

SessInv == FreshInv /\ TableInv

-----------------------------------------------------------------------------
(* An empty wire has no frame.                                             *)
LEMMA NoAnswers == respPipe = <<>> /\ outbox = <<>> => Answers = {}
  BY DEF Answers

(* The frame about to be read is on the wire.                              *)
LEMMA HeadIsAnswer ==
  ASSUME TypeOK, respPipe # <<>>
  PROVE  Head(respPipe) \in Answers
  <1>1. 1 \in DOMAIN respPipe /\ respPipe[1] = Head(respPipe)
    BY DEF TypeOK, BridgeTypeOK
  <1>2. QED
    BY <1>1 DEF Answers

(* Reading a frame puts none on the wire.                                  *)
LEMMA TailAnswers ==
  ASSUME TypeOK, respPipe # <<>>, respPipe' = Tail(respPipe), outbox' = outbox
  PROVE  Answers' \subseteq Answers
  <1>1. \A i \in DOMAIN Tail(respPipe) :
          i + 1 \in DOMAIN respPipe /\ Tail(respPipe)[i] = respPipe[i + 1]
    BY DEF TypeOK, BridgeTypeOK
  <1>2. QED
    BY <1>1 DEF Answers

(* A frame moves from the outbox to the pipe and stays on the wire.        *)
LEMMA WriteFrameAnswers ==
  ASSUME TypeOK, WriteFrame
  PROVE  Answers' \subseteq Answers
  <1>1. /\ respPipe \in Seq(Frame) /\ outbox \in Seq(Frame) /\ outbox # <<>>
        /\ respPipe' = Append(respPipe, Head(outbox)) /\ outbox' = Tail(outbox)
    BY DEF TypeOK, BridgeTypeOK, WriteFrame
  <1>2. \A i \in DOMAIN outbox' : i + 1 \in DOMAIN outbox /\ outbox'[i] = outbox[i + 1]
    BY <1>1
  <1>3. 1 \in DOMAIN outbox /\ Head(outbox) = outbox[1]
    BY <1>1
  <1>4. \A i \in DOMAIN respPipe' :
          \/ i \in DOMAIN respPipe /\ respPipe'[i] = respPipe[i]
          \/ respPipe'[i] = Head(outbox)
    BY <1>1, <1>3, AppendProperties
  <1>5. QED
    BY <1>2, <1>3, <1>4 DEF Answers

(* The tables agree before the bridge is spawned.                          *)
LEMMA InitSess == Init => SessInv
  <1> SUFFICES ASSUME Init PROVE SessInv
    OBVIOUS
  <1>1. Answers = {} /\ Tabled = {} /\ sharedLock = Nobody
    BY NoAnswers DEF Init, BridgeInit, Tabled, OpenHandles
  <1>2. QED
    BY <1>1 DEF Init, BridgeInit, SessInv, FreshInv, TableInv, NoSession

(* A step that opens and closes nothing.                                   *)
LEMMA TablesUntouched ==
  ASSUME SessInv,
         UNCHANGED <<bridge, sessions, nextSession, session, sharedLock, supervisor>>,
         Answers' \subseteq Answers,
         reqPipe' # <<>> => reqPipe # <<>>,
         \A g \in Handles : sharedLock = g => op'[g] = op[g]
  PROVE  SessInv'
  <1>1. Tabled' = Tabled
    BY DEF Tabled, OpenHandles
  <1>2. \A h \in Handles, f \in Answers :
          sharedLock = h => Opens(h, f)' = Opens(h, f)
    BY DEF Opens
  <1>3. FreshInv'
    BY <1>1, <1>2 DEF SessInv, FreshInv, IsResponse, Opens
  <1>4. TableInv'
    BY <1>1, <1>2 DEF SessInv, TableInv, IsResponse, Opens
  <1>5. QED
    BY <1>3, <1>4 DEF SessInv

(* A handle without a session loses nothing when it is given up.           *)
LEMMA DisposeClosed ==
  ASSUME TypeOK, NEW h \in Handles, NEW r, session[h] = NoSession, Dispose(h, r)
  PROVE  session' = session
  BY DEF TypeOK, Dispose

(* What remains when h closes.                                             *)
LEMMA CloseTabled ==
  ASSUME TypeOK, FreshInv, NEW h \in Handles,
         session' = [session EXCEPT ![h] = NoSession]
  PROVE  Tabled' = Tabled \ {session[h]}
  <1>1. session'[h] = NoSession /\ \A g \in Handles \ {h} : session'[g] = session[g]
    BY DEF TypeOK
  <1>2. \A g \in Handles : g # h /\ session[g] # NoSession => session[g] # session[h]
    BY DEF FreshInv
  <1>3. QED
    BY <1>1, <1>2 DEF Tabled, OpenHandles

(* A request has failed and nothing is on the wire: the connection is      *)
(* gone, or the request was never sent and its handle is as before.        *)
LEMMA FailSess ==
  ASSUME IInv, SessInv, NEW h \in Handles, Fail(h),
         bridge # "running" \/ (session' = session /\ sharedLock = Nobody),
         sharedLock' = Nobody, Answers' = {},
         UNCHANGED <<bridge, sessions, nextSession, supervisor>>
  PROVE  SessInv'
  <1>1. session' = session \/ session' = [session EXCEPT ![h] = NoSession]
    BY DEF Fail, Dispose, GoTo, IInv, TypeOK, RequestOp
  <1>2. /\ Tabled' \subseteq Tabled
        /\ \A g \in Handles : session'[g] \in {session[g], NoSession}
    BY <1>1, CloseTabled DEF IInv, SessInv, TypeOK, Tabled, OpenHandles
  <1>3. NoSession < nextSession
    BY SessionBound DEF IInv, TypeOK, BridgeTypeOK, NoSession
  <1>4. FreshInv'
    BY <1>2, <1>3 DEF SessInv, FreshInv
  <1>5. TableInv'
    <2>1. session' = session => Tabled' = Tabled
      BY DEF Tabled, OpenHandles
    <2>2. QED
      BY <1>2, <2>1 DEF SessInv, TableInv
  <1>6. QED
    BY <1>4, <1>5 DEF SessInv

(* A request goes out with the tables in agreement, or fails.              *)
LEMMA SendRequestSess ==
  ASSUME IInv, SessInv, NEW h \in Handles, SendRequest(h)
  PROVE  SessInv'
  <1>1. Quiet /\ Answers = {}
    BY NoAnswers DEF SendRequest, IInv, WireInv, Quiet
  <1>2. /\ UNCHANGED <<bridge, sessions, nextSession, supervisor, respPipe, outbox>>
        /\ Answers' = {}
    BY <1>1 DEF SendRequest, Answers
  <1>3. CASE Write(h)
    <2>1. /\ session' = session /\ sharedLock' = h /\ Tabled' = Tabled /\ supervisor
      BY <1>3 DEF SendRequest, Write, Tabled, OpenHandles, SessInv, TableInv
    <2>2. sessions = Tabled
      BY <1>1, <1>3 DEF Write, Quiet, SessInv, TableInv
    <2>3. QED
      BY <1>2, <1>3, <2>1, <2>2 DEF SessInv, FreshInv, TableInv
  <1>4. CASE WriteFails(h)
    <2>1. Fail(h) /\ sharedLock = Nobody /\ sharedLock' = Nobody
      BY <1>4 DEF SendRequest, WriteFails, ReleaseLocks
    <2>2. CASE op[h] = "create"
      <3>1. session[h] = NoSession
        BY <2>2 DEF SendRequest, IInv, LockInv, HasSession
      <3>2. QED
        BY <1>2, <2>1, <2>2, <3>1, FailSess, DisposeClosed DEF Fail, IInv
    <2>3. CASE op[h] = "feed"
      BY <1>2, <2>1, <2>3, FailSess DEF Fail, GoTo
    <2>4. CASE bridge # "running"
      BY <1>2, <2>1, <2>4, FailSess
    <2>5. QED
      BY <1>4, <2>2, <2>3, <2>4 DEF WriteFails, OversizeOp
  <1>5. QED
    BY <1>3, <1>4 DEF SendRequest

(* The answer taken: whatever it says, the tables agree afterwards.        *)
LEMMA ReceiveResponseSess ==
  ASSUME IInv, SessInv, NEW h \in Handles, ReceiveResponse(h)
  PROVE  SessInv'
  <1> DEFINE f == Head(respPipe)
  <1>1. /\ respPipe # <<>> /\ IsResponse(f) /\ f \in Answers /\ phase[h] = "await"
        /\ sharedLock = h
    BY HeadIsAnswer DEF ReceiveResponse, IsResponse, IInv, LockInv
  <1>2. Awaited(h, f) /\ f \in ResponseFrame
    BY <1>1, HeadAwaited, HeadTailTyped
    DEF IInv, TypeOK, BridgeTypeOK, Frame, EventFrame, IsResponse
  <1>3. Conclude(h, f)
    BY <1>1, <1>2 DEF ReceiveResponse, Awaited
  <1>4. /\ UNCHANGED <<bridge, sessions, nextSession, supervisor, op>>
        /\ sharedLock' = Nobody /\ reqPipe' = <<>> /\ Answers' = {}
    BY ReceiveResponseWire, NoAnswers DEF Quiet, ReceiveResponse, Answers
  <1>5. /\ supervisor
        /\ bridge = "running" =>
             sessions = IF Opens(h, f) THEN Tabled \cup {f.session}
                        ELSE IF op[h] = "destroy" THEN Tabled \ {session[h]}
                        ELSE Tabled
    BY <1>1, NobodyIsNoHandle DEF SessInv, TableInv
  <1>6. /\ NoSession < nextSession /\ op[h] \in RequestOp
        /\ op[h] = "create" => session[h] = NoSession
    <2>1. NoSession < nextSession /\ op[h] \in RequestOp
      BY SessionBound DEF IInv, TypeOK, BridgeTypeOK, NoSession
    <2>2. op[h] = "create" => session[h] = NoSession
      BY <1>1 DEF IInv, LockInv, HasSession
    <2>3. QED
      BY <2>1, <2>2
  <1>7. CASE Opens(h, f)
    <2>1. session' = [session EXCEPT ![h] = f.session]
      BY <1>3, <1>7 DEF Opens, Conclude, Succeed, Open
    <2>2. /\ f.session \notin Tabled /\ f.session < nextSession
          /\ f.session # NoSession
      BY <1>1, <1>2, <1>7 DEF SessInv, FreshInv, Awaited, Opens
    <2>3. session'[h] = f.session /\ \A g \in Handles \ {h} : session'[g] = session[g]
      BY <2>1 DEF IInv, TypeOK
    <2>4. Tabled' = Tabled \cup {f.session}
      BY <1>6, <1>7, <2>2, <2>3 DEF Opens, Tabled, OpenHandles
    <2>5. \A g \in Handles \ {h} : session[g] # f.session
      BY <2>2 DEF Tabled, OpenHandles
    <2>6. FreshInv'
      BY <1>4, <2>2, <2>3, <2>5 DEF SessInv, FreshInv
    <2>7. TableInv'
      BY <1>4, <1>5, <1>7, <2>4 DEF TableInv
    <2>8. QED
      BY <2>6, <2>7 DEF SessInv
  <1>8. CASE ~Opens(h, f) /\ op[h] \in {"create", "destroy"}
    <2>1. Dispose(h, "ok") \/ Dispose(h, "err")
      BY <1>3, <1>8 DEF Opens, Conclude, Succeed, Fail
    <2>2. session' = [session EXCEPT ![h] = NoSession]
      BY <2>1 DEF Dispose
    <2>3. Tabled' = Tabled \ {session[h]} /\ NoSession \notin Tabled
      BY <2>2, CloseTabled DEF IInv, SessInv, Tabled, OpenHandles
    <2>4. session'[h] = NoSession /\ \A g \in Handles \ {h} : session'[g] = session[g]
      BY <2>2 DEF IInv, TypeOK
    <2>5. FreshInv'
      BY <1>4, <1>6, <2>4 DEF SessInv, FreshInv
    <2>6. TableInv'
      BY <1>4, <1>5, <1>6, <1>8, <2>3 DEF TableInv
    <2>7. QED
      BY <2>5, <2>6 DEF SessInv
  <1>9. CASE op[h] \in {"feed", "finalize"}
    <2>1. session' = session
      BY <1>3, <1>9 DEF Conclude, Succeed, Fail, GoTo
    <2>2. Tabled' = Tabled
      BY <2>1 DEF Tabled, OpenHandles
    <2>3. QED
      BY <1>4, <1>5, <1>9, <2>1, <2>2 DEF SessInv, FreshInv, TableInv, Opens
  <1>10. QED
    BY <1>6, <1>7, <1>8, <1>9 DEF RequestOp, Opens

(* No step of a call makes the tables disagree.                            *)
LEMMA ShimStepSess ==
  ASSUME IInv, SessInv, NEW h \in Handles, Call(h) \/ ShimStep(h)
  PROVE  SessInv'
  <1>1. CASE Call(h)
    <2>1. /\ UNCHANGED <<bridge, reqPipe, respPipe, outbox, sessions, nextSession,
                         session, sharedLock, supervisor>>
          /\ \A g \in Handles \ {h} : op'[g] = op[g]
          /\ phase[h] # "await"
      BY <1>1 DEF Call, BeginCreate, BeginDecode, BeginDestroy, bridgeVars, IInv, TypeOK
    <2>2. sharedLock # h /\ Answers' = Answers
      BY <2>1 DEF IInv, LockInv, Answers
    <2>3. QED
      BY <2>1, <2>2, TablesUntouched
  <1>2. CASE Enter(h)
    <2>1. Answers' = Answers
      BY <1>2 DEF Enter, bridgeVars, Answers
    <2>2. QED
      BY <1>2, <2>1, TablesUntouched DEF Enter, bridgeVars
  <1>3. CASE Refuse(h)
    <2>1. session[h] = NoSession
      BY <1>3 DEF Refuse, IInv, LockInv, HasSession
    <2>2. session' = session
      BY <1>3, <2>1, DisposeClosed DEF Refuse, IInv
    <2>3. Answers' = Answers
      BY <1>3 DEF Refuse, bridgeVars, Answers
    <2>4. QED
      BY <1>3, <2>2, <2>3, TablesUntouched DEF Refuse, bridgeVars
  <1>4. CASE Ensure(h)
    <2>1. Quiet /\ Answers = {} /\ Answers' = {}
      BY <1>4, NoAnswers DEF Ensure, Spawn, bridgeVars, IInv, WireInv, Quiet, Answers
    <2>2. /\ UNCHANGED <<reqPipe, sessions, nextSession, session, sharedLock>>
          /\ supervisor' /\ Tabled' = Tabled
      BY <1>4 DEF Ensure, Spawn, bridgeVars, Tabled, OpenHandles
    <2>3. CASE supervisor
      <3>1. bridge' = bridge
        BY <1>4, <2>3 DEF Ensure, bridgeVars
      <3>2. QED
        BY <2>1, <2>2, <2>3, <3>1 DEF SessInv, FreshInv, TableInv
    <2>4. CASE ~supervisor
      BY <2>1, <2>2, <2>4 DEF SessInv, FreshInv, TableInv
    <2>5. QED
      BY <2>3, <2>4
  <1>5. CASE SendRequest(h)
    BY <1>5, SendRequestSess
  <1>6. CASE ReceiveEvent(h)
    <2>1. Answers' \subseteq Answers
      BY <1>6, TailAnswers DEF ReceiveEvent, IInv
    <2>2. QED
      BY <1>6, <2>1, TablesUntouched DEF ReceiveEvent
  <1>7. CASE ReceiveResponse(h)
    BY <1>7, ReceiveResponseSess
  <1>8. CASE ReceiveEof(h)
    <2>1. /\ bridge # "running" /\ respPipe' = <<>> /\ outbox' = <<>>
          /\ sharedLock' = Nobody
          /\ UNCHANGED <<bridge, sessions, nextSession, supervisor>>
      BY <1>8 DEF ReceiveEof, ReleaseLocks, bridgeVars, IInv, WireInv
    <2>2. Answers' = {}
      BY <2>1 DEF Answers
    <2>3. QED
      BY <1>8, <2>1, <2>2, FailSess DEF ReceiveEof
  <1>9. CASE Drain(h)
    <2>1. Answers' = Answers
      BY <1>9 DEF Drain, bridgeVars, Answers
    <2>2. QED
      BY <1>9, <2>1, TablesUntouched DEF Drain, bridgeVars
  <1>10. QED
    BY <1>1, <1>2, <1>3, <1>4, <1>5, <1>6, <1>7, <1>8, <1>9 DEF ShimStep

(* The bridge changes its table as the answer it writes says.              *)
LEMMA ReadRequestSess ==
  ASSUME IInv, SessInv, ReadRequest, UNCHANGED shimVars
  PROVE  SessInv'
  <1>1. PICK h \in Handles : sharedLock = h
    BY DEF ReadRequest, IInv, WireInv, TypeOK
  <1> DEFINE req == Head(reqPipe)
  <1>2. /\ reqPipe = <<[id |-> CurrentId, op |-> op[h], session |-> session[h]]>>
        /\ reqPipe # <<>> /\ respPipe = <<>>
    BY <1>1 DEF ReadRequest, IInv, WireInv
  <1>3. req.op = op[h] /\ req.session = session[h]
    BY <1>2
  <1>4. /\ reqPipe' = <<>> /\ respPipe' = <<>> /\ bridge = "running" /\ bridge' = "running"
        /\ UNCHANGED <<sharedLock, supervisor, op, session>>
    BY <1>2 DEF ReadRequest, shimVars
  <1>5. Tabled' = Tabled /\ sessions = Tabled /\ supervisor /\ nextSession \in Nat
    BY <1>2, <1>4 DEF SessInv, TableInv, Tabled, OpenHandles, IInv, TypeOK, BridgeTypeOK
  <1>6. Answers' = {outbox'[i] : i \in DOMAIN outbox'}
    BY <1>4 DEF Answers
  <1>7. \A g \in Handles : sharedLock = g => g = h
    BY <1>1
  <1>8. CASE HandleCreateSession(req)
    <2>1. op[h] = "create"
      BY <1>3, <1>8 DEF HandleCreateSession
    <2>2. CASE /\ sessions' = sessions \cup {nextSession}
               /\ nextSession' = nextSession + 1
               /\ outbox' = <<Response(req.id, "ok", nextSession)>>
      <3>1. Answers' = {Response(req.id, "ok", nextSession)}
        BY <1>6, <2>2
      <3>2. /\ \A g \in Handles : session[g] < nextSession
            /\ nextSession < nextSession' /\ nextSession \notin Tabled
            /\ \A s \in sessions : s < nextSession
            /\ \A g \in Handles : session[g] < nextSession'
            /\ \A s \in sessions' : s < nextSession'
        <4>1. \A g \in Handles : session[g] \in Nat /\ session[g] < nextSession
          <5>1. \A g \in Handles : session[g] \in SessionId \cup {NoSession}
            BY DEF IInv, TypeOK
          <5>2. QED
            BY <5>1, SessionBound DEF SessInv, FreshInv, SessionId, NoSession
        <4>2. \A s \in sessions : s \in Nat /\ s < nextSession
          BY SessionBound DEF IInv, TypeOK, BridgeTypeOK, SessInv, FreshInv, SessionId
        <4>3. QED
          BY <1>5, <2>2, <4>1, <4>2 DEF Tabled, OpenHandles
      <3>3. FreshInv'
        BY <1>4, <1>5, <3>1, <3>2 DEF SessInv, FreshInv, Response
      <3>4. TableInv'
        BY <1>1, <1>4, <1>5, <1>7, <2>1, <2>2, <3>1, NobodyIsNoHandle
        DEF TableInv, Opens, Response
      <3>5. QED
        BY <3>3, <3>4 DEF SessInv
    <2>3. CASE /\ outbox' = <<Response(req.id, "err", NoSession)>>
               /\ UNCHANGED <<sessions, nextSession>>
      <3>1. Answers' = {Response(req.id, "err", NoSession)}
        BY <1>6, <2>3
      <3>2. QED
        BY <1>1, <1>4, <1>5, <1>7, <2>1, <2>3, <3>1, NobodyIsNoHandle
        DEF SessInv, FreshInv, TableInv, Opens, Response
    <2>4. QED
      BY <1>8, <2>2, <2>3 DEF HandleCreateSession
  <1>9. CASE HandleDecode(req)
    <2>1. op[h] \notin {"create", "destroy"} /\ UNCHANGED <<sessions, nextSession>>
      BY <1>3, <1>9 DEF HandleDecode
    <2>2. QED
      BY <1>1, <1>4, <1>5, <1>7, <2>1, NobodyIsNoHandle
      DEF SessInv, FreshInv, TableInv, Opens
  <1>10. CASE HandleDestroy(req)
    <2>1. /\ op[h] = "destroy" /\ sessions' = sessions \ {session[h]}
          /\ nextSession' = nextSession
      BY <1>3, <1>10 DEF HandleDestroy
    <2>2. QED
      BY <1>1, <1>4, <1>5, <1>7, <2>1, NobodyIsNoHandle
      DEF SessInv, FreshInv, TableInv, Opens
  <1>11. QED
    BY <1>8, <1>9, <1>10 DEF ReadRequest, Handle

(* SessInv is inductive relative to IInv.                                  *)
LEMMA NextSess ==
  ASSUME IInv, SessInv, [Next]_vars
  PROVE  SessInv'
  <1>1. CASE \E h \in Handles : Call(h) \/ ShimStep(h)
    BY <1>1, ShimStepSess
  <1>2. CASE ReadRequest /\ UNCHANGED shimVars
    BY <1>2, ReadRequestSess
  <1>3. CASE WriteFrame /\ UNCHANGED shimVars
    <2>1. Answers' \subseteq Answers
      BY <1>3, WriteFrameAnswers DEF IInv
    <2>2. QED
      BY <1>3, <2>1, TablesUntouched DEF WriteFrame, shimVars
  <1>4. CASE Crash /\ UNCHANGED shimVars
    <2>1. Answers' \subseteq Answers /\ Tabled' = Tabled
      BY <1>4 DEF Crash, shimVars, Answers, Tabled, OpenHandles
    <2>2. QED
      BY <1>4, <2>1 DEF Crash, shimVars, SessInv, FreshInv, TableInv, Opens, IsResponse
  <1>5. CASE UNCHANGED vars
    <2>1. Answers' = Answers
      BY <1>5 DEF vars, bridgeVars, Answers
    <2>2. QED
      BY <1>5, <2>1, TablesUntouched DEF vars, bridgeVars, shimVars
  <1>6. QED
    BY <1>1, <1>2, <1>3, <1>4, <1>5 DEF Next, BridgeStep, Rest

-----------------------------------------------------------------------------
(* The two session tables never diverge (ShimSessions!SessionTablesAgree): *)
(* with no request under way, the bridge has the session of every handle,  *)
(* no session of two handles and none without a handle, for any number of  *)
(* handles, of failed creates and of crashes.                              *)
THEOREM TablesAgree == Spec => []SessionTablesAgree
  <1>1. IInv /\ SessInv => SessionTablesAgree
    BY DEF SessionTablesAgree, SessInv, TableInv, FreshInv, Tabled, OpenHandles
  <1>2. Init => SessInv
    BY InitSess
  <1>3. IInv /\ SessInv /\ [Next]_vars => SessInv'
    BY NextSess
  <1>4. QED
    BY <1>1, <1>2, <1>3, Invariance, PTL DEF Spec

-----------------------------------------------------------------------------
(* What one step does to what a handle has been given.                     *)
Kept(h) ==
  UNCHANGED <<delivered[h], inbox[h]>>
    /\ (session'[h] = session[h] \/ session[h] = NoSession)
Emptied(h) ==
  session'[h] = NoSession /\ delivered'[h] = <<>> /\ inbox'[h] = <<>>

(* Every step of a call but its drain.                                     *)
Undrained(g) ==
  \/ Call(g) \/ Enter(g) \/ Refuse(g) \/ Ensure(g) \/ SendRequest(g)
  \/ ReceiveEvent(g) \/ ReceiveResponse(g) \/ ReceiveEof(g)

(* No other step takes anything back from a handle that stays.             *)
LEMMA KeptOrEmptied ==
  ASSUME IInv, NEW h \in Handles, NEW g \in Handles, Undrained(g)
  PROVE  Kept(h) \/ Emptied(h)
  <1>1. ASSUME UNCHANGED <<delivered, inbox, session>>
        PROVE  Kept(h)
    BY <1>1 DEF Kept
  <1>2. ASSUME NEW r, Dispose(g, r)
        PROVE  Kept(h) \/ Emptied(h)
    BY <1>2 DEF Dispose, Kept, Emptied, IInv, TypeOK
  <1>3. ASSUME Fail(g)
        PROVE  Kept(h) \/ Emptied(h)
    <2>1. Dispose(g, "err") \/ Dispose(g, "ok") \/ GoTo(g, "ready", "err")
      BY <1>3 DEF Fail, IInv, TypeOK, RequestOp
    <2>2. QED
      BY <1>1, <1>2, <2>1 DEF GoTo
  <1>4. ASSUME ReceiveResponse(g)
        PROVE  Kept(h) \/ Emptied(h)
    <2> DEFINE f == Head(respPipe)
    <2>1. CASE Fail(g)
      BY <1>3, <2>1
    <2>2. CASE Succeed(g, f)
      <3>1. \/ op[g] = "create" /\ Open(g, f.session)
            \/ Dispose(g, "ok")
            \/ GoTo(g, "drain", "none")
        BY <2>2 DEF Succeed, IInv, TypeOK, RequestOp
      <3>2. op[g] = "create" => session[g] = NoSession
        BY <1>4 DEF ReceiveResponse, IInv, LockInv, HasSession
      <3>3. CASE op[g] = "create" /\ Open(g, f.session)
        BY <3>2, <3>3 DEF Open, Kept, IInv, TypeOK
      <3>4. QED
        BY <1>1, <1>2, <3>1, <3>3 DEF GoTo
    <2>3. CASE DropOrphan
      BY <1>1, <2>3 DEF DropOrphan
    <2>4. QED
      BY <1>4, <2>1, <2>2, <2>3 DEF ReceiveResponse, Conclude
  <1>5. CASE Call(g) \/ Enter(g) \/ Ensure(g) \/ ReceiveEvent(g)
    BY <1>1, <1>5 DEF Call, BeginCreate, BeginDecode, BeginDestroy, Enter, Ensure,
                      ReceiveEvent
  <1>6. CASE Refuse(g)
    BY <1>2, <1>6 DEF Refuse
  <1>7. CASE SendRequest(g)
    BY <1>1, <1>3, <1>7 DEF SendRequest, Write, WriteFails
  <1>8. CASE ReceiveEof(g)
    BY <1>3, <1>8 DEF ReceiveEof
  <1>9. QED
    BY <1>4, <1>5, <1>6, <1>7, <1>8 DEF Undrained

(* Any step leaves a handle what it has, gives it up, or is its drain.     *)
LEMMA OneOfThree ==
  ASSUME IInv, [Next]_vars, NEW h \in Handles
  PROVE  Kept(h) \/ Emptied(h) \/ Drain(h)
  <1>1. ASSUME NEW g \in Handles, Drain(g), g # h
        PROVE  Kept(h)
    BY <1>1 DEF Drain, HandOut, AskForMore, Kept, IInv, TypeOK
  <1>2. CASE UNCHANGED shimVars
    BY <1>2 DEF shimVars, Kept
  <1>3. CASE \E g \in Handles : Call(g) \/ ShimStep(g)
    BY <1>1, <1>3, KeptOrEmptied DEF ShimStep, Undrained
  <1>4. QED
    BY <1>2, <1>3 DEF Next, Rest, vars

(* A handle without session has been given nothing.                        *)
ClosedInv ==
  \A h \in Handles : session[h] = NoSession => delivered[h] = <<>> /\ inbox[h] = <<>>

(* ClosedInv is inductive relative to IInv.                                *)
LEMMA NextClosed ==
  ASSUME IInv, ClosedInv, [Next]_vars
  PROVE  ClosedInv'
  <1> SUFFICES ASSUME NEW h \in Handles, session'[h] = NoSession
               PROVE  delivered'[h] = <<>> /\ inbox'[h] = <<>>
    BY DEF ClosedInv
  <1>1. CASE Kept(h)
    BY <1>1 DEF Kept, ClosedInv
  <1>2. CASE Drain(h)
    BY <1>2 DEF Drain, IInv, LockInv, HasSession
  <1>3. QED
    BY <1>1, <1>2, OneOfThree DEF Emptied

(* A sequence extends itself, and one it is the front part of.             *)
LEMMA Extends ==
  ASSUME NEW S
  PROVE  \A s, t \in Seq(S) : IsPrefix(s, s) /\ IsPrefix(<<>>, s) /\ IsPrefix(s, s \o t)
  <1> SUFFICES ASSUME NEW s \in Seq(S), NEW t \in Seq(S)
               PROVE  IsPrefix(s, s) /\ IsPrefix(<<>>, s) /\ IsPrefix(s, s \o t)
    OBVIOUS
  <1>1. /\ s \o t \in Seq(S) /\ Len(s \o t) = Len(s) + Len(t)
        /\ \A i \in 1..Len(s) : (s \o t)[i] = s[i]
    BY ConcatProperties
  <1>2. SubSeq(s \o t, 1, Len(s)) = SubSeq(s, 1, Len(s))
    BY <1>1
  <1>3. IsPrefix(s, s \o t)
    BY <1>1, <1>2 DEF IsPrefix
  <1>4. IsPrefix(s, s) /\ IsPrefix(<<>>, s)
    BY DEF IsPrefix
  <1>5. QED
    BY <1>3, <1>4

(* What a drain adds, it adds at the end.                                  *)
LEMMA DrainAppends ==
  ASSUME IInv, NEW h \in Handles, Drain(h)
  PROVE  /\ delivered'[h] = delivered[h]
            \/ delivered'[h] = delivered[h] \o (inbox[h] \o eventQueue[session[h]])
         /\ delivered'[h] \o inbox'[h] =
              (delivered[h] \o inbox[h]) \o eventQueue[session[h]]
         /\ session[h] \in SessionId
  <1> DEFINE new == eventQueue[session[h]]
             all == inbox[h] \o new
  <1>1. session[h] \in SessionId
    BY DEF Drain, IInv, TypeOK, LockInv, HasSession
  <1>2. /\ delivered[h] \in Seq(Annotation) /\ inbox[h] \in Seq(Annotation)
        /\ new \in Seq(Annotation)
    BY <1>1 DEF IInv, TypeOK
  <1>3. \/ delivered'[h] = delivered[h] \o all /\ inbox'[h] = <<>>
        \/ delivered'[h] = delivered[h] /\ inbox'[h] = all
    BY DEF Drain, HandOut, AskForMore, DrainedFor, IInv, TypeOK
  <1>4. all \in Seq(Annotation) /\ delivered[h] \o all \in Seq(Annotation)
    BY <1>2
  <1>5. (delivered[h] \o inbox[h]) \o new = delivered[h] \o all
    <2>1. \A s, t, u \in Seq(Annotation) : (s \o t) \o u = s \o (t \o u)
      BY ConcatAssociative
    <2>2. QED
      BY <1>2, <2>1
  <1>6. (delivered[h] \o all) \o <<>> = delivered[h] \o all
    BY <1>4, ConcatEmptySeq
  <1>7. QED
    BY <1>1, <1>3, <1>5, <1>6

(* No step takes anything back from a handle that keeps its session.       *)
LEMMA StepOnlyAppends ==
  ASSUME IInv, ClosedInv, [Next]_vars, NEW h \in Handles, session'[h] = session[h]
  PROVE  /\ IsPrefix(delivered[h], delivered'[h])
         /\ IsPrefix(delivered[h] \o inbox[h], delivered'[h] \o inbox'[h])
  <1>1. delivered[h] \in Seq(Annotation) /\ inbox[h] \in Seq(Annotation)
    BY DEF IInv, TypeOK
  <1>2. delivered[h] \o inbox[h] \in Seq(Annotation)
    BY <1>1
  <1>3. CASE Kept(h)
    BY <1>1, <1>2, <1>3, Extends DEF Kept
  <1>4. CASE Emptied(h)
    BY <1>1, <1>2, <1>4, Extends DEF Emptied, ClosedInv
  <1>5. CASE Drain(h)
    <2>1. eventQueue[session[h]] \in Seq(Annotation)
      BY <1>5, DrainAppends DEF IInv, TypeOK
    <2>2. inbox[h] \o eventQueue[session[h]] \in Seq(Annotation)
      BY <1>1, <2>1
    <2>3. IsPrefix(delivered[h], delivered'[h])
      <3>1. \/ delivered'[h] = delivered[h]
            \/ delivered'[h] = delivered[h] \o (inbox[h] \o eventQueue[session[h]])
        BY <1>5, DrainAppends
      <3>2. QED
        BY <1>1, <2>2, <3>1, Extends
    <2>4. IsPrefix(delivered[h] \o inbox[h], delivered'[h] \o inbox'[h])
      BY <1>2, <1>5, <2>1, DrainAppends, Extends
    <2>5. QED
      BY <2>3, <2>4
  <1>6. QED
    BY <1>3, <1>4, <1>5, OneOfThree

(* Nothing handed out or promised is ever taken back                       *)
(* (ShimSessions!DeliveryOnlyAppends), whatever fails.                     *)
THEOREM NothingTakenBack == Spec => DeliveryOnlyAppends
  <1>1. Init => ClosedInv
    BY DEF Init, ClosedInv
  <1>2. IInv /\ ClosedInv /\ [Next]_vars => ClosedInv'
    BY NextClosed
  <1>3. IInv /\ ClosedInv /\ [Next]_vars =>
          [\A h \in Handles : session'[h] = session[h] =>
             /\ IsPrefix(delivered[h], delivered'[h])
             /\ IsPrefix(delivered[h] \o inbox[h], delivered'[h] \o inbox'[h])]_vars
    BY StepOnlyAppends
  <1>4. QED
    BY <1>1, <1>2, <1>3, Invariance, PTL DEF Spec, DeliveryOnlyAppends

-----------------------------------------------------------------------------
(* The order of what a handle gets.  An annotation passes from the bridge  *)
(* through the wire and the queue to the handle; the handle's line is what *)
(* has left the wire, oldest first.                                        *)
Wire == respPipe \o outbox
Line(h) == (delivered[h] \o inbox[h]) \o eventQueue[session[h]]

(* q holds annotations of s, numbered upwards and not beyond m.            *)
Stream(s, m, q) ==
  /\ \A i \in DOMAIN q : q[i].session = s /\ q[i].n <= m
  /\ \A i, j \in DOMAIN q : i < j => q[i].n < q[j].n

(* The events on the wire come after the line of h, in their order.        *)
Follow(h, w) ==
  \A i \in DOMAIN w : ~IsResponse(w[i]) =>
    /\ w[i].n <= produced[session[h]]
    /\ \A k \in DOMAIN Line(h) : Line(h)[k].n < w[i].n
    /\ \A j \in DOMAIN w : i < j /\ ~IsResponse(w[j]) => w[i].n < w[j].n

StreamInv ==
  /\ \A s \in SessionId : Stream(s, produced[s], eventQueue[s])
  /\ \A h \in OpenHandles : Stream(session[h], produced[session[h]], Line(h))
  /\ \A h \in OpenHandles : sharedLock = h => Follow(h, Wire)

(* Both parts of a stream are streams.                                     *)
LEMMA StreamParts ==
  \A a, b \in Seq(Annotation) : \A s, m :
    Stream(s, m, a \o b) => Stream(s, m, a) /\ Stream(s, m, b)
  <1> SUFFICES ASSUME NEW a \in Seq(Annotation), NEW b \in Seq(Annotation),
                      NEW s, NEW m, Stream(s, m, a \o b)
               PROVE  Stream(s, m, a) /\ Stream(s, m, b)
    OBVIOUS
  <1>1. /\ DOMAIN a = 1..Len(a) /\ DOMAIN b = 1..Len(b) /\ Len(a) \in Nat /\ Len(b) \in Nat
        /\ DOMAIN (a \o b) = 1..(Len(a) + Len(b))
        /\ \A i \in DOMAIN a : (a \o b)[i] = a[i]
        /\ \A i \in DOMAIN b : (a \o b)[i + Len(a)] = b[i]
    BY ConcatProperties
  <1>2. Stream(s, m, a)
    BY <1>1 DEF Stream
  <1>3. /\ \A i \in DOMAIN b : i + Len(a) \in DOMAIN (a \o b)
        /\ \A i, j \in DOMAIN b : i < j => i + Len(a) < j + Len(a)
    BY <1>1
  <1>4. Stream(s, m, b)
    BY <1>1, <1>3 DEF Stream
  <1>5. QED
    BY <1>2, <1>4

(* A stream goes on with a later annotation.                               *)
LEMMA StreamAppend ==
  \A a \in Seq(Annotation), e \in Annotation : \A s, m :
    /\ Stream(s, m, a)
    /\ e.session = s /\ e.n <= m /\ \A i \in DOMAIN a : a[i].n < e.n
    => Stream(s, m, Append(a, e))
  <1> SUFFICES ASSUME NEW a \in Seq(Annotation), NEW e \in Annotation, NEW s, NEW m,
                      Stream(s, m, a), e.session = s, e.n <= m,
                      \A i \in DOMAIN a : a[i].n < e.n
               PROVE  Stream(s, m, Append(a, e))
    OBVIOUS
  <1>1. /\ DOMAIN a = 1..Len(a) /\ Len(a) \in Nat
        /\ DOMAIN Append(a, e) = 1..(Len(a) + 1)
        /\ \A i \in 1..Len(a) : Append(a, e)[i] = a[i]
        /\ Append(a, e)[Len(a) + 1] = e
    BY AppendProperties
  <1>2. \A i \in 1..(Len(a) + 1) : i \in 1..Len(a) \/ i = Len(a) + 1
    BY <1>1
  <1>3. QED
    BY <1>1, <1>2 DEF Stream

(* A session may produce more behind its stream.                           *)
LEMMA StreamGrows ==
  \A q \in Seq(Annotation), m, k \in Nat : \A s :
    Stream(s, m, q) /\ m <= k => Stream(s, k, q)
  <1> SUFFICES ASSUME NEW q \in Seq(Annotation), NEW s, NEW m \in Nat, NEW k \in Nat,
                      Stream(s, m, q), m <= k
               PROVE  Stream(s, k, q)
    OBVIOUS
  <1>1. \A i \in DOMAIN q : q[i] \in Annotation
    OBVIOUS
  <1>2. QED
    BY <1>1 DEF Stream, Annotation

(* The parts of an open handle's line are sequences of annotations.        *)
LEMMA LineTyped ==
  ASSUME TypeOK, NEW h \in OpenHandles
  PROVE  /\ session[h] \in SessionId
         /\ delivered[h] \o inbox[h] \in Seq(Annotation)
         /\ eventQueue[session[h]] \in Seq(Annotation)
         /\ Line(h) \in Seq(Annotation)
  <1>1. /\ session[h] \in SessionId /\ delivered[h] \in Seq(Annotation)
        /\ inbox[h] \in Seq(Annotation)
    BY DEF TypeOK, OpenHandles
  <1>2. eventQueue[session[h]] \in Seq(Annotation)
    BY <1>1 DEF TypeOK
  <1>3. delivered[h] \o inbox[h] \in Seq(Annotation)
    BY <1>1
  <1>4. QED
    BY <1>1, <1>2, <1>3 DEF Line

(* What a handle has been given is the older part of its line.             *)
LEMMA StreamImpliesOwnInOrder ==
  ASSUME IInv, ClosedInv, StreamInv
  PROVE  OwnInOrder
  <1> SUFFICES ASSUME NEW h \in Handles
               PROVE  LET seen == delivered[h] \o inbox[h]
                      IN /\ \A i \in DOMAIN seen : seen[i].session = session[h]
                         /\ \A i, j \in DOMAIN seen : i < j => seen[i].n < seen[j].n
                         /\ \A i \in DOMAIN seen : seen[i].n <= produced[session[h]]
    BY DEF OwnInOrder
  <1>1. CASE session[h] = NoSession
    <2>1. delivered[h] \o inbox[h] = <<>> \o <<>>
      BY <1>1 DEF ClosedInv
    <2>2. DOMAIN (delivered[h] \o inbox[h]) = {}
      BY <2>1
    <2>3. QED
      BY <2>2
  <1>2. CASE session[h] # NoSession
    <2>1. h \in OpenHandles
      BY <1>2 DEF OpenHandles
    <2>2. Stream(session[h], produced[session[h]], delivered[h] \o inbox[h])
      BY <2>1, LineTyped, StreamParts DEF StreamInv, Line, IInv
    <2>3. QED
      BY <2>2 DEF Stream
  <1>3. QED
    BY <1>1, <1>2

(* A step that takes nothing off the wire and leaves queue and bridge      *)
(* alone.                                                                  *)
LEMMA StreamUntouched ==
  ASSUME IInv, TypeOK', ClosedInv, StreamInv,
         UNCHANGED <<eventQueue, produced>>,
         \A h \in Handles : Kept(h) \/ Emptied(h),
         \A h \in Handles : sharedLock' = h =>
           \/ Wire' = <<>>
           \/ /\ sharedLock = h /\ session'[h] = session[h]
              /\ \A i \in DOMAIN Wire' : i \in DOMAIN Wire /\ Wire'[i] = Wire[i]
  PROVE  StreamInv'
  <1>1. ASSUME NEW h \in OpenHandles'
        PROVE  /\ session'[h] = session[h] => h \in OpenHandles /\ Line(h)' = Line(h)
               /\ Stream(session[h], produced[session[h]], Line(h))'
    <2>1. h \in Handles /\ Kept(h)
      BY <1>1 DEF OpenHandles, Emptied
    <2>2. ASSUME session'[h] = session[h]
          PROVE  /\ h \in OpenHandles /\ Line(h)' = Line(h)
                 /\ Stream(session[h], produced[session[h]], Line(h))'
      <3>1. h \in OpenHandles
        BY <1>1, <2>2 DEF OpenHandles
      <3>2. Line(h)' = Line(h)
        BY <2>1, <2>2 DEF Kept, Line
      <3>3. QED
        BY <2>2, <3>1, <3>2 DEF StreamInv, Stream
    <2>3. ASSUME session'[h] # session[h]
          PROVE  Stream(session[h], produced[session[h]], Line(h))'
      <3>1. delivered'[h] = <<>> /\ inbox'[h] = <<>>
        BY <2>1, <2>3 DEF Kept, ClosedInv
      <3>2. session'[h] \in SessionId
        BY <1>1, LineTyped DEF TypeOK, OpenHandles
      <3>3. eventQueue[session'[h]] \in Seq(Annotation)
        BY <3>2 DEF IInv, TypeOK
      <3>4. Line(h)' = eventQueue[session'[h]]
        BY <3>1, <3>3 DEF Line
      <3>5. QED
        BY <3>2, <3>4 DEF StreamInv, Stream
    <2>4. QED
      BY <2>2, <2>3
  <1>2. \A s \in SessionId : Stream(s, produced[s], eventQueue[s])'
    BY DEF StreamInv, Stream
  <1>3. ASSUME NEW h \in OpenHandles', sharedLock' = h
        PROVE  Follow(h, Wire)'
    <2>1. h \in Handles
      BY <1>3 DEF OpenHandles
    <2>2. CASE Wire' = <<>>
      BY <2>2 DEF Follow
    <2>3. CASE /\ sharedLock = h /\ session'[h] = session[h]
               /\ \A i \in DOMAIN Wire' : i \in DOMAIN Wire /\ Wire'[i] = Wire[i]
      <3>1. h \in OpenHandles /\ Line(h)' = Line(h)
        BY <1>1, <2>3
      <3>2. Follow(h, Wire)
        BY <2>3, <3>1 DEF StreamInv
      <3>3. QED
        BY <2>3, <3>1, <3>2 DEF Follow, IsResponse
    <2>4. QED
      BY <1>3, <2>1, <2>2, <2>3
  <1>4. QED
    BY <1>1, <1>2, <1>3 DEF StreamInv

(* A drain moves the queue of its own session along and cuts the others.   *)
LEMMA DrainStream ==
  ASSUME IInv, TypeOK', StreamInv, NEW h \in Handles, Drain(h)
  PROVE  StreamInv'
  <1>1. /\ UNCHANGED <<session, produced, sharedLock>> /\ sharedLock = Nobody
        /\ \A s \in SessionId : eventQueue'[s] = <<>>
        /\ OpenHandles' = OpenHandles
    BY DEF Drain, LeftAfterDrain, bridgeVars, OpenHandles
  <1>2. \A s \in SessionId : Stream(s, produced[s], eventQueue[s])'
    BY <1>1 DEF Stream
  <1>3. ASSUME NEW g \in OpenHandles
        PROVE  Stream(session[g], produced[session[g]], Line(g))'
    <2>1. /\ session[g] \in SessionId /\ Line(g) \in Seq(Annotation)
          /\ delivered[g] \o inbox[g] \in Seq(Annotation)
          /\ eventQueue[session[g]] \in Seq(Annotation)
      BY <1>3, LineTyped DEF IInv
    <2>2. delivered'[g] \o inbox'[g] \in Seq(Annotation)
      <3>1. delivered'[g] \in Seq(Annotation) /\ inbox'[g] \in Seq(Annotation)
        BY <1>3 DEF TypeOK, OpenHandles
      <3>2. QED
        BY <3>1
    <2>3. Line(g)' = delivered'[g] \o inbox'[g]
      BY <1>1, <2>1, <2>2, ConcatEmptySeq DEF Line
    <2>4. Stream(session[g], produced[session[g]], Line(g))
      BY <1>3 DEF StreamInv
    <2>5. CASE g = h
      <3>1. delivered'[g] \o inbox'[g] = Line(g)
        BY <2>5, DrainAppends DEF Line
      <3>2. QED
        BY <1>1, <2>3, <2>4, <3>1 DEF Stream
    <2>6. CASE g # h
      <3>1. delivered'[g] = delivered[g] /\ inbox'[g] = inbox[g]
        BY <1>3, <2>6 DEF Drain, HandOut, AskForMore, IInv, TypeOK, OpenHandles
      <3>2. Stream(session[g], produced[session[g]], delivered[g] \o inbox[g])
        BY <2>1, <2>4, StreamParts DEF Line
      <3>3. QED
        BY <1>1, <2>3, <3>1, <3>2 DEF Stream
    <2>7. QED
      BY <2>5, <2>6
  <1>4. QED
    BY <1>1, <1>2, <1>3, NobodyIsNoHandle DEF StreamInv, OpenHandles

(* The oldest event on the wire becomes the newest in the line of the      *)
(* handle that waits.                                                      *)
LEMMA ReceiveEventStream ==
  ASSUME IInv, TypeOK', SessInv, StreamInv, NEW h \in Handles, ReceiveEvent(h)
  PROVE  StreamInv'
  <1> DEFINE e == Head(respPipe)
             a == [session |-> e.session, n |-> e.n]
             s == session[h]
  <1>1. /\ sharedLock = h /\ Awaited(h, e) /\ ~IsResponse(e) /\ e \in EventFrame
        /\ respPipe \in Seq(Frame) /\ outbox \in Seq(Frame) /\ respPipe # <<>>
    <2>1. phase[h] = "await" /\ respPipe # <<>> /\ e.kind = "event"
      BY DEF ReceiveEvent
    <2>2. respPipe \in Seq(Frame) /\ outbox \in Seq(Frame) /\ e \in Frame
      BY <2>1, HeadTailTyped DEF IInv, TypeOK, BridgeTypeOK
    <2>3. QED
      BY <2>1, <2>2, HeadAwaited DEF IInv, LockInv, IsResponse, Frame, ResponseFrame
  <1>2. /\ e.session = s /\ s \in SessionId /\ h \in OpenHandles /\ a \in Annotation
        /\ a.session = s /\ a.n = e.n
    BY <1>1, SessionBound
    DEF Awaited, EventFrame, OpenHandles, Annotation, SessionId, NoSession
  <1>3. /\ eventQueue'[s] = Append(eventQueue[s], a)
        /\ \A t \in SessionId : t # s => eventQueue'[t] = eventQueue[t]
        /\ UNCHANGED <<produced, session, delivered, inbox, sharedLock>>
        /\ OpenHandles' = OpenHandles
    BY <1>2 DEF ReceiveEvent, IInv, TypeOK, OpenHandles
  <1>4. /\ \A i \in DOMAIN Wire' : i + 1 \in DOMAIN Wire /\ Wire'[i] = Wire[i + 1]
        /\ DOMAIN Wire' \subseteq Nat \ {0}
        /\ 1 \in DOMAIN Wire /\ Wire[1] = e
    <2>1. Wire' = Tail(respPipe) \o outbox
      BY DEF ReceiveEvent, Wire
    <2>2. QED
      BY <1>1, <2>1 DEF Wire
  <1>5. /\ Follow(h, Wire) /\ Stream(s, produced[s], Line(h))
        /\ Line(h) \in Seq(Annotation) /\ eventQueue[s] \in Seq(Annotation)
        /\ delivered[h] \o inbox[h] \in Seq(Annotation)
    BY <1>1, <1>2, LineTyped DEF StreamInv, IInv
  <1>6. Line(h)' = Append(Line(h), a)
    <2>1. \A p, q \in Seq(Annotation) : p \o Append(q, a) = Append(p \o q, a)
      BY <1>2
    <2>2. Line(h)' = (delivered[h] \o inbox[h]) \o Append(eventQueue[s], a)
      BY <1>3 DEF Line
    <2>3. QED
      BY <1>5, <2>1, <2>2 DEF Line
  <1>7. a.n <= produced[s] /\ \A k \in DOMAIN Line(h) : Line(h)[k].n < a.n
    BY <1>1, <1>2, <1>4, <1>5 DEF Follow
  <1>8. Stream(s, produced[s], Append(Line(h), a))
    BY <1>2, <1>5, <1>7, StreamAppend
  <1>9. Stream(s, produced[s], Append(eventQueue[s], a))
    <2>1. \A k \in DOMAIN eventQueue[s] : eventQueue[s][k].n < a.n
      <3>1. /\ \A k \in DOMAIN eventQueue[s] :
                 /\ k + Len(delivered[h] \o inbox[h]) \in DOMAIN Line(h)
                 /\ Line(h)[k + Len(delivered[h] \o inbox[h])] = eventQueue[s][k]
        <4>1. \A p, q \in Seq(Annotation) : \A k \in DOMAIN q :
                k + Len(p) \in DOMAIN (p \o q) /\ (p \o q)[k + Len(p)] = q[k]
          OBVIOUS
        <4>2. QED
          BY <1>5, <4>1 DEF Line
      <3>2. QED
        BY <1>7, <3>1
    <2>2. Stream(s, produced[s], eventQueue[s])
      BY <1>2 DEF StreamInv
    <2>3. QED
      BY <1>2, <1>5, <1>7, <2>1, <2>2, StreamAppend
  <1>10. \A t \in SessionId : Stream(t, produced[t], eventQueue[t])'
    BY <1>3, <1>9 DEF StreamInv, Stream
  <1>11. ASSUME NEW g \in OpenHandles
         PROVE  Stream(session[g], produced[session[g]], Line(g))'
    <2>1. CASE g = h
      BY <1>3, <1>6, <1>8, <2>1 DEF Stream
    <2>2. CASE g # h
      <3>1. session[g] \in SessionId /\ session[g] # s
        BY <1>2, <1>11, <2>2, LineTyped DEF SessInv, FreshInv, OpenHandles, IInv
      <3>2. Line(g)' = Line(g)
        BY <1>3, <3>1 DEF Line
      <3>3. QED
        BY <1>3, <1>11, <3>2 DEF StreamInv, Stream
    <2>3. QED
      BY <2>1, <2>2
  <1>12. Follow(h, Wire)'
    <2>1. \A i \in DOMAIN Wire' : ~IsResponse(Wire'[i]) =>
            /\ Wire'[i].n <= produced[s]
            /\ a.n < Wire'[i].n
            /\ \A k \in DOMAIN Line(h) : Line(h)[k].n < Wire'[i].n
            /\ \A j \in DOMAIN Wire' :
                 i < j /\ ~IsResponse(Wire'[j]) => Wire'[i].n < Wire'[j].n
      <3>1. \A i \in DOMAIN Wire' :
              1 < i + 1 /\ \A j \in DOMAIN Wire' : i < j => i + 1 < j + 1
        BY <1>4
      <3>2. QED
        BY <1>1, <1>2, <1>4, <1>5, <3>1 DEF Follow
    <2>2. \A k \in DOMAIN Append(Line(h), a) :
            \/ k \in DOMAIN Line(h) /\ Append(Line(h), a)[k] = Line(h)[k]
            \/ Append(Line(h), a)[k] = a
      BY <1>2, <1>5, AppendProperties
    <2>3. QED
      BY <1>3, <1>6, <2>1, <2>2 DEF Follow, IsResponse
  <1>13. QED
    BY <1>1, <1>3, <1>10, <1>11, <1>12 DEF StreamInv

(* New annotations are numbered beyond everything their session has        *)
(* produced.                                                               *)
LEMMA ReadRequestStream ==
  ASSUME IInv, TypeOK', StreamInv, ReadRequest, UNCHANGED shimVars
  PROVE  StreamInv'
  <1>1. PICK h \in Handles : sharedLock = h
    BY DEF ReadRequest, IInv, WireInv, TypeOK
  <1> DEFINE req == Head(reqPipe)
             s == session[h]
  <1>2. /\ reqPipe = <<[id |-> CurrentId, op |-> op[h], session |-> session[h]]>>
        /\ respPipe = <<>> /\ req.session = s
    BY <1>1 DEF ReadRequest, IInv, WireInv
  <1>3. /\ UNCHANGED <<eventQueue, session, delivered, inbox, sharedLock, respPipe>>
        /\ OpenHandles' = OpenHandles
        /\ \A g \in Handles : Line(g)' = Line(g)
    BY DEF ReadRequest, shimVars, OpenHandles, Line
  <1>4. Wire' = outbox'
    <2>1. outbox' \in Seq(Frame)
      BY DEF TypeOK, BridgeTypeOK
    <2>2. QED
      BY <1>2, <1>3, <2>1, ConcatEmptySeq DEF Wire
  <1>5. \A t \in SessionId : produced[t] \in Nat /\ produced'[t] \in Nat
    BY AnnotationBound DEF IInv, TypeOK, BridgeTypeOK
  <1>6. ASSUME \A t \in SessionId : produced[t] <= produced'[t]
        PROVE  /\ \A t \in SessionId : Stream(t, produced[t], eventQueue[t])'
               /\ \A g \in OpenHandles' : Stream(session[g], produced[session[g]], Line(g))'
    <2>1. ASSUME NEW t \in SessionId, NEW q \in Seq(Annotation), Stream(t, produced[t], q)
          PROVE  Stream(t, produced'[t], q)
      BY <1>5, <1>6, <2>1, StreamGrows
    <2>2. \A t \in SessionId : Stream(t, produced'[t], eventQueue[t])
      BY <2>1 DEF StreamInv, IInv, TypeOK
    <2>3. \A g \in OpenHandles : Stream(session[g], produced'[session[g]], Line(g))
      BY <2>1, LineTyped DEF StreamInv, IInv
    <2>4. QED
      BY <1>3, <2>2, <2>3 DEF Stream, OpenHandles
  <1>7. CASE produced' = produced /\ \A i \in DOMAIN outbox' : IsResponse(outbox'[i])
    <2>1. \A g \in OpenHandles' : Follow(g, Wire)'
      BY <1>4, <1>7 DEF Follow, IsResponse
    <2>2. QED
      BY <1>5, <1>6, <1>7, <2>1 DEF StreamInv
  <1>8. ASSUME s \in SessionId, NEW k \in Nat,
               outbox' = EventsThenResponse(req.id, s, k),
               produced' = [produced EXCEPT ![s] = @ + k]
        PROVE  StreamInv'
    <2>1. /\ produced'[s] = produced[s] + k
          /\ \A t \in SessionId : produced[t] <= produced'[t]
      <3>1. DOMAIN produced = SessionId
        BY DEF IInv, TypeOK, BridgeTypeOK
      <3>2. /\ produced'[s] = produced[s] + k
            /\ \A t \in SessionId \ {s} : produced'[t] = produced[t]
        BY <1>8, <3>1
      <3>3. QED
        BY <1>5, <1>8, <3>2
    <2>2. /\ DOMAIN Wire' = 1..(k + 1)
          /\ IsResponse(Wire'[k + 1])
          /\ \A i \in 1..k : Wire'[i].n = produced[s] + i
      BY <1>4, <1>8 DEF EventsThenResponse, Event, Response, IsResponse
    <2>3. \A i \in DOMAIN Wire' : ~IsResponse(Wire'[i]) =>
            i \in 1..k /\ Wire'[i].n = produced[s] + i
      BY <2>2
    <2>4. ASSUME h \in OpenHandles
          PROVE  \A m \in DOMAIN Line(h) :
                   Line(h)[m].n \in Nat /\ Line(h)[m].n <= produced[s]
      <3>1. Line(h) \in Seq(Annotation) /\ Stream(s, produced[s], Line(h))
        BY <2>4, LineTyped DEF StreamInv, IInv
      <3>2. \A m \in DOMAIN Line(h) : Line(h)[m] \in Annotation
        BY <3>1
      <3>3. QED
        BY <3>1, <3>2 DEF Stream, Annotation
    <2>5. ASSUME h \in OpenHandles
          PROVE  Follow(h, Wire)'
      <3>1. \A i \in 1..k : /\ produced[s] + i <= produced[s] + k
                            /\ \A x \in Nat : x <= produced[s] => x < produced[s] + i
                            /\ \A j \in 1..k : i < j => produced[s] + i < produced[s] + j
        BY <1>5, <1>8
      <3>2. Line(h)' = Line(h) /\ session'[h] = s
        BY <1>3
      <3>3. QED
        BY <2>1, <2>3, <2>4, <2>5, <3>1, <3>2 DEF Follow, IsResponse
    <2>6. \A g \in OpenHandles' : sharedLock' = g => Follow(g, Wire)'
      BY <1>1, <1>3, <2>5
    <2>7. QED
      BY <1>6, <2>1, <2>6 DEF StreamInv
  <1>9. CASE HandleCreateSession(req) \/ HandleDestroy(req)
    BY <1>7, <1>9 DEF HandleCreateSession, HandleDestroy, Response, IsResponse
  <1>10. CASE HandleDecode(req)
    <2>1. CASE outbox' = <<Response(req.id, "err", NoSession)>> /\ produced' = produced
      BY <1>7, <2>1 DEF Response, IsResponse
    <2>2. ASSUME s \in sessions, NEW k \in 0..(MaxAnnotations - produced[s]),
                 outbox' = EventsThenResponse(req.id, s, k),
                 produced' = [produced EXCEPT ![s] = @ + k]
          PROVE  StreamInv'
      <3>1. s \in SessionId /\ k \in Nat
        BY <1>5, <2>2, AnnotationBound DEF IInv, TypeOK, BridgeTypeOK
      <3>2. QED
        BY <1>8, <2>2, <3>1
    <2>3. QED
      BY <1>2, <1>10, <2>1, <2>2 DEF HandleDecode
  <1>11. QED
    BY <1>9, <1>10 DEF ReadRequest, Handle

(* StreamInv is inductive relative to the invariants above.                *)
LEMMA NextStream ==
  ASSUME IInv, SessInv, ClosedInv, StreamInv, [Next]_vars
  PROVE  StreamInv'
  <1>1. TypeOK'
    BY NextTyped DEF IInv
  <1>2. respPipe \in Seq(Frame) /\ outbox \in Seq(Frame)
    BY DEF IInv, TypeOK, BridgeTypeOK
  <1>3. respPipe = <<>> /\ outbox = <<>> => Wire = <<>>
    BY DEF Wire
  <1>4. ASSUME NEW g \in Handles, Undrained(g), ~ReceiveEvent(g)
        PROVE  StreamInv'
    <2>1. UNCHANGED <<eventQueue, produced>>
      BY <1>4 DEF Undrained, Call, BeginCreate, BeginDecode, BeginDestroy, Enter, Refuse,
                  Ensure, Spawn, SendRequest, ReceiveResponse, ReceiveEof, bridgeVars
    <2>2. CASE Call(g) \/ Enter(g) \/ Refuse(g) \/ Ensure(g)
      <3>1. /\ UNCHANGED <<sharedLock, respPipe, outbox>> /\ sharedLock # g
            /\ \A h \in Handles \ {g} : session'[h] = session[h]
        BY <2>2 DEF Call, BeginCreate, BeginDecode, BeginDestroy, Enter, Refuse, Dispose,
                    Ensure, Spawn, bridgeVars, IInv, TypeOK, LockInv
      <3>2. Wire' = Wire
        BY <3>1 DEF Wire
      <3>3. QED
        BY <1>1, <1>4, <2>1, <3>1, <3>2, KeptOrEmptied, StreamUntouched
    <2>3. CASE SendRequest(g) \/ ReceiveResponse(g) \/ ReceiveEof(g)
      <3>1. respPipe' = <<>> /\ outbox' = <<>>
        <4>1. CASE SendRequest(g)
          BY <4>1 DEF SendRequest, IInv, WireInv
        <4>2. CASE ReceiveResponse(g)
          BY <4>2, ReceiveResponseWire DEF Quiet
        <4>3. CASE ReceiveEof(g)
          BY <4>3 DEF ReceiveEof, bridgeVars, IInv, WireInv
        <4>4. QED
          BY <2>3, <4>1, <4>2, <4>3
      <3>2. Wire' = <<>>
        BY <3>1 DEF Wire
      <3>3. QED
        BY <1>1, <1>4, <2>1, <3>2, KeptOrEmptied, StreamUntouched
    <2>4. QED
      BY <1>4, <2>2, <2>3 DEF Undrained
  <1>5. CASE \E g \in Handles : Call(g) \/ ShimStep(g)
    BY <1>1, <1>4, <1>5, ReceiveEventStream, DrainStream DEF ShimStep, Undrained
  <1>6. CASE ReadRequest /\ UNCHANGED shimVars
    BY <1>1, <1>6, ReadRequestStream
  <1>7. CASE (WriteFrame \/ Crash \/ UNCHANGED bridgeVars) /\ UNCHANGED shimVars
    <2>1. /\ UNCHANGED <<eventQueue, produced, sharedLock, session>>
          /\ \A h \in Handles : Kept(h)
      BY <1>7 DEF WriteFrame, Crash, bridgeVars, shimVars, Kept
    <2>2. \A i \in DOMAIN Wire' : i \in DOMAIN Wire /\ Wire'[i] = Wire[i]
      <3>1. CASE WriteFrame
        <4>1. \A p, q \in Seq(Frame) : q # <<>> => Append(p, Head(q)) \o Tail(q) = p \o q
          OBVIOUS
        <4>2. Wire' = Wire
          BY <1>2, <3>1, <4>1 DEF Wire, WriteFrame
        <4>3. QED
          BY <4>2
      <3>2. CASE Crash
        <4>1. Wire' = respPipe \o <<>>
          BY <3>2 DEF Crash, Wire
        <4>2. QED
          BY <1>2, <4>1 DEF Wire
      <3>3. CASE UNCHANGED bridgeVars
        BY <3>3 DEF bridgeVars, Wire
      <3>4. QED
        BY <1>7, <3>1, <3>2, <3>3
    <2>3. QED
      BY <1>1, <2>1, <2>2, StreamUntouched
  <1>8. QED
    BY <1>5, <1>6, <1>7 DEF Next, BridgeStep, Rest, vars

(* A handle sees its own session's annotations, each at most once and in   *)
(* their order (ShimSessions!OwnInOrder), for any number of handles,       *)
(* annotations, retries and crashes.                                       *)
THEOREM OrderKept == Spec => []OwnInOrder
  <1>1. Init => SessInv /\ ClosedInv /\ StreamInv
    <2> SUFFICES ASSUME Init PROVE ClosedInv /\ StreamInv
      BY InitSess
    <2>1. ClosedInv /\ OpenHandles = {}
      BY DEF Init, ClosedInv, OpenHandles
    <2>2. \A s \in SessionId : eventQueue[s] = <<>>
      BY DEF Init
    <2>3. QED
      BY <2>1, <2>2 DEF StreamInv, Stream
  <1>2. IInv /\ SessInv /\ ClosedInv /\ StreamInv /\ [Next]_vars
          => (SessInv /\ ClosedInv /\ StreamInv)'
    BY NextSess, NextClosed, NextStream
  <1>3. IInv /\ ClosedInv /\ StreamInv => OwnInOrder
    BY StreamImpliesOwnInOrder
  <1>4. QED
    BY <1>1, <1>2, <1>3, Invariance, PTL DEF Spec

-----------------------------------------------------------------------------
(* Whose annotations the queue of a living bridge holds: those of a call   *)
(* whose burst is being received, or has been and is not drained yet.      *)
Burst(h) ==
  /\ phase[h] = "await" /\ op[h] \in {"feed", "finalize"} /\ reqPipe = <<>>
  /\ \A f \in Answers : IsResponse(f) => f.status = "ok"

QueueInv ==
  /\ ~supervisor => bridge = "absent"
  /\ bridge # "dead" =>
       /\ \A s \in SessionId : eventQueue[s] # <<>> =>
            \E h \in Handles : session[h] = s /\ (phase[h] = "drain" \/ Burst(h))
       /\ \A h \in Handles, f \in Answers :
            sharedLock = h /\ ~IsResponse(f) => Burst(h)

(* A step that leaves the queue and the calls it is filled for alone.      *)
LEMMA QueueUntouched ==
  ASSUME QueueInv, UNCHANGED <<bridge, supervisor, eventQueue, sharedLock>>,
         Answers' \subseteq Answers, reqPipe = <<>> => reqPipe' = <<>>,
         \A g \in Handles : phase[g] \in {"await", "drain"} \/ sharedLock = g =>
           phase'[g] = phase[g] /\ op'[g] = op[g] /\ session'[g] = session[g]
  PROVE  QueueInv'
  <1>1. \A g \in Handles : Burst(g) => Burst(g)'
    BY DEF Burst, IsResponse
  <1>2. QED
    BY <1>1 DEF QueueInv, IsResponse, Burst

(* A step after which nobody waits and the queue is as before.             *)
LEMMA QueueQuiet ==
  ASSUME QueueInv, UNCHANGED <<bridge, supervisor, eventQueue>>, Answers' = {},
         bridge # "dead" => \A g \in Handles : phase[g] = "drain" \/ Burst(g) =>
           phase'[g] = "drain" /\ session'[g] = session[g]
  PROVE  QueueInv'
  BY DEF QueueInv

(* The response ends the burst: what it has filled the queue with is       *)
(* drained by the same call.                                               *)
LEMMA ReceiveResponseQueue ==
  ASSUME IInv, QueueInv, NEW h \in Handles, ReceiveResponse(h)
  PROVE  QueueInv'
  <1> DEFINE f == Head(respPipe)
  <1>1. /\ respPipe # <<>> /\ IsResponse(f) /\ f \in Answers /\ phase[h] = "await"
        /\ sharedLock = h
    BY HeadIsAnswer DEF ReceiveResponse, IsResponse, IInv, LockInv
  <1>2. Awaited(h, f)
    BY <1>1, HeadAwaited DEF IInv
  <1>3. Conclude(h, f)
    BY <1>1, <1>2 DEF ReceiveResponse, Awaited
  <1>4. UNCHANGED <<bridge, supervisor, eventQueue>> /\ Answers' = {}
    BY ReceiveResponseWire, NoAnswers DEF Quiet, ReceiveResponse, Answers
  <1>5. ASSUME NEW g \in Handles, phase[g] = "drain"
        PROVE  phase'[g] = "drain" /\ session'[g] = session[g]
    <2>1. g # h
      BY <1>1, <1>5
    <2>2. \/ \E r : Dispose(h, r)
          \/ Open(h, f.session)
          \/ \E q, r : GoTo(h, q, r)
      BY <1>3 DEF Conclude, Succeed, Fail, IInv, TypeOK, RequestOp
    <2>3. QED
      BY <1>5, <2>1, <2>2 DEF Dispose, Open, GoTo, IInv, TypeOK
  <1>6. ASSUME NEW g \in Handles, Burst(g)
        PROVE  phase'[g] = "drain" /\ session'[g] = session[g]
    <2>1. g = h
      BY <1>1, <1>6 DEF Burst, IInv, LockInv
    <2>2. GoTo(h, "drain", "none")
      BY <1>1, <1>3, <1>6, <2>1 DEF Burst, Conclude, Succeed
    <2>3. QED
      BY <2>1, <2>2 DEF GoTo, IInv, TypeOK
  <1>7. QED
    BY <1>4, <1>5, <1>6, QueueQuiet

(* A burst begins with its own queue empty.                                *)
LEMMA ReadRequestQueue ==
  ASSUME IInv, QueueInv, ReadRequest, UNCHANGED shimVars
  PROVE  QueueInv'
  <1> DEFINE req == Head(reqPipe)
  <1>1. PICK h \in Handles : sharedLock = h
    BY DEF ReadRequest, IInv, WireInv, TypeOK
  <1>2. /\ reqPipe = <<[id |-> CurrentId, op |-> op[h], session |-> session[h]]>>
        /\ respPipe = <<>> /\ req.op = op[h] /\ phase[h] = "await"
    BY <1>1 DEF ReadRequest, IInv, WireInv, LockInv
  <1>3. /\ UNCHANGED <<eventQueue, session, phase, op, sharedLock, supervisor, bridge>>
        /\ respPipe' = <<>> /\ reqPipe' = <<>> /\ bridge = "running" /\ reqPipe # <<>>
    BY <1>2 DEF ReadRequest, shimVars
  <1>4. Answers' = {outbox'[i] : i \in DOMAIN outbox'}
    BY <1>3 DEF Answers
  <1>5. \A s \in SessionId : eventQueue[s] # <<>> =>
          \E g \in Handles : session[g] = s /\ phase[g] = "drain"
    BY <1>3 DEF QueueInv, Burst
  <1>6. CASE \A i \in DOMAIN outbox' : IsResponse(outbox'[i])
    BY <1>3, <1>4, <1>5, <1>6 DEF QueueInv, IsResponse
  <1>7. ASSUME HandleDecode(req),
               NEW s, NEW k \in Nat, outbox' = EventsThenResponse(req.id, s, k)
        PROVE  QueueInv'
    <2>1. \A i \in DOMAIN outbox' :
            outbox'[i].kind = "response" => outbox'[i].status = "ok"
      BY <1>7 DEF EventsThenResponse, Event, Response
    <2>2. Burst(h)'
      BY <1>2, <1>3, <1>4, <1>7, <2>1 DEF Burst, IsResponse, HandleDecode
    <2>3. QED
      BY <1>1, <1>3, <1>5, <2>2 DEF QueueInv
  <1>8. CASE HandleCreateSession(req) \/ HandleDestroy(req)
    BY <1>6, <1>8 DEF HandleCreateSession, HandleDestroy, Response, IsResponse
  <1>9. CASE HandleDecode(req)
    <2>1. CASE outbox' = <<Response(req.id, "err", NoSession)>>
      BY <1>6, <2>1 DEF Response, IsResponse
    <2>2. CASE /\ req.session \in sessions
               /\ \E k \in 0..(MaxAnnotations - produced[req.session]) :
                    outbox' = EventsThenResponse(req.id, req.session, k)
      <3>1. produced[req.session] \in 0..MaxAnnotations
        BY <2>2 DEF IInv, TypeOK, BridgeTypeOK
      <3>2. \E k \in Nat : outbox' = EventsThenResponse(req.id, req.session, k)
        BY <2>2, <3>1, AnnotationBound
      <3>3. QED
        BY <1>7, <1>9, <3>2
    <2>3. QED
      BY <1>9, <2>1, <2>2 DEF HandleDecode
  <1>10. QED
    BY <1>8, <1>9 DEF ReadRequest, Handle

(* QueueInv is inductive relative to IInv.                                 *)
LEMMA NextQueue ==
  ASSUME IInv, QueueInv, [Next]_vars
  PROVE  QueueInv'
  <1>1. ASSUME NEW h \in Handles, Call(h) \/ Enter(h) \/ Refuse(h)
        PROVE  QueueInv'
    <2>1. /\ UNCHANGED <<bridge, supervisor, eventQueue, respPipe, outbox, reqPipe>>
          /\ UNCHANGED sharedLock
          /\ phase[h] \notin {"await", "drain"} /\ sharedLock # h
          /\ \A g \in Handles \ {h} :
               phase'[g] = phase[g] /\ op'[g] = op[g] /\ session'[g] = session[g]
      BY <1>1 DEF Call, BeginCreate, BeginDecode, BeginDestroy, Enter, Refuse, Dispose,
                  bridgeVars, IInv, TypeOK, LockInv
    <2>2. Answers' = Answers
      BY <2>1 DEF Answers
    <2>3. QED
      BY <2>1, <2>2, QueueUntouched
  <1>2. ASSUME NEW h \in Handles, Ensure(h)
        PROVE  QueueInv'
    <2>1. /\ supervisor' /\ sharedLock = Nobody /\ sharedLock' = Nobody
          /\ UNCHANGED <<eventQueue, session>>
          /\ \A g \in Handles : phase[g] = "drain" => phase'[g] = "drain"
          /\ \A g \in Handles : ~Burst(g)
          /\ bridge' # "dead" => bridge # "dead"
      BY <1>2, NobodyIsNoHandle
      DEF Ensure, Spawn, bridgeVars, IInv, TypeOK, LockInv, Burst, QueueInv
    <2>2. QED
      BY <2>1, NobodyIsNoHandle DEF QueueInv
  <1>3. ASSUME NEW h \in Handles, SendRequest(h)
        PROVE  QueueInv'
    <2>1. UNCHANGED <<bridge, supervisor, eventQueue>> /\ Answers' = {}
      BY <1>3, NoAnswers DEF SendRequest, IInv, WireInv, Answers
    <2>2. ASSUME NEW g \in Handles, phase[g] = "drain"
          PROVE  phase'[g] = "drain" /\ session'[g] = session[g]
      <3>1. g # h
        BY <1>3, <2>2 DEF SendRequest
      <3>2. \/ phase' = [phase EXCEPT ![h] = "await"] /\ session' = session
            \/ Fail(h)
        BY <1>3 DEF SendRequest, Write, WriteFails
      <3>3. QED
        BY <2>2, <3>1, <3>2 DEF Fail, Dispose, GoTo, IInv, TypeOK, RequestOp
    <2>3. \A g \in Handles : ~Burst(g)
      BY <1>3, NobodyIsNoHandle DEF SendRequest, Burst, IInv, LockInv
    <2>4. QED
      BY <2>1, <2>2, <2>3, QueueQuiet
  <1>4. ASSUME NEW h \in Handles, ReceiveEvent(h)
        PROVE  QueueInv'
    <2> DEFINE e == Head(respPipe)
    <2>1. /\ sharedLock = h /\ e \in Answers /\ ~IsResponse(e) /\ e.session = session[h]
          /\ e.session \in SessionId
      <3>1. phase[h] = "await" /\ respPipe # <<>> /\ ~IsResponse(e)
        BY <1>4 DEF ReceiveEvent, IsResponse
      <3>2. e \in Frame
        BY <3>1, HeadTailTyped DEF IInv, TypeOK, BridgeTypeOK
      <3>3. QED
        BY <3>1, <3>2, HeadAwaited, HeadIsAnswer
        DEF IInv, LockInv, Awaited, IsResponse, Frame, EventFrame, ResponseFrame
    <2>2. /\ Answers' \subseteq Answers
          /\ UNCHANGED <<bridge, supervisor, sharedLock, reqPipe, phase, op, session>>
          /\ \A t \in SessionId : t # session[h] => eventQueue'[t] = eventQueue[t]
      BY <1>4, <2>1, TailAnswers DEF ReceiveEvent, IInv, TypeOK
    <2>3. \A g \in Handles : Burst(g) => Burst(g)'
      BY <2>2 DEF Burst, IsResponse
    <2>4. bridge # "dead" => Burst(h)
      BY <2>1 DEF QueueInv
    <2>5. QED
      BY <2>1, <2>2, <2>3, <2>4 DEF QueueInv, IsResponse
  <1>5. ASSUME NEW h \in Handles, ReceiveEof(h)
        PROVE  QueueInv'
    BY <1>5 DEF ReceiveEof, bridgeVars, QueueInv
  <1>6. ASSUME NEW h \in Handles, Drain(h)
        PROVE  QueueInv'
    BY <1>6, NobodyIsNoHandle DEF Drain, LeftAfterDrain, bridgeVars, QueueInv
  <1>7. CASE \E h \in Handles : Call(h) \/ ShimStep(h)
    BY <1>1, <1>2, <1>3, <1>4, <1>5, <1>6, <1>7, ReceiveResponseQueue DEF ShimStep
  <1>8. CASE ReadRequest /\ UNCHANGED shimVars
    BY <1>8, ReadRequestQueue
  <1>9. CASE WriteFrame /\ UNCHANGED shimVars
    BY <1>9, WriteFrameAnswers, QueueUntouched DEF WriteFrame, shimVars, IInv
  <1>10. CASE Crash /\ UNCHANGED shimVars
    BY <1>10 DEF Crash, shimVars, QueueInv
  <1>11. CASE UNCHANGED vars
    <2>1. Answers' = Answers
      BY <1>11 DEF vars, bridgeVars, Answers
    <2>2. QED
      BY <1>11, <2>1, QueueUntouched DEF vars, bridgeVars, shimVars
  <1>12. QED
    BY <1>7, <1>8, <1>9, <1>10, <1>11 DEF Next, BridgeStep, Rest

(* A queue that is lost was that of a call between its response and its    *)
(* drain.                                                                  *)
Lost(h) ==
  /\ eventQueue[session[h]] # <<>> /\ eventQueue'[session[h]] = <<>>
  /\ phase'[h] # "absent" /\ inbox'[h] = inbox[h] /\ delivered'[h] = delivered[h]

(* Only another handle's drain empties the queue of a session unseen.      *)
LEMMA StepLoses ==
  ASSUME IInv, SessInv, QueueInv, [Next]_vars, NEW h \in OpenHandles, Lost(h)
  PROVE  (phase[h] = "drain" \/ bridge = "dead") /\ phase'[h] = phase[h]
  <1>1. h \in Handles /\ session[h] \in SessionId
    BY LineTyped DEF IInv, OpenHandles
  <1>2. PICK g \in Handles : Drain(g)
    <2>1. CASE UNCHANGED shimVars
      BY <2>1 DEF shimVars, Lost
    <2>2. ASSUME NEW g \in Handles, Undrained(g), ~ReceiveEvent(g)
          PROVE  eventQueue' = eventQueue
      BY <2>2 DEF Undrained, Call, BeginCreate, BeginDecode, BeginDestroy, Enter, Refuse,
                  Ensure, SendRequest, ReceiveResponse, ReceiveEof
    <2>3. ASSUME NEW g \in Handles, ReceiveEvent(g)
          PROVE  FALSE
      <3> DEFINE e == Head(respPipe)
                 a == [session |-> e.session, n |-> e.n]
      <3>1. \A s \in SessionId : eventQueue[s] # <<>> => eventQueue'[s] # <<>>
        <4>1. respPipe # <<>> /\ e.kind = "event"
          BY <2>3 DEF ReceiveEvent
        <4>2. e \in Frame
          BY <4>1, HeadTailTyped DEF IInv, TypeOK, BridgeTypeOK
        <4>3. a \in Annotation
          BY <4>1, <4>2 DEF Frame, EventFrame, ResponseFrame, Annotation
        <4>4. \A q \in Seq(Annotation) : Append(q, a) # <<>>
          BY <4>3, AppendProperties
        <4>5. \A s \in SessionId : eventQueue[s] \in Seq(Annotation)
          BY DEF IInv, TypeOK
        <4>6. \A s \in SessionId : \/ eventQueue'[s] = eventQueue[s]
                                  \/ eventQueue'[s] = Append(eventQueue[s], a)
          BY <2>3 DEF ReceiveEvent, IInv, TypeOK
        <4>7. QED
          BY <4>4, <4>5, <4>6
      <3>2. QED
        BY <1>1, <3>1 DEF Lost
    <2>4. QED
      BY <2>1, <2>2, <2>3 DEF Next, Rest, vars, ShimStep, Undrained, Lost
  <1>3. g # h
    <2>1. SUFFICES ASSUME Drain(h) PROVE FALSE
      BY <1>2
    <2>2. /\ delivered[h] \in Seq(Annotation) /\ inbox[h] \in Seq(Annotation)
          /\ eventQueue[session[h]] \in Seq(Annotation)
      BY <1>1 DEF IInv, TypeOK
    <2>3. \A p, q \in Seq(Annotation) : q # <<>> => p \o q # p
      BY ConcatEqualIffEmpty
    <2>4. delivered[h] \o inbox[h] \in Seq(Annotation)
      BY <2>2
    <2>5. delivered'[h] \o inbox'[h] = (delivered[h] \o inbox[h]) \o eventQueue[session[h]]
      BY <1>1, <2>1, DrainAppends
    <2>6. QED
      BY <2>2, <2>3, <2>4, <2>5 DEF Lost
  <1>4. phase'[h] = phase[h]
    BY <1>1, <1>2, <1>3 DEF Drain, IInv, TypeOK
  <1>5. ASSUME bridge # "dead"
        PROVE  phase[h] = "drain"
    <2>1. \A k \in Handles : ~Burst(k)
      BY <1>2, NobodyIsNoHandle DEF Drain, Burst, IInv, LockInv
    <2>2. PICK k \in Handles : session[k] = session[h] /\ phase[k] = "drain"
      BY <1>1, <1>5, <2>1 DEF QueueInv, Lost
    <2>3. k = h
      BY <1>1, <2>2 DEF SessInv, FreshInv, OpenHandles
    <2>4. QED
      BY <2>2, <2>3
  <1>6. QED
    BY <1>4, <1>5

(* The one window in which annotations are lost while the bridge lives     *)
(* (ShimSessions!LossOnlyInWindow) is the only one for any number of       *)
(* handles.                                                                *)
THEOREM OneLossWindow == Spec => LossOnlyInWindow
  <1>1. Init => SessInv /\ QueueInv
    BY InitSess, NoAnswers DEF Init, BridgeInit, QueueInv
  <1>2. IInv /\ SessInv /\ QueueInv /\ [Next]_vars => (SessInv /\ QueueInv)'
    BY NextSess, NextQueue
  <1>3. IInv /\ SessInv /\ QueueInv /\ [Next]_vars =>
          [\A h \in OpenHandles :
             /\ eventQueue[session[h]] # <<>>
             /\ eventQueue'[session[h]] = <<>>
             /\ phase'[h] # "absent"
             /\ inbox'[h] = inbox[h]
             /\ delivered'[h] = delivered[h]
             => /\ phase[h] = "drain" \/ bridge = "dead"
                /\ phase'[h] = phase[h]]_vars
    BY StepLoses DEF Lost
  <1>4. QED
    BY <1>1, <1>2, <1>3, Invariance, PTL DEF Spec, LossOnlyInWindow

-----------------------------------------------------------------------------
(* What the refinement rests on besides: a session that has no handle yet  *)
(* has produced nothing, and a call under way has no result.               *)
Unused(s) == produced[s] = 0 /\ eventQueue[s] = <<>>
UnusedInv ==
  /\ \A s \in SessionId : s >= nextSession => Unused(s)
  /\ \A h \in Handles, f \in Answers :
       sharedLock = h /\ IsResponse(f) /\ Opens(h, f) => Unused(f.session)

ResultInv == \A h \in Handles : phase[h] \notin Idle => result[h] = "none"

(* Whether a call is under way is its handle's own affair.                 *)
LEMMA NextResult ==
  ASSUME IInv, ResultInv, [Next]_vars
  PROVE  ResultInv'
  <1>1. ASSUME NEW h \in Handles, NEW g \in Handles, g # h,
               Call(h) \/ ShimStep(h)
        PROVE  phase'[g] = phase[g] /\ result'[g] = result[g]
    <2>1. ASSUME NEW r, Dispose(h, r)
          PROVE  phase'[g] = phase[g] /\ result'[g] = result[g]
      BY <1>1, <2>1 DEF Dispose, IInv, TypeOK
    <2>2. ASSUME NEW p, NEW r, GoTo(h, p, r)
          PROVE  phase'[g] = phase[g] /\ result'[g] = result[g]
      BY <1>1, <2>2 DEF GoTo, IInv, TypeOK
    <2>3. ASSUME NEW s, Open(h, s)
          PROVE  phase'[g] = phase[g] /\ result'[g] = result[g]
      BY <1>1, <2>3 DEF Open, IInv, TypeOK
    <2>4. Fail(h) => phase'[g] = phase[g] /\ result'[g] = result[g]
      BY <2>1, <2>2 DEF Fail, IInv, TypeOK, RequestOp
    <2>5. \A f : Succeed(h, f) => phase'[g] = phase[g] /\ result'[g] = result[g]
      BY <2>1, <2>2, <2>3 DEF Succeed, IInv, TypeOK, RequestOp
    <2>6. CASE Call(h) \/ Enter(h) \/ Ensure(h) \/ ReceiveEvent(h)
      BY <1>1, <2>6 DEF Call, BeginCreate, BeginDecode, BeginDestroy, Enter, Ensure,
                        ReceiveEvent, IInv, TypeOK
    <2>7. CASE Refuse(h) \/ SendRequest(h) \/ ReceiveEof(h) \/ ReceiveResponse(h)
      BY <1>1, <2>1, <2>4, <2>5, <2>7
      DEF Refuse, SendRequest, Write, WriteFails, ReceiveEof, ReceiveResponse, Conclude,
          DropOrphan, IInv, TypeOK
    <2>8. CASE Drain(h)
      BY <1>1, <2>8 DEF Drain, HandOut, AskForMore, IInv, TypeOK
    <2>9. QED
      BY <1>1, <2>6, <2>7, <2>8 DEF ShimStep
  <1>2. ASSUME NEW h \in Handles, Call(h) \/ ShimStep(h)
        PROVE  phase'[h] \notin Idle => result'[h] = "none"
    <2>1. ASSUME NEW r, Dispose(h, r)
          PROVE  phase'[h] \in Idle
      BY <2>1 DEF Dispose, IInv, TypeOK, Idle
    <2>2. ASSUME NEW r, GoTo(h, "ready", r)
          PROVE  phase'[h] \in Idle
      BY <2>2 DEF GoTo, IInv, TypeOK, Idle
    <2>3. ASSUME NEW s, Open(h, s)
          PROVE  phase'[h] \in Idle
      BY <2>3 DEF Open, IInv, TypeOK, Idle
    <2>4. GoTo(h, "drain", "none") => result'[h] = "none"
      BY DEF GoTo, IInv, TypeOK
    <2>5. Fail(h) => phase'[h] \in Idle
      BY <2>1, <2>2 DEF Fail, IInv, TypeOK, RequestOp
    <2>6. \A f : Succeed(h, f) => phase'[h] \in Idle \/ result'[h] = "none"
      BY <2>1, <2>3, <2>4 DEF Succeed, IInv, TypeOK, RequestOp
    <2>7. CASE Call(h)
      BY <2>7 DEF Call, BeginCreate, BeginDecode, BeginDestroy, IInv, TypeOK
    <2>8. CASE Enter(h) \/ Ensure(h) \/ ReceiveEvent(h)
      BY <2>8 DEF Enter, Ensure, ReceiveEvent, ResultInv, Idle
    <2>9. CASE Refuse(h)
      BY <2>1, <2>9 DEF Refuse
    <2>10. CASE SendRequest(h)
      BY <2>5, <2>10 DEF SendRequest, Write, WriteFails, ResultInv, Idle
    <2>11. CASE ReceiveEof(h)
      BY <2>5, <2>11 DEF ReceiveEof
    <2>12. CASE ReceiveResponse(h)
      BY <2>5, <2>6, <2>12
      DEF ReceiveResponse, Conclude, DropOrphan, ResultInv, Idle
    <2>13. CASE Drain(h)
      BY <2>13 DEF Drain, IInv, TypeOK, Idle
    <2>14. QED
      BY <1>2, <2>7, <2>8, <2>9, <2>10, <2>11, <2>12, <2>13 DEF ShimStep
  <1>3. CASE \E h \in Handles : Call(h) \/ ShimStep(h)
    BY <1>1, <1>2, <1>3 DEF ResultInv
  <1>4. CASE UNCHANGED shimVars
    BY <1>4 DEF shimVars, ResultInv
  <1>5. QED
    BY <1>3, <1>4 DEF Next, Rest, vars

(* A session is used only once it is some handle's.                        *)
LEMMA UnusedKept ==
  ASSUME UnusedInv, UNCHANGED <<produced, eventQueue, nextSession>>,
         Answers' \subseteq Answers, sharedLock' = sharedLock,
         \A g \in Handles : sharedLock = g => op'[g] = op[g]
  PROVE  UnusedInv'
  BY DEF UnusedInv, Unused, IsResponse, Opens

(* An event on the wire is of a session that has its handle.               *)
LEMMA ReceiveEventUnused ==
  ASSUME IInv, SessInv, UnusedInv, NEW h \in Handles, ReceiveEvent(h)
  PROVE  UnusedInv'
  <1> DEFINE e == Head(respPipe)
  <1>1. /\ sharedLock = h /\ e.session = session[h] /\ e.session \in SessionId
        /\ phase[h] = "await"
    <2>1. phase[h] = "await" /\ respPipe # <<>> /\ ~IsResponse(e)
      BY DEF ReceiveEvent, IsResponse
    <2>2. e \in Frame
      BY <2>1, HeadTailTyped DEF IInv, TypeOK, BridgeTypeOK
    <2>3. QED
      BY <2>1, <2>2, HeadAwaited
      DEF IInv, LockInv, Awaited, IsResponse, Frame, EventFrame, ResponseFrame
  <1>2. /\ Answers' \subseteq Answers /\ UNCHANGED <<produced, nextSession, sharedLock, op>>
        /\ \A s \in SessionId : s # session[h] => eventQueue'[s] = eventQueue[s]
    BY <1>1, TailAnswers DEF ReceiveEvent, IInv, TypeOK
  <1>3. session[h] < nextSession /\ op[h] # "create"
    BY <1>1, SessionBound DEF SessInv, FreshInv, IInv, LockInv, HasSession, NoSession, SessionId
  <1>4. \A s \in SessionId : s >= nextSession => s # session[h]
    BY <1>1, <1>3 DEF IInv, TypeOK, BridgeTypeOK, SessionId
  <1>5. \A g \in Handles, f \in Answers : ~(sharedLock = g /\ Opens(g, f))
    BY <1>1, <1>3 DEF Opens
  <1>6. \A s \in SessionId : s >= nextSession => Unused(s)'
    BY <1>2, <1>4 DEF UnusedInv, Unused
  <1>7. QED
    BY <1>2, <1>5, <1>6 DEF UnusedInv, Opens, IsResponse

(* A new session is the next; a burst is of one that has its handle.       *)
LEMMA ReadRequestUnused ==
  ASSUME IInv, SessInv, UnusedInv, ReadRequest, UNCHANGED shimVars
  PROVE  UnusedInv'
  <1> DEFINE req == Head(reqPipe)
  <1>1. PICK h \in Handles : sharedLock = h
    BY DEF ReadRequest, IInv, WireInv, TypeOK
  <1>2. /\ reqPipe = <<[id |-> CurrentId, op |-> op[h], session |-> session[h]]>>
        /\ respPipe = <<>> /\ req.op = op[h] /\ req.session = session[h]
    BY <1>1 DEF ReadRequest, IInv, WireInv
  <1>3. /\ UNCHANGED <<eventQueue, session, op, sharedLock>> /\ respPipe' = <<>>
        /\ Answers' = {outbox'[i] : i \in DOMAIN outbox'}
    BY <1>2 DEF ReadRequest, shimVars, Answers
  <1>4. nextSession \in Nat /\ \A s \in SessionId : s \in Nat
    BY SessionBound DEF IInv, TypeOK, BridgeTypeOK, SessionId
  <1>5. CASE HandleCreateSession(req)
    <2>1. CASE /\ nextSession <= MaxSessions
               /\ nextSession' = nextSession + 1
               /\ outbox' = <<Response(req.id, "ok", nextSession)>>
      <3>1. Answers' = {Response(req.id, "ok", nextSession)} /\ produced' = produced
        BY <1>3, <1>5, <2>1 DEF HandleCreateSession
      <3>2. nextSession \in SessionId /\ nextSession >= nextSession
        BY <2>1, SessionBound DEF IInv, TypeOK, BridgeTypeOK, SessionId
      <3>3. \A s \in SessionId : s >= nextSession' => s >= nextSession
        BY <1>4, <2>1
      <3>4. QED
        BY <1>3, <3>1, <3>2, <3>3 DEF UnusedInv, Unused, Response
    <2>2. CASE /\ outbox' = <<Response(req.id, "err", NoSession)>>
               /\ UNCHANGED <<sessions, nextSession>>
      <3>1. Answers' = {Response(req.id, "err", NoSession)} /\ produced' = produced
        BY <1>3, <1>5, <2>2 DEF HandleCreateSession
      <3>2. QED
        BY <1>3, <2>2, <3>1 DEF UnusedInv, Unused, Opens, Response
    <2>3. QED
      BY <1>5, <2>1, <2>2 DEF HandleCreateSession
  <1>6. CASE HandleDecode(req) \/ HandleDestroy(req)
    <2>1. op[h] # "create" /\ nextSession' = nextSession
      BY <1>2, <1>6 DEF HandleDecode, HandleDestroy
    <2>2. session[h] < nextSession /\ session[h] \in Nat
      BY SessionBound DEF SessInv, FreshInv, IInv, TypeOK, SessionId, NoSession
    <2>3. \A s \in SessionId : s # session[h] => produced'[s] = produced[s]
      BY <1>2, <1>6 DEF HandleDecode, HandleDestroy, IInv, TypeOK, BridgeTypeOK
    <2>4. \A s \in SessionId : s >= nextSession => s # session[h]
      BY <1>4, <2>2
    <2>5. \A g \in Handles, f \in Answers' : ~(sharedLock = g /\ Opens(g, f))
      BY <1>1, <2>1 DEF Opens
    <2>6. \A s \in SessionId : s >= nextSession => Unused(s)'
      BY <1>3, <2>3, <2>4 DEF UnusedInv, Unused
    <2>7. QED
      BY <1>3, <2>1, <2>5, <2>6 DEF UnusedInv, Opens
  <1>7. QED
    BY <1>5, <1>6 DEF ReadRequest, Handle

(* UnusedInv is inductive relative to the invariants above.                *)
LEMMA NextUnused ==
  ASSUME IInv, SessInv, UnusedInv, [Next]_vars
  PROVE  UnusedInv'
  <1>1. ASSUME NEW h \in Handles, Call(h) \/ Enter(h) \/ Refuse(h) \/ Ensure(h)
        PROVE  UnusedInv'
    <2>1. /\ UNCHANGED <<produced, eventQueue, nextSession, respPipe, outbox, sharedLock>>
          /\ sharedLock # h /\ \A g \in Handles \ {h} : op'[g] = op[g]
      BY <1>1 DEF Call, BeginCreate, BeginDecode, BeginDestroy, Enter, Refuse, Ensure,
                  Spawn, bridgeVars, IInv, TypeOK, LockInv
    <2>2. Answers' = Answers
      BY <2>1 DEF Answers
    <2>3. QED
      BY <2>1, <2>2, UnusedKept
  <1>2. ASSUME NEW h \in Handles, SendRequest(h) \/ ReceiveResponse(h) \/ ReceiveEof(h)
        PROVE  UnusedInv'
    <2>1. UNCHANGED <<produced, eventQueue, nextSession>>
      BY <1>2 DEF SendRequest, ReceiveResponse, ReceiveEof, bridgeVars
    <2>2. respPipe' = <<>> /\ outbox' = <<>>
      <3>1. CASE SendRequest(h)
        BY <3>1 DEF SendRequest, IInv, WireInv
      <3>2. CASE ReceiveResponse(h)
        BY <3>2, ReceiveResponseWire DEF Quiet
      <3>3. CASE ReceiveEof(h)
        BY <3>3 DEF ReceiveEof, bridgeVars, IInv, WireInv
      <3>4. QED
        BY <1>2, <3>1, <3>2, <3>3
    <2>3. Answers' = {}
      BY <2>2 DEF Answers
    <2>4. QED
      BY <2>1, <2>3 DEF UnusedInv, Unused
  <1>3. ASSUME NEW h \in Handles, Drain(h)
        PROVE  UnusedInv'
    <2>1. /\ UNCHANGED <<produced, nextSession, sharedLock, op>>
          /\ \A s \in SessionId : eventQueue'[s] = <<>>
          /\ sharedLock = Nobody
      BY <1>3 DEF Drain, LeftAfterDrain, bridgeVars
    <2>2. QED
      BY <2>1, NobodyIsNoHandle DEF UnusedInv, Unused
  <1>4. CASE \E h \in Handles : Call(h) \/ ShimStep(h)
    BY <1>1, <1>2, <1>3, <1>4, ReceiveEventUnused DEF ShimStep
  <1>5. CASE ReadRequest /\ UNCHANGED shimVars
    BY <1>5, ReadRequestUnused
  <1>6. CASE (WriteFrame \/ Crash \/ UNCHANGED bridgeVars) /\ UNCHANGED shimVars
    <2>1. UNCHANGED <<produced, eventQueue, nextSession, sharedLock, op>>
      BY <1>6 DEF WriteFrame, Crash, bridgeVars, shimVars
    <2>2. CASE WriteFrame
      BY <2>1, <2>2, WriteFrameAnswers, UnusedKept DEF IInv
    <2>3. CASE Crash \/ UNCHANGED bridgeVars
      <3>1. Answers' \subseteq Answers
        BY <2>3 DEF Crash, bridgeVars, Answers
      <3>2. QED
        BY <2>1, <3>1, UnusedKept
    <2>4. QED
      BY <1>6, <2>2, <2>3
  <1>7. QED
    BY <1>4, <1>5, <1>6 DEF Next, BridgeStep, Rest, vars

-----------------------------------------------------------------------------
(* What is under way.                                                      *)

(* Nothing on the wire is nothing under way, and a lone response adds      *)
(* nothing.                                                                *)
LEMMA NoEvents ==
  /\ EventsOf(<<>>) = <<>>
  /\ \A f : IsResponse(f) => EventsOf(<<f>>) = <<>>
  BY DEF EventsOf, Answered

(* An event for a session's handle is one of its annotations.              *)
Noted(f) == [session |-> f.session, n |-> f.n]

(* The events of a wire, one by one.                                       *)
LEMMA EventsAre ==
  ASSUME NEW w \in Seq(Frame), \A i \in DOMAIN w : IsResponse(w[i]) => i = Len(w),
         \A i \in DOMAIN w : ~IsResponse(w[i]) => w[i].session \in SessionId
  PROVE  /\ EventsOf(w) \in Seq(Annotation)
         /\ Answered(w) => Len(EventsOf(w)) = Len(w) - 1
         /\ ~Answered(w) => Len(EventsOf(w)) = Len(w)
         /\ \A i \in 1..Len(EventsOf(w)) :
              i \in DOMAIN w /\ ~IsResponse(w[i]) /\ EventsOf(w)[i] = Noted(w[i])
  <1> DEFINE N == IF Answered(w) THEN Len(w) - 1 ELSE Len(w)
  <1>1. N \in Nat /\ N <= Len(w) /\ Len(w) \in Nat
    BY DEF Answered
  <1>2. ASSUME NEW i \in 1..N PROVE i \in DOMAIN w /\ ~IsResponse(w[i])
    <2>1. i \in DOMAIN w
      BY <1>1
    <2>2. CASE Answered(w)
      BY <1>1, <2>1, <2>2
    <2>3. CASE ~Answered(w)
      BY <1>1, <2>1, <2>3 DEF Answered
    <2>4. QED
      BY <2>1, <2>2, <2>3
  <1>3. \A i \in 1..N : Noted(w[i]) \in Annotation
    <2>1. \A f \in Frame : ~IsResponse(f) => f.n \in Nat
      BY DEF Frame, EventFrame, ResponseFrame, IsResponse
    <2>2. QED
      BY <1>2, <2>1 DEF Noted, Annotation
  <1>4. EventsOf(w) = [i \in 1..N |-> Noted(w[i])]
    BY DEF EventsOf, Noted
  <1>5. EventsOf(w) \in Seq(Annotation) /\ Len(EventsOf(w)) = N
    BY <1>1, <1>3, <1>4
  <1>6. QED
    BY <1>1, <1>2, <1>4, <1>5

(* Sequences of annotations with the same elements are the same.           *)
LEMMA SameNotes ==
  ASSUME NEW a \in Seq(Annotation), NEW b \in Seq(Annotation), Len(a) = Len(b),
         \A k \in 1..Len(a) : a[k] = b[k]
  PROVE  a = b
  BY SeqEqual

(* The oldest event on the wire is the first of those under way.           *)
LEMMA FirstEvent ==
  ASSUME NEW w \in Seq(Frame), \A i \in DOMAIN w : IsResponse(w[i]) => i = Len(w),
         \A i \in DOMAIN w : ~IsResponse(w[i]) => w[i].session \in SessionId,
         w # <<>>, ~IsResponse(Head(w))
  PROVE  /\ Noted(Head(w)) \in Annotation
         /\ EventsOf(Tail(w)) \in Seq(Annotation)
         /\ EventsOf(w) = <<Noted(Head(w))>> \o EventsOf(Tail(w))
  <1> DEFINE t == Tail(w)
             a == Noted(Head(w))
             all == EventsOf(w)
             others == EventsOf(t)
  <1>1. /\ Len(w) \in Nat \ {0} /\ 1 \in DOMAIN w /\ Head(w) = w[1] /\ DOMAIN w = 1..Len(w)
        /\ t \in Seq(Frame) /\ Len(t) = Len(w) - 1 /\ DOMAIN t = 1..(Len(w) - 1)
        /\ \A i \in 1..(Len(w) - 1) : t[i] = w[i + 1]
    BY HeadTailProperties
  <1>2. \A i \in DOMAIN t : i + 1 \in DOMAIN w /\ (i + 1 = Len(w) <=> i = Len(t))
    BY <1>1
  <1> HIDE DEF t
  <1>3. /\ \A i \in DOMAIN t : IsResponse(t[i]) => i = Len(t)
        /\ \A i \in DOMAIN t : ~IsResponse(t[i]) => t[i].session \in SessionId
    BY <1>1, <1>2
  <1>4. Answered(t) <=> Answered(w)
    <2>1. CASE Len(w) = 1
      BY <1>1, <2>1 DEF Answered
    <2>2. CASE Len(w) > 1
      <3>1. t # <<>> /\ w # <<>> /\ Len(t) \in DOMAIN t /\ t[Len(t)] = w[Len(w)]
        BY <1>1, <2>2
      <3>2. QED
        BY <3>1 DEF Answered
    <2>3. QED
      BY <1>1, <2>1, <2>2
  <1>5. /\ all \in Seq(Annotation)
        /\ Answered(w) => Len(all) = Len(w) - 1
        /\ ~Answered(w) => Len(all) = Len(w)
        /\ \A i \in 1..Len(all) : i \in DOMAIN w /\ all[i] = Noted(w[i])
    BY EventsAre
  <1>6. /\ others \in Seq(Annotation)
        /\ Answered(t) => Len(others) = Len(t) - 1
        /\ ~Answered(t) => Len(others) = Len(t)
        /\ \A i \in 1..Len(others) : i \in DOMAIN t /\ others[i] = Noted(t[i])
    BY <1>1, <1>3, EventsAre
  <1> HIDE DEF all, others
  <1>7. Len(all) = Len(others) + 1 /\ Len(others) \in Nat
    <2>1. Len(w) = 1 => ~Answered(w)
      BY <1>1 DEF Answered
    <2>2. QED
      <3>1. CASE Answered(w)
        <4>1. Len(all) = Len(w) - 1 /\ Len(others) = Len(t) - 1
          BY <1>4, <1>5, <1>6, <3>1, Zenon
        <4>2. Len(w) # 1
          BY <2>1, <3>1
        <4>3. QED
          BY <1>1, <4>1, <4>2
      <3>2. CASE ~Answered(w)
        <4>1. Len(all) = Len(w) /\ Len(others) = Len(t)
          BY <1>4, <1>5, <1>6, <3>2, Zenon
        <4>2. QED
          BY <1>1, <4>1
      <3>3. QED
        BY <3>1, <3>2
  <1>8. a \in Annotation /\ all[1] = a
    <2>1. 1 \in 1..Len(all)
      BY <1>7
    <2>2. all[1] = Noted(w[1])
      BY <1>5, <2>1
    <2>3. all[1] \in Annotation
      BY <1>5, <2>1
    <2>4. QED
      BY <1>1, <2>2, <2>3
  <1> HIDE DEF a
  <1>9. \A q \in Seq(Annotation), x \in Annotation :
          /\ <<x>> \o q \in Seq(Annotation) /\ Len(<<x>> \o q) = Len(q) + 1
          /\ (<<x>> \o q)[1] = x
          /\ \A i \in 1..Len(q) : (<<x>> \o q)[i + 1] = q[i]
    OBVIOUS
  <1>10. \A i \in 1..Len(others) : all[i + 1] = others[i]
    <2>1. \A i \in 1..Len(others) : i + 1 \in 1..Len(all)
      BY <1>7
    <2>2. \A i \in 1..Len(others) : i \in 1..(Len(w) - 1)
      BY <1>1, <1>6
    <2>3. QED
      BY <1>1, <1>5, <1>6, <2>1, <2>2
  <1> DEFINE b == <<a>> \o others
  <1>11. /\ b \in Seq(Annotation) /\ Len(b) = Len(all) /\ b[1] = a
         /\ \A i \in 1..Len(others) : b[i + 1] = others[i]
    BY <1>6, <1>7, <1>8, <1>9
  <1> HIDE DEF b
  <1>12. ASSUME NEW k \in 1..Len(all) PROVE all[k] = b[k]
    <2>1. CASE k = 1
      BY <1>8, <1>11, <2>1
    <2>2. CASE k # 1
      <3>1. k - 1 \in 1..Len(others) /\ (k - 1) + 1 = k
        BY <1>7, <2>2
      <3>2. QED
        BY <1>10, <1>11, <3>1
    <2>3. QED
      BY <2>1, <2>2
  <1>13. all = b
    BY <1>5, <1>11, <1>12, SameNotes
  <1>14. QED
    BY <1>6, <1>8, <1>13 DEF a, b, all, others, t

(* A shorter end makes an older part.                                      *)
LEMMA PrefixBehind ==
  ASSUME NEW p \in Seq(Annotation), NEW a \in Seq(Annotation), NEW b \in Seq(Annotation),
         IsPrefix(a, b)
  PROVE  IsPrefix(p \o a, p \o b)
  <1>1. /\ Len(p) \in Nat /\ Len(a) \in Nat /\ Len(b) \in Nat /\ Len(a) <= Len(b)
        /\ SubSeq(a, 1, Len(a)) = a
    BY SubSeqFull DEF IsPrefix
  <1>2. \A i \in 1..Len(a) : a[i] = b[i]
    <2>1. SubSeq(b, 1, Len(a)) = a
      BY <1>1 DEF IsPrefix
    <2>2. \A i \in 1..Len(a) : SubSeq(b, 1, Len(a))[i] = b[i]
      BY <1>1
    <2>3. QED
      BY <2>1, <2>2
  <1> DEFINE s == p \o a
             t == p \o b
             c == SubSeq(t, 1, Len(s))
  <1>3. /\ s \in Seq(Annotation) /\ Len(s) = Len(p) + Len(a)
        /\ t \in Seq(Annotation) /\ Len(t) = Len(p) + Len(b)
        /\ \A i \in 1..Len(p) : s[i] = p[i] /\ t[i] = p[i]
        /\ \A i \in 1..Len(a) : s[i + Len(p)] = a[i]
        /\ \A i \in 1..Len(b) : t[i + Len(p)] = b[i]
    BY ConcatProperties
  <1>4. Len(s) \in 0..Len(t)
    BY <1>1, <1>3
  <1> HIDE DEF s, t
  <1>5. c \in Seq(Annotation) /\ Len(c) = Len(s) /\ \A i \in 1..Len(s) : c[i] = t[i]
    <2>1. \A u \in Seq(Annotation) : \A n \in 0..Len(u) :
            /\ SubSeq(u, 1, n) \in Seq(Annotation) /\ Len(SubSeq(u, 1, n)) = n
            /\ \A i \in 1..n : SubSeq(u, 1, n)[i] = u[i]
      OBVIOUS
    <2>2. QED
      BY <1>3, <1>4, <2>1
  <1>6. ASSUME NEW i \in 1..Len(s) PROVE s[i] = t[i]
    <2>1. CASE i \in 1..Len(p)
      BY <1>3, <2>1
    <2>2. CASE i \notin 1..Len(p)
      <3>1. /\ i - Len(p) \in 1..Len(a) /\ i - Len(p) \in 1..Len(b)
            /\ (i - Len(p)) + Len(p) = i
        BY <1>1, <1>3, <2>2
      <3>2. QED
        BY <1>2, <1>3, <3>1
    <2>3. QED
      BY <2>1, <2>2
  <1> HIDE DEF c
  <1>7. s = c
    BY <1>3, <1>5, <1>6, SameNotes
  <1>8. SubSeq(s, 1, Len(s)) = s
    BY <1>3, SubSeqFull
  <1>9. QED
    BY <1>4, <1>7, <1>8 DEF IsPrefix, s, t, c

(* What a crash leaves of what is under way is the older part of it.       *)
LEMMA CutEvents ==
  ASSUME NEW p \in Seq(Frame), NEW q \in Seq(Frame),
         \A i \in DOMAIN (p \o q) : IsResponse((p \o q)[i]) => i = Len(p \o q),
         \A i \in DOMAIN (p \o q) :
           ~IsResponse((p \o q)[i]) => (p \o q)[i].session \in SessionId
  PROVE  /\ EventsOf(p) \in Seq(Annotation) /\ EventsOf(p \o q) \in Seq(Annotation)
         /\ IsPrefix(EventsOf(p), EventsOf(p \o q))
  <1> DEFINE w == p \o q
             some == EventsOf(p)
             all == EventsOf(w)
  <1>1. CASE q = <<>>
    <2>1. w = p
      BY <1>1
    <2>2. some \in Seq(Annotation)
      BY <2>1, EventsAre
    <2>3. QED
      BY <2>1, <2>2, Extends
  <1>2. CASE q # <<>>
    <2>1. /\ w \in Seq(Frame) /\ Len(w) = Len(p) + Len(q) /\ Len(p) < Len(w)
          /\ Len(p) \in Nat /\ Len(w) \in Nat /\ DOMAIN w = 1..Len(w) /\ DOMAIN p = 1..Len(p)
          /\ \A i \in 1..Len(p) : w[i] = p[i]
      BY <1>2
    <2>2. /\ all \in Seq(Annotation)
          /\ Answered(w) => Len(all) = Len(w) - 1
          /\ ~Answered(w) => Len(all) = Len(w)
          /\ \A i \in 1..Len(all) : all[i] = Noted(w[i])
      BY <2>1, EventsAre
    <2> HIDE DEF w
    <2>3. \A i \in DOMAIN p : ~IsResponse(p[i]) /\ p[i].session \in SessionId
      <3>1. \A i \in DOMAIN p : i \in DOMAIN w /\ i # Len(w)
        BY <2>1
      <3>2. QED
        BY <2>1, <3>1 DEF w
    <2>4. /\ some \in Seq(Annotation)
          /\ Answered(p) => Len(some) = Len(p) - 1
          /\ ~Answered(p) => Len(some) = Len(p)
          /\ \A i \in 1..Len(some) : some[i] = Noted(p[i])
      BY <2>3, EventsAre
    <2>5. ~Answered(p)
      BY <2>1, <2>3 DEF Answered
    <2> HIDE DEF some, all
    <2>6. Len(some) \in Nat /\ Len(some) <= Len(all) /\ Len(some) = Len(p)
      <3>1. Len(some) = Len(p)
        BY <2>4, <2>5
      <3>2. Len(all) = Len(w) \/ Len(all) = Len(w) - 1
        BY <2>2
      <3>3. QED
        BY <2>1, <3>1, <3>2
    <2>7. \A i \in 1..Len(some) : all[i] = some[i]
      <3>1. \A i \in 1..Len(some) : i \in 1..Len(all) /\ i \in 1..Len(p)
        BY <2>2, <2>6
      <3>2. QED
        BY <2>1, <2>2, <2>4, <3>1
    <2> DEFINE b == SubSeq(all, 1, Len(some))
    <2>8. b \in Seq(Annotation) /\ Len(b) = Len(some) /\ \A i \in 1..Len(some) : some[i] = b[i]
      <3>1. \A u \in Seq(Annotation) : \A n \in 0..Len(u) :
              /\ SubSeq(u, 1, n) \in Seq(Annotation) /\ Len(SubSeq(u, 1, n)) = n
              /\ \A i \in 1..n : SubSeq(u, 1, n)[i] = u[i]
        OBVIOUS
      <3>2. Len(some) \in 0..Len(all)
        BY <2>2, <2>6
      <3>3. QED
        BY <2>2, <2>7, <3>1, <3>2
    <2> HIDE DEF b
    <2>9. some = b
      BY <2>4, <2>8, SameNotes
    <2>10. SubSeq(some, 1, Len(some)) = some
      BY <2>4, SubSeqFull
    <2>11. IsPrefix(some, all)
      BY <2>6, <2>9, <2>10 DEF IsPrefix, b
    <2>12. QED
      BY <2>2, <2>4, <2>11 DEF some, all, w
  <1>3. QED
    BY <1>1, <1>2

-----------------------------------------------------------------------------
(* How a call ends, as the service sees it.                                *)

(* A step that touches neither the handle's queues nor the wire.           *)
LEMMA HeldSame ==
  ASSUME UNCHANGED <<session, inbox, eventQueue, sharedLock, respPipe, outbox>>
  PROVE  Held' = Held
  BY DEF Held, HeldFor, UnderWay

(* What the bridge made is read off its counts and the handles' sessions.  *)
LEMMA MadeSame == UNCHANGED <<session, produced>> => Made' = Made
  BY DEF Made

(* Only the handle that holds SHARED has anything under way.               *)
LEMMA NothingUnderWay ==
  /\ \A g : sharedLock # g => UnderWay(g) = <<>>
  /\ respPipe = <<>> /\ outbox = <<>> => \A g : UnderWay(g) = <<>>
  <1>1. <<>> \o <<>> = <<>>
    OBVIOUS
  <1>2. QED
    BY <1>1, NoEvents DEF UnderWay

(* The same of the state after.                                            *)
LEMMA NothingUnderWayNext ==
  /\ \A g : sharedLock' # g => UnderWay(g)' = <<>>
  /\ respPipe' = <<>> /\ outbox' = <<>> => \A g : UnderWay(g)' = <<>>
  <1>1. <<>> \o <<>> = <<>>
    OBVIOUS
  <1>2. QED
    BY <1>1, NoEvents DEF UnderWay

(* A handle is given up by a destroy, or by a create that did not get it.  *)
LEMMA CloseService ==
  ASSUME IInv, NEW h \in Handles, h \in Busy, NEW r \in {"ok", "err"},
         session[h] # NoSession <=> r = "ok", Dispose(h, r),
         UNCHANGED <<eventQueue, produced, bridge>>,
         \A g \in Handles \ {h} : UnderWay(g)' = UnderWay(g)
  PROVE  Service!Close(h)
  <1>1. /\ session' = [session EXCEPT ![h] = NoSession]
        /\ delivered' = [delivered EXCEPT ![h] = <<>>]
        /\ result' = [result EXCEPT ![h] = r]
        /\ Broken' = Broken
    BY DEF Dispose, Broken
  <1>2. /\ session'[h] = NoSession
        /\ \A g \in Handles \ {h} : session'[g] = session[g] /\ inbox'[g] = inbox[g]
    BY DEF Dispose, IInv, TypeOK
  <1>3. Busy' = Busy \ {h}
    BY DEF Dispose, Busy, Idle, IInv, TypeOK
  <1>4. Made' = [Made EXCEPT ![h] = 0]
    BY <1>2 DEF Made
  <1>5. Held' = [Held EXCEPT ![h] = <<>>]
    <2>1. HeldFor(h)' = <<>>
      BY <1>2 DEF HeldFor
    <2>2. \A g \in Handles \ {h} : HeldFor(g)' = HeldFor(g)
      BY <1>2 DEF HeldFor
    <2>3. QED
      BY <2>1, <2>2 DEF Held
  <1>6. QED
    BY <1>1, <1>3, <1>4, <1>5 DEF Service!Close, Service!Return, Service!IsOpen

(* A call that fails with nothing under way.                               *)
LEMMA FailService ==
  ASSUME IInv, NEW h \in Handles, phase[h] \in {"request", "await"}, Fail(h),
         UNCHANGED <<eventQueue, produced, bridge>>,
         \A g \in Handles : UnderWay(g)' = UnderWay(g)
  PROVE  Service!Close(h) \/ Service!Fail(h)
  <1>1. h \in Busy /\ op[h] \in RequestOp /\ (op[h] = "create" <=> session[h] = NoSession)
    BY DEF Busy, Idle, IInv, TypeOK, LockInv, HasSession
  <1>2. CASE op[h] = "create"
    BY <1>1, <1>2, CloseService DEF Fail
  <1>3. CASE op[h] = "destroy"
    BY <1>1, <1>3, CloseService DEF Fail
  <1>4. CASE op[h] \in {"feed", "finalize"}
    <2>1. GoTo(h, "ready", "err")
      BY <1>4 DEF Fail
    <2>2. /\ UNCHANGED <<session, inbox, delivered>> /\ Broken' = Broken
          /\ result' = [result EXCEPT ![h] = "err"]
      BY <2>1 DEF GoTo, Broken
    <2>3. Busy' = Busy \ {h}
      BY <2>1 DEF GoTo, Busy, Idle, IInv, TypeOK
    <2>4. Made' = Made /\ Held' = Held
      BY <2>2 DEF Made, Held, HeldFor
    <2>5. QED
      BY <1>1, <1>4, <2>2, <2>3, <2>4
      DEF Service!Fail, Service!Return, Service!IsOpen
  <1>5. QED
    BY <1>1, <1>2, <1>3, <1>4 DEF RequestOp

(* A create returns: the new handle holds nothing yet.                     *)
LEMMA OpenService ==
  ASSUME IInv, ClosedInv, NEW h \in Handles, h \in Busy, session[h] = NoSession,
         NEW s \in SessionId, \A g \in Handles : session[g] # s, Unused(s), Open(h, s),
         UNCHANGED <<eventQueue, produced, bridge>>,
         \A g \in Handles : UnderWay(g)' = <<>> /\ UnderWay(g) = <<>>
  PROVE  Service!Open(h)
  <1>1. /\ session' = [session EXCEPT ![h] = s]
        /\ UNCHANGED <<inbox, delivered>>
        /\ result' = [result EXCEPT ![h] = "ok"]
        /\ Broken' = Broken
    BY DEF Open, Broken
  <1>2. session'[h] = s /\ \A g \in Handles \ {h} : session'[g] = session[g]
    BY <1>1 DEF IInv, TypeOK
  <1>3. Busy' = Busy \ {h}
    BY DEF Open, Busy, Idle, IInv, TypeOK
  <1>4. s # NoSession
    BY DEF SessionId, NoSession
  <1>5. Made' = Made
    BY <1>2, <1>4 DEF Made, Unused
  <1>6. Held' = Held
    <2>1. (<<>> \o <<>>) \o <<>> = <<>>
      OBVIOUS
    <2>2. inbox[h] = <<>> /\ eventQueue[s] = <<>>
      BY DEF ClosedInv, Unused
    <2>3. HeldFor(h)' = <<>> /\ HeldFor(h) = <<>>
      BY <1>1, <1>2, <1>4, <2>1, <2>2 DEF HeldFor
    <2>4. \A g \in Handles \ {h} : HeldFor(g)' = HeldFor(g)
      BY <1>1, <1>2 DEF HeldFor
    <2>5. QED
      BY <2>3, <2>4 DEF Held
  <1>7. s \in SessionId \ {session[g] : g \in Handles}
    OBVIOUS
  <1>8. QED
    BY <1>1, <1>3, <1>5, <1>6, <1>7
    DEF Service!Open, Service!Return, Service!IsOpen

(* A drain hands over all that is held, or keeps it; what it discards of   *)
(* another handle's is the end of what that one holds.                     *)
LEMMA DrainService ==
  ASSUME IInv, SessInv, QueueInv, NEW h \in Handles, Drain(h)
  PROVE  Service!HandOver(h) \/ Service!AskForMore(h)
  <1>1. /\ phase[h] = "drain" /\ sharedLock = Nobody /\ sharedLock' = Nobody
        /\ UNCHANGED <<session, produced, bridge>>
        /\ \A s \in SessionId : eventQueue'[s] = <<>>
    BY DEF Drain, LeftAfterDrain, bridgeVars
  <1>2. \A g \in Handles : UnderWay(g) = <<>> /\ UnderWay(g)' = <<>>
    BY <1>1, NobodyIsNoHandle, NothingUnderWay, NothingUnderWayNext
  <1>3. /\ h \in Busy /\ session[h] \in SessionId /\ session[h] # NoSession
        /\ Busy' = Busy \ {h} /\ Made' = Made /\ Broken' = Broken
    <2>1. h \in Busy /\ session[h] \in SessionId /\ session[h] # NoSession
      BY <1>1 DEF Busy, Idle, IInv, TypeOK, LockInv, HasSession
    <2>2. Busy' = Busy \ {h}
      BY DEF Drain, Busy, Idle, IInv, TypeOK
    <2>3. QED
      BY <1>1, <2>1, <2>2 DEF Made, Broken
  <1>4. \A p \in Seq(Annotation) : p \o <<>> = p
    BY ConcatEmptySeq
  <1>5. ASSUME NEW g \in Handles, session[g] # NoSession
        PROVE  /\ session[g] \in SessionId
               /\ inbox[g] \in Seq(Annotation) /\ eventQueue[session[g]] \in Seq(Annotation)
               /\ inbox[g] \o eventQueue[session[g]] \in Seq(Annotation)
               /\ HeldFor(g) = inbox[g] \o eventQueue[session[g]]
               /\ inbox'[g] \in Seq(Annotation) => HeldFor(g)' = inbox'[g]
    <2>1. /\ session[g] \in SessionId
          /\ inbox[g] \in Seq(Annotation)
      BY <1>5 DEF IInv, TypeOK
    <2>2. eventQueue[session[g]] \in Seq(Annotation)
      BY <2>1 DEF IInv, TypeOK
    <2>3. inbox[g] \o eventQueue[session[g]] \in Seq(Annotation)
      BY <2>1, <2>2
    <2>4. HeldFor(g) = (inbox[g] \o eventQueue[session[g]]) \o <<>>
      BY <1>2, <1>5 DEF HeldFor
    <2>5. HeldFor(g)' = (inbox'[g] \o <<>>) \o <<>>
      BY <1>1, <1>2, <1>5, <2>1 DEF HeldFor
    <2>6. QED
      BY <1>4, <2>1, <2>2, <2>3, <2>4, <2>5
  <1>6. ASSUME NEW g \in Handles \ {h}
        PROVE  Service!KeepOrLose(g)
    <2>1. inbox'[g] = inbox[g]
      BY DEF Drain, HandOut, AskForMore, IInv, TypeOK
    <2>2. Held'[g] = HeldFor(g)' /\ Held[g] = HeldFor(g)
      BY DEF Held
    <2>3. CASE session[g] = NoSession
      BY <1>1, <2>2, <2>3 DEF HeldFor, Service!KeepOrLose
    <2>4. CASE session[g] # NoSession /\ eventQueue[session[g]] = <<>>
      <3>1. Held'[g] = inbox[g] /\ Held[g] = inbox[g]
        BY <1>4, <1>5, <2>1, <2>2, <2>4
      <3>2. QED
        BY <3>1 DEF Service!KeepOrLose
    <2>5. CASE session[g] # NoSession /\ eventQueue[session[g]] # <<>>
      <3>1. Held'[g] = inbox[g] /\ Held[g] = inbox[g] \o eventQueue[session[g]]
        BY <1>5, <2>1, <2>2, <2>5
      <3>2. IsPrefix(Held'[g], Held[g])
        BY <1>5, <2>5, <3>1, Extends
      <3>3. g \in Busy \/ Broken
        <4>1. SUFFICES ASSUME bridge # "dead" PROVE g \in Busy
          BY DEF Broken
        <4>2. session[g] \in SessionId /\ \A k \in Handles : ~Burst(k)
          BY <1>1, <1>5, <2>5, NobodyIsNoHandle DEF Burst, IInv, LockInv
        <4>3. PICK k \in Handles : session[k] = session[g] /\ phase[k] = "drain"
          BY <2>5, <4>1, <4>2 DEF QueueInv
        <4>4. k = g
          BY <2>5, <4>3 DEF SessInv, FreshInv
        <4>5. QED
          BY <4>3, <4>4 DEF Busy, Idle
      <3>4. QED
        BY <3>2, <3>3 DEF Service!KeepOrLose, Service!IsPrefix, IsPrefix
    <2>6. QED
      BY <2>3, <2>4, <2>5
  <1> DEFINE all == inbox[h] \o eventQueue[session[h]]
  <1>7. Held[h] = all /\ all \in Seq(Annotation)
    BY <1>3, <1>5 DEF Held
  <1>8. ASSUME NEW kept \in Seq(Annotation), inbox'[h] = kept
        PROVE  Service!HoldAfter(h, kept)
    <2>1. Held'[h] = kept
      BY <1>3, <1>5, <1>8 DEF Held
    <2>2. Held' = [g \in Handles |-> IF g = h THEN kept ELSE Held'[g]]
      BY <2>1 DEF Held
    <2>3. QED
      BY <1>6, <2>2 DEF Service!HoldAfter
  <1>9. CASE HandOut(h, all)
    <2>1. /\ inbox'[h] = <<>> /\ delivered' = [delivered EXCEPT ![h] = @ \o all]
          /\ result' = [result EXCEPT ![h] = "ok"]
      BY <1>9 DEF HandOut, IInv, TypeOK
    <2>2. Service!HoldAfter(h, <<>>)
      <3>1. <<>> \in Seq(Annotation)
        OBVIOUS
      <3>2. QED
        BY <1>8, <2>1, <3>1
    <2>3. QED
      BY <1>1, <1>3, <1>7, <2>1, <2>2
      DEF Service!HandOver, Service!Return, Service!IsOpen
  <1>10. CASE AskForMore(h, all)
    <2>1. /\ inbox'[h] = all /\ delivered' = delivered
          /\ result' = [result EXCEPT ![h] = "more"]
      BY <1>10 DEF AskForMore, IInv, TypeOK
    <2>2. Service!HoldAfter(h, Held[h])
      BY <1>7, <1>8, <2>1
    <2>3. QED
      BY <1>1, <1>3, <2>1, <2>2
      DEF Service!AskForMore, Service!Return, Service!IsOpen
  <1>11. QED
    BY <1>9, <1>10 DEF Drain, DrainedFor

-----------------------------------------------------------------------------
(* What happens during a call, as the service sees it.                     *)

(* The service sees nothing of the step.                                   *)
LEMMA Silent ==
  ASSUME Busy' = Busy, Made' = Made, Held' = Held, Broken' = Broken,
         UNCHANGED <<session, delivered, result>>
  PROVE  UNCHANGED Service!vars
  BY DEF Service!vars

(* A call begins.                                                          *)
LEMMA CallService ==
  ASSUME IInv, NEW h \in Handles, Call(h)
  PROVE  Service!Begin(h)
  <1>1. /\ UNCHANGED <<bridgeVars, sharedLock, eventQueue, session, inbox, delivered>>
        /\ result' = [result EXCEPT ![h] = "none"]
        /\ h \notin Busy
    BY DEF Call, BeginCreate, BeginDecode, BeginDestroy, Busy, Idle
  <1>2. Busy' = Busy \cup {h}
    BY DEF Call, BeginCreate, BeginDecode, BeginDestroy, Busy, Idle, IInv, TypeOK
  <1>3. Made' = Made /\ Held' = Held /\ Broken' = Broken
    BY <1>1, HeldSame, MadeSame DEF bridgeVars, Broken
  <1>4. QED
    BY <1>1, <1>2, <1>3 DEF Service!Begin

(* What is on the wire while h waits.                                      *)
LEMMA WireFacts ==
  ASSUME IInv, NEW h \in Handles, sharedLock = h
  PROVE  /\ Wire \in Seq(Frame) /\ respPipe \in Seq(Frame) /\ outbox \in Seq(Frame)
         /\ \A i \in DOMAIN Wire : IsResponse(Wire[i]) => i = Len(Wire)
         /\ \A i \in DOMAIN Wire : ~IsResponse(Wire[i]) =>
              Wire[i].session = session[h] /\ Wire[i].session \in SessionId
  <1>1. respPipe \in Seq(Frame) /\ outbox \in Seq(Frame) /\ Wire \in Seq(Frame)
    BY DEF IInv, TypeOK, BridgeTypeOK, Wire
  <1>2. /\ DOMAIN Wire = 1..(Len(respPipe) + Len(outbox))
        /\ Len(Wire) = Len(respPipe) + Len(outbox)
        /\ Len(respPipe) \in Nat /\ Len(outbox) \in Nat
        /\ \A i \in 1..Len(respPipe) : Wire[i] = respPipe[i]
        /\ \A i \in 1..Len(outbox) : Wire[i + Len(respPipe)] = outbox[i]
    BY <1>1, ConcatProperties DEF Wire
  <1>3. /\ AnswerStream(h, respPipe) /\ AnswerStream(h, outbox)
        /\ outbox # <<>> => \A i \in DOMAIN respPipe : ~IsResponse(respPipe[i])
    BY DEF IInv, WireInv
  <1>4. ASSUME NEW i \in DOMAIN Wire
        PROVE  /\ IsResponse(Wire[i]) => i = Len(Wire)
               /\ ~IsResponse(Wire[i]) => Wire[i].session = session[h]
    <2>1. CASE i \in 1..Len(respPipe)
      <3>1. Wire[i] = respPipe[i] /\ i \in DOMAIN respPipe
        BY <1>1, <1>2, <2>1
      <3>2. outbox = <<>> => Len(Wire) = Len(respPipe)
        BY <1>1, <1>2
      <3>3. QED
        BY <1>3, <3>1, <3>2 DEF AnswerStream, Awaited
    <2>2. CASE i \notin 1..Len(respPipe)
      <3>1. i - Len(respPipe) \in 1..Len(outbox) /\ (i - Len(respPipe)) + Len(respPipe) = i
        BY <1>2, <2>2
      <3>2. Wire[i] = outbox[i - Len(respPipe)] /\ i - Len(respPipe) \in DOMAIN outbox
        BY <1>1, <1>2, <3>1
      <3>3. i - Len(respPipe) = Len(outbox) => i = Len(Wire)
        BY <1>2, <3>1
      <3>4. QED
        BY <1>3, <3>2, <3>3 DEF AnswerStream, Awaited
    <2>3. QED
      BY <2>1, <2>2
  <1>5. \A f \in Frame : ~IsResponse(f) => f.session \in SessionId
    BY DEF Frame, EventFrame, ResponseFrame, IsResponse
  <1>6. \A i \in DOMAIN Wire : Wire[i] \in Frame
    BY <1>1
  <1>7. QED
    BY <1>1, <1>4, <1>5, <1>6

(* What moves from the front of a sequence to the end of the one before.   *)
LEMMA MovedOn ==
  ASSUME NEW p \in Seq(Annotation), NEW q \in Seq(Annotation),
         NEW u \in Seq(Annotation), NEW x \in Annotation
  PROVE  (p \o Append(q, x)) \o u = (p \o q) \o (<<x>> \o u)
  <1>1. Append(q, x) = q \o <<x>> /\ <<x>> \in Seq(Annotation)
    OBVIOUS
  <1>2. (p \o q) \o <<x>> = p \o (q \o <<x>>)
    BY <1>1, ConcatAssociative
  <1>3. p \o q \in Seq(Annotation)
    OBVIOUS
  <1>4. ((p \o q) \o <<x>>) \o u = (p \o q) \o (<<x>> \o u)
    BY <1>1, <1>3, ConcatAssociative
  <1>5. QED
    BY ONLY <1>1, <1>2, <1>4

(* The last frame to be read is all there is.                              *)
LEMMA OnlyFrame ==
  ASSUME NEW q \in Seq(Frame), q # <<>>, Tail(q) = <<>>
  PROVE  q = <<Head(q)>>
  <1>1. Len(q) = 1 /\ q[1] = Head(q) /\ Head(q) \in Frame
    <2>1. ASSUME NEW p \in Seq(Frame), p # <<>>
          PROVE  /\ Len(p) \in Nat /\ Len(Tail(p)) = Len(p) - 1
                 /\ Head(p) = p[1] /\ p[1] \in Frame
      BY <2>1
    <2>2. Len(<<>>) = 0
      OBVIOUS
    <2>3. Len(Tail(q)) = 0
      BY <2>2
    <2>4. Len(q) \in Nat /\ Len(q) - 1 = 0
      BY <2>1, <2>3
    <2>5. Len(q) = 1
      BY <2>4
    <2>6. QED
      BY <2>1, <2>5
  <1>2. \A x \in Frame : <<x>> \in Seq(Frame) /\ Len(<<x>>) = 1 /\ <<x>>[1] = x
    OBVIOUS
  <1>3. QED
    BY <1>1, <1>2, SeqEqual

(* An event read goes from the wire to the end of the queue.               *)
LEMMA ReceiveEventService ==
  ASSUME IInv, SessInv, NEW h \in Handles, ReceiveEvent(h)
  PROVE  UNCHANGED Service!vars
  <1> DEFINE e == Head(respPipe)
             s == session[h]
             held == inbox[h] \o eventQueue[s]
             w == Wire
  <1>1. /\ sharedLock = h /\ respPipe # <<>> /\ ~IsResponse(e)
        /\ UNCHANGED <<session, inbox, delivered, result, sharedLock, outbox, phase,
                       produced, bridge>>
        /\ respPipe' = Tail(respPipe)
    BY DEF ReceiveEvent, IInv, LockInv, IsResponse
  <1>2. /\ w \in Seq(Frame) /\ respPipe \in Seq(Frame) /\ outbox \in Seq(Frame)
        /\ \A i \in DOMAIN w : IsResponse(w[i]) => i = Len(w)
        /\ \A i \in DOMAIN w : ~IsResponse(w[i]) =>
             w[i].session = s /\ w[i].session \in SessionId
    BY <1>1, WireFacts
  <1>3. /\ w # <<>> /\ Head(w) = e /\ 1 \in DOMAIN w /\ w[1] = e
        /\ Wire' = Tail(w)
    <2>1. \A p, q \in Seq(Frame) : p # <<>> =>
            /\ p \o q # <<>> /\ Head(p \o q) = Head(p) /\ 1 \in DOMAIN (p \o q)
            /\ (p \o q)[1] = Head(p)
            /\ Tail(p) \o q = Tail(p \o q)
      OBVIOUS
    <2>2. QED
      BY <1>1, <1>2, <2>1 DEF Wire
  <1>4. e.session = s /\ s \in SessionId
    BY <1>1, <1>2, <1>3
  <1> HIDE DEF w
  <1>5. /\ Noted(e) \in Annotation /\ EventsOf(Tail(w)) \in Seq(Annotation)
        /\ EventsOf(w) = <<Noted(e)>> \o EventsOf(Tail(w))
    BY <1>1, <1>2, <1>3, FirstEvent
  <1>6. /\ eventQueue'[s] = Append(eventQueue[s], Noted(e))
        /\ \A t \in SessionId : t # s => eventQueue'[t] = eventQueue[t]
    BY <1>4 DEF ReceiveEvent, Noted, IInv, TypeOK
  <1>7. HeldFor(h)' = HeldFor(h)
    <2>1. inbox[h] \in Seq(Annotation) /\ eventQueue[s] \in Seq(Annotation)
      BY <1>4 DEF IInv, TypeOK
    <2>2. (inbox[h] \o Append(eventQueue[s], Noted(e))) \o EventsOf(Tail(w))
            = (inbox[h] \o eventQueue[s]) \o (<<Noted(e)>> \o EventsOf(Tail(w)))
      BY <1>5, <2>1, MovedOn
    <2>3. (inbox[h] \o Append(eventQueue[s], Noted(e))) \o EventsOf(Tail(w))
            = (inbox[h] \o eventQueue[s]) \o EventsOf(w)
      BY ONLY <1>5, <2>2
    <2>4. s # NoSession
      BY <1>4 DEF SessionId, NoSession
    <2>5. HeldFor(h) = (inbox[h] \o eventQueue[s]) \o EventsOf(w)
      BY <1>1, <2>4 DEF HeldFor, UnderWay, Wire, w
    <2>6. HeldFor(h)' = (inbox[h] \o Append(eventQueue[s], Noted(e))) \o EventsOf(Tail(w))
      BY <1>1, <1>3, <1>6, <2>4 DEF HeldFor, UnderWay, Wire
    <2>7. QED
      BY <2>3, <2>5, <2>6
  <1>8. ASSUME NEW g \in Handles \ {h} PROVE HeldFor(g)' = HeldFor(g)
    <2>1. UnderWay(g) = <<>> /\ UnderWay(g)' = <<>>
      BY <1>1, NothingUnderWay, NothingUnderWayNext
    <2>2. session[g] # NoSession => session[g] \in SessionId /\ session[g] # s
      BY DEF SessInv, FreshInv, IInv, TypeOK
    <2>3. QED
      BY <1>1, <1>6, <2>1, <2>2 DEF HeldFor
  <1>9. Held' = Held
    BY <1>7, <1>8 DEF Held
  <1>10. Busy' = Busy /\ Made' = Made /\ Broken' = Broken
    BY <1>1, MadeSame DEF Busy, Broken
  <1>11. QED
    BY <1>1, <1>9, <1>10, Silent

(* The response ends the call, or lets it go on to its drain.              *)
LEMMA ReceiveResponseService ==
  ASSUME IInv, SessInv, ClosedInv, UnusedInv, ResultInv, NEW h \in Handles,
         ReceiveResponse(h)
  PROVE  \/ Service!Open(h) \/ Service!Close(h) \/ Service!Fail(h)
         \/ UNCHANGED Service!vars
  <1> DEFINE f == Head(respPipe)
  <1>1. /\ respPipe # <<>> /\ IsResponse(f) /\ f \in Answers /\ phase[h] = "await"
        /\ sharedLock = h
    BY HeadIsAnswer DEF ReceiveResponse, IsResponse, IInv, LockInv
  <1>2. Awaited(h, f) /\ f \in ResponseFrame
    <2>1. TypeOK /\ LockInv /\ WireInv
      BY DEF IInv
    <2>2. Awaited(h, f)
      BY <1>1, <2>1, HeadAwaited
    <2>3. f \in Frame
      BY <1>1, <2>1, HeadTailTyped DEF TypeOK, BridgeTypeOK
    <2>4. QED
      BY <1>1, <2>2, <2>3 DEF Frame, EventFrame, IsResponse
  <1>3. Conclude(h, f)
    BY <1>1, <1>2 DEF ReceiveResponse, Awaited
  <1>4. /\ UNCHANGED <<bridge, produced, eventQueue>>
        /\ sharedLock' = Nobody /\ respPipe' = <<>> /\ outbox' = <<>> /\ outbox = <<>>
    BY ReceiveResponseWire DEF Quiet, ReceiveResponse
  <1>5. respPipe = <<f>>
    <2>1. respPipe \in Seq(Frame) /\ Tail(respPipe) = <<>>
      BY <1>4 DEF ReceiveResponse, IInv, TypeOK, BridgeTypeOK
    <2>2. QED
      BY <1>1, <2>1, OnlyFrame
  <1>6. \A g \in Handles : UnderWay(g) = <<>> /\ UnderWay(g)' = <<>>
    <2>1. <<f>> \o <<>> = <<f>>
      OBVIOUS
    <2>2. respPipe \o outbox = <<f>>
      BY <1>4, <1>5, <2>1
    <2>3. QED
      BY <1>1, <1>4, <2>2, NoEvents, NothingUnderWayNext DEF UnderWay
  <1>7. /\ h \in Busy /\ op[h] \in RequestOp /\ result[h] = "none"
        /\ op[h] = "create" <=> session[h] = NoSession
    BY <1>1 DEF Busy, Idle, IInv, TypeOK, LockInv, HasSession, ResultInv
  <1>8. CASE f.status # "ok"
    <2>1. Fail(h)
      BY <1>3, <1>8 DEF Conclude
    <2>2. QED
      BY <1>1, <1>4, <1>6, <2>1, FailService
  <1>9. CASE f.status = "ok" /\ op[h] = "create"
    <2>1. Open(h, f.session)
      BY <1>3, <1>9 DEF Conclude, Succeed
    <2>2. f.session # NoSession /\ f.session \in SessionId /\ Opens(h, f)
      BY <1>1, <1>2, <1>9 DEF Awaited, ResponseFrame, Opens
    <2>3. f.session \notin Tabled /\ Unused(f.session)
      BY <1>1, <2>2 DEF SessInv, FreshInv, UnusedInv
    <2>4. \A g \in Handles : session[g] # f.session
      BY <2>2, <2>3 DEF Tabled, OpenHandles
    <2>5. QED
      BY <1>4, <1>6, <1>7, <1>9, <2>1, <2>2, <2>3, <2>4, OpenService
  <1>10. CASE f.status = "ok" /\ op[h] = "destroy"
    <2>1. Dispose(h, "ok")
      BY <1>3, <1>10 DEF Conclude, Succeed
    <2>2. QED
      BY <1>4, <1>6, <1>7, <1>10, <2>1, CloseService
  <1>11. CASE f.status = "ok" /\ op[h] \in {"feed", "finalize"}
    <2>1. GoTo(h, "drain", "none")
      BY <1>3, <1>11 DEF Conclude, Succeed
    <2>2. UNCHANGED <<session, inbox, delivered, result>>
      BY <1>7, <2>1 DEF GoTo, IInv, TypeOK
    <2>3. Busy' = Busy
      BY <1>7, <2>1 DEF GoTo, Busy, Idle, IInv, TypeOK
    <2>4. Made' = Made /\ Held' = Held /\ Broken' = Broken
      BY <1>4, <1>6, <2>2 DEF Made, Held, HeldFor, Broken
    <2>5. QED
      BY <2>2, <2>3, <2>4, Silent
  <1>12. QED
    BY <1>7, <1>8, <1>9, <1>10, <1>11 DEF RequestOp

(* A request goes out unseen, or the call fails.                           *)
LEMMA SendRequestService ==
  ASSUME IInv, NEW h \in Handles, SendRequest(h)
  PROVE  Service!Close(h) \/ Service!Fail(h) \/ UNCHANGED Service!vars
  <1>1. /\ phase[h] = "request" /\ respPipe = <<>> /\ outbox = <<>>
        /\ UNCHANGED <<respPipe, outbox, eventQueue, produced, bridge>>
    BY DEF SendRequest, IInv, WireInv
  <1>2. \A g : UnderWay(g) = <<>> /\ UnderWay(g)' = <<>>
    BY <1>1, NothingUnderWay, NothingUnderWayNext
  <1>3. CASE Write(h)
    <2>1. /\ UNCHANGED <<session, inbox, delivered, result>>
          /\ phase' = [phase EXCEPT ![h] = "await"]
      BY <1>3 DEF Write
    <2>2. Busy' = Busy
      BY <1>1, <2>1 DEF Busy, Idle, IInv, TypeOK
    <2>3. Made' = Made /\ Held' = Held /\ Broken' = Broken
      BY <1>1, <1>2, <2>1 DEF Made, Held, HeldFor, Broken
    <2>4. QED
      BY <2>1, <2>2, <2>3, Silent
  <1>4. CASE WriteFails(h)
    BY <1>1, <1>2, <1>4, FailService DEF WriteFails
  <1>5. QED
    BY <1>3, <1>4 DEF SendRequest

(* The steps of a call.                                                    *)
LEMMA ShimStepService ==
  ASSUME IInv, SessInv, ClosedInv, QueueInv, UnusedInv, ResultInv,
         NEW h \in Handles, ShimStep(h)
  PROVE  [Service!Next]_Service!vars
  <1>1. CASE Enter(h)
    <2>1. UNCHANGED <<bridgeVars, sharedLock, eventQueue, session, inbox, delivered, result>>
      BY <1>1 DEF Enter
    <2>2. Busy' = Busy
      BY <1>1 DEF Enter, Busy, Idle, IInv, TypeOK
    <2>3. Made' = Made /\ Held' = Held /\ Broken' = Broken
      BY <2>1, HeldSame, MadeSame DEF bridgeVars, Broken
    <2>4. QED
      BY <2>1, <2>2, <2>3, Silent
  <1>2. CASE Refuse(h)
    <2>1. /\ h \in Busy /\ session[h] = NoSession /\ Dispose(h, "err")
          /\ UNCHANGED <<eventQueue, bridgeVars, sharedLock>>
      BY <1>2 DEF Refuse, Busy, Idle, IInv, LockInv, HasSession
    <2>2. Service!Close(h)
      BY <2>1, CloseService DEF bridgeVars, UnderWay
    <2>3. QED
      BY <2>2 DEF Service!Next
  <1>3. CASE Ensure(h)
    <2>1. /\ UNCHANGED <<sharedLock, eventQueue, session, inbox, delivered, result>>
          /\ UNCHANGED <<respPipe, outbox, produced>>
      BY <1>3 DEF Ensure, Spawn, bridgeVars
    <2>2. Busy' = Busy
      BY <1>3 DEF Ensure, Busy, Idle, IInv, TypeOK
    <2>3. Broken' = Broken
      BY <1>3 DEF Ensure, Spawn, bridgeVars, Broken, QueueInv
    <2>4. Made' = Made /\ Held' = Held
      BY <2>1, HeldSame, MadeSame
    <2>5. QED
      BY <2>1, <2>2, <2>3, <2>4, Silent
  <1>4. CASE SendRequest(h)
    BY <1>4, SendRequestService DEF Service!Next
  <1>5. CASE ReceiveEvent(h)
    BY <1>5, ReceiveEventService
  <1>6. CASE ReceiveResponse(h)
    BY <1>6, ReceiveResponseService DEF Service!Next
  <1>7. CASE ReceiveEof(h)
    <2>1. /\ phase[h] = "await" /\ Fail(h) /\ respPipe = <<>> /\ outbox = <<>>
          /\ UNCHANGED <<bridgeVars, eventQueue>>
      BY <1>7 DEF ReceiveEof, IInv, WireInv
    <2>2. \A g : UnderWay(g) = <<>> /\ UnderWay(g)' = <<>>
      BY <2>1, NothingUnderWay, NothingUnderWayNext DEF bridgeVars
    <2>3. Service!Close(h) \/ Service!Fail(h)
      BY <2>1, <2>2, FailService DEF bridgeVars
    <2>4. QED
      BY <2>3 DEF Service!Next
  <1>8. CASE Drain(h)
    BY <1>8, DrainService DEF Service!Next
  <1>9. QED
    BY <1>1, <1>2, <1>3, <1>4, <1>5, <1>6, <1>7, <1>8 DEF ShimStep

(* A request that is handled makes what is under way its annotations.      *)
LEMMA ReadRequestService ==
  ASSUME IInv, IInv', SessInv, ReadRequest, UNCHANGED shimVars
  PROVE  [Service!Next]_Service!vars
  <1> DEFINE req == Head(reqPipe)
  <1>1. PICK h \in Handles : sharedLock = h
    BY DEF ReadRequest, IInv, WireInv, TypeOK
  <1> DEFINE s == session[h]
             queued == inbox[h] \o eventQueue[s]
  <1>2. /\ reqPipe = <<[id |-> CurrentId, op |-> op[h], session |-> session[h]]>>
        /\ respPipe = <<>> /\ outbox = <<>> /\ req.op = op[h] /\ req.session = s
    BY <1>1 DEF ReadRequest, IInv, WireInv
  <1>3. /\ UNCHANGED <<eventQueue, session, inbox, delivered, result, sharedLock, phase>>
        /\ respPipe' = <<>> /\ bridge' = bridge
    BY <1>2 DEF ReadRequest, shimVars
  <1>4. Busy' = Busy /\ Broken' = Broken /\ h \in Busy
    BY <1>1, <1>3 DEF Busy, Broken, Idle, IInv, LockInv
  <1>5. \A g \in Handles : UnderWay(g) = <<>> /\ (g # h => UnderWay(g)' = <<>>)
    BY <1>1, <1>2, <1>3, NothingUnderWay, NothingUnderWayNext
  <1>6. UnderWay(h)' = EventsOf(outbox')
    <2>1. <<>> \o outbox' = outbox'
      BY ConcatEmptySeq DEF IInv, TypeOK, BridgeTypeOK
    <2>2. QED
      BY <1>1, <1>3, <2>1 DEF UnderWay
  <1>7. ASSUME produced' = produced, NEW f, IsResponse(f), outbox' = <<f>>
        PROVE  UNCHANGED Service!vars
    <2>1. UnderWay(h)' = <<>>
      BY <1>6, <1>7, NoEvents
    <2>2. Made' = Made /\ Held' = Held
      BY <1>3, <1>5, <1>7, <2>1 DEF Made, Held, HeldFor
    <2>3. QED
      BY <1>3, <1>4, <2>2, Silent
  <1>8. ASSUME s \in SessionId, NEW k \in Nat,
               outbox' = EventsThenResponse(req.id, s, k),
               produced' = [produced EXCEPT ![s] = @ + k]
        PROVE  UNCHANGED Service!vars \/ Service!Make(h)
    <2> DEFINE burst == [i \in 1..k |-> [session |-> s, n |-> produced[s] + i]]
    <2>1. EventsOf(outbox') = burst
      <3>1. /\ Len(outbox') = k + 1 /\ outbox' # <<>>
            /\ IsResponse(outbox'[k + 1])
            /\ \A i \in 1..k : /\ outbox'[i].session = s
                               /\ outbox'[i].n = produced[s] + i
        BY <1>8 DEF EventsThenResponse, Event, Response, IsResponse
      <3>2. Answered(outbox')
        BY <3>1 DEF Answered
      <3>3. Len(outbox') - 1 = k
        BY <3>1
      <3>4. QED
        BY <3>1, <3>2, <3>3 DEF EventsOf
    <2>2. /\ produced[s] \in Nat /\ produced'[s] = produced[s] + k
          /\ \A t \in SessionId \ {s} : produced'[t] = produced[t]
      BY <1>8, AnnotationBound DEF IInv, TypeOK, BridgeTypeOK
    <2>3. s # NoSession
      BY <1>8 DEF SessionId, NoSession
    <2>4. /\ Made[h] = produced[s] /\ Made'[h] = produced[s] + k
          /\ \A g \in Handles \ {h} : Made'[g] = Made[g]
      <3>1. \A g \in Handles \ {h} :
              session[g] # NoSession => session[g] \in SessionId \ {s}
        BY <2>3 DEF SessInv, FreshInv, IInv, TypeOK
      <3>2. QED
        BY <1>3, <2>2, <2>3, <3>1 DEF Made
    <2>5. burst \in Seq(Annotation) /\ queued \in Seq(Annotation)
      <3>1. inbox[h] \in Seq(Annotation) /\ eventQueue[s] \in Seq(Annotation)
        BY <1>8 DEF IInv, TypeOK
      <3>2. \A i \in 1..k : [session |-> s, n |-> produced[s] + i] \in Annotation
        BY <1>8, <2>2 DEF Annotation
      <3>3. QED
        BY <3>1, <3>2
    <2>6. HeldFor(h) = queued /\ HeldFor(h)' = queued \o burst
      <3>1. HeldFor(h) = queued \o <<>>
        BY <1>5, <2>3 DEF HeldFor
      <3>2. HeldFor(h)' = queued \o burst
        BY <1>3, <1>6, <2>1, <2>3 DEF HeldFor
      <3>3. QED
        BY <2>5, <3>1, <3>2, ConcatEmptySeq
    <2>7. \A g \in Handles \ {h} : HeldFor(g)' = HeldFor(g)
      BY <1>3, <1>5 DEF HeldFor
    <2>8. CASE k = 0
      <3>1. burst = <<>>
        BY <2>8
      <3>2. HeldFor(h)' = HeldFor(h)
        BY <2>5, <2>6, <3>1, ConcatEmptySeq
      <3>3. Held' = Held
        BY <2>7, <3>2 DEF Held
      <3>4. Made' = Made
        BY <2>2, <2>4, <2>8 DEF Made
      <3>5. QED
        BY <1>3, <1>4, <3>3, <3>4, Silent
    <2>9. CASE k # 0
      <3>1. Made'[h] > Made[h] /\ Made'[h] - Made[h] = k
        BY <2>2, <2>4, <2>9
      <3>2. Made' = [Made EXCEPT ![h] = Made'[h]]
        BY <2>4 DEF Made
      <3>3. burst = [i \in 1..(Made'[h] - Made[h]) |->
                       [session |-> session[h], n |-> Made[h] + i]]
        BY <2>4, <3>1
      <3>4. Held' = [Held EXCEPT ![h] = @ \o burst]
        BY <2>6, <2>7 DEF Held
      <3> HIDE DEF burst
      <3>5. QED
        BY <1>3, <1>4, <2>3, <3>1, <3>2, <3>3, <3>4
        DEF Service!Make, Service!IsOpen
    <2>10. QED
      BY <2>8, <2>9
  <1>9. CASE HandleCreateSession(req) \/ HandleDestroy(req)
    <2>1. /\ produced' = produced
          /\ \E id, st, t : outbox' = <<Response(id, st, t)>>
      BY <1>9 DEF HandleCreateSession, HandleDestroy
    <2>2. QED
      BY <1>7, <2>1 DEF Response, IsResponse
  <1>10. CASE HandleDecode(req)
    <2>1. CASE outbox' = <<Response(req.id, "err", NoSession)>> /\ produced' = produced
      BY <1>7, <2>1 DEF Response, IsResponse
    <2>2. ASSUME s \in sessions, NEW k \in 0..(MaxAnnotations - produced[s]),
                 outbox' = EventsThenResponse(req.id, s, k),
                 produced' = [produced EXCEPT ![s] = @ + k]
          PROVE  UNCHANGED Service!vars \/ Service!Make(h)
      <3>1. s \in SessionId
        BY <2>2 DEF IInv, TypeOK, BridgeTypeOK
      <3>2. k \in Nat
        BY <3>1, AnnotationBound DEF IInv, TypeOK, BridgeTypeOK
      <3>3. QED
        BY <1>8, <2>2, <3>1, <3>2
    <2>3. QED
      BY <1>2, <1>10, <2>1, <2>2 DEF HandleDecode, Service!Next
  <1>11. QED
    BY <1>9, <1>10 DEF ReadRequest, Handle

(* A crash breaks the service, and cuts off what was still to be written.  *)
LEMMA CrashService ==
  ASSUME IInv, Crash, UNCHANGED shimVars
  PROVE  Service!Break
  <1>1. /\ UNCHANGED <<eventQueue, session, inbox, delivered, result, sharedLock, phase>>
        /\ UNCHANGED <<respPipe, produced>> /\ outbox' = <<>>
        /\ ~Broken /\ Broken'
    BY DEF Crash, shimVars, Broken
  <1>2. Busy' = Busy /\ Made' = Made
    BY <1>1, MadeSame DEF Busy
  <1>3. ASSUME NEW h \in Handles
        PROVE  Held'[h] = Held[h] \/ (h \in Busy /\ Service!IsPrefix(Held'[h], Held[h]))
    <2>1. Held[h] = HeldFor(h) /\ Held'[h] = HeldFor(h)'
      BY DEF Held
    <2>2. CASE sharedLock # h \/ session[h] = NoSession
      <3>1. sharedLock # h => UnderWay(h) = <<>> /\ UnderWay(h)' = <<>>
        BY <1>1, NothingUnderWay, NothingUnderWayNext
      <3>2. QED
        BY <1>1, <2>1, <2>2, <3>1 DEF HeldFor
    <2>3. CASE sharedLock = h /\ session[h] # NoSession
      <3> DEFINE queued == inbox[h] \o eventQueue[session[h]]
      <3>1. h \in Busy
        BY <2>3 DEF Busy, Idle, IInv, LockInv
      <3>2. queued \in Seq(Annotation)
        <4>1. session[h] \in SessionId /\ inbox[h] \in Seq(Annotation)
          BY <2>3 DEF IInv, TypeOK
        <4>2. eventQueue[session[h]] \in Seq(Annotation)
          BY <4>1 DEF IInv, TypeOK
        <4>3. QED
          BY <4>1, <4>2
      <3>3. /\ EventsOf(respPipe) \in Seq(Annotation)
            /\ EventsOf(respPipe \o outbox) \in Seq(Annotation)
            /\ IsPrefix(EventsOf(respPipe), EventsOf(respPipe \o outbox))
        BY <2>3, WireFacts, CutEvents DEF Wire
      <3>4. Held[h] = queued \o EventsOf(respPipe \o outbox)
        BY <2>1, <2>3 DEF HeldFor, UnderWay
      <3>5. Held'[h] = queued \o EventsOf(respPipe)
        <4>1. respPipe \o <<>> = respPipe
          BY ConcatEmptySeq DEF IInv, TypeOK, BridgeTypeOK
        <4>2. QED
          BY <1>1, <2>1, <2>3, <4>1 DEF HeldFor, UnderWay
      <3> HIDE DEF queued
      <3>6. IsPrefix(Held'[h], Held[h])
        BY <3>2, <3>3, <3>4, <3>5, PrefixBehind
      <3>7. QED
        BY <3>1, <3>6 DEF Service!IsPrefix, IsPrefix
    <2>4. QED
      BY <2>2, <2>3
  <1>4. Held' = [h \in Handles |-> Held'[h]]
    BY DEF Held
  <1>5. QED
    BY <1>1, <1>2, <1>3, <1>4 DEF Service!Break

(* Every step is one of the service, or none.                              *)
LEMMA StepService ==
  ASSUME IInv, IInv', SessInv, ClosedInv, QueueInv, UnusedInv, ResultInv, [Next]_vars
  PROVE  [Service!Next]_Service!vars
  <1>1. CASE \E h \in Handles : Call(h) \/ ShimStep(h)
    BY <1>1, CallService, ShimStepService DEF Service!Next
  <1>2. CASE ReadRequest /\ UNCHANGED shimVars
    BY <1>2, ReadRequestService
  <1>3. CASE WriteFrame /\ UNCHANGED shimVars
    <2>1. UNCHANGED <<session, inbox, eventQueue, sharedLock, produced, bridge, phase,
                      delivered, result>>
      BY <1>3 DEF WriteFrame, shimVars
    <2>2. respPipe' \o outbox' = respPipe \o outbox
      <3>1. respPipe \in Seq(Frame) /\ outbox \in Seq(Frame)
        BY DEF IInv, TypeOK, BridgeTypeOK
      <3>2. \A p, q \in Seq(Frame) : q # <<>> => Append(p, Head(q)) \o Tail(q) = p \o q
        OBVIOUS
      <3>3. QED
        BY <1>3, <3>1, <3>2 DEF WriteFrame
    <2>3. Held' = Held /\ Made' = Made /\ Busy' = Busy /\ Broken' = Broken
      BY <2>1, <2>2, MadeSame DEF Held, HeldFor, UnderWay, Busy, Broken
    <2>4. QED
      BY <2>1, <2>3, Silent
  <1>4. CASE Crash /\ UNCHANGED shimVars
    BY <1>4, CrashService DEF Service!Next
  <1>5. CASE UNCHANGED vars
    <2>1. UNCHANGED <<session, inbox, eventQueue, sharedLock, produced, bridge, phase,
                      delivered, result, respPipe, outbox>>
      BY <1>5 DEF vars, bridgeVars, shimVars
    <2>2. Held' = Held /\ Made' = Made /\ Busy' = Busy /\ Broken' = Broken
      BY <2>1, HeldSame, MadeSame DEF Busy, Broken
    <2>3. QED
      BY <2>1, <2>2, Silent
  <1>6. QED
    BY <1>1, <1>2, <1>3, <1>4, <1>5 DEF Next, BridgeStep, Rest

(* The service starts as the shim does.                                    *)
LEMMA InitService == Init => Service!Init
  BY DEF Init, BridgeInit, Service!Init, Busy, Idle, Made, Held, HeldFor, Broken

(* The plugin and the bridge implement the service promised to the loader  *)
(* (ShimSessions!ImplementsDecodeService): a call that no other overlaps   *)
(* hands out everything its session has produced, each annotation once and *)
(* in order, or keeps all of it for the next one, for any number of        *)
(* handles, sessions, annotations and slots and any pipe capacity.         *)
THEOREM ServiceImplemented == Spec => ImplementsDecodeService
  <1> DEFINE Inv == SessInv /\ ClosedInv /\ QueueInv /\ UnusedInv /\ ResultInv
  <1>1. Init => Inv
    <2> SUFFICES ASSUME Init PROVE Inv
      OBVIOUS
    <2>1. SessInv /\ ClosedInv /\ Answers = {}
      BY InitSess, NoAnswers DEF Init, BridgeInit, ClosedInv
    <2>2. QueueInv /\ UnusedInv /\ ResultInv
      BY <2>1 DEF Init, BridgeInit, QueueInv, UnusedInv, Unused, ResultInv, Idle
    <2>3. QED
      BY <2>1, <2>2
  <1>2. IInv /\ Inv /\ [Next]_vars => Inv'
    BY NextSess, NextClosed, NextQueue, NextUnused, NextResult
  <1>3. IInv /\ IInv' /\ Inv /\ [Next]_vars => [Service!Next]_Service!vars
    BY StepService
  <1> HIDE DEF Inv
  <1>4. QED
    BY <1>1, <1>2, <1>3, Invariance, InitService, PTL
    DEF Spec, ImplementsDecodeService, Service!Spec

-----------------------------------------------------------------------------
(***************************************************************************)
(* No call waits for good.  While a thread holds SHARED and the bridge     *)
(* runs, its request is still unread, or the answer is on the way and ends *)
(* in a response: so either the bridge goes on or the thread does.  And    *)
(* who holds REGISTRY wants SHARED at most, never the other way round.     *)
(***************************************************************************)
AnswerInv ==
  sharedLock # Nobody =>
    /\ bridge # "absent"
    /\ bridge = "running" =>
         \/ reqPipe # <<>>
         \/ Answered(outbox)
         \/ outbox = <<>> /\ Answered(respPipe)

(* A step that keeps the bridge and the wire, and SHARED or at least not   *)
(* in a call.                                                              *)
LEMMA AnswerUntouched ==
  ASSUME AnswerInv, UNCHANGED <<bridge, reqPipe, respPipe, outbox>>,
         sharedLock' \in {sharedLock, Nobody}
  PROVE  AnswerInv'
  BY DEF AnswerInv, Answered, IsResponse

(* A tail that is not empty ends as the whole.                             *)
LEMMA TailLast ==
  ASSUME NEW S, NEW q \in Seq(S), q # <<>>, Len(q) # 1
  PROVE  Tail(q) # <<>> /\ Tail(q)[Len(Tail(q))] = q[Len(q)]
<1>1. Len(q) \in Nat /\ Len(q) # 0
  OBVIOUS
<1>2. \A n \in Nat : n # 0 /\ n # 1 => n > 1
  OBVIOUS
<1>3. Len(q) \in Nat /\ Len(q) > 1
  BY <1>1, <1>2
<1>4. Tail(q) \in Seq(S) /\ Len(Tail(q)) = Len(q) - 1
  BY HeadTailProperties
<1>5. \A i \in 1..Len(Tail(q)) : Tail(q)[i] = q[i + 1]
  BY HeadTailProperties
<1>6. Tail(q) # <<>>
  BY <1>3, <1>4
<1>7. Len(q) - 1 \in 1..Len(Tail(q)) /\ (Len(q) - 1) + 1 = Len(q)
  BY <1>3, <1>4
<1> QED
  BY <1>4, <1>5, <1>6, <1>7

(* What run() writes for a feed or a flush ends in its response.           *)
LEMMA BurstAnswered ==
  ASSUME NEW id, NEW s, NEW k \in Nat
  PROVE  Answered(EventsThenResponse(id, s, k))
<1> DEFINE q == EventsThenResponse(id, s, k)
<1>1. DOMAIN q = 1..(k + 1) /\ Len(q) = k + 1
  BY DEF EventsThenResponse
<1>2. q[k + 1] = Response(id, "ok", s)
  BY DEF EventsThenResponse
<1>3. IsResponse(q[k + 1])
  BY <1>2 DEF IsResponse, Response
<1>4. q # <<>>
  BY <1>1
<1> HIDE DEF q
<1>5. Answered(q)
  BY <1>1, <1>3, <1>4 DEF Answered
<1> QED
  BY <1>5 DEF q

(* So does whatever the loop makes of a request.                           *)
LEMMA HandleAnswered ==
  ASSUME BridgeTypeOK, NEW req, Handle(req)
  PROVE  Answered(outbox')
<1>1. \A id, st, s : Answered(<<Response(id, st, s)>>)
  BY DEF Answered, IsResponse, Response
<1>2. CASE HandleCreateSession(req)
  BY <1>1, <1>2 DEF HandleCreateSession
<1>3. CASE HandleDecode(req)
  <2>1. CASE outbox' = <<Response(req.id, "err", NoSession)>>
    BY <1>1, <2>1
  <2>2. CASE \E k \in 0..(MaxAnnotations - produced[req.session]) :
               outbox' = EventsThenResponse(req.id, req.session, k)
    <3>1. PICK k \in Nat : outbox' = EventsThenResponse(req.id, req.session, k)
      BY <2>2
    <3> QED
      BY <3>1, BurstAnswered
  <2> QED
    BY <1>3, <2>1, <2>2 DEF HandleDecode
<1>4. CASE HandleDestroy(req)
  BY <1>1, <1>4 DEF HandleDestroy
<1> QED
  BY <1>2, <1>3, <1>4 DEF Handle

(* The response is the last frame the loop writes.                         *)
LEMMA WriteFrameAnswer ==
  ASSUME IInv, AnswerInv, WriteFrame, UNCHANGED shimVars
  PROVE  AnswerInv'
<1>1. /\ outbox # <<>>
      /\ respPipe' = Append(respPipe, Head(outbox))
      /\ outbox' = Tail(outbox)
      /\ UNCHANGED <<bridge, reqPipe, sharedLock>>
  BY DEF WriteFrame, shimVars
<1>2. outbox \in Seq(Frame) /\ respPipe \in Seq(Frame) /\ Head(outbox) \in Frame
  BY <1>1, HeadTailTyped DEF IInv, TypeOK, BridgeTypeOK
<1>3. reqPipe = <<>>
  BY <1>1 DEF IInv, WireInv
<1>4. CASE sharedLock # Nobody /\ bridge = "running"
  <2>1. IsResponse(outbox[Len(outbox)])
    BY <1>1, <1>3, <1>4 DEF AnswerInv, Answered
  <2>2. CASE Len(outbox) = 1
    <3>1. IsResponse(Head(outbox)) /\ outbox' = <<>>
      BY <1>1, <1>2, <2>1, <2>2
    <3>2. respPipe' # <<>> /\ respPipe'[Len(respPipe')] = Head(outbox)
      BY <1>1, <1>2, AppendProperties
    <3>3. Answered(respPipe')
      BY <3>1, <3>2 DEF Answered
    <3> QED
      BY <1>1, <1>4, <3>1, <3>3 DEF AnswerInv, Answered, IsResponse
  <2>3. CASE Len(outbox) # 1
    <3>1. /\ outbox' # <<>>
          /\ outbox'[Len(outbox')] = outbox[Len(outbox)]
      BY <1>1, <1>2, <2>3, TailLast
    <3>2. Answered(outbox')
      BY <2>1, <3>1 DEF Answered
    <3> QED
      BY <1>1, <1>4, <3>2 DEF AnswerInv, Answered, IsResponse
  <2> QED
    BY <2>2, <2>3
<1> QED
  BY <1>1, <1>4 DEF AnswerInv

(* Events are taken from in front of the response.                         *)
LEMMA ReceiveEventAnswer ==
  ASSUME IInv, AnswerInv, NEW h \in Handles, ReceiveEvent(h)
  PROVE  AnswerInv'
<1>1. /\ respPipe # <<>>
      /\ ~IsResponse(Head(respPipe))
      /\ respPipe' = Tail(respPipe)
      /\ UNCHANGED <<bridge, reqPipe, outbox, sharedLock>>
  BY DEF ReceiveEvent, IsResponse
<1>2. respPipe \in Seq(Frame)
  BY DEF IInv, TypeOK, BridgeTypeOK
<1>3. Answered(respPipe) => Answered(respPipe')
  <2> SUFFICES ASSUME IsResponse(respPipe[Len(respPipe)])
               PROVE  Answered(respPipe')
    BY DEF Answered
  <2>1. Len(respPipe) # 1
    BY <1>1, <1>2
  <2>2. /\ respPipe' # <<>>
        /\ respPipe'[Len(respPipe')] = respPipe[Len(respPipe)]
    BY <1>1, <1>2, <2>1, TailLast
  <2> QED
    BY <2>2 DEF Answered
<1>4. Answered(outbox)' = Answered(outbox) /\ Answered(respPipe)' = Answered(respPipe')
  BY <1>1 DEF Answered, IsResponse
<1> QED
  BY <1>1, <1>3, <1>4 DEF AnswerInv

(* AnswerInv is kept by every step from a state of the inductive           *)
(* invariant.                                                              *)
LEMMA NextAnswer ==
  ASSUME IInv, AnswerInv, [Next]_vars
  PROVE  AnswerInv'
<1>1. ASSUME NEW h \in Handles, Call(h)
      PROVE  AnswerInv'
  BY <1>1, AnswerUntouched
  DEF Call, BeginCreate, BeginDecode, BeginDestroy, bridgeVars
<1>2. ASSUME NEW h \in Handles, ShimStep(h)
      PROVE  AnswerInv'
  <2>1. CASE Enter(h) \/ Refuse(h) \/ Drain(h)
    BY <2>1, AnswerUntouched DEF Enter, Refuse, Drain, bridgeVars
  <2>2. CASE Ensure(h)
    BY <2>2 DEF Ensure, AnswerInv
  <2>3. CASE SendRequest(h)
    <3>1. CASE Write(h)
      <4>1. reqPipe \in Seq(Request)
        BY DEF IInv, TypeOK, BridgeTypeOK
      <4>2. \A x \in Request : Append(reqPipe, x) # <<>>
        BY <4>1, AppendProperties
      <4>3. [id |-> nextId, op |-> op[h], session |-> session[h]] \in Request
        BY DEF IInv, TypeOK, Request
      <4> QED
        BY <2>3, <3>1, <4>2, <4>3 DEF SendRequest, Write, AnswerInv
    <3>2. CASE WriteFails(h)
      BY <2>3, <3>2 DEF SendRequest, WriteFails, ReleaseLocks, AnswerInv
    <3> QED
      BY <2>3, <3>1, <3>2 DEF SendRequest
  <2>4. CASE ReceiveEvent(h)
    BY <2>4, ReceiveEventAnswer
  <2>5. CASE ReceiveResponse(h)
    BY <2>5, ReceiveResponseWire DEF Quiet, AnswerInv
  <2>6. CASE ReceiveEof(h)
    BY <2>6 DEF ReceiveEof, ReleaseLocks, AnswerInv
  <2> QED
    BY <1>2, <2>1, <2>2, <2>3, <2>4, <2>5, <2>6 DEF ShimStep
<1>3. CASE ReadRequest /\ UNCHANGED shimVars
  <2>1. Answered(outbox') /\ UNCHANGED <<bridge, sharedLock>>
    BY <1>3, HandleAnswered DEF ReadRequest, shimVars, IInv, TypeOK
  <2>2. Answered(outbox)'
    BY <2>1 DEF Answered, IsResponse
  <2> QED
    BY <2>1, <2>2 DEF AnswerInv
<1>4. CASE WriteFrame /\ UNCHANGED shimVars
  BY <1>4, WriteFrameAnswer
<1>5. CASE Crash /\ UNCHANGED shimVars
  BY <1>5 DEF Crash, shimVars, AnswerInv
<1>6. CASE UNCHANGED vars
  BY <1>6, AnswerUntouched DEF vars, bridgeVars, shimVars
<1> QED
  BY <1>1, <1>2, <1>3, <1>4, <1>5, <1>6 DEF Next, BridgeStep, Rest

(* With SHARED held, its holder or the bridge goes on.                     *)
LEMMA HolderOrBridge ==
  ASSUME IInv, AnswerInv, NEW h \in Handles, sharedLock = h
  PROVE  BridgeGoesOn \/ (h \in Busy /\ ~Waits(h))
<1>1. phase[h] = "await" /\ h \in Busy
  BY DEF IInv, LockInv, Busy, Idle
<1>2. bridge \in {"running", "dead"}
  BY NobodyIsNoHandle DEF AnswerInv, IInv, TypeOK, BridgeTypeOK
<1>3. CASE respPipe # <<>> \/ bridge = "dead"
  BY <1>1, <1>3 DEF Waits
<1>4. CASE respPipe = <<>> /\ bridge = "running"
  <2>1. reqPipe # <<>> \/ outbox # <<>>
    BY <1>4, NobodyIsNoHandle DEF AnswerInv, Answered
  <2>2. reqPipe # <<>> => outbox = <<>>
    BY DEF IInv, WireInv
  <2>3. Len(respPipe) < PipeCapacity
    BY <1>4, PipeBound
  <2> QED
    BY <1>4, <2>1, <2>2, <2>3 DEF BridgeGoesOn
<1> QED
  BY <1>2, <1>3, <1>4

(* With SHARED free, a call that does not wait for REGISTRY goes on.       *)
LEMMA UnlockedGoesOn ==
  ASSUME IInv, sharedLock = Nobody, NEW h \in Busy, phase[h] # "enter"
  PROVE  ~Waits(h)
<1>1. phase[h] # "await"
  BY NobodyIsNoHandle DEF IInv, LockInv, Busy
<1>2. Len(reqPipe) # PipeCapacity
  BY PipeBound DEF IInv, WireInv
<1> QED
  BY <1>1, <1>2 DEF Waits

(* While a call is under way, a thread or the bridge goes on.              *)
LEMMA SomebodyGoesOn == IInv /\ AnswerInv => NoCallIsStuck
<1> SUFFICES ASSUME IInv, AnswerInv, NEW h \in Busy
             PROVE  BridgeGoesOn \/ \E g \in Busy : ~Waits(g)
  BY DEF NoCallIsStuck
<1>1. h \in Handles
  BY DEF Busy
<1>2. CASE sharedLock # Nobody
  BY <1>2, HolderOrBridge DEF IInv, TypeOK
<1>3. CASE sharedLock = Nobody /\ phase[h] # "enter"
  BY <1>3, UnlockedGoesOn
<1>4. CASE sharedLock = Nobody /\ phase[h] = "enter"
  <2>1. CASE registryLock = Nobody
    BY <1>4, <2>1 DEF Waits
  <2>2. CASE registryLock # Nobody
    <3>1. PICK g \in Handles : registryLock = g
      BY <2>2 DEF IInv, TypeOK
    <3>2. g \in Busy /\ phase[g] # "enter"
      BY <3>1 DEF IInv, LockInv, InCreate, Busy, Idle
    <3> QED
      BY <1>4, <3>2, UnlockedGoesOn
  <2> QED
    BY <2>1, <2>2
<1> QED
  BY <1>2, <1>3, <1>4

(* However many handles are called at once and however small the pipes,    *)
(* the calls never all wait with nobody to go on                           *)
(* (ShimSessions!NoCallIsStuck): create may hold REGISTRY while it takes   *)
(* SHARED, and whoever holds SHARED has an answer or a dead bridge coming. *)
THEOREM CallsAreNotStuck == Spec => []NoCallIsStuck
<1>1. Init => AnswerInv
  BY DEF Init, AnswerInv
<1>2. IInv /\ AnswerInv /\ [Next]_vars => AnswerInv'
  BY NextAnswer
<1> QED
  BY <1>1, <1>2, Invariance, SomebodyGoesOn, PTL DEF Spec
=============================================================================
