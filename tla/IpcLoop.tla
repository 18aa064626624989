------------------------------ MODULE IpcLoop ------------------------------
(***************************************************************************)
(* The bridge subprocess: the loop of crates/bridge/src/ipc_loop.rs, which *)
(* reads one request frame from stdin, dispatches it to the active         *)
(* backend, writes the annotation events the request produced and then its *)
(* response on stdout, and only then reads the next request.               *)
(*                                                                         *)
(* The backend (mock or libsigrokdecode) is seen through its trait only:   *)
(* a session table, and for each feed or finalize either a burst of        *)
(* annotations or an error.  What a burst contains is the business of      *)
(* other modules; here an annotation is its session and its number n in    *)
(* the sequence of annotations that session has produced.                  *)
(*                                                                         *)
(* The two pipes carry whole frames, oldest first.  A crash of the process *)
(* loses what it had not read and what it had not written; frames already  *)
(* in the response pipe stay readable.  list_decoders and shutdown travel  *)
(* on another connection (modules Registration and Connection) and are not *)
(* handled here.                                                           *)
(***************************************************************************)
EXTENDS Naturals, Sequences

CONSTANTS
  MaxSessions,      \* bound: sessions the backend opens in its lifetime
  MaxAnnotations,   \* bound: annotations one session produces
  PipeCapacity      \* frames a pipe holds before its writer blocks

ASSUME SessionBound == MaxSessions \in Nat \ {0}
ASSUME AnnotationBound == MaxAnnotations \in Nat
ASSUME PipeBound == PipeCapacity \in Nat \ {0}

VARIABLES
  bridge,       \* "absent" (not spawned), "running" or "dead"
  reqPipe,      \* the child's stdin: requests written, not yet read
  respPipe,     \* the child's stdout: frames written, not yet read
  outbox,       \* frames handle() returned that run() has still to write
  sessions,     \* the sessions open in the backend
  nextSession,  \* the id the next session gets
  produced      \* history: annotations each session has produced

bridgeVars == <<bridge, reqPipe, respPipe, outbox, sessions, nextSession,
                produced>>

SessionId == 1..MaxSessions
NoSession == 0

RequestOp == {"create", "feed", "finalize", "destroy"}
Request == [id : Nat, op : RequestOp, session : SessionId \cup {NoSession}]
Annotation == [session : SessionId, n : Nat]
EventFrame == [kind : {"event"}, session : SessionId, n : Nat]
ResponseFrame == [kind : {"response"}, id : Nat, status : {"ok", "err"},
                  session : SessionId \cup {NoSession}]
Frame == EventFrame \cup ResponseFrame

(* Mutant: tag_events does not fill in the session.                        *)
UntaggedEvent(s, n) == [kind |-> "event", session |-> NoSession, n |-> n]

Event(s, n) == [kind |-> "event", session |-> s, n |-> n]
Response(id, status, s) ==
  [kind |-> "response", id |-> id, status |-> status, session |-> s]

BridgeTypeOK ==
  /\ bridge \in {"absent", "running", "dead"}
  /\ reqPipe \in Seq(Request)
  /\ respPipe \in Seq(Frame)
  /\ outbox \in Seq(Frame)
  /\ sessions \subseteq SessionId
  /\ nextSession \in 1..(MaxSessions + 1)
  /\ produced \in [SessionId -> 0..MaxAnnotations]

BridgeInit ==
  /\ bridge = "absent"
  /\ reqPipe = <<>>
  /\ respPipe = <<>>
  /\ outbox = <<>>
  /\ sessions = {}
  /\ nextSession = 1
  /\ produced = [s \in SessionId |-> 0]

-----------------------------------------------------------------------------
(* Mutant: the response is written before the events.                      *)
ResponseThenEvents(id, s, k) ==
  [i \in 1..(k + 1) |-> IF i = 1 THEN Response(id, "ok", s)
                                 ELSE Event(s, produced[s] + i - 1)]

(* What run() writes for a request that produced k annotations: the events *)
(* first, the response last.                                               *)
EventsThenResponse(id, s, k) ==
  [i \in 1..(k + 1) |-> IF i <= k THEN Event(s, produced[s] + i)
                                  ELSE Response(id, "ok", s)]

(* create_session: a fresh id, or session_init_failed (unknown decoder,    *)
(* bad option, decoder that does not start).                               *)
HandleCreateSession(req) ==
  /\ req.op = "create"
  /\ \/ /\ nextSession <= MaxSessions
        /\ sessions' = sessions \cup {nextSession}
        /\ nextSession' = nextSession + 1
        /\ outbox' = <<Response(req.id, "ok", nextSession)>>
     \/ /\ outbox' = <<Response(req.id, "err", NoSession)>>
        /\ UNCHANGED <<sessions, nextSession>>
  /\ UNCHANGED produced

(* feed and finalize: a burst of annotations of that session, or           *)
(* decoder_failed with no event; an unknown session is always an error.    *)
HandleDecode(req) ==
  /\ req.op \in {"feed", "finalize"}
  /\ \/ /\ req.session \in sessions
        /\ \E k \in 0..(MaxAnnotations - produced[req.session]) :
             /\ outbox' = EventsThenResponse(req.id, req.session, k)
             /\ produced' = [produced EXCEPT ![req.session] = @ + k]
     \/ /\ outbox' = <<Response(req.id, "err", NoSession)>>
        /\ UNCHANGED produced
  /\ UNCHANGED <<sessions, nextSession>>

(* Mutant: destroy answers without removing the session.                   *)
DestroyKeepsSession(req) ==
  /\ req.op = "destroy"
  /\ outbox' = <<Response(req.id, "ok", NoSession)>>
  /\ UNCHANGED <<sessions, nextSession, produced>>

(* destroy: removes the session if it is there; ok in both backends.       *)
HandleDestroy(req) ==
  /\ req.op = "destroy"
  /\ sessions' = sessions \ {req.session}
  /\ outbox' = <<Response(req.id, "ok", NoSession)>>
  /\ UNCHANGED <<nextSession, produced>>

Handle(req) ==
  HandleCreateSession(req) \/ HandleDecode(req) \/ HandleDestroy(req)

(* One turn of the loop: read a frame, handle it.  The loop is sequential: *)
(* it reads again only when every frame of the last request is written.    *)
ReadRequest ==
  /\ bridge = "running"
  /\ outbox = <<>>
  /\ reqPipe # <<>>
  /\ Handle(Head(reqPipe))
  /\ reqPipe' = Tail(reqPipe)
  /\ UNCHANGED <<bridge, respPipe>>

(* send(): blocks while the pipe is full.                                  *)
WriteFrame ==
  /\ bridge = "running"
  /\ outbox # <<>>
  /\ Len(respPipe) < PipeCapacity
  /\ respPipe' = Append(respPipe, Head(outbox))
  /\ outbox' = Tail(outbox)
  /\ UNCHANGED <<bridge, reqPipe, sessions, nextSession, produced>>

(* A decoder brings the process down, or somebody kills it.                *)
Crash ==
  /\ bridge = "running"
  /\ bridge' = "dead"
  /\ reqPipe' = <<>>
  /\ outbox' = <<>>
  /\ sessions' = {}
  /\ UNCHANGED <<respPipe, nextSession, produced>>

(* The supervisor's spawn: a new process with an empty session table.      *)
Spawn ==
  /\ bridge' = "running"
  /\ UNCHANGED <<reqPipe, respPipe, outbox, sessions, nextSession, produced>>
=============================================================================
