---------------------------- MODULE SrdLifecycle ----------------------------
(***************************************************************************)
(* What the libsigrokdecode backend (crates/bridge/src/srd.rs) owns        *)
(* outside Rust's care: library sessions, and the accumulators it hands to *)
(* the library as the argument of the annotation callback.  create_session *)
(* acquires them in stages, each of which may fail; destroy and Drop give  *)
(* them back.                                                              *)
(*                                                                         *)
(* The backend is called from one thread, but the library runs decoders in *)
(* threads of its own, so one call into the library, or one release, is a  *)
(* step here.  A handle that was released may be handed out again.  Option *)
(* and channel tables live within one step and are left out.               *)
(***************************************************************************)
EXTENDS Naturals, Sequences

CONSTANTS
  Handle,      \* addresses of library sessions and of accumulators
  NoHandle,    \* the null pointer
  MaxSessions  \* bound: sessions opened

ASSUME NoHandleAssumption == NoHandle \notin Handle
ASSUME LifecycleBound == MaxSessions \in Nat

VARIABLES
  initialized,  \* SrdBackend::initialized
  library,      \* whether the library is "up" or "down"
  sessions,     \* SrdBackend::sessions: by number, session and accumulator
  nextSession,  \* SrdBackend::next_session
  stage,        \* the call create_session makes next, "none" outside of it
  making,       \* the session and accumulator of that create_session
  todo,         \* releases a handler has still to do, in order
  dropping,     \* whether the backend is being dropped
  libSessions,  \* live library sessions: callback argument, started or not
  accums        \* live accumulators

vars == <<initialized, library, sessions, nextSession, stage, making, todo,
          dropping, libSessions, accums>>
ownVars == <<initialized, library, dropping>>

(* A table with one more entry.                                            *)
With(table, key, entry) ==
  [k \in DOMAIN table \cup {key} |-> IF k = key THEN entry ELSE table[k]]

Session(s) == [kind |-> "session", ref |-> s]
Accum(a) == [kind |-> "accum", ref |-> a]

(* SrdBackend::new: both calls succeed, or the library is down again.      *)
Init ==
  /\ initialized \in BOOLEAN
  /\ library = IF initialized THEN "up" ELSE "down"
  /\ sessions = <<>>
  /\ nextSession = 1
  /\ stage = "none"
  /\ making = [sess |-> NoHandle, accum |-> NoHandle]
  /\ todo = <<>>
  /\ dropping = FALSE
  /\ libSessions = <<>>
  /\ accums = {}

-----------------------------------------------------------------------------
(* create_session, one library call after the other.                       *)

Quiet == stage = "none" /\ todo = <<>>

(* A handler returns an error once it has released what it holds.          *)
GiveUp(releases) ==
  /\ stage' = "none"
  /\ todo' = releases
  /\ UNCHANGED <<sessions, nextSession, making>>

GoOn(next) ==
  /\ stage' = next
  /\ UNCHANGED <<sessions, nextSession, making, todo>>

(* srd_session_new; a failure leaves nothing behind.                       *)
NewSession ==
  /\ Quiet /\ ~dropping
  /\ initialized
  /\ nextSession <= MaxSessions
  /\ \E s \in Handle \ DOMAIN libSessions :
       /\ libSessions' =
            With(libSessions, s, [arg |-> NoHandle, started |-> FALSE])
       /\ making' = [sess |-> s, accum |-> NoHandle]
  /\ stage' = "instance"
  /\ UNCHANGED <<ownVars, sessions, nextSession, todo, accums>>

(* srd_inst_new: an unknown decoder or a bad option fails.                 *)
NewInstance ==
  /\ stage = "instance"
  /\ GoOn("channels") \/ GiveUp(<<Session(making.sess)>>)
  /\ UNCHANGED <<ownVars, libSessions, accums>>

(* Mutant: a channel error returns at once.                                *)
SetChannelsLeaking ==
  /\ stage = "channels"
  /\ GoOn("metadata") \/ GiveUp(<<>>)
  /\ UNCHANGED <<ownVars, libSessions, accums>>

(* srd_inst_channel_set_all, or nothing if no channel is bound.            *)
SetChannels ==
  /\ stage = "channels"
  /\ GoOn("metadata") \/ GiveUp(<<Session(making.sess)>>)
  /\ UNCHANGED <<ownVars, libSessions, accums>>

(* srd_session_metadata_set, the sample rate.                              *)
SetMetadata ==
  /\ stage = "metadata"
  /\ GoOn("callback") \/ GiveUp(<<Session(making.sess)>>)
  /\ UNCHANGED <<ownVars, libSessions, accums>>

(* A new accumulator, and srd_pd_output_callback_add with it.              *)
AddCallback ==
  /\ stage = "callback"
  /\ \E a \in Handle \ accums :
       /\ accums' = accums \cup {a}
       /\ \/ /\ libSessions' = [libSessions EXCEPT ![making.sess].arg = a]
             /\ making' = [making EXCEPT !.accum = a]
             /\ stage' = "start"
             /\ UNCHANGED <<sessions, nextSession, todo>>
          \/ /\ GiveUp(<<Accum(a), Session(making.sess)>>)
             /\ UNCHANGED libSessions
  /\ UNCHANGED ownVars

Insert == sessions' = With(sessions, nextSession, making)

(* Mutant: the table is filled in before the session has started.          *)
StartInsertsFirst ==
  /\ stage = "start"
  /\ Insert
  /\ nextSession' = nextSession + 1
  /\ stage' = "none"
  /\ \/ /\ libSessions' = [libSessions EXCEPT ![making.sess].started = TRUE]
        /\ UNCHANGED todo
     \/ /\ todo' = <<Accum(making.accum), Session(making.sess)>>
        /\ UNCHANGED libSessions
  /\ UNCHANGED <<ownVars, making, accums>>

(* srd_session_start; only then the session enters the table.              *)
StartSession ==
  /\ stage = "start"
  /\ \/ /\ libSessions' = [libSessions EXCEPT ![making.sess].started = TRUE]
        /\ Insert
        /\ nextSession' = nextSession + 1
        /\ stage' = "none"
        /\ UNCHANGED <<making, todo>>
     \/ /\ GiveUp(<<Accum(making.accum), Session(making.sess)>>)
        /\ UNCHANGED libSessions
  /\ UNCHANGED <<ownVars, accums>>

-----------------------------------------------------------------------------
(* The next release of the handler under way: srd_session_destroy, or the  *)
(* accumulator's Box.                                                      *)
Release ==
  /\ todo # <<>>
  /\ IF Head(todo).kind = "session"
     THEN /\ libSessions' = [s \in DOMAIN libSessions \ {Head(todo).ref} |->
                               libSessions[s]]
          /\ UNCHANGED accums
     ELSE /\ accums' = accums \ {Head(todo).ref}
          /\ UNCHANGED libSessions
  /\ todo' = Tail(todo)
  /\ UNCHANGED <<ownVars, sessions, nextSession, stage, making>>

(* Mutant: the accumulator goes first.                                     *)
AccumFirst(entry) == <<Accum(entry.accum), Session(entry.sess)>>

(* destroy: the session before the accumulator its callback points to.     *)
SessionFirst(entry) == <<Session(entry.sess), Accum(entry.accum)>>

Remove(id) ==
  /\ sessions' = [i \in DOMAIN sessions \ {id} |-> sessions[i]]
  /\ todo' = SessionFirst(sessions[id])
  /\ UNCHANGED <<nextSession, stage, making, libSessions, accums>>

Destroy(id) ==
  /\ Quiet /\ ~dropping
  /\ Remove(id)
  /\ UNCHANGED ownVars

(* Drop, when the loop has ended: every session, then srd_exit.            *)
BeginDrop ==
  /\ Quiet /\ ~dropping
  /\ dropping' = TRUE
  /\ UNCHANGED <<initialized, library, sessions, nextSession, stage, making,
                 todo, libSessions, accums>>

DropSession(id) ==
  /\ Quiet /\ dropping
  /\ Remove(id)
  /\ UNCHANGED ownVars

(* Mutant: srd_exit does not wait for the sessions.                        *)
ExitAtOnce ==
  /\ Quiet /\ dropping
  /\ initialized
  /\ library' = "down"
  /\ UNCHANGED <<initialized, sessions, nextSession, stage, making, todo,
                 dropping, libSessions, accums>>

Exit ==
  /\ Quiet /\ dropping
  /\ DOMAIN sessions = {}
  /\ initialized
  /\ library' = "down"
  /\ UNCHANGED <<initialized, sessions, nextSession, stage, making, todo,
                 dropping, libSessions, accums>>

CreateSession ==
  \/ NewSession
  \/ NewInstance
  \/ SetChannels
  \/ SetMetadata
  \/ AddCallback
  \/ StartSession

Next ==
  \/ CreateSession
  \/ \E id \in DOMAIN sessions : Destroy(id) \/ DropSession(id)
  \/ Release
  \/ BeginDrop
  \/ Exit

Spec == Init /\ [][Next]_vars

-----------------------------------------------------------------------------
(* Properties.                                                             *)

Owned(field) == {sessions[id][field] : id \in DOMAIN sessions}

(* Between two requests the library's sessions and the accumulators are    *)
(* exactly those of the session table, one of each per entry, whichever    *)
(* stage of whichever create_session failed (srd.rs:206-285, destroy).     *)
ResourcesAgree ==
  Quiet =>
    /\ DOMAIN libSessions = Owned("sess")
    /\ accums = Owned("accum")
    /\ \A i, j \in DOMAIN sessions : i # j =>
         /\ sessions[i].sess # sessions[j].sess
         /\ sessions[i].accum # sessions[j].accum

(* Whenever the library may raise an annotation, the accumulator it would  *)
(* be pushed into exists and is that session's own (srd.rs destroy,        *)
(* annotation_cb).                                                         *)
CallbackTargetAlive ==
  \A s \in DOMAIN libSessions : libSessions[s].started =>
    /\ libSessions[s].arg \in accums
    /\ \A t \in DOMAIN libSessions \ {s} :
         libSessions[t].arg # libSessions[s].arg

(* Nothing is released that is not live, that is released twice, or that   *)
(* the session table still names.                                          *)
ReleasesAreOwned ==
  /\ \A i \in DOMAIN todo :
       LET r == todo[i]
       IN IF r.kind = "session"
          THEN r.ref \in DOMAIN libSessions \ Owned("sess")
          ELSE r.ref \in accums \ Owned("accum")
  /\ \A i, j \in DOMAIN todo : i # j => todo[i] # todo[j]

(* The library is shut down last: srd_exit finds no session of ours.       *)
LibraryExitsLast == library = "down" => DOMAIN libSessions = {} /\ accums = {}
=============================================================================
