---------------------------- MODULE MockBackend ----------------------------
(***************************************************************************)
(* crates/bridge/src/mock.rs: the backend of a bridge built without        *)
(* libsigrokdecode.  It keeps a table of sessions; each session plays the  *)
(* script of its decoder, once, from the time of the first transition at   *)
(* which a level is known.                                                 *)
(*                                                                         *)
(* Times are in millions of femtoseconds.  They wrap at Word, as the       *)
(* unchecked additions of a release build do; a build that checks them     *)
(* panics instead, which is one of the ways the process may die.  Labels   *)
(* and fields of annotations are left out.  A feed carries one transition, *)
(* as the shim sends it.                                                   *)
(***************************************************************************)
EXTENDS Naturals, Sequences

CONSTANTS
  Word,          \* the number of times that fit in a u64
  MaxSessions    \* bound: sessions the backend opens

ASSUME WordAssumption == Word \in Nat \ {0}
ASSUME MockBound == MaxSessions \in Nat

VARIABLES
  sessions,      \* MockBackend::sessions
  nextSession,   \* MockBackend::next_session
  answer         \* what the request handled last returned

mockVars == <<sessions, nextSession, answer>>

SessionId == 1..MaxSessions
NoSession == 0

(* The channels each decoder requires: all it has.                         *)
RequiredChannels ==
  [onewire |-> {"data"},
   jtag    |-> {"tck", "tms", "tdi", "tdo"},
   pwm     |-> {"signal"},
   dmx512  |-> {"data"},
   modbus  |-> {"rx"}]

Decoder == DOMAIN RequiredChannels

Span(from, to, class) == [from |-> from, to |-> to, class |-> class]

OneWire == <<Span(0, 480, 0), Span(480, 540, 1), Span(540, 1020, 2)>>
Jtag == <<Span(0, 1000, 0), Span(1000, 2000, 1), Span(2000, 3000, 2)>>
Pwm == <<Span(0, 5000, 0), Span(5000, 10000, 0)>>
Dmx == <<Span(0, 88, 0), Span(88, 96, 1), Span(96, 140, 2), Span(140, 184, 2),
         Span(184, 228, 2)>>
Modbus == <<Span(0, 4000, 0), Span(0, 1000, 1), Span(3500, 4000, 2)>>

Script ==
  [onewire |-> OneWire, jtag |-> Jtag, pwm |-> Pwm, dmx512 |-> Dmx,
   modbus |-> Modbus]

(* The annotations of session s for the script of decoder d, played at fs. *)
Played(s, d, fs) ==
  [i \in DOMAIN Script[d] |->
     [session |-> s,
      start |-> (fs + Script[d][i].from) % Word,
      end |-> (fs + Script[d][i].to) % Word,
      class |-> Script[d][i].class]]

Session == [decoder : Decoder, known : SUBSET Nat, emitted : BOOLEAN]
Event == [session : SessionId, start : 0..(Word - 1), end : 0..(Word - 1),
          class : 0..2]
Answer == [status : {"ok", "err"}, session : SessionId \cup {NoSession},
           events : Seq(Event)]

MockTypeOK ==
  /\ DOMAIN sessions \subseteq SessionId
  /\ \A s \in DOMAIN sessions : sessions[s] \in Session
  /\ nextSession \in 1..(MaxSessions + 1)
  /\ answer \in Answer

Ok(s, events) == [status |-> "ok", session |-> s, events |-> events]
Err == [status |-> "err", session |-> NoSession, events |-> <<>>]

MockInit ==
  /\ sessions = <<>>
  /\ nextSession = 1
  /\ answer = Err

-----------------------------------------------------------------------------
ListDecoders(req) ==
  /\ req.op = "list_decoders"
  /\ answer' = Ok(NoSession, <<>>)
  /\ UNCHANGED <<sessions, nextSession>>

(* An unknown decoder and a required channel that is not bound are         *)
(* refused, and take no session id.                                        *)
Acceptable(req) ==
  /\ req.decoder \in Decoder
  /\ RequiredChannels[req.decoder] \subseteq req.channels

CreateSession(req) ==
  /\ req.op = "create_session"
  /\ IF Acceptable(req)
     THEN /\ nextSession <= MaxSessions
          /\ sessions' = [s \in DOMAIN sessions \cup {nextSession} |->
                            IF s = nextSession
                            THEN [decoder |-> req.decoder, known |-> {},
                                  emitted |-> FALSE]
                            ELSE sessions[s]]
          /\ nextSession' = nextSession + 1
          /\ answer' = Ok(nextSession, <<>>)
     ELSE /\ answer' = Err
          /\ UNCHANGED <<sessions, nextSession>>

(* Mutant: on_transition plays the script at every transition.             *)
PlaysAgain(session, known) == known # {}

(* on_transition of every decoder: the whole script at the first           *)
(* transition by which a level is known, nothing afterwards.               *)
Plays(session, known) == ~session.emitted /\ known # {}

Feed(req) ==
  /\ req.op = "feed"
  /\ IF req.session \in DOMAIN sessions
     THEN LET session == sessions[req.session]
              known == session.known \cup req.set
          IN /\ sessions' = [sessions EXCEPT ![req.session] =
                               [decoder |-> session.decoder, known |-> known,
                                emitted |-> session.emitted \/ known # {}]]
             /\ answer' = Ok(NoSession,
                             IF Plays(session, known)
                             THEN Played(req.session, session.decoder, req.fs)
                             ELSE <<>>)
     ELSE /\ answer' = Err
          /\ UNCHANGED sessions
  /\ UNCHANGED nextSession

(* The end of the samples adds nothing to a script.                        *)
Finalize(req) ==
  /\ req.op = "finalize"
  /\ answer' = IF req.session \in DOMAIN sessions THEN Ok(NoSession, <<>>) ELSE Err
  /\ UNCHANGED <<sessions, nextSession>>

Destroy(req) ==
  /\ req.op = "destroy"
  /\ sessions' = [s \in DOMAIN sessions \ {req.session} |-> sessions[s]]
  /\ answer' = Ok(NoSession, <<>>)
  /\ UNCHANGED nextSession

Handle(req) ==
  \/ ListDecoders(req)
  \/ CreateSession(req)
  \/ Feed(req)
  \/ Finalize(req)
  \/ Destroy(req)
=============================================================================
