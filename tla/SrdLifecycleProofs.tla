------------------------- MODULE SrdLifecycleProofs -------------------------
(***************************************************************************)
(* The libsigrokdecode backend owns what it gives back and gives back what *)
(* it owns, for any addresses and any number of sessions.                  *)
(***************************************************************************)
EXTENDS SrdLifecycle, TLAPS

Stage == {"none", "instance", "channels", "metadata", "callback", "start"}

TypeOK ==
  /\ nextSession \in Nat
  /\ \A id \in DOMAIN sessions : id \in Nat /\ id < nextSession
  /\ sessions \in [DOMAIN sessions -> [sess : Handle, accum : Handle]]
  /\ stage \in Stage
  /\ making \in [sess : Handle \cup {NoHandle}, accum : Handle \cup {NoHandle}]
  /\ DOMAIN libSessions \subseteq Handle
  /\ libSessions \in [DOMAIN libSessions ->
                        [arg : Handle \cup {NoHandle}, started : BOOLEAN]]
  /\ accums \subseteq Handle

(* What a handler may have left to release.                                *)
TodoInv ==
  \/ todo = <<>>
  \/ \E s \in Handle : todo = <<Session(s)>>
  \/ \E a \in Handle : todo = <<Accum(a)>>
  \/ \E s, a \in Handle : todo = <<Session(s), Accum(a)>>
  \/ \E s, a \in Handle : todo = <<Accum(a), Session(s)>>

(* What create_session holds, and what is about to be released.            *)
SessIn(releases) ==
  {h \in Handle : \E i \in DOMAIN releases : releases[i] = Session(h)}
AccumIn(releases) ==
  {h \in Handle : \E i \in DOMAIN releases : releases[i] = Accum(h)}

PendingSess == IF stage = "none" THEN SessIn(todo) ELSE {making.sess}
PendingAccum == IF stage = "start" THEN {making.accum} ELSE AccumIn(todo)

TabledSess == {sessions[id].sess : id \in DOMAIN sessions}
TabledAccum == {sessions[id].accum : id \in DOMAIN sessions}

(* Whatever lives has one owner: the table, create_session, or a release.  *)
OwnerInv ==
  /\ DOMAIN libSessions = TabledSess \cup PendingSess
  /\ TabledSess \cap PendingSess = {}
  /\ accums = TabledAccum \cup PendingAccum
  /\ TabledAccum \cap PendingAccum = {}
  /\ \A i, j \in DOMAIN sessions : i # j =>
       /\ sessions[i].sess # sessions[j].sess
       /\ sessions[i].accum # sessions[j].accum
  /\ stage # "none" => todo = <<>> /\ making.sess \in Handle
  /\ stage = "start" => making.accum \in Handle

(* Which accumulator the library has been given for which session.         *)
ArgInv ==
  /\ \A id \in DOMAIN sessions :
       libSessions[sessions[id].sess].arg = sessions[id].accum
  /\ stage = "start" => libSessions[making.sess].arg = making.accum
  /\ \A s \in PendingSess : libSessions[s].arg \notin TabledAccum

(* A started session is in the table, or is released before its            *)
(* accumulator.                                                            *)
StartedInv ==
  \A s \in DOMAIN libSessions : libSessions[s].started =>
    s \in TabledSess \/ todo = <<Session(s), Accum(libSessions[s].arg)>>

ShutInv ==
  library = "down" =>
    /\ ~initialized \/ dropping
    /\ DOMAIN sessions = {} /\ stage = "none" /\ todo = <<>>

IInv == TypeOK /\ TodoInv /\ OwnerInv /\ ArgInv /\ StartedInv /\ ShutInv

-----------------------------------------------------------------------------
(* The releases each list stands for.                                      *)
LEMMA NoRelease == SessIn(<<>>) = {} /\ AccumIn(<<>>) = {}
  BY DEF SessIn, AccumIn

LEMMA OneRelease ==
  ASSUME NEW h \in Handle
  PROVE  /\ SessIn(<<Session(h)>>) = {h} /\ AccumIn(<<Session(h)>>) = {}
         /\ SessIn(<<Accum(h)>>) = {} /\ AccumIn(<<Accum(h)>>) = {h}
  BY DEF SessIn, AccumIn, Session, Accum

LEMMA TwoReleases ==
  ASSUME NEW s \in Handle, NEW a \in Handle
  PROVE  /\ SessIn(<<Session(s), Accum(a)>>) = {s}
         /\ AccumIn(<<Session(s), Accum(a)>>) = {a}
         /\ SessIn(<<Accum(a), Session(s)>>) = {s}
         /\ AccumIn(<<Accum(a), Session(s)>>) = {a}
  BY DEF SessIn, AccumIn, Session, Accum

-----------------------------------------------------------------------------
LEMMA InitInvariant == Init => IInv
  <1> SUFFICES ASSUME Init PROVE IInv
    OBVIOUS
  <1>1. TypeOK
    BY DEF Init, TypeOK, Stage
  <1>2. TodoInv /\ ShutInv
    BY DEF Init, TodoInv, ShutInv
  <1>3. OwnerInv
    BY NoRelease DEF Init, OwnerInv, TabledSess, TabledAccum, PendingSess, PendingAccum
  <1>4. ArgInv /\ StartedInv
    BY NoRelease DEF Init, ArgInv, StartedInv, PendingSess
  <1>5. QED
    BY <1>1, <1>2, <1>3, <1>4 DEF IInv

(* A step of create_session that fails early leaves its session to release.*)
LEMMA GiveUpEarlyKeeps ==
  ASSUME IInv, stage \in {"instance", "channels", "metadata"},
         GiveUp(<<Session(making.sess)>>), UNCHANGED <<ownVars, libSessions, accums>>
  PROVE  IInv'
  <1> USE DEF ownVars
  <1>0. /\ making.sess \in Handle /\ todo = <<>> /\ stage' = "none"
        /\ todo' = <<Session(making.sess)>>
    BY DEF IInv, OwnerInv, GiveUp
  <1>1. PendingSess' = PendingSess /\ PendingAccum' = PendingAccum
    BY <1>0, NoRelease, OneRelease DEF PendingSess, PendingAccum, GiveUp
  <1>2. TypeOK' /\ TodoInv' /\ ShutInv'
    BY <1>0 DEF IInv, TypeOK, TodoInv, ShutInv, GiveUp, Stage
  <1>3. OwnerInv'
    BY <1>0, <1>1 DEF IInv, OwnerInv, TabledSess, TabledAccum, GiveUp
  <1>4. ArgInv' /\ StartedInv'
    BY <1>0, <1>1 DEF IInv, ArgInv, StartedInv, TabledSess, TabledAccum, GiveUp
  <1>5. QED
    BY <1>1, <1>2, <1>3, <1>4 DEF IInv

LEMMA GoOnKeeps ==
  ASSUME IInv, NEW next \in {"channels", "metadata", "callback"},
         stage \in {"instance", "channels", "metadata"},
         GoOn(next), UNCHANGED <<ownVars, libSessions, accums>>
  PROVE  IInv'
  <1> USE DEF ownVars
  <1>1. PendingSess' = PendingSess /\ PendingAccum' = PendingAccum
    BY DEF PendingSess, PendingAccum, GoOn
  <1>2. TypeOK' /\ TodoInv' /\ ShutInv'
    BY DEF IInv, TypeOK, TodoInv, ShutInv, GoOn, Stage
  <1>3. OwnerInv'
    BY <1>1 DEF IInv, OwnerInv, TabledSess, TabledAccum, GoOn
  <1>4. ArgInv' /\ StartedInv'
    BY <1>1 DEF IInv, ArgInv, StartedInv, TabledSess, TabledAccum, GoOn
  <1>5. QED
    BY <1>1, <1>2, <1>3, <1>4 DEF IInv

LEMMA NewSessionKeeps ==
  ASSUME IInv, NewSession
  PROVE  IInv'
  <1> USE DEF ownVars
  <1> DEFINE New == [arg |-> NoHandle, started |-> FALSE]
  <1>0. PICK s \in Handle \ DOMAIN libSessions :
          /\ libSessions' = With(libSessions, s, New)
          /\ making' = [sess |-> s, accum |-> NoHandle]
    BY DEF NewSession
  <1>1. /\ stage = "none" /\ todo = <<>> /\ stage' = "instance" /\ todo' = <<>>
        /\ sessions' = sessions /\ accums' = accums /\ nextSession' = nextSession
        /\ initialized /\ ~dropping /\ library' = library
        /\ s \in Handle /\ making'.sess = s
    BY <1>0 DEF NewSession, Quiet
  <1>2. /\ PendingSess = {} /\ PendingSess' = {s}
        /\ PendingAccum = {} /\ PendingAccum' = {}
        /\ TabledSess' = TabledSess /\ TabledAccum' = TabledAccum
    BY <1>1, NoRelease DEF PendingSess, PendingAccum, TabledSess, TabledAccum
  <1>3. /\ DOMAIN libSessions' = DOMAIN libSessions \cup {s}
        /\ libSessions'[s] = New
        /\ \A t \in DOMAIN libSessions : libSessions'[t] = libSessions[t]
    BY <1>0 DEF With
  <1>4. TypeOK'
    <2>1. libSessions' \in [DOMAIN libSessions' ->
                              [arg : Handle \cup {NoHandle}, started : BOOLEAN]]
      BY <1>0 DEF With, IInv, TypeOK
    <2>2. QED
      BY <1>0, <1>1, <1>3, <2>1 DEF IInv, TypeOK, Stage
  <1>5. TodoInv' /\ ShutInv'
    BY <1>1 DEF IInv, TodoInv, ShutInv
  <1>6. OwnerInv'
    BY <1>1, <1>2, <1>3 DEF IInv, OwnerInv
  <1>7. ArgInv'
    <2>1. NoHandle \notin TabledAccum
      BY NoHandleAssumption DEF IInv, TypeOK, TabledAccum
    <2>2. \A id \in DOMAIN sessions : sessions[id].sess \in DOMAIN libSessions
      BY DEF IInv, OwnerInv, TabledSess
    <2>3. QED
      BY <1>1, <1>2, <1>3, <2>1, <2>2 DEF IInv, ArgInv
  <1>8. StartedInv'
    BY <1>1, <1>2, <1>3 DEF IInv, StartedInv
  <1>9. QED
    BY <1>4, <1>5, <1>6, <1>7, <1>8 DEF IInv

LEMMA AddCallbackKeeps ==
  ASSUME IInv, AddCallback
  PROVE  IInv'
  <1> USE DEF ownVars
  <1>1. PICK a \in Handle \ accums :
          /\ accums' = accums \cup {a}
          /\ \/ /\ libSessions' = [libSessions EXCEPT ![making.sess].arg = a]
                /\ making' = [making EXCEPT !.accum = a]
                /\ stage' = "start"
                /\ UNCHANGED <<sessions, nextSession, todo>>
             \/ /\ GiveUp(<<Accum(a), Session(making.sess)>>)
                /\ UNCHANGED libSessions
    BY DEF AddCallback
  <1> DEFINE m == making.sess
  <1>2. /\ stage = "callback" /\ todo = <<>> /\ m \in Handle
        /\ PendingSess = {m} /\ PendingAccum = {}
        /\ m \in DOMAIN libSessions /\ m \notin TabledSess
        /\ a \in Handle /\ a \notin TabledAccum
    BY <1>1, NoRelease DEF AddCallback, IInv, OwnerInv, PendingSess, PendingAccum
  <1>3. /\ sessions' = sessions /\ nextSession' = nextSession
        /\ library' = library /\ library # "down"
        /\ TabledSess' = TabledSess /\ TabledAccum' = TabledAccum
    BY <1>1, <1>2 DEF AddCallback, GiveUp, IInv, ShutInv, TabledSess, TabledAccum
  <1>4. CASE /\ libSessions' = [libSessions EXCEPT ![m].arg = a]
             /\ making' = [making EXCEPT !.accum = a]
             /\ stage' = "start"
             /\ UNCHANGED <<sessions, nextSession, todo>>
    <2>1. /\ making'.sess = m /\ making'.accum = a
          /\ making' \in [sess : Handle \cup {NoHandle}, accum : Handle \cup {NoHandle}]
      BY <1>2, <1>4 DEF IInv, TypeOK
    <2>2. PendingSess' = {m} /\ PendingAccum' = {a}
      BY <1>4, <2>1 DEF PendingSess, PendingAccum
    <2>3. /\ DOMAIN libSessions' = DOMAIN libSessions
          /\ libSessions'[m].arg = a /\ libSessions'[m].started = libSessions[m].started
          /\ \A t \in DOMAIN libSessions \ {m} : libSessions'[t] = libSessions[t]
          /\ libSessions' \in [DOMAIN libSessions ->
                                 [arg : Handle \cup {NoHandle}, started : BOOLEAN]]
      BY <1>2, <1>4 DEF IInv, TypeOK
    <2>4. TypeOK' /\ TodoInv' /\ ShutInv'
      BY <1>1, <1>2, <1>3, <1>4, <2>1, <2>3 DEF IInv, TypeOK, TodoInv, ShutInv, Stage
    <2>5. OwnerInv'
      BY <1>1, <1>2, <1>3, <1>4, <2>1, <2>2, <2>3 DEF IInv, OwnerInv
    <2>6. ArgInv'
      <3>1. \A id \in DOMAIN sessions : sessions[id].sess \in DOMAIN libSessions \ {m}
        BY <1>2 DEF IInv, OwnerInv, TabledSess
      <3>2. QED
        BY <1>2, <1>3, <1>4, <2>1, <2>2, <2>3, <3>1 DEF IInv, ArgInv
    <2>7. StartedInv'
      <3>1. ~libSessions[m].started
        BY <1>2 DEF IInv, StartedInv
      <3>2. QED
        BY <1>2, <1>3, <1>4, <2>3, <3>1 DEF IInv, StartedInv
    <2>8. QED
      BY <2>4, <2>5, <2>6, <2>7 DEF IInv
  <1>5. CASE GiveUp(<<Accum(a), Session(m)>>) /\ UNCHANGED libSessions
    <2>1. /\ stage' = "none" /\ todo' = <<Accum(a), Session(m)>> /\ making' = making
          /\ PendingSess' = {m} /\ PendingAccum' = {a}
      BY <1>2, <1>5, TwoReleases DEF GiveUp, PendingSess, PendingAccum
    <2>2. TypeOK' /\ TodoInv' /\ ShutInv'
      BY <1>1, <1>2, <1>3, <1>5, <2>1 DEF IInv, TypeOK, TodoInv, ShutInv, Stage
    <2>3. OwnerInv'
      BY <1>1, <1>2, <1>3, <1>5, <2>1 DEF IInv, OwnerInv
    <2>4. ArgInv' /\ StartedInv'
      BY <1>2, <1>3, <1>5, <2>1 DEF IInv, ArgInv, StartedInv
    <2>5. QED
      BY <2>2, <2>3, <2>4 DEF IInv
  <1>6. QED
    BY <1>1, <1>4, <1>5

LEMMA StartSessionKeeps ==
  ASSUME IInv, StartSession
  PROVE  IInv'
  <1> USE DEF ownVars
  <1> DEFINE m == making.sess
  <1> DEFINE a == making.accum
  <1>1. /\ stage = "start" /\ todo = <<>> /\ m \in Handle /\ a \in Handle
        /\ PendingSess = {m} /\ PendingAccum = {a}
        /\ m \in DOMAIN libSessions /\ m \notin TabledSess
        /\ a \in accums /\ a \notin TabledAccum
        /\ library' = library /\ library # "down" /\ accums' = accums
    BY DEF StartSession, IInv, OwnerInv, ShutInv, PendingSess, PendingAccum
  <1>2. CASE /\ libSessions' = [libSessions EXCEPT ![m].started = TRUE]
             /\ Insert
             /\ nextSession' = nextSession + 1
             /\ stage' = "none"
             /\ UNCHANGED <<making, todo>>
    <2>1. /\ nextSession \notin DOMAIN sessions
          /\ \A id \in DOMAIN sessions : id \in Nat /\ id < nextSession
          /\ nextSession \in Nat
      BY DEF IInv, TypeOK
    <2>2. /\ DOMAIN sessions' = DOMAIN sessions \cup {nextSession}
          /\ sessions'[nextSession] = making
          /\ \A id \in DOMAIN sessions : sessions'[id] = sessions[id]
      BY <1>2, <2>1 DEF Insert, With
    <2>3. TabledSess' = TabledSess \cup {m} /\ TabledAccum' = TabledAccum \cup {a}
      BY <2>1, <2>2 DEF TabledSess, TabledAccum
    <2>4. PendingSess' = {} /\ PendingAccum' = {}
      BY <1>1, <1>2, NoRelease DEF PendingSess, PendingAccum
    <2>5. /\ DOMAIN libSessions' = DOMAIN libSessions
          /\ \A t \in DOMAIN libSessions : libSessions'[t].arg = libSessions[t].arg
          /\ \A t \in DOMAIN libSessions \ {m} : libSessions'[t] = libSessions[t]
          /\ libSessions' \in [DOMAIN libSessions ->
                                 [arg : Handle \cup {NoHandle}, started : BOOLEAN]]
      BY <1>1, <1>2 DEF IInv, TypeOK
    <2>6. TypeOK'
      <3>1. making \in [sess : Handle, accum : Handle]
        BY <1>1 DEF IInv, TypeOK
      <3>2. sessions' \in [DOMAIN sessions' -> [sess : Handle, accum : Handle]]
        BY <1>2, <3>1 DEF Insert, With, IInv, TypeOK
      <3>3. \A id \in DOMAIN sessions' : id \in Nat /\ id < nextSession'
        BY <1>2, <2>1, <2>2
      <3>4. QED
        BY <1>1, <1>2, <2>1, <2>5, <3>2, <3>3 DEF IInv, TypeOK, Stage
    <2>7. TodoInv' /\ ShutInv'
      BY <1>1, <1>2 DEF TodoInv, ShutInv
    <2>8. OwnerInv'
      <3>1. \A i \in DOMAIN sessions : sessions[i].sess # m /\ sessions[i].accum # a
        BY <1>1 DEF TabledSess, TabledAccum
      <3>2. \A i, j \in DOMAIN sessions' : i # j =>
              /\ sessions'[i].sess # sessions'[j].sess
              /\ sessions'[i].accum # sessions'[j].accum
        BY <2>1, <2>2, <3>1 DEF IInv, OwnerInv
      <3>3. QED
        BY <1>1, <1>2, <2>3, <2>4, <2>5, <3>2 DEF IInv, OwnerInv
    <2>9. ArgInv'
      <3>1. \A id \in DOMAIN sessions : sessions[id].sess \in DOMAIN libSessions
        BY DEF IInv, OwnerInv, TabledSess
      <3>2. libSessions[m].arg = a
        BY <1>1 DEF IInv, ArgInv
      <3>3. QED
        BY <1>1, <1>2, <2>2, <2>4, <2>5, <3>1, <3>2 DEF IInv, ArgInv
    <2>10. StartedInv'
      BY <1>1, <1>2, <2>3, <2>5 DEF IInv, StartedInv
    <2>11. QED
      BY <2>6, <2>7, <2>8, <2>9, <2>10 DEF IInv
  <1>3. CASE GiveUp(<<Accum(a), Session(m)>>) /\ UNCHANGED libSessions
    <2>1. /\ stage' = "none" /\ todo' = <<Accum(a), Session(m)>>
          /\ making' = making /\ sessions' = sessions /\ nextSession' = nextSession
          /\ TabledSess' = TabledSess /\ TabledAccum' = TabledAccum
          /\ PendingSess' = {m} /\ PendingAccum' = {a}
      <3>1. /\ stage' = "none" /\ todo' = <<Accum(a), Session(m)>>
            /\ making' = making /\ sessions' = sessions /\ nextSession' = nextSession
        BY <1>3 DEF GiveUp
      <3>2. TabledSess' = TabledSess /\ TabledAccum' = TabledAccum
        BY <3>1 DEF TabledSess, TabledAccum
      <3>3. SessIn(todo)' = {m} /\ AccumIn(todo)' = {a}
        BY <1>1, <3>1, TwoReleases
      <3>4. QED
        BY <3>1, <3>2, <3>3 DEF PendingSess, PendingAccum
    <2>2. TypeOK' /\ TodoInv' /\ ShutInv'
      BY <1>1, <1>3, <2>1 DEF IInv, TypeOK, TodoInv, ShutInv, Stage
    <2>3. OwnerInv'
      BY <1>1, <1>3, <2>1 DEF IInv, OwnerInv
    <2>4. ArgInv' /\ StartedInv'
      BY <1>1, <1>3, <2>1 DEF IInv, ArgInv, StartedInv
    <2>5. QED
      BY <2>2, <2>3, <2>4 DEF IInv
  <1>4. QED
    BY <1>2, <1>3 DEF StartSession

(* A release takes the first thing off the list and off the library.       *)
LEMMA ReleaseSessionKeeps ==
  ASSUME IInv, Release, NEW s \in Handle, Head(todo) = Session(s),
         PendingSess = {s}, stage = "none", SessIn(Tail(todo)) = {},
         AccumIn(Tail(todo)) = PendingAccum,
         \A h \in Handle : todo = <<Session(h), Accum(libSessions[h].arg)>> => h = s,
         TodoInv'
  PROVE  IInv'
  <1> USE DEF ownVars
  <1>1. /\ libSessions' = [t \in DOMAIN libSessions \ {s} |-> libSessions[t]]
        /\ accums' = accums /\ todo' = Tail(todo) /\ stage' = "none"
        /\ making' = making /\ sessions' = sessions /\ nextSession' = nextSession
        /\ library' = library /\ todo # <<>>
    <2>1. Head(todo).kind = "session" /\ Head(todo).ref = s
      BY DEF Session
    <2>2. QED
      BY <2>1 DEF Release
  <1>2. /\ PendingSess' = {} /\ PendingAccum' = PendingAccum
        /\ TabledSess' = TabledSess /\ TabledAccum' = TabledAccum
    BY <1>1 DEF PendingSess, PendingAccum, TabledSess, TabledAccum
  <1>3. TypeOK' /\ ShutInv'
    BY <1>1 DEF IInv, TypeOK, ShutInv, Stage
  <1>4. OwnerInv'
    BY <1>1, <1>2 DEF IInv, OwnerInv
  <1>5. ArgInv'
    <2>1. \A id \in DOMAIN sessions : sessions[id].sess \in DOMAIN libSessions \ {s}
      BY DEF IInv, OwnerInv, TabledSess
    <2>2. QED
      BY <1>1, <1>2, <2>1 DEF IInv, ArgInv
  <1>6. StartedInv'
    BY <1>1, <1>2 DEF IInv, StartedInv, TypeOK
  <1>7. QED
    BY <1>3, <1>4, <1>5, <1>6 DEF IInv

LEMMA ReleaseAccumKeeps ==
  ASSUME IInv, Release, NEW a \in Handle, Head(todo) = Accum(a),
         PendingAccum = {a}, stage = "none", AccumIn(Tail(todo)) = {},
         SessIn(Tail(todo)) = PendingSess,
         TodoInv'
  PROVE  IInv'
  <1> USE DEF ownVars
  <1>1. /\ libSessions' = libSessions
        /\ accums' = accums \ {a} /\ todo' = Tail(todo) /\ stage' = "none"
        /\ making' = making /\ sessions' = sessions /\ nextSession' = nextSession
        /\ library' = library /\ todo # <<>>
    BY DEF Release, Accum
  <1>2. /\ PendingSess' = PendingSess /\ PendingAccum' = {}
        /\ TabledSess' = TabledSess /\ TabledAccum' = TabledAccum
    BY <1>1 DEF PendingSess, PendingAccum, TabledSess, TabledAccum
  <1>3. TypeOK' /\ ShutInv'
    BY <1>1 DEF IInv, TypeOK, ShutInv, Stage
  <1>4. OwnerInv'
    BY <1>1, <1>2 DEF IInv, OwnerInv
  <1>5. ArgInv'
    BY <1>1, <1>2 DEF IInv, ArgInv
  <1>6. StartedInv'
    <2>1. \A h \in Handle : \A b : todo # <<Session(h), Accum(b)>>
      BY DEF Session, Accum
    <2>2. QED
      BY <1>1, <1>2, <2>1 DEF IInv, StartedInv, TypeOK
  <1>7. QED
    BY <1>3, <1>4, <1>5, <1>6 DEF IInv

LEMMA ReleaseKeeps ==
  ASSUME IInv, Release
  PROVE  IInv'
  <1>1. todo # <<>> /\ stage = "none" /\ todo' = Tail(todo)
        /\ PendingSess = SessIn(todo) /\ PendingAccum = AccumIn(todo)
    BY DEF Release, IInv, OwnerInv, PendingSess, PendingAccum
  <1>2. ASSUME NEW s \in Handle, todo = <<Session(s)>>
        PROVE  IInv'
    <2>1. Head(todo) = Session(s) /\ Tail(todo) = <<>> /\ TodoInv'
      BY <1>1, <1>2 DEF TodoInv
    <2>2. \A h \in Handle : todo # <<Session(h), Accum(libSessions[h].arg)>>
      BY <1>2
    <2>3. QED
      BY <1>1, <1>2, <2>1, <2>2, NoRelease, OneRelease, ReleaseSessionKeeps
  <1>3. ASSUME NEW a \in Handle, todo = <<Accum(a)>>
        PROVE  IInv'
    <2>1. Head(todo) = Accum(a) /\ Tail(todo) = <<>> /\ TodoInv'
      BY <1>1, <1>3 DEF TodoInv
    <2>2. QED
      BY <1>1, <1>3, <2>1, NoRelease, OneRelease, ReleaseAccumKeeps
  <1>4. ASSUME NEW s \in Handle, NEW a \in Handle, todo = <<Session(s), Accum(a)>>
        PROVE  IInv'
    <2>1. Head(todo) = Session(s) /\ Tail(todo) = <<Accum(a)>> /\ TodoInv'
      BY <1>1, <1>4 DEF TodoInv
    <2>2. \A h \in Handle : todo = <<Session(h), Accum(libSessions[h].arg)>> => h = s
      BY <1>4 DEF Session
    <2>3. QED
      BY <1>1, <1>4, <2>1, <2>2, OneRelease, TwoReleases, ReleaseSessionKeeps
  <1>5. ASSUME NEW s \in Handle, NEW a \in Handle, todo = <<Accum(a), Session(s)>>
        PROVE  IInv'
    <2>1. Head(todo) = Accum(a) /\ Tail(todo) = <<Session(s)>> /\ TodoInv'
      BY <1>1, <1>5 DEF TodoInv
    <2>2. QED
      BY <1>1, <1>5, <2>1, OneRelease, TwoReleases, ReleaseAccumKeeps
  <1>6. QED
    BY <1>1, <1>2, <1>3, <1>4, <1>5 DEF IInv, TodoInv

(* What leaves the table is to be released, the session first.             *)
LEMMA RemoveKeeps ==
  ASSUME IInv, NEW id \in DOMAIN sessions, Quiet, Remove(id), UNCHANGED ownVars
  PROVE  IInv'
  <1> USE DEF ownVars
  <1> DEFINE s == sessions[id].sess
  <1> DEFINE a == sessions[id].accum
  <1>1. /\ sessions' = [i \in DOMAIN sessions \ {id} |-> sessions[i]]
        /\ todo' = <<Session(s), Accum(a)>> /\ stage = "none" /\ todo = <<>>
        /\ stage' = "none" /\ making' = making /\ nextSession' = nextSession
        /\ libSessions' = libSessions /\ accums' = accums /\ library' = library
        /\ s \in Handle /\ a \in Handle
    BY DEF Remove, SessionFirst, Quiet, IInv, TypeOK
  <1>2. PendingSess = {} /\ PendingAccum = {}
    BY <1>1, NoRelease DEF PendingSess, PendingAccum
  <1>3. SessIn(<<Session(s), Accum(a)>>) = {s} /\ AccumIn(<<Session(s), Accum(a)>>) = {a}
    BY <1>1, TwoReleases
  <1>4. PendingSess' = {s} /\ PendingAccum' = {a}
    BY <1>1, <1>3 DEF PendingSess, PendingAccum
  <1>5. /\ s \in TabledSess /\ TabledSess' = TabledSess \ {s}
        /\ a \in TabledAccum /\ TabledAccum' = TabledAccum \ {a}
    BY <1>1 DEF IInv, OwnerInv, TabledSess, TabledAccum
  <1>6. TypeOK' /\ TodoInv' /\ ShutInv'
    BY <1>1 DEF IInv, TypeOK, TodoInv, ShutInv
  <1>7. OwnerInv'
    BY <1>1, <1>2, <1>4, <1>5 DEF IInv, OwnerInv
  <1>8. ArgInv'
    BY <1>1, <1>4, <1>5 DEF IInv, ArgInv
  <1>9. StartedInv'
    BY <1>1, <1>5 DEF IInv, StartedInv, ArgInv
  <1>10. QED
    BY <1>6, <1>7, <1>8, <1>9 DEF IInv

LEMMA BeginDropKeeps ==
  ASSUME IInv, BeginDrop
  PROVE  IInv'
  BY DEF IInv, TypeOK, TodoInv, OwnerInv, ArgInv, StartedInv, ShutInv, TabledSess,
         TabledAccum, PendingSess, PendingAccum, BeginDrop

LEMMA ExitKeeps ==
  ASSUME IInv, Exit
  PROVE  IInv'
  BY DEF IInv, TypeOK, TodoInv, OwnerInv, ArgInv, StartedInv, ShutInv, TabledSess,
         TabledAccum, PendingSess, PendingAccum, Exit, Quiet

LEMMA NextInvariant == IInv /\ [Next]_vars => IInv'
  <1> SUFFICES ASSUME IInv, [Next]_vars PROVE IInv'
    OBVIOUS
  <1>1. CASE NewSession
    BY <1>1, NewSessionKeeps
  <1>2. CASE NewInstance \/ SetChannels \/ SetMetadata
    BY <1>2, GiveUpEarlyKeeps, GoOnKeeps DEF NewInstance, SetChannels, SetMetadata
  <1>3. CASE AddCallback
    BY <1>3, AddCallbackKeeps
  <1>4. CASE StartSession
    BY <1>4, StartSessionKeeps
  <1>5. CASE \E id \in DOMAIN sessions : Destroy(id) \/ DropSession(id)
    BY <1>5, RemoveKeeps DEF Destroy, DropSession
  <1>6. CASE Release
    BY <1>6, ReleaseKeeps
  <1>7. CASE BeginDrop \/ Exit
    BY <1>7, BeginDropKeeps, ExitKeeps
  <1>8. CASE UNCHANGED vars
    BY <1>8 DEF vars, IInv, TypeOK, TodoInv, OwnerInv, ArgInv, StartedInv, ShutInv,
                TabledSess, TabledAccum, PendingSess, PendingAccum
  <1>9. QED
    BY <1>1, <1>2, <1>3, <1>4, <1>5, <1>6, <1>7, <1>8 DEF Next, CreateSession

LEMMA Invariant == Spec => []IInv
  BY InitInvariant, NextInvariant, PTL DEF Spec

-----------------------------------------------------------------------------
LEMMA OwnedIsTabled == Owned("sess") = TabledSess /\ Owned("accum") = TabledAccum
  BY DEF Owned, TabledSess, TabledAccum

(* Between two requests the library holds exactly what the session table   *)
(* names, whichever stage of whichever create_session failed (srd.rs       *)
(* create_session, destroy).                                               *)
THEOREM NothingLeaks == Spec => []ResourcesAgree
  <1>1. IInv => ResourcesAgree
    <2> SUFFICES ASSUME IInv, Quiet PROVE ResourcesAgree
      BY DEF ResourcesAgree
    <2>1. PendingSess = {} /\ PendingAccum = {}
      BY NoRelease DEF Quiet, PendingSess, PendingAccum
    <2>2. QED
      BY <2>1, OwnedIsTabled DEF IInv, OwnerInv, ResourcesAgree
  <1>2. QED
    BY <1>1, Invariant, PTL

(* An annotation raised at any moment, by any session that has started,    *)
(* goes into a live accumulator no other session has (srd.rs               *)
(* annotation_cb, destroy).                                                *)
THEOREM CallbacksAreSafe == Spec => []CallbackTargetAlive
  <1>1. IInv => CallbackTargetAlive
    <2> SUFFICES ASSUME IInv, NEW s \in DOMAIN libSessions, libSessions[s].started
                 PROVE  /\ libSessions[s].arg \in accums
                        /\ \A t \in DOMAIN libSessions \ {s} :
                             libSessions[t].arg # libSessions[s].arg
      BY DEF CallbackTargetAlive
    <2>1. CASE s \in TabledSess
      <3>1. PICK id \in DOMAIN sessions : s = sessions[id].sess
        BY <2>1 DEF TabledSess
      <3>2. libSessions[s].arg = sessions[id].accum /\ sessions[id].accum \in TabledAccum
        BY <3>1 DEF IInv, ArgInv, TabledAccum
      <3>3. ASSUME NEW t \in DOMAIN libSessions \ {s}
            PROVE  libSessions[t].arg # libSessions[s].arg
        <4>1. CASE t \in TabledSess
          BY <3>1, <3>2, <3>3, <4>1 DEF IInv, ArgInv, OwnerInv, TabledSess
        <4>2. CASE t \in PendingSess
          BY <3>2, <4>2 DEF IInv, ArgInv
        <4>3. QED
          BY <4>1, <4>2 DEF IInv, OwnerInv
      <3>4. QED
        BY <3>2, <3>3 DEF IInv, OwnerInv
    <2>2. CASE s \notin TabledSess
      <3> DEFINE a == libSessions[s].arg
      <3>1. todo = <<Session(s), Accum(a)>> /\ s \in Handle
        BY <2>2 DEF IInv, StartedInv, TypeOK
      <3>2. stage = "none" /\ a \in Handle
        <4>1. stage = "none"
          BY <3>1 DEF IInv, OwnerInv
        <4>2. \E b \in Handle : todo[2] = Accum(b)
          BY <3>1 DEF IInv, TodoInv, Session, Accum
        <4>3. QED
          BY <3>1, <4>1, <4>2 DEF Accum
      <3>3. PendingSess = {s} /\ PendingAccum = {a}
        BY <3>1, <3>2, TwoReleases DEF PendingSess, PendingAccum
      <3>4. a \in accums /\ a \notin TabledAccum
        BY <3>3 DEF IInv, OwnerInv
      <3>5. ASSUME NEW t \in DOMAIN libSessions \ {s}
            PROVE  libSessions[t].arg # a
        <4>1. PICK id \in DOMAIN sessions : t = sessions[id].sess
          BY <3>3, <3>5 DEF IInv, OwnerInv, TabledSess
        <4>2. libSessions[t].arg \in TabledAccum
          BY <4>1 DEF IInv, ArgInv, TabledAccum
        <4>3. QED
          BY <3>4, <4>2
      <3>6. QED
        BY <3>4, <3>5
    <2>3. QED
      BY <2>1, <2>2
  <1>2. QED
    BY <1>1, Invariant, PTL

(* No release is of something dead, already released, or still in the      *)
(* table (srd.rs create_session, destroy).                                 *)
THEOREM NothingFreedTwice == Spec => []ReleasesAreOwned
  <1>1. IInv => ReleasesAreOwned
    <2> SUFFICES ASSUME IInv PROVE ReleasesAreOwned
      OBVIOUS
    <2>1. CASE todo = <<>>
      BY <2>1 DEF ReleasesAreOwned
    <2>2. CASE todo # <<>>
      <3>1. PendingSess = SessIn(todo) /\ PendingAccum = AccumIn(todo)
        BY <2>2 DEF IInv, OwnerInv, PendingSess, PendingAccum
      <3>2. \A i \in DOMAIN todo :
              LET r == todo[i]
              IN IF r.kind = "session"
                 THEN r.ref \in DOMAIN libSessions \ Owned("sess")
                 ELSE r.ref \in accums \ Owned("accum")
        <4>1. \A i \in DOMAIN todo : \E h \in Handle : todo[i] = Session(h) \/ todo[i] = Accum(h)
          BY DEF IInv, TodoInv
        <4>2. \A i \in DOMAIN todo, h \in Handle :
                /\ todo[i] = Session(h) => h \in DOMAIN libSessions \ TabledSess
                /\ todo[i] = Accum(h) => h \in accums \ TabledAccum
          BY <3>1 DEF IInv, OwnerInv, SessIn, AccumIn
        <4>3. QED
          BY <4>1, <4>2, OwnedIsTabled DEF Session, Accum
      <3>3. \A i, j \in DOMAIN todo : i # j => todo[i] # todo[j]
        BY DEF IInv, TodoInv, Session, Accum
      <3>4. QED
        BY <3>2, <3>3 DEF ReleasesAreOwned
    <2>3. QED
      BY <2>1, <2>2
  <1>2. QED
    BY <1>1, Invariant, PTL

(* srd_exit comes when the library holds nothing of ours (srd.rs Drop).    *)
THEOREM LibraryIsLast == Spec => []LibraryExitsLast
  <1>1. IInv => LibraryExitsLast
    <2> SUFFICES ASSUME IInv, library = "down"
                 PROVE  DOMAIN libSessions = {} /\ accums = {}
      BY DEF LibraryExitsLast
    <2>1. DOMAIN sessions = {} /\ stage = "none" /\ todo = <<>>
      BY DEF IInv, ShutInv
    <2>2. QED
      BY <2>1, NoRelease DEF IInv, OwnerInv, TabledSess, TabledAccum, PendingSess,
                             PendingAccum
  <1>2. QED
    BY <1>1, Invariant, PTL
=============================================================================
