------------------------- MODULE RegistrationProofs -------------------------
(***************************************************************************)
(* Registration keeps what it announced and leaves no process behind, for  *)
(* any lists, any slot counts and any number of processes.                 *)
(***************************************************************************)
EXTENDS Registration, TLAPS

(* What is cached: nothing while a call still has to fetch the list, and a *)
(* manifest for each definition unless a panic came in between; a caller   *)
(* who was asked for more slots was told of what is cached now.            *)
CacheInv ==
  /\ call # "idle" => defs = 0 /\ ~poisoned
  /\ ~poisoned => manifests = defs
  /\ reply.code = "more" => defs > 0 /\ reply.count = defs /\ ~poisoned
  /\ AdvertisedIsKept

(* Who is still running: the process the registry owns, and the one whose  *)
(* supervisor is being dropped.                                            *)
ProcessInv ==
  /\ call \in {"drop", "list", "store"} => current # 0
  /\ call = "drop" <=> dropping # 0
  /\ \A c \in Child : child[c] \in {"unborn", "reaped"} \/ c \in {current, dropping}

IInv == TypeOK /\ CacheInv /\ ProcessInv

-----------------------------------------------------------------------------
(* A call that returns: its reply, and what has been announced by it.      *)
LEMMA ReturnFacts ==
  ASSUME NEW code \in Code, NEW count \in Nat, TypeOK, Return(code, count)
  PROVE  /\ call' = "idle"
         /\ reply' = [code |-> code, count |-> count]
         /\ reply' \in [code : Code, count : Nat]
         /\ reply'.code = code /\ reply'.count = count
         /\ advertised' \in Nat
         /\ advertised' = count \/ advertised' = advertised
         /\ code = "more" => advertised' = count
         /\ code = "err" \/ (count = 0 /\ code # "more") => advertised' = advertised
  BY DEF Return, TypeOK, Code

(* Publishing n definitions announces n, or nothing if n is 0.             *)
LEMMA PublishFacts ==
  ASSUME NEW n \in Nat, NEW room \in Nat, TypeOK, Publish(n, room)
  PROVE  /\ call' = "idle"
         /\ reply' \in [code : Code, count : Nat]
         /\ reply' = [code |-> IF n > room THEN "more" ELSE "ok", count |-> n]
         /\ reply'.code = "more" => n > 0 /\ reply'.count = n
         /\ advertised' \in Nat
         /\ n > 0 => advertised' = n
         /\ n = 0 => advertised' = advertised
  <1>1. CASE n > room
    <2>1. Return("more", n)
      BY <1>1 DEF Publish
    <2>2. QED
      BY <1>1, <2>1 DEF Return, TypeOK, Code
  <1>2. CASE ~(n > room)
    <2>1. Return("ok", n)
      BY <1>2 DEF Publish
    <2>2. QED
      BY <1>2, <2>1 DEF Return, TypeOK, Code
  <1>3. QED
    BY <1>1, <1>2

-----------------------------------------------------------------------------
LEMMA InitInvariant == Init => IInv
  <1> SUFFICES ASSUME Init PROVE IInv
    OBVIOUS
  <1>1. TypeOK
    BY DEF Init, TypeOK, Code, ChildState
  <1>2. CacheInv
    BY DEF Init, CacheInv, AdvertisedIsKept
  <1>3. ProcessInv
    BY DEF Init, ProcessInv
  <1>4. QED
    BY <1>1, <1>2, <1>3 DEF IInv

(* Each step keeps the invariant.                                          *)
LEMMA RegisterKeeps ==
  ASSUME IInv, NEW n \in SlotCounts, Register(n)
  PROVE  IInv'
  <1>1. n \in Nat
    BY SlotsAssumption
  <1>2. CASE poisoned
    <2>1. Return("err", n)
      BY <1>2 DEF Register
    <2>2. call' = "idle" /\ reply' \in [code : Code, count : Nat]
          /\ reply'.code # "more" /\ advertised' = advertised
      BY <1>1, <2>1, ReturnFacts DEF IInv, Code
    <2>3. QED
      BY <1>2, <2>2 DEF IInv, TypeOK, CacheInv, ProcessInv, AdvertisedIsKept, Register
  <1>3. CASE ~poisoned /\ defs > 0
    <2>1. defs \in Nat /\ Publish(defs, n)
      BY <1>3 DEF Register, IInv, TypeOK
    <2>2. /\ call' = "idle" /\ reply' \in [code : Code, count : Nat]
          /\ reply'.code = "more" => reply'.count = defs
          /\ advertised' \in Nat /\ advertised' = defs
      BY <1>1, <1>3, <2>1, PublishFacts DEF IInv
    <2>3. QED
      BY <1>3, <2>2 DEF IInv, TypeOK, CacheInv, ProcessInv, AdvertisedIsKept, Register
  <1>4. CASE ~poisoned /\ ~(defs > 0)
    <2>1. Continue("spawn") /\ defs = 0
      BY <1>4 DEF Register, IInv, TypeOK
    <2>2. QED
      BY <1>4, <2>1 DEF IInv, TypeOK, CacheInv, ProcessInv, AdvertisedIsKept, Register,
                        Continue
  <1>5. QED
    BY <1>2, <1>3, <1>4

LEMMA SpawnFailsKeeps ==
  ASSUME IInv, SpawnFails
  PROVE  IInv'
  <1>1. /\ call' = "idle" /\ reply' \in [code : Code, count : Nat]
        /\ reply'.code # "more" /\ advertised' = advertised
    BY ReturnFacts DEF SpawnFails, IInv, Code
  <1>2. QED
    BY <1>1 DEF IInv, TypeOK, CacheInv, ProcessInv, AdvertisedIsKept, SpawnFails,
                registryVars

LEMMA SpawnChildKeeps ==
  ASSUME IInv, SpawnChild
  PROVE  IInv'
  <1>1. PICK c \in Child :
          /\ \E st \in {"serving", "uninit"} :
               child' = [d \in Child |->
                           IF d = c THEN st
                           ELSE IF d = current /\ child[d] \in Alive THEN "stopping"
                           ELSE child[d]]
          /\ \E n \in ListLengths : lists' = [lists EXCEPT ![c] = n]
          /\ current' = c
    BY DEF SpawnChild
  <1>2. c # 0
    BY ChildBound DEF Child
  <1>3. child' \in [Child -> ChildState]
    BY <1>1 DEF IInv, TypeOK, ChildState
  <1>4. \A d \in Child \ {c, current} : child'[d] = child[d]
    BY <1>1
  <1>5. lists' \in [Child -> ListLengths \cup {0}]
    BY <1>1 DEF IInv, TypeOK
  <1>6. dropping' = current /\ call' = (IF current = 0 THEN "list" ELSE "drop")
    BY DEF SpawnChild, Continue
  <1>7. TypeOK'
    BY <1>1, <1>3, <1>5, <1>6 DEF IInv, TypeOK, SpawnChild, Continue
  <1>8. CacheInv'
    BY <1>6 DEF IInv, CacheInv, AdvertisedIsKept, SpawnChild, Continue
  <1>9. ProcessInv'
    <2>1. \A d \in Child : child'[d] \in {"unborn", "reaped"} \/ d \in {current', dropping'}
      <3> SUFFICES ASSUME NEW d \in Child, d \notin {c, current}
                   PROVE  child'[d] \in {"unborn", "reaped"}
        BY <1>1, <1>6
      <3>1. dropping = 0 /\ d # 0
        BY ChildBound DEF IInv, ProcessInv, SpawnChild, Child
      <3>2. child[d] \in {"unborn", "reaped"}
        BY <3>1 DEF IInv, ProcessInv
      <3>3. QED
        BY <1>4, <3>2
    <2>2. QED
      BY <1>1, <1>2, <1>6, <2>1 DEF ProcessInv
  <1>10. QED
    BY <1>7, <1>8, <1>9 DEF IInv

LEMMA ReapOrKillKeeps ==
  ASSUME IInv, Reap \/ Kill
  PROVE  IInv'
  <1>1. /\ call = "drop"
        /\ child' = [child EXCEPT ![dropping] = "reaped"]
        /\ dropping' = 0
        /\ call' = "list"
        /\ UNCHANGED <<slots, poisoned, defs, manifests, current, list, lists,
                       reply, advertised>>
    BY DEF Reap, Kill, Continue
  <1>2. TypeOK'
    BY <1>1 DEF IInv, TypeOK, ChildState
  <1>3. CacheInv'
    BY <1>1 DEF IInv, CacheInv, AdvertisedIsKept
  <1>4. ProcessInv'
    BY <1>1 DEF IInv, ProcessInv, TypeOK
  <1>5. QED
    BY <1>2, <1>3, <1>4 DEF IInv

LEMMA ListDecodersKeeps ==
  ASSUME IInv, ListDecoders
  PROVE  IInv'
  <1>1. CASE child[current] = "serving"
    <2>1. list' = lists[current] /\ Continue("store")
      BY <1>1 DEF ListDecoders
    <2>2. list' \in Nat
      <3>1. current \in Child
        BY DEF IInv, TypeOK, ProcessInv, ListDecoders
      <3>2. lists[current] \in ListLengths \cup {0}
        BY <3>1 DEF IInv, TypeOK
      <3>3. ListLengths \cup {0} \subseteq Nat
        BY LengthsAssumption
      <3>4. lists[current] \in Nat
        BY <3>2, <3>3, Zenon
      <3>5. QED
        BY <2>1, <3>4
    <2>3. QED
      BY <2>1, <2>2 DEF IInv, TypeOK, CacheInv, ProcessInv, AdvertisedIsKept,
                        ListDecoders, Continue
  <1>2. CASE child[current] # "serving"
    <2>1. Return("err", slots) /\ list' = list
      BY <1>2 DEF ListDecoders
    <2>2. slots \in Nat
      BY SlotsAssumption DEF IInv, TypeOK
    <2>3. /\ call' = "idle" /\ reply' \in [code : Code, count : Nat]
          /\ reply'.code # "more" /\ advertised' = advertised
      BY <2>1, <2>2, ReturnFacts DEF IInv, Code
    <2>4. QED
      BY <2>1, <2>3 DEF IInv, TypeOK, CacheInv, ProcessInv, AdvertisedIsKept,
                        ListDecoders
  <1>3. QED
    BY <1>1, <1>2

LEMMA StoreKeeps ==
  ASSUME IInv, Store
  PROVE  IInv'
  <1>1. slots \in Nat /\ list \in Nat
    BY SlotsAssumption DEF IInv, TypeOK
  <1>2. advertised = 0
    BY DEF IInv, TypeOK, CacheInv, AdvertisedIsKept, Store
  <1>3. CASE defs' = list /\ manifests' = list /\ Publish(list, slots)
             /\ UNCHANGED poisoned
    <2>1. /\ call' = "idle" /\ reply' \in [code : Code, count : Nat]
          /\ reply'.code = "more" => list > 0 /\ reply'.count = list
          /\ advertised' \in Nat
          /\ list > 0 => advertised' = list
          /\ list = 0 => advertised' = advertised
      BY <1>1, <1>3, PublishFacts DEF IInv
    <2>2. ~poisoned
      BY DEF IInv, CacheInv, Store
    <2>3. QED
      BY <1>1, <1>2, <1>3, <2>1, <2>2 DEF IInv, TypeOK, CacheInv, ProcessInv,
                                          AdvertisedIsKept, Store
  <1>4. CASE /\ \E k \in 0..(list - 1) : defs' = k
             /\ poisoned' = TRUE
             /\ Return("err", slots)
             /\ UNCHANGED manifests
    <2>1. /\ call' = "idle" /\ reply' \in [code : Code, count : Nat]
          /\ reply'.code # "more" /\ advertised' = advertised
      BY <1>1, <1>4, ReturnFacts DEF IInv, Code
    <2>2. defs' \in Nat
      BY <1>1, <1>4
    <2>3. QED
      BY <1>2, <1>4, <2>1, <2>2 DEF IInv, TypeOK, CacheInv, ProcessInv,
                                    AdvertisedIsKept, Store
  <1>5. QED
    BY <1>3, <1>4 DEF Store

LEMMA ChildExitsKeeps ==
  ASSUME IInv, ChildExits
  PROVE  IInv'
  <1>1. PICK c \in Child : child[c] \in Alive /\ child' = [child EXCEPT ![c] = "exited"]
    BY DEF ChildExits
  <1>2. c \in {current, dropping}
    BY <1>1 DEF IInv, ProcessInv, Alive
  <1>3. TypeOK'
    BY <1>1 DEF IInv, TypeOK, ChildState, ChildExits, registryVars
  <1>4. CacheInv'
    BY DEF IInv, CacheInv, AdvertisedIsKept, ChildExits, registryVars
  <1>5. ProcessInv'
    BY <1>1, <1>2 DEF IInv, TypeOK, ProcessInv, ChildExits, registryVars
  <1>6. QED
    BY <1>3, <1>4, <1>5 DEF IInv

LEMMA NextInvariant == IInv /\ [Next]_vars => IInv'
  <1> SUFFICES ASSUME IInv, [Next]_vars PROVE IInv'
    OBVIOUS
  <1>1. CASE \E n \in SlotCounts : Register(n)
    BY <1>1, RegisterKeeps
  <1>2. CASE SpawnFails
    BY <1>2, SpawnFailsKeeps
  <1>3. CASE SpawnChild
    BY <1>3, SpawnChildKeeps
  <1>4. CASE Reap \/ Kill
    BY <1>4, ReapOrKillKeeps
  <1>5. CASE ListDecoders
    BY <1>5, ListDecodersKeeps
  <1>6. CASE Store
    BY <1>6, StoreKeeps
  <1>7. CASE ChildExits
    BY <1>7, ChildExitsKeeps
  <1>8. CASE UNCHANGED vars
    BY <1>8 DEF vars, IInv, TypeOK, CacheInv, ProcessInv, AdvertisedIsKept
  <1>9. QED
    BY <1>1, <1>2, <1>3, <1>4, <1>5, <1>6, <1>7, <1>8 DEF Next, CallStep

-----------------------------------------------------------------------------
(* Every variable of the registry and its processes keeps its type.        *)
THEOREM RegistrationTyped == Spec => []TypeOK
  <1>1. IInv => TypeOK
    BY DEF IInv
  <1>2. QED
    BY <1>1, InitInvariant, NextInvariant, PTL DEF Spec

(* What the loader was told of stays registered, whatever becomes of the   *)
(* process that listed it (registry.rs populate, abi.rs register).         *)
THEOREM AnnouncedIsKept == Spec => []AdvertisedIsKept
  <1>1. IInv => AdvertisedIsKept
    BY DEF IInv, CacheInv
  <1>2. QED
    BY <1>1, InitInvariant, NextInvariant, PTL DEF Spec

(* Between two calls, every process but the registry's own has been waited *)
(* for (supervisor.rs Drop).                                               *)
THEOREM ProcessesAreReaped == Spec => []NoProcessLeftBehind
  <1>1. IInv => NoProcessLeftBehind
    BY ChildBound DEF IInv, ProcessInv, NoProcessLeftBehind, Child
  <1>2. QED
    BY <1>1, InitInvariant, NextInvariant, PTL DEF Spec

(* The number of slots asked for is enough for the second call, and no     *)
(* matter what happens in between (abi.rs register, populate's cache).     *)
THEOREM SlotsAskedForSuffice == Spec => SecondCallFits
  <1>1. IInv /\ [Next]_vars =>
          [\A n \in SlotCounts :
             Register(n) /\ reply.code = "more" /\ n >= reply.count
               => reply' = [code |-> "ok", count |-> reply.count]]_vars
    <2> SUFFICES ASSUME IInv, NEW n \in SlotCounts, Register(n),
                        reply.code = "more", n >= reply.count
                 PROVE  reply' = [code |-> "ok", count |-> reply.count]
      OBVIOUS
    <2>1. defs > 0 /\ reply.count = defs /\ ~poisoned /\ defs \in Nat
      BY DEF IInv, CacheInv, TypeOK
    <2>2. n \in Nat
      BY SlotsAssumption
    <2>3. Publish(defs, n)
      BY <2>1 DEF Register
    <2>4. QED
      BY <2>1, <2>2, <2>3 DEF Publish, Return
  <1>2. QED
    BY <1>1, InitInvariant, NextInvariant, PTL DEF Spec, SecondCallFits
=============================================================================
