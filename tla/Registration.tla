---------------------------- MODULE Registration ----------------------------
(***************************************************************************)
(* Registration of the plugin's decoders: abi.rs wavecrux_decoder_register *)
(* on top of registry.rs Registry::populate and supervisor.rs Supervisor   *)
(* (spawn, one list_decoders request, Drop), with the bridge processes it  *)
(* spawns.  The whole of a call runs under the mutex around REGISTRY, so   *)
(* there is one call at a time.                                            *)
(*                                                                         *)
(* The supervisor spawned here is the registry's own: decode sessions use  *)
(* another one (module ShimSessions).  It is dropped only when populate    *)
(* replaces it, because nothing drops the static registry.                 *)
(***************************************************************************)
EXTENDS Naturals, FiniteSets

CONSTANTS
  ListLengths,   \* how many decoders a bridge process may list
  SlotCounts,    \* how many slots the loader may pass
  MaxChildren    \* bound: bridge processes spawned

ASSUME LengthsAssumption == ListLengths \subseteq Nat
ASSUME SlotsAssumption == SlotCounts \subseteq Nat
ASSUME ChildBound == MaxChildren \in Nat \ {0}

VARIABLES
  call,        \* where the registration call in progress stands
  slots,       \* the slots that call passed
  reply,       \* the code and count the last call returned
  poisoned,    \* whether a panic poisoned the mutex
  defs,        \* how many definitions Registry::defs holds
  manifests,   \* how many manifests Registry::manifests holds
  current,     \* the child Registry::supervisor owns, 0 for none
  dropping,    \* the child whose Supervisor is being dropped, 0 for none
  list,        \* the list received, before it is stored
  child,       \* the state of each bridge process
  lists,       \* the number of decoders each process would list
  advertised   \* history: the number of decoders the loader was told

vars == <<call, slots, reply, poisoned, defs, manifests, current, dropping,
          list, child, lists, advertised>>
registryVars == <<slots, poisoned, defs, manifests, current, dropping, list>>

Child == 1..MaxChildren
Code == {"none", "ok", "err", "more"}

(* unborn: not spawned; serving: waits for requests; uninit: serves, but   *)
(* its backend failed to initialise; stopping: has read the shutdown       *)
(* request; exited: terminated, not yet waited for; reaped: waited for.    *)
ChildState == {"unborn", "serving", "uninit", "stopping", "exited", "reaped"}
Alive == {"serving", "uninit", "stopping"}

TypeOK ==
  /\ call \in {"idle", "spawn", "drop", "list", "store"}
  /\ slots \in SlotCounts \cup {0}
  /\ reply \in [code : Code, count : Nat]
  /\ poisoned \in BOOLEAN
  /\ defs \in Nat
  /\ manifests \in Nat
  /\ current \in Child \cup {0}
  /\ dropping \in Child \cup {0}
  /\ list \in Nat
  /\ child \in [Child -> ChildState]
  /\ lists \in [Child -> ListLengths \cup {0}]
  /\ advertised \in Nat

Init ==
  /\ call = "idle"
  /\ slots = 0
  /\ reply = [code |-> "none", count |-> 0]
  /\ poisoned = FALSE
  /\ defs = 0
  /\ manifests = 0
  /\ current = 0
  /\ dropping = 0
  /\ list = 0
  /\ child = [c \in Child |-> "unborn"]
  /\ lists = [c \in Child |-> 0]
  /\ advertised = 0

-----------------------------------------------------------------------------
(* How a call returns.                                                     *)
Return(code, count) ==
  /\ call' = "idle"
  /\ reply' = [code |-> code, count |-> count]
  /\ advertised' = IF code = "more" \/ (code = "ok" /\ count > 0)
                   THEN count ELSE advertised

(* Mutants: the second call needs one slot more; the count returned is the *)
(* difference.                                                             *)
PublishIfRoomLeft(n, room) ==
  IF n >= room THEN Return("more", n) ELSE Return("ok", n)
PublishDifference(n, room) ==
  IF n > room THEN Return("more", n) ELSE Return("ok", n - room)

(* The n cached definitions go to the loader, if it has room.              *)
Publish(n, room) == IF n > room THEN Return("more", n) ELSE Return("ok", n)

Continue(c) == call' = c /\ UNCHANGED <<reply, advertised>>

(* A call of the loader: refused if an earlier one panicked, answered from *)
(* the cache if that is not empty, and populate otherwise.                 *)
Register(n) ==
  /\ call = "idle"
  /\ slots' = n
  /\ IF poisoned THEN Return("err", n)
     ELSE IF defs > 0 THEN Publish(defs, n)
     ELSE Continue("spawn")
  /\ UNCHANGED <<poisoned, defs, manifests, current, dropping, list, child,
                 lists>>

(* The binary is missing or cannot be started: no decoders, but no error.  *)
SpawnFails ==
  /\ call = "spawn"
  /\ Return("ok", 0)
  /\ UNCHANGED <<registryVars, child, lists>>

(* The new supervisor replaces the old one, which is dropped: its child is *)
(* sent a shutdown request.                                                *)
SpawnChild ==
  /\ call = "spawn"
  /\ \E c \in Child :
       /\ child[c] = "unborn"
       /\ \A d \in Child : d < c => child[d] # "unborn"
       /\ \E st \in {"serving", "uninit"} :
            child' = [d \in Child |->
                        IF d = c THEN st
                        ELSE IF d = current /\ child[d] \in Alive THEN "stopping"
                        ELSE child[d]]
       /\ \E n \in ListLengths : lists' = [lists EXCEPT ![c] = n]
       /\ current' = c
  /\ dropping' = current
  /\ IF current = 0 THEN Continue("list") ELSE Continue("drop")
  /\ UNCHANGED <<slots, poisoned, defs, manifests, list>>

(* Supervisor::drop polls until the child has exited ...                   *)
Reap ==
  /\ call = "drop"
  /\ child[dropping] = "exited"
  /\ child' = [child EXCEPT ![dropping] = "reaped"]
  /\ dropping' = 0
  /\ Continue("list")
  /\ UNCHANGED <<slots, poisoned, defs, manifests, current, list, lists>>

(* Mutant: the child is killed but not waited for.                         *)
KillWithoutWait ==
  /\ call = "drop"
  /\ child' = [child EXCEPT ![dropping] = "exited"]
  /\ dropping' = 0
  /\ Continue("list")
  /\ UNCHANGED <<slots, poisoned, defs, manifests, current, list, lists>>

(* Mutant: there is no deadline, a child that does not exit is waited for. *)
KillOnlyExited ==
  /\ call = "drop"
  /\ child[dropping] = "exited"
  /\ child' = [child EXCEPT ![dropping] = "reaped"]
  /\ dropping' = 0
  /\ Continue("list")
  /\ UNCHANGED <<slots, poisoned, defs, manifests, current, list, lists>>

(* ... or two seconds have passed: kill, and wait.  The child may exit     *)
(* between the last poll and the kill.                                     *)
Kill ==
  /\ call = "drop"
  /\ child' = [child EXCEPT ![dropping] = "reaped"]
  /\ dropping' = 0
  /\ Continue("list")
  /\ UNCHANGED <<slots, poisoned, defs, manifests, current, list, lists>>

(* list_decoders: a child that could initialise its backend sends a list,  *)
(* one that could not an error; one that died, end of file.  The loader is *)
(* given an error code and its count is left as it was.                    *)
ListDecoders ==
  /\ call = "list"
  /\ IF child[current] = "serving"
     THEN list' = lists[current] /\ Continue("store")
     ELSE Return("err", slots) /\ UNCHANGED list
  /\ UNCHANGED <<slots, poisoned, defs, manifests, current, dropping, child,
                 lists>>

(* Mutant: a panic leaves the mutex usable.                                *)
StoreForgivesPanic ==
  /\ call = "store"
  /\ \/ /\ defs' = list
        /\ manifests' = list
        /\ Publish(list, slots)
     \/ /\ \E k \in 0..(list - 1) : defs' = k
        /\ Return("err", slots)
        /\ UNCHANGED manifests
  /\ UNCHANGED <<slots, poisoned, current, dropping, list, child, lists>>

(* The list is cached: the definitions one by one, then the manifests.  A  *)
(* string with a NUL in it panics half-way; the panic is caught at the     *)
(* boundary, with the mutex poisoned.                                      *)
Store ==
  /\ call = "store"
  /\ \/ /\ defs' = list
        /\ manifests' = list
        /\ Publish(list, slots)
        /\ UNCHANGED poisoned
     \/ /\ \E k \in 0..(list - 1) : defs' = k
        /\ poisoned' = TRUE
        /\ Return("err", slots)
        /\ UNCHANGED manifests
  /\ UNCHANGED <<slots, current, dropping, list, child, lists>>

-----------------------------------------------------------------------------
(* The processes.                                                          *)

(* A child exits: at the shutdown request, or on its own at any time.      *)
ChildExits ==
  /\ \E c \in Child : /\ child[c] \in Alive
                      /\ child' = [child EXCEPT ![c] = "exited"]
  /\ UNCHANGED <<call, reply, advertised, registryVars, lists>>

CallStep == SpawnFails \/ SpawnChild \/ Reap \/ Kill \/ ListDecoders \/ Store
Next == (\E n \in SlotCounts : Register(n)) \/ CallStep \/ ChildExits

Spec == Init /\ [][Next]_vars

(* A call keeps running.  Kill is fair because of the two-second deadline, *)
(* ListDecoders if a live child answers; no child has to exit.             *)
FairSpec == Spec /\ WF_vars(CallStep)

-----------------------------------------------------------------------------
(* Properties.                                                             *)

(* What the loader was told stays true: once a call has announced n        *)
(* decoders, with OK or as the number of slots to come back with, the      *)
(* registry holds n definitions and a manifest for each, which create      *)
(* looks the decoder up in, and the mutex is usable: whatever becomes of   *)
(* the process that sent the list.                                         *)
AdvertisedIsKept ==
  advertised > 0 => defs = advertised /\ manifests = advertised /\ ~poisoned

(* No bridge process is left behind: between two calls every process ever  *)
(* spawned has been waited for, except the one the registry owns.          *)
NoProcessLeftBehind ==
  call = "idle" => \A c \in Child \ {current} : child[c] \in {"unborn", "reaped"}

(* A slot count once asked for is enough: the second call of the loader's  *)
(* two-call protocol never asks for more (abi.rs, populate's cache).       *)
SecondCallFits ==
  [][\A n \in SlotCounts :
       Register(n) /\ reply.code = "more" /\ n >= reply.count
         => reply' = [code |-> "ok", count |-> reply.count]]_vars

(* A registration call returns, also if the process being replaced ignores *)
(* the shutdown request for ever (supervisor.rs Drop).                     *)
RegisterReturns == call # "idle" ~> call = "idle"

(* A bridge whose libsigrokdecode cannot be initialised: "the shim treats  *)
(* this as 'subprocess unavailable' and shows zero decoders"               *)
(* (docs/ARCHITECTURE.md:200-203), that is OK with a count of zero.        *)
InitFailureShowsNoDecoders ==
  [][call = "list" /\ child[current] = "uninit" /\ call' = "idle"
     => reply' = [code |-> "ok", count |-> 0]]_vars
=============================================================================
