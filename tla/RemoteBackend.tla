--------------------------- MODULE RemoteBackend ---------------------------
(***************************************************************************)
(* What the connection between the shim and the bridge promises: the       *)
(* backend of module MockBackend as if it were called directly.  Abstract, *)
(* implemented by module Connection.                                       *)
(*                                                                         *)
(* A request is executed at most once.  If its call returns an answer, it  *)
(* was executed, the answer is that of this execution, and the annotations *)
(* of this execution are with the caller, all of them and in order.  If    *)
(* the call fails, nothing was executed, or the backend is broken for      *)
(* good.                                                                   *)
(***************************************************************************)
EXTENDS MockBackend

CONSTANT Askable  \* the requests there are

VARIABLES
  call,      \* where the current call stands
  request,   \* its request
  result,    \* what the last call returned
  received,  \* the annotations the caller has got
  present,   \* whether there still is a caller
  broken     \* whether the backend has ended

remoteVars == <<call, request, result, received, present, broken>>

NoRequest == [op |-> "none"]
NoResult == [status |-> "none", session |-> NoSession]
Failure == [status |-> "err", session |-> NoSession]

Init ==
  /\ MockInit
  /\ call = "idle"
  /\ request = NoRequest
  /\ result = NoResult
  /\ received = <<>>
  /\ present = TRUE
  /\ broken = FALSE

Ask(req) ==
  /\ present
  /\ call = "idle"
  /\ call' = "asked"
  /\ request' = req
  /\ result' = NoResult
  /\ UNCHANGED <<mockVars, received, present, broken>>

Execute ==
  /\ ~broken
  /\ call = "asked"
  /\ Handle(request)
  /\ call' = "answered"
  /\ UNCHANGED <<request, result, received, present, broken>>

Return ==
  /\ present
  /\ call = "answered"
  /\ call' = "idle"
  /\ result' = [status |-> answer.status, session |-> answer.session]
  /\ received' = received \o answer.events
  /\ UNCHANGED <<mockVars, request, present, broken>>

(* The request is refused before it is executed.                           *)
Refuse ==
  /\ present
  /\ call = "asked"
  /\ call' = "idle"
  /\ result' = Failure
  /\ UNCHANGED <<mockVars, request, received, present, broken>>

(* The answer did not come: the caller is left with some first part of the *)
(* annotations, or with none if nothing was executed.                      *)
Fail ==
  /\ present
  /\ broken
  /\ call # "idle"
  /\ call' = "idle"
  /\ result' = Failure
  /\ \E k \in 0..(IF call = "answered" THEN Len(answer.events) ELSE 0) :
       received' = received \o SubSeq(answer.events, 1, k)
  /\ UNCHANGED <<mockVars, request, present, broken>>

(* The backend ends, whatever the reason, or the caller does.              *)
Break ==
  /\ broken' = TRUE
  /\ UNCHANGED <<mockVars, call, request, result, received, present>>

Leave ==
  /\ present' = FALSE
  /\ UNCHANGED <<mockVars, call, request, result, received, broken>>

Next ==
  \/ \E req \in Askable : Ask(req)
  \/ Execute
  \/ Return
  \/ Refuse
  \/ Fail
  \/ Break
  \/ Leave

Spec == Init /\ [][Next]_<<mockVars, remoteVars>>
=============================================================================
