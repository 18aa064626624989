--------------------------- MODULE DecodeService ---------------------------
(***************************************************************************)
(* What the plugin promises the loader of its decoder handles, without     *)
(* mutexes, requests, pipes or processes: abstract, implemented by module  *)
(* ShimSessions.                                                           *)
(*                                                                         *)
(* An open handle is a stream of annotations, numbered as they are made.   *)
(* The service holds what was made until a call hands all of it over; a    *)
(* call that fails or asks for more room hands over nothing and keeps      *)
(* everything.  Annotations can be lost at two occasions only: when calls  *)
(* on two handles overlap, and once the bridge is broken.                  *)
(***************************************************************************)
EXTENDS Naturals, Sequences, SequencesExt

CONSTANTS
  Handles,   \* decoder handles
  Streams,   \* names of streams; a name is used once
  NoStream   \* the stream of a handle that is not open

VARIABLES
  busy,       \* the handles a call is running on
  stream,     \* the stream of each handle
  made,       \* annotations made in that stream
  held,       \* annotations made and neither handed over nor lost
  delivered,  \* annotations handed over
  result,     \* what the last call returned
  broken      \* whether the bridge has died

vars == <<busy, stream, made, held, delivered, result, broken>>

IsOpen(h) == stream[h] # NoStream

Init ==
  /\ busy = {}
  /\ stream = [h \in Handles |-> NoStream]
  /\ made = [h \in Handles |-> 0]
  /\ held = [h \in Handles |-> <<>>]
  /\ delivered = [h \in Handles |-> <<>>]
  /\ result = [h \in Handles |-> "none"]
  /\ broken = FALSE

(* A call begins: a create on a handle that is not open, any other on one  *)
(* that is.                                                                *)
Begin(h) ==
  /\ h \notin busy
  /\ busy' = busy \cup {h}
  /\ result' = [result EXCEPT ![h] = "none"]
  /\ UNCHANGED <<stream, made, held, delivered, broken>>

Return(h, r) ==
  /\ h \in busy
  /\ busy' = busy \ {h}
  /\ result' = [result EXCEPT ![h] = r]
  /\ UNCHANGED broken

(* A create returns a handle with a stream no other handle has.            *)
Open(h) ==
  /\ Return(h, "ok")
  /\ ~IsOpen(h)
  /\ \E s \in Streams \ {stream[g] : g \in Handles} :
       stream' = [stream EXCEPT ![h] = s]
  /\ UNCHANGED <<made, held, delivered>>

(* A destroy returns, or a create that never opened one: nothing of the    *)
(* handle remains.                                                         *)
Close(h) ==
  /\ \E r \in {"ok", "err"} : Return(h, r) /\ (IsOpen(h) <=> r = "ok")
  /\ stream' = [stream EXCEPT ![h] = NoStream]
  /\ made' = [made EXCEPT ![h] = 0]
  /\ held' = [held EXCEPT ![h] = <<>>]
  /\ delivered' = [delivered EXCEPT ![h] = <<>>]

(* During a call on an open handle, annotations are made.                  *)
Make(h) ==
  /\ h \in busy
  /\ IsOpen(h)
  /\ made'[h] > made[h]
  /\ made' = [made EXCEPT ![h] = made'[h]]
  /\ held' = [held EXCEPT ![h] = @ \o
                [i \in 1..(made'[h] - made[h]) |->
                   [session |-> stream[h], n |-> made[h] + i]]]
  /\ UNCHANGED <<busy, stream, delivered, result, broken>>

(* The annotations of another handle that were made last may get lost when *)
(* a call on h returns: while a call on that handle runs too, or when the  *)
(* bridge is broken.                                                       *)
KeepOrLose(g) ==
  \/ held'[g] = held[g]
  \/ (g \in busy \/ broken) /\ IsPrefix(held'[g], held[g])

HoldAfter(h, kept) ==
  /\ held' = [g \in Handles |-> IF g = h THEN kept ELSE held'[g]]
  /\ \A g \in Handles \ {h} : KeepOrLose(g)

(* A feed or flush returns OK: all that is held is handed over.            *)
HandOver(h) ==
  /\ Return(h, "ok")
  /\ IsOpen(h)
  /\ delivered' = [delivered EXCEPT ![h] = @ \o held[h]]
  /\ HoldAfter(h, <<>>)
  /\ UNCHANGED <<stream, made>>

(* It asks for more room: nothing is handed over, and all of it is kept.   *)
AskForMore(h) ==
  /\ Return(h, "more")
  /\ IsOpen(h)
  /\ HoldAfter(h, held[h])
  /\ UNCHANGED <<stream, made, delivered>>

(* It fails: nothing is handed over, and nobody loses anything.            *)
Fail(h) ==
  /\ Return(h, "err")
  /\ IsOpen(h)
  /\ UNCHANGED <<stream, made, held, delivered>>

(* The bridge dies, with the last of what the running calls were about to  *)
(* get.                                                                    *)
Break ==
  /\ ~broken
  /\ broken' = TRUE
  /\ held' = [h \in Handles |-> held'[h]]
  /\ \A h \in Handles :
       \/ held'[h] = held[h]
       \/ h \in busy /\ IsPrefix(held'[h], held[h])
  /\ UNCHANGED <<busy, stream, made, delivered, result>>

Next ==
  \/ \E h \in Handles :
       \/ Begin(h)
       \/ Open(h)
       \/ Close(h)
       \/ Make(h)
       \/ HandOver(h)
       \/ AskForMore(h)
       \/ Fail(h)
  \/ Break

Spec == Init /\ [][Next]_vars
=============================================================================
