----------------------------- MODULE FramePipe -----------------------------
(***************************************************************************)
(* What one direction of the connection promises (crates/ipc): a queue of  *)
(* whole frames.  This is the view of the pipes in module IpcLoop.  The    *)
(* writer adds frames until it stops, for good; what it has added stays    *)
(* readable, in order, and only then the reader learns of the end.         *)
(***************************************************************************)
EXTENDS Naturals, Sequences

CONSTANTS Frames

VARIABLES
  queue,    \* frames written, not yet read
  writing,  \* whether the writer is alive
  read,     \* history: frames read
  ended     \* whether the reader was told of the end

vars == <<queue, writing, read, ended>>

Init ==
  /\ queue = <<>>
  /\ writing = TRUE
  /\ read = <<>>
  /\ ended = FALSE

Write(f) ==
  /\ writing
  /\ queue' = Append(queue, f)
  /\ UNCHANGED <<writing, read, ended>>

Stop ==
  /\ writing
  /\ writing' = FALSE
  /\ UNCHANGED <<queue, read, ended>>

Read ==
  /\ queue # <<>>
  /\ read' = Append(read, Head(queue))
  /\ queue' = Tail(queue)
  /\ UNCHANGED <<writing, ended>>

End ==
  /\ ~writing
  /\ queue = <<>>
  /\ ended' = TRUE
  /\ UNCHANGED <<queue, writing, read>>

Next == (\E f \in Frames : Write(f)) \/ Stop \/ Read \/ End

Spec == Init /\ [][Next]_vars
=============================================================================
