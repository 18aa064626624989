--------------------------- MODULE MCShimSessions ---------------------------
(***************************************************************************)
(* ShimSessions on small instances: two handles are enough for every       *)
(* interleaving of a call with the calls of another handle.                *)
(***************************************************************************)
EXTENDS ShimSessions

(* The handles are interchangeable: no action and no safety property       *)
(* distinguishes them.                                                     *)
HandleSymmetry == Permutations(Handles)
=============================================================================
