--------------------------- MODULE MCRegistration ---------------------------
(***************************************************************************)
(* Registration on a small instance.                                       *)
(***************************************************************************)
EXTENDS Registration
=============================================================================
