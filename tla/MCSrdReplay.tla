---------------------------- MODULE MCSrdReplay ----------------------------
(***************************************************************************)
(* SrdReplay on a small instance.                                          *)
(***************************************************************************)
EXTENDS SrdReplay
=============================================================================
