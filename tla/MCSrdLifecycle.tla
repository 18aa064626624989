--------------------------- MODULE MCSrdLifecycle ---------------------------
(***************************************************************************)
(* SrdLifecycle on a small instance.  The addresses are interchangeable.   *)
(***************************************************************************)
EXTENDS SrdLifecycle, TLC

AddressSymmetry == Permutations(Handle)
=============================================================================
