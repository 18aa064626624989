--------------------------- MODULE MCOptionTypes ----------------------------
(***************************************************************************)
(* OptionTypes on a small instance.  The options are interchangeable.      *)
(***************************************************************************)
EXTENDS OptionTypes, TLC

OptionSymmetry == Permutations(Option)
=============================================================================
