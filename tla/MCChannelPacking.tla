-------------------------- MODULE MCChannelPacking --------------------------
(***************************************************************************)
(* ChannelPacking on a small instance: with bytes of four bits, three      *)
(* bound signals already take two bytes of a sample, and five channels two *)
(* bytes of a row.                                                         *)
(***************************************************************************)
EXTENDS ChannelPacking
=============================================================================
