---------------------------- MODULE MCFrameCodec ----------------------------
(***************************************************************************)
(* FrameCodec on a small instance: bits for bytes, lengths of two of them, *)
(* bodies up to the limit and one over it.  Some bodies look like lengths. *)
(***************************************************************************)
EXTENDS FrameCodec

SomeBodies == {<<>>, <<1>>, <<0, 1>>, <<1, 1, 0>>}
=============================================================================
