---------------------------- MODULE MCConnection ----------------------------
(***************************************************************************)
(* Connection on a small instance: bits for bytes, frames of two of them   *)
(* and pipes that hold one of them.                                        *)
(***************************************************************************)
EXTENDS Connection

(* Scripts of two annotations and of three; a channel that is not bound,   *)
(* and a decoder the bridge does not have.                                 *)
SomeCreations ==
  {[op |-> "create_session", decoder |-> "pwm", channels |-> {"signal"}],
   [op |-> "create_session", decoder |-> "modbus", channels |-> {"rx"}],
   [op |-> "create_session", decoder |-> "modbus", channels |-> {}],
   [op |-> "create_session", decoder |-> "none", channels |-> {"rx"}]}
=============================================================================
