---------------------------- MODULE MCControlSync ----------------------------
(* One client among others that edit the session beside it.                 *)
EXTENDS ControlSync

CONSTANTS c1

OneClient == {c1}
=============================================================================
