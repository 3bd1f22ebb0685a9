----------------------------- MODULE MCWebListener -----------------------------
(* The listener between two ports, and between two users on one of them.      *)
EXTENDS WebListener

MCSettings == {[port |-> 1, user |-> 1], [port |-> 1, user |-> 2], [port |-> 2, user |-> 1]}
=============================================================================
