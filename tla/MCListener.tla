----------------------------- MODULE MCListener -----------------------------
(* Instance of Listener for TLC. *)
EXTENDS Listener
CONSTANT a
OneAddr == {a}
=============================================================================
