-------------------------- MODULE MCBoundedDispatch --------------------------
(* Instance of BoundedDispatch for TLC. *)
EXTENDS BoundedDispatch, TLC
=============================================================================
