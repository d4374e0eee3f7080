------------------------------ MODULE MCRefresh ------------------------------
(* Instance of Refresh for TLC. *)
EXTENDS Refresh, TLC

CONSTANTS k1, k2, c1, c2
=============================================================================
