---------------------------- MODULE MCSyncFacade ----------------------------
(* Instance of SyncFacade for TLC. *)
EXTENDS SyncFacade

CONSTANTS a, s1, s2, k1, k2
=============================================================================
