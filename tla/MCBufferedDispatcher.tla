------------------------ MODULE MCBufferedDispatcher ------------------------
(* Instance of BufferedDispatcher for TLC. *)
EXTENDS BufferedDispatcher

CONSTANTS p1, p2, c1, c2, c3

AllPolicies == {"drop_oldest", "drop_newest", "raise"}
=============================================================================
