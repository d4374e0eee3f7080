--------------------------- MODULE MCPayloadCopies ---------------------------
(* Instance of PayloadCopies for TLC. *)
EXTENDS PayloadCopies

CONSTANTS c1, c2, c3, c4, k1, k2

\* The fourth copy comes only where nobody closes the isolator.
FourWithoutShutdown == closing' => copy'[c4] = "idle"
=============================================================================
