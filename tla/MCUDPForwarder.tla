--------------------------- MODULE MCUDPForwarder ---------------------------
(* One client and two session objects: an old session that is being        *)
(* dropped, and its successor.                                             *)
EXTENDS UDPForwarder

CONSTANTS c1, s1, s2
=============================================================================
