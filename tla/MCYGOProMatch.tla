--------------------------- MODULE MCYGOProMatch ---------------------------
(* Instances of YGOProMatch for TLC. *)
EXTENDS YGOProMatch, TLC

CONSTANTS p1, p2

\* A room without listeners only drops what still reaches it.
NotSilent == room # "silent"
=============================================================================
