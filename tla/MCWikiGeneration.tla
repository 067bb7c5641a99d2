--------------------------- MODULE MCWikiGeneration ---------------------------
(* Instances of WikiGeneration for TLC.                                       *)
EXTENDS WikiGeneration

CONSTANTS c1, c2, a1, a2
=============================================================================
