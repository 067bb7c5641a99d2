---------------------------- MODULE MCWikiRefresh ----------------------------
(* Instances of WikiRefresh for TLC: folders 1 and 2, files from 11 on.       *)
EXTENDS WikiRefresh

CONSTANTS wide, narrow

\* One configuration includes both folders, the other the first.
RootsOf == [p \in {wide, narrow} |-> IF p = wide THEN {1, 2} ELSE {1}]
=============================================================================
