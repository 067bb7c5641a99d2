-------------------------- MODULE MCSyncCheckpoint --------------------------
(* Instances of SyncCheckpoint for TLC.                                       *)
EXTENDS SyncCheckpoint

CONSTANTS k1, k2, a, b, c, v0, v1, v2, v3

Row(x, y) == [k \in {k1, k2} |-> IF k = k1 THEN x ELSE y]

\* v1 differs from v0 in the file only; then one row changes, and returns to what
\* it was when the other changes.
NewContent == [v \in Version |->
                 CASE v \in {v0, v1} -> Row(a, a)
                   [] v = v2 -> Row(b, a)
                   [] v = v3 -> Row(a, b)]

OneByOne == {<<v0, v1>>, <<v1, v2>>, <<v2, v3>>}

\* The file of the last content but one is put back.
Back == {<<v3, v2>>}

=============================================================================
