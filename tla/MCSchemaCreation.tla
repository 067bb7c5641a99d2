-------------------------- MODULE MCSchemaCreation --------------------------
(* Instances of SchemaCreation for TLC.                                       *)
EXTENDS SchemaCreation, TLC

CONSTANTS p1, p2, u1, u2, u3, d1, d2, b1, b2, s1, s2, none

AnyLimit == [k \in Kind |-> 2]
\* The way to a recovery without the approval's secret: an answer that could
\* not be verified, a conflict that passes, and a restart with another secret.
RecoveryLimit == [k \in Kind |-> CASE k \in {"raise", "crash", "rotate"} -> 1
                                    [] k = "drift" -> 2 [] OTHER -> 0]

Symmetric ==
  Permutations({p1, p2}) \cup Permutations({u1, u2, u3}) \cup Permutations({d1, d2})
    \cup Permutations({b1, b2}) \cup Permutations({s1, s2})
=============================================================================
