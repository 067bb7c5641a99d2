--------------------------- MODULE MCProposalApply ---------------------------
(* ProposalApply for TLC: the proposals, operations and values of the runs.   *)
EXTENDS ProposalApply, TLC

CONSTANTS P, Q, o1, o2, k1, k2, old, new, edited, foreign, vA, vB

\* One proposal of two operations on two properties.
OneProposal   == {P}
OneOps        == [p \in {P} |-> {o1, o2}]
OneSource     == [p \in {P} |-> vA]

\* Two proposals of one operation each, on a property of their own.
TwoProposals  == {P, Q}
SplitOps      == [p \in {P, Q} |-> IF p = P THEN {o1} ELSE {o2}]
SameSource    == [p \in {P, Q} |-> vA]

\* Two proposals that carry one deferred operation, one of them with another.
SharedOps     == [p \in {P, Q} |-> IF p = P THEN {o1, o2} ELSE {o1}]

Listing       == [o \in {o1, o2} |-> IF o = o1 THEN 1 ELSE 2]
Keys          == [o \in {o1, o2} |-> IF o = o1 THEN k1 ELSE k2]
Olds          == [o \in {o1, o2} |-> old]
News          == [o \in {o1, o2} |-> new]

\* What one theorem about ProposalApply, WritesOnce, assumes of the constants
\* apart from ProposalApplyAssumption.
ASSUME InstanceAssumption == ProposesChanges
=============================================================================
