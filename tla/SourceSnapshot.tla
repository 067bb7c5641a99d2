--------------------------- MODULE SourceSnapshot ---------------------------
(* What a refresh of the Wiki promises: the index is the source folder as it  *)
(* stood at one instant of the refresh, though the folder changes while it is *)
(* read and no reading of it is atomic.                                       *)
EXTENDS Naturals

CONSTANTS Policy, Visible(_, _), None

VARIABLES
  tree,   \* the folder
  taken,  \* the folder at the instant the running refresh stands for, or None
  index   \* what the published index shows, or None

vars == <<tree, taken, index>>

Init == taken = None /\ index = None

\* Anybody changes anything below the folder.
Change == tree' # tree /\ UNCHANGED <<taken, index>>

Take == taken' = tree /\ UNCHANGED <<tree, index>>

\* A refresh fails, or starts again: the index stays.
Drop == taken' = None /\ UNCHANGED <<tree, index>>

Publish ==
  /\ taken # None
  /\ \E p \in Policy : index' = Visible(p, taken)
  /\ taken' = None
  /\ UNCHANGED tree

Next == Change \/ Take \/ Drop \/ Publish

Spec == Init /\ [][Next]_vars
=============================================================================
