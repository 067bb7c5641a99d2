--------------------------- MODULE SingleCreation ---------------------------
(* What the schema workflow promises about ONE target page of Notion: it asks *)
(* for the database once, it asks again only after Notion said that nothing   *)
(* was created, and it registers only a database that its request created.    *)
EXTENDS FiniteSets

CONSTANTS Database, None

VARIABLES
  phase,    \* "free", "asked" or "registered"
  made,     \* the databases its requests created
  register  \* the database it registered, or None

vars == <<phase, made, register>>

TypeOK ==
  /\ phase \in {"free", "asked", "registered"}
  /\ made \subseteq Database
  /\ register \in Database \cup {None}

Init == phase = "free" /\ made = {} /\ register = None

Ask ==
  /\ phase = "free" /\ made = {}
  /\ phase' = "asked"
  /\ UNCHANGED <<made, register>>

Refused ==
  /\ phase = "asked" /\ made = {}
  /\ phase' = "free"
  /\ UNCHANGED <<made, register>>

\* The request takes effect, while it is awaited or later.
Appear ==
  /\ phase = "asked" /\ made = {}
  /\ \E d \in Database : made' = {d}
  /\ UNCHANGED <<phase, register>>

Register ==
  /\ phase = "asked" /\ made # {}
  /\ phase' = "registered"
  /\ register' \in made
  /\ UNCHANGED made

Next == Ask \/ Refused \/ Appear \/ Register
Spec == Init /\ [][Next]_vars
=============================================================================
