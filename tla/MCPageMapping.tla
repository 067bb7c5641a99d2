---------------------------- MODULE MCPageMapping ----------------------------
(* Instances of PageMapping for TLC.                                          *)
EXTENDS PageMapping, TLC

CONSTANTS e1, e2, e3, t1, t2, t3, v1, v2, q1, q2, q3

\* One entity with titles of its own beside two that share theirs; the key of one
\* of these ends in its title.
MixedTitles == [e \in {e1, e2, e3} |-> IF e = e1 THEN {t1, t2} ELSE {t3}]
MixedKeys   == [e \in {e1, e2, e3} |-> IF e = e2 THEN t3 ELSE None]

\* Two entities with one title, which no key ends in.
SharedTitle == [e \in {e1, e2} |-> {t1}]
NoKeys      == [e \in {e1, e2} |-> None]
Listing     == <<<<e1, "title">>, <<e2, "title">>, <<e1, "value">>, <<e2, "value">>>>
LongListing == <<<<e1, "title">>, <<e2, "title">>, <<e3, "title">>,
                 <<e1, "value">>, <<e2, "value">>, <<e3, "value">>>>
Interchangeable == Permutations({q1, q2, q3})
=============================================================================
