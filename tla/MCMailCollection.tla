-------------------------- MODULE MCMailCollection --------------------------
(* Instances of MailCollection for TLC.                                       *)
EXTENDS MailCollection

CONSTANTS i1

Plain    == [id |-> i1, head |-> "short", body |-> "kept"]
NoId     == [id |-> None, head |-> "short", body |-> "isolated"]
LongHead == [id |-> i1, head |-> "long", body |-> "kept"]
BadHead  == [id |-> i1, head |-> "unreadable", body |-> "kept"]
Other    == [id |-> i1, head |-> "short", body |-> "other"]

\* Mails a batch reads or isolates, and those that end it.
Any    == {Plain, NoId, LongHead, BadHead, Other}
=============================================================================
