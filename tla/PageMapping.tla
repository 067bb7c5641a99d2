----------------------------- MODULE PageMapping -----------------------------
(* The Notion pages of the entities of one data source: how the sync and the  *)
(* writer look a page up, how the writer creates or changes it, and the       *)
(* mapping it saves (workflow/notion_writer.py, adapters/notion.py,           *)
(* workflow/sync.py).                                                         *)
(*                                                                            *)
(* One proposal is applied at a time and nobody else writes to Notion: leases,*)
(* receipts and edits in Notion are in ProposalApply.  A page is its title    *)
(* and one other property; an operation sets one of the two.                  *)
EXTENDS Sequences, Naturals

CONSTANTS
  Entity, Title, Value, Page,
  TitlesOf,   \* [Entity -> the titles the workbook may give it]
  KeyTitle,   \* [Entity -> the title its key ends in, or None]
  Order,      \* every operation, titles first (_sort_changes)
  MaxEdits,   \* bound on the saves of the workbook
  MaxFaults,  \* bound on lost requests, lost answers and crashes
  None

Prop == {"title", "value"}
Op   == Entity \X Prop

Content == [title : Title \cup {None}, value : Value \cup {None}]
Nothing == [title |-> None, value |-> None]

Mapping  == [page : Page, match : Title]
Proposal ==
  [scope  : SUBSET Op,                          \* approved: APPLY or EDIT
   old    : [Op -> Title \cup Value \cup {None}],
   book   : [Entity -> Content],
   status : {"APPROVED", "APPLYING", "COMMITTED", "FAILED", "STALE"}]

ASSUME PageAssumption ==
  /\ TitlesOf \in [Entity -> SUBSET Title]
  /\ KeyTitle \in [Entity -> Title \cup {None}]
  /\ Order \in Seq(Op) /\ \A o \in Op : \E n \in DOMAIN Order : Order[n] = o
  /\ \A m, n \in DOMAIN Order : Order[m][2] = "title" /\ Order[n][2] = "value" => m < n
  /\ MaxEdits \in Nat /\ MaxFaults \in Nat
  /\ None \notin Title \cup Value \cup Page
  /\ None \notin Mapping /\ None \notin Proposal

VARIABLES
  book,      \* [Entity -> what the workbook says of it], Nothing without a row
  base,      \* the book of the checkpoint
  page,      \* [Page -> its content], Nothing before it is created
  mapping,   \* [Entity -> page and match value, or None]
  proposal,  \* the latest proposal, or None
  outbox,    \* the operations of the proposal that are done
  pc,
  todo,      \* the operations the apply still has to write
  written,   \* the page of the answer the writer holds, or None
  made,      \* the pages created for the proposal, with their entities
  edits, faults

notion == <<page, made>>
bounds == <<edits, faults>>
vars   == <<book, base, notion, mapping, proposal, outbox, pc, todo, written, bounds>>

TypeOK ==
  /\ book \in [Entity -> Content] /\ base \in [Entity -> Content]
  /\ page \in [Page -> Content]
  /\ mapping \in [Entity -> Mapping \cup {None}]
  /\ proposal \in Proposal \cup {None}
  /\ outbox \subseteq Op /\ made \subseteq Entity \X Page
  /\ pc \in {"idle", "inspect", "write", "map", "record"}
  /\ todo \subseteq Op /\ written \in Page \cup {None}
  /\ edits \in 0 .. MaxEdits /\ faults \in 0 .. MaxFaults

Init ==
  /\ book = [e \in Entity |-> Nothing] /\ base = book
  /\ page = [q \in Page |-> Nothing] /\ made = {}
  /\ mapping = [e \in Entity |-> None]
  /\ proposal = None /\ outbox = {}
  /\ pc = "idle" /\ todo = {} /\ written = None
  /\ edits = 0 /\ faults = 0

\* The workbook is saved between two proposals.
Edit(e) ==
  /\ pc = "idle" /\ edits < MaxEdits /\ edits' = edits + 1
  /\ \E t \in TitlesOf[e], v \in Value : book' = [book EXCEPT ![e] = [title |-> t, value |-> v]]
  /\ UNCHANGED <<base, notion, mapping, proposal, outbox, pc, todo, written, faults>>

-----------------------------------------------------------------------------
(* The sync: current values are read by the mapping, or by the new title.     *)

Find(title) == {q \in Page : title # None /\ page[q].title = title}

Several(pages) == \E q, r \in pages : q # r

Read(e) ==
  IF mapping[e] # None THEN {mapping[e].page} ELSE Find(book[e].title)

Current(e) == IF Read(e) = {} THEN Nothing ELSE page[CHOOSE q \in Read(e) : TRUE]

Changed == {e \in Entity : book[e] # base[e]}

Unequal == {o \in Changed \X Prop : book[o[1]][o[2]] # Current(o[1])[o[2]]}

\* The values of the proposal are read again when what Notion shows already has
\* been left out: without the title an unmapped page is looked up by the key.
Old(o, proposed) ==
  IF mapping[o[1]] # None \/ <<o[1], "title">> \in proposed
  THEN Current(o[1])[o[2]] ELSE None

\* Analyzers leave out what Notion shows already; the histories and the review
\* items keep their title all the same.  The user excludes what he likes.
Sync ==
  /\ pc = "idle" /\ Changed # {}
  /\ ~\E e \in Changed : Several(Read(e))
  /\ \E titles \in SUBSET (Changed \X {"title"}) :
       LET proposed == Unequal \cup titles IN
       \E scope \in SUBSET proposed :
         proposal' = [scope |-> scope, book |-> book, status |-> "APPROVED",
                      old |-> [o \in Op |-> Old(o, proposed)]]
  /\ outbox' = {} /\ made' = {}
  /\ UNCHANGED <<book, base, page, mapping, pc, todo, written, bounds>>

-----------------------------------------------------------------------------
(* The writer: a page is looked up by the match value of its entity.          *)

Goal(o) == proposal.book[o[1]][o[2]]

MatchValue(e) ==
  IF mapping[e] # None THEN mapping[e].match
  ELSE IF <<e, "title">> \in proposal.scope THEN Goal(<<e, "title">>)
  ELSE KeyTitle[e]

\* A mutant: only a mapped page is found.
FoundMapped(e) == IF mapping[e] # None THEN {mapping[e].page} ELSE {}

Found(e) == Find(MatchValue(e))

\* A page that does not exist is created by the operation of its title alone.
Refuses(o) ==
  \/ Several(Found(o[1]))
  \/ Found(o[1]) = {} /\ <<o[1], "title">> \notin proposal.scope

Shown(o) == IF Found(o[1]) = {} THEN None ELSE page[CHOOSE q \in Found(o[1]) : TRUE][o[2]]

IsPending(o)  == Shown(o) = proposal.old[o]
IsApplied(o)  == Found(o[1]) # {} /\ ~IsPending(o) /\ Shown(o) = Goal(o)
IsConflict(o) == ~IsPending(o) /\ ~IsApplied(o)

SetStatus(status) == proposal' = [proposal EXCEPT !.status = status]
Stop == pc' = "idle" /\ todo' = {} /\ written' = None

Applied == {o \in proposal.scope \ outbox : IsApplied(o)}

\* The approval, its repetition after a crash, or that of a recovered revision.
Approve ==
  /\ pc = "idle" /\ proposal # None
  /\ proposal.status \in {"APPROVED", "APPLYING"}
  /\ pc' = "inspect"
  /\ UNCHANGED <<book, base, notion, mapping, proposal, outbox, todo, written, bounds>>

InspectRaises ==
  /\ pc = "inspect" /\ \E o \in proposal.scope \ outbox : Refuses(o)
  /\ Stop
  /\ UNCHANGED <<book, base, notion, mapping, proposal, outbox, bounds>>

InspectConflicts ==
  /\ pc = "inspect" /\ ~\E o \in proposal.scope \ outbox : Refuses(o)
  /\ \E o \in proposal.scope \ outbox : IsConflict(o)
  /\ SetStatus("STALE") /\ Stop
  /\ UNCHANGED <<book, base, notion, mapping, outbox, bounds>>

Begin ==
  /\ pc = "inspect" /\ ~\E o \in proposal.scope \ outbox : Refuses(o) \/ IsConflict(o)
  /\ SetStatus("APPLYING") /\ pc' = "write"
  /\ outbox' = outbox \cup Applied
  /\ todo' = proposal.scope \ (outbox \cup Applied)
  /\ UNCHANGED <<book, base, notion, mapping, written, bounds>>

\* Notion creates a page under a new id, or sets the property of the one found.
Post(o, q) ==
  /\ Found(o[1]) = {} /\ o[2] = "title" /\ MatchValue(o[1]) = Goal(o)
  /\ page[q] = Nothing
  /\ page' = [page EXCEPT ![q].title = Goal(o)]
  /\ made' = made \cup {<<o[1], q>>}

Patch(o, q) ==
  /\ Found(o[1]) = {q}
  /\ page' = [page EXCEPT ![q][o[2]] = Goal(o)]
  /\ UNCHANGED made

\* What preflight and upsert_page accept.
Writable(o) ==
  /\ ~Refuses(o) /\ IsPending(o)
  /\ \/ Found(o[1]) # {}
     \/ o[2] = "title" /\ MatchValue(o[1]) = Goal(o)

\* The operations are written in the order of the proposal.
Place(o)   == CHOOSE n \in DOMAIN Order : Order[n] = o
First(o)   == o \in todo /\ \A w \in todo : Place(o) <= Place(w)
Writing(o) == pc = "write" /\ First(o)

Write(o) ==
  /\ Writing(o) /\ Writable(o)
  /\ \E q \in Page : (Post(o, q) \/ Patch(o, q)) /\ written' = q
  /\ pc' = "map"
  /\ UNCHANGED <<book, base, mapping, proposal, outbox, todo, bounds>>

\* A mutant: the operations after a failed one are tried, and the apply commits.
GoesOn ==
  /\ pc' = "write" /\ todo' = {o \in todo : ~First(o)} /\ written' = None
  /\ UNCHANGED proposal

Failed == SetStatus("FAILED") /\ Stop

WriteRefused(o) ==
  /\ Writing(o) /\ ~Writable(o)
  /\ Failed
  /\ UNCHANGED <<book, base, notion, mapping, outbox, bounds>>

\* The request does not reach Notion, or its answer does not come back.
WriteLost(o) ==
  /\ Writing(o) /\ Writable(o)
  /\ faults < MaxFaults /\ faults' = faults + 1
  /\ \/ UNCHANGED notion
     \/ \E q \in Page : Post(o, q) \/ Patch(o, q)
  /\ Failed
  /\ UNCHANGED <<book, base, mapping, outbox, edits>>

\* A mutant: the match value is that of the key.
MatchOfKey(o) == KeyTitle[o[1]]

StoredMatch(o) == IF o[2] = "title" THEN Goal(o) ELSE MatchValue(o[1])

SaveMapping(o) ==
  /\ pc = "map" /\ First(o) /\ pc' = "record"
  /\ mapping' = [mapping EXCEPT ![o[1]] = [page |-> written, match |-> StoredMatch(o)]]
  /\ UNCHANGED <<book, base, notion, proposal, outbox, todo, written, bounds>>

Record(o) ==
  /\ pc = "record" /\ First(o) /\ pc' = "write"
  /\ outbox' = outbox \cup {o} /\ todo' = todo \ {o} /\ written' = None
  /\ UNCHANGED <<book, base, notion, mapping, proposal, bounds>>

Commit ==
  /\ pc = "write" /\ todo = {}
  /\ SetStatus("COMMITTED") /\ Stop
  /\ base' = proposal.book
  /\ UNCHANGED <<book, notion, mapping, outbox, bounds>>

Crash ==
  /\ pc # "idle" /\ Stop
  /\ faults < MaxFaults /\ faults' = faults + 1
  /\ UNCHANGED <<book, base, notion, mapping, proposal, outbox, edits>>

\* /nx_recover: what is not done is inspected once more, and what Notion shows
\* already is done.  The revision, approved again, is without what is done: a page
\* that was created without an answer has no mapping, and its entity no title.
Recover ==
  /\ pc = "idle" /\ proposal # None /\ proposal.status = "FAILED" /\ proposal.book = book
  /\ ~\E o \in proposal.scope \ outbox : Refuses(o) \/ IsConflict(o)
  /\ outbox' = outbox \cup Applied
  /\ proposal' = [proposal EXCEPT !.status = "APPROVED", !.scope = @ \ (outbox \cup Applied)]
  /\ UNCHANGED <<book, base, notion, mapping, pc, todo, written, bounds>>

Next ==
  \/ \E e \in Entity : Edit(e)
  \/ Sync \/ Approve \/ InspectRaises \/ InspectConflicts \/ Begin
  \/ \E o \in Op : Write(o) \/ WriteRefused(o) \/ WriteLost(o) \/ SaveMapping(o) \/ Record(o)
  \/ Commit \/ Crash \/ Recover

Spec == Init /\ [][Next]_vars

-----------------------------------------------------------------------------

\* However often an apply crashes, loses an answer, is resumed or recovered, a
\* proposal creates at most one page for an entity: the page whose mapping was
\* not saved is found by its title (_match_value, upsert_page).
OnePageForProposal ==
  \A m, n \in made : m[1] = n[1] => m = n

\* No other entity gets a title that this one has or is looked up by.
OwnTitles(e) ==
  \A f \in Entity \ {e} :
    /\ TitlesOf[e] \cap TitlesOf[f] = {}
    /\ KeyTitle[e] \notin TitlesOf[f] /\ KeyTitle[f] \notin TitlesOf[e]

\* When a proposal commits, the page each of its operations is looked up by
\* shows what was approved, those included that a crash or a lost answer had left
\* in doubt and a later inspection took as done: for every entity with titles of
\* its own, whatever the others share (inspect, apply, save_entity_mapping).
CommitShowsApproved ==
  [][proposal # None /\ proposal' # None /\ proposal'.status = "COMMITTED"
       => \A o \in proposal.scope : OwnTitles(o[1]) => Shown(o) = Goal(o)]_vars

\* An entity has a page of its own: data-contract.md has stable entity keys make
\* the upsert idempotent.  What keeps the pages apart is OwnTitles alone.
PageOfOneEntity ==
  \A e, f \in Entity :
    e # f /\ mapping[e] # None /\ mapping[f] # None => mapping[e].page # mapping[f].page
=============================================================================
