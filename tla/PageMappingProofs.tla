------------------------- MODULE PageMappingProofs -------------------------
(* A proposal creates at most one page for an entity, for any number of       *)
(* entities, operations, faults and resumed or recovered applies; and what    *)
(* it commits is shown on the page of every entity that has titles of its     *)
(* own (OwnTitles), whatever the other entities share.                        *)
EXTENDS PageMapping, TLAPS

-----------------------------------------------------------------------------
(* The inductive invariant.                                                   *)

\* An entity without a title is one the workbook never had; nothing is proposed
\* for it.
Titles ==
  /\ \A e \in Entity : book[e].title = None => book[e] = base[e]
  /\ proposal # None =>
       /\ \A e \in Entity : book[e].title = None => book[e] = proposal.book[e]
       /\ \A o \in proposal.scope : proposal.book[o[1]].title \in Title

\* What an apply has before it, and the match value it is about to save.
Applying ==
  /\ pc # "idle" => proposal # None
  /\ pc \in {"idle", "inspect"} => todo = {}
  /\ pc \in {"write", "map", "record"} => todo = proposal.scope \ outbox
  /\ pc = "map" => written \in Page /\ \A o \in todo : First(o) => StoredMatch(o) \in Title

\* The title of an entity whose page was made, as long as the outbox does not
\* say so: its page is found by the match value of the entity and shows what was
\* approved, and the apply that made it has not gone on to another operation.
InDoubt(e) == <<e, "title">> \in proposal.scope \ outbox

PagesMade ==
  \A m \in made :
    /\ proposal # None
    /\ InDoubt(m[1]) =>
         /\ page[m[2]].title = Goal(<<m[1], "title">>)
         /\ proposal.old[<<m[1], "title">>] = None
         /\ mapping[m[1]] = None \/ mapping[m[1]].match = Goal(<<m[1], "title">>)
         /\ pc # "write" /\ (pc \in {"map", "record"} => First(<<m[1], "title">>))

IInv == TypeOK /\ Titles /\ Applying /\ PagesMade /\ OnePageForProposal

-----------------------------------------------------------------------------
(* What the operators give.                                                   *)

\* The operations have one order: only one of them is the next.
LEMMA FirstIsOne ==
  ASSUME todo \subseteq Op, NEW o, First(o), NEW w, First(w)
  PROVE  o = w
<1>1. /\ \A x \in Op : \E n \in DOMAIN Order : Order[n] = x
      /\ DOMAIN Order \subseteq Nat
  BY PageAssumption
<1>2. ASSUME NEW x \in Op PROVE Place(x) \in DOMAIN Order /\ Order[Place(x)] = x
  BY <1>1 DEF Place
<1>3. o \in Op /\ w \in Op /\ Place(o) <= Place(w) /\ Place(w) <= Place(o)
  BY DEF First
<1>4. Place(o) \in Nat /\ Place(w) \in Nat
  BY <1>1, <1>2, <1>3
<1>5. Place(o) = Place(w)
  BY <1>3, <1>4
<1> QED BY <1>2, <1>3, <1>5

\* An operation sets the title or the value of its entity.
LEMMA OpParts ==
  ASSUME NEW o \in Op
  PROVE  /\ o[1] \in Entity /\ o = <<o[1], o[2]>> /\ (o[2] = "title" \/ o[2] = "value")
         /\ o[2] = "title" => o = <<o[1], "title">>
BY DEF Op, Prop

\* The operation that sets the title of an entity.
LEMMA TitleOp ==
  ASSUME NEW e \in Entity
  PROVE  <<e, "title">> \in Op /\ <<e, "title">>[1] = e /\ <<e, "title">>[2] = "title"
BY DEF Op, Prop

\* A changed title, and a changed value, make a content.
LEMMA ContentTitle ==
  ASSUME NEW c \in Content, NEW t \in Title \cup {None}
  PROVE  [c EXCEPT !.title = t] \in Content /\ [c EXCEPT !.title = t].title = t
BY DEF Content

\* The same of a changed value.
LEMMA ContentValue ==
  ASSUME NEW c \in Content, NEW v \in Value \cup {None}
  PROVE  /\ [c EXCEPT !.value = v] \in Content
         /\ [c EXCEPT !.value = v].title = c.title
BY DEF Content

\* What does not exist has no title.
LEMMA NothingTyped == Nothing \in Content /\ Nothing.title = None
BY DEF Nothing, Content

\* What is approved for an operation.
LEMMA GoalTyped ==
  ASSUME proposal \in Proposal, NEW o \in Op
  PROVE  /\ o[2] = "title" => Goal(o) = proposal.book[o[1]].title /\ Goal(o) \in Title \cup {None}
         /\ o[2] = "value" => Goal(o) = proposal.book[o[1]].value /\ Goal(o) \in Value \cup {None}
<1>1. proposal.book[o[1]] \in Content
  BY OpParts DEF Proposal
<1> QED BY <1>1 DEF Goal, Content

\* A proposal of another status is the same proposal.
SamePlan ==
  /\ proposal \in Proposal /\ proposal' \in Proposal
  /\ proposal'.scope = proposal.scope /\ proposal'.old = proposal.old
  /\ proposal'.book = proposal.book

\* Setting the status keeps the plan.
LEMMA StatusSet ==
  ASSUME proposal \in Proposal, NEW s, SetStatus(s),
         s \in {"APPROVED", "APPLYING", "COMMITTED", "FAILED", "STALE"}
  PROVE  SamePlan
BY DEF SetStatus, SamePlan, Proposal

\* A proposal that exists is a proposal, and an apply is of one.
LEMMA ProposalTyped ==
  ASSUME TypeOK, proposal # None PROVE proposal \in Proposal
BY DEF TypeOK

\* An apply is of a proposal.
LEMMA ApplyHasProposal ==
  ASSUME IInv, pc # "idle" PROVE proposal \in Proposal /\ proposal # None
BY ProposalTyped DEF IInv, Applying

\* What the match value of an entity is.
LEMMA MatchTyped ==
  ASSUME TypeOK, proposal \in Proposal, NEW e \in Entity
  PROVE  MatchValue(e) \in Title \cup {None}
<1>1. mapping[e] # None => mapping[e].match \in Title
  BY DEF TypeOK, Mapping
<1>2. Goal(<<e, "title">>) \in Title \cup {None}
  BY TitleOp, GoalTyped
<1>3. KeyTitle[e] \in Title \cup {None}
  BY PageAssumption
<1> QED BY <1>1, <1>2, <1>3 DEF MatchValue

-----------------------------------------------------------------------------
(* Every action keeps the invariant.                                          *)

LEMMA Initial == ASSUME Init PROVE IInv
<1>1. /\ book = [e \in Entity |-> Nothing] /\ base = book
      /\ page = [q \in Page |-> Nothing] /\ made = {}
      /\ mapping = [e \in Entity |-> None]
      /\ proposal = None /\ outbox = {} /\ pc = "idle" /\ todo = {} /\ written = None
      /\ edits = 0 /\ faults = 0
  BY DEF Init
<1>2. book \in [Entity -> Content] /\ page \in [Page -> Content]
  BY <1>1, NothingTyped
<1>3. mapping \in [Entity -> Mapping \cup {None}]
  BY <1>1
<1>4. 0 \in 0 .. MaxEdits /\ 0 \in 0 .. MaxFaults
  BY PageAssumption
<1>5. TypeOK
  BY <1>1, <1>2, <1>3, <1>4 DEF TypeOK
<1>6. Titles /\ Applying /\ PagesMade /\ OnePageForProposal
  BY <1>1 DEF Titles, Applying, PagesMade, OnePageForProposal
<1> QED BY <1>5, <1>6 DEF IInv

\* The invariant with its typing spelled out for the steps that only move on.
LEMMA Typed ==
  ASSUME TypeOK, UNCHANGED <<book, page, mapping, made>>,
         base' \in [Entity -> Content], proposal' \in Proposal, outbox' \subseteq Op,
         pc' \in {"idle", "inspect", "write", "map", "record"},
         todo' \subseteq Op, written' \in Page \cup {None},
         edits' \in 0 .. MaxEdits, faults' \in 0 .. MaxFaults
  PROVE  TypeOK'
BY DEF TypeOK

\* The titles stay those of the workbook while the plan is the same.
LEMMA TitlesKeep ==
  ASSUME IInv, SamePlan, book' = book, base' = base \/ base' = proposal.book
  PROVE  Titles'
<1>1. proposal # None /\ proposal' # None
  BY PageAssumption DEF SamePlan
<1>2. Titles
  BY DEF IInv
<1> QED BY <1>1, <1>2 DEF Titles, SamePlan

\* An apply that stops, for whatever reason, before it writes or after.
LEMMA Stops ==
  ASSUME IInv, pc # "idle", Stop, SamePlan, base' = base \/ base' = proposal.book,
         UNCHANGED <<book, page, made, mapping, outbox>>,
         edits' \in 0 .. MaxEdits, faults' \in 0 .. MaxFaults
  PROVE  IInv'
<1>1. pc' = "idle" /\ todo' = {} /\ written' = None
  BY DEF Stop
<1>2. proposal # None /\ proposal' # None /\ proposal' \in Proposal /\ TypeOK
  BY PageAssumption DEF SamePlan, IInv
<1>3. base' \in [Entity -> Content]
  BY DEF SamePlan, Proposal, IInv, TypeOK
<1>4. outbox' \subseteq Op
  BY <1>2 DEF TypeOK
<1>5. TypeOK'
  BY <1>1, <1>2, <1>3, <1>4, Typed
<1>6. Titles'
  BY TitlesKeep
<1>7. Applying'
  BY <1>1, <1>2 DEF Applying
<1>8. PagesMade'
  BY <1>1, <1>2 DEF IInv, PagesMade, InDoubt, Goal, SamePlan
<1>9. OnePageForProposal'
  BY DEF IInv, OnePageForProposal
<1> QED BY <1>5, <1>6, <1>7, <1>8, <1>9 DEF IInv

\* A saved workbook gives its entity a title.
LEMMA EditKeeps == ASSUME IInv, NEW e \in Entity, Edit(e) PROVE IInv'
<1>1. PICK t \in TitlesOf[e], v \in Value :
        book' = [book EXCEPT ![e] = [title |-> t, value |-> v]]
  BY DEF Edit
<1>2. /\ pc = "idle" /\ edits < MaxEdits /\ edits' = edits + 1
      /\ UNCHANGED <<base, page, made, mapping, proposal, outbox, pc, todo, written, faults>>
  BY DEF Edit, notion
<1>3. t \in Title /\ t # None
  BY PageAssumption
<1>4. [title |-> t, value |-> v] \in Content
  BY <1>3 DEF Content
<1>5. edits' \in 0 .. MaxEdits
  BY <1>2, PageAssumption DEF IInv, TypeOK
<1>6. TypeOK'
  BY <1>1, <1>2, <1>4, <1>5 DEF IInv, TypeOK
<1>7. \A f \in Entity : book'[f].title = None => f # e /\ book'[f] = book[f]
  BY <1>1, <1>3 DEF IInv, TypeOK
<1>8. Titles'
  BY <1>2, <1>7 DEF IInv, Titles
<1>9. Applying'
  BY <1>2 DEF IInv, Applying
<1>10. PagesMade' /\ OnePageForProposal'
  BY <1>2 DEF IInv, PagesMade, OnePageForProposal, InDoubt, Goal, First, Place
<1> QED BY <1>6, <1>8, <1>9, <1>10 DEF IInv

\* A new proposal has made nothing.
LEMMA SyncKeeps == ASSUME IInv, Sync PROVE IInv' /\ proposal' \in Proposal
<1>1. PICK titles \in SUBSET (Changed \X {"title"}) :
        \E scope \in SUBSET (Unequal \cup titles) :
          proposal' = [scope |-> scope, book |-> book, status |-> "APPROVED",
                       old |-> [o \in Op |-> Old(o, Unequal \cup titles)]]
  BY DEF Sync
<1>2. PICK scope \in SUBSET (Unequal \cup titles) :
        proposal' = [scope |-> scope, book |-> book, status |-> "APPROVED",
                     old |-> [o \in Op |-> Old(o, Unequal \cup titles)]]
  BY <1>1
<1>3. /\ pc = "idle" /\ outbox' = {} /\ made' = {}
      /\ UNCHANGED <<book, base, page, mapping, pc, todo, written, edits, faults>>
  BY DEF Sync, bounds
<1>4. \A o \in scope : o \in Op /\ o[1] \in Changed
  BY DEF Unequal, Changed, Op, Prop
<1>5. ASSUME NEW o \in Op PROVE Old(o, Unequal \cup titles) \in Title \cup Value \cup {None}
  <2>1. Current(o[1]) \in Content
    <3>1. Read(o[1]) \subseteq Page
      BY OpParts DEF Read, Find, IInv, TypeOK, Mapping
    <3>2. CASE Read(o[1]) = {}
      BY <3>2, NothingTyped DEF Current
    <3>3. CASE Read(o[1]) # {}
      <4>1. (CHOOSE q \in Read(o[1]) : TRUE) \in Page
        BY <3>1, <3>3
      <4> QED BY <3>3, <4>1 DEF Current, IInv, TypeOK
    <3> QED BY <3>2, <3>3
  <2>2. Current(o[1])[o[2]] \in Title \cup Value \cup {None}
    BY <2>1, OpParts DEF Content
  <2> QED BY <2>2 DEF Old
<1>6. proposal' \in Proposal
  <2>1. scope \in SUBSET Op
    BY <1>4
  <2>2. [o \in Op |-> Old(o, Unequal \cup titles)] \in [Op -> Title \cup Value \cup {None}]
    BY <1>5
  <2>3. book \in [Entity -> Content]
    BY DEF IInv, TypeOK
  <2> QED BY <1>2, <2>1, <2>2, <2>3 DEF Proposal
<1>7. TypeOK'
  BY <1>3, <1>6 DEF IInv, TypeOK
<1>8. Titles'
  <2>1. \A e \in Entity : book'[e].title = None => book'[e] = base'[e]
    BY <1>3 DEF IInv, Titles
  <2>2. proposal'.book = book /\ proposal'.scope = scope
    BY <1>2
  <2>3. ASSUME NEW o \in scope PROVE book[o[1]].title \in Title
    <3>1. o[1] \in Entity /\ book[o[1]] # base[o[1]]
      BY <1>4 DEF Changed
    <3>2. book[o[1]] \in Content
      BY <3>1 DEF IInv, TypeOK
    <3> QED BY <3>1, <3>2 DEF IInv, Titles, Content
  <2> QED BY <1>3, <2>1, <2>2, <2>3 DEF Titles
<1>9. Applying'
  BY <1>3 DEF IInv, Applying
<1>10. PagesMade' /\ OnePageForProposal'
  BY <1>3 DEF PagesMade, OnePageForProposal
<1> QED BY <1>6, <1>7, <1>8, <1>9, <1>10 DEF IInv

\* An approval starts the inspection and nothing else.
LEMMA ApproveKeeps == ASSUME IInv, Approve PROVE IInv'
<1>1. /\ pc = "idle" /\ proposal # None /\ pc' = "inspect"
      /\ UNCHANGED <<book, base, page, made, mapping, proposal, outbox, todo, written>>
      /\ UNCHANGED <<edits, faults>>
  BY DEF Approve, notion, bounds
<1>2. TypeOK'
  BY <1>1 DEF IInv, TypeOK
<1>3. Titles'
  BY <1>1 DEF IInv, Titles
<1>4. Applying'
  BY <1>1 DEF IInv, Applying
<1>5. PagesMade'
  BY <1>1 DEF IInv, PagesMade, InDoubt, Goal
<1>6. OnePageForProposal'
  BY <1>1 DEF IInv, OnePageForProposal
<1> QED BY <1>2, <1>3, <1>4, <1>5, <1>6 DEF IInv

\* The inspection that raises stops the apply.
LEMMA InspectRaisesKeeps == ASSUME IInv, InspectRaises PROVE IInv'
<1>1. /\ pc # "idle" /\ Stop
      /\ UNCHANGED <<book, base, page, made, mapping, proposal, outbox, edits, faults>>
  BY DEF InspectRaises, notion, bounds
<1>2. SamePlan
  BY <1>1, ApplyHasProposal DEF SamePlan
<1>3. edits' \in 0 .. MaxEdits /\ faults' \in 0 .. MaxFaults
  BY <1>1 DEF IInv, TypeOK
<1> QED BY <1>1, <1>2, <1>3, Stops

\* A conflict stops it and makes the proposal stale.
LEMMA InspectConflictsKeeps == ASSUME IInv, InspectConflicts PROVE IInv'
<1>1. /\ pc # "idle" /\ Stop /\ SetStatus("STALE")
      /\ UNCHANGED <<book, base, page, made, mapping, outbox, edits, faults>>
  BY DEF InspectConflicts, notion, bounds
<1>2. SamePlan
  BY <1>1, ApplyHasProposal, StatusSet
<1>3. edits' \in 0 .. MaxEdits /\ faults' \in 0 .. MaxFaults
  BY <1>1 DEF IInv, TypeOK
<1> QED BY <1>1, <1>2, <1>3, Stops

\* A refused write stops it as failed.
LEMMA WriteRefusedKeeps == ASSUME IInv, NEW o \in Op, WriteRefused(o) PROVE IInv'
<1>1. /\ pc # "idle" /\ Stop /\ SetStatus("FAILED")
      /\ UNCHANGED <<book, base, page, made, mapping, outbox, edits, faults>>
  BY DEF WriteRefused, Writing, Failed, notion, bounds
<1>2. SamePlan
  BY <1>1, ApplyHasProposal, StatusSet
<1>3. edits' \in 0 .. MaxEdits /\ faults' \in 0 .. MaxFaults
  BY <1>1 DEF IInv, TypeOK
<1> QED BY <1>1, <1>2, <1>3, Stops

\* A crash stops it and keeps what is stored.
LEMMA CrashKeeps == ASSUME IInv, Crash PROVE IInv'
<1>1. /\ pc # "idle" /\ Stop /\ faults < MaxFaults /\ faults' = faults + 1
      /\ UNCHANGED <<book, base, page, made, mapping, proposal, outbox, edits>>
  BY DEF Crash, notion
<1>2. SamePlan
  BY <1>1, ApplyHasProposal DEF SamePlan
<1>3. edits' \in 0 .. MaxEdits /\ faults' \in 0 .. MaxFaults
  BY <1>1, PageAssumption DEF IInv, TypeOK
<1> QED BY <1>1, <1>2, <1>3, Stops

\* The commit makes the book of the proposal the base.
LEMMA CommitKeeps == ASSUME IInv, Commit PROVE IInv'
<1>1. /\ pc # "idle" /\ Stop /\ SetStatus("COMMITTED") /\ base' = proposal.book
      /\ UNCHANGED <<book, page, made, mapping, outbox, edits, faults>>
  BY DEF Commit, notion, bounds
<1>2. SamePlan
  BY <1>1, ApplyHasProposal, StatusSet
<1>3. edits' \in 0 .. MaxEdits /\ faults' \in 0 .. MaxFaults
  BY <1>1 DEF IInv, TypeOK
<1> QED BY <1>1, <1>2, <1>3, Stops

\* A recovered revision is without the operations that are done, and without
\* those that the recovery found done.
LEMMA RecoverKeeps == ASSUME IInv, Recover PROVE IInv'
<1>1. /\ pc = "idle" /\ proposal # None /\ outbox' = outbox \cup Applied
      /\ proposal' = [proposal EXCEPT !.status = "APPROVED", !.scope = @ \ (outbox \cup Applied)]
      /\ UNCHANGED <<book, base, page, made, mapping, pc, todo, written>>
      /\ UNCHANGED <<edits, faults>>
  BY DEF Recover, notion, bounds
<1>2. proposal \in Proposal
  BY <1>1, ProposalTyped DEF IInv
<1>3. /\ proposal' \in Proposal /\ proposal'.scope = proposal.scope \ (outbox \cup Applied)
      /\ proposal'.old = proposal.old /\ proposal'.book = proposal.book
  BY <1>1, <1>2 DEF Proposal
<1>4. proposal' # None
  BY <1>3, PageAssumption
<1>5. outbox' \subseteq Op
  BY <1>1, <1>2 DEF IInv, TypeOK, Applied, Proposal
<1>6. TypeOK'
  BY <1>1, <1>3, <1>5 DEF IInv, TypeOK
<1>7. Titles'
  BY <1>1, <1>3, <1>4 DEF IInv, Titles
<1>8. Applying'
  BY <1>1 DEF IInv, Applying
<1>9. \A e : InDoubt(e)' => InDoubt(e)
  BY <1>1, <1>3 DEF InDoubt
<1>10. PagesMade'
  BY <1>1, <1>3, <1>4, <1>9 DEF IInv, PagesMade, Goal
<1>11. OnePageForProposal'
  BY <1>1 DEF IInv, OnePageForProposal
<1> QED BY <1>6, <1>7, <1>8, <1>10, <1>11 DEF IInv

\* What is in doubt when an apply begins is found, shows what was approved and
\* goes to the outbox without being written again.
LEMMA DoubtIsApplied ==
  ASSUME IInv, NEW m \in made, InDoubt(m[1]), ~Refuses(<<m[1], "title">>)
  PROVE  <<m[1], "title">> \in Applied
<1> DEFINE e == m[1]
           o == <<m[1], "title">>
<1>1. /\ e \in Entity /\ m[2] \in Page /\ o \in Op /\ o[1] = e /\ o[2] = "title"
  BY TitleOp DEF IInv, TypeOK
<1>2. /\ proposal # None /\ page[m[2]].title = Goal(o) /\ proposal.old[o] = None
      /\ mapping[e] = None \/ mapping[e].match = Goal(o)
  BY DEF IInv, PagesMade
<1>3. o \in proposal.scope \ outbox /\ proposal \in Proposal
  BY <1>2, ProposalTyped DEF IInv, InDoubt
<1>4. Goal(o) \in Title
  BY <1>1, <1>2, <1>3, GoalTyped DEF IInv, Titles
<1>5. MatchValue(e) = Goal(o)
  BY <1>2, <1>3 DEF MatchValue
<1>6. m[2] \in Found(e)
  BY <1>1, <1>2, <1>4, <1>5, PageAssumption DEF Found, Find
<1>7. \A q, r \in Found(e) : q = r
  BY <1>1 DEF Refuses, Several
<1>8. (CHOOSE q \in Found(e) : TRUE) = m[2]
  BY <1>6, <1>7
<1>9. Shown(o) = page[m[2]][o[2]]
  BY <1>1, <1>6, <1>8 DEF Shown
<1>10. Shown(o) = Goal(o)
  BY <1>1, <1>2, <1>9
<1>11. Goal(o) # None
  BY <1>4, PageAssumption
<1>12. IsApplied(o)
  BY <1>1, <1>2, <1>6, <1>10, <1>11 DEF IsApplied, IsPending
<1> QED BY <1>3, <1>12 DEF Applied

\* An apply begins with nothing in doubt.
LEMMA BeginKeeps == ASSUME IInv, Begin PROVE IInv'
<1>1. /\ pc = "inspect" /\ SetStatus("APPLYING") /\ pc' = "write"
      /\ outbox' = outbox \cup Applied /\ todo' = proposal.scope \ (outbox \cup Applied)
      /\ UNCHANGED <<book, base, page, made, mapping, written, edits, faults>>
  BY DEF Begin, notion, bounds
<1>2. SamePlan /\ proposal \in Proposal /\ proposal # None /\ proposal' # None
  BY <1>1, ApplyHasProposal, StatusSet, PageAssumption DEF SamePlan
<1>3. Applied \subseteq Op /\ proposal.scope \subseteq Op
  BY <1>2 DEF Applied, Proposal
<1>4. TypeOK'
  BY <1>1, <1>2, <1>3 DEF IInv, TypeOK, SamePlan
<1>5. Titles'
  BY <1>1, <1>2, TitlesKeep
<1>6. Applying'
  BY <1>1, <1>2 DEF Applying, SamePlan
<1>7. ASSUME NEW m \in made PROVE ~InDoubt(m[1])'
  <2>1. CASE ~InDoubt(m[1])
    BY <1>1, <1>2, <2>1 DEF InDoubt, SamePlan
  <2>2. CASE InDoubt(m[1])
    <3>1. ~Refuses(<<m[1], "title">>)
      BY <2>2 DEF Begin, InDoubt
    <3>2. <<m[1], "title">> \in Applied
      BY <2>2, <3>1, DoubtIsApplied
    <3> QED BY <1>1, <3>2 DEF InDoubt
  <2> QED BY <2>1, <2>2
<1>8. PagesMade'
  BY <1>1, <1>2, <1>7 DEF PagesMade
<1>9. OnePageForProposal'
  BY <1>1 DEF IInv, OnePageForProposal
<1> QED BY <1>4, <1>5, <1>6, <1>8, <1>9 DEF IInv

\* A page that is set stays a content.
LEMMA Patched ==
  ASSUME TypeOK, proposal \in Proposal, NEW o \in Op, NEW q \in Page
  PROVE  [page EXCEPT ![q][o[2]] = Goal(o)] \in [Page -> Content]
<1>1. page \in [Page -> Content] /\ page[q] \in Content
  BY DEF TypeOK
<1>2. CASE o[2] = "title"
  <2>1. [page[q] EXCEPT !.title = Goal(o)] \in Content
    BY <1>1, <1>2, GoalTyped, ContentTitle
  <2> QED BY <1>1, <1>2, <2>1
<1>3. CASE o[2] = "value"
  <2>1. [page[q] EXCEPT !.value = Goal(o)] \in Content
    BY <1>1, <1>3, GoalTyped, ContentValue
  <2> QED BY <1>1, <1>3, <2>1
<1> QED BY <1>2, <1>3, OpParts

\* A request of an apply creates a page only for an entity none was made for;
\* no page is in doubt before it, and after it only the new one may be.
LEMMA Requested ==
  ASSUME IInv, NEW o \in Op, NEW q \in Page, Writing(o), Writable(o), Post(o, q) \/ Patch(o, q)
  PROVE  /\ page' \in [Page -> Content] /\ made' \subseteq Entity \X Page
         /\ \A m \in made : ~InDoubt(m[1])
         /\ \A m \in made' : m \in made \/
              /\ m = <<o[1], q>> /\ o = <<o[1], "title">> /\ page'[q].title = Goal(o)
              /\ proposal.old[o] = None
              /\ mapping[o[1]] = None \/ mapping[o[1]].match = Goal(o)
         /\ OnePageForProposal' /\ StoredMatch(o) \in Title
<1>1. /\ pc = "write" /\ First(o) /\ o \in proposal.scope \ outbox
      /\ proposal \in Proposal /\ proposal # None /\ TypeOK
  BY ApplyHasProposal DEF Writing, First, IInv, Applying
<1>2. o[1] \in Entity
  BY OpParts
<1>3. \A m \in made : ~InDoubt(m[1])
  BY <1>1 DEF IInv, PagesMade
<1>4. CASE Post(o, q)
  <2>1. /\ Found(o[1]) = {} /\ o[2] = "title" /\ MatchValue(o[1]) = Goal(o)
        /\ page' = [page EXCEPT ![q].title = Goal(o)] /\ made' = made \cup {<<o[1], q>>}
    BY <1>4 DEF Post
  <2>2. o = <<o[1], "title">> /\ Goal(o) \in Title
    BY <1>1, <2>1, OpParts, GoalTyped DEF IInv, Titles
  <2>3. page \in [Page -> Content] /\ page[q] \in Content
    BY <1>1 DEF TypeOK
  <2>4. /\ [page[q] EXCEPT !.title = Goal(o)] \in Content
        /\ [page[q] EXCEPT !.title = Goal(o)].title = Goal(o)
    BY <2>2, <2>3, ContentTitle
  <2>5. page' \in [Page -> Content] /\ page'[q].title = Goal(o)
    BY <2>1, <2>3, <2>4
  <2>6. made' \subseteq Entity \X Page
    BY <1>1, <1>2, <2>1 DEF TypeOK
  <2>7. proposal.old[o] = None
    BY <2>1 DEF Writable, IsPending, Shown
  <2>8. mapping[o[1]] = None \/ mapping[o[1]].match = Goal(o)
    BY <2>1 DEF MatchValue
  <2>9. InDoubt(o[1])
    BY <1>1, <2>2 DEF InDoubt
  <2>10. OnePageForProposal'
    <3>1. ASSUME NEW m \in made', NEW n \in made', m[1] = n[1] PROVE m = n
      <4>1. CASE m \in made /\ n \in made
        BY <3>1, <4>1 DEF IInv, OnePageForProposal
      <4>2. CASE m = <<o[1], q>> /\ n = <<o[1], q>>
        BY <4>2
      <4>3. CASE m = <<o[1], q>> /\ n \in made
        BY <1>3, <2>9, <3>1, <4>3
      <4>4. CASE m \in made /\ n = <<o[1], q>>
        BY <1>3, <2>9, <3>1, <4>4
      <4> QED BY <2>1, <4>1, <4>2, <4>3, <4>4
    <3> QED BY <3>1 DEF OnePageForProposal
  <2>11. StoredMatch(o) \in Title
    BY <2>1, <2>2 DEF StoredMatch
  <2> QED BY <1>3, <2>1, <2>2, <2>5, <2>6, <2>7, <2>8, <2>10, <2>11
<1>5. CASE Patch(o, q)
  <2>1. /\ Found(o[1]) = {q} /\ page' = [page EXCEPT ![q][o[2]] = Goal(o)] /\ made' = made
    BY <1>5 DEF Patch
  <2>2. page' \in [Page -> Content]
    BY <1>1, <2>1, Patched
  <2>3. made' \subseteq Entity \X Page
    BY <1>1, <2>1 DEF TypeOK
  <2>4. StoredMatch(o) \in Title
    <3>1. MatchValue(o[1]) \in Title
      <4>1. q \in Find(MatchValue(o[1]))
        BY <2>1 DEF Found
      <4>2. MatchValue(o[1]) # None
        BY <4>1 DEF Find
      <4> QED BY <1>1, <1>2, <4>2, MatchTyped
    <3>2. o[2] = "title" => Goal(o) \in Title
      BY <1>1, GoalTyped DEF IInv, Titles
    <3> QED BY <3>1, <3>2 DEF StoredMatch
  <2>5. OnePageForProposal'
    BY <2>1 DEF IInv, OnePageForProposal
  <2> QED BY <1>3, <2>1, <2>2, <2>3, <2>4, <2>5
<1> QED BY <1>4, <1>5

\* A write that is answered: only its page may be in doubt.
LEMMA WriteKeeps == ASSUME IInv, NEW o \in Op, Write(o) PROVE IInv'
<1>1. PICK q \in Page : (Post(o, q) \/ Patch(o, q)) /\ written' = q
  BY DEF Write
<1>2. /\ Writing(o) /\ Writable(o) /\ pc = "write" /\ First(o) /\ pc' = "map"
      /\ UNCHANGED <<book, base, mapping, proposal, outbox, todo, edits, faults>>
  BY DEF Write, Writing, bounds
<1>3. /\ page' \in [Page -> Content] /\ made' \subseteq Entity \X Page
      /\ \A m \in made : ~InDoubt(m[1])
      /\ \A m \in made' : m \in made \/
           /\ m = <<o[1], q>> /\ o = <<o[1], "title">> /\ page'[q].title = Goal(o)
           /\ proposal.old[o] = None
           /\ mapping[o[1]] = None \/ mapping[o[1]].match = Goal(o)
      /\ OnePageForProposal' /\ StoredMatch(o) \in Title
  BY <1>1, <1>2, Requested
<1>4. proposal # None /\ todo = proposal.scope \ outbox /\ todo \subseteq Op
  BY <1>2 DEF IInv, Applying, TypeOK
<1>5. \A x : First(x)' <=> First(x)
  BY <1>2 DEF First, Place
<1>6. StoredMatch(o)' = StoredMatch(o)
  BY <1>2 DEF StoredMatch, MatchValue, Goal
<1>7. TypeOK'
  BY <1>1, <1>2, <1>3 DEF IInv, TypeOK
<1>8. Titles'
  BY <1>2 DEF IInv, Titles
<1>9. Applying'
  <2>1. ASSUME NEW x \in todo', First(x)' PROVE StoredMatch(x)' \in Title
    <3>1. x = o
      BY <1>2, <1>4, <1>5, <2>1, FirstIsOne
    <3> QED BY <1>3, <1>6, <3>1
  <2> QED BY <1>1, <1>2, <1>4, <2>1 DEF Applying
<1>10. PagesMade'
  <2>1. ASSUME NEW m \in made', InDoubt(m[1])'
        PROVE  /\ page'[m[2]].title = Goal(<<m[1], "title">>)'
               /\ proposal'.old[<<m[1], "title">>] = None
               /\ mapping'[m[1]] = None \/ mapping'[m[1]].match = Goal(<<m[1], "title">>)'
               /\ pc' # "write" /\ First(<<m[1], "title">>)'
    <3>1. InDoubt(m[1])
      BY <1>2, <2>1 DEF InDoubt
    <3>2. m = <<o[1], q>> /\ m[1] = o[1] /\ m[2] = q /\ <<m[1], "title">> = o
      BY <1>3, <3>1
    <3>3. Goal(o)' = Goal(o)
      BY <1>2 DEF Goal
    <3>4. m \notin made
      BY <1>3, <3>1
    <3> QED BY <1>2, <1>3, <1>5, <3>2, <3>3, <3>4
  <2> QED BY <1>2, <1>4, <2>1 DEF PagesMade
<1> QED BY <1>3, <1>7, <1>8, <1>9, <1>10 DEF IInv

\* A write without an answer, which may have reached Notion.
LEMMA WriteLostKeeps == ASSUME IInv, NEW o \in Op, WriteLost(o) PROVE IInv'
<1>1. /\ Writing(o) /\ Writable(o) /\ pc = "write" /\ faults < MaxFaults /\ faults' = faults + 1
      /\ SetStatus("FAILED") /\ Stop
      /\ UNCHANGED <<book, base, mapping, outbox, edits>>
  BY DEF WriteLost, Writing, Failed
<1>2. SamePlan /\ proposal # None /\ proposal' # None /\ proposal \in Proposal
  BY <1>1, ApplyHasProposal, StatusSet, PageAssumption DEF SamePlan
<1>3. edits' \in 0 .. MaxEdits /\ faults' \in 0 .. MaxFaults
  BY <1>1, PageAssumption DEF IInv, TypeOK
<1>4. CASE UNCHANGED notion
  BY <1>1, <1>2, <1>3, <1>4, Stops DEF notion
<1>5. CASE \E q \in Page : Post(o, q) \/ Patch(o, q)
  <2>1. PICK q \in Page : Post(o, q) \/ Patch(o, q)
    BY <1>5
  <2>2. /\ page' \in [Page -> Content] /\ made' \subseteq Entity \X Page
        /\ \A m \in made : ~InDoubt(m[1])
        /\ \A m \in made' : m \in made \/
             /\ m = <<o[1], q>> /\ o = <<o[1], "title">> /\ page'[q].title = Goal(o)
             /\ proposal.old[o] = None
             /\ mapping[o[1]] = None \/ mapping[o[1]].match = Goal(o)
        /\ OnePageForProposal'
    BY <1>1, <2>1, Requested
  <2>3. pc' = "idle" /\ todo' = {} /\ written' = None
    BY <1>1 DEF Stop
  <2>4. TypeOK'
    BY <1>1, <1>2, <1>3, <2>2, <2>3 DEF IInv, TypeOK, SamePlan
  <2>5. Titles'
    BY <1>1, <1>2, TitlesKeep
  <2>6. Applying'
    BY <1>2, <2>3 DEF Applying
  <2>7. ASSUME NEW m \in made', InDoubt(m[1])'
        PROVE  /\ page'[m[2]].title = Goal(<<m[1], "title">>)'
               /\ proposal'.old[<<m[1], "title">>] = None
               /\ mapping'[m[1]] = None \/ mapping'[m[1]].match = Goal(<<m[1], "title">>)'
    <3>1. InDoubt(m[1])
      BY <1>1, <1>2, <2>7 DEF InDoubt, SamePlan
    <3>2. m \notin made
      BY <2>2, <3>1
    <3>3. m = <<o[1], q>> /\ m[1] = o[1] /\ m[2] = q /\ <<m[1], "title">> = o
      BY <2>2, <3>2
    <3>4. Goal(o)' = Goal(o)
      BY <1>2 DEF Goal, SamePlan
    <3> QED BY <1>1, <1>2, <2>2, <3>2, <3>3, <3>4 DEF SamePlan
  <2>8. PagesMade'
    BY <1>2, <2>3, <2>7 DEF PagesMade
  <2> QED BY <2>2, <2>4, <2>5, <2>6, <2>8 DEF IInv
<1> QED BY <1>4, <1>5 DEF WriteLost

\* The mapping of a page that was just made has the title it was made with.
LEMMA SaveMappingKeeps == ASSUME IInv, NEW o \in Op, SaveMapping(o) PROVE IInv'
<1>1. /\ pc = "map" /\ First(o) /\ pc' = "record"
      /\ mapping' = [mapping EXCEPT ![o[1]] = [page |-> written, match |-> StoredMatch(o)]]
      /\ UNCHANGED <<book, base, page, made, proposal, outbox, todo, written, edits, faults>>
  BY DEF SaveMapping, notion, bounds
<1>2. /\ proposal # None /\ todo = proposal.scope \ outbox /\ todo \subseteq Op
      /\ written \in Page /\ StoredMatch(o) \in Title
  BY <1>1 DEF IInv, Applying, TypeOK, First
<1>3. o[1] \in Entity /\ mapping \in [Entity -> Mapping \cup {None}]
  BY OpParts DEF IInv, TypeOK
<1>4. [page |-> written, match |-> StoredMatch(o)] \in Mapping
  BY <1>2 DEF Mapping
<1>5. mapping' \in [Entity -> Mapping \cup {None}]
  BY <1>1, <1>3, <1>4
<1>6. TypeOK'
  BY <1>1, <1>5 DEF IInv, TypeOK
<1>7. Titles'
  BY <1>1 DEF IInv, Titles
<1>8. Applying'
  BY <1>1, <1>2 DEF Applying
<1>9. \A x : First(x)' <=> First(x)
  BY <1>1 DEF First, Place
<1>10. ASSUME NEW m \in made, InDoubt(m[1])'
       PROVE  /\ page'[m[2]].title = Goal(<<m[1], "title">>)'
              /\ proposal'.old[<<m[1], "title">>] = None
              /\ mapping'[m[1]].match = Goal(<<m[1], "title">>)'
              /\ First(<<m[1], "title">>)'
  <2>1. InDoubt(m[1])
    BY <1>1, <1>10 DEF InDoubt
  <2>2. /\ page[m[2]].title = Goal(<<m[1], "title">>)
        /\ proposal.old[<<m[1], "title">>] = None /\ First(<<m[1], "title">>)
    BY <1>1, <2>1 DEF IInv, PagesMade
  <2>3. o = <<m[1], "title">>
    BY <1>1, <1>2, <2>2, FirstIsOne
  <2>4. o[1] = m[1] /\ o[2] = "title"
    BY <2>3
  <2>5. mapping'[m[1]] = [page |-> written, match |-> StoredMatch(o)]
    BY <1>1, <1>3, <2>4
  <2>6. StoredMatch(o) = Goal(o)
    BY <2>4 DEF StoredMatch
  <2>7. Goal(<<m[1], "title">>)' = Goal(<<m[1], "title">>)
    BY <1>1 DEF Goal
  <2> QED BY <1>1, <1>9, <2>2, <2>3, <2>5, <2>6, <2>7
<1>11. PagesMade'
  BY <1>1, <1>2, <1>10 DEF PagesMade
<1>12. OnePageForProposal'
  BY <1>1 DEF IInv, OnePageForProposal
<1> QED BY <1>6, <1>7, <1>8, <1>11, <1>12 DEF IInv

\* Once the outbox has the operation, its page is in doubt no more.
LEMMA RecordKeeps == ASSUME IInv, NEW o \in Op, Record(o) PROVE IInv'
<1>1. /\ pc = "record" /\ First(o) /\ pc' = "write"
      /\ outbox' = outbox \cup {o} /\ todo' = todo \ {o} /\ written' = None
      /\ UNCHANGED <<book, base, page, made, mapping, proposal, edits, faults>>
  BY DEF Record, notion, bounds
<1>2. proposal # None /\ todo = proposal.scope \ outbox /\ todo \subseteq Op
  BY <1>1 DEF IInv, Applying, TypeOK
<1>3. TypeOK'
  BY <1>1 DEF IInv, TypeOK
<1>4. Titles'
  BY <1>1 DEF IInv, Titles
<1>5. Applying'
  BY <1>1, <1>2 DEF Applying
<1>6. ASSUME NEW m \in made PROVE ~InDoubt(m[1])'
  <2>1. CASE InDoubt(m[1])
    <3>1. First(<<m[1], "title">>)
      BY <1>1, <2>1 DEF IInv, PagesMade
    <3>2. o = <<m[1], "title">>
      BY <1>1, <1>2, <3>1, FirstIsOne
    <3> QED BY <1>1, <3>2 DEF InDoubt
  <2>2. CASE ~InDoubt(m[1])
    BY <1>1, <2>2 DEF InDoubt
  <2> QED BY <2>1, <2>2
<1>7. PagesMade'
  BY <1>1, <1>2, <1>6 DEF PagesMade
<1>8. OnePageForProposal'
  BY <1>1 DEF IInv, OnePageForProposal
<1> QED BY <1>3, <1>4, <1>5, <1>7, <1>8 DEF IInv

\* The invariant is inductive: every step of the specification keeps it.
LEMMA Inductive == ASSUME IInv, [Next]_vars PROVE IInv'
<1>1. CASE Next
  BY <1>1, EditKeeps, SyncKeeps, ApproveKeeps, InspectRaisesKeeps, InspectConflictsKeeps,
     BeginKeeps, WriteKeeps, WriteRefusedKeeps, WriteLostKeeps, SaveMappingKeeps, RecordKeeps,
     CommitKeeps, CrashKeeps, RecoverKeeps DEF Next
<1>2. CASE UNCHANGED vars
  <2>1. UNCHANGED <<book, base, page, made, mapping, proposal, outbox, pc, todo, written>>
    BY <1>2 DEF vars, notion
  <2>2. UNCHANGED <<edits, faults>>
    BY <1>2 DEF vars, bounds
  <2> QED BY <2>1, <2>2 DEF IInv, TypeOK, Titles, Applying, PagesMade, OnePageForProposal,
       InDoubt, Goal, First, Place, StoredMatch, MatchValue
<1> QED BY <1>1, <1>2

\* The invariant holds in every reachable state.
THEOREM Invariance == Spec => []IInv
<1>1. Init => IInv
  BY Initial
<1>2. IInv /\ [Next]_vars => IInv'
  BY Inductive
<1> QED BY <1>1, <1>2, PTL DEF Spec

-----------------------------------------------------------------------------
(* What a page shows of an entity that has titles of its own.                 *)

\* The two operations of an entity, awaited by its proposal or done.
TitleOf(e) == <<e, "title">>
ValueOf(e) == <<e, "value">>
Awaits(o)  == proposal # None /\ o \in proposal.scope \ outbox
Done(o)    == proposal # None /\ o \in proposal.scope \cap outbox

\* Every title comes from the workbook, and that of an entity of its own titles
\* is not saved with the page of another.
OwnedTitles ==
  /\ \A e \in Entity : book[e].title \in TitlesOf[e] \cup {None}
  /\ proposal # None => \A e \in Entity : proposal.book[e].title \in TitlesOf[e] \cup {None}
  /\ \A q \in Page : page[q].title = None \/ \E e \in Entity : page[q].title \in TitlesOf[e]
  /\ \A e, f \in Entity : OwnTitles(e) /\ mapping[f] # None
       => (mapping[f].match \in TitlesOf[e] <=> f = e)

\* A saved mapping is of a page of its entity; a lookup finds it or nothing.
MappedPage(e) ==
  mapping[e] # None =>
    /\ page[mapping[e].page].title \in TitlesOf[e]
    /\ Found(e) = {} \/ mapping[e].page \in Found(e)

\* An entity the sync found no page of had no value, and one that was mapped
\* since has its new title.
OldsAgree(e) ==
  Awaits(TitleOf(e)) /\ proposal.old[TitleOf(e)] = None => proposal.old[ValueOf(e)] = None

NewlyMapped(e) ==
  Awaits(TitleOf(e)) /\ proposal.old[TitleOf(e)] = None /\ mapping[e] # None
    => Found(e) # {} /\ mapping[e].match = Goal(TitleOf(e))

\* The value waits for the title.
ValueUntouched(e) ==
  Awaits(TitleOf(e)) => \A q \in Page : Found(e) = {q} => page[q].value = proposal.old[ValueOf(e)]

\* What is done is shown.
TitleDone(e) == Done(TitleOf(e)) => Found(e) # {} /\ MatchValue(e) = Goal(TitleOf(e))

ValueDone(e) ==
  Done(ValueOf(e)) =>
    /\ ~Awaits(TitleOf(e))
    /\ \E q \in Page : Found(e) = {q} /\ page[q].value = Goal(ValueOf(e))

Faithful(e) ==
  MappedPage(e) /\ OldsAgree(e) /\ NewlyMapped(e) /\ ValueUntouched(e) /\ TitleDone(e) /\ ValueDone(e)

\* What the page of an answer shows, and that of a mapping that was just saved.
Answered(o) ==
  /\ page[written].title = StoredMatch(o)
  /\ o[2] = "value" => Found(o[1]) = {written} /\ page[written].value = Goal(o)
  /\ o[2] = "title" => page[written].value = proposal.old[ValueOf(o[1])]

Saved(o) ==
  /\ o[2] = "value" => Found(o[1]) = {written} /\ page[written].value = Goal(o)
  /\ o[2] = "title" => Found(o[1]) # {} /\ MatchValue(o[1]) = Goal(o)

InFlight ==
  /\ pc = "map" => \A o \in todo : First(o) /\ OwnTitles(o[1]) => Answered(o)
  /\ pc = "record" => \A o \in todo : First(o) /\ OwnTitles(o[1]) => Saved(o)

Committed ==
  proposal # None /\ proposal.status = "COMMITTED" => pc = "idle" /\ proposal.scope \subseteq outbox

ShowInv ==
  OwnedTitles /\ InFlight /\ Committed /\ \A e \in Entity : OwnTitles(e) => Faithful(e)

\* An operation is the title or the value of its entity, never both.
LEMMA OpKinds ==
  ASSUME NEW o \in Op
  PROVE  /\ (o = TitleOf(o[1]) /\ o[2] = "title") \/ (o = ValueOf(o[1]) /\ o[2] = "value")
         /\ o[1] \in Entity
<1>1. o[1] \in Entity /\ o = <<o[1], o[2]>>
  BY OpParts
<1>2. CASE o[2] = "title"
  BY <1>2, OpParts DEF TitleOf
<1>3. CASE o[2] = "value"
  BY <1>1, <1>3 DEF ValueOf
<1> QED BY <1>1, <1>2, <1>3, OpParts

\* The parts of the two operations.
LEMMA Operations ==
  ASSUME NEW e \in Entity
  PROVE  /\ TitleOf(e) \in Op /\ TitleOf(e)[1] = e /\ TitleOf(e)[2] = "title"
         /\ ValueOf(e) \in Op /\ ValueOf(e)[1] = e /\ ValueOf(e)[2] = "value"
         /\ TitleOf(e) = <<e, "title">>
         /\ \A f : TitleOf(e) # ValueOf(f) /\ (f # e => TitleOf(e) # TitleOf(f) /\ ValueOf(e) # ValueOf(f))
BY DEF TitleOf, ValueOf, Op, Prop

\* A title of the workbook is a title.
LEMMA OwnTitle ==
  ASSUME NEW e \in Entity PROVE TitlesOf[e] \subseteq Title /\ None \notin TitlesOf[e]
BY PageAssumption

\* Two entities, one of which has titles of its own.
LEMMA TitlesDiffer ==
  ASSUME NEW e \in Entity, OwnTitles(e), NEW f \in Entity, e # f
  PROVE  /\ TitlesOf[e] \cap TitlesOf[f] = {}
         /\ KeyTitle[e] \notin TitlesOf[f] /\ KeyTitle[f] \notin TitlesOf[e]
BY DEF OwnTitles

\* Such an entity is not looked up by a title of another, nor the other by its.
LEMMA MatchApart ==
  ASSUME OwnedTitles, proposal # None, NEW e \in Entity, OwnTitles(e), NEW f \in Entity, e # f
  PROVE  MatchValue(e) \notin TitlesOf[f] /\ MatchValue(f) \notin TitlesOf[e]
<1>1. /\ TitlesOf[e] \cap TitlesOf[f] = {} /\ None \notin TitlesOf[f] /\ None \notin TitlesOf[e]
      /\ KeyTitle[e] \notin TitlesOf[f] /\ KeyTitle[f] \notin TitlesOf[e]
  BY OwnTitle, TitlesDiffer
<1>2. /\ mapping[e] # None => mapping[e].match \in TitlesOf[e]
      /\ mapping[f] # None => mapping[f].match \notin TitlesOf[e]
  BY DEF OwnedTitles
<1>3. Goal(<<e, "title">>) \in TitlesOf[e] \cup {None} /\ Goal(<<f, "title">>) \in TitlesOf[f] \cup {None}
  BY DEF OwnedTitles, Goal
<1> QED BY <1>1, <1>2, <1>3 DEF MatchValue

\* The page it is found by has a title of the entity, its match value.
LEMMA FoundMine ==
  ASSUME OwnedTitles, proposal # None, NEW e \in Entity, OwnTitles(e), NEW q \in Found(e)
  PROVE  q \in Page /\ page[q].title \in TitlesOf[e] /\ page[q].title = MatchValue(e)
<1>1. q \in Page /\ page[q].title = MatchValue(e) /\ MatchValue(e) # None
  BY DEF Found, Find
<1>2. PICK f \in Entity : page[q].title \in TitlesOf[f]
  BY <1>1 DEF OwnedTitles
<1>3. f = e
  BY <1>1, <1>2, MatchApart
<1> QED BY <1>1, <1>2, <1>3

\* A page of another entity has a title that is neither one of this one nor the
\* one it is looked up by.
LEMMA NotMine ==
  ASSUME OwnedTitles, proposal # None, NEW f \in Entity, OwnTitles(f), NEW e \in Entity, e # f,
         NEW t \in TitlesOf[e]
  PROVE  t \notin TitlesOf[f] /\ t # MatchValue(f) /\ t # None
BY MatchApart, TitlesDiffer, OwnTitle

\* And the page another entity is found by is such a page.
LEMMA FoundOther ==
  ASSUME OwnedTitles, proposal # None, NEW f \in Entity, OwnTitles(f), NEW e \in Entity, e # f,
         NEW q \in Found(e)
  PROVE  q \in Page /\ page[q].title \notin TitlesOf[f] /\ page[q].title # MatchValue(f)
<1>1. q \in Page /\ page[q].title = MatchValue(e) /\ MatchValue(e) # None
  BY DEF Found, Find
<1>2. PICK g \in Entity : page[q].title \in TitlesOf[g]
  BY <1>1 DEF OwnedTitles
<1>3. g # f
  BY <1>1, <1>2, MatchApart
<1> QED BY <1>1, <1>2, <1>3, NotMine

\* The title waits for nothing: the operation before which it stands is not next.
LEMMA TitleFirst ==
  ASSUME IInv, NEW e \in Entity, First(ValueOf(e)),
         pc \in {"write", "map", "record"}
  PROVE  ~Awaits(TitleOf(e))
<1>1. SUFFICES ASSUME Awaits(TitleOf(e)) PROVE FALSE
  OBVIOUS
<1>2. TitleOf(e) \in todo
  BY <1>1 DEF IInv, Applying, Awaits
<1>3. Place(ValueOf(e)) <= Place(TitleOf(e))
  BY <1>2 DEF First
<1>4. /\ \A x \in Op : \E n \in DOMAIN Order : Order[n] = x
      /\ DOMAIN Order \subseteq Nat
      /\ \A m, n \in DOMAIN Order : Order[m][2] = "title" /\ Order[n][2] = "value" => m < n
  BY PageAssumption
<1>5. /\ Place(TitleOf(e)) \in DOMAIN Order /\ Order[Place(TitleOf(e))] = TitleOf(e)
      /\ Place(ValueOf(e)) \in DOMAIN Order /\ Order[Place(ValueOf(e))] = ValueOf(e)
  BY <1>4, Operations DEF Place
<1>6. Place(TitleOf(e)) < Place(ValueOf(e))
  BY <1>4, <1>5, Operations
<1> QED BY <1>3, <1>4, <1>5, <1>6

\* The next operation is awaited.
LEMMA FirstAwaits ==
  ASSUME IInv, NEW o, First(o), pc \in {"write", "map", "record"}
  PROVE  o \in Op /\ Awaits(o) /\ proposal \in Proposal /\ TypeOK
<1>1. proposal \in Proposal /\ proposal # None
  BY ApplyHasProposal
<1>2. o \in proposal.scope \ outbox
  BY DEF First, IInv, Applying
<1> QED BY <1>1, <1>2 DEF Awaits, IInv, Proposal

-----------------------------------------------------------------------------
(* What does not touch an entity keeps it.                                    *)

LEMMA Kept ==
  ASSUME NEW f \in Entity, Faithful(f), proposal # None,
         Found(f)' = Found(f), MatchValue(f)' = MatchValue(f), mapping'[f] = mapping[f],
         \A q \in Found(f) : page'[q] = page[q],
         mapping[f] # None => page'[mapping[f].page] = page[mapping[f].page],
         proposal'.old = proposal.old, proposal'.book = proposal.book,
         Awaits(TitleOf(f))' => Awaits(TitleOf(f)),
         Done(TitleOf(f))' => Done(TitleOf(f)), Done(ValueOf(f))' => Done(ValueOf(f))
  PROVE  Faithful(f)'
<1>1. Goal(TitleOf(f))' = Goal(TitleOf(f)) /\ Goal(ValueOf(f))' = Goal(ValueOf(f))
  BY DEF Goal, TitleOf, ValueOf
<1>2. MappedPage(f)'
  BY DEF Faithful, MappedPage
<1>3. OldsAgree(f)'
  BY DEF Faithful, OldsAgree, TitleOf, ValueOf
<1>4. NewlyMapped(f)'
  BY <1>1 DEF Faithful, NewlyMapped, TitleOf
<1>5. ValueUntouched(f)'
  BY DEF Faithful, ValueUntouched, ValueOf, TitleOf
<1>6. TitleDone(f)'
  BY <1>1 DEF Faithful, TitleDone
<1>7. ValueDone(f)'
  BY <1>1 DEF Faithful, ValueDone
<1> QED BY <1>2, <1>3, <1>4, <1>5, <1>6, <1>7 DEF Faithful

\* The same plan awaits and has done the same while the outbox stays.
LEMMA SameAwaited ==
  ASSUME SamePlan, outbox' = outbox, NEW o
  PROVE  /\ Awaits(o)' <=> Awaits(o)
         /\ Done(o)' <=> Done(o)
         /\ proposal # None /\ proposal' # None
BY PageAssumption DEF SamePlan, Awaits, Done

\* A step that leaves the pages, the mapping and the plan alone.
LEMMA AllKept ==
  ASSUME ShowInv, SamePlan, UNCHANGED <<book, page, mapping, outbox>>
  PROVE  OwnedTitles' /\ \A f \in Entity : OwnTitles(f) => Faithful(f)'
<1>1. proposal # None /\ proposal' # None
  BY SameAwaited
<1>2. OwnedTitles'
  BY <1>1 DEF ShowInv, OwnedTitles, SamePlan
<1>3. ASSUME NEW f \in Entity, OwnTitles(f) PROVE Faithful(f)'
  <2>1. MatchValue(f)' = MatchValue(f)
    BY DEF MatchValue, Goal, SamePlan
  <2>2. Found(f)' = Found(f)
    BY <2>1 DEF Found, Find
  <2>3. /\ Awaits(TitleOf(f))' => Awaits(TitleOf(f))
        /\ Done(TitleOf(f))' => Done(TitleOf(f))
        /\ Done(ValueOf(f))' => Done(ValueOf(f))
    BY <1>1 DEF Awaits, Done, TitleOf, ValueOf, SamePlan
  <2>4. Faithful(f) /\ proposal'.old = proposal.old /\ proposal'.book = proposal.book
    BY <1>3 DEF ShowInv, SamePlan
  <2>5. /\ mapping'[f] = mapping[f] /\ \A q \in Found(f) : page'[q] = page[q]
        /\ mapping[f] # None => page'[mapping[f].page] = page[mapping[f].page]
    OBVIOUS
  <2> QED BY <1>1, <2>1, <2>2, <2>3, <2>4, <2>5, Kept
<1> QED BY <1>2, <1>3

-----------------------------------------------------------------------------
(* What a request leaves of the pages.                                        *)

\* A page that neither has nor gets a title of the entity.
LEMMA OthersKept ==
  ASSUME IInv, ShowInv, SamePlan, UNCHANGED <<mapping, outbox>>,
         NEW q \in Page, \A r \in Page : r # q => page'[r] = page[r],
         NEW f \in Entity, OwnTitles(f), page[q].title \notin TitlesOf[f],
         q \notin Found(f), page'[q].title # MatchValue(f)
  PROVE  Faithful(f)'
<1>1. proposal # None /\ proposal' # None /\ Faithful(f)
  BY SameAwaited DEF ShowInv
<1>2. MatchValue(f)' = MatchValue(f)
  BY DEF MatchValue, Goal, SamePlan
<1>3. Found(f)' = Found(f)
  BY <1>2 DEF Found, Find
<1>4. \A r \in Found(f) : page'[r] = page[r]
  BY DEF Found, Find
<1>5. mapping[f] # None => page'[mapping[f].page] = page[mapping[f].page]
  <2>1. SUFFICES ASSUME mapping[f] # None PROVE page'[mapping[f].page] = page[mapping[f].page]
    OBVIOUS
  <2>2. page[mapping[f].page].title \in TitlesOf[f]
    BY <1>1, <2>1 DEF Faithful, MappedPage
  <2>3. mapping[f].page \in Page
    BY <2>1 DEF IInv, TypeOK, Mapping
  <2> QED BY <2>2, <2>3
<1>6. /\ Awaits(TitleOf(f))' => Awaits(TitleOf(f))
      /\ Done(TitleOf(f))' => Done(TitleOf(f))
      /\ Done(ValueOf(f))' => Done(ValueOf(f))
  BY <1>1 DEF Awaits, Done, TitleOf, ValueOf, SamePlan
<1>7. proposal'.old = proposal.old /\ proposal'.book = proposal.book
  BY DEF SamePlan
<1> QED BY <1>1, <1>2, <1>3, <1>4, <1>5, <1>6, <1>7, Kept

\* The page that is created shows the title and no value, as the sync read it.
LEMMA Posted ==
  ASSUME IInv, ShowInv, SamePlan, UNCHANGED <<mapping, outbox>>,
         NEW e \in Entity, OwnTitles(e), NEW q \in Page,
         Writing(TitleOf(e)), Writable(TitleOf(e)), Post(TitleOf(e), q)
  PROVE  /\ page[q].title = None /\ page'[q].title = Goal(TitleOf(e))
         /\ page'[q].title \in TitlesOf[e]
         /\ \A r \in Page : r # q => page'[r] = page[r]
         /\ page'[q].value = proposal.old[ValueOf(e)]
         /\ Faithful(e)'
<1>1. /\ Found(e) = {} /\ MatchValue(e) = Goal(TitleOf(e)) /\ page[q] = Nothing
      /\ page' = [page EXCEPT ![q].title = Goal(TitleOf(e))]
  BY Operations DEF Post
<1>2. /\ pc = "write" /\ First(TitleOf(e)) /\ Awaits(TitleOf(e))
      /\ proposal \in Proposal /\ TypeOK
  BY FirstAwaits DEF Writing
<1>3. proposal # None /\ proposal' # None /\ OwnedTitles /\ Faithful(e)
  BY SameAwaited DEF ShowInv
<1>4. Goal(TitleOf(e)) \in Title
  BY <1>2, Operations DEF IInv, Titles, Awaits, Goal
<1>5. Goal(TitleOf(e)) \in TitlesOf[e] /\ Goal(TitleOf(e)) # None
  BY <1>3, <1>4, Operations, PageAssumption DEF OwnedTitles, Goal
<1>6. /\ page'[q].title = Goal(TitleOf(e)) /\ page'[q].value = None
      /\ \A r \in Page : r # q => page'[r] = page[r]
  BY <1>1, <1>2 DEF TypeOK, Nothing
<1>7. proposal.old[TitleOf(e)] = None
  BY <1>1, Operations DEF Writable, IsPending, Shown
<1>8. proposal.old[ValueOf(e)] = None
  BY <1>2, <1>3, <1>7 DEF Faithful, OldsAgree
<1>9. mapping[e] = None /\ mapping'[e] = None
  BY <1>1, <1>2, <1>3, <1>7 DEF Faithful, NewlyMapped
<1>10. MatchValue(e)' = MatchValue(e)
  BY DEF MatchValue, Goal, SamePlan
<1>11. Found(e)' = {q}
  <2>1. \A r \in Page : page[r].title # MatchValue(e)
    BY <1>1, <1>5 DEF Found, Find
  <2> QED BY <1>1, <1>5, <1>6, <1>10, <2>1 DEF Found, Find
<1>12. Faithful(e)'
  <2>1. MappedPage(e)' /\ NewlyMapped(e)'
    BY <1>9 DEF MappedPage, NewlyMapped
  <2>2. OldsAgree(e)'
    BY <1>8 DEF OldsAgree, SamePlan, ValueOf
  <2>3. ValueUntouched(e)'
    BY <1>6, <1>8, <1>11 DEF ValueUntouched, SamePlan, ValueOf
  <2>4. ~Done(TitleOf(e))' /\ ~Done(ValueOf(e))'
    BY <1>2, <1>3 DEF Faithful, ValueDone, Awaits, Done, SamePlan, TitleOf, ValueOf
  <2> QED BY <2>1, <2>2, <2>3, <2>4 DEF Faithful, TitleDone, ValueDone
<1>13. page[q].title = None
  BY <1>1 DEF Nothing
<1> QED BY <1>5, <1>6, <1>8, <1>12, <1>13

\* The page that is given another title keeps its value.
LEMMA Retitled ==
  ASSUME IInv, ShowInv, SamePlan, UNCHANGED <<mapping, outbox>>,
         NEW e \in Entity, OwnTitles(e), NEW q \in Page,
         Writing(TitleOf(e)), Writable(TitleOf(e)), Patch(TitleOf(e), q)
  PROVE  /\ page[q].title \in TitlesOf[e] /\ page'[q].title = Goal(TitleOf(e))
         /\ page'[q].title \in TitlesOf[e]
         /\ \A r \in Page : r # q => page'[r] = page[r]
         /\ page'[q].value = proposal.old[ValueOf(e)]
         /\ Faithful(e)'
<1>1. Found(e) = {q} /\ page' = [page EXCEPT ![q]["title"] = Goal(TitleOf(e))]
  BY Operations DEF Patch
<1>2. /\ pc = "write" /\ First(TitleOf(e)) /\ Awaits(TitleOf(e))
      /\ proposal \in Proposal /\ TypeOK
  BY FirstAwaits DEF Writing
<1>3. proposal # None /\ proposal' # None /\ OwnedTitles /\ Faithful(e)
  BY SameAwaited DEF ShowInv
<1>4. Goal(TitleOf(e)) \in Title
  BY <1>2, Operations DEF IInv, Titles, Awaits, Goal
<1>5. Goal(TitleOf(e)) \in TitlesOf[e]
  BY <1>3, <1>4, Operations, PageAssumption DEF OwnedTitles, Goal
<1>6. /\ page'[q].title = Goal(TitleOf(e)) /\ page'[q].value = page[q].value
      /\ \A r \in Page : r # q => page'[r] = page[r]
  BY <1>1, <1>2 DEF TypeOK, Content
<1>7. page[q].title \in TitlesOf[e] /\ page[q].title = MatchValue(e)
  BY <1>1, <1>3, FoundMine
<1>8. page[q].value = proposal.old[ValueOf(e)]
  BY <1>1, <1>2, <1>3 DEF Faithful, ValueUntouched
<1>9. proposal.old[TitleOf(e)] # None
  <2>1. Shown(TitleOf(e)) = page[q].title
    BY <1>1, Operations DEF Shown
  <2> QED BY <1>7, <2>1, OwnTitle DEF Writable, IsPending
<1>10. MatchValue(e)' = MatchValue(e)
  BY DEF MatchValue, Goal, SamePlan
<1>11. \A r \in Page : r # q => page[r].title # MatchValue(e)
  BY <1>1, <1>7, OwnTitle DEF Found, Find
<1>12. Found(e)' \subseteq {q} /\ (Found(e)' # {} => q \in Found(e)')
  BY <1>6, <1>10, <1>11 DEF Found, Find
<1>13. Faithful(e)'
  <2>1. MappedPage(e)'
    <3>1. SUFFICES ASSUME mapping[e] # None
                   PROVE  /\ page'[mapping[e].page].title \in TitlesOf[e]
                          /\ Found(e)' = {} \/ mapping[e].page \in Found(e)'
      BY DEF MappedPage
    <3>2. mapping[e].page = q
      BY <1>1, <1>3, <3>1 DEF Faithful, MappedPage
    <3> QED BY <1>5, <1>6, <1>12, <3>2
  <2>2. OldsAgree(e)' /\ NewlyMapped(e)'
    BY <1>9 DEF OldsAgree, NewlyMapped, SamePlan, TitleOf
  <2>3. ValueUntouched(e)'
    BY <1>6, <1>8, <1>12 DEF ValueUntouched, SamePlan, ValueOf
  <2>4. ~Done(TitleOf(e))' /\ ~Done(ValueOf(e))'
    BY <1>2, <1>3 DEF Faithful, ValueDone, Awaits, Done, SamePlan, TitleOf, ValueOf
  <2> QED BY <2>1, <2>2, <2>3, <2>4 DEF Faithful, TitleDone, ValueDone
<1> QED BY <1>5, <1>6, <1>7, <1>8, <1>13

\* The page that is given another value is found as it was before.
LEMMA Revalued ==
  ASSUME IInv, ShowInv, SamePlan, UNCHANGED <<mapping, outbox>>,
         NEW e \in Entity, OwnTitles(e), NEW q \in Page,
         Writing(ValueOf(e)), Patch(ValueOf(e), q)
  PROVE  /\ page[q].title \in TitlesOf[e] /\ page'[q].title = MatchValue(e)
         /\ page'[q].title \in TitlesOf[e]
         /\ \A r \in Page : r # q => page'[r] = page[r]
         /\ Found(e)' = {q} /\ page'[q].value = Goal(ValueOf(e))
         /\ Faithful(e)'
<1>1. Found(e) = {q} /\ page' = [page EXCEPT ![q]["value"] = Goal(ValueOf(e))]
  BY Operations DEF Patch
<1>2. /\ pc = "write" /\ First(ValueOf(e)) /\ Awaits(ValueOf(e))
      /\ proposal \in Proposal /\ TypeOK
  BY FirstAwaits DEF Writing
<1>3. proposal # None /\ proposal' # None /\ OwnedTitles /\ Faithful(e)
  BY SameAwaited DEF ShowInv
<1>4. ~Awaits(TitleOf(e))
  BY <1>2, TitleFirst
<1>5. /\ page'[q].title = page[q].title /\ page'[q].value = Goal(ValueOf(e))
      /\ \A r \in Page : r # q => page'[r] = page[r]
  BY <1>1, <1>2 DEF TypeOK, Content
<1>6. page[q].title \in TitlesOf[e] /\ page[q].title = MatchValue(e)
  BY <1>1, <1>3, FoundMine
<1>7. MatchValue(e)' = MatchValue(e)
  BY DEF MatchValue, Goal, SamePlan
<1>8. \A r \in Page : page'[r].title = page[r].title
  BY <1>5
<1>9. Found(e)' = Found(e)
  BY <1>7, <1>8 DEF Found, Find
<1>10. Goal(TitleOf(e))' = Goal(TitleOf(e))
  BY DEF Goal, SamePlan, TitleOf
<1>11. ~Awaits(TitleOf(e))' /\ (Done(TitleOf(e))' => Done(TitleOf(e))) /\ ~Done(ValueOf(e))'
  BY <1>2, <1>3, <1>4 DEF Awaits, Done, SamePlan, TitleOf, ValueOf
<1>12. MappedPage(e)'
  <2>1. SUFFICES ASSUME mapping[e] # None
                 PROVE  /\ page'[mapping[e].page].title \in TitlesOf[e]
                        /\ mapping[e].page \in Found(e)'
    BY DEF MappedPage
  <2>2. mapping[e].page = q
    BY <1>1, <1>3, <2>1 DEF Faithful, MappedPage
  <2> QED BY <1>1, <1>5, <1>6, <1>9, <2>2
<1>13. OldsAgree(e)' /\ NewlyMapped(e)' /\ ValueUntouched(e)' /\ ValueDone(e)'
  BY <1>11 DEF OldsAgree, NewlyMapped, ValueUntouched, ValueDone
<1>14. TitleDone(e)'
  BY <1>3, <1>7, <1>9, <1>10, <1>11 DEF Faithful, TitleDone
<1>15. Faithful(e)'
  BY <1>12, <1>13, <1>14 DEF Faithful
<1> QED BY <1>1, <1>5, <1>6, <1>9, <1>15

\* Whose page a request is for: a page of its entity, or one that is found for it,
\* and none of another entity of its own titles.
LEMMA PageOfRequest ==
  ASSUME IInv, ShowInv, SamePlan, NEW o \in Op, NEW q \in Page,
         Writing(o), Writable(o), Post(o, q) \/ Patch(o, q)
  PROVE  /\ \A r \in Page : r # q => page'[r] = page[r]
         /\ \/ page'[q].title = None
            \/ \E e \in Entity : page'[q].title \in TitlesOf[e]
         /\ \A f \in Entity : OwnTitles(f) /\ f # o[1]
              => /\ page[q].title \notin TitlesOf[f] /\ q \notin Found(f)
                 /\ page'[q].title # MatchValue(f)
<1>1. /\ o[1] \in Entity /\ Awaits(o) /\ proposal \in Proposal /\ proposal # None
      /\ TypeOK /\ OwnedTitles
  BY OpKinds, FirstAwaits DEF Writing, ShowInv, Awaits
<1>2. o[2] = "title" => Goal(o) \in TitlesOf[o[1]] /\ Goal(o) \in Title
  <2>1. o[2] = "title" => Goal(o) = proposal.book[o[1]].title
    BY DEF Goal
  <2>2. proposal.book[o[1]].title \in Title
    BY <1>1 DEF IInv, Titles, Awaits
  <2> QED BY <1>1, <2>1, <2>2, PageAssumption DEF OwnedTitles
<1>3. CASE Post(o, q)
  <2>1. o[2] = "title" /\ page[q] = Nothing /\ page' = [page EXCEPT ![q].title = Goal(o)]
    BY <1>3 DEF Post
  <2>2. /\ page'[q].title = Goal(o) /\ page[q].title = None
        /\ \A r \in Page : r # q => page'[r] = page[r]
    BY <1>1, <2>1 DEF TypeOK, Nothing
  <2>3. \A f \in Entity : q \notin Found(f) /\ page[q].title \notin TitlesOf[f]
    BY <2>2, OwnTitle DEF Found, Find
  <2> QED BY <1>1, <1>2, <2>1, <2>2, <2>3, NotMine
<1>4. CASE Patch(o, q)
  <2>1. Found(o[1]) = {q} /\ page' = [page EXCEPT ![q][o[2]] = Goal(o)]
    BY <1>4 DEF Patch
  <2>2. /\ page'[q].title = IF o[2] = "title" THEN Goal(o) ELSE page[q].title
        /\ \A r \in Page : r # q => page'[r] = page[r]
    BY <1>1, <2>1, OpKinds DEF TypeOK, Content
  <2>3. \A f \in Entity : OwnTitles(f) /\ f # o[1]
          => page[q].title \notin TitlesOf[f] /\ page[q].title # MatchValue(f)
    BY <1>1, <2>1, FoundOther
  <2>4. \A f \in Entity : OwnTitles(f) /\ f # o[1] => q \notin Found(f)
    BY <2>3 DEF Found, Find
  <2>5. \/ page'[q].title = None
        \/ \E e \in Entity : page'[q].title \in TitlesOf[e]
    BY <1>1, <1>2, <2>2 DEF OwnedTitles
  <2>6. \A f \in Entity : OwnTitles(f) /\ f # o[1] => page'[q].title # MatchValue(f)
    BY <1>1, <1>2, <2>2, <2>3, NotMine
  <2> QED BY <2>2, <2>3, <2>4, <2>5, <2>6
<1> QED BY <1>3, <1>4

\* A request of an apply: what its page shows, and that nothing else is touched.
LEMMA Reached ==
  ASSUME IInv, ShowInv, SamePlan, UNCHANGED <<book, mapping, outbox>>,
         NEW o \in Op, NEW q \in Page, Writing(o), Writable(o), Post(o, q) \/ Patch(o, q)
  PROVE  /\ OwnedTitles' /\ \A f \in Entity : OwnTitles(f) => Faithful(f)'
         /\ OwnTitles(o[1]) =>
              /\ page'[q].title = StoredMatch(o)
              /\ o[2] = "value" => Found(o[1])' = {q} /\ page'[q].value = Goal(o)
              /\ o[2] = "title" => page'[q].value = proposal.old[ValueOf(o[1])]
<1>1. o[1] \in Entity
  BY OpKinds
<1>2. ASSUME OwnTitles(o[1])
      PROVE
      /\ Faithful(o[1])'
      /\ page'[q].title = StoredMatch(o)
      /\ o[2] = "value" => Found(o[1])' = {q} /\ page'[q].value = Goal(o)
      /\ o[2] = "title" => page'[q].value = proposal.old[ValueOf(o[1])]
  <2>1. CASE o = TitleOf(o[1]) /\ o[2] = "title"
    <3>1. StoredMatch(o) = Goal(o)
      BY <2>1 DEF StoredMatch
    <3>2. Writing(TitleOf(o[1])) /\ Writable(TitleOf(o[1])) /\ Goal(TitleOf(o[1])) = Goal(o)
      BY <2>1
    <3>3. CASE Post(o, q)
      <4>1. Post(TitleOf(o[1]), q)
        BY <2>1, <3>3
      <4> QED BY <1>1, <1>2, <2>1, <3>1, <3>2, <4>1, Posted
    <3>4. CASE Patch(o, q)
      <4>1. Patch(TitleOf(o[1]), q)
        BY <2>1, <3>4
      <4> QED BY <1>1, <1>2, <2>1, <3>1, <3>2, <4>1, Retitled
    <3> QED BY <3>3, <3>4
  <2>2. CASE o = ValueOf(o[1]) /\ o[2] = "value"
    <3>1. StoredMatch(o) = MatchValue(o[1])
      BY <2>2 DEF StoredMatch
    <3>2. Patch(o, q)
      BY <2>2 DEF Post
    <3>3. Writing(ValueOf(o[1])) /\ Patch(ValueOf(o[1]), q) /\ Goal(ValueOf(o[1])) = Goal(o)
      BY <2>2, <3>2
    <3> QED BY <1>1, <1>2, <2>2, <3>1, <3>3, Revalued
  <2> QED BY <2>1, <2>2, OpKinds
<1>3. /\ \A r \in Page : r # q => page'[r] = page[r]
      /\ \/ page'[q].title = None
         \/ \E e \in Entity : page'[q].title \in TitlesOf[e]
      /\ \A f \in Entity : OwnTitles(f) /\ f # o[1]
           => /\ page[q].title \notin TitlesOf[f] /\ q \notin Found(f)
              /\ page'[q].title # MatchValue(f)
  BY PageOfRequest
<1>4. ASSUME NEW f \in Entity, OwnTitles(f) PROVE Faithful(f)'
  <2>1. CASE f = o[1]
    BY <1>2, <1>4, <2>1
  <2>2. CASE f # o[1]
    BY <1>3, <1>4, <2>2, OthersKept
  <2> QED BY <2>1, <2>2
<1>5. OwnedTitles'
  BY <1>1, <1>3, SameAwaited DEF ShowInv, OwnedTitles, SamePlan
<1> QED BY <1>2, <1>4, <1>5

-----------------------------------------------------------------------------
(* Every action keeps what is shown.                                          *)

LEMMA ShowInitial == ASSUME Init PROVE ShowInv
<1>1. /\ book = [e \in Entity |-> Nothing] /\ page = [q \in Page |-> Nothing]
      /\ mapping = [e \in Entity |-> None] /\ proposal = None /\ pc = "idle"
  BY DEF Init
<1>2. OwnedTitles
  BY <1>1 DEF OwnedTitles, Nothing
<1>3. \A e \in Entity : OwnTitles(e) => Faithful(e)
  BY <1>1 DEF Faithful, MappedPage, OldsAgree, NewlyMapped, ValueUntouched, TitleDone, ValueDone,
              Awaits, Done
<1> QED BY <1>1, <1>2, <1>3 DEF ShowInv, InFlight, Committed

\* A step that leaves everything the entities are looked up by alone.
LEMMA Untouched ==
  ASSUME UNCHANGED <<page, mapping, proposal, outbox>>, NEW e \in Entity, Faithful(e)
  PROVE  Faithful(e)'
BY DEF Faithful, MappedPage, OldsAgree, NewlyMapped, ValueUntouched, TitleDone, ValueDone,
       Awaits, Done, Found, Find, MatchValue, Goal

\* A saved workbook touches no page.
LEMMA EditShows == ASSUME ShowInv, IInv, NEW e \in Entity, Edit(e) PROVE ShowInv'
<1>1. PICK t \in TitlesOf[e], v \in Value :
        book' = [book EXCEPT ![e] = [title |-> t, value |-> v]]
  BY DEF Edit
<1>2. pc = "idle" /\ UNCHANGED <<page, mapping, proposal, outbox, pc>>
  BY DEF Edit, notion
<1>3. \A f \in Entity : book'[f].title \in TitlesOf[f] \cup {None}
  BY <1>1 DEF IInv, TypeOK, ShowInv, OwnedTitles
<1>4. OwnedTitles'
  BY <1>2, <1>3 DEF ShowInv, OwnedTitles
<1>5. \A f \in Entity : OwnTitles(f) => Faithful(f)'
  BY <1>2, Untouched DEF ShowInv
<1>6. InFlight' /\ Committed'
  BY <1>2 DEF ShowInv, InFlight, Committed
<1> QED BY <1>4, <1>5, <1>6 DEF ShowInv

\* The sync reads the page the writer will find, or knows that there is none.
LEMMA SyncReads ==
  ASSUME IInv, ShowInv, Sync, NEW e \in Entity, Awaits(TitleOf(e))'
  PROVE  /\ proposal'.old[TitleOf(e)] = Current(e).title
         /\ proposal'.old[ValueOf(e)] = Current(e).value
         /\ MatchValue(e)' = IF mapping[e] # None THEN mapping[e].match ELSE book[e].title
<1>1. PICK titles \in SUBSET (Changed \X {"title"}) :
        \E scope \in SUBSET (Unequal \cup titles) :
          proposal' = [scope |-> scope, book |-> book, status |-> "APPROVED",
                       old |-> [o \in Op |-> Old(o, Unequal \cup titles)]]
  BY DEF Sync
<1>2. PICK scope \in SUBSET (Unequal \cup titles) :
        proposal' = [scope |-> scope, book |-> book, status |-> "APPROVED",
                     old |-> [o \in Op |-> Old(o, Unequal \cup titles)]]
  BY <1>1
<1>3. mapping' = mapping
  BY DEF Sync
<1>4. /\ proposal'.scope = scope /\ proposal'.book = book
      /\ proposal'.old = [o \in Op |-> Old(o, Unequal \cup titles)]
  BY <1>2
<1>5. TitleOf(e) \in scope /\ TitleOf(e) \in Unequal \cup titles
  BY <1>4 DEF Awaits
<1>6. /\ Old(TitleOf(e), Unequal \cup titles) = Current(e)["title"]
      /\ Old(ValueOf(e), Unequal \cup titles) = Current(e)["value"]
  BY <1>5, Operations DEF Old
<1>7. MatchValue(e)' = IF mapping[e] # None THEN mapping[e].match ELSE book[e].title
  BY <1>3, <1>4, <1>5, Operations DEF MatchValue, Goal
<1> QED BY <1>4, <1>6, <1>7, Operations

\* A new proposal: nothing is done, and what is awaited agrees with what was read.
LEMMA SyncShows == ASSUME IInv, ShowInv, Sync PROVE ShowInv'
<1>1. /\ pc = "idle" /\ pc' = "idle" /\ outbox' = {}
      /\ UNCHANGED <<book, page, mapping>>
  BY DEF Sync
<1>2. proposal' # None /\ proposal'.book = book /\ proposal'.status = "APPROVED"
  <2>1. proposal' # None
    BY SyncKeeps, PageAssumption
  <2> QED BY <2>1 DEF Sync
<1>3. OwnedTitles'
  BY <1>1, <1>2 DEF ShowInv, OwnedTitles
<1>4. InFlight' /\ Committed'
  BY <1>1, <1>2 DEF InFlight, Committed
<1>5. ASSUME NEW e \in Entity, OwnTitles(e) PROVE Faithful(e)'
  <2>1. Faithful(e) /\ TypeOK
    BY <1>5 DEF ShowInv, IInv
  <2>2. MappedPage(e)'
    BY <1>1, <2>1 DEF Faithful, MappedPage, Found, Find, MatchValue
  <2>3. ~Done(TitleOf(e))' /\ ~Done(ValueOf(e))'
    BY <1>1 DEF Done
  <2>4. CASE ~Awaits(TitleOf(e))'
    BY <2>2, <2>3, <2>4 DEF Faithful, OldsAgree, NewlyMapped, ValueUntouched, TitleDone, ValueDone
  <2>5. CASE Awaits(TitleOf(e))'
    <3>1. /\ proposal'.old[TitleOf(e)] = Current(e).title
          /\ proposal'.old[ValueOf(e)] = Current(e).value
          /\ MatchValue(e)' = IF mapping[e] # None THEN mapping[e].match ELSE book[e].title
      BY <2>5, SyncReads
    <3>2. Read(e) = {} => Current(e) = Nothing /\ mapping[e] = None
      BY DEF Current, Read
    <3>3. Read(e) # {} => Current(e).title # None
      <4>1. SUFFICES ASSUME Read(e) # {} PROVE Current(e).title # None
        OBVIOUS
      <4>2. PICK q \in Read(e) : Current(e) = page[q]
        BY <4>1 DEF Current
      <4>3. CASE mapping[e] # None
        <5>1. q = mapping[e].page
          BY <4>2, <4>3 DEF Read
        <5> QED BY <2>1, <4>2, <4>3, <5>1, OwnTitle DEF Faithful, MappedPage
      <4>4. CASE mapping[e] = None
        BY <4>2, <4>4 DEF Read, Find
      <4> QED BY <4>3, <4>4
    <3>4. Nothing.title = None /\ Nothing.value = None
      BY DEF Nothing
    <3>5. OldsAgree(e)'
      BY <3>1, <3>2, <3>3, <3>4 DEF OldsAgree, TitleOf, ValueOf
    <3>6. NewlyMapped(e)'
      BY <1>1, <3>1, <3>2, <3>3 DEF NewlyMapped, TitleOf
    <3>7. ValueUntouched(e)'
      <4>1. SUFFICES ASSUME NEW q \in Page, Found(e)' = {q}
                     PROVE  page'[q].value = Current(e).value
        BY <3>1 DEF ValueUntouched, ValueOf
      <4>2. CASE mapping[e] # None
        <5>1. mapping'[e] # None /\ mapping'[e] = mapping[e]
          BY <1>1, <4>2
        <5>2. q = mapping[e].page
          BY <2>2, <4>1, <5>1 DEF MappedPage
        <5>3. Read(e) = {q}
          BY <4>2, <5>2 DEF Read
        <5> QED BY <1>1, <5>3 DEF Current
      <4>3. CASE mapping[e] = None
        <5>1. Read(e) = {q}
          BY <1>1, <3>1, <4>1, <4>3 DEF Read, Found, Find
        <5> QED BY <1>1, <5>1 DEF Current
      <4> QED BY <4>2, <4>3
    <3> QED BY <2>2, <2>3, <3>5, <3>6, <3>7 DEF Faithful, TitleDone, ValueDone
  <2> QED BY <2>4, <2>5
<1> QED BY <1>3, <1>4, <1>5 DEF ShowInv

\* An approval touches nothing.
LEMMA ApproveShows == ASSUME ShowInv, Approve PROVE ShowInv'
<1>1. /\ proposal.status # "COMMITTED" /\ pc' = "inspect"
      /\ UNCHANGED <<book, page, mapping, proposal, outbox>>
  BY DEF Approve, notion
<1>2. OwnedTitles'
  BY <1>1 DEF ShowInv, OwnedTitles
<1>3. \A f \in Entity : OwnTitles(f) => Faithful(f)'
  BY <1>1, Untouched DEF ShowInv
<1>4. InFlight' /\ Committed'
  BY <1>1 DEF InFlight, Committed
<1> QED BY <1>2, <1>3, <1>4 DEF ShowInv

\* Neither does an apply that stops without having committed.
LEMMA StopShows ==
  ASSUME ShowInv, SamePlan, Stop, UNCHANGED <<book, page, mapping, outbox>>,
         proposal'.status = "COMMITTED" => proposal.scope \subseteq outbox
  PROVE  ShowInv'
<1>1. OwnedTitles' /\ \A f \in Entity : OwnTitles(f) => Faithful(f)'
  BY AllKept
<1>2. InFlight' /\ Committed'
  BY DEF Stop, InFlight, Committed, SamePlan
<1> QED BY <1>1, <1>2 DEF ShowInv

\* The inspection that raises, and the one that finds a conflict.
LEMMA InspectShows ==
  ASSUME IInv, ShowInv, InspectRaises \/ InspectConflicts PROVE ShowInv'
<1>1. pc = "inspect" /\ Stop /\ UNCHANGED <<book, page, mapping, outbox>>
  BY DEF InspectRaises, InspectConflicts, notion
<1>2. proposal \in Proposal /\ proposal # None /\ proposal.status # "COMMITTED"
  BY <1>1, ApplyHasProposal DEF ShowInv, Committed
<1>3. CASE InspectRaises
  <2>1. SamePlan /\ proposal'.status # "COMMITTED"
    BY <1>2, <1>3 DEF InspectRaises, SamePlan
  <2> QED BY <1>1, <2>1, StopShows
<1>4. CASE InspectConflicts
  <2>1. SetStatus("STALE")
    BY <1>4 DEF InspectConflicts
  <2>2. SamePlan /\ proposal'.status # "COMMITTED"
    BY <1>2, <2>1, StatusSet DEF SetStatus, Proposal
  <2> QED BY <1>1, <2>2, StopShows
<1> QED BY <1>3, <1>4

\* What the inspection puts in the outbox is what the pages show; a value is not
\* found applied while the title of its entity is awaited.
LEMMA BeginShows == ASSUME IInv, ShowInv, Begin PROVE ShowInv'
<1>1. /\ pc = "inspect" /\ SetStatus("APPLYING") /\ pc' = "write"
      /\ outbox' = outbox \cup Applied /\ UNCHANGED <<book, page, mapping>>
      /\ \A o \in proposal.scope \ outbox : ~Refuses(o)
  BY DEF Begin, notion
<1>2. /\ SamePlan /\ proposal \in Proposal /\ proposal # None /\ proposal' # None
      /\ proposal'.status = "APPLYING"
  BY <1>1, ApplyHasProposal, StatusSet, PageAssumption DEF SamePlan, SetStatus, Proposal
<1>3. OwnedTitles /\ OwnedTitles'
  BY <1>1, <1>2 DEF ShowInv, OwnedTitles, SamePlan
<1>4. ASSUME NEW e \in Entity, OwnTitles(e) PROVE Faithful(e)'
  <2>1. Faithful(e)
    BY <1>4 DEF ShowInv
  <2>2. MatchValue(e)' = MatchValue(e)
    BY <1>1, <1>2 DEF MatchValue, Goal, SamePlan
  <2>3. Found(e)' = Found(e)
    BY <1>1, <2>2 DEF Found, Find
  <2>4. Goal(TitleOf(e))' = Goal(TitleOf(e)) /\ Goal(ValueOf(e))' = Goal(ValueOf(e))
    BY <1>2 DEF Goal, SamePlan, TitleOf, ValueOf
  <2>5. Awaits(TitleOf(e))' => Awaits(TitleOf(e))
    BY <1>1, <1>2 DEF Awaits, SamePlan, TitleOf
  <2>6. MappedPage(e)'
    BY <1>1, <2>1, <2>3 DEF Faithful, MappedPage
  <2>7. OldsAgree(e)' /\ NewlyMapped(e)' /\ ValueUntouched(e)'
    <3>1. proposal'.old = proposal.old
      BY <1>2 DEF SamePlan
    <3>2. OldsAgree(e)'
      BY <2>1, <2>5, <3>1 DEF Faithful, OldsAgree, TitleOf, ValueOf
    <3>3. NewlyMapped(e)'
      BY <1>1, <2>1, <2>3, <2>4, <2>5, <3>1 DEF Faithful, NewlyMapped, TitleOf
    <3>4. ValueUntouched(e)'
      BY <1>1, <2>1, <2>3, <2>5, <3>1 DEF Faithful, ValueUntouched, ValueOf
    <3> QED BY <3>2, <3>3, <3>4
  <2>8. TitleDone(e)'
    <3>1. SUFFICES ASSUME Done(TitleOf(e))'
                   PROVE  Found(e) # {} /\ MatchValue(e) = Goal(TitleOf(e))
      BY <2>2, <2>3, <2>4 DEF TitleDone
    <3>2. CASE Done(TitleOf(e))
      BY <2>1, <3>2 DEF Faithful, TitleDone
    <3>3. CASE ~Done(TitleOf(e))
      <4>1. TitleOf(e) \in Applied
        BY <1>1, <1>2, <3>1, <3>3 DEF Done, SamePlan, TitleOf
      <4>2. Found(e) # {} /\ Shown(TitleOf(e)) = Goal(TitleOf(e))
        BY <4>1, Operations DEF Applied, IsApplied
      <4>3. PICK q \in Found(e) : Shown(TitleOf(e)) = page[q].title
        BY <4>2, Operations DEF Shown
      <4>4. page[q].title = MatchValue(e)
        BY <1>2, <1>3, <1>4, FoundMine
      <4> QED BY <4>2, <4>3, <4>4
    <3> QED BY <3>2, <3>3
  <2>9. ValueDone(e)'
    <3>1. SUFFICES ASSUME Done(ValueOf(e))'
                   PROVE  /\ ~Awaits(TitleOf(e))
                          /\ \E q \in Page : Found(e) = {q} /\ page[q].value = Goal(ValueOf(e))
      BY <1>1, <2>3, <2>4, <2>5 DEF ValueDone
    <3>2. CASE Done(ValueOf(e))
      BY <2>1, <3>2 DEF Faithful, ValueDone
    <3>3. CASE ~Done(ValueOf(e))
      <4>1. ValueOf(e) \in Applied /\ ValueOf(e) \in proposal.scope \ outbox
        BY <1>1, <1>2, <3>1, <3>3 DEF Done, SamePlan, ValueOf, Applied
      <4>2. /\ Found(e) # {} /\ Shown(ValueOf(e)) = Goal(ValueOf(e))
            /\ Shown(ValueOf(e)) # proposal.old[ValueOf(e)]
        BY <4>1, Operations DEF Applied, IsApplied, IsPending
      <4>3. ~Several(Found(e))
        BY <1>1, <4>1, Operations DEF Refuses
      <4>4. PICK q \in Found(e) : Shown(ValueOf(e)) = page[q].value
        BY <4>2, Operations DEF Shown
      <4>5. Found(e) = {q} /\ q \in Page
        BY <4>3, <4>4 DEF Several, Found, Find
      <4>6. ~Awaits(TitleOf(e))
        BY <2>1, <4>2, <4>4, <4>5 DEF Faithful, ValueUntouched
      <4> QED BY <4>2, <4>4, <4>5, <4>6
    <3> QED BY <3>2, <3>3
  <2> QED BY <2>6, <2>7, <2>8, <2>9 DEF Faithful
<1>5. InFlight' /\ Committed'
  BY <1>1, <1>2 DEF InFlight, Committed
<1> QED BY <1>3, <1>4, <1>5 DEF ShowInv

\* An answered write: its page shows what is about to be mapped.
LEMMA WriteShows == ASSUME IInv, ShowInv, NEW o \in Op, Write(o) PROVE ShowInv'
<1>1. PICK q \in Page : (Post(o, q) \/ Patch(o, q)) /\ written' = q
  BY DEF Write
<1>2. /\ Writing(o) /\ Writable(o) /\ pc = "write" /\ First(o) /\ pc' = "map"
      /\ UNCHANGED <<book, mapping, proposal, outbox, todo>>
  BY DEF Write, Writing
<1>3. proposal \in Proposal /\ SamePlan /\ proposal.status # "COMMITTED"
  BY <1>2, ApplyHasProposal DEF SamePlan, ShowInv, Committed
<1>4. /\ OwnedTitles' /\ \A f \in Entity : OwnTitles(f) => Faithful(f)'
      /\ OwnTitles(o[1]) =>
           /\ page'[q].title = StoredMatch(o)
           /\ o[2] = "value" => Found(o[1])' = {q} /\ page'[q].value = Goal(o)
           /\ o[2] = "title" => page'[q].value = proposal.old[ValueOf(o[1])]
  BY <1>1, <1>2, <1>3, Reached
<1>5. StoredMatch(o)' = StoredMatch(o) /\ Goal(o)' = Goal(o) /\ ValueOf(o[1])' = ValueOf(o[1])
  BY <1>2 DEF StoredMatch, MatchValue, Goal, ValueOf
<1>6. OwnTitles(o[1]) => Answered(o)'
  BY <1>1, <1>2, <1>4, <1>5 DEF Answered
<1>7. InFlight'
  <2>1. ASSUME NEW x \in todo', First(x)' PROVE x = o
    <3>1. First(x) /\ todo \subseteq Op
      BY <1>2, <2>1 DEF First, Place, IInv, TypeOK
    <3> QED BY <1>2, <3>1, FirstIsOne
  <2> QED BY <1>2, <1>6, <2>1 DEF InFlight
<1>8. Committed'
  BY <1>2, <1>3 DEF Committed
<1> QED BY <1>4, <1>7, <1>8 DEF ShowInv

\* A refused write.
LEMMA WriteRefusedShows ==
  ASSUME IInv, ShowInv, NEW o \in Op, WriteRefused(o) PROVE ShowInv'
<1>1. pc # "idle" /\ SetStatus("FAILED") /\ Stop /\ UNCHANGED <<book, page, mapping, outbox>>
  BY DEF WriteRefused, Writing, Failed, notion
<1>2. SamePlan /\ proposal'.status # "COMMITTED"
  BY <1>1, ApplyHasProposal, StatusSet DEF SetStatus, Proposal
<1> QED BY <1>1, <1>2, StopShows

\* A write without an answer: what it may have done is found by the next lookup.
LEMMA WriteLostShows ==
  ASSUME IInv, ShowInv, NEW o \in Op, WriteLost(o) PROVE ShowInv'
<1>1. /\ Writing(o) /\ Writable(o) /\ pc # "idle" /\ SetStatus("FAILED") /\ Stop
      /\ UNCHANGED <<book, mapping, outbox>>
  BY DEF WriteLost, Writing, Failed
<1>2. SamePlan /\ proposal'.status # "COMMITTED"
  BY <1>1, ApplyHasProposal, StatusSet DEF SetStatus, Proposal
<1>3. CASE UNCHANGED notion
  BY <1>1, <1>2, <1>3, StopShows DEF notion
<1>4. CASE \E q \in Page : Post(o, q) \/ Patch(o, q)
  <2>1. OwnedTitles' /\ \A f \in Entity : OwnTitles(f) => Faithful(f)'
    BY <1>1, <1>2, <1>4, Reached
  <2>2. InFlight' /\ Committed'
    BY <1>1, <1>2 DEF Stop, InFlight, Committed
  <2> QED BY <2>1, <2>2 DEF ShowInv
<1> QED BY <1>3, <1>4 DEF WriteLost

\* The saved mapping: the page of the answer is found by the saved match value.
LEMMA SaveMappingShows ==
  ASSUME IInv, ShowInv, NEW o \in Op, SaveMapping(o) PROVE ShowInv'
<1> DEFINE e == o[1]
<1>1. /\ pc = "map" /\ First(o) /\ pc' = "record"
      /\ mapping' = [mapping EXCEPT ![e] = [page |-> written, match |-> StoredMatch(o)]]
      /\ UNCHANGED <<book, page, proposal, outbox, todo, written>>
  BY DEF SaveMapping, notion
<1>2. /\ Awaits(o) /\ proposal \in Proposal /\ proposal # None /\ TypeOK /\ OwnedTitles
      /\ written \in Page /\ (OwnTitles(e) => Answered(o)) /\ e \in Entity /\ StoredMatch(o) \in Title
      /\ proposal.status # "COMMITTED"
  <2>1. Awaits(o) /\ proposal \in Proposal /\ TypeOK
    BY <1>1, FirstAwaits
  <2>2. o \in todo
    BY <1>1 DEF First
  <2>3. (OwnTitles(e) => Answered(o)) /\ OwnedTitles /\ proposal.status # "COMMITTED"
    BY <1>1, <2>1, <2>2 DEF ShowInv, InFlight, Committed, Awaits
  <2>4. written \in Page /\ StoredMatch(o) \in Title
    BY <1>1, <2>2 DEF IInv, Applying
  <2> QED BY <2>1, <2>3, <2>4, OpKinds DEF Awaits
<1>3. /\ mapping'[e] = [page |-> written, match |-> StoredMatch(o)]
      /\ mapping'[e] # None
      /\ \A f \in Entity : f # e => mapping'[f] = mapping[f]
  <2>1. [page |-> written, match |-> StoredMatch(o)] \in Mapping
    BY <1>2 DEF Mapping
  <2>2. /\ mapping'[e] = [page |-> written, match |-> StoredMatch(o)]
        /\ \A f \in Entity : f # e => mapping'[f] = mapping[f]
    BY <1>1, <1>2 DEF TypeOK
  <2>3. mapping'[e] # None
    BY <2>1, <2>2, PageAssumption
  <2> QED BY <2>2, <2>3
<1> HIDE DEF e
<1>4. OwnTitles(e) => StoredMatch(o) \in TitlesOf[e]
  <2>1. CASE o = TitleOf(e) /\ o[2] = "title"
    <3>1. StoredMatch(o) = proposal.book[e].title
      BY <2>1 DEF StoredMatch, Goal, e
    <3> QED BY <1>2, <3>1, PageAssumption DEF OwnedTitles
  <2>2. CASE OwnTitles(e) /\ o[2] = "value"
    <3>1. Found(e) = {written} /\ StoredMatch(o) = page[written].title
      BY <1>2, <2>2 DEF Answered, e
    <3> QED BY <1>2, <2>2, <3>1, FoundMine
  <2> QED BY <2>1, <2>2, OpKinds DEF e
<1>5. OwnedTitles'
  <2>1. ASSUME NEW f \in Entity, OwnTitles(f), f # e PROVE StoredMatch(o) \notin TitlesOf[f]
    <3>1. MatchValue(e) \notin TitlesOf[f]
      BY <1>2, <2>1, MatchApart
    <3>2. CASE o = TitleOf(e) /\ o[2] = "title"
      <4>1. StoredMatch(o) = proposal.book[e].title
        BY <3>2 DEF StoredMatch, Goal, e
      <4>2. StoredMatch(o) \in TitlesOf[e]
        BY <1>2, <4>1, PageAssumption DEF OwnedTitles
      <4> QED BY <1>2, <2>1, <4>2, TitlesDiffer
    <3>3. CASE o[2] = "value"
      BY <3>1, <3>3 DEF StoredMatch, e
    <3> QED BY <3>2, <3>3, OpKinds DEF e
  <2>2. ASSUME NEW g \in Entity, NEW f \in Entity, OwnTitles(g), mapping'[f] # None
        PROVE  mapping'[f].match \in TitlesOf[g] <=> f = g
    <3>1. CASE f = e
      BY <1>2, <1>3, <1>4, <2>1, <2>2, <3>1
    <3>2. CASE f # e
      BY <1>2, <1>3, <2>2, <3>2 DEF OwnedTitles
    <3> QED BY <3>1, <3>2
  <2> QED BY <1>1, <1>2, <2>2 DEF OwnedTitles
<1>6. /\ MatchValue(e)' = StoredMatch(o) /\ Found(e)' = Find(StoredMatch(o))
      /\ OwnTitles(e) => written \in Found(e)'
  <2>1. MatchValue(e)' = StoredMatch(o)
    BY <1>3 DEF MatchValue
  <2>2. Find(MatchValue(e))' = Find(StoredMatch(o))
    BY <1>1, <2>1 DEF Find
  <2> QED BY <1>2, <2>1, <2>2, PageAssumption DEF Found, Find, Answered
<1>7. Awaits(TitleOf(e))' <=> Awaits(TitleOf(e))
  BY <1>1 DEF Awaits, TitleOf
<1>8. /\ Done(TitleOf(e))' <=> Done(TitleOf(e))
      /\ Done(ValueOf(e))' <=> Done(ValueOf(e))
  BY <1>1 DEF Done, TitleOf, ValueOf
<1>9. Goal(TitleOf(e))' = Goal(TitleOf(e)) /\ Goal(ValueOf(e))' = Goal(ValueOf(e))
  BY <1>1 DEF Goal, TitleOf, ValueOf
<1>10. OwnTitles(e) => MappedPage(e)'
  BY <1>1, <1>2, <1>3, <1>4, <1>6 DEF MappedPage, Answered
<1>11. OwnTitles(e) => Faithful(e)
  BY <1>2 DEF ShowInv
<1>12. ASSUME OwnTitles(e) PROVE Faithful(e)' /\ Saved(o)'
  <2>1. CASE o = TitleOf(e) /\ o[2] = "title"
    <3>1. StoredMatch(o) = Goal(TitleOf(e)) /\ page[written].value = proposal.old[ValueOf(e)]
      BY <1>12, <1>2, <2>1 DEF StoredMatch, Answered, e
    <3>2. OldsAgree(e)'
      BY <1>12, <1>1, <1>7, <1>11 DEF Faithful, OldsAgree, TitleOf, ValueOf
    <3>3. NewlyMapped(e)'
      BY <1>12, <1>3, <1>6, <1>9, <3>1 DEF NewlyMapped
    <3>4. ValueUntouched(e)'
      BY <1>12, <1>1, <1>6, <3>1 DEF ValueUntouched, ValueOf
    <3>5. ~Done(TitleOf(e))' /\ ~Done(ValueOf(e))'
      BY <1>12, <1>2, <1>8, <1>11, <2>1 DEF Faithful, ValueDone, Awaits, Done
    <3>6. Saved(o)'
      BY <1>12, <1>1, <1>6, <1>9, <2>1, <3>1 DEF Saved, Goal, e
    <3> QED BY <1>12, <1>10, <3>2, <3>3, <3>4, <3>5, <3>6 DEF Faithful, TitleDone, ValueDone
  <2>2. CASE o = ValueOf(e) /\ o[2] = "value"
    <3>1. /\ StoredMatch(o) = MatchValue(e) /\ Found(e) = {written}
          /\ page[written].value = Goal(o)
      BY <1>12, <1>2, <2>2 DEF StoredMatch, Answered, e
    <3>2. Found(e)' = Found(e) /\ MatchValue(e)' = MatchValue(e)
      BY <1>12, <1>6, <3>1 DEF Found
    <3>3. ~Awaits(TitleOf(e))'
      BY <1>12, <1>1, <1>2, <1>7, <2>2, TitleFirst
    <3>4. OldsAgree(e)' /\ NewlyMapped(e)' /\ ValueUntouched(e)'
      BY <3>3 DEF OldsAgree, NewlyMapped, ValueUntouched
    <3>5. TitleDone(e)'
      BY <1>12, <1>8, <1>9, <1>11, <3>2 DEF Faithful, TitleDone
    <3>6. ~Done(ValueOf(e))'
      BY <1>12, <1>2, <1>8, <2>2 DEF Awaits, Done
    <3>7. Saved(o)'
      BY <1>12, <1>1, <2>2, <3>1, <3>2 DEF Saved, Goal, e
    <3> QED BY <1>12, <1>10, <3>4, <3>5, <3>6, <3>7 DEF Faithful, ValueDone
  <2> QED BY <2>1, <2>2, OpKinds DEF e
<1>13. ASSUME NEW f \in Entity, OwnTitles(f), f # e PROVE Faithful(f)'
  <2>1. MatchValue(f)' = MatchValue(f)
    BY <1>1, <1>3, <1>13 DEF MatchValue, Goal
  <2>2. Found(f)' = Found(f)
    BY <1>1, <2>1 DEF Found, Find
  <2>3. /\ Awaits(TitleOf(f))' => Awaits(TitleOf(f))
        /\ Done(TitleOf(f))' => Done(TitleOf(f))
        /\ Done(ValueOf(f))' => Done(ValueOf(f))
    BY <1>1 DEF Awaits, Done, TitleOf, ValueOf
  <2>4. Faithful(f) /\ proposal'.old = proposal.old /\ proposal'.book = proposal.book
    BY <1>1, <1>13 DEF ShowInv
  <2>5. /\ mapping'[f] = mapping[f] /\ \A q \in Found(f) : page'[q] = page[q]
        /\ mapping[f] # None => page'[mapping[f].page] = page[mapping[f].page]
    BY <1>1, <1>3, <1>13
  <2> QED BY <1>2, <2>1, <2>2, <2>3, <2>4, <2>5, Kept
<1>14. InFlight'
  <2>1. ASSUME NEW x \in todo', First(x)' PROVE x = o
    <3>1. First(x) /\ todo \subseteq Op
      BY <1>1, <1>2, <2>1 DEF First, Place, TypeOK
    <3> QED BY <1>1, <3>1, FirstIsOne
  <2> QED BY <1>1, <1>12, <2>1 DEF InFlight, e
<1>15. Committed'
  BY <1>1, <1>2 DEF Committed
<1> QED BY <1>5, <1>12, <1>13, <1>14, <1>15 DEF ShowInv

\* The outbox: what it now has is shown.
LEMMA RecordShows == ASSUME IInv, ShowInv, NEW o \in Op, Record(o) PROVE ShowInv'
<1>1. /\ pc = "record" /\ First(o) /\ o \in todo /\ pc' = "write"
      /\ outbox' = outbox \cup {o} /\ UNCHANGED <<book, page, mapping, proposal>>
  BY DEF Record, First, notion
<1>2. /\ Awaits(o) /\ proposal # None /\ TypeOK /\ (OwnTitles(o[1]) => Saved(o))
      /\ proposal.status # "COMMITTED"
  BY <1>1, FirstAwaits DEF ShowInv, InFlight, Committed, Awaits
<1>3. OwnedTitles'
  BY <1>1 DEF ShowInv, OwnedTitles
<1>4. ASSUME NEW e \in Entity, OwnTitles(e) PROVE Faithful(e)'
  <2>1. MatchValue(e)' = MatchValue(e)
    BY <1>1 DEF MatchValue, Goal
  <2>2. Found(e)' = Found(e)
    BY <1>1, <2>1 DEF Found, Find
  <2>3. Goal(TitleOf(e))' = Goal(TitleOf(e)) /\ Goal(ValueOf(e))' = Goal(ValueOf(e))
    BY <1>1 DEF Goal, TitleOf, ValueOf
  <2>4. Awaits(TitleOf(e))' => Awaits(TitleOf(e))
    BY <1>1 DEF Awaits, TitleOf
  <2>5. Faithful(e)
    BY <1>4 DEF ShowInv
  <2>6. MappedPage(e)'
    BY <1>1, <2>2, <2>5 DEF Faithful, MappedPage
  <2>7. OldsAgree(e)'
    BY <1>1, <2>4, <2>5 DEF Faithful, OldsAgree, TitleOf, ValueOf
  <2>8. NewlyMapped(e)'
    BY <1>1, <2>2, <2>3, <2>4, <2>5 DEF Faithful, NewlyMapped, TitleOf
  <2>9. ValueUntouched(e)'
    BY <1>1, <2>2, <2>4, <2>5 DEF Faithful, ValueUntouched, ValueOf
  <2>10. TitleDone(e)'
    <3>1. CASE o = TitleOf(e)
      <4>1. Found(e) # {} /\ MatchValue(e) = Goal(TitleOf(e))
        BY <1>2, <1>4, <3>1, Operations DEF Saved
      <4> QED BY <2>1, <2>2, <2>3, <4>1 DEF TitleDone
    <3>2. CASE o # TitleOf(e)
      <4>1. Done(TitleOf(e))' => Done(TitleOf(e))
        BY <1>1, <3>2 DEF Done, TitleOf
      <4> QED BY <2>1, <2>2, <2>3, <2>5, <4>1 DEF Faithful, TitleDone
    <3> QED BY <3>1, <3>2
  <2>11. ValueDone(e)'
    <3>1. CASE o = ValueOf(e)
      <4>1. Found(e) = {written} /\ page[written].value = Goal(ValueOf(e))
        BY <1>2, <1>4, <3>1, Operations DEF Saved
      <4>2. ~Awaits(TitleOf(e))
        BY <1>1, <3>1, TitleFirst
      <4>3. written \in Page
        BY <4>1 DEF Found, Find
      <4> QED BY <1>1, <2>2, <2>3, <2>4, <4>1, <4>2, <4>3 DEF ValueDone
    <3>2. CASE o # ValueOf(e)
      <4>1. Done(ValueOf(e))' => Done(ValueOf(e))
        BY <1>1, <3>2 DEF Done, ValueOf
      <4> QED BY <1>1, <2>2, <2>3, <2>4, <2>5, <4>1 DEF Faithful, ValueDone
    <3> QED BY <3>1, <3>2
  <2> QED BY <2>6, <2>7, <2>8, <2>9, <2>10, <2>11 DEF Faithful
<1>5. InFlight' /\ Committed'
  BY <1>1, <1>2 DEF InFlight, Committed
<1> QED BY <1>3, <1>4, <1>5 DEF ShowInv

\* The commit comes when every operation is in the outbox.
LEMMA CommitShows ==
  ASSUME IInv, ShowInv, Commit
  PROVE  ShowInv' /\ proposal.scope \subseteq outbox
<1>1. /\ pc = "write" /\ todo = {} /\ SetStatus("COMMITTED") /\ Stop
      /\ UNCHANGED <<book, page, mapping, outbox>>
  BY DEF Commit, notion
<1>2. SamePlan
  BY <1>1, ApplyHasProposal, StatusSet
<1>3. proposal.scope \subseteq outbox
  BY <1>1 DEF IInv, Applying
<1> QED BY <1>1, <1>2, <1>3, StopShows

\* A crash keeps what is stored.
LEMMA CrashShows == ASSUME IInv, ShowInv, Crash PROVE ShowInv'
<1>1. pc # "idle" /\ Stop /\ UNCHANGED <<book, page, mapping, proposal, outbox>>
  BY DEF Crash, notion
<1>2. SamePlan /\ proposal'.status # "COMMITTED"
  BY <1>1, ApplyHasProposal DEF SamePlan, ShowInv, Committed
<1> QED BY <1>1, <1>2, StopShows

\* The revision has done nothing yet and awaits what was awaited.
LEMMA RecoverShows == ASSUME IInv, ShowInv, Recover PROVE ShowInv'
<1>1. /\ pc = "idle" /\ pc' = "idle" /\ proposal # None /\ outbox' = outbox \cup Applied
      /\ proposal' = [proposal EXCEPT !.status = "APPROVED", !.scope = @ \ (outbox \cup Applied)]
      /\ UNCHANGED <<book, page, mapping>>
  BY DEF Recover, notion
<1>2. proposal \in Proposal
  BY <1>1, ProposalTyped DEF IInv
<1>3. /\ proposal' \in Proposal /\ proposal'.scope = proposal.scope \ (outbox \cup Applied)
      /\ proposal'.old = proposal.old /\ proposal'.book = proposal.book
      /\ proposal'.status = "APPROVED"
  BY <1>1, <1>2 DEF Proposal
<1>4. OwnedTitles'
  BY <1>1, <1>3 DEF ShowInv, OwnedTitles
<1>5. ASSUME NEW e \in Entity, OwnTitles(e) PROVE Faithful(e)'
  <2>1. Faithful(e)
    BY <1>5 DEF ShowInv
  <2>2. /\ Awaits(TitleOf(e))' => Awaits(TitleOf(e))
        /\ ~Done(TitleOf(e))' /\ ~Done(ValueOf(e))'
    BY <1>1, <1>3 DEF Awaits, Done, TitleOf, ValueOf
  <2>3. CASE mapping[e] # None \/ Awaits(TitleOf(e))'
    <3>1. MatchValue(e)' = MatchValue(e)
      BY <1>1, <1>3, <2>3 DEF MatchValue, Goal, Awaits, TitleOf
    <3>2. Found(e)' = Found(e)
      BY <1>1, <3>1 DEF Found, Find
    <3>3. /\ mapping'[e] = mapping[e] /\ \A q \in Found(e) : page'[q] = page[q]
          /\ mapping[e] # None => page'[mapping[e].page] = page[mapping[e].page]
      BY <1>1
    <3> QED BY <1>1, <1>3, <2>1, <2>2, <3>1, <3>2, <3>3, Kept
  <2>4. CASE mapping[e] = None /\ ~Awaits(TitleOf(e))'
    BY <1>1, <2>2, <2>4 DEF Faithful, MappedPage, OldsAgree, NewlyMapped, ValueUntouched,
                            TitleDone, ValueDone
  <2> QED BY <2>3, <2>4
<1>6. InFlight' /\ Committed'
  BY <1>1, <1>3 DEF InFlight, Committed
<1> QED BY <1>4, <1>5, <1>6 DEF ShowInv

\* Together with the invariant of the pages it is inductive.
LEMMA ShowInductive ==
  ASSUME IInv, ShowInv, [Next]_vars PROVE ShowInv'
<1>1. CASE Next
  BY <1>1, EditShows, SyncShows, ApproveShows, InspectShows, BeginShows, WriteShows,
     WriteRefusedShows, WriteLostShows, SaveMappingShows, RecordShows, CommitShows, CrashShows,
     RecoverShows DEF Next
<1>2. CASE UNCHANGED vars
  <2>1. UNCHANGED <<book, page, mapping, proposal, outbox, pc, todo, written>>
    BY <1>2 DEF vars, notion
  <2>2. OwnedTitles' /\ Committed'
    BY <2>1 DEF ShowInv, OwnedTitles, Committed
  <2>3. \A e \in Entity : OwnTitles(e) => Faithful(e)'
    BY <2>1, Untouched DEF ShowInv
  <2>4. InFlight'
    BY <2>1 DEF ShowInv, InFlight, Answered, Saved, First, Place, StoredMatch, MatchValue, Goal,
                Found, Find, ValueOf
  <2> QED BY <2>2, <2>3, <2>4 DEF ShowInv
<1> QED BY <1>1, <1>2

\* What the outbox has is shown.
LEMMA DoneShown ==
  ASSUME IInv, ShowInv, proposal # None, NEW o \in proposal.scope \cap outbox, OwnTitles(o[1])
  PROVE  Shown(o) = Goal(o)
<1>1. o \in Op /\ o[1] \in Entity /\ OwnedTitles /\ Faithful(o[1])
  BY ProposalTyped, OpKinds DEF IInv, Proposal, ShowInv
<1>2. CASE o = TitleOf(o[1]) /\ o[2] = "title"
  <2>1. Done(TitleOf(o[1]))
    BY <1>2 DEF Done
  <2>2. Found(o[1]) # {} /\ MatchValue(o[1]) = Goal(o)
    BY <1>1, <1>2, <2>1 DEF Faithful, TitleDone
  <2>3. PICK q \in Found(o[1]) : Shown(o) = page[q].title
    BY <1>2, <2>2 DEF Shown
  <2> QED BY <1>1, <2>2, <2>3, FoundMine
<1>3. CASE o = ValueOf(o[1]) /\ o[2] = "value"
  <2>1. Done(ValueOf(o[1]))
    BY <1>3 DEF Done
  <2>2. PICK q \in Page : Found(o[1]) = {q} /\ page[q].value = Goal(o)
    BY <1>1, <1>3, <2>1 DEF Faithful, ValueDone
  <2> QED BY <1>3, <2>2 DEF Shown
<1> QED BY <1>1, <1>2, <1>3, OpKinds

\* A proposal is committed by the commit, and stays so as long as it is the latest.
LEMMA CommitsOnce ==
  ASSUME IInv, ShowInv, Next, proposal # None, proposal' # None, proposal'.status = "COMMITTED"
  PROVE  proposal.scope \subseteq outbox
<1>1. CASE Commit
  BY <1>1, CommitShows
<1>2. CASE proposal' = proposal
  BY <1>2 DEF ShowInv, Committed
<1>3. proposal \in Proposal
  BY ProposalTyped DEF IInv
<1>4. CASE Sync \/ Recover
  <2>1. Sync => proposal'.status = "APPROVED"
    BY DEF Sync
  <2>2. Recover => proposal'.status = "APPROVED"
    BY <1>3 DEF Recover, Proposal
  <2> QED BY <1>4, <2>1, <2>2
<1>5. CASE \E s \in {"STALE", "APPLYING", "FAILED"} : SetStatus(s)
  BY <1>3, <1>5 DEF SetStatus, Proposal
<1>6. \/ Commit \/ proposal' = proposal \/ Sync \/ Recover
      \/ \E s \in {"STALE", "APPLYING", "FAILED"} : SetStatus(s)
  BY DEF Next, Edit, Approve, InspectRaises, InspectConflicts, Begin, Write, WriteRefused,
         WriteLost, Failed, SaveMapping, Record, Crash
<1> QED BY <1>1, <1>2, <1>4, <1>5, <1>6

-----------------------------------------------------------------------------
(* What it is for.                                                            *)

\* Every variable keeps its type; above all, the match value that is saved with a
\* page is a title, never that of an entity without one (save_entity_mapping).
THEOREM TypeCorrect == Spec => []TypeOK
<1>1. IInv => TypeOK
  BY DEF IInv
<1> QED BY <1>1, Invariance, PTL

\* However often an apply crashes, loses an answer, is resumed or recovered, a
\* proposal creates at most one page for an entity (_match_value, upsert_page).
THEOREM CreatesOnePage == Spec => []OnePageForProposal
<1>1. IInv => OnePageForProposal
  BY DEF IInv
<1> QED BY <1>1, Invariance, PTL

\* When a proposal commits, the page of each of its operations shows what was
\* approved, whatever crashed or was lost on the way, for every entity that has
\* titles of its own (inspect, apply, save_entity_mapping).
THEOREM CommitIsShown == Spec => CommitShowsApproved
<1>1. Init => ShowInv
  BY ShowInitial
<1>2. IInv /\ ShowInv /\ [Next]_vars => ShowInv'
  BY ShowInductive
<1>3. IInv /\ ShowInv /\ [Next]_vars
        => [proposal # None /\ proposal' # None /\ proposal'.status = "COMMITTED"
              => \A o \in proposal.scope : OwnTitles(o[1]) => Shown(o) = Goal(o)]_vars
  BY CommitsOnce, DoneShown
<1> QED BY <1>1, <1>2, <1>3, Invariance, PTL DEF Spec, CommitShowsApproved
=============================================================================
