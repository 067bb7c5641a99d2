--------------------------- MODULE SyncCheckpoint ---------------------------
(* The cycle of one workbook: /nx_sync compares it with the checkpoint and    *)
(* prepares a proposal (workflow/sync.py), the operator decides, the apply    *)
(* writes, and its commit moves the checkpoint and the queue of deferred      *)
(* operations (finalize_success in persistence/database.py).                  *)
(*                                                                            *)
(* A row of the workbook proposes one value for one Notion property, so rows  *)
(* and properties are both Key.  ProposalApply has the apply in detail; here  *)
(* it is its visible steps: start, resume, write, fail, commit.  PENDING also *)
(* stands for an APPROVED proposal, and APPLYING for one whose run was cut    *)
(* off: two proposals may both be APPLYING, as they may be there.             *)
EXTENDS Naturals

CONSTANTS
  Key, Value,
  Version,     \* contents the workbook file has, each with its own hash
  First,       \* the one it has at first
  Follows,     \* <<v, w>>: content w may replace content v
  Restores,    \* the same, when the file of content w is put back
  Content,     \* [Version -> [Key -> Value]], their rows
  Proposal,    \* proposals that can be open or remembered at once
  MaxId,       \* bound on the operation ids in use for one property
  WikiKeys,    \* properties whose changes carry Wiki citations
  Decisions,   \* what the operator answers to an operation with /nx_set
  HandValues,  \* values people type in Notion
  MaxEdits,    \* bound on their edits and on the files put back
  None

Id    == Key \X (1 .. MaxId)
Op    == [id : Id, value : Value, old : Value, landed : BOOLEAN,
          action : {"APPLY", "EXCLUDE", "DEFER"}]
Empty == [k \in Key |-> None]

ASSUME SyncAssumption ==
  /\ MaxId \in Nat \ {0}
  /\ MaxEdits \in Nat
  /\ First \in Version
  /\ Follows \subseteq Version \X Version
  /\ Restores \subseteq Version \X Version
  /\ Content \in [Version -> [Key -> Value]]
  /\ WikiKeys \subseteq Key
  /\ HandValues \subseteq Value
  /\ Decisions \subseteq {"APPLY", "EXCLUDE", "DEFER"}
  /\ None \notin Version
  /\ None \notin Op

VARIABLES
  source,     \* the workbook's content
  notion,     \* [Key -> Value]
  checkpoint, \* the version of the last complete apply, or None
  pending,    \* unresolved rows of pending_change: [id, value]
  prop,       \* [Proposal -> its status and the version it was prepared from]
  ops,        \* [Proposal -> [Key -> its operation on that property, or None]]
  sync,       \* where the /nx_sync thread stands and what it has read
  edits,      \* edits in Notion and files put back so far
  settled,    \* history: properties a person set, excluded, or agreed to set, to
              \* something else than the workbook's value
  stray       \* history: properties with a value that no checkpoint explains

vars == <<source, notion, checkpoint, pending, prop, ops, sync, edits, settled, stray>>

SyncPhase  == {"idle", "pending", "recheck", "noop", "create"}
PropStatus == {"none", "PENDING", "APPLYING", "FAILED", "STALE"}
Queued     == [id : Id, value : Value]

\* back (history): the workbook was put back to the proposal's version; while
\* /nx_sync ran, it was put back to that of a proposal.
NoProposal == [status |-> "none", version |-> First, back |-> FALSE]
IdleSync   == [phase |-> "idle", baseline |-> None, current |-> First, queue |-> {},
               back |-> FALSE]

PropRec == [status : PropStatus, version : Version, back : BOOLEAN]
SyncRec == [phase : SyncPhase, baseline : Version \cup {None}, current : Version,
            queue : SUBSET Queued, back : BOOLEAN]

TypeOK ==
  /\ source \in Version
  /\ notion \in [Key -> Value]
  /\ checkpoint \in Version \cup {None}
  /\ pending \subseteq Queued
  /\ prop \in [Proposal -> PropRec]
  /\ ops \in [Proposal -> [Key -> Op \cup {None}]]
  /\ sync \in SyncRec
  /\ edits \in 0 .. MaxEdits
  /\ settled \subseteq Key /\ stray \subseteq Key

\* Before the first run, or after the commit of the first proposal.
Init ==
  /\ source = First
  /\ checkpoint \in {None, First}
  /\ notion \in [Key -> Value]
  /\ \A k \in Key : notion[k] \in {Content[First][k]} \cup
                    (IF checkpoint = None THEN HandValues ELSE {})
  /\ pending = {}
  /\ prop = [p \in Proposal |-> NoProposal]
  /\ ops = [p \in Proposal |-> Empty]
  /\ sync = IdleSync
  /\ edits = 0
  /\ settled = {} /\ stray = {}

-----------------------------------------------------------------------------
(* What the handlers compute.                                                 *)

\* A proposal that can come to a commit again.
Known(p)  == prop[p].status # "none"
Open(p)   == prop[p].status \in {"PENDING", "APPLYING", "FAILED"}
Scope(p)  == {k \in Key : ops[p][k] # None}
Writes(p) == {k \in Scope(p) : ops[p][k].action = "APPLY"}

SetStatus(p, s) == prop' = [prop EXCEPT ![p].status = s]

\* REJECTED and COMMITTED are final: the proposal is forgotten.
Forget(p) == prop' = [prop EXCEPT ![p] = NoProposal] /\ ops' = [ops EXCEPT ![p] = Empty]

\* The operations f of a new revision: none of it was attempted.
Revision(p, f) ==
  /\ SetStatus(p, "PENDING")
  /\ ops' = [ops EXCEPT ![p] = [k \in Key |->
        IF f[k] = None THEN None ELSE [f[k] EXCEPT !.landed = FALSE]]]

\* diff_snapshots; the first run reconciles every row.
ChangedRows(baseline, v) ==
  IF baseline = None THEN Key ELSE {k \in Key : Content[baseline][k] # Content[v][k]}

\* The rows of the running /nx_sync: none when the version is the checkpoint's.
Rows == IF sync.baseline = sync.current THEN {} ELSE ChangedRows(sync.baseline, sync.current)

\* An operation id nothing refers to (uuid4).
InUse == {x.id : x \in pending \cup sync.queue}
         \cup UNION {{ops[p][k].id : k \in Scope(p)} : p \in {q \in Proposal : Open(q)}}
FreshId(k) == CHOOSE x \in Id : x[1] = k /\ x \notin InUse

\* propose omits a value that Notion already shows.  _merge_pending: a proposed
\* value takes over the id of the operation deferred on its property; a deferred
\* operation without one comes back as it was.
Merged(rows, queue, v) ==
  [k \in Key |->
     LET fresh    == k \in rows /\ Content[v][k] # notion[k]
         deferred == {x \in queue : x.id[1] = k}
         x        == CHOOSE y \in deferred : TRUE
     IN  IF ~fresh /\ deferred = {} THEN None
         ELSE [id     |-> IF deferred = {} THEN FreshId(k) ELSE x.id,
               value  |-> IF fresh THEN Content[v][k] ELSE x.value,
               old    |-> notion[k],
               landed |-> FALSE,
               action |-> "APPLY"]]

\* The properties that the checkpoint of version v leaves unexplained: what was
\* so before it, and any if the workbook was put back (history).
Unexplained(v, back) == {k \in Key : (back \/ k \in stray) /\ notion[k] # Content[v][k]}

\* Two unresolved deferred operations target the same property, or one of them
\* carries citations: prepare raises.
Collides(queue)  == \E x, y \in queue : x # y /\ x.id[1] = y.id[1]
WikiBound(queue) == \E x \in queue : x.id[1] \in WikiKeys

-----------------------------------------------------------------------------
(* /nx_sync: SyncPreparationService.prepare.  One such command runs at a time.*)

SyncEnds == sync' = IdleSync

\* _versions: the current version and the checkpoint's.
SyncVersions ==
  /\ sync.phase = "idle"
  /\ sync' = [IdleSync EXCEPT !.phase = "pending", !.current = source, !.baseline = checkpoint]
  /\ UNCHANGED <<source, notion, checkpoint, pending, prop, ops, edits, settled, stray>>

\* Mutant of SyncPending: an unchanged workbook ends the command at once.
SyncPendingUnread ==
  /\ sync.phase = "pending"
  /\ IF WikiBound(pending) \/ sync.baseline = sync.current THEN SyncEnds
     ELSE sync' = [sync EXCEPT !.phase = "recheck", !.queue = pending]
  /\ UNCHANGED <<source, notion, checkpoint, pending, prop, ops, edits, settled, stray>>

\* load_pending_operations; a deferred operation with citations ends the command,
\* and so does an unchanged workbook with an empty queue.
SyncPending ==
  /\ sync.phase = "pending"
  /\ IF WikiBound(pending) \/ (sync.baseline = sync.current /\ pending = {}) THEN SyncEnds
     ELSE sync' = [sync EXCEPT !.phase = "recheck", !.queue = pending]
  /\ UNCHANGED <<source, notion, checkpoint, pending, prop, ops, edits, settled, stray>>

\* The workbook is read and the versions are listed again, so what was read is
\* the current version (see SourceMoves).  Two operations on one property are
\* refused only when the changes are merged, with the same outcome.
SyncRecheck ==
  /\ sync.phase = "recheck"
  /\ IF source # sync.current \/ Collides(sync.queue) THEN SyncEnds
     ELSE sync' = [sync EXCEPT !.phase = IF Rows = {} /\ sync.queue = {} THEN "noop"
                                         ELSE "create"]
  /\ UNCHANGED <<source, notion, checkpoint, pending, prop, ops, edits, settled, stray>>

\* commit_noop_checkpoint: nothing to propose.
SyncNoop ==
  /\ sync.phase = "noop"
  /\ checkpoint' = sync.current
  /\ stray' = Unexplained(sync.current, sync.back)
  /\ SyncEnds
  /\ UNCHANGED <<source, notion, pending, prop, ops, edits, settled>>

\* The analysis reads Notion, ProposalService.create and request_approval save
\* the proposal.  A changed row brings a provenance record, so that the proposal
\* is never empty even when Notion already shows the row's value.
SyncCreate(p) ==
  /\ sync.phase = "create"
  /\ ~Open(p)
  /\ \A k \in Rows : \E n \in 1 .. MaxId : <<k, n>> \notin InUse
  /\ prop' = [prop EXCEPT ![p] =
        [status |-> "PENDING", version |-> sync.current, back |-> sync.back]]
  /\ ops' = [ops EXCEPT ![p] = Merged(Rows, sync.queue, sync.current)]
  /\ SyncEnds
  /\ UNCHANGED <<source, notion, checkpoint, pending, edits, settled, stray>>

-----------------------------------------------------------------------------
(* The operator's decisions.                                                  *)

Set(p, k, a) ==
  /\ prop[p].status \in {"PENDING", "FAILED", "STALE"}
  /\ k \in Scope(p) /\ ops[p][k].action # a
  /\ Revision(p, [ops[p] EXCEPT ![k].action = a])
  /\ UNCHANGED <<source, notion, checkpoint, pending, sync, edits, settled, stray>>

Reject(p) ==
  /\ prop[p].status \in {"PENDING", "FAILED", "STALE"}
  /\ Forget(p)
  /\ UNCHANGED <<source, notion, checkpoint, pending, sync, edits, settled, stray>>

\* Notion shows the value of an operation, and did not show it when it was prepared.
Shown(p, k) == notion[k] = ops[p][k].value /\ notion[k] # ops[p][k].old

\* Notion shows something the operation neither expects nor asks for.
Conflict(p, k) == notion[k] \notin {ops[p][k].old, ops[p][k].value}

\* /nx_recover: what was written, or is found written, leaves the scope.
Recover(p) ==
  /\ prop[p].status = "FAILED"
  /\ source = prop[p].version
  /\ \A k \in Writes(p) : ops[p][k].landed \/ ~Conflict(p, k)
  /\ Revision(p, [k \in Key |->
        IF k \in Writes(p) /\ (ops[p][k].landed \/ Shown(p, k))
        THEN [ops[p][k] EXCEPT !.action = "EXCLUDE"] ELSE ops[p][k]])
  /\ UNCHANGED <<source, notion, checkpoint, pending, sync, edits, settled, stray>>

-----------------------------------------------------------------------------
(* The apply.                                                                 *)

\* The workbook must be the proposal's, in id and in hash.  What inspect finds
\* applied is done, a conflict ends the proposal; a resumed run does not look
\* again at what it had recorded as done.
Begin(p, from) ==
  /\ prop[p].status = from
  /\ source = prop[p].version
  /\ LET done(k) == Shown(p, k) \/ (from = "APPLYING" /\ ops[p][k].landed)
     IN  IF \E k \in Writes(p) : Conflict(p, k) /\ ~done(k)
         THEN SetStatus(p, "STALE") /\ UNCHANGED ops
         ELSE /\ SetStatus(p, "APPLYING")
              /\ ops' = [ops EXCEPT ![p] = [k \in Key |->
                    IF k \in Writes(p) THEN [ops[p][k] EXCEPT !.landed = done(k)]
                    ELSE ops[p][k]]]
  /\ UNCHANGED <<source, notion, checkpoint, pending, sync, edits, settled, stray>>

Start(p)  == Begin(p, "PENDING")
Resume(p) == Begin(p, "APPLYING")

\* The version, the value and the PATCH are requests of their own in the code,
\* and in ProposalApply.  A value that is not the workbook's reaches Notion with
\* the operator's consent.
Write(p, k, answered) ==
  /\ prop[p].status = "APPLYING"
  /\ source = prop[p].version
  /\ k \in Writes(p) /\ ~ops[p][k].landed /\ notion[k] = ops[p][k].old
  /\ notion' = [notion EXCEPT ![k] = ops[p][k].value]
  /\ settled' = IF ops[p][k].value = Content[prop[p].version][k] THEN settled
                ELSE settled \cup {k}
  /\ stray' = stray \cup {k}
  /\ ops' = [ops EXCEPT ![p][k].landed = answered]
  /\ SetStatus(p, IF answered THEN "APPLYING" ELSE "FAILED")
  /\ UNCHANGED <<source, checkpoint, pending, sync, edits>>

\* A conflict, a changed workbook or a refused request in the write loop.
Fail(p) ==
  /\ prop[p].status = "APPLYING"
  /\ SetStatus(p, "FAILED")
  /\ UNCHANGED <<source, notion, checkpoint, pending, ops, sync, edits, settled, stray>>

\* Every write landed and the workbook is still the proposal's.
Complete(p) ==
  /\ prop[p].status = "APPLYING"
  /\ source = prop[p].version
  /\ \A k \in Writes(p) : ops[p][k].landed

\* Of the properties that need not show the workbook's value, those that indeed
\* do not when p is committed (history).
SettledBy(p) ==
  {k \in settled \cup {u \in Scope(p) : ops[p][u].action = "EXCLUDE"} :
     notion[k] # Content[prop[p].version][k]}

\* Mutant of Commit: deferred operations are not queued.
CommitForgettingDeferred(p) ==
  /\ Complete(p)
  /\ Forget(p)
  /\ checkpoint' = prop[p].version
  /\ pending' = {x \in pending : \A k \in Scope(p) : ops[p][k].id # x.id}
  /\ settled' = SettledBy(p) /\ stray' = Unexplained(prop[p].version, prop[p].back)
  /\ UNCHANGED <<source, notion, sync, edits>>

\* Mutant of Commit: the queue keeps no value.
CommitWithoutValue(p) ==
  /\ Complete(p)
  /\ Forget(p)
  /\ checkpoint' = prop[p].version
  /\ pending' = {x \in pending : \A k \in Scope(p) : ops[p][k].id # x.id}
                \cup {[id |-> ops[p][k].id, value |-> None] :
                        k \in {u \in Scope(p) : ops[p][u].action = "DEFER"}}
  /\ settled' = SettledBy(p) /\ stray' = Unexplained(prop[p].version, prop[p].back)
  /\ UNCHANGED <<source, notion, sync, edits>>

\* finalize_success: every deferred operation is queued, every other one leaves
\* the queue.
Commit(p) ==
  /\ Complete(p)
  /\ Forget(p)
  /\ checkpoint' = prop[p].version
  /\ pending' = {x \in pending : \A k \in Scope(p) : ops[p][k].id # x.id}
                \cup {[id |-> ops[p][k].id, value |-> ops[p][k].value] :
                        k \in {u \in Scope(p) : ops[p][u].action = "DEFER"}}
  /\ settled' = SettledBy(p) /\ stray' = Unexplained(prop[p].version, prop[p].back)
  /\ UNCHANGED <<source, notion, sync, edits>>

-----------------------------------------------------------------------------
(* The workbook is saved again; a person edits Notion.                        *)

\* A version is the hash of a file, so one that is put back is the same version.
\* What /nx_sync is downloading is not put back before it is there.
SourceMoves(v) ==
  /\ \/ <<source, v>> \in Follows /\ UNCHANGED edits
     \/ <<source, v>> \in Restores /\ edits < MaxEdits /\ edits' = edits + 1
  /\ ~(sync.phase = "recheck" /\ v = sync.current)
  /\ source' = v
  /\ LET again(p) == Known(p) /\ prop[p].version = v
     IN  /\ prop' = [p \in Proposal |->
               IF again(p) THEN [prop[p] EXCEPT !.back = TRUE] ELSE prop[p]]
         /\ sync' = IF sync.phase # "idle" /\ (\E p \in Proposal : again(p))
                    THEN [sync EXCEPT !.back = TRUE] ELSE sync
  /\ UNCHANGED <<notion, checkpoint, pending, ops, settled, stray>>

PersonEdits(k, v) ==
  /\ edits < MaxEdits
  /\ notion[k] # v
  /\ notion' = [notion EXCEPT ![k] = v]
  /\ edits' = edits + 1
  /\ settled' = settled \cup {k}
  /\ UNCHANGED <<source, checkpoint, pending, prop, ops, sync, stray>>

-----------------------------------------------------------------------------
SyncStep == \/ SyncPending \/ SyncRecheck \/ SyncNoop
            \/ \E p \in Proposal : SyncCreate(p)

ApplyStep(p) == \/ Commit(p)
                \/ Fail(p)
                \/ \E k \in Key, answered \in BOOLEAN : Write(p, k, answered)

Decide(p) == \/ Reject(p) \/ Recover(p) \/ Start(p) \/ Resume(p)
             \/ \E k \in Key, a \in Decisions : Set(p, k, a)

World == \/ \E v \in Version : SourceMoves(v)
         \/ \E k \in Key, v \in HandValues : PersonEdits(k, v)

Next == \/ SyncVersions \/ SyncStep
        \/ \E p \in Proposal : ApplyStep(p) \/ Decide(p)
        \/ World

Spec == Init /\ [][Next]_vars

\* The remote calls of /nx_sync and of an apply end; the operator keeps asking
\* for /nx_sync, and rejects in the end what he does not get committed.
FairSpec ==
  /\ Spec
  /\ WF_vars(SyncVersions) /\ WF_vars(SyncStep)
  /\ \A p \in Proposal : WF_vars(ApplyStep(p)) /\ SF_vars(Reject(p))

-----------------------------------------------------------------------------
(* Properties.                                                                *)

\* The change of a property is deferred.
IsQueued(k) == \E x \in pending : x.id[1] = k

\* A property shows the value of the version the checkpoint moves to, its change
\* was deferred, or a person decided otherwise.
Mirrored(k) == notion[k] = Content[checkpoint'][k] \/ IsQueued(k)' \/ k \in settled'

\* The comparison had nothing to say of a property: its row is as it was at the
\* previous checkpoint, and an apply that never committed wrote it in between.
\* Later comparisons start from the new checkpoint and look at nothing older.
LeftStray(k) ==
  /\ k \in stray' /\ checkpoint # None
  /\ Content[checkpoint'][k] = Content[checkpoint][k]

\* A step of what was made before the workbook was put back.
OfOldFile ==
  \/ \E p \in Proposal : prop[p].back /\ Commit(p)
  \/ sync.back /\ SyncNoop

\* When the checkpoint moves, every property is mirrored, unless it was left
\* stray: whatever other proposals did, and whatever became of the workbook, as
\* long as it was not put back under the proposal or the /nx_sync at work.
CheckpointMirrored ==
  [][checkpoint' # checkpoint /\ ~OfOldFile
       => \A k \in Key : Mirrored(k) \/ LeftStray(k)]_vars

\* A deferred change is put to the operator again by a later /nx_sync, whether or
\* not the workbook changed meanwhile, as long as the queue holds neither two
\* operations on one property nor one with citations.
DeferredComesBack ==
  \A k \in Key :
    IsQueued(k) /\ [](~Collides(pending) /\ ~WikiBound(pending))
      ~> ~IsQueued(k) \/ \E p \in Proposal : Open(p) /\ k \in Scope(p)

=============================================================================
