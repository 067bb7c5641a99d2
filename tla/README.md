# notion-excel-sync in TLA+

The program watches one Excel workbook, proposes the Notion changes that its
rows call for, and writes them once an operator has approved them in Telegram.
This directory holds its specification: what the components do, which promises
they keep under interleaving, crashes and lost answers, and which of the
documented promises the code does not keep. Paths below are relative to
`src/src/notion_excel_sync/` unless they name something else.

- [The system](#the-system)
- [Modules](#modules) and how they correspond to the code
- [Runs](#runs): what is checked, with which bounds, and what it shows
- [Fairness](#fairness)
- [Proofs](#proofs)
- [Where the code and its documents differ](#where-the-code-and-its-documents-differ)
- [Not modelled](#not-modelled), [Plan](#plan)

## The system

One gateway process (Hermes with the plugin
`src/.hermes/plugins/notion-excel-sync-attestor`) receives Telegram commands
and runs each in a thread. All durable state is one SQLite file. A typical
round: `/nx_sync` compares the workbook with the last committed version and
prepares a *proposal*; the operator edits it with `/nx_set`, and `/nx_approve`
issues a single-use *receipt* and applies the proposal to Notion, property by
property; the last transaction commits the proposal and moves the *checkpoint*.

| Component | State it keeps | Operations | Talks to |
|---|---|---|---|
| Gateway plugin (`.hermes/plugins/...`) | `_ACTIVE`, the keys of running commands | admit, run guarded | every command; one per proposal, one `/nx_sync` |
| Gateway commands (`security/hermes_gateway.py`) | none of its own | sync, show, set, reject, approve, redeliver, recover | proposal service, receipts, apply, sync |
| Sync preparation (`workflow/sync.py`, `diff.py`) | none of its own | prepare | workbook adapter, analyzers, Notion reader, proposal service; reads checkpoint and pending queue |
| Proposal service (`workflow/proposals.py`) | proposal head and revisions | create, edit, request approval, approve, reject, recovery revision | database |
| Approval receipts (`security/approval.py`) | receipt, nonce | issue, verify | database |
| Approval-gated apply (`workflow/apply.py`) | outbox rows | verify, inspect, begin, write loop, finalize | lease, writer, database |
| Apply lease (`persistence/database.py`) | one row per source | acquire, heartbeat, release | processes of the host |
| State database (`persistence/database.py`) | the tables above, pending queue, checkpoint, audit log, entity mappings | transactions | all |
| Notion writer and verifier (`workflow/notion_writer.py`) | intended mutations | inspect, preflight, apply | Notion adapter |
| Notion adapter (`adapters/notion.py`) | none | query, upsert, create database | Notion over HTTP, no conditional write |
| Schema workflow (`security/hermes_schema_gateway.py`, `schema_approval.py`, `schema_recovery.py`, `workflow/notion_schema.py`) | schema proposals, receipts, journal, installations | plan, approve, apply, recover | Notion adapter, lease |
| Wiki index and refresh (`knowledge/`) | generation, file lock, staging | refresh, publish, bind | local directory, mail, checkpoints |
| Ingestion checkpoints (`persistence/database.py`) | T0, one payload per stream | initialize once, save | refresh, mail |
| Mail and local files (`adapters/hiworks_mail.py`, `local_directory.py`, `local_workbook.py`, `onedrive.py`) | POP3 session, directory scan | collect, list versions, download | host and mail server |
| Analyzers, routing, extraction (`domain/`, `knowledge/extractors.py`) | none | rows to proposed values | pure |
| Telegram layout, configuration, command line, install scripts | configuration | parse, render, install | host |

What is hard, and the property of each component that follows from it:

- **Two threads, one workbook.** Only one apply may write at a time, across
  threads, processes and restarts; a dead process must not keep the others out
  (lease).
- **Crash at any step of an apply.** The nonce is consumed before the first
  write, each write is marked after it; a resumed run must neither repeat a
  write nor believe in one that did not happen (apply, outbox).
- **Answers that never come.** A PATCH may have taken effect although the
  request failed (writer, recovery).
- **No conditional write in Notion.** The property is compared and then patched,
  and a person may edit it between the two (verifier).
- **The checkpoint is the memory of the system.** The next comparison starts
  there and sees nothing older, so it may move only when every change up to
  there was written, deferred or declined (sync, commit).
- **A deferred change lives in a queue of its own**, and has to come back
  whether or not the workbook changes (sync, pending queue).
- **The command that creates a Notion database must never be repeated**, only
  its result looked for (schema workflow).
- **A Wiki generation is replaced while proposals are bound to the old one**
  (refresh, apply), and the folder it is made from changes while it is read.
- **A page is known by its title until its mapping is saved** (writer): a crash
  between the two must not make a second page.
- **A mail is read once**: a checkpoint that runs ahead of the publication, or a
  Message-ID remembered too early, loses it (mail).

The complete list, each at its line, is under `hazards` in `PROJECT.json`.

## Modules

| Module | Models | Uses |
|---|---|---|
| `ProposalStatus` | `ProposalStatus` and the sets of statuses in which an action is admitted | |
| `ApplyLease` | the lease protocol of any number of workers and processes: the abstract promise | `ProposalStatus` |
| `ApplyLeaseProofs` | theorems of it | `ApplyLease` |
| `ProposalApply` | commands on proposals and the whole apply, step by step, with crashes and disturbances | `ProposalStatus`, `ApplyLease` (refinement) |
| `ProposalApplyProofs` | theorems of it: types, receipts, authorised writes, the refinement; then what Notion shows, the outbox and the checkpoint | `ProposalApply` |
| `SyncCheckpoint` | the cycle sync - decide - apply - commit over a workbook that changes | |
| `SyncCheckpointProofs` | theorems of it | `SyncCheckpoint` |
| `PageMapping` | the page of an entity: lookup, creation, the saved mapping | |
| `PageMappingProofs` | theorems of it | `PageMapping` |
| `SingleCreation` | what the schema workflow promises about one Notion page | |
| `SchemaCreation` | the `/nx_schema_...` commands, step by step | `SingleCreation` (refinement) |
| `SchemaCreationProofs` | theorems of it | `SchemaCreation` |
| `SourceSnapshot` | what a refresh of the Wiki promises: the folder at one instant | |
| `WikiRefresh` | scans, catalog, downloads and publication over a folder that changes | `SourceSnapshot` (refinement) |
| `WikiRefreshProofs` | theorems of it | `WikiRefresh` |
| `WikiGeneration` | syncs, refreshes and applies around the generation lock; views, checkpoints and T0 | |
| `WikiGenerationProofs` | theorems of it | `WikiGeneration` |
| `MailCollection` | from the mailbox to the Wiki | |
| `MailCollectionProofs` | theorems of it | `MailCollection` |
| `MC...` | instances for TLC | |

### ApplyLease

`lease` is the `source_apply_lease` row, `held` what each worker believes it
holds (the context of `apply_lease`), `head` the proposals' revision and status,
`alive` the processes, `ownerUp` a history variable: the process that inserted
the row has not died since. Every function is one transaction (`BEGIN
IMMEDIATE`), hence one action: `Acquire` (with the owner test of
`_process_is_alive` and the holder's status in `MayAcquire`), `Release` (the
`finally` clause), `ReleaseFails` (its DELETE raises). The heartbeat changes
nothing, and what matters is whether it would find its row: `OwnsRow`. The
status changes of the commands and of the apply are abstract moves here;
`ProposalApply` shows that its threads make no others. The key of the source
is left out: one workbook.

### ProposalApply

A proposal has one thread at most (the plugin's `_ACTIVE` set), so threads are
named by their proposals and `pc` is the place in `_apply_under_lease` or in the
command. Each label is one transaction, one remote read or one remote write:

| Label | Code |
|---|---|
| `capture` | `_capture_current_source` before the apply |
| `acquire` | `acquire_apply_lease` |
| `verify` | load, `ApprovalService.verify(consume=False)`, Wiki binding |
| `inspect` | `ApprovedNotionWriter.inspect`, one operation per step |
| `guard` | the version and the Wiki are read again |
| `begin` | `begin_apply`: consume the nonce, write the outbox, set APPLYING |
| `reconcile` | mark what inspect found applied; reset the rest when resuming |
| `recheck`, `preflight`, `patch`, `record` | the write loop |
| `failing`, `fail` | its `except` clause: mark failed, block the rest, FAILED |
| `final`, `commit` | second look at the version, `finalize_success` |
| `release` | the lease's `finally` clause |
| `request`, `recover` | second transactions of `/nx_set` and `/nx_recover` |

A receipt is reduced to what `verify` decides on: `none`, `live`, `expired`,
`used`. Disturbances (`Faults`) are actions of their own that may happen between
any two steps: the gateway dies, a step raises, a PATCH takes effect without an
answer, the DELETE of the lease fails, a person edits a property, the workbook
or the Wiki changes, time passes. A deferred operation keeps its id when a later
proposal takes it over, and outbox rows are found by that id: an operation of two
proposals is `Shared`, they decide on it apart, and it has one row for both. `landed`, `effects`, `raced`, `decision` and
`ownerUp` are history variables that only properties read.

### SyncCheckpoint

Here an apply is only its visible steps, since the interest is in many proposals
one after another: `Start`, `Resume`, `Write`, `Fail`, `Commit`, and the
operator's `Set`, `Reject`, `Recover`. `/nx_sync` is the thread `sync`:

| Action | Code in `SyncPreparationService` |
|---|---|
| `SyncVersions` | `_versions`: current version and checkpoint |
| `SyncPending` | `load_pending_operations`, refusal of deferred citations, early return |
| `SyncRecheck` | download, diff, and `_versions` again |
| `SyncNoop` | `commit_noop_checkpoint` |
| `SyncCreate` | analysis against Notion's values, `_merge_pending`, `create`, `request_approval` |

A workbook row proposes one value of one Notion property. Operation ids are
`<<property, n>>`, one that nothing refers to any more for `uuid4`, which keeps the
state space finite and cannot be told apart by the code. `settled` (history) holds the properties that need not show
the workbook's value: a person edited or excluded them, or the operator approved
a deferred value of an older workbook. `Key` are properties, `WikiKeys` those
whose changes carry Wiki citations. The workbook is the local one of the
documented set-up (`first_run_full_reconcile`): without a checkpoint every row is
a change.

The last look at the version, the comparison and the PATCH are one step here,
`Write`; they are separate requests in the code and in `ProposalApply`, where
what may come between them is checked (`OverwritesOnlyReviewed`).

The workbook may be saved with any content that `Follows` admits, and a file it had before
may be put back (`Restores`). A version is the hash of the file, so a file that is put back makes what
was prepared from it current again. `back` (history) marks a proposal whose version
was left and came back, and a `/nx_sync` during which that happened to a
proposal; `stray` the properties with a value that no checkpoint explains.

### PageMapping

An apply again, for the sake of its pages: `mapping` is the `entity_mapping`
table, `page` the pages of one Notion data source. An entity without a mapping
is looked up by its *match value*: the title approved in the same proposal, or
the end of its key (`MatchValue`). A page is created by the operation on its
title; the others patch it. `written` is the answer the writer holds between the
request and `save_entity_mapping`, the step a crash may take away. One proposal
is applied at a time and only the writer writes: what leases and edits in Notion
add is in `ProposalApply`. `Sync` reads the current values as
`NotionCurrentValueReader` does, by mapping, by the proposed title or by the key
(`Old`). `Order` is that of the proposal, in which the titles of a data source come
before its other properties (`_sort_changes`); the apply writes in that order.
`Recover` is the whole `/nx_recover`: it inspects what is not done, refuses on a
conflict or when an inspection raises, marks what Notion shows as done, and
returns a revision without what is done. A title whose page was created without an
answer is out of that revision, so its entity has no match value but the end of its
key. Entities may share titles; `OwnTitles(e)` says of one that it does not.

### SchemaCreation

The creation of the one database the program may create. A proposal has one
thread; its steps are the transactions, the readings of Notion and the POST:

| Actions | Code |
|---|---|
| `PlanBegin`, `Survey`, `SavePlan` | `_dispatch_plan` |
| `Deliver`, `Redeliver`, `Complete`, `AnswerMessage` | the claim of a message and its stored answer |
| `Reject`, `ApproveSettled`, `ApproveExpired`, `ApproveEnter` | what is decided before the lease |
| `Preview`, `Issue`, `Reissue`, `Begin`, `Recheck`, `Attempt` | receipt, journal row, checks up to the request |
| `Post`, `TakesEffect`, `Answered`, `Refused`, `Unanswered` | the request, which may take effect after the caller gave up |
| `Record`, `Verify`, `Finalize`, `MarkFailed`, `MarkUnknown` | the answer and what is registered |
| `RecoverEnter` to `Register` | `/nx_schema_recover`: claim, evidence, signature, reading, adoption |
| `Raise`, `Crash`, `Restart`, `RestartRotated`, `Expire` | disturbances of the gateway |
| `UserDrifts`, `UserEdits`, `Configure` | people and Notion |

The marker of a database and its properties are one flag (`exact`), ids are an
exact pair, and a receipt is verified for the message it was issued to and no
other (`Verified`). The state of the parent page, the bot and the related databases
is a member of `Base`. Answers are what they claim about Notion. The refusal of
a second active proposal and the failing save of a plan cannot happen with one
plan at a time and are left out; a receipt that expires between its check and
`begin` counts as expired at `Begin`.

### WikiRefresh

A scan is not atomic: `ListRoot`, `ComesNext`, `LookUp`, `ListFolder` are its
calls to the file system, and a file or folder may be written, moved, renamed or
deleted between any two. What a scan returns is `scan.got`. `Start` to
`CheckpointRead` and `DeltaRead` are an incremental refresh; `WalkRead`,
`CatchupRead`, `RootRead` and `Retry` the full catalog, whose second scan shows
whether the first was disturbed; `Select`, `Download`, `Confirm`,
`DocumentsRead` and `FinalRead` read the texts and look once more; `Publish`
replaces the index. The folder is one level of folders; every change gives times
never used before; a rejected or unreadable file is in `Refused` or
`Unreadable`; a failure (`Fail`) stands for every exception. The refresh is that
of a local folder: `source.mode` `local_filesystem`.

### WikiGeneration

Around the refresh: one generation lock in a file (`Acquire`, `LockTimeout`,
`Unlock`), the `wiki-refresh` commands, `/nx_sync`, which first makes sure of T0
(`Baseline`), refreshes, publishes its views (`Stage`, `SetCurrent`, `SaveRow`,
in two layers) and searches the index for its proposal (`Status`, `Query`), and
the applies, which hold the lock from the check of their binding to the last
write (`Guard`, `Write`). A generation is the number of the folder's state, or of the
sync that read the workbook. A refresh is its effect here, which `WikiRefresh`
justifies. Without an index there is no provider and a proposal cites nothing.

### MailCollection

`Collect`, `Process` and `Close` are `HiworksIncrementalMailReader.collect` for
the mails of its candidates, `WriteFile` to `WriteCurrent` the publication,
`Save` the checkpoint. Nothing in the repository calls `collect`; the order of
publication and checkpoint is the one `data-contract.md` prescribes, and the
command is marked external. A mail is its UIDL, its Message-ID and how its
header and body read; other programs deliver and delete mails at any step. The
mailbox is a set of mails numbered in the order of their delivery, which is the
order POP3 lists them in; the candidates are the oldest that were not seen.

## Runs

All runs finish within five minutes with two workers. Deadlock is checked in
`wiki_refresh` and `mail_collect`, whose commands can always be given again; the
other instances may come to rest (all proposals ended, no disturbance left, the
last content of the workbook synchronised, all page ids used).

| Run | Instance | Shows |
|---|---|---|
| `lease` | 2 workers, 3 processes, 2 proposals, 2 revisions, 3 tokens, symmetric | `MutualExclusion`, `HeartbeatFindsRow` |
| `apply_disturbed` | 1 Wiki-bound proposal of 2 operations, edit and defer, 2 revisions, any 2 of 8 kinds of disturbance | the safety of an apply, below |
| `two_proposals` | 2 proposals of one operation each, 2 disturbances (crash, edit, raise, Wiki) | `ImplementsLease`, `ApplyingEnds` |
| `shared_operation` | 2 proposals that share an operation, one with another beside it, EDIT, 2 disturbances (crash, edit, raise, lost answer) | `RecoveryDropsOnlyLanded`, `CheckpointMovesWithCommit` of a shared row |
| `sync_cycle` | 2 properties (one with citations), 4 contents in a row, 1 open proposal, 1 edit in Notion or 1 file put back | `CheckpointMirrored`, `DeferredComesBack` |
| `pages` | 3 entities, one with titles of its own and two that share theirs, 3 saves of the workbook, 2 faults, 3 pages | `OnePageForProposal`, `CommitShowsApproved` |
| `page_shared` | 2 entities with one title, no fault | counterexample to `PageOfOneEntity` |
| `schema_safety` | 2 proposals, 3 messages, 2 databases, any 2 of 9 kinds of disturbance | `ImplementsSingleCreation`, `PostIsAuthorised`, `AnswersAreTrue` |
| `schema_recovery` | 1 proposal, 3 messages used again, the 5 disturbances up to a process with another secret | `AdoptionAttested`, `AdoptableAdopted` |
| `wiki_refresh` | 2 folders, 2 files (one unreadable), 1 document fits, 2 changes | `ImplementsSnapshot`, `QuietSourceIndexed` |
| `wiki_generation` | 1 sync thread (2 syncs), 2 refresh commands, 2 applies, 2 changes, 1 fault | the rest of the Wiki, below |
| `mail_collect` | 3 mails of 5 kinds, 2 per batch, 1 fault | `NothingLost`, `MailIsProcessed` |

`apply_disturbed` checks that a receipt is used exactly when its apply has begun
(`ReceiptMatchesStatus`); that an outbox row is `done` only when its value was in
Notion (`DoneMeansLanded`); that `/nx_recover` drops only what landed
(`RecoveryDropsOnlyLanded`); that every write belongs to a begun revision, to its scope and to the holder of the
lease (`WritesAreAuthorised`); that a value nobody reviewed is overwritten only
when it appeared between comparison and request (`OverwritesOnlyReviewed`);
that nothing is written twice (`WrittenOnce`); that the checkpoint moves with a
complete apply only (`CheckpointMovesWithCommit`), which with
`RecoveryDropsOnlyLanded` means that COMMITTED proposals have written all the
operator decided on, in whatever revision. `shared_operation` asks the last two
of two proposals that carry one deferred operation, may decide on it
differently and mark the same row: a done row then still means that a value which one of
the two approved is in Notion (`Reached`). No more than that holds: see the
[table](#where-the-code-and-its-documents-differ).

`sync_cycle` checks that whenever the checkpoint moves, by a commit or by a
no-op sync, each property shows that version's value, or its change is in the
queue, or a person decided otherwise (`Mirrored`): nothing is silently left behind
where no later comparison looks. It names two exceptions, and without either TLC refutes it
([below](#where-the-code-and-its-documents-differ)). A property whose row is again what it was at the previous checkpoint, and
that an apply which never committed wrote in between, is not looked at
(`LeftStray`). And nothing is said of the commit of a proposal, or the
end of a `/nx_sync`, when the file it was made from was left and put back
meanwhile (`OfOldFile`); what other proposals commit around it is
said all the same. And a queued change is proposed again, also
when the workbook does not change, or leaves the queue, provided the queue is not
one the sync refuses.

`pages` checks that a proposal creates one page per entity however often it is
interrupted, and that whatever commits is shown on the page it is looked up by,
also when a write landed without an answer and a later inspection took it as done.
After a lost answer that commit is one of a resumed apply, or of a recovery whose
remaining operations can still be looked up; a recovery that has lost the title
commits nothing. Of the three entities two are written over each other, and what is shown
is asked of the third, which has titles of its own.

`schema_safety` shows that the whole workflow implements `SingleCreation`: it asks
once, it asks again only after Notion said that nothing was created, and it
registers only what its request created. `PostIsAuthorised` adds by which message
and under which lease; `AnswersAreTrue` that no stored answer denies a database
that exists or may still appear. `AdoptionAttested` is about a process that lost
the approval secret: it adopts only the database the first one wrote down, and
only after an earlier recovery was answered with a conflict. `AdoptableAdopted`:
what recovery can prove is adopted in the end.

`wiki_refresh`: what is published is the folder as it was at one instant, every
file in the version its text was read from (`ImplementsSnapshot`, the refinement
of `SourceSnapshot`); and a folder that is left alone is indexed
(`QuietSourceIndexed`).

`wiki_generation`: an apply writes while the index is the one its proposal cites
(`WritesUnderCitedIndex`); no pointer or checkpoint names what is not complete,
wherever a sync is cut off (`PointersFollow`); there is one T0
(`BaselineIsKept`); the index never goes back to an older folder
(`IndexNeverGoesBack`); the lock is freed (`LockIsFreed`).

`mail_collect`: what the checkpoint covers is in the Wiki, or is the copy of a mail
that is (`NothingLost`), and a mail that stays in the box is
processed, unless a mail that ends its batch stays too (`MailIsProcessed`).

Why the bounds are enough for the interesting cases:

- *Lease.* A lost lease needs an owner, a taker and a death: two workers and
  three pids give one death with a live gateway left, and a second one.
  Without pid reuse (`FreshPids`) since the code's owner test is the pid.
- *Two disturbances, two operations, two revisions.* A resumed apply after a
  crash, met by one more disturbance; a partial failure needs one operation that
  landed and one that did not; recovery is the second revision.
- *Four values* (old, new, edited, foreign) are all that inspect tells apart.
- *Contents of `sync_cycle`.* The second differs from the first in the file
  only (no-op), in the third one row changes, in the fourth it returns to what it was
  when the other changes. The third may be put back after the fourth, under a proposal or a
  `/nx_sync` at any of its steps, and the fourth may follow again. One proposal is open at a
  time: only a proposal of the current version can be applied. Two at once, or a put-back
  and an edit in Notion in one behaviour, are too many states for a complete run; the
  theorem has any number of each.
- *A shared operation.* Two proposals of one row; the one with a second operation
  may fail with the shared one done. EDIT makes their values differ.
- *Pages.* Three saves are two proposals and a rename; two faults a lost answer
  and a crash, or two lost answers of one proposal. Three page ids are one more
  than there are entities that get one of their own, as two of the three live on one page:
  a second page for one of them can be made.
- *Schema.* Three messages are an approval, a recovery that meets a conflict and
  one that adopts. `Limit` bounds each kind of disturbance and `MaxFaults` all of
  them; messages nobody waits for are used again, the smallest first. In
  `schema_recovery` an exception or a crash after the POST stands for its lost answer,
  which is a disturbance of its own in `schema_safety`; answers name the creator of a database.
- *Wiki.* Two changes during a scan are what can hide each other; two folders and
  two files are a move between them, one before and one behind the place of the
  scan. Two attempts are a retry and its failure. In `wiki_generation` two syncs
  are the first and one that finds everything there; one fault cuts off either.
- *Mail.* Two of three mails fit in a batch, so the third waits; one Message-ID
  makes any two mails duplicates.

The run `page_shared` ends in a counterexample, see
[below](#where-the-code-and-its-documents-differ).

Every property has a mutant in `PROJECT.json`: a plausible mistake in one
mapped definition (`...Trusting`, `...KeepingReceipt`, `...ForgettingDeferred`,
kept beside the definitions they replace) under which TLC finds it violated.

## Fairness

- A thread that can move goes on (`WF` of `Step(p)`, of `SyncStep` and of
  `ApplyStep(p)`): every remote call has a timeout, every wait for SQLite too, and a held
  lease is an error, never a wait. A dead gateway is fair to nobody.
- `PersistentSpec` adds two habits of the operator: a dead gateway is restarted
  and the approval of an APPROVED or APPLYING proposal is repeated. Without
  them an interrupted apply stays as it is; the code has no timer of its own.
- `FairSpec` of `SyncCheckpoint` adds that `/nx_sync` is asked for again and
  again, and that the operator, who can always do so, rejects in the end what is
  not committed (`SF`, as the proposal may be APPLYING in between).

- `PatientSpec` of `SchemaCreation`: commands go on, a gateway that died is
  started, and a user sends `/nx_schema_recover` again and again (`PatientUser`). `AdoptableAdopted` excepts a lease whose release failed
  in a process that lives on (`LeaseLeft`): it stays until a restart.
- `WikiRefresh`: a refresh that runs goes on, and `/nx_sync` asks for one again and
  again. `WikiGeneration`: a command that started goes on; nobody has to start one.
- `MailCollection`: the command is given again and again, and goes on.

Nothing is assumed fair about disturbances, edits, the workbook or decisions.

## Proofs

TLAPS proves, for every value of the constants (any number of workers, processes,
proposals, operations, messages, files, mails, disturbances), from the named
assumptions `LeaseAssumption`, `ProposalApplyAssumption`, `GenerationAssumption`,
`SchemaAssumption`, `MailAssumption`, `PageAssumption`, `SyncAssumption` and
`RefreshAssumption` (the
bounds are numbers, the actors distinct, and `None` none of their values):

| Module | Theorems |
|---|---|
| `ApplyLeaseProofs` | `TypeCorrect`, `LeaseExcludes`, `HeartbeatNeverLosesLease`, `LiveOwnerIsNeverPreempted` and, if pids are never reused, `OrphanIsReclaimed` |
| `ProposalApplyProofs` | `TypeCorrect`, `ReceiptsCorrect`, `EndedIsFinal`, `WritesAuthorised`, and `Refinement`: `Spec => LeaseProtocol!Spec`; `DoneIsLanded`, `DropsOnlyLanded`, `CheckpointFollowsCommit`, `ReplacesReviewed`, and `WritesOnce` (if the approved values are changes) |
| `SyncCheckpointProofs` | `TypeCorrect`, and `CheckpointIsMirrored` |
| `SchemaCreationProofs` | `TypeCorrect`, `AnswersTrue`, `PostAuthorised`, `AdoptionIsAttested`, and `Refinement`: `Spec => Abstract!Spec` of `SingleCreation` |
| `WikiRefreshProofs` | `TypeCorrect`, and `Refinement`: `Spec => Snapshots!Spec` of `SourceSnapshot` |
| `WikiGenerationProofs` | `TypeCorrect`, `WritesUnderCited`, `NeverReplacedByOlder`, `PointersNeverAhead`, `OneBaselineForEver` |
| `MailCollectionProofs` | `TypeCorrect`, `CoveredIsKept` |
| `PageMappingProofs` | `TypeCorrect`, `CreatesOnePage`, `CommitIsShown` |

Two theorems need more than the types of the constants, and say so in their
statements: `OrphanIsReclaimed` that pids are not reused (`FreshPids`), and
`WritesOnce` that proposals propose changes.

`ProposesChanges`: no
value a user may approve is the one the property had when the operation was
prepared. The analyzers propose differences only, but `/nx_set ... EDIT` accepts any value,
so it can be given back the old one, which a retry then writes again.

`MCProposalApply` assumes that of its instances, so TLC checks that the runs have it.
Where the code allows what a document rules out, the exception is part of the
property and not an assumption: `Reached` of a shared operation, `LeftStray` and
`OfOldFile` of a workbook that returns, `OwnTitles` of entities with one title.

*Lease.* `MutualExclusion` is not inductive: a release must find the row of the
worker that releases. The invariant adds `Ownership`: a worker that holds a
lease holds exactly the row of the table, inserted by its own live process. A
second `Acquire` then meets a live owner and is refused. `OrphanIsReclaimed`
needs `Orphans` besides: a row whose owner died names a pid that is not alive,
which only `FreshPids` preserves.

*Apply.* What a thread may assume at each label is `Thread(p)`, a conjunction of
named parts: labels past `acquire` hold the lease and the row (`HoldsInPhase`,
`HoldsTheRow`), the status and what the receipt is worth at each label
(`StatusInPhase`, `ReceiptInStatus`), and that the remaining operations are in
the head revision's scope (`ScopeInPhase`). `OwnerRuns` says that a held lease
is held by the running gateway. `IInv == TypeOK /\ Control` is inductive. The
proof goes by lemmas of two kinds: a step of one thread preserves its own
`Thread(p)`, one lemma per label; and it leaves every other thread's
intact, because it changes only its own components (`SameThread`), while
those that do change the row (`AcquireControl`, `ReleaseControl`) are excluded by
whoever holds it (`OneHolder`, `HolderBlocks`). The receipts, the authorised
writes and the refinement are then read off `IInv` step by step: the thread in
`begin` holds the lease, so the status change is `ApplyLease`'s move of the
holder; a command finds its proposal idle, so it is a move of a quiet one.

*What has landed.* A row is marked done by a thread that saw or sent its value some
steps earlier, possibly in a run that crashed. `Landed` carries that through: what
a thread found applied has been in Notion (`SeenLanded`), so has what it no longer has to do
(`TodoLanded`), the rows of an apply that has begun are those of its revision with
the approved values (`RowsInScope`), the version it compares is the approved one
(`VersionSettled`), and the scope is what the user decided (`DecisionKept`). Every step
of another thread leaves these alone, except that `begin` of a proposal replaces the rows
of operations it shares. `RowsInScope` therefore speaks of the others; of a shared row
it is enough that a thread marks it only for an operation in its own scope, whose approved
value it has seen or sent, so that whoever's value the row names at that moment, a
value that one of the proposals approved has landed (`Reached`). `ReplacesReviewed` and `WritesOnce` rest on what the
`recheck` just before a write establishes, until a person edits the property
(`Reviewed`, `Unwritten`), and on `EffectShown`: what was written no longer shows
what the operation was prepared against.

*Schema creation.* `Own(p)` says what the rows of a proposal, its message, its
thread and its answers are at each step; `Holding` that the thread holds the lease,
`Alone` that one proposal is active. The proof that a request is sent once is
`RowsOf`: the journal counts it before it is sent, and a thread that is to send one finds
the count at zero. A message that sent a request is answered as denied or failed
only when nothing was made and nothing can still be (`True`, `InboxOf`), and what carries a proposal's marker
was made by its request (`Marked`). In the refinement the post is the abstract request,
its refusal and its late effect are Notion's, and the two ways to register,
`finalize` and `register`, are the abstract registration.

*Wiki refresh.* No scan is atomic, so what it returns need not be any state the
folder was in. The argument is that of a double collect. Whatever changes gets times
it never had, and so does the folder it is in (`Moved`). A complete scan is truthful about all
that was not changed since it was looked at, and complete about each folder that
was not (`Whole`); this survives every change of the source (`SeenKept`). If a
second scan sees a folder with the same times, it did not change between
the two looks, hence had the same files at any moment in between (`Within`,
`BetweenFolder`, `BetweenFile`). So a final scan that equals the scan the catalog was taken from makes that scan the folder
as it was when that one ended (`SameInstant`): the instant the refresh stands for. The
same lemmas show that the merge of a walk with the delta between two scans around it is what
the second scan shows (`MergedIsSeen`), provided that a changed folder starts it again,
which is why the code does so. A text is the one of the entry because its times are
compared after it was read (`Read`). `Indexed` adds that the index shows what its
cursor says, which makes an incremental refresh as good as a full one.

*Wiki generations.* That an apply writes under the index it cites is a fact about
the lock: `LockHeld` says that whoever is between its lock and its release is the
one that holds it, so nobody publishes while another one writes. `IndexRead` adds
that what the holder has read from the folder is no older than the index, which
makes a publication a step forward; `JobInPhase` and `Roles` say what a command
remembers at each step. `IInv` is their conjunction with the types, and is
inductive, one lemma per action. The views need a second layer, `VInv`: at each
step of a sync, what it has staged, named and saved so far and what it read of T0
(`Pointers`, `Baselines`). `BaselineIsKept` then follows from `VInv` on both sides
of a step, as only two actions write the bootstrap checkpoint.

*Mail.* `NothingLost` is not inductive, as the checkpoint is saved from what a batch
remembers. `BatchHolds` says that each mail the batch counts as read is on its way
or kept already, it or one it is a copy of, and `Progress` how far the
publication is. At `save` nothing is on its way any more, so the batch becomes a
checkpoint that holds.

*Pages.* A page made in an apply that died is found again while its title operation is not
recorded (`InDoubt`): it shows the approved title, the match value of its entity is
that title, and the apply has not gone on to another operation (`PagesMade`).
So the operation is found applied, and no second page is asked for. A recovery
records it as done, and takes it out of the scope: then nothing is in doubt, and nothing
that could create a page is left.

*What a commit shows.* `ShowInv` says of each entity (`Faithful`) what its two operations
were prepared against and what its page shows. An entity whose page the sync did not find
had no value either (`OldsAgree`); as long as its title is awaited, the page it is found
by has the value the proposal was prepared against (`ValueUntouched`), so no value is taken for applied on a
page that is about to be another; and what is done is shown (`TitleDone`, `ValueDone`).
The write of a title may lose a page, but only before a value is written (`TitleFirst`).
What keeps an entity with titles of its own (`OwnTitles`) from being disturbed is that a page
found by an entity has a title of that one (`FoundMine`), so that the requests of the
others do not touch its pages (`OthersKept`); what they do to each other is not asked. `InFlight` carries the answer of Notion to the mapping
and to the outbox.

*The checkpoint.* `CheckpointMirrored` compares Notion with one version, but what Notion
shows was written by several proposals, made from several versions, some of which
never committed. `Traced`: what a property shows is `Explained` by the checkpoint. It is the
checkpoint's value, or a person decided on it, or its change is queued, or it is
stray, written by an apply that did not commit. A row that is the checkpoint's
is explained by the compared version as well, so a sync that proposes nothing for it is
right up to what is stray (`NothingToPropose`). `Covers(p)` carries this to the commit: while
the workbook is the one the proposal was made from, what it leaves out is explained, and what
it has recorded and what changed under it show the workbook's values; and the
apply looks at the workbook before each write and before the commit. `Covers(p)` is lost for good
when the file of `p` comes back (`back`), since it was not kept up in between.
`Ordered` is what the interleaving of `/nx_sync` with the applies must not upset: a
proposal commits while the workbook is its version, and if it was not put back, that is the
version a running sync has read; so the checkpoint moves to nothing else between the
two readings of the sync and its end.

Only model-checked are the liveness properties: fairness and `ENABLED` are out of the
prover's reach. These are `ApplyingEnds`, `DeferredComesBack`,
`AdoptableAdopted`, `QuietSourceIndexed`, `LockIsFreed` and `MailIsProcessed`. Every
safety property of a passing run is stated by a theorem.

## Where the code and its documents differ

One has a run, `page_shared`, and is under `findings` in `PROJECT.json`: an entity
without a mapping is looked up by its title, and the history records of two
changes of the same property have the same title; the second is written over the first.

The others were met while the modules were written. Their counterexample runs
are not kept; the properties checked except them by name, or their instances are
free of them.

| Where | What the code does | What is said of it |
|---|---|---|
| `workflow/apply.py:183` | A resumed apply that meets a conflict ends STALE although it wrote before the crash. | its comment: STALE is safe only before any operation may have been written |
| `workflow/apply.py:194` | The workbook changes during a crash; the proposal stays APPLYING, and no command takes it out of there. | `docs`: a changed source ends as STALE |
| `persistence/database.py:451` | A lease left behind names the old revision; the recovered revision of the same proposal is refused. | its comment: the same proposal may reclaim an unfinished lease |
| `persistence/database.py:573` | A refused resume releases the lease; another proposal starts while the first is APPLYING. | its comment: a different proposal must wait |
| `persistence/database.py:1080` | Outbox rows are found by operation id only. Two proposals carry one deferred operation; the recovery of one takes the row of the other for its own and excludes a write that was never made, or its resumed thread marks that row done. | `docs/operations.md:131`, recovery excludes what is already applied; of a shared row `Reached` says only that a value one of them approved has landed |
| `persistence/database.py:1106` | An apply is cut off and another proposal takes over the row of an operation both carry: the first cannot be resumed before that row is done. | `docs/operations.md:132`, an APPLYING proposal is reconciled on its own scope and outbox; `two_proposals` has operations of their own |
| `security/hermes_gateway.py:900` | A crash between the DRAFT and the request for its approval; only `/nx_set` and `/nx_reject` lead on. | `docs/operations.md:131` has the recovered revision approved |
| `workflow/sync.py:500` | A deferred change outlives its row and is proposed with a value the workbook no longer has. | `data-contract.md:42` compares with the current workbook |
| `workflow/sync.py:223` | A write of an abandoned FAILED proposal stays in Notion when its row goes back; the next commit calls that version mirrored (`LeftStray`). | `docs/architecture.md:75`, the checkpoint is the target state of the last complete proposal |
| `adapters/local_workbook.py:133` | A version is the hash of the file. An apply is cut off, another proposal replaces what it wrote, and the older file is put back: the resumed apply believes its record and commits (`OfOldFile`). | the same |
| `workflow/proposals.py:273` | The POST of a page takes effect without an answer; `/nx_recover` excludes the title as done, and the inspection of what is left of the entity raises, as no approved title is there to look its page up by. | `docs/operations.md:131`, the recovered revision is approved and applied |
| `workflow/sync.py:491` | Two proposals of one workbook defer the same property; every later `/nx_sync` raises. | `docs/operations.md:72`, deferred changes are reviewed with the next request |
| `security/hermes_schema_gateway.py:992` | The gateway dies before the end of the attempt is recorded; every recovery answers UNKNOWN though exactly one database matches. | `docs/telegram-commands.md:73`, recovery adopts it |
| `adapters/hiworks_mail.py:514` | A Date header whose conversion overflows ends every batch; the mails beside it are not processed. | `docs/operations.md:136`, a poison message is isolated |

In `PageMapping` two more can be seen, which break no property: a page that was
created before a crash and then found as already applied gets no mapping, so a
later rename of the entity makes a second page; and a title that was patched
before a crash leaves the mapping with the old title, under which the page is not
found again.

Deferred changes with Wiki citations end every later `/nx_sync` too. The
code says so on purpose, but no command clears the queue; `DeferredComesBack`
excepts that case by name.

## Not modelled

- *Signatures, routing and identity checks* of commands and receipts: taken as
  what they decide. *Message layout, audit log, configuration, installation*:
  no state the workflow reads.
- *Analyzers, routing, extraction, Excel parsing*: tables of business rules and
  parsers, pure functions without interleaving; a row is its proposed value.
- *Relations, several data sources, options and encodings of values* of the
  writer. Review items, provenance and history records are proposed changes like
  the others; only that some of them share a title is modelled (`page_shared`).
- *The OneDrive adapter*: the same interface as the local folder, whose listings
  are those of a service; its paging cannot be told from one call in a model of
  its results.
- *The over-limit inventory* (`knowledge/refresh.py:766`) with its second full
  run, file sizes, archives and the redaction of texts: the limit of documents is
  the one limit `WikiRefresh` has. *Rows of the index, ranking, page rendering*.
- *The POP3 wire format*, login and MIME parsing: a mail is how it reads.
- *A workbook replaced and put back while one `/nx_sync` downloads it*: what was read is
  taken to be the version that was listed (the guard of `SourceMoves`). It may be
  put back at any other time.
- *Two commands on one proposal at once*: the plugin's `_ACTIVE` set is taken as given. *A pid
  that is given out again*: the lease then looks owned, by design of the code's test.
- *EDIT in `SyncCheckpoint`*: `ProposalApply` has it.
- *The generation lock in `ProposalApply`*: it is in `WikiGeneration`, where an
  apply has its binding and its writes only; a timeout of 30 seconds ends the
  command before the lease is asked for.

## Plan

Done: every module planned, with the proofs of its safety properties and of the
three refinements.

Left, should the project grow: the cascade of an edit to its history operation
(`workflow/proposals.py`), EDIT in `SyncCheckpoint`, and the over-limit inventory of
the Wiki.

Instances stay at two or three of each actor.
