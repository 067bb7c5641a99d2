---------------------------- MODULE ProposalApply ----------------------------
(* From an approval message to the commit: the gateway commands on a proposal *)
(* (security/hermes_gateway.py, workflow/proposals.py) and the approval-gated *)
(* application of its operations to Notion (workflow/apply.py), over the      *)
(* tables of persistence/database.py, for one workbook.                       *)
(*                                                                            *)
(* One gateway process runs the commands in threads; its plugin admits one    *)
(* command per proposal at a time, so a proposal has at most one thread and   *)
(* the thread is named by its proposal.  Every database transaction, remote   *)
(* read and remote write of that thread is a step of its own.  The process    *)
(* may die between any two steps and be restarted; the workbook, the Wiki     *)
(* and the Notion pages change under the thread's feet; a Notion request may  *)
(* fail, or take effect without an answer.                                    *)
EXTENDS Naturals, ProposalStatus

CONSTANTS
  Proposal,     \* proposals prepared for the workbook
  Op,           \* operation ids
  Key,          \* Notion properties (page and property)
  Value,        \* property values
  Version,      \* workbook versions
  Pid, Token,   \* process ids, lease tokens
  OpsOf,        \* [Proposal -> the set of its operations]
  Order,        \* [Op -> Nat], the order a proposal lists operations in
  KeyOf,        \* [Op -> Key], the property an operation targets
  OldOf, NewOf, \* [Op -> Value], current_value and proposed_value of its change
  Edited,       \* the value a user types with /nx_set ... edit
  SourceOf,     \* [Proposal -> Version], the version it was prepared from
  WikiBound,    \* proposals with a knowledge binding
  Decisions,    \* the decisions /nx_set is used for
  FreshPids,    \* TRUE: the operating system never gives a pid out twice
  Faults,       \* the disturbances that may happen, see Fault
  MaxRevision,  \* bound on the revisions of one proposal
  MaxFaults,    \* bound on the disturbances in one behaviour
  None

Action   == {"APPLY", "EDIT", "EXCLUDE", "DEFER"}
Writes   == {"APPLY", "EDIT"}
Revision == 1 .. MaxRevision

OutboxRow == [proposal : Proposal, revision : Revision, value : Value,
              status : {"pending", "done", "failed", "blocked"}]
LeaseRow  == [proposal : Proposal, revision : Revision, token : Token, pid : Pid]

ASSUME ProposalApplyAssumption ==
  /\ MaxRevision \in Nat \ {0}
  /\ MaxFaults \in Nat
  /\ FreshPids \in BOOLEAN
  /\ OpsOf \in [Proposal -> SUBSET Op]
  /\ Order \in [Op -> Nat]
  /\ \A o, u \in Op : Order[o] = Order[u] => o = u
  /\ KeyOf \in [Op -> Key]
  /\ OldOf \in [Op -> Value] /\ NewOf \in [Op -> Value]
  /\ Edited \in Value
  /\ SourceOf \in [Proposal -> Version]
  /\ WikiBound \subseteq Proposal
  /\ Decisions \subseteq Action
  /\ None \notin Pid
  /\ None \notin LeaseRow
  /\ None \notin OutboxRow

VARIABLES
  \* the state database
  head,       \* [Proposal -> revision and status of its head row]
  plan,       \* [Proposal -> [its operations -> Action]], the head revision
  open,       \* [Proposal -> BOOLEAN], its approval window has not expired
  receipt,    \* [Proposal -> the latest receipt of its head revision]
  outbox,     \* [Op -> its row, or None]
  lease,      \* the source_apply_lease row, or None
  pending,    \* operation ids with an unresolved pending_change row
  checkpoint, \* the sync_checkpoint version, or None
  \* the gateway process and its threads
  gateway,    \* its pid, or None
  usedPids,
  pc,         \* [Proposal -> where its thread stands]
  job,        \* [Proposal -> what its thread remembers]
  held,       \* [Proposal -> the lease its thread acquired, or None]
  \* the outside world
  notion,     \* [Key -> Value]
  source,     \* the workbook's current version
  wikiOk,     \* the Wiki still reproduces the proposals' knowledge bindings
  faults,     \* disturbances so far
  \* history, read by the properties only
  ownerUp,    \* the process that inserted the lease row has not died
  landed,     \* <<o, v>>: v was written to, or found at, the key of o
  effects,    \* <<p, r, o>>: revision r of p wrote o to Notion, and nobody
              \* edited the property since
  raced,      \* keys edited between the last comparison and the request
  decision    \* [Proposal -> [its operations -> the user's last Action]]

durable == <<plan, open, receipt, outbox, pending, checkpoint>>
leases  == <<lease, held, ownerUp>>
process == <<gateway, usedPids>>
world   == <<notion, source, wikiOk, faults, raced>>
history == <<landed, effects>>
vars == <<head, durable, leases, process, pc, job, world, history, decision>>

Label == {"idle", "capture", "acquire", "verify", "inspect", "guard", "begin",
          "reconcile", "recheck", "preflight", "patch", "record", "failing",
          "fail", "final", "commit", "release",
          "request", "recover"}
Sight == {"unseen", "pending", "applied", "conflict"}

\* version: the version captured before the apply; resuming: the proposal was
\* already APPLYING; seen: what inspect returned; todo: operations still to do.
Jobs == [version : Version \cup {None}, resuming : BOOLEAN,
         seen : [Op -> Sight], todo : SUBSET Op]
IdleJob == [version |-> None, resuming |-> FALSE,
            seen |-> [o \in Op |-> "unseen"], todo |-> {}]

\* A deferred operation that two proposals took over from the pending queue.
Shared(o) == \E p, q \in Proposal : p # q /\ o \in OpsOf[p] \cap OpsOf[q]

TypeOK ==
  /\ head \in [Proposal -> [revision : Revision, status : Status]]
  /\ DOMAIN plan = Proposal /\ \A p \in Proposal : plan[p] \in [OpsOf[p] -> Action]
  /\ open \in [Proposal -> BOOLEAN]
  /\ receipt \in [Proposal -> {"none", "live", "expired", "used"}]
  /\ outbox \in [Op -> OutboxRow \cup {None}]
  /\ lease \in LeaseRow \cup {None}
  /\ pending \subseteq Op
  /\ checkpoint \in Version \cup {None}
  /\ gateway \in Pid \cup {None}
  /\ usedPids \subseteq Pid
  /\ pc \in [Proposal -> Label]
  /\ job \in [Proposal -> Jobs]
  /\ held \in [Proposal -> LeaseRow \cup {None}]
  /\ notion \in [Key -> Value]
  /\ source \in Version
  /\ wikiOk \in BOOLEAN
  /\ faults \in 0 .. MaxFaults
  /\ ownerUp \in BOOLEAN
  /\ landed \subseteq Op \X Value
  /\ effects \subseteq Proposal \X Revision \X Op
  /\ raced \subseteq Key
  /\ DOMAIN decision = Proposal /\ \A p \in Proposal : decision[p] \in [OpsOf[p] -> Action]

\* Every proposal was just prepared by /nx_sync and shows its approval screen.
\* A shared operation is still in the pending queue.
Init ==
  /\ head = [p \in Proposal |-> [revision |-> 1, status |-> "PENDING"]]
  /\ plan = [p \in Proposal |-> [o \in OpsOf[p] |-> "APPLY"]]
  /\ decision = plan
  /\ open = [p \in Proposal |-> TRUE]
  /\ receipt = [p \in Proposal |-> "none"]
  /\ outbox = [o \in Op |-> None]
  /\ lease = None
  /\ pending = {o \in Op : Shared(o)}
  /\ checkpoint = None
  /\ gateway \in Pid /\ usedPids = {gateway}
  /\ pc = [p \in Proposal |-> "idle"]
  /\ job = [p \in Proposal |-> IdleJob]
  /\ held = [p \in Proposal |-> None]
  /\ notion \in [Key -> Value] /\ \A o \in Op : notion[KeyOf[o]] = OldOf[o]
  /\ source \in Version
  /\ wikiOk = TRUE
  /\ faults = 0
  /\ ownerUp = FALSE
  /\ landed = {} /\ effects = {} /\ raced = {}

-----------------------------------------------------------------------------
(* What the handlers compute from the state.                                  *)

StatusOf(p)  == head[p].status
At(p, label) == gateway # None /\ pc[p] = label
Goto(p, label)  == pc' = [pc EXCEPT ![p] = label]
SetStatus(p, s) == head' = [head EXCEPT ![p].status = s]

Approved(p, o) == IF plan[p][o] = "EDIT" THEN Edited ELSE NewOf[o]
WriteOps(p)    == {o \in OpsOf[p] : plan[p][o] \in Writes}

\* The first operation the thread has still to do.
First(p, o) ==
  /\ o \in job[p].todo
  /\ \A u \in job[p].todo : Order[o] <= Order[u]

\* Mutants of Inspection: any other value counts as applied; an applied value
\* counts as still to be written.
InspectionTrusting(p, o) == IF notion[KeyOf[o]] = OldOf[o] THEN "pending" ELSE "applied"
InspectionForgetful(p, o) ==
  IF notion[KeyOf[o]] \in {OldOf[o], Approved(p, o)} THEN "pending" ELSE "conflict"

\* ApprovedNotionWriter.inspect: the value the proposal was prepared against is
\* tested for first.
Inspection(p, o) ==
  LET current == notion[KeyOf[o]]
  IN  IF current = OldOf[o] THEN "pending"
      ELSE IF current = Approved(p, o) THEN "applied" ELSE "conflict"

\* Of the operations S, those whose approved value Notion shows (history).
Seen(p, S) == {<<o, Approved(p, o)>> : o \in {u \in S : notion[KeyOf[u]] = Approved(p, u)}}

\* knowledge_stale_reason returns a reason.
WikiDrifted(p) == p \in WikiBound /\ ~wikiOk

\* outbox_status(p, r, o) asks for the row of this revision; mark_outbox(o, s)
\* updates the row of the operation, whichever proposal it belongs to.
OwnRow(p, o)  == outbox[o] # None /\ outbox[o].proposal = p
                 /\ outbox[o].revision = head[p].revision
DoneRow(p, o) == OwnRow(p, o) /\ outbox[o].status = "done"
Mark(rows, S, s) ==
  [o \in Op |-> IF o \in S /\ rows[o] # None THEN [rows[o] EXCEPT !.status = s]
                                             ELSE rows[o]]

\* Mutants of MayAcquire: the owner's process is not looked at; an unfinished
\* lease is never given back to its own proposal.
MayAcquirePreempting(p) ==
  lease # None =>
    \/ lease.proposal = p /\ lease.revision = head[p].revision
    \/ StatusOf(lease.proposal) \in TerminalHolder
MayAcquireFinishedOnly(p) ==
  lease # None => lease.pid # gateway /\ StatusOf(lease.proposal) \in TerminalHolder

MayAcquire(p) ==
  lease # None =>
    /\ lease.pid # gateway
    /\ \/ lease.proposal = p /\ lease.revision = head[p].revision
       \/ StatusOf(lease.proposal) \in TerminalHolder

\* ApprovalService.verify, called by _apply_under_lease with the captured
\* version: a fresh receipt must be unused and unexpired, a resumed one used.
Verified(p) ==
  /\ StatusOf(p) \in Resumable
  /\ receipt[p] = IF StatusOf(p) = "APPLYING" THEN "used" ELSE "live"
  /\ job[p].version = SourceOf[p]

\* The operations this run or command found applied.
SeenApplied(p) == {o \in WriteOps(p) : job[p].seen[o] = "applied"}

\* A disturbance of kind f is still allowed.
Fault(f) == f \in Faults /\ faults < MaxFaults /\ faults' = faults + 1

-----------------------------------------------------------------------------
(* /nx_approve: approve or redeliver, then capture the workbook's version.    *)

Approve(p) ==
  /\ At(p, "idle")
  /\ StatusOf(p) = "PENDING" /\ open[p]
  /\ SetStatus(p, "APPROVED")
  /\ receipt' = [receipt EXCEPT ![p] = "live"]
  /\ Goto(p, "capture")
  /\ UNCHANGED <<plan, open, outbox, pending, checkpoint, leases, process, job,
                 world, history, decision>>

\* A live or consumed receipt is used again, an expired unused one is revoked
\* and replaced in the same transaction.
Redeliver(p) ==
  /\ At(p, "idle")
  /\ StatusOf(p) \in Resumable
  /\ receipt' = [receipt EXCEPT ![p] = IF @ = "expired" THEN "live" ELSE @]
  /\ Goto(p, "capture")
  /\ UNCHANGED <<head, plan, open, outbox, pending, checkpoint, leases, process,
                 job, world, history, decision>>

Capture(p) ==
  /\ At(p, "capture")
  /\ job' = [job EXCEPT ![p] = [IdleJob EXCEPT !.version = source]]
  /\ Goto(p, "acquire")
  /\ UNCHANGED <<head, durable, leases, process, world, history, decision>>

\* The token is random: any that neither the row nor a thread names will do.
AcquireLease(p) ==
  /\ At(p, "acquire")
  /\ MayAcquire(p)
  /\ LET inUse == {x.token : x \in ({lease} \cup {held[q] : q \in Proposal}) \ {None}}
         row   == [proposal |-> p, revision |-> head[p].revision, pid |-> gateway,
                   token |-> CHOOSE t \in Token : t \notin inUse]
     IN  /\ Token \ inUse # {}
         /\ lease' = row /\ held' = [held EXCEPT ![p] = row]
  /\ ownerUp' = TRUE
  /\ Goto(p, "verify")
  /\ UNCHANGED <<head, durable, process, job, world, history, decision>>

LeaseRefused(p) ==                          \* ApplyLeaseError
  /\ At(p, "acquire")
  /\ ~MayAcquire(p)
  /\ job' = [job EXCEPT ![p] = IdleJob]
  /\ Goto(p, "idle")
  /\ UNCHANGED <<head, durable, leases, process, world, history, decision>>

-----------------------------------------------------------------------------
(* _apply_under_lease, up to the consumption of the nonce.                    *)

\* An ApprovalError leaves the proposal as it was; the lease is still released.
VerifyFails(p) ==
  /\ At(p, "verify")
  /\ ~Verified(p)
  /\ Goto(p, "release")
  /\ UNCHANGED <<head, durable, leases, process, job, world, history, decision>>

\* verify_latest_knowledge before anything was written by this run.
KnowledgeStale(p, resuming) ==
  /\ WikiDrifted(p)
  /\ SetStatus(p, IF resuming THEN "FAILED" ELSE "STALE")
  /\ Goto(p, "release")
  /\ UNCHANGED <<durable, leases, process, job, world, history, decision>>

Verify(p) ==
  /\ At(p, "verify")
  /\ Verified(p)
  /\ \/ KnowledgeStale(p, StatusOf(p) = "APPLYING")
     \/ /\ ~WikiDrifted(p)
        /\ job' = [job EXCEPT ![p] =
              [@ EXCEPT !.resuming = (StatusOf(p) = "APPLYING"), !.todo = WriteOps(p)]]
        /\ Goto(p, "inspect")
        /\ UNCHANGED <<head, durable, leases, process, world, history, decision>>

\* A done operation of a resumed run is not read again.
Skipped(p, o) == job[p].resuming /\ DoneRow(p, o)
Sighted(p, o) == IF Skipped(p, o) THEN "applied" ELSE Inspection(p, o)

Inspect(p) ==
  /\ At(p, "inspect")
  /\ \E o \in Op :
       /\ First(p, o)
       /\ job' = [job EXCEPT ![p] =
             [@ EXCEPT !.seen[o] = Sighted(p, o), !.todo = job[p].todo \ {o}]]
       /\ landed' = IF Skipped(p, o) THEN landed ELSE landed \cup Seen(p, {o})
  /\ UNCHANGED <<head, durable, leases, process, pc, world, effects, decision>>

InspectDone(p) ==
  /\ At(p, "inspect")
  /\ job[p].todo = {}
  /\ IF \E o \in Op : job[p].seen[o] = "conflict"
     THEN SetStatus(p, "STALE") /\ Goto(p, "release") /\ UNCHANGED job
     ELSE /\ UNCHANGED head
          /\ job' = [job EXCEPT ![p].todo = SeenApplied(p)]
          /\ Goto(p, "guard")
  /\ UNCHANGED <<durable, leases, process, world, history, decision>>

\* verify_latest_source, then verify_latest_knowledge.
Guard(p) ==
  /\ At(p, "guard")
  /\ \/ /\ source # job[p].version
        /\ Goto(p, "release")
        /\ UNCHANGED <<head, durable, leases, process, job, world, history, decision>>
     \/ source = job[p].version /\ KnowledgeStale(p, job[p].resuming)
     \/ /\ source = job[p].version /\ ~WikiDrifted(p)
        /\ Goto(p, IF job[p].resuming THEN "reconcile" ELSE "begin")
        /\ UNCHANGED <<head, durable, leases, process, job, world, history, decision>>

\* Mutants of Begin: the row of an edited operation is stored without its value;
\* the lease is given up once the nonce is consumed.
BeginForgettingEdits(p) ==
  /\ At(p, "begin")
  /\ receipt[p] \in {"live", "expired"}
  /\ StatusOf(p) = "APPROVED"
  /\ receipt' = [receipt EXCEPT ![p] = "used"]
  /\ SetStatus(p, "APPLYING")
  /\ outbox' = [o \in Op |->
        IF o \in WriteOps(p)
        THEN [proposal |-> p, revision |-> head[p].revision, status |-> "pending",
              value |-> IF plan[p][o] = "APPLY" THEN NewOf[o] ELSE None]
        ELSE outbox[o]]
  /\ Goto(p, "reconcile")
  /\ UNCHANGED <<plan, open, pending, checkpoint, leases, process, job, world,
                 history, decision>>
BeginReleasing(p) ==
  /\ At(p, "begin")
  /\ StatusOf(p) = "APPROVED"
  /\ receipt' = [receipt EXCEPT ![p] = "used"]
  /\ SetStatus(p, "APPLYING")
  /\ outbox' = [o \in Op |->
        IF o \in WriteOps(p)
        THEN [proposal |-> p, revision |-> head[p].revision,
              value |-> Approved(p, o), status |-> "pending"]
        ELSE outbox[o]]
  /\ lease' = None /\ held' = [held EXCEPT ![p] = None]
  /\ Goto(p, "reconcile")
  /\ UNCHANGED <<plan, open, pending, checkpoint, ownerUp, process, job, world,
                 history, decision>>

\* begin_apply: one transaction consumes the nonce (used_at IS NULL, whatever
\* its expiry), moves APPROVED to APPLYING and (re)creates the outbox rows.
Begin(p) ==
  /\ At(p, "begin")
  /\ receipt[p] \in {"live", "expired"}
  /\ StatusOf(p) = "APPROVED"
  /\ receipt' = [receipt EXCEPT ![p] = "used"]
  /\ SetStatus(p, "APPLYING")
  /\ outbox' = [o \in Op |->
        IF o \in WriteOps(p)
        THEN [proposal |-> p, revision |-> head[p].revision,
              value |-> Approved(p, o), status |-> "pending"]
        ELSE outbox[o]]
  /\ Goto(p, "reconcile")
  /\ UNCHANGED <<plan, open, pending, checkpoint, leases, process, job, world,
                 history, decision>>

\* Operations found applied are marked done, one transaction each.
Reconcile(p) ==
  /\ At(p, "reconcile")
  /\ \E o \in Op :
       /\ First(p, o)
       /\ outbox' = Mark(outbox, IF DoneRow(p, o) THEN {} ELSE {o}, "done")
       /\ job' = [job EXCEPT ![p].todo = @ \ {o}]
  /\ UNCHANGED <<head, plan, open, receipt, pending, checkpoint, leases, process,
                 pc, world, history, decision>>

\* A resumed run then resets the others (reset_outbox_for_resume), which raises
\* and rolls back unless each has a row of this revision that is not done.
Reset(p) ==
  /\ At(p, "reconcile")
  /\ job[p].todo = {}
  /\ LET rest == WriteOps(p) \ SeenApplied(p)
     IN  IF job[p].resuming /\ \E o \in rest : ~OwnRow(p, o) \/ DoneRow(p, o)
         THEN Goto(p, "release") /\ UNCHANGED <<outbox, job>>
         ELSE /\ outbox' = Mark(outbox, IF job[p].resuming THEN rest ELSE {}, "pending")
              /\ job' = [job EXCEPT ![p].todo = rest]
              /\ Goto(p, IF rest = {} THEN "final" ELSE "recheck")
  /\ UNCHANGED <<head, plan, open, receipt, pending, checkpoint, leases, process,
                 world, history, decision>>

-----------------------------------------------------------------------------
(* The write loop.                                                            *)

\* Drift is a failure from here on; a Wiki drift saves FAILED before the
\* exception handler runs.
Recheck(p) ==
  /\ At(p, "recheck")
  /\ IF WikiDrifted(p) THEN SetStatus(p, "FAILED") ELSE UNCHANGED head
  /\ Goto(p, IF WikiDrifted(p) \/ source # job[p].version THEN "failing" ELSE "preflight")
  /\ UNCHANGED <<durable, leases, process, job, world, history, decision>>

\* Mutant of Preflight: the property is not read again.
PreflightUnread(p) ==
  /\ At(p, "preflight")
  /\ \E o \in Op :
     LET ok == /\ receipt[p] = "used"
               /\ StatusOf(p) = "APPLYING"
               /\ OwnRow(p, o) /\ outbox[o].status = "pending"
     IN  /\ First(p, o)
         /\ Goto(p, IF ok THEN "patch" ELSE "failing")
  /\ UNCHANGED <<head, durable, leases, process, job, world, history, decision>>

\* ApprovedNotionWriter.apply reads the property again; upsert_page asks
\* ExactNotionMutationVerifier and reads it a last time before it sends anything.
Preflight(p) ==
  /\ At(p, "preflight")
  /\ \E o \in Op :
     LET ok == /\ Inspection(p, o) = "pending"
               /\ receipt[p] = "used"
               /\ StatusOf(p) = "APPLYING"
               /\ OwnRow(p, o) /\ outbox[o].status = "pending"
     IN  /\ First(p, o)
         /\ Goto(p, IF ok THEN "patch" ELSE "failing")
         /\ raced' = IF ok THEN raced \ {KeyOf[o]} ELSE raced
  /\ UNCHANGED <<head, durable, leases, process, job, notion, source, wikiOk,
                 faults, history, decision>>

\* The PATCH takes effect, with or without an answer reaching the program.
TakeEffect(p, o) ==
  /\ First(p, o)
  /\ notion' = [notion EXCEPT ![KeyOf[o]] = Approved(p, o)]
  /\ landed' = landed \cup {<<o, Approved(p, o)>>}
  /\ effects' = effects \cup {<<p, head[p].revision, o>>}

Patch(p) ==
  /\ At(p, "patch")
  /\ \E o \in Op : TakeEffect(p, o)
  /\ Goto(p, "record")
  /\ UNCHANGED <<head, durable, leases, process, job, source, wikiOk, faults,
                 raced, decision>>

PatchUnanswered(p) ==
  /\ At(p, "patch")
  /\ Fault("unanswered")
  /\ \E o \in Op : TakeEffect(p, o)
  /\ Goto(p, "failing")
  /\ UNCHANGED <<head, durable, leases, process, job, source, wikiOk, raced, decision>>

Record(p) ==
  /\ At(p, "record")
  /\ \E o \in Op :
       /\ First(p, o)
       /\ outbox' = Mark(outbox, {o}, "done")
       /\ job' = [job EXCEPT ![p].todo = @ \ {o}]
       /\ Goto(p, IF job[p].todo = {o} THEN "final" ELSE "recheck")
  /\ UNCHANGED <<head, plan, open, receipt, pending, checkpoint, leases, process,
                 world, history, decision>>

\* The except clause of the loop marks the failed operation, and then each of
\* those that are not attempted any more.
Failing(p) ==
  /\ At(p, "failing")
  /\ \E o \in Op :
       /\ First(p, o)
       /\ outbox' = Mark(outbox, {o}, "failed")
       /\ job' = [job EXCEPT ![p].todo = @ \ {o}]
  /\ Goto(p, "fail")
  /\ UNCHANGED <<head, plan, open, receipt, pending, checkpoint, leases, process,
                 world, history, decision>>

Block(p) ==
  /\ At(p, "fail")
  /\ \E o \in Op :
       /\ First(p, o)
       /\ outbox' = Mark(outbox, {o}, "blocked")
       /\ job' = [job EXCEPT ![p].todo = @ \ {o}]
  /\ UNCHANGED <<head, plan, open, receipt, pending, checkpoint, leases, process,
                 pc, world, history, decision>>

Fail(p) ==
  /\ At(p, "fail")
  /\ job[p].todo = {}
  /\ SetStatus(p, "FAILED")
  /\ Goto(p, "release")
  /\ UNCHANGED <<durable, leases, process, job, world, history, decision>>

Final(p) ==
  /\ At(p, "final")
  /\ Goto(p, IF source = job[p].version THEN "commit" ELSE "fail")
  /\ UNCHANGED <<head, durable, leases, process, job, world, history, decision>>

\* Mutant of Commit: the checkpoint is the version the workbook has by now.
CommitLatest(p) ==
  /\ At(p, "commit")
  /\ SetStatus(p, "COMMITTED")
  /\ LET deferred == {o \in OpsOf[p] : plan[p][o] = "DEFER"}
     IN  pending' = (pending \ OpsOf[p]) \cup deferred
  /\ checkpoint' = source
  /\ Goto(p, "release")
  /\ UNCHANGED <<plan, open, receipt, outbox, leases, process, job, world,
                 history, decision>>

\* finalize_success: status, pending queue and checkpoint in one transaction.
Commit(p) ==
  /\ At(p, "commit")
  /\ SetStatus(p, "COMMITTED")
  /\ LET deferred == {o \in OpsOf[p] : plan[p][o] = "DEFER"}
     IN  pending' = (pending \ OpsOf[p]) \cup deferred
  /\ checkpoint' = job[p].version
  /\ Goto(p, "release")
  /\ UNCHANGED <<plan, open, receipt, outbox, leases, process, job, world,
                 history, decision>>

\* The finally clause of apply_lease; its DELETE may itself raise.
Release(p) ==
  /\ At(p, "release")
  /\ \/ /\ lease' = IF lease = held[p] THEN None ELSE lease
        /\ UNCHANGED faults
     \/ Fault("release") /\ UNCHANGED lease
  /\ held' = [held EXCEPT ![p] = None]
  /\ job' = [job EXCEPT ![p] = IdleJob]
  /\ Goto(p, "idle")
  /\ UNCHANGED <<head, durable, ownerUp, process, notion, source, wikiOk, raced,
                 history, decision>>

-----------------------------------------------------------------------------
(* /nx_set, /nx_reject and /nx_recover.                                       *)

\* Mutant of NewRevision: the receipt of the previous revision stays in force.
NewRevisionKeepingReceipt(p) ==
  /\ head[p].revision < MaxRevision
  /\ head' = [head EXCEPT ![p] = [revision |-> @.revision + 1, status |-> "DRAFT"]]
  /\ open' = [open EXCEPT ![p] = FALSE]
  /\ Goto(p, "request")
  /\ UNCHANGED receipt

\* A new revision is saved as DRAFT; its approval is requested separately.
NewRevision(p) ==
  /\ head[p].revision < MaxRevision
  /\ head' = [head EXCEPT ![p] = [revision |-> @.revision + 1, status |-> "DRAFT"]]
  /\ receipt' = [receipt EXCEPT ![p] = "none"]
  /\ open' = [open EXCEPT ![p] = FALSE]
  /\ Goto(p, "request")

Set(p, o, a) ==
  /\ At(p, "idle")
  /\ StatusOf(p) \in Editable
  /\ NewRevision(p)
  /\ plan' = [plan EXCEPT ![p][o] = a]
  /\ decision' = [decision EXCEPT ![p][o] = a]
  /\ UNCHANGED <<outbox, pending, checkpoint, leases, process, job, world, history>>

RequestApproval(p) ==
  /\ At(p, "request")
  /\ SetStatus(p, "PENDING")
  /\ open' = [open EXCEPT ![p] = TRUE]
  /\ job' = [job EXCEPT ![p] = IdleJob]
  /\ Goto(p, "idle")
  /\ UNCHANGED <<plan, receipt, outbox, pending, checkpoint, leases, process,
                 world, history, decision>>

Reject(p) ==
  /\ At(p, "idle")
  /\ StatusOf(p) \in Rejectable
  /\ SetStatus(p, "REJECTED")
  /\ UNCHANGED <<durable, leases, process, pc, job, world, history, decision>>

\* The workbook and the Wiki must be those of the proposal; operations with no
\* done row are read in Notion and none may be in conflict.
Recover(p) ==
  /\ At(p, "idle")
  /\ StatusOf(p) = "FAILED"
  /\ head[p].revision < MaxRevision
  /\ source = SourceOf[p] /\ ~WikiDrifted(p)
  /\ LET undone == {o \in WriteOps(p) : ~(outbox[o] # None /\ outbox[o].status = "done")}
     IN  /\ \A o \in undone : Inspection(p, o) # "conflict"
         /\ job' = [job EXCEPT ![p].todo = {o \in undone : Inspection(p, o) = "applied"}]
         /\ landed' = landed \cup Seen(p, undone)
  /\ Goto(p, "recover")
  /\ UNCHANGED <<head, durable, leases, process, world, effects, decision>>

RecoverMark(p) ==
  /\ At(p, "recover")
  /\ \E o \in Op :
       /\ First(p, o)
       /\ outbox' = Mark(outbox, {o}, "done")
       /\ job' = [job EXCEPT ![p].todo = @ \ {o}]
  /\ UNCHANGED <<head, plan, open, receipt, pending, checkpoint, leases, process,
                 pc, world, history, decision>>

\* Mutant of RecoverRevise: an operation that was attempted leaves the scope.
RecoverReviseAttempted(p) ==
  /\ At(p, "recover")
  /\ job[p].todo = {}
  /\ NewRevision(p)
  /\ plan' = [plan EXCEPT ![p] = [o \in OpsOf[p] |->
        IF @[o] \in Writes /\ outbox[o] # None /\ outbox[o].status # "blocked"
        THEN "EXCLUDE" ELSE @[o]]]
  /\ UNCHANGED <<outbox, pending, checkpoint, leases, process, job, world,
                 history, decision>>

\* create_recovery_revision: operations with a done row leave the scope.
RecoverRevise(p) ==
  /\ At(p, "recover")
  /\ job[p].todo = {}
  /\ NewRevision(p)
  /\ plan' = [plan EXCEPT ![p] = [o \in OpsOf[p] |->
        IF @[o] \in Writes /\ outbox[o] # None /\ outbox[o].status = "done"
        THEN "EXCLUDE" ELSE @[o]]]
  /\ UNCHANGED <<outbox, pending, checkpoint, leases, process, job, world,
                 history, decision>>

-----------------------------------------------------------------------------
(* Disturbances.                                                              *)

\* An exception (database busy, network down) ends a step without its effect.
\* Inside the loop's try it is a failed operation, elsewhere under the lease it
\* only releases it, and outside the lease the command just ends.
StepRaises(p) ==
  /\ Fault("raise")
  /\ \/ At(p, "recheck") \/ At(p, "preflight") \/ At(p, "patch") \/ At(p, "record")
     \/ /\ gateway # None
        /\ pc[p] \notin {"idle", "release", "recheck", "preflight", "patch", "record"}
  /\ LET inTry == pc[p] \in {"recheck", "preflight", "patch", "record"}
     IN  /\ Goto(p, IF inTry THEN "failing" ELSE IF held[p] # None THEN "release" ELSE "idle")
         /\ job' = IF inTry \/ held[p] # None THEN job ELSE [job EXCEPT ![p] = IdleJob]
  /\ UNCHANGED <<head, durable, leases, process, notion, source, wikiOk, raced,
                 history, decision>>

GatewayDies ==
  /\ gateway # None
  /\ Fault("crash")
  /\ gateway' = None
  /\ ownerUp' = FALSE
  /\ pc' = [p \in Proposal |-> "idle"]
  /\ job' = [p \in Proposal |-> IdleJob]
  /\ held' = [p \in Proposal |-> None]
  /\ UNCHANGED <<head, durable, lease, usedPids, notion, source, wikiOk, raced,
                 history, decision>>

GatewayStarts(pid) ==
  /\ gateway = None
  /\ FreshPids => pid \notin usedPids
  /\ gateway' = pid
  /\ usedPids' = usedPids \cup {pid}
  /\ UNCHANGED <<head, durable, leases, pc, job, world, history, decision>>

\* A person edits a Notion property.
NotionEdited(k, v) ==
  /\ Fault("edit")
  /\ notion[k] # v
  /\ notion' = [notion EXCEPT ![k] = v]
  /\ raced' = IF \E p \in Proposal, o \in Op : pc[p] = "patch" /\ First(p, o) /\ KeyOf[o] = k
              THEN raced \cup {k} ELSE raced
  /\ effects' = {e \in effects : KeyOf[e[3]] # k}
  /\ UNCHANGED <<head, durable, leases, process, pc, job, source, wikiOk, landed, decision>>

SourceMoves(v) ==
  /\ Fault("source")
  /\ source # v
  /\ source' = v
  /\ UNCHANGED <<head, durable, leases, process, pc, job, notion, wikiOk, raced,
                 history, decision>>

WikiMoves ==
  /\ Fault("wiki")
  /\ wikiOk' = ~wikiOk
  /\ UNCHANGED <<head, durable, leases, process, pc, job, notion, source, raced,
                 history, decision>>

\* The approval window closes, and a receipt issued in it expires.
TimePasses(p) ==
  /\ Fault("time")
  /\ open' = [open EXCEPT ![p] = FALSE]
  /\ receipt' = [receipt EXCEPT ![p] = IF @ = "live" THEN "expired" ELSE @]
  /\ UNCHANGED <<head, plan, outbox, pending, checkpoint, leases, process, pc, job,
                 notion, source, wikiOk, raced, history, decision>>

-----------------------------------------------------------------------------
\* What the thread of proposal p does next when nothing disturbs it.
Step(p) ==
  \/ Capture(p) \/ AcquireLease(p) \/ LeaseRefused(p)
  \/ VerifyFails(p) \/ Verify(p) \/ Inspect(p) \/ InspectDone(p) \/ Guard(p)
  \/ Begin(p) \/ Reconcile(p) \/ Reset(p)
  \/ Recheck(p) \/ Preflight(p) \/ Patch(p) \/ Record(p)
  \/ Failing(p) \/ Block(p) \/ Fail(p) \/ Final(p) \/ Commit(p) \/ Release(p)
  \/ RequestApproval(p) \/ RecoverMark(p) \/ RecoverRevise(p)

Command(p) ==
  \/ Approve(p) \/ Redeliver(p) \/ Reject(p) \/ Recover(p)
  \/ \E o \in OpsOf[p], a \in Decisions : Set(p, o, a)

World ==
  \/ GatewayDies
  \/ \E pid \in Pid : GatewayStarts(pid)
  \/ \E k \in Key, v \in Value : NotionEdited(k, v)
  \/ \E v \in Version : SourceMoves(v)
  \/ WikiMoves
  \/ \E p \in Proposal : TimePasses(p) \/ StepRaises(p) \/ PatchUnanswered(p)

Next == \/ \E p \in Proposal : Step(p) \/ Command(p)
        \/ World

Spec == Init /\ [][Next]_vars

\* A running thread goes on: every remote call it makes has a timeout.
ThreadFairness == \A p \in Proposal : WF_vars(Step(p))
FairSpec == Spec /\ ThreadFairness

\* In addition the operator keeps repeating the approval of what is APPROVED or
\* APPLYING, and restarts a dead gateway.
PersistentSpec ==
  /\ FairSpec
  /\ WF_vars(\E pid \in Pid : GatewayStarts(pid))
  /\ \A p \in Proposal : WF_vars(Redeliver(p))

-----------------------------------------------------------------------------
(* The lease protocol: the threads are its workers.                           *)

alive == IF gateway = None THEN {} ELSE {gateway}
LeaseProtocol == INSTANCE ApplyLease WITH Worker <- Proposal

\* acquire, heartbeat, release and the status changes of the commands and of
\* the apply are steps ApplyLease allows, so its exclusion holds here.
ImplementsLease == LeaseProtocol!Spec

-----------------------------------------------------------------------------
(* Safety.                                                                    *)

\* No approved value of a property is one that an operation on it was prepared
\* against.
ProposesChanges ==
  \A o, u \in Op : KeyOf[o] = KeyOf[u] => OldOf[u] \notin {NewOf[o], Edited}

\* The value the user last decided to write for operation o.
Decided(p, o) == IF decision[p][o] = "EDIT" THEN Edited ELSE NewOf[o]

\* Value v of operation o has reached Notion.  A shared operation has one outbox
\* row for all its proposals, which the recovery of one trusts after another wrote
\* its own value: of it no more can be said than that a value of it has.
Reached(o, v) ==
  IF Shared(o) THEN \E w \in Value : <<o, w>> \in landed ELSE <<o, v>> \in landed

\* The nonce is consumed exactly when the apply of that revision has started:
\* an APPROVED proposal can still be (re)delivered or reissued, an APPLYING or
\* FAILED one can never start a second apply on the same receipt.
ReceiptMatchesStatus ==
  \A p \in Proposal :
    /\ StatusOf(p) \in {"DRAFT", "PENDING"} => receipt[p] = "none"
    /\ StatusOf(p) = "APPROVED" => receipt[p] \in {"live", "expired"}
    /\ StatusOf(p) \in {"APPLYING", "FAILED", "COMMITTED"} => receipt[p] = "used"

\* A crash, an unanswered request or a resumed run never makes an outbox row
\* "done" whose approved value did not reach Notion.
DoneMeansLanded ==
  \A o \in Op :
    outbox[o] # None /\ outbox[o].status = "done" => Reached(o, outbox[o].value)

\* The operator decided to write an operation and /nx_recover took it out of
\* the scope: the value decided on is already in Notion.
RecoveryDropsOnlyLanded ==
  \A p \in Proposal : \A o \in OpsOf[p] :
    decision[p][o] \in Writes /\ plan[p][o] \notin Writes => Reached(o, Decided(p, o))

\* "Nobody writes without an approval": a remote write belongs to a revision
\* that is APPLYING on its consumed receipt, is in the scope of that revision,
\* and is made by the holder of the workbook's lease.
WritesAreAuthorised ==
  [][\A p \in Proposal, r \in Revision, o \in Op :
       <<p, r, o>> \in effects' \ effects =>
         /\ head[p] = [revision |-> r, status |-> "APPLYING"]
         /\ receipt[p] = "used"
         /\ o \in WriteOps(p)
         /\ held[p] # None /\ lease = held[p]]_vars

\* A write replaces a value other than the one the operator was shown only if
\* the property was edited after the last comparison, before the request.
OverwritesOnlyReviewed ==
  [][\A p \in Proposal : \A o \in OpsOf[p] :
       pc[p] = "patch" /\ First(p, o) /\ pc'[p] # "patch" /\ effects' # effects
         => notion[KeyOf[o]] = OldOf[o] \/ KeyOf[o] \in raced]_vars

\* "operation IDs are idempotency keys": however often the apply is interrupted,
\* resumed, revised or recovered, a proposal writes an operation that took effect
\* no second time, unless a person edited the property in between.
WrittenOnce ==
  [][\A p \in Proposal : \A o \in OpsOf[p] :
       pc[p] = "patch" /\ First(p, o) /\ pc'[p] = "record"
         => \A r \in Revision : <<p, r, o>> \notin effects]_vars

\* The checkpoint follows a complete apply only: the version it moves to is the
\* approved one, every operation in scope has reached Notion and every deferred
\* one is in the pending queue.
CheckpointMovesWithCommit ==
  [][checkpoint' # checkpoint =>
       \E p \in Proposal :
         /\ StatusOf(p) = "APPLYING" /\ head'[p].status = "COMMITTED"
         /\ checkpoint' = SourceOf[p]
         /\ \A o \in WriteOps(p) : Reached(o, Approved(p, o))
         /\ \A o \in OpsOf[p] : plan[p][o] = "DEFER" => o \in pending']_vars

\* A proposal that ended by commit or by rejection stays as it ended.
EndedStaysEnded ==
  [][\A p \in Proposal :
       StatusOf(p) \in {"COMMITTED", "REJECTED"} => head'[p] = head[p]]_vars

(* Liveness.                                                                  *)

\* With the workbook and the Wiki left alone, an apply that was interrupted
\* once it had consumed its receipt is brought to an end by repeating the same
\* approval.
ApplyingEnds ==
  \A p \in Proposal : StatusOf(p) = "APPLYING" ~> StatusOf(p) # "APPLYING"

=============================================================================
