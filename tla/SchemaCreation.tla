--------------------------- MODULE SchemaCreation ---------------------------
(* The creation of the one Notion database the program may create: the        *)
(* /nx_schema_... commands (security/hermes_schema_gateway.py), their         *)
(* receipts (schema_approval.py, schema_recovery.py), the checks of           *)
(* workflow/notion_schema.py and the tables of persistence/database.py.       *)
(*                                                                            *)
(* The plugin admits one command per proposal and one /nx_schema_plan at a    *)
(* time, so a proposal has at most one thread and only that thread changes    *)
(* its rows.  A Telegram message is claimed before it is carried out and      *)
(* completed with its answer; it is delivered again after a crash.  The       *)
(* request that creates the database may be refused, take effect without an   *)
(* answer, or take effect after the caller gave up.                           *)
EXTENDS Naturals, FiniteSets, Functions

CONSTANTS
  Proposal,      \* schema proposals, each planned by a message of its own
  Update,        \* messages that name a proposal
  Database,      \* databases under the target page (each with its data source)
  Base,          \* states of the parent page, the write bot and the relations
  Secret,        \* approval secrets
  CreatorShown,  \* a database answer names its creator (API version dependent)
  Limit,         \* bound on each kind of disturbance in one behaviour
  MaxFaults,     \* bound on all of them together
  None

Kind    == {"refuse", "lost", "raise", "crash", "rotate", "expire", "drift", "edit",
            "config"}
Command == {"approve", "reject", "recover"}
Status  == {"none", "PENDING", "APPROVED", "APPLYING", "UNKNOWN", "COMMITTED",
            "FAILED", "STALE", "REJECTED", "EXPIRED"}
Active   == {"PENDING", "APPROVED", "APPLYING", "UNKNOWN"}
Terminal == {"COMMITTED", "FAILED", "STALE", "REJECTED", "EXPIRED"}

\* What an answer tells the user.  "denied": nothing was changed in Notion.
\* "error": it could not be carried out to the end.
Answer == {"denied", "rejected", "failed", "committed", "unknown", "conflict",
           "error"}

Receipt  == [update : Update, secret : Secret, open : BOOLEAN, used : BOOLEAN]
Journal  == [status : {"pending", "unknown", "done", "failed"}, attempts : 0 .. 1,
             database : Database \cup {None}, finished : BOOLEAN]
Claim    == [proposal : Proposal, command : Command, answer : Answer \cup {None},
             fresh : BOOLEAN]
Grants    == [secret : Secret, open : BOOLEAN, used : BOOLEAN]
Authority == [answer : Answer \cup {None}, prior : SUBSET Update, receipt : Grants \cup {None}]
Child    == [marker : Proposal \cup {None}, exact : BOOLEAN]
Lease    == [proposal : Proposal, alive : BOOLEAN]
Installation == [proposal : Proposal, database : Database]

ASSUME SchemaAssumption ==
  /\ CreatorShown \in BOOLEAN /\ Secret # {} /\ Base # {}
  /\ Limit \in [Kind -> Nat] /\ MaxFaults \in Nat
  /\ None \notin Proposal \cup Update \cup Database \cup Base \cup Secret \cup Answer
  /\ None \notin Receipt \cup Journal \cup Claim \cup Authority \cup Grants
  /\ None \notin Child \cup Lease \cup Installation

VARIABLES
  \* the state database
  status,     \* [Proposal -> Status]
  approved,   \* [Proposal -> the Base its plan was made from]
  open,       \* [Proposal -> its approval window has not passed]
  receipt,    \* [Proposal -> its approval receipt, or None]
  journal,    \* [Proposal -> its schema_apply_journal row, or None]
  claim,      \* [Update -> its schema_gateway_event_claim row, or None]
  recovery,   \* [Update -> its schema_recovery_event_claim row, or None]
  installed,  \* the registered [proposal, database], or None
  lease,      \* the target's lease row, or None
  \* the gateway
  up,         \* it runs
  secret,     \* the approval secret it was started with
  configured, \* the configuration names a database for the target
  pc,         \* [Proposal -> where its thread stands]
  job,        \* [Proposal -> what its thread remembers]
  \* Notion
  live,       \* the current Base
  child,      \* [Database -> what the page shows of it, or None]
  inflight,   \* proposals whose request may still take effect
  faults,
  \* history, read by the properties only
  made,       \* [Proposal -> databases its requests created]
  posts,      \* [Proposal -> requests sent for it]
  postedBy    \* messages that sent a request

rows    == <<status, approved, open, receipt, journal, recovery, installed>>
process == <<up, secret, configured>>
world   == <<live, child, inflight, faults>>
history == <<made, posts, postedBy>>
vars == <<rows, claim, lease, process, pc, job, world, history>>

Label == {"idle", "survey", "save", "dispatch", "lease", "preview", "issue",
          "begin", "recheck", "attempt", "post", "await", "record", "verify", "finalize",
          "unknown", "authority", "sign", "look", "adopt", "register",
          "release", "complete", "answer"}
Job == [update : Update \cup {None}, answer : Answer \cup {None}, base : Base \cup {None},
        database : Database \cup {None}, signed : BOOLEAN]
IdleJob == [update |-> None, answer |-> None, base |-> None, database |-> None,
            signed |-> FALSE]

FirstSecret == CHOOSE s \in Secret : TRUE
FirstBase   == CHOOSE b \in Base : TRUE

TypeOK ==
  /\ status \in [Proposal -> Status]
  /\ approved \in [Proposal -> Base \cup {None}]
  /\ open \in [Proposal -> BOOLEAN]
  /\ receipt \in [Proposal -> Receipt \cup {None}]
  /\ journal \in [Proposal -> Journal \cup {None}]
  /\ claim \in [Update -> Claim \cup {None}]
  /\ recovery \in [Update -> Authority \cup {None}]
  /\ installed \in Installation \cup {None}
  /\ lease \in Lease \cup {None}
  /\ up \in BOOLEAN /\ secret \in Secret /\ configured \in BOOLEAN
  /\ pc \in [Proposal -> Label]
  /\ job \in [Proposal -> Job]
  /\ live \in Base
  /\ child \in [Database -> Child \cup {None}]
  /\ inflight \subseteq Proposal
  /\ faults \in [Kind -> Nat]
  /\ made \in [Proposal -> SUBSET Database]
  /\ posts \in [Proposal -> Nat]
  /\ postedBy \subseteq Update

Init ==
  /\ status = [p \in Proposal |-> "none"]
  /\ approved = [p \in Proposal |-> None]
  /\ open = [p \in Proposal |-> TRUE]
  /\ receipt = [p \in Proposal |-> None]
  /\ journal = [p \in Proposal |-> None]
  /\ claim = [u \in Update |-> None]
  /\ recovery = [u \in Update |-> None]
  /\ installed = None /\ lease = None
  /\ up = TRUE /\ secret = FirstSecret /\ configured = FALSE
  /\ pc = [p \in Proposal |-> "idle"]
  /\ job = [p \in Proposal |-> IdleJob]
  /\ live = FirstBase
  /\ child = [d \in Database |-> None]
  /\ inflight = {} /\ faults = [k \in Kind |-> 0]
  /\ made = [p \in Proposal |-> {}] /\ posts = [p \in Proposal |-> 0] /\ postedBy = {}

-----------------------------------------------------------------------------
(* What the handlers read and write.                                          *)

At(p, label)    == up /\ pc[p] = label
Goto(p, label)  == pc' = [pc EXCEPT ![p] = label]
SetStatus(p, s) == status' = [status EXCEPT ![p] = s]

\* The command ends with an answer, before or under the target's lease.
End(p, a)   == Goto(p, "complete") /\ job' = [job EXCEPT ![p].answer = a]
Leave(p, a) == Goto(p, "release") /\ job' = [job EXCEPT ![p].answer = a]

Message(p) == job[p].update
Asks(p, c) == At(p, "dispatch") /\ claim[Message(p)].command = c

\* Databases of the page that carry the target's title or a marker.
Relevant == {d \in Database : child[d] # None}

\* capture_schema_live_binding against the plan's binding, which has no child.
SameParent(p)   == live = approved[p]
BindingHolds(p) == SameParent(p) /\ Relevant = {}

\* Ids a database has or had.
Unused == {d \in Database : child[d] = None /\ \A p \in Proposal : d \notin made[p]}

\* mark_schema_apply_journal: a conflict answer given for the row as it was
\* attests nothing about the row as it is now.
WriteJournal(p, j) ==
  /\ journal' = [journal EXCEPT ![p] = j]
  /\ claim' = [u \in Update |->
       IF claim[u] # None /\ claim[u].proposal = p
       THEN [claim[u] EXCEPT !.fresh = FALSE] ELSE claim[u]]

FaultsSoFar == FoldFunction(+, 0, faults)
Fault(k) ==
  /\ faults[k] < Limit[k] /\ FaultsSoFar < MaxFaults
  /\ faults' = [faults EXCEPT ![k] = @ + 1]

-----------------------------------------------------------------------------
(* /nx_schema_plan: one at a time; the parent, the write bot and the relation *)
(* targets it saw are the plan's precondition.                                *)

Planning == {"survey", "save"}

PlanBegin(p) ==
  /\ At(p, "idle") /\ status[p] = "none"
  /\ \A q \in Proposal : pc[q] \notin Planning /\ status[q] \notin Active
  /\ installed = None /\ ~configured
  /\ Goto(p, "survey")
  /\ UNCHANGED <<rows, claim, lease, process, job, world, history>>

\* A database with the target's title or marker exists: no plan is made.
Survey(p) ==
  /\ At(p, "survey")
  /\ IF Relevant = {}
     THEN job' = [job EXCEPT ![p].base = live] /\ Goto(p, "save")
     ELSE UNCHANGED job /\ Goto(p, "idle")
  /\ UNCHANGED <<rows, claim, lease, process, world, history>>

\* save_schema_proposal; one_active_schema_proposal_per_target.
SavePlan(p) ==
  /\ At(p, "save")
  /\ \A q \in Proposal : status[q] \notin Active
  /\ SetStatus(p, "PENDING")
  /\ approved' = [approved EXCEPT ![p] = job[p].base]
  /\ job' = [job EXCEPT ![p] = IdleJob] /\ Goto(p, "idle")
  /\ UNCHANGED <<open, receipt, journal, recovery, installed, claim, lease,
                 process, world, history>>

-----------------------------------------------------------------------------
(* A message is claimed, carried out, and completed with its answer.          *)

\* Messages differ by their names only: one unused message stands for any.
Deliver(p, u, c) ==
  /\ At(p, "idle") /\ status[p] # "none"
  /\ claim[u] = None /\ u = CHOOSE v \in Update : claim[v] = None
  /\ claim' = [claim EXCEPT ![u] =
        [proposal |-> p, command |-> c, answer |-> None, fresh |-> TRUE]]
  /\ job' = [job EXCEPT ![p] = [IdleJob EXCEPT !.update = u]]
  /\ Goto(p, "dispatch")
  /\ UNCHANGED <<rows, lease, process, world, history>>

\* Again, after the process that claimed it died; a completed message only
\* gets its stored answer.
Redeliver(p, u) ==
  /\ At(p, "idle")
  /\ claim[u] # None /\ claim[u].proposal = p /\ claim[u].answer = None
  /\ job' = [job EXCEPT ![p] = [IdleJob EXCEPT !.update = u]]
  /\ Goto(p, "dispatch")
  /\ UNCHANGED <<rows, claim, lease, process, world, history>>

\* complete_schema_recovery_event: the first answer stays.
CompleteRecovery(p, u) ==
  \/ /\ recovery[u].answer = None
     /\ recovery' = [recovery EXCEPT ![u].answer = job[p].answer]
     /\ UNCHANGED job
  \/ /\ recovery[u].answer # None
     /\ job' = [job EXCEPT ![p].answer = recovery[u].answer]
     /\ UNCHANGED recovery

\* _complete_result.
Complete(p) ==
  /\ At(p, "complete")
  /\ LET u == Message(p)
     IN  IF claim[u].command = "recover" /\ recovery[u] # None
         THEN CompleteRecovery(p, u)
         ELSE UNCHANGED <<recovery, job>>
  /\ Goto(p, "answer")
  /\ UNCHANGED <<status, approved, open, receipt, journal, installed, claim, lease,
                 process, world, history>>

AnswerMessage(p) ==                         \* complete_schema_gateway_event
  /\ At(p, "answer")
  /\ claim' = [claim EXCEPT ![Message(p)].answer = job[p].answer]
  /\ job' = [job EXCEPT ![p] = IdleJob] /\ Goto(p, "idle")
  /\ UNCHANGED <<rows, lease, process, world, history>>

Reject(p) ==
  /\ Asks(p, "reject")
  /\ IF status[p] = "PENDING" THEN SetStatus(p, "REJECTED") ELSE UNCHANGED status
  /\ End(p, IF status[p] \in {"PENDING", "REJECTED"} THEN "rejected" ELSE "denied")
  /\ UNCHANGED <<approved, open, receipt, journal, recovery, installed, claim, lease,
                 process, world, history>>

-----------------------------------------------------------------------------
(* /nx_schema_approve, up to the consumption of the receipt.                  *)

\* _dispatch_approve answers from the stored state alone.
Settled(p) == installed # None \/ status[p] \notin {"PENDING", "APPROVED"}

ApproveSettled(p) ==
  /\ Asks(p, "approve") /\ Settled(p)
  /\ End(p, CASE status[p] = "COMMITTED" -> "committed"
              [] status[p] \in {"APPLYING", "UNKNOWN"} -> "unknown"
              [] OTHER -> "denied")
  /\ UNCHANGED <<rows, claim, lease, process, world, history>>

ApproveExpired(p) ==
  /\ Asks(p, "approve") /\ ~Settled(p)
  /\ status[p] = "PENDING" /\ ~open[p]
  /\ SetStatus(p, "EXPIRED") /\ End(p, "denied")
  /\ UNCHANGED <<approved, open, receipt, journal, recovery, installed, claim, lease,
                 process, world, history>>

ApproveEnter(p) ==
  /\ Asks(p, "approve") /\ ~Settled(p)
  /\ status[p] = "PENDING" => open[p]
  /\ Goto(p, "lease")
  /\ UNCHANGED <<rows, claim, lease, process, job, world, history>>

\* acquire_apply_lease, keyed by the schema purpose and the parent page.
MayTake(p) ==
  lease # None => /\ ~lease.alive
                  /\ lease.proposal = p \/ status[lease.proposal] \in Terminal

TakeLease(p) ==
  /\ At(p, "lease") /\ MayTake(p)
  /\ lease' = [proposal |-> p, alive |-> TRUE]
  /\ Goto(p, IF claim[Message(p)].command = "approve" THEN "preview" ELSE "look")
  /\ UNCHANGED <<rows, claim, process, job, world, history>>

LeaseBusy(p) ==
  /\ At(p, "lease") /\ ~MayTake(p)
  /\ End(p, "denied")
  /\ UNCHANGED <<rows, claim, lease, process, world, history>>

Release(p) ==
  /\ At(p, "release")
  /\ lease' = None /\ Goto(p, "complete")
  /\ UNCHANGED <<rows, claim, process, job, world, history>>

\* _mark_preapply_stale or mark_schema_proposal_stale, then the error.
Stale(p) ==
  /\ SetStatus(p, "STALE") /\ Leave(p, "denied")
  /\ UNCHANGED <<approved, open, receipt, journal, recovery, installed, claim, lease,
                 process, world, history>>

\* The configuration and the first snapshot against the plan's binding.  Another
\* active proposal would be refused here.
Preview(p) ==
  /\ At(p, "preview")
  /\ \A q \in Proposal \ {p} : status[q] \notin Active
  /\ \/ (configured \/ ~BindingHolds(p)) /\ Stale(p)
     \/ /\ ~configured /\ BindingHolds(p)
        /\ Goto(p, "issue")
        /\ UNCHANGED <<rows, claim, lease, process, job, world, history>>

\* Mutant of ItsReceipt: the receipt of a proposal serves any message.
AnyReceipt(p) == receipt[p] # None

\* load_schema_receipt_for_event: the message is the one that was approved.
ItsReceipt(p) == receipt[p].update = Message(p)

\* SchemaApprovalService: what it signs, and what it accepts.
Signed(p)   == [update |-> Message(p), secret |-> secret, open |-> TRUE, used |-> FALSE]
Verified(p) == receipt[p].secret = secret /\ receipt[p].open /\ ItsReceipt(p)

\* commit_schema_approval.
Issue(p) ==
  /\ At(p, "issue") /\ status[p] = "PENDING"
  /\ IF open[p]
     THEN /\ SetStatus(p, "APPROVED")
          /\ receipt' = [receipt EXCEPT ![p] = Signed(p)]
          /\ Goto(p, "begin") /\ UNCHANGED job
     ELSE UNCHANGED <<status, receipt>> /\ Leave(p, "denied")
  /\ UNCHANGED <<approved, open, journal, recovery, installed, claim, lease,
                 process, world, history>>

\* An approved proposal whose apply never began: only the message that was
\* approved goes on, and only with a live receipt.
Reissue(p) ==
  /\ At(p, "issue") /\ status[p] = "APPROVED"
  /\ IF ItsReceipt(p) /\ receipt[p].open
     THEN /\ Goto(p, "begin")
          /\ UNCHANGED <<rows, claim, lease, process, job, world, history>>
     ELSE Stale(p)

\* SchemaApprovalService.verify, then begin_schema_apply.
Begin(p) ==
  /\ At(p, "begin")
  /\ IF Verified(p)
     THEN /\ SetStatus(p, "APPLYING")
          /\ receipt' = [receipt EXCEPT ![p].used = TRUE]
          /\ WriteJournal(p, [status |-> "pending", attempts |-> 0,
                              database |-> None, finished |-> FALSE])
          /\ Goto(p, "recheck")
          /\ UNCHANGED <<approved, open, recovery, installed, lease, process, job,
                         world, history>>
     ELSE Stale(p)

-----------------------------------------------------------------------------
(* /nx_schema_approve, the creation.                                          *)

\* fail_schema_apply: nothing was created.
FailApply(p, a) ==
  /\ SetStatus(p, "FAILED")
  /\ WriteJournal(p, [journal[p] EXCEPT !.status = "failed"])
  /\ Leave(p, a)
  /\ UNCHANGED <<approved, open, receipt, recovery, installed, lease, process>>

Recheck(p) ==
  /\ At(p, "recheck")
  /\ \/ /\ BindingHolds(p)
        /\ Goto(p, "attempt")
        /\ UNCHANGED <<rows, claim, lease, process, job, world, history>>
     \/ ~BindingHolds(p) /\ FailApply(p, "denied") /\ UNCHANGED <<world, history>>

Attempt(p) ==                               \* attempts 0 -> 1, at most once
  /\ At(p, "attempt") /\ journal[p].attempts = 0
  /\ WriteJournal(p, [journal[p] EXCEPT !.attempts = 1])
  /\ Goto(p, "post")
  /\ UNCHANGED <<status, approved, open, receipt, recovery, installed, lease, process,
                 job, world, history>>

\* _ExactCreateVerifier: a used receipt of this secret, its own APPLYING
\* proposal and an attempt without a result.  It may have run out meanwhile.
MayCreate(p) ==
  /\ status[p] = "APPLYING" /\ receipt[p].used /\ receipt[p].secret = secret
  /\ journal[p].status = "pending" /\ journal[p].attempts = 1

Post(p) ==                                  \* create_database
  /\ At(p, "post") /\ MayCreate(p)
  /\ inflight' = inflight \cup {p}
  /\ posts' = [posts EXCEPT ![p] = @ + 1]
  /\ postedBy' = postedBy \cup {Message(p)}
  /\ Goto(p, "await")
  /\ UNCHANGED <<rows, claim, lease, process, job, live, child, faults, made>>

\* The request takes effect; once the caller gave up, it may be too late for
\* the attempt's time window.
TakesEffect(p) ==
  /\ p \in inflight
  /\ \E d \in Unused, e \in IF pc[p] = "await" THEN {TRUE} ELSE BOOLEAN :
       /\ child' = [child EXCEPT ![d] = [marker |-> p, exact |-> e]]
       /\ made' = [made EXCEPT ![p] = @ \cup {d}]
  /\ inflight' = inflight \ {p}
  /\ UNCHANGED <<rows, claim, lease, process, pc, job, live, faults, posts, postedBy>>

Answered(p) ==
  /\ At(p, "await") /\ p \notin inflight
  /\ job' = [job EXCEPT ![p].database = CHOOSE d \in made[p] : TRUE]
  /\ Goto(p, "record")
  /\ UNCHANGED <<rows, claim, lease, process, world, history>>

Refused(p) ==                               \* a definite answer of Notion
  /\ At(p, "await") /\ p \in inflight /\ Fault("refuse")
  /\ inflight' = inflight \ {p}
  /\ FailApply(p, "failed")
  /\ UNCHANGED <<live, child, history>>

Unanswered(p) ==                            \* timeout, 5xx, unusable answer
  /\ At(p, "await") /\ Fault("lost")
  /\ Goto(p, "unknown")
  /\ UNCHANGED <<rows, claim, lease, process, job, live, child, inflight, history>>

\* Mutant of Record: the answer counts as another attempt.
RecordCounts(p) ==
  /\ At(p, "record")
  /\ WriteJournal(p, [journal[p] EXCEPT !.database = job[p].database, !.finished = TRUE,
                                       !.attempts = @ + 1])
  /\ Goto(p, "verify")
  /\ UNCHANGED <<status, approved, open, receipt, recovery, installed, lease, process,
                 job, world, history>>

Record(p) ==
  /\ At(p, "record")
  /\ WriteJournal(p, [journal[p] EXCEPT !.database = job[p].database, !.finished = TRUE])
  /\ Goto(p, "verify")
  /\ UNCHANGED <<status, approved, open, receipt, recovery, installed, lease, process,
                 job, world, history>>

\* verify_created_schema on the pair of ids the answer gave.
Verify(p) ==
  /\ At(p, "verify")
  /\ LET d == job[p].database
     IN  IF child[d] # None /\ child[d].exact
         THEN /\ WriteJournal(p, [journal[p] EXCEPT !.status = "done"])
              /\ Goto(p, "finalize")
         ELSE UNCHANGED <<journal, claim>> /\ Goto(p, "unknown")
  /\ UNCHANGED <<status, approved, open, receipt, recovery, installed, lease, process,
                 job, world, history>>

\* finalize_schema_installation.
Commit(p, d) ==
  /\ SetStatus(p, "COMMITTED")
  /\ installed' = [proposal |-> p, database |-> d]
  /\ Leave(p, "committed")

Finalize(p) ==
  /\ At(p, "finalize")
  /\ status[p] = "APPLYING" /\ journal[p].status = "done"
  /\ Commit(p, job[p].database)
  /\ UNCHANGED <<approved, open, receipt, journal, recovery, claim, lease, process,
                 world, history>>

\* An unknown journal takes the proposal with it.
UnknownRows(p) ==
  /\ WriteJournal(p, [journal[p] EXCEPT !.status = "unknown", !.finished = TRUE])
  /\ SetStatus(p, "UNKNOWN")

\* Mutants of MarkUnknown: the attempt counts as failed, or the user is told
\* that the command was denied.
MarkFailed(p) ==
  /\ At(p, "unknown")
  /\ IF journal[p].status = "pending"
     THEN /\ WriteJournal(p, [journal[p] EXCEPT !.status = "failed", !.finished = TRUE])
          /\ SetStatus(p, "FAILED")
     ELSE UNCHANGED <<journal, claim, status>>
  /\ Leave(p, "unknown")
  /\ UNCHANGED <<approved, open, receipt, recovery, installed, lease, process, world,
                 history>>
MarkUnknownDenies(p) ==
  /\ At(p, "unknown")
  /\ IF journal[p].status = "pending"
     THEN UnknownRows(p)
     ELSE UNCHANGED <<journal, claim, status>>
  /\ Leave(p, "denied")
  /\ UNCHANGED <<approved, open, receipt, recovery, installed, lease, process, world,
                 history>>

\* _unknown_after_attempt: a journal that is done cannot become unknown, and
\* the answer is UNKNOWN whether the rows could be written or not.
MarkUnknown(p) ==
  /\ At(p, "unknown")
  /\ IF journal[p].status = "pending"
     THEN UnknownRows(p)
     ELSE UNCHANGED <<journal, claim, status>>
  /\ Leave(p, "unknown")
  /\ UNCHANGED <<approved, open, receipt, recovery, installed, lease, process, world,
                 history>>

-----------------------------------------------------------------------------
(* /nx_schema_recover: reads Notion, writes only its own records.             *)

RecoverEnter(p) ==
  /\ Asks(p, "recover")
  /\ \/ status[p] = "COMMITTED" /\ End(p, "committed")
     \/ status[p] \notin {"COMMITTED", "APPLYING", "UNKNOWN"} /\ End(p, "denied")
     \/ /\ status[p] \in {"APPLYING", "UNKNOWN"} /\ receipt[p].secret = secret
        /\ Goto(p, "lease") /\ UNCHANGED job
     \/ /\ status[p] = "UNKNOWN" /\ receipt[p].secret # secret
        /\ Goto(p, "authority") /\ UNCHANGED job
     \/ /\ status[p] = "APPLYING" /\ receipt[p].secret # secret
        /\ End(p, "denied")
  /\ UNCHANGED <<rows, claim, lease, process, world, history>>

\* The receipt was signed with a secret the process no longer has: the message
\* claims an authority of its own, which remembers the conflicts before it.
Attests(p, u, v) ==
  /\ v # u /\ claim[v] # None
  /\ claim[v].proposal = p /\ claim[v].command = "recover"
  /\ claim[v].answer = "conflict" /\ claim[v].fresh

FirstClaim(p, u) ==
  /\ recovery[u] = None
  /\ recovery' = [recovery EXCEPT ![u] =
        [answer |-> None, prior |-> {v \in Update : Attests(p, u, v)}, receipt |-> None]]
  /\ Goto(p, "sign") /\ UNCHANGED job

\* The message was claimed before: it goes on, or has its answer.
ClaimedBefore(p, u) ==
  /\ recovery[u] # None /\ UNCHANGED recovery
  /\ IF recovery[u].answer = None
     THEN Goto(p, "sign") /\ UNCHANGED job
     ELSE End(p, recovery[u].answer)

ClaimRecovery(p) ==
  /\ At(p, "authority")
  /\ LET u == Message(p) IN FirstClaim(p, u) \/ ClaimedBefore(p, u)
  /\ UNCHANGED <<status, approved, open, receipt, journal, installed, claim, lease,
                 process, world, history>>

\* _validated_schema_recovery_evidence: the message is claimed for this and open,
\* the one POST ended UNKNOWN with the ids of what it created, its message was
\* told so, and an earlier recovery read a conflict since.
ClaimOpen(u) == recovery[u].answer = None
AttemptUnknown(p) ==
  /\ status[p] = "UNKNOWN"
  /\ journal[p].status = "unknown" /\ journal[p].attempts = 1
  /\ journal[p].database # None
ApproverTold(p) == receipt[p].used /\ claim[receipt[p].update].answer = "unknown"

\* Mutant of Evidence: no conflict is asked for.
EvidenceUnattested(p, u) == ClaimOpen(u) /\ AttemptUnknown(p) /\ ApproverTold(p)

Evidence(p, u) ==
  /\ ClaimOpen(u) /\ AttemptUnknown(p) /\ ApproverTold(p)
  /\ \E v \in recovery[u].prior : Attests(p, u, v)

\* SchemaRecoveryService: what it signs, and what it accepts.
Grant      == [secret |-> secret, open |-> TRUE, used |-> FALSE]
Granted(r) == r.secret = secret /\ r.open /\ ~r.used

\* load_schema_recovery_receipt_for_event.
Receipted(u) == recovery[u].receipt # None

\* commit_schema_recovery_authority.
SignNew(p, u) ==
  /\ ~Receipted(u) /\ Evidence(p, u)
  /\ recovery' = [recovery EXCEPT ![u].receipt = Grant]

\* SchemaRecoveryService.verify, also of a receipt stored before.
Sign(p) ==
  /\ At(p, "sign")
  /\ LET u == Message(p)
     IN  \/ /\ SignNew(p, u) \/ (Receipted(u) /\ Granted(recovery[u].receipt) /\ UNCHANGED recovery)
            /\ job' = [job EXCEPT ![p].signed = TRUE] /\ Goto(p, "lease")
         \/ /\ IF Receipted(u) THEN ~Granted(recovery[u].receipt) ELSE ~Evidence(p, u)
            /\ End(p, "denied") /\ UNCHANGED recovery
  /\ UNCHANGED <<status, approved, open, receipt, journal, installed, claim, lease,
                 process, world, history>>

\* verify_created_schema: an answer without a creator needs the journal's ids.
Proven(p, d) ==
  /\ child[d].marker = p /\ child[d].exact
  /\ journal[p].database = d \/ (journal[p].database = None /\ CreatorShown)

\* The attempt has no end in the journal: no window to look for its result in.
LookUnknown(p) ==
  /\ At(p, "look") /\ journal[p].attempts = 1 /\ ~journal[p].finished
  /\ Leave(p, "unknown")
  /\ UNCHANGED <<rows, claim, lease, process, world, history>>

\* decide_schema_reconciliation.
Conflicting(p) == Cardinality(Relevant) > 1 \/ \E d \in Relevant : ~Proven(p, d)

Look(p) ==
  /\ At(p, "look") /\ (journal[p].attempts = 1 => journal[p].finished)
  /\ \/ /\ ~SameParent(p)
        /\ \E a \in {"conflict", "denied"} : Leave(p, a)
        /\ UNCHANGED <<rows, claim, lease, process, world, history>>
     \/ /\ SameParent(p) /\ Conflicting(p)
        /\ Leave(p, "conflict")
        /\ UNCHANGED <<rows, claim, lease, process, world, history>>
     \/ /\ SameParent(p) /\ Relevant = {} /\ journal[p].attempts = 1
        /\ Leave(p, "unknown")
        /\ UNCHANGED <<rows, claim, lease, process, world, history>>
     \/ /\ SameParent(p) /\ Relevant = {} /\ journal[p].attempts = 0
        /\ FailApply(p, "failed") /\ UNCHANGED <<world, history>>
     \/ /\ SameParent(p)
        /\ \E d \in Database :
             /\ Relevant = {d} /\ Proven(p, d)
             /\ job' = [job EXCEPT ![p].database = d]
        /\ Goto(p, IF job[p].signed THEN "register" ELSE "adopt")
        /\ UNCHANGED <<rows, claim, lease, process, world, history>>

\* Mutant of Adopt: the journal is always done, which an unknown one refuses.
AdoptDone(p) ==
  /\ At(p, "adopt")
  /\ IF journal[p].status = "unknown"
     THEN Leave(p, "denied") /\ UNCHANGED <<journal, claim>>
     ELSE /\ WriteJournal(p, [journal[p] EXCEPT !.status = "done",
                             !.database = job[p].database, !.finished = TRUE])
          /\ Goto(p, "register") /\ UNCHANGED job
  /\ UNCHANGED <<status, approved, open, receipt, recovery, installed, lease, process,
                 world, history>>

Adopt(p) ==
  /\ At(p, "adopt")
  /\ WriteJournal(p, [journal[p] EXCEPT
        !.status = IF status[p] = "UNKNOWN" THEN "unknown" ELSE "done",
        !.database = job[p].database, !.finished = TRUE])
  /\ Goto(p, "register")
  /\ UNCHANGED <<status, approved, open, receipt, recovery, installed, lease, process,
                 job, world, history>>

\* finalize_schema_recovery_installation spends the receipt with the same
\* transaction that registers the database.
Spend(u) == recovery' = [recovery EXCEPT ![u].receipt.used = TRUE]
RegisterSigned(p, u) ==
  IF Granted(recovery[u].receipt) /\ Evidence(p, u)
  THEN Spend(u) /\ Commit(p, job[p].database)
  ELSE UNCHANGED <<status, recovery, installed>> /\ Leave(p, "denied")

Register(p) ==
  /\ At(p, "register")
  /\ \/ job[p].signed /\ RegisterSigned(p, Message(p))
     \/ ~job[p].signed /\ UNCHANGED recovery /\ Commit(p, job[p].database)
  /\ UNCHANGED <<approved, open, receipt, journal, claim, lease, process,
                 world, history>>

-----------------------------------------------------------------------------
(* Disturbances.                                                              *)

\* _dispatch_approve after an exception: an approval not yet used is given up.
Aborted(p) == status' = IF status[p] = "APPROVED" THEN [status EXCEPT ![p] = "STALE"] ELSE status

\* A read of Notion or a write of the state database raises.
Raise(p) ==
  /\ up /\ Fault("raise")
  /\ \/ pc[p] \in {"preview", "attempt", "look", "adopt", "register"}
        /\ Leave(p, "denied") /\ UNCHANGED <<status, journal, claim>>
     \/ /\ pc[p] \in {"issue", "begin"}
        /\ Aborted(p) /\ Leave(p, "denied") /\ UNCHANGED <<journal, claim>>
     \/ /\ pc[p] = "recheck"
        /\ SetStatus(p, "FAILED")
        /\ WriteJournal(p, [journal[p] EXCEPT !.status = "failed"])
        /\ Leave(p, "denied")
     \/ /\ pc[p] \in {"record", "verify", "finalize"}
        /\ Goto(p, "unknown") /\ UNCHANGED <<job, status, journal, claim>>
     \/ /\ pc[p] = "unknown"
        /\ Leave(p, "unknown") /\ UNCHANGED <<status, journal, claim>>
     \/ /\ pc[p] \in {"authority", "sign"}
        /\ End(p, "denied") /\ UNCHANGED <<status, journal, claim>>
     \/ /\ pc[p] = "release"
        /\ End(p, "error") /\ UNCHANGED <<status, journal, claim>>
     \/ /\ pc[p] \in {"complete", "answer"}
        /\ Goto(p, "idle") /\ job' = [job EXCEPT ![p] = IdleJob]
        /\ UNCHANGED <<status, journal, claim>>
  /\ UNCHANGED <<approved, open, receipt, recovery, installed, lease, process,
                 live, child, inflight, history>>

Crash ==
  /\ up /\ Fault("crash")
  /\ up' = FALSE
  /\ pc' = [p \in Proposal |-> "idle"] /\ job' = [p \in Proposal |-> IdleJob]
  /\ lease' = IF lease = None THEN None ELSE [lease EXCEPT !.alive = FALSE]
  /\ UNCHANGED <<rows, claim, secret, configured, live, child, inflight, history>>

Restart ==
  /\ ~up /\ up' = TRUE
  /\ UNCHANGED <<rows, claim, lease, secret, configured, pc, job, world, history>>

RestartRotated ==
  /\ ~up /\ Fault("rotate")
  /\ up' = TRUE /\ secret' \in Secret \ {secret}
  /\ UNCHANGED <<rows, claim, lease, configured, pc, job, live, child, inflight, history>>

\* An approval window, an approval receipt or a recovery receipt runs out.
Expire ==
  /\ Fault("expire")
  /\ \/ \E p \in Proposal :
        /\ open[p] /\ status[p] = "PENDING" /\ open' = [open EXCEPT ![p] = FALSE]
        /\ UNCHANGED <<receipt, recovery>>
     \/ \E p \in Proposal :
        /\ receipt[p] # None /\ status[p] = "APPROVED" /\ receipt[p].open
        /\ receipt' = [receipt EXCEPT ![p].open = FALSE]
        /\ UNCHANGED <<open, recovery>>
     \/ \E u \in Update :
        /\ recovery[u] # None /\ recovery[u].receipt # None
        /\ recovery[u].receipt.open /\ ~recovery[u].receipt.used
        /\ recovery' = [recovery EXCEPT ![u].receipt.open = FALSE]
        /\ UNCHANGED <<open, receipt>>
  /\ UNCHANGED <<status, approved, journal, installed, claim, lease, process, pc, job,
                 live, child, inflight, history>>

UserDrifts ==
  /\ Fault("drift") /\ live' \in Base \ {live}
  /\ UNCHANGED <<rows, claim, lease, process, pc, job, child, inflight, history>>

\* The user adds a database of that title, renames or deletes one, or changes
\* one's properties.
UserEdits ==
  /\ Fault("edit")
  /\ \/ \E d \in Unused : child' = [child EXCEPT ![d] = [marker |-> None, exact |-> FALSE]]
     \/ \E d \in Relevant : child' = [child EXCEPT ![d] = None]
     \/ \E d \in Relevant : child[d].exact /\ child' = [child EXCEPT ![d].exact = FALSE]
  /\ UNCHANGED <<rows, claim, lease, process, pc, job, live, inflight, history>>

Configure ==
  /\ Fault("config") /\ ~configured /\ configured' = TRUE
  /\ UNCHANGED <<rows, claim, lease, up, secret, pc, job, live, child, inflight, history>>

\* The bound on messages: one that was answered and on which no later command
\* depends stands for a message not yet sent.
Forget(u) ==
  /\ claim[u] # None /\ claim[u].answer # None
  /\ \A p \in Proposal : receipt[p] # None => receipt[p].update # u
  /\ LET p == claim[u].proposal
     IN  Attests(p, None, u) =>
           \E v \in Update : /\ Attests(p, u, v)
                            /\ \A w \in Update : recovery[w] # None =>
                                 (u \in recovery[w].prior => v \in recovery[w].prior)
  /\ recovery[u] # None /\ recovery[u].receipt # None => ~recovery[u].receipt.used
  /\ claim' = [claim EXCEPT ![u] = None]
  /\ recovery' = [w \in Update |->
       IF w = u \/ recovery[w] = None THEN (IF w = u THEN None ELSE recovery[w])
       ELSE [recovery[w] EXCEPT !.prior = @ \ {u}]]
  /\ UNCHANGED <<status, approved, open, receipt, journal, installed, lease, process,
                 pc, job, world, history>>

-----------------------------------------------------------------------------
Plan(p)    == PlanBegin(p) \/ Survey(p) \/ SavePlan(p)
Inbox(p)   == \E u \in Update : Redeliver(p, u) \/ \E c \in Command : Deliver(p, u, c)
Prepare(p) ==
  \/ Reject(p) \/ ApproveSettled(p) \/ ApproveExpired(p) \/ ApproveEnter(p)
  \/ TakeLease(p) \/ LeaseBusy(p) \/ Preview(p) \/ Issue(p) \/ Reissue(p) \/ Begin(p)
Create(p) ==
  \/ Recheck(p) \/ Attempt(p) \/ Post(p) \/ Answered(p) \/ Record(p) \/ Verify(p)
  \/ Finalize(p) \/ MarkUnknown(p)
Recover(p) ==
  \/ RecoverEnter(p) \/ ClaimRecovery(p) \/ Sign(p) \/ LookUnknown(p) \/ Look(p)
  \/ Adopt(p) \/ Register(p)
Close(p) == Release(p) \/ Complete(p) \/ AnswerMessage(p)

Thread(p)  == Survey(p) \/ SavePlan(p) \/ Prepare(p) \/ Create(p) \/ Recover(p) \/ Close(p)
Environment ==
  \/ Crash \/ Restart \/ RestartRotated \/ Expire \/ UserDrifts \/ UserEdits \/ Configure
  \/ \E p \in Proposal : TakesEffect(p) \/ Refused(p) \/ Unanswered(p) \/ Raise(p)
  \/ \E u \in Update : Forget(u)

Next ==
  \/ Environment
  \/ \E p \in Proposal : PlanBegin(p) \/ Inbox(p) \/ Thread(p)
Spec == Init /\ [][Next]_vars

-----------------------------------------------------------------------------
(* Fairness: a command that runs goes on, Notion deals with a request that is  *)
(* awaited, and the gateway is started again.                                 *)

Liveness ==
  /\ WF_vars(Restart)
  /\ \A p \in Proposal : WF_vars(Thread(p)) /\ WF_vars(TakesEffect(p) /\ pc[p] = "await")
FairSpec == Spec /\ Liveness

\* And a user who sends /nx_schema_recover again and again.
PatientUser ==
  /\ \A p \in Proposal :
       SF_vars(\E u \in Update : Deliver(p, u, "recover") \/ Redeliver(p, u))
  /\ \A u \in Update : WF_vars(Forget(u))
PatientSpec == FairSpec /\ PatientUser

-----------------------------------------------------------------------------
(* Properties.                                                                *)

Open(p) == posts[p] > 0 /\ status[p] \in {"APPLYING", "UNKNOWN"}

\* However the gateway, Notion and the user behave, the workflow asks for one
\* database and registers only what it created (_dispatch_approve,
\* _dispatch_recover against the abstract SingleCreation).
Abstract == INSTANCE SingleCreation WITH
  phase    <- IF installed # None THEN "registered"
              ELSE IF \E p \in Proposal : Open(p) THEN "asked" ELSE "free",
  made     <- UNION {made[p] : p \in Proposal},
  register <- IF installed = None THEN None ELSE installed.database
ImplementsSingleCreation == Abstract!Spec

\* The stored answer of the message that sent the request never says that
\* Notion is unchanged while a database exists or may still appear; "committed"
\* is answered only for what is registered (_unknown_after_attempt,
\* handle_schema_command).
AnswersAreTrue ==
  \A u \in Update : claim[u] # None =>
    LET p == claim[u].proposal
    IN  /\ u \in postedBy /\ claim[u].answer \in {"denied", "rejected", "failed"}
              => made[p] = {} /\ p \notin inflight
        /\ claim[u].answer = "committed" => installed # None /\ installed.proposal = p
        /\ claim[u].answer = "failed" => status[p] = "FAILED"

\* A request is sent once per proposal, by the message that was approved, by
\* the holder of the target's lease, before anything is registered.
PostIsAuthorised ==
  [][\A p \in Proposal : posts'[p] # posts[p] =>
       /\ posts[p] = 0 /\ installed = None
       /\ receipt[p].update = Message(p)
       /\ lease = [proposal |-> p, alive |-> TRUE]]_vars

\* A process that lost the approval's secret registers only the database whose
\* id the first process wrote down, and only after another recovery message
\* was answered with a conflict (_validated_schema_recovery_evidence).
AdoptionAttested ==
  [][\A p \in Proposal :
       installed' # installed /\ installed'.proposal = p /\ receipt[p].secret # secret
         => /\ journal[p].database = installed'.database
            /\ \E v \in Update \ {Message(p)} :
                 claim[v] # None /\ claim[v].proposal = p /\ claim[v].answer = "conflict"]_vars

\* What the reading of Notion would adopt at once.
Exact(p, d) ==
  /\ Relevant = {d} /\ child[d] = [marker |-> p, exact |-> TRUE]
  /\ live = approved[p] /\ status[p] \in {"APPLYING", "UNKNOWN"}
  /\ receipt[p].secret = secret

\* A lease whose release failed is kept for as long as the gateway lives.
LeaseLeft == <>[](lease # None /\ lease.alive)

\* After an uncertain request recovery adopts the one database that matches
\* exactly (docs/telegram-commands.md:73, _dispatch_recover): it does when the
\* journal knows the end of the attempt, and the database unless Notion's answer
\* names its creator.
AdoptableAdopted ==
  \A p \in Proposal : \A d \in Database :
    \/ []<>~(/\ Exact(p, d) /\ journal[p].finished
             /\ journal[p].database = d \/ (journal[p].database = None /\ CreatorShown))
    \/ LeaseLeft
=============================================================================
