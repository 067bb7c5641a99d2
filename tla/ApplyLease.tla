----------------------------- MODULE ApplyLease -----------------------------
(* The source_apply_lease row of persistence/database.py for ONE workbook     *)
(* (drive_id, item_id): who may run an approved synchronization against it.   *)
(*                                                                            *)
(* A row names a proposal revision, a random owner token and the pid of the   *)
(* process that inserted it.  Workers are threads of the live processes: a    *)
(* worker that acquired keeps its token in memory, so a process that dies     *)
(* forgets the tokens of its workers and leaves the row behind.  Whether a    *)
(* row left behind may be taken over is decided from the pid it names and     *)
(* from the status of the proposal it names, which the workers and the        *)
(* operator's commands change.                                                *)
EXTENDS Naturals, ProposalStatus

CONSTANTS
  Worker,        \* threads that may run an apply
  Pid,           \* process identifiers of the operating system
  Proposal,      \* proposals that target this workbook
  MaxRevision,   \* bound on the revisions of one proposal
  Token,         \* values secrets.token_urlsafe may return
  FreshPids,     \* TRUE: the operating system never gives a pid out twice
  None           \* no row, or nothing remembered

Revision == 1 .. MaxRevision
LeaseRow == [proposal : Proposal, revision : Revision, token : Token, pid : Pid]

ASSUME LeaseAssumption ==
  /\ MaxRevision \in Nat \ {0}
  /\ FreshPids \in BOOLEAN
  /\ None \notin LeaseRow

VARIABLES
  alive,     \* pids of the live processes
  usedPids,  \* pids given to some process so far
  lease,     \* the row, or None
  held,      \* [Worker -> what the worker remembers of its acquisition]
  ownerUp,   \* history: the process that inserted the row has not died
  head       \* [Proposal -> revision and status of its head row]

vars == <<alive, usedPids, lease, held, ownerUp, head>>

TypeOK ==
  /\ alive \subseteq Pid
  /\ usedPids \subseteq Pid
  /\ lease \in LeaseRow \cup {None}
  /\ held \in [Worker -> LeaseRow \cup {None}]
  /\ ownerUp \in BOOLEAN
  /\ head \in [Proposal -> [revision : Revision, status : Status]]

Init ==
  /\ alive \in SUBSET Pid
  /\ usedPids = alive
  /\ lease = None
  /\ held = [w \in Worker |-> None]
  /\ ownerUp = FALSE
  /\ head = [p \in Proposal |-> [revision |-> 1, status |-> "PENDING"]]

-----------------------------------------------------------------------------
(* The lease operations.                                                      *)

Holding(w) == held[w] # None

\* The row that heartbeat_apply_lease and release_apply_lease address: the one
\* with the caller's token, inserted by the caller's process.
OwnsRow(w) ==
  /\ Holding(w)
  /\ lease # None
  /\ lease.token = held[w].token
  /\ lease.pid = held[w].pid

\* Mutant of MayAcquire: the status of the holder is looked at before its process.
MayAcquireFinishedFirst(p, r) ==
  lease # None =>
    \/ lease.pid \notin alive /\ lease.proposal = p /\ lease.revision = r
    \/ head[lease.proposal].status \in TerminalHolder

\* The row does not keep proposal p at revision r out.
MayAcquire(p, r) ==
  lease # None =>
    /\ lease.pid \notin alive
    /\ \/ lease.proposal = p /\ lease.revision = r
       \/ head[lease.proposal].status \in TerminalHolder

\* A token is random: it equals none that the row or a worker still names.
TokenInUse == {x.token : x \in ({lease} \cup {held[w] : w \in Worker}) \ {None}}

\* Mutant of Acquire: two columns of the INSERT are swapped.
AcquireSwapped(w, pid, p, r) ==
  /\ ~Holding(w)
  /\ pid \in alive
  /\ r <= head[p].revision
  /\ MayAcquire(p, r)
  /\ \E t \in Token \ TokenInUse :
       LET row == [proposal |-> p, revision |-> r, token |-> pid, pid |-> t]
       IN  /\ lease' = row
           /\ held' = [held EXCEPT ![w] = row]
  /\ ownerUp' = TRUE
  /\ UNCHANGED <<alive, usedPids, head>>

Acquire(w, pid, p, r) ==
  /\ ~Holding(w)
  /\ pid \in alive
  /\ r <= head[p].revision
  /\ MayAcquire(p, r)
  /\ \E t \in Token \ TokenInUse :
       LET row == [proposal |-> p, revision |-> r, token |-> t, pid |-> pid]
       IN  /\ lease' = row
           /\ held' = [held EXCEPT ![w] = row]
  /\ ownerUp' = TRUE
  /\ UNCHANGED <<alive, usedPids, head>>

\* The finally clause of apply_lease.  The row goes only if it is still the
\* caller's; the worker forgets its token either way.
Release(w) ==
  /\ Holding(w)
  /\ lease' = IF OwnsRow(w) THEN None ELSE lease
  /\ held' = [held EXCEPT ![w] = None]
  /\ UNCHANGED <<alive, usedPids, ownerUp, head>>

\* The same clause when its DELETE raises (a busy or full database file).
ReleaseFails(w) ==
  /\ Holding(w)
  /\ held' = [held EXCEPT ![w] = None]
  /\ UNCHANGED <<alive, usedPids, lease, ownerUp, head>>

-----------------------------------------------------------------------------
(* Processes.                                                                 *)

ProcessStarts(pid) ==
  /\ pid \notin alive
  /\ FreshPids => pid \notin usedPids
  /\ alive' = alive \cup {pid}
  /\ usedPids' = usedPids \cup {pid}
  /\ UNCHANGED <<lease, held, ownerUp, head>>

ProcessDies(pid) ==
  /\ pid \in alive
  /\ alive' = alive \ {pid}
  /\ held' = [w \in Worker |->
                IF Holding(w) /\ held[w].pid = pid THEN None ELSE held[w]]
  /\ ownerUp' = (ownerUp /\ lease # None /\ lease.pid # pid)
  /\ UNCHANGED <<usedPids, lease, head>>

-----------------------------------------------------------------------------
(* Status changes of the proposals.                                           *)

SetStatus(p, s) ==
  /\ head' = [head EXCEPT ![p].status = s]
  /\ UNCHANGED <<alive, usedPids, lease, held, ownerUp>>

\* The moves _apply_under_lease makes while worker w holds the lease.
ApplyMove == {<<"APPROVED", "APPLYING">>, <<"APPROVED", "STALE">>,
              <<"APPLYING", "STALE">>, <<"APPLYING", "FAILED">>,
              <<"APPLYING", "COMMITTED">>}

ApplyStep(w, s) ==
  /\ Holding(w)
  /\ LET p == held[w].proposal
     IN  /\ <<head[p].status, s>> \in ApplyMove
         /\ head[p].revision = held[w].revision
         /\ SetStatus(p, s)

\* The gateway plugin admits no second command on a proposal being applied.
Quiet(p) == \A w \in Worker : Holding(w) => held[w].proposal # p

Approve(p) ==                               \* /nx_approve, _commit_approval
  /\ Quiet(p)
  /\ head[p].status = "PENDING"
  /\ SetStatus(p, "APPROVED")

RequestApproval(p) ==                       \* ProposalService.request_approval
  /\ Quiet(p)
  /\ head[p].status = "DRAFT"
  /\ SetStatus(p, "PENDING")

Reject(p) ==                                \* /nx_reject
  /\ Quiet(p)
  /\ head[p].status \in Rejectable
  /\ SetStatus(p, "REJECTED")

Revise(p) ==                                \* /nx_set and /nx_recover
  /\ Quiet(p)
  /\ head[p].status \in Editable
  /\ head[p].revision < MaxRevision
  /\ head' = [head EXCEPT ![p] = [revision |-> @.revision + 1, status |-> "DRAFT"]]
  /\ UNCHANGED <<alive, usedPids, lease, held, ownerUp>>

Next ==
  \/ \E w \in Worker, pid \in Pid, p \in Proposal, r \in Revision : Acquire(w, pid, p, r)
  \/ \E w \in Worker : Release(w)
  \/ \E w \in Worker : ReleaseFails(w)
  \/ \E w \in Worker, s \in Status : ApplyStep(w, s)
  \/ \E pid \in Pid : ProcessStarts(pid)
  \/ \E pid \in Pid : ProcessDies(pid)
  \/ \E p \in Proposal : Approve(p)
  \/ \E p \in Proposal : RequestApproval(p)
  \/ \E p \in Proposal : Reject(p)
  \/ \E p \in Proposal : Revise(p)

Spec == Init /\ [][Next]_vars

-----------------------------------------------------------------------------
(* Properties.                                                                *)

\* At most one worker believes it may write to Notion for this workbook: the
\* exclusion apply_lease gives ApprovalGatedApplyService.apply.
MutualExclusion ==
  \A v, w \in Worker : Holding(v) /\ Holding(w) => v = w

\* A worker that is still running never finds its lease lost: whatever other
\* processes did, heartbeat_apply_lease addresses exactly one row.
HeartbeatFindsRow == \A w \in Worker : Holding(w) => OwnsRow(w)

\* acquire_apply_lease never takes the row from a live process: while the pid
\* it names is alive, only the worker that inserted it makes the row go.
LiveOwnerKeepsRow ==
  [][lease # None /\ lease.pid \in alive /\ lease' # lease
       => /\ lease' = None
          /\ \E w \in Worker : OwnsRow(w) /\ held'[w] = None]_vars

\* After its process died, the same proposal revision may take its unfinished
\* lease back: nothing another process does in the meantime may prevent it.
SameRevisionReclaims ==
  lease # None /\ ~ownerUp => MayAcquire(lease.proposal, lease.revision)

=============================================================================
