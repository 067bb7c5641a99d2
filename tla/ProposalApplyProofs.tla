------------------------ MODULE ProposalApplyProofs ------------------------
(* What the gateway commands and the apply promise for any proposals,         *)
(* operations, values, processes and bounds: first the types, then the        *)
(* control of the threads, then what has landed in Notion.                    *)
(*                                                                            *)
(* The invariant, Control, relates where a thread stands to what the tables   *)
(* say: a thread between verify and release holds THE lease row, inserted by  *)
(* the running process, and its proposal has the status that phase leaves;    *)
(* what it has still to do is in the scope of the approved revision; and the  *)
(* receipt is consumed exactly when an apply has begun.  None of the parts is *)
(* inductive alone: the receipt's needs the status of each phase, which needs *)
(* that nobody else moves the proposal while its thread runs, and the lease's *)
(* needs that a live process's row is never taken.                            *)
EXTENDS ProposalApply, TLAPS

HeadType == [Proposal -> [revision : Revision, status : Status]]
RowsType == [Op -> OutboxRow \cup {None}]
JobType  == [Proposal -> Jobs]
PlanType(pl) == DOMAIN pl = Proposal /\ \A p \in Proposal : pl[p] \in [OpsOf[p] -> Action]

-----------------------------------------------------------------------------
(* What the helpers return.                                                   *)

\* The names the actions use are statuses and labels.
LEMMA StatusNames ==
  {"DRAFT", "PENDING", "APPROVED", "APPLYING", "COMMITTED", "FAILED", "STALE",
   "REJECTED"} \subseteq Status
  BY DEF Status

LEMMA LabelNames ==
  {"idle", "capture", "acquire", "verify", "inspect", "guard", "begin", "reconcile",
   "recheck", "preflight", "patch", "record", "failing", "fail", "final", "commit",
   "release", "request", "recover"} \subseteq Label
  BY DEF Label

\* A status change, a jump and a new revision keep the types.
LEMMA SetStatusType ==
  ASSUME TypeOK, NEW p \in Proposal, NEW s \in Status, SetStatus(p, s)
  PROVE  head' \in HeadType
  BY DEF TypeOK, SetStatus, HeadType

LEMMA GotoType ==
  ASSUME TypeOK, NEW p \in Proposal, NEW l \in Label, Goto(p, l)
  PROVE  pc' \in [Proposal -> Label]
  BY DEF TypeOK, Goto

LEMMA NewRevisionType ==
  ASSUME TypeOK, NEW p \in Proposal, NewRevision(p)
  PROVE  /\ head' \in HeadType
         /\ receipt' \in [Proposal -> {"none", "live", "expired", "used"}]
         /\ open' \in [Proposal -> BOOLEAN]
         /\ pc' \in [Proposal -> Label]
<1>1. head[p].revision + 1 \in Revision
  BY ProposalApplyAssumption DEF NewRevision, TypeOK, Revision
<1>2. [revision |-> head[p].revision + 1, status |-> "DRAFT"]
        \in [revision : Revision, status : Status]
  BY <1>1, StatusNames
<1>3. head' \in HeadType
  BY <1>2 DEF NewRevision, TypeOK, HeadType
<1>4. pc' \in [Proposal -> Label]
  BY GotoType, LabelNames DEF NewRevision
<1> QED BY <1>3, <1>4 DEF NewRevision, TypeOK

\* Marking rows returns rows.
LEMMA MarkType ==
  ASSUME NEW rows \in RowsType, NEW S,
         NEW s \in {"pending", "done", "failed", "blocked"}
  PROVE  Mark(rows, S, s) \in RowsType
  BY DEF Mark, OutboxRow, RowsType

\* The updates of a thread's memory.
LEMMA JobUpdateType ==
  ASSUME TypeOK, NEW p \in Proposal, NEW j \in Jobs
  PROVE  [job EXCEPT ![p] = j] \in JobType
  BY DEF TypeOK, JobType

LEMMA IdleJobType == IdleJob \in Jobs
  BY DEF IdleJob, Jobs, Sight

LEMMA TodoType ==
  ASSUME TypeOK, NEW p \in Proposal, NEW S \in SUBSET Op
  PROVE  [job EXCEPT ![p].todo = S] \in JobType
  BY DEF TypeOK, Jobs, JobType

LEMMA StepTodoType ==
  ASSUME TypeOK, NEW p \in Proposal, NEW o \in Op
  PROVE  [job EXCEPT ![p].todo = @ \ {o}] \in JobType
<1>1. job[p].todo \ {o} \in SUBSET Op
  BY DEF TypeOK, Jobs
<1> QED BY <1>1, TodoType

LEMMA ResumeType ==
  ASSUME NEW j \in Jobs, NEW b \in BOOLEAN, NEW S \in SUBSET Op
  PROVE  [j EXCEPT !.resuming = b, !.todo = S] \in Jobs
  BY DEF Jobs

LEMMA SightType ==
  ASSUME NEW j \in Jobs, NEW s \in Sight, NEW o \in Op
  PROVE  [j EXCEPT !.seen[o] = s, !.todo = j.todo \ {o}] \in Jobs
  BY DEF Jobs

\* What the thread computes from its plan and from Notion.
LEMMA ScopeType ==
  \A p \in Proposal :
    OpsOf[p] \subseteq Op /\ WriteOps(p) \subseteq Op /\ SeenApplied(p) \subseteq Op
  BY ProposalApplyAssumption DEF WriteOps, SeenApplied

LEMMA ApprovedType == \A p \in Proposal, o \in Op : Approved(p, o) \in Value
  BY ProposalApplyAssumption DEF Approved

LEMMA SightedType == \A p \in Proposal, o \in Op : Sighted(p, o) \in Sight
  BY DEF Sighted, Inspection, Sight

LEMMA SeenType ==
  \A p \in Proposal : \A S \in SUBSET Op : Seen(p, S) \subseteq Op \X Value
  BY ApprovedType DEF Seen

-----------------------------------------------------------------------------
(* The steps of a thread whose effect on the types needs an argument.         *)

LEMMA AcquireLeaseType ==
  ASSUME TypeOK, NEW p \in Proposal, AcquireLease(p) PROVE TypeOK'
<1>1. pc' \in [Proposal -> Label]
  BY GotoType, LabelNames DEF AcquireLease
<1>2. lease' \in LeaseRow /\ held' \in [Proposal -> LeaseRow \cup {None}]
  BY DEF AcquireLease, TypeOK, LeaseRow, At
<1> QED BY <1>1, <1>2 DEF AcquireLease, TypeOK, durable, process, world, history

LEMMA KnowledgeStaleType ==
  ASSUME TypeOK, NEW p \in Proposal, NEW b \in BOOLEAN, KnowledgeStale(p, b)
  PROVE  TypeOK'
<1>1. head' \in HeadType /\ pc' \in [Proposal -> Label]
  BY SetStatusType, GotoType, StatusNames, LabelNames DEF KnowledgeStale
<1> QED BY <1>1 DEF KnowledgeStale, TypeOK, durable, leases, process, world, history,
                    HeadType

LEMMA VerifyType ==
  ASSUME TypeOK, NEW p \in Proposal, Verify(p) PROVE TypeOK'
<1>1. CASE KnowledgeStale(p, StatusOf(p) = "APPLYING")
  BY <1>1, KnowledgeStaleType
<1>2. CASE /\ job' = [job EXCEPT ![p] =
                 [@ EXCEPT !.resuming = (StatusOf(p) = "APPLYING"), !.todo = WriteOps(p)]]
           /\ Goto(p, "inspect")
           /\ UNCHANGED <<head, durable, leases, process, world, history, decision>>
  <2>1. job[p] \in Jobs
    BY DEF TypeOK
  <2>2. [job[p] EXCEPT !.resuming = (StatusOf(p) = "APPLYING"), !.todo = WriteOps(p)]
          \in Jobs
    BY <2>1, ScopeType, ResumeType
  <2>3. job' \in JobType
    BY <1>2, <2>2, JobUpdateType
  <2>4. pc' \in [Proposal -> Label]
    BY <1>2, GotoType, LabelNames
  <2> QED BY <1>2, <2>3, <2>4 DEF TypeOK, durable, leases, process, world, history, JobType
<1> QED BY <1>1, <1>2 DEF Verify

LEMMA InspectType ==
  ASSUME TypeOK, NEW p \in Proposal, Inspect(p) PROVE TypeOK'
<1> PICK o \in Op :
      /\ job' = [job EXCEPT ![p] =
            [@ EXCEPT !.seen[o] = Sighted(p, o), !.todo = job[p].todo \ {o}]]
      /\ landed' = IF Skipped(p, o) THEN landed ELSE landed \cup Seen(p, {o})
  BY DEF Inspect
<1>1. job[p] \in Jobs
  BY DEF TypeOK
<1>2. [job[p] EXCEPT !.seen[o] = Sighted(p, o), !.todo = job[p].todo \ {o}] \in Jobs
  BY <1>1, SightedType, SightType
<1>3. job' \in JobType
  BY <1>2, JobUpdateType
<1>4. landed' \subseteq Op \X Value
  BY SeenType DEF TypeOK
<1> QED BY <1>3, <1>4 DEF Inspect, TypeOK, durable, leases, process, world, history, JobType

LEMMA InspectDoneType ==
  ASSUME TypeOK, NEW p \in Proposal, InspectDone(p) PROVE TypeOK'
<1>1. head' \in HeadType
  BY SetStatusType, StatusNames DEF InspectDone, TypeOK, HeadType
<1>2. pc' \in [Proposal -> Label]
  BY GotoType, LabelNames DEF InspectDone
<1>3. [job EXCEPT ![p].todo = SeenApplied(p)] \in JobType
  BY TodoType, ScopeType
<1>4. job' \in JobType
  BY <1>3 DEF InspectDone, TypeOK, JobType
<1> QED BY <1>1, <1>2, <1>4 DEF InspectDone, TypeOK, durable, leases, process, world,
                                 history, HeadType, JobType

LEMMA GuardType ==
  ASSUME TypeOK, NEW p \in Proposal, Guard(p) PROVE TypeOK'
<1>1. CASE KnowledgeStale(p, job[p].resuming)
  <2>1. job[p].resuming \in BOOLEAN
    BY DEF TypeOK, Jobs
  <2> QED BY <1>1, <2>1, KnowledgeStaleType
<1>2. CASE /\ \E l \in Label : Goto(p, l)
           /\ UNCHANGED <<head, durable, leases, process, job, world, history, decision>>
  BY <1>2, GotoType DEF TypeOK, durable, leases, process, world, history
<1> QED BY <1>1, <1>2, LabelNames DEF Guard

LEMMA BeginType ==
  ASSUME TypeOK, NEW p \in Proposal, Begin(p) PROVE TypeOK'
<1>1. head' \in HeadType
  BY SetStatusType, StatusNames DEF Begin
<1>2. pc' \in [Proposal -> Label]
  BY GotoType, LabelNames DEF Begin
<1>3. outbox' \in RowsType
  BY ApprovedType DEF Begin, TypeOK, OutboxRow, RowsType
<1> QED BY <1>1, <1>2, <1>3 DEF Begin, TypeOK, leases, process, world, history,
                                 HeadType, RowsType

LEMMA ResetType ==
  ASSUME TypeOK, NEW p \in Proposal, Reset(p) PROVE TypeOK'
<1>1. outbox' \in RowsType
  BY MarkType DEF Reset, TypeOK, RowsType
<1>2. [job EXCEPT ![p].todo = WriteOps(p) \ SeenApplied(p)] \in JobType
  BY TodoType, ScopeType
<1>3. job' \in JobType
  BY <1>2 DEF Reset, TypeOK, JobType
<1>4. pc' \in [Proposal -> Label]
  BY GotoType, LabelNames DEF Reset
<1> QED BY <1>1, <1>3, <1>4 DEF Reset, TypeOK, leases, process, world, history,
                                 JobType, RowsType

\* The loops that mark one row at a time.
LEMMA MarkingType ==
  ASSUME TypeOK, NEW p \in Proposal, Reconcile(p) \/ Block(p) \/ RecoverMark(p)
  PROVE  TypeOK'
<1>0. \A S : \A s \in {"done", "blocked"} : Mark(outbox, S, s) \in RowsType
  <2>1. outbox \in RowsType
    BY DEF TypeOK, RowsType
  <2> QED BY <2>1, MarkType
<1>1. outbox' \in RowsType
  BY <1>0 DEF Reconcile, Block, RecoverMark
<1>2. job' \in JobType
  BY StepTodoType DEF Reconcile, Block, RecoverMark
<1> QED BY <1>1, <1>2 DEF Reconcile, Block, RecoverMark, TypeOK, leases, process,
                          world, history, JobType, RowsType

LEMMA ResultType ==
  ASSUME TypeOK, NEW p \in Proposal, Record(p) \/ Failing(p) PROVE TypeOK'
<1>0. \A S : \A s \in {"done", "failed"} : Mark(outbox, S, s) \in RowsType
  <2>1. outbox \in RowsType
    BY DEF TypeOK, RowsType
  <2> QED BY <2>1, MarkType
<1>1. outbox' \in RowsType
  BY <1>0 DEF Record, Failing
<1>2. job' \in JobType
  BY StepTodoType DEF Record, Failing
<1>3. pc' \in [Proposal -> Label]
  BY GotoType, LabelNames DEF Record, Failing
<1> QED BY <1>1, <1>2, <1>3 DEF Record, Failing, TypeOK, leases, process, world,
                                 history, JobType, RowsType

LEMMA RecheckType ==
  ASSUME TypeOK, NEW p \in Proposal, Recheck(p) PROVE TypeOK'
<1>1. head' \in HeadType
  BY SetStatusType, StatusNames DEF Recheck, TypeOK, HeadType
<1>2. pc' \in [Proposal -> Label]
  BY GotoType, LabelNames DEF Recheck
<1> QED BY <1>1, <1>2 DEF Recheck, TypeOK, durable, leases, process, world, history,
                          HeadType

LEMMA PatchType ==
  ASSUME TypeOK, NEW p \in Proposal, Patch(p) \/ PatchUnanswered(p) PROVE TypeOK'
<1>1. pc' \in [Proposal -> Label]
  BY GotoType, LabelNames DEF Patch, PatchUnanswered
<1>2. /\ notion' \in [Key -> Value]
      /\ landed' \subseteq Op \X Value
      /\ effects' \subseteq Proposal \X Revision \X Op
  BY ApprovedType DEF Patch, PatchUnanswered, TakeEffect, TypeOK
<1>3. faults' \in 0 .. MaxFaults
  BY ProposalApplyAssumption DEF Patch, PatchUnanswered, Fault, TypeOK
<1> QED BY <1>1, <1>2, <1>3 DEF Patch, PatchUnanswered, TypeOK, durable, leases, process

LEMMA CommitType ==
  ASSUME TypeOK, NEW p \in Proposal, Commit(p) PROVE TypeOK'
<1>1. head' \in HeadType
  BY SetStatusType, StatusNames DEF Commit
<1>2. pc' \in [Proposal -> Label]
  BY GotoType, LabelNames DEF Commit
<1>3. pending' \subseteq Op
  BY ScopeType DEF Commit, TypeOK
<1>4. checkpoint' \in Version \cup {None}
  BY DEF Commit, TypeOK, Jobs
<1> QED BY <1>1, <1>2, <1>3, <1>4 DEF Commit, TypeOK, leases, process, world, history,
                                       HeadType

LEMMA ReleaseType ==
  ASSUME TypeOK, NEW p \in Proposal, Release(p) PROVE TypeOK'
<1>1. pc' \in [Proposal -> Label]
  BY GotoType, LabelNames DEF Release
<1>2. job' \in JobType
  BY IdleJobType, JobUpdateType DEF Release
<1>3. faults' \in 0 .. MaxFaults
  BY ProposalApplyAssumption DEF Release, Fault, TypeOK
<1> QED BY <1>1, <1>2, <1>3 DEF Release, TypeOK, durable, process, history, JobType

LEMMA RequestApprovalType ==
  ASSUME TypeOK, NEW p \in Proposal, RequestApproval(p) PROVE TypeOK'
<1>1. head' \in HeadType
  BY SetStatusType, StatusNames DEF RequestApproval
<1>2. pc' \in [Proposal -> Label]
  BY GotoType, LabelNames DEF RequestApproval
<1>3. job' \in JobType
  BY IdleJobType, JobUpdateType DEF RequestApproval
<1> QED BY <1>1, <1>2, <1>3 DEF RequestApproval, TypeOK, leases, process, world,
                                 history, HeadType, JobType

LEMMA RecoverReviseType ==
  ASSUME TypeOK, NEW p \in Proposal, RecoverRevise(p) PROVE TypeOK'
<1>1. PlanType(plan')
  BY DEF RecoverRevise, TypeOK, PlanType, Action
<1> QED BY <1>1, NewRevisionType DEF RecoverRevise, TypeOK, leases, process, world,
                                      history, HeadType, PlanType

\* A step of a thread keeps every type.
LEMMA StepType ==
  ASSUME TypeOK, NEW p \in Proposal, Step(p) PROVE TypeOK'
<1>1. ASSUME Capture(p) \/ LeaseRefused(p) PROVE TypeOK'
  <2>1. pc' \in [Proposal -> Label]
    BY <1>1, GotoType, LabelNames DEF Capture, LeaseRefused
  <2>2. [IdleJob EXCEPT !.version = source] \in Jobs
    BY IdleJobType DEF Jobs, TypeOK
  <2>3. job' \in JobType
    BY <1>1, <2>2, IdleJobType, JobUpdateType DEF Capture, LeaseRefused
  <2> QED BY <1>1, <2>1, <2>3 DEF Capture, LeaseRefused, TypeOK, durable, leases,
                                   process, world, history, JobType
<1>2. ASSUME VerifyFails(p) \/ Final(p) PROVE TypeOK'
  <2>1. pc' \in [Proposal -> Label]
    BY <1>2, GotoType, LabelNames DEF VerifyFails, Final
  <2> QED BY <1>2, <2>1 DEF VerifyFails, Final, TypeOK, durable, leases, process, world,
                            history
<1>3. ASSUME Fail(p) PROVE TypeOK'
  <2>1. head' \in HeadType /\ pc' \in [Proposal -> Label]
    BY <1>3, SetStatusType, GotoType, StatusNames, LabelNames DEF Fail
  <2> QED BY <1>3, <2>1 DEF Fail, TypeOK, durable, leases, process, world, history, HeadType
<1>4. ASSUME Preflight(p) PROVE TypeOK'
  <2>1. pc' \in [Proposal -> Label]
    BY <1>4, GotoType, LabelNames DEF Preflight
  <2>2. raced' \subseteq Key
    BY <1>4 DEF Preflight, TypeOK
  <2> QED BY <1>4, <2>1, <2>2 DEF Preflight, TypeOK, durable, leases, process, history
<1> QED
  BY <1>1, <1>2, <1>3, <1>4, AcquireLeaseType, VerifyType, InspectType, InspectDoneType,
     GuardType, BeginType, ResetType, MarkingType, ResultType, RecheckType, PatchType,
     CommitType, ReleaseType, RequestApprovalType, RecoverReviseType
  DEF Step

\* A command of the operator keeps every type.
LEMMA CommandType ==
  ASSUME TypeOK, NEW p \in Proposal, Command(p) PROVE TypeOK'
<1>1. ASSUME Approve(p) PROVE TypeOK'
  <2>1. head' \in HeadType /\ pc' \in [Proposal -> Label]
    BY <1>1, SetStatusType, GotoType, StatusNames, LabelNames DEF Approve
  <2> QED BY <1>1, <2>1 DEF Approve, TypeOK, leases, process, world, history, HeadType
<1>2. ASSUME Redeliver(p) PROVE TypeOK'
  <2>1. pc' \in [Proposal -> Label]
    BY <1>2, GotoType, LabelNames DEF Redeliver
  <2> QED BY <1>2, <2>1 DEF Redeliver, TypeOK, leases, process, world, history
<1>3. ASSUME Reject(p) PROVE TypeOK'
  <2>1. head' \in HeadType
    BY <1>3, SetStatusType, StatusNames DEF Reject
  <2> QED BY <1>3, <2>1 DEF Reject, TypeOK, durable, leases, process, world, history, HeadType
<1>4. ASSUME Recover(p) PROVE TypeOK'
  <2>1. pc' \in [Proposal -> Label]
    BY <1>4, GotoType, LabelNames DEF Recover
  <2>2. job' \in JobType
    BY <1>4, TodoType, ScopeType DEF Recover
  <2>3. landed' \subseteq Op \X Value
    BY <1>4, SeenType, ScopeType DEF Recover, TypeOK
  <2> QED BY <1>4, <2>1, <2>2, <2>3 DEF Recover, TypeOK, durable, leases, process, world,
                                        JobType
<1>5. ASSUME NEW o \in OpsOf[p], NEW a \in Decisions, Set(p, o, a) PROVE TypeOK'
  <2>1. a \in Action
    BY ProposalApplyAssumption
  <2>2. PlanType(plan') /\ PlanType(decision')
    BY <1>5, <2>1 DEF Set, TypeOK, PlanType
  <2>3. NewRevision(p)
    BY <1>5 DEF Set
  <2> QED BY <1>5, <2>2, <2>3, NewRevisionType DEF Set, TypeOK, leases, process, world,
                                                    history, HeadType, PlanType
<1> QED BY <1>1, <1>2, <1>3, <1>4, <1>5 DEF Command

\* A disturbance keeps every type.
LEMMA WorldType ==
  ASSUME TypeOK, World PROVE TypeOK'
<1>1. ASSUME GatewayDies PROVE TypeOK'
  <2>1. pc' \in [Proposal -> Label] /\ job' \in JobType
    BY <1>1, LabelNames, IdleJobType DEF GatewayDies, JobType
  <2>2. faults' \in 0 .. MaxFaults
    BY <1>1, ProposalApplyAssumption DEF GatewayDies, Fault, TypeOK
  <2> QED BY <1>1, <2>1, <2>2 DEF GatewayDies, TypeOK, durable, history, JobType
<1>2. ASSUME NEW pid \in Pid, GatewayStarts(pid) PROVE TypeOK'
  BY <1>2 DEF GatewayStarts, TypeOK, durable, leases, world, history
<1>3. ASSUME NEW k \in Key, NEW v \in Value, NotionEdited(k, v) PROVE TypeOK'
  <2>1. faults' \in 0 .. MaxFaults
    BY <1>3, ProposalApplyAssumption DEF NotionEdited, Fault, TypeOK
  <2>2. notion' \in [Key -> Value] /\ raced' \subseteq Key
    BY <1>3 DEF NotionEdited, TypeOK
  <2>3. effects' \subseteq Proposal \X Revision \X Op
    BY <1>3 DEF NotionEdited, TypeOK
  <2> QED BY <1>3, <2>1, <2>2, <2>3 DEF NotionEdited, TypeOK, durable, leases, process
<1>4. ASSUME NEW v \in Version, SourceMoves(v) PROVE TypeOK'
  BY <1>4, ProposalApplyAssumption DEF SourceMoves, Fault, TypeOK, durable, leases,
                                       process, history
<1>5. ASSUME WikiMoves PROVE TypeOK'
  BY <1>5, ProposalApplyAssumption DEF WikiMoves, Fault, TypeOK, durable, leases,
                                       process, history
<1>6. ASSUME NEW p \in Proposal, TimePasses(p) PROVE TypeOK'
  <2>1. faults' \in 0 .. MaxFaults
    BY <1>6, ProposalApplyAssumption DEF TimePasses, Fault, TypeOK
  <2> QED BY <1>6, <2>1 DEF TimePasses, TypeOK, leases, process, history
<1>7. ASSUME NEW p \in Proposal, StepRaises(p) PROVE TypeOK'
  <2>1. faults' \in 0 .. MaxFaults
    BY <1>7, ProposalApplyAssumption DEF StepRaises, Fault, TypeOK
  <2>2. pc' \in [Proposal -> Label]
    BY <1>7, GotoType, LabelNames DEF StepRaises
  <2>3. [job EXCEPT ![p] = IdleJob] \in JobType
    BY IdleJobType, JobUpdateType
  <2>4. job' \in JobType
    BY <1>7, <2>3 DEF StepRaises, TypeOK, JobType
  <2> QED BY <1>7, <2>1, <2>2, <2>4 DEF StepRaises, TypeOK, durable, leases, process,
                                        history, JobType
<1> QED BY <1>1, <1>2, <1>3, <1>4, <1>5, <1>6, <1>7, PatchType DEF World

\* So does every step of the specification.
LEMMA TypeStep == TypeOK /\ [Next]_vars => TypeOK'
<1> SUFFICES ASSUME TypeOK, [Next]_vars PROVE TypeOK'
  OBVIOUS
<1>1. CASE UNCHANGED vars
  BY <1>1 DEF vars, TypeOK, durable, leases, process, world, history
<1> QED BY <1>1, StepType, CommandType, WorldType DEF Next

\* The initial states have their types.
LEMMA TypeInit == Init => TypeOK
<1> SUFFICES ASSUME Init PROVE TypeOK
  OBVIOUS
<1>1. 1 \in Revision /\ 0 \in 0 .. MaxFaults
  BY ProposalApplyAssumption DEF Revision
<1>2. head \in HeadType /\ pc \in [Proposal -> Label] /\ job \in JobType
  BY <1>1, StatusNames, LabelNames, IdleJobType DEF Init, HeadType, JobType
<1>3. PlanType(plan) /\ PlanType(decision)
  BY DEF Init, PlanType, Action
<1> QED BY <1>1, <1>2, <1>3 DEF Init, TypeOK, HeadType, JobType, PlanType

\* Type correctness of the gateway commands and of the apply.
THEOREM TypeCorrect == Spec => []TypeOK
  BY TypeInit, TypeStep, PTL DEF Spec

-----------------------------------------------------------------------------
(* The invariant.                                                             *)

LeasePhase == {"verify", "inspect", "guard", "begin", "reconcile", "recheck",
               "preflight", "patch", "record", "failing", "fail", "final",
               "commit", "release"}
WriteLoop  == {"reconcile", "recheck", "preflight", "patch", "record", "final", "commit"}

HoldsInPhase(p) == held[p] # None <=> pc[p] \in LeasePhase

HoldsTheRow(p) ==
  held[p] # None =>
    /\ lease = held[p]
    /\ held[p].proposal = p /\ held[p].revision = head[p].revision
    /\ gateway # None /\ held[p].pid = gateway

StatusInPhase(p) ==
  /\ pc[p] \in {"inspect", "guard"} =>
       StatusOf(p) = IF job[p].resuming THEN "APPLYING" ELSE "APPROVED"
  /\ pc[p] = "begin" => StatusOf(p) = "APPROVED"
  /\ pc[p] \in WriteLoop => StatusOf(p) = "APPLYING"
  /\ pc[p] \in {"failing", "fail"} => StatusOf(p) \in {"APPLYING", "FAILED"}
  /\ pc[p] = "request" => StatusOf(p) = "DRAFT"
  /\ pc[p] = "recover" => StatusOf(p) = "FAILED"

ScopeInPhase(p) ==
  pc[p] \in LeasePhase \ {"verify", "release"} => job[p].todo \subseteq WriteOps(p)

ReceiptInStatus(p) ==
  /\ StatusOf(p) \in {"DRAFT", "PENDING"} => receipt[p] = "none"
  /\ StatusOf(p) = "APPROVED" => receipt[p] \in {"live", "expired"}
  /\ StatusOf(p) \in {"APPLYING", "FAILED", "COMMITTED"} => receipt[p] = "used"

Thread(p) ==
  /\ HoldsInPhase(p) /\ HoldsTheRow(p)
  /\ StatusInPhase(p) /\ ScopeInPhase(p) /\ ReceiptInStatus(p)
  /\ gateway = None => pc[p] = "idle"

OwnerRuns == ownerUp /\ lease # None => gateway # None /\ lease.pid = gateway

Control == OwnerRuns /\ \A p \in Proposal : Thread(p)
IInv    == TypeOK /\ Control

-----------------------------------------------------------------------------
(* One thread's step leaves the others alone.                                 *)

\* Everything Thread(q) speaks of is as before.
Same(q) ==
  /\ head'[q] = head[q] /\ pc'[q] = pc[q] /\ job'[q] = job[q]
  /\ held'[q] = held[q] /\ receipt'[q] = receipt[q] /\ plan'[q] = plan[q]

LEMMA SameThread ==
  ASSUME NEW q \in Proposal, Thread(q), Same(q), UNCHANGED <<lease, gateway>>
  PROVE  Thread(q)'
<1>1. WriteOps(q)' = WriteOps(q)
  BY DEF Same, WriteOps
<1> QED BY <1>1 DEF Same, Thread, HoldsInPhase, HoldsTheRow, StatusInPhase, ScopeInPhase,
                    ReceiptInStatus, StatusOf

\* A thread that holds no lease depends on neither the row nor its owner.
LEMMA SameFreeThread ==
  ASSUME NEW q \in Proposal, Thread(q), Same(q), UNCHANGED gateway, held[q] = None
  PROVE  Thread(q)'
<1>1. WriteOps(q)' = WriteOps(q)
  BY DEF Same, WriteOps
<1> QED BY <1>1 DEF Same, Thread, HoldsInPhase, HoldsTheRow, StatusInPhase, ScopeInPhase,
                    ReceiptInStatus, StatusOf

\* A thread without the lease in hand moves where no lease is needed.
LEMMA Alone ==
  ASSUME IInv, NEW p \in Proposal, UNCHANGED <<leases, gateway>>,
         \A q \in Proposal : q # p => Same(q),
         Thread(p)'
  PROVE  Control'
<1>1. \A q \in Proposal : Thread(q)'
  <2> TAKE q \in Proposal
  <2>1. CASE q = p
    BY <2>1
  <2>2. CASE q # p
    BY <2>2, SameThread DEF IInv, Control, leases
  <2> QED BY <2>1, <2>2
<1>2. OwnerRuns'
  BY DEF OwnerRuns, IInv, Control, leases
<1> QED BY <1>1, <1>2 DEF Control

\* Two threads never hold a lease at once.
LEMMA OneHolder ==
  ASSUME IInv, NEW p \in Proposal, NEW q \in Proposal, held[p] # None, held[q] # None
  PROVE  p = q
  BY DEF IInv, Control, Thread, HoldsTheRow

-----------------------------------------------------------------------------
(* A thread's step changes only its own part of the tables and of the memory. *)

\* What the types say of the functions a step updates.
LEMMA Domains ==
  ASSUME TypeOK
  PROVE  /\ head \in HeadType /\ pc \in [Proposal -> Label] /\ job \in JobType
         /\ held \in [Proposal -> LeaseRow \cup {None}]
         /\ receipt \in [Proposal -> {"none", "live", "expired", "used"}]
         /\ DOMAIN plan = Proposal /\ \A p \in Proposal : DOMAIN plan[p] = OpsOf[p]
         /\ lease \in LeaseRow \cup {None}
  BY DEF TypeOK, HeadType, JobType

LEMMA StepSame ==
  ASSUME TypeOK, NEW p \in Proposal, Step(p) \/ Command(p) \/ StepRaises(p) \/ PatchUnanswered(p),
         NEW q \in Proposal, q # p
  PROVE  Same(q)
<1> USE Domains DEF HeadType, JobType, Same, durable, leases, process, world, history
<1>1. ASSUME Capture(p) \/ LeaseRefused(p) \/ AcquireLease(p) PROVE Same(q)
  BY <1>1 DEF Capture, LeaseRefused, AcquireLease, Goto
<1>2. ASSUME NEW b, KnowledgeStale(p, b) PROVE Same(q)
  BY <1>2 DEF KnowledgeStale, Goto, SetStatus
<1>3. ASSUME VerifyFails(p) \/ Verify(p) PROVE Same(q)
  BY <1>2, <1>3 DEF VerifyFails, Verify, Goto
<1>4. ASSUME Inspect(p) \/ InspectDone(p) PROVE Same(q)
  BY <1>4 DEF Inspect, InspectDone, Goto, SetStatus
<1>5. ASSUME Guard(p) PROVE Same(q)
  BY <1>2, <1>5 DEF Guard, Goto
<1>6. ASSUME Begin(p) \/ Reconcile(p) \/ Reset(p) PROVE Same(q)
  BY <1>6 DEF Begin, Reconcile, Reset, Goto, SetStatus
<1>7. ASSUME Recheck(p) \/ Preflight(p) \/ Patch(p) \/ PatchUnanswered(p) \/ Record(p)
      PROVE  Same(q)
  BY <1>7 DEF Recheck, Preflight, Patch, PatchUnanswered, Record, Goto, SetStatus
<1>8. ASSUME Failing(p) \/ Block(p) \/ Fail(p) \/ Final(p) \/ Commit(p) PROVE Same(q)
  BY <1>8 DEF Failing, Block, Fail, Final, Commit, Goto, SetStatus
<1>9. ASSUME Release(p) \/ StepRaises(p) PROVE Same(q)
  BY <1>9 DEF Release, StepRaises, Goto
<1>10. ASSUME NewRevision(p), UNCHANGED <<held, job>>, plan'[q] = plan[q] PROVE Same(q)
  BY <1>10 DEF NewRevision, Goto
<1>11. ASSUME RequestApproval(p) \/ RecoverMark(p) \/ RecoverRevise(p) PROVE Same(q)
  BY <1>10, <1>11 DEF RequestApproval, RecoverMark, RecoverRevise, Goto, SetStatus
<1>12. ASSUME Approve(p) \/ Redeliver(p) \/ Reject(p) \/ Recover(p) PROVE Same(q)
  BY <1>12 DEF Approve, Redeliver, Reject, Recover, Goto, SetStatus
<1>13. ASSUME NEW o, NEW a, Set(p, o, a) PROVE Same(q)
  BY <1>10, <1>13 DEF Set
<1> QED
  BY <1>1, <1>3, <1>4, <1>5, <1>6, <1>7, <1>8, <1>9, <1>11, <1>12, <1>13 DEF Step, Command

-----------------------------------------------------------------------------
(* What a step leaves of the invariant of its own thread.                     *)

\* The thread of p before a step.
LEMMA Before ==
  ASSUME IInv, NEW p \in Proposal
  PROVE  /\ Thread(p)
         /\ head \in HeadType /\ pc \in [Proposal -> Label] /\ job \in JobType
         /\ held \in [Proposal -> LeaseRow \cup {None}]
         /\ receipt \in [Proposal -> {"none", "live", "expired", "used"}]
         /\ DOMAIN plan = Proposal /\ \A q \in Proposal : DOMAIN plan[q] = OpsOf[q]
         /\ lease \in LeaseRow \cup {None}
  BY Domains DEF IInv, Control

\* A step in a phase, between phases that both hold a lease or both hold none.
LEMMA CaptureThread ==
  ASSUME IInv, NEW p \in Proposal, Capture(p) \/ LeaseRefused(p)
  PROVE  Thread(p)'
<1> USE Before DEF HeadType, JobType, leases, process, durable
<1>1. pc'[p] \in {"acquire", "idle"} /\ pc[p] \in {"capture", "acquire"}
  BY DEF Capture, LeaseRefused, Goto, At
<1> QED BY <1>1 DEF Capture, LeaseRefused, Thread, HoldsInPhase, HoldsTheRow,
                    StatusInPhase, ScopeInPhase, ReceiptInStatus, StatusOf, LeasePhase,
                    WriteLoop, At

\* The scope of the head revision does not change while its apply runs.
LEMMA SameScope ==
  ASSUME NEW p \in Proposal, plan' = plan PROVE WriteOps(p)' = WriteOps(p)
  BY DEF WriteOps

LEMMA SeenInScope == \A p \in Proposal : SeenApplied(p) \subseteq WriteOps(p)
  BY DEF SeenApplied

\* A thread's memory after verify and after one inspection.
LEMMA ResumedJob ==
  ASSUME NEW j \in Jobs, NEW b, NEW S
  PROVE  /\ [j EXCEPT !.resuming = b, !.todo = S].resuming = b
         /\ [j EXCEPT !.resuming = b, !.todo = S].todo = S
  BY DEF Jobs

LEMMA InspectedJob ==
  ASSUME NEW j \in Jobs, NEW s, NEW o, NEW S
  PROVE  /\ [j EXCEPT !.seen[o] = s, !.todo = S].resuming = j.resuming
         /\ [j EXCEPT !.seen[o] = s, !.todo = S].todo = S
  BY DEF Jobs

\* A step that only moves the thread from one phase to another under the lease,
\* or changes its proposal's status on the way.
LEMMA VerifyThread ==
  ASSUME IInv, NEW p \in Proposal, VerifyFails(p) \/ Verify(p)
  PROVE  Thread(p)'
<1> USE Before, SameScope DEF HeadType, JobType, leases, process, durable
<1>0. pc[p] = "verify" /\ held[p] # None /\ gateway # None
  BY DEF VerifyFails, Verify, At, Thread, HoldsInPhase, LeasePhase
<1>1. CASE VerifyFails(p)
  BY <1>0, <1>1 DEF VerifyFails, Goto, Thread, HoldsInPhase, HoldsTheRow,
       StatusInPhase, ScopeInPhase, ReceiptInStatus, StatusOf, LeasePhase, WriteLoop
<1>2. CASE Verified(p) /\ KnowledgeStale(p, StatusOf(p) = "APPLYING")
  BY <1>0, <1>2 DEF Verified, KnowledgeStale, Goto, SetStatus, Thread, HoldsInPhase,
       HoldsTheRow, StatusInPhase, ScopeInPhase, ReceiptInStatus, StatusOf, LeasePhase,
       WriteLoop, Resumable
<1>3. CASE /\ Verified(p)
           /\ job' = [job EXCEPT ![p] =
                 [@ EXCEPT !.resuming = (StatusOf(p) = "APPLYING"), !.todo = WriteOps(p)]]
           /\ Goto(p, "inspect")
           /\ UNCHANGED <<head, durable, leases, process>>
  <2>1. job'[p].resuming = (StatusOf(p) = "APPLYING") /\ job'[p].todo = WriteOps(p)
    <3> DEFINE j == [job[p] EXCEPT !.resuming = (StatusOf(p) = "APPLYING"),
                                   !.todo = WriteOps(p)]
    <3>1. job'[p] = j
      BY <1>3, Zenon
    <3>2. job[p] \in Jobs
      OBVIOUS
    <3> HIDE DEF j
    <3>3. j.resuming = (StatusOf(p) = "APPLYING") /\ j.todo = WriteOps(p)
      BY <3>2, ResumedJob DEF j
    <3> QED BY <3>1, <3>3
  <2>2. Verified(p) /\ Goto(p, "inspect") /\ UNCHANGED <<head, durable, leases, process>>
    BY <1>3
  <2>3. pc'[p] = "inspect" /\ head'[p] = head[p] /\ StatusOf(p) \in {"APPLYING", "APPROVED"}
    BY <2>2 DEF Verified, Goto, Resumable
  <2>4. StatusInPhase(p)'
    BY <2>1, <2>3 DEF StatusInPhase, StatusOf, WriteLoop
  <2>5. ScopeInPhase(p)'
    BY <2>1, <2>2, <2>3 DEF ScopeInPhase
  <2> QED
    BY <1>0, <2>2, <2>3, <2>4, <2>5 DEF Thread, HoldsInPhase, HoldsTheRow,
       ReceiptInStatus, StatusOf, LeasePhase
<1> QED BY <1>1, <1>2, <1>3 DEF Verify

LEMMA InspectThread ==
  ASSUME IInv, NEW p \in Proposal, Inspect(p)
  PROVE  Thread(p)'
<1> USE Before
<1> PICK o \in Op :
      /\ First(p, o)
      /\ job' = [job EXCEPT ![p] =
            [@ EXCEPT !.seen[o] = Sighted(p, o), !.todo = job[p].todo \ {o}]]
  BY DEF Inspect
<1>1. /\ pc[p] = "inspect" /\ gateway # None
      /\ UNCHANGED <<head, plan, receipt, held, lease, gateway, pc>>
  BY DEF Inspect, At, durable, leases, process
<1>2. job'[p].resuming = job[p].resuming /\ job'[p].todo = job[p].todo \ {o}
  <2> DEFINE j == [job[p] EXCEPT !.seen[o] = Sighted(p, o), !.todo = job[p].todo \ {o}]
  <2>1. job'[p] = j
    BY Zenon DEF JobType
  <2>2. job[p] \in Jobs
    BY DEF JobType
  <2> HIDE DEF j
  <2>3. j.resuming = job[p].resuming /\ j.todo = job[p].todo \ {o}
    BY <2>2, InspectedJob DEF j
  <2> QED BY <2>1, <2>3
<1> HIDE Before
<1>3. Thread(p)
  BY Before
<1>4. StatusInPhase(p)' /\ ScopeInPhase(p)'
  BY <1>1, <1>2, <1>3, SameScope
  DEF Thread, StatusInPhase, ScopeInPhase, StatusOf, WriteLoop, LeasePhase
<1> QED BY <1>1, <1>3, <1>4 DEF Thread, HoldsInPhase, HoldsTheRow, ReceiptInStatus,
                                StatusOf

\* A new list of operations to do leaves the rest of the memory alone.
LEMMA TodoUpdate ==
  ASSUME job \in JobType, NEW p \in Proposal, NEW S
  PROVE  /\ [job EXCEPT ![p].todo = S][p].todo = S
         /\ [job EXCEPT ![p].todo = S][p].resuming = job[p].resuming
  BY DEF JobType, Jobs

LEMMA GuardThread ==
  ASSUME IInv, NEW p \in Proposal, InspectDone(p) \/ Guard(p)
  PROVE  Thread(p)'
<1> USE Before DEF HeadType
<1>1. CASE InspectDone(p)
  <2>1. /\ pc[p] = "inspect" /\ gateway # None
        /\ UNCHANGED <<plan, receipt, held, lease, gateway>>
        /\ \/ pc'[p] = "release" /\ head' = [head EXCEPT ![p].status = "STALE"]
           \/ /\ pc'[p] = "guard" /\ UNCHANGED head
              /\ job' = [job EXCEPT ![p].todo = SeenApplied(p)]
    BY <1>1 DEF InspectDone, At, Goto, SetStatus, durable, leases, process
  <2>2. \/ pc'[p] = "release" /\ head'[p] = [head[p] EXCEPT !.status = "STALE"]
        \/ /\ pc'[p] = "guard" /\ UNCHANGED head
           /\ job'[p].todo \subseteq WriteOps(p) /\ job'[p].resuming = job[p].resuming
    <3>1. CASE pc'[p] = "release" /\ head' = [head EXCEPT ![p].status = "STALE"]
      BY <3>1
    <3>2. CASE /\ pc'[p] = "guard" /\ UNCHANGED head
               /\ job' = [job EXCEPT ![p].todo = SeenApplied(p)]
      <4>1. /\ job'[p].todo = SeenApplied(p)
            /\ job'[p].resuming = job[p].resuming
        BY <3>2, TodoUpdate
      <4> QED BY <3>2, <4>1, SeenInScope
    <3> QED BY <2>1, <3>1, <3>2
  <2> QED BY <2>1, <2>2, SameScope DEF Thread, HoldsInPhase, HoldsTheRow, StatusInPhase,
                ScopeInPhase, ReceiptInStatus, StatusOf, LeasePhase, WriteLoop
<1>2. CASE Guard(p)
  <2>1. /\ pc[p] = "guard" /\ gateway # None
        /\ UNCHANGED <<plan, receipt, held, lease, gateway, job>>
        /\ \/ /\ pc'[p] = "release"
              /\ \/ head'[p] = head[p]
                 \/ head'[p] = [head[p] EXCEPT !.status =
                                   IF job[p].resuming THEN "FAILED" ELSE "STALE"]
           \/ /\ pc'[p] = IF job[p].resuming THEN "reconcile" ELSE "begin"
              /\ UNCHANGED head
    BY <1>2 DEF Guard, KnowledgeStale, At, Goto, SetStatus, durable, leases, process
  <2> QED BY <2>1, SameScope DEF Thread, HoldsInPhase, HoldsTheRow, StatusInPhase,
                ScopeInPhase, ReceiptInStatus, StatusOf, LeasePhase, WriteLoop
<1> QED BY <1>1, <1>2

LEMMA BeginThread ==
  ASSUME IInv, NEW p \in Proposal, Begin(p)
  PROVE  Thread(p)'
  BY Before, SameScope
  DEF HeadType, JobType, leases, process, Goto, SetStatus, Thread, HoldsInPhase,
      HoldsTheRow, StatusInPhase, ScopeInPhase, ReceiptInStatus, StatusOf, LeasePhase,
      WriteLoop, Begin, At

LEMMA MarkingThread ==
  ASSUME IInv, NEW p \in Proposal,
         Reconcile(p) \/ Block(p) \/ RecoverMark(p) \/ Record(p) \/ Failing(p)
  PROVE  Thread(p)'
<1> USE Before, SameScope DEF HeadType, JobType, leases, process
<1>0. PICK o \in Op : job' = [job EXCEPT ![p].todo = job[p].todo \ {o}]
  BY DEF Reconcile, Block, RecoverMark, Record, Failing
<1>1. /\ job'[p].todo \subseteq job[p].todo /\ job'[p].resuming = job[p].resuming
      /\ UNCHANGED <<head, plan, receipt, held, lease, gateway>>
  BY <1>0, TodoUpdate DEF Reconcile, Block, RecoverMark, Record, Failing
<1>2. \/ pc' = pc
      \/ pc[p] = "record" /\ pc'[p] \in {"final", "recheck"}
      \/ pc[p] = "failing" /\ pc'[p] = "fail"
  BY DEF Reconcile, Block, RecoverMark, Record, Failing, At, Goto
<1> QED BY <1>1, <1>2 DEF Thread, HoldsInPhase, HoldsTheRow, StatusInPhase, ScopeInPhase,
                          ReceiptInStatus, StatusOf, LeasePhase, WriteLoop

LEMMA ResetThread ==
  ASSUME IInv, NEW p \in Proposal, Reset(p)
  PROVE  Thread(p)'
<1> USE Before, SameScope DEF HeadType, JobType, leases, process
<1>1. /\ job' = job \/ job'[p].todo \subseteq WriteOps(p)
      /\ pc[p] = "reconcile" /\ pc'[p] \in {"release", "final", "recheck"}
      /\ gateway # None
      /\ UNCHANGED <<head, plan, receipt, held, lease, gateway>>
  BY DEF Reset, Jobs, At, Goto
<1> QED BY <1>1 DEF Thread, HoldsInPhase, HoldsTheRow, StatusInPhase, ScopeInPhase,
                    ReceiptInStatus, StatusOf, LeasePhase, WriteLoop

\* The write loop and the end of the run.
LEMMA LoopThread ==
  ASSUME IInv, NEW p \in Proposal,
         \/ Recheck(p) \/ Preflight(p) \/ Patch(p) \/ PatchUnanswered(p)
         \/ Fail(p) \/ Final(p) \/ Commit(p)
  PROVE  Thread(p)'
<1> USE Before, SameScope DEF HeadType
<1>1. /\ gateway # None
      /\ UNCHANGED <<plan, receipt, held, lease, gateway, job>>
  BY DEF Recheck, Preflight, Patch, PatchUnanswered, Fail, Final, Commit, At, durable,
         leases, process
<1>2. \/ /\ UNCHANGED head
         /\ <<pc[p], pc'[p]>> \in {<<"recheck", "preflight">>, <<"recheck", "failing">>,
              <<"preflight", "patch">>, <<"preflight", "failing">>, <<"patch", "record">>,
              <<"patch", "failing">>, <<"final", "commit">>, <<"final", "fail">>}
      \/ /\ head'[p] = [head[p] EXCEPT !.status = "FAILED"]
         /\ <<pc[p], pc'[p]>> \in {<<"recheck", "failing">>, <<"fail", "release">>}
      \/ /\ head'[p] = [head[p] EXCEPT !.status = "COMMITTED"]
         /\ <<pc[p], pc'[p]>> = <<"commit", "release">>
  BY DEF Recheck, Preflight, Patch, PatchUnanswered, Fail, Final, Commit, At, Goto, SetStatus
<1> QED BY <1>1, <1>2 DEF Thread, HoldsInPhase, HoldsTheRow, StatusInPhase, ScopeInPhase,
                          ReceiptInStatus, StatusOf, LeasePhase, WriteLoop

\* The steps of a command outside the apply.
LEMMA RevisionThread ==
  ASSUME IInv, NEW p \in Proposal, NewRevision(p), UNCHANGED <<lease, held, gateway>>,
         held[p] = None, gateway # None
  PROVE  Thread(p)'
  BY Before DEF HeadType, NewRevision, Goto, Thread, HoldsInPhase, HoldsTheRow,
     StatusInPhase, ScopeInPhase, ReceiptInStatus, StatusOf, LeasePhase, WriteLoop

LEMMA CommandThread ==
  ASSUME IInv, NEW p \in Proposal,
         Command(p) \/ RequestApproval(p) \/ RecoverRevise(p)
  PROVE  Thread(p)'
<1> USE Before DEF HeadType
<1>1. ASSUME Approve(p) \/ Redeliver(p) \/ Reject(p) \/ Recover(p) \/ RequestApproval(p)
      PROVE  Thread(p)'
  <2>1. /\ gateway # None /\ UNCHANGED <<held, lease, gateway>>
        /\ pc[p] \in {"idle", "request"}
    BY <1>1 DEF Approve, Redeliver, Reject, Recover, RequestApproval, At, durable, leases,
                process
  <2>2. \/ /\ StatusOf(p) = "PENDING" /\ head'[p] = [head[p] EXCEPT !.status = "APPROVED"]
           /\ receipt'[p] = "live" /\ pc'[p] = "capture"
        \/ /\ StatusOf(p) \in {"APPROVED", "APPLYING"} /\ UNCHANGED head
           /\ receipt'[p] = IF receipt[p] = "expired" THEN "live" ELSE receipt[p]
           /\ pc'[p] = "capture"
        \/ /\ head'[p] = [head[p] EXCEPT !.status = "REJECTED"]
           /\ UNCHANGED <<receipt, pc>> /\ pc[p] = "idle"
        \/ /\ StatusOf(p) = "FAILED" /\ UNCHANGED <<head, receipt>> /\ pc'[p] = "recover"
        \/ /\ pc[p] = "request" /\ head'[p] = [head[p] EXCEPT !.status = "PENDING"]
           /\ UNCHANGED receipt /\ pc'[p] = "idle"
    BY <1>1 DEF Approve, Redeliver, Reject, Recover, RequestApproval, At, Goto, SetStatus,
                Resumable, durable, process
  <2> QED BY <2>1, <2>2 DEF Thread, HoldsInPhase, HoldsTheRow, StatusInPhase, ScopeInPhase,
                            ReceiptInStatus, StatusOf, LeasePhase, WriteLoop
<1>2. ASSUME NEW o, NEW a, Set(p, o, a) PROVE Thread(p)'
  <2>1. gateway # None /\ pc[p] = "idle" /\ NewRevision(p) /\ UNCHANGED <<lease, held, gateway>>
    BY <1>2 DEF Set, At, leases, process
  <2>2. held[p] = None
    BY <2>1 DEF Thread, HoldsInPhase, LeasePhase
  <2> QED BY <2>1, <2>2, RevisionThread
<1>3. ASSUME RecoverRevise(p) PROVE Thread(p)'
  <2>1. gateway # None /\ pc[p] = "recover" /\ NewRevision(p) /\ UNCHANGED <<lease, held, gateway>>
    BY <1>3 DEF RecoverRevise, At, leases, process
  <2>2. held[p] = None
    BY <2>1 DEF Thread, HoldsInPhase, LeasePhase
  <2> QED BY <2>1, <2>2, RevisionThread
<1> QED BY <1>1, <1>2, <1>3 DEF Command

LEMMA StepRaisesThread ==
  ASSUME IInv, NEW p \in Proposal, StepRaises(p)
  PROVE  Thread(p)'
<1> USE Before, SameScope
<1>1. /\ gateway # None /\ pc[p] \notin {"idle", "release"}
      /\ UNCHANGED <<head, plan, receipt, held, lease, gateway>>
  BY DEF StepRaises, At, durable, leases, process
<1>2. CASE pc[p] \in {"recheck", "preflight", "patch", "record"}
  <2>1. pc'[p] = "failing" /\ UNCHANGED job
    BY <1>2 DEF StepRaises, Goto
  <2> QED BY <1>1, <1>2, <2>1 DEF Thread, HoldsInPhase, HoldsTheRow, StatusInPhase,
        ScopeInPhase, ReceiptInStatus, StatusOf, LeasePhase, WriteLoop
<1>3. CASE pc[p] \notin {"recheck", "preflight", "patch", "record"}
  <2>1. pc'[p] = IF held[p] # None THEN "release" ELSE "idle"
    BY <1>3 DEF StepRaises, Goto
  <2> QED BY <1>1, <1>3, <2>1 DEF Thread, HoldsInPhase, HoldsTheRow, StatusInPhase,
        ScopeInPhase, ReceiptInStatus, StatusOf, LeasePhase, WriteLoop
<1> QED BY <1>2, <1>3

-----------------------------------------------------------------------------
(* The steps that touch the lease or the process, and the whole invariant.    *)

\* While a thread holds a lease, the row is that of the running process.
LEMMA HolderBlocks ==
  ASSUME IInv, NEW p \in Proposal, AcquireLease(p), NEW q \in Proposal
  PROVE  held[q] = None
  BY DEF IInv, Control, Thread, HoldsTheRow, AcquireLease, MayAcquire, ProposalApplyAssumption

LEMMA AcquireControl ==
  ASSUME IInv, NEW p \in Proposal, AcquireLease(p)
  PROVE  Control'
<1> USE Before DEF HeadType
<1>1. /\ lease' = held'[p] /\ lease'.proposal = p /\ lease'.revision = head[p].revision
      /\ lease'.pid = gateway /\ gateway # None
      /\ UNCHANGED <<head, plan, receipt, gateway, job>> /\ pc'[p] = "verify"
  BY DEF AcquireLease, At, Goto, durable, process
<1>2. held'[p] # None
  <2>1. lease' \in LeaseRow
    BY DEF AcquireLease, IInv, TypeOK, LeaseRow, At
  <2> QED BY <1>1, <2>1, ProposalApplyAssumption
<1>3. Thread(p)'
  BY <1>1, <1>2, SameScope DEF Thread, HoldsInPhase, HoldsTheRow, StatusInPhase,
       ScopeInPhase, ReceiptInStatus, StatusOf, LeasePhase, WriteLoop
<1>4. \A q \in Proposal : q # p => Thread(q)'
  BY <1>1, HolderBlocks, SameFreeThread, StepSame DEF IInv, Step
<1>5. OwnerRuns'
  BY <1>1 DEF OwnerRuns
<1> QED BY <1>3, <1>4, <1>5 DEF Control

LEMMA ReleaseControl ==
  ASSUME IInv, NEW p \in Proposal, Release(p)
  PROVE  Control'
<1> USE Before DEF HeadType
<1>1. /\ held'[p] = None /\ pc'[p] = "idle" /\ held[p] # None
      /\ UNCHANGED <<head, plan, receipt, gateway, ownerUp>>
      /\ lease' = lease \/ lease' = None
  BY DEF Release, At, Goto, durable, process, Thread, HoldsInPhase, LeasePhase
<1>2. Thread(p)'
  BY <1>1 DEF Thread, HoldsInPhase, HoldsTheRow, StatusInPhase,
       ScopeInPhase, ReceiptInStatus, StatusOf, LeasePhase, WriteLoop
<1>3. \A q \in Proposal : q # p => held[q] = None
  BY <1>1, OneHolder
<1>4. \A q \in Proposal : q # p => Thread(q)'
  BY <1>1, <1>3, SameFreeThread, StepSame DEF IInv, Step
<1>5. OwnerRuns'
  BY <1>1 DEF OwnerRuns, IInv, Control
<1> QED BY <1>2, <1>4, <1>5 DEF Control

\* A process that dies takes the memory of its threads with it.
LEMMA GatewayControl ==
  ASSUME IInv, GatewayDies \/ \E pid \in Pid : GatewayStarts(pid)
  PROVE  Control'
<1>1. CASE GatewayDies
  <2>1. \A q \in Proposal : Thread(q)'
    <3> TAKE q \in Proposal
    <3>1. /\ pc'[q] = "idle" /\ held'[q] = None
          /\ UNCHANGED <<head, receipt>>
      BY <1>1 DEF GatewayDies, durable
    <3> QED BY <3>1, Before DEF Thread, HoldsInPhase, HoldsTheRow, StatusInPhase,
               ScopeInPhase, ReceiptInStatus, StatusOf, LeasePhase, WriteLoop
  <2>2. OwnerRuns'
    BY <1>1 DEF GatewayDies, OwnerRuns
  <2> QED BY <2>1, <2>2 DEF Control
<1>2. CASE \E pid \in Pid : GatewayStarts(pid)
  <2>1. \A q \in Proposal : Thread(q)'
    <3> TAKE q \in Proposal
    <3>1. /\ pc[q] = "idle" /\ pc'[q] = "idle" /\ held[q] = None /\ held'[q] = None
          /\ UNCHANGED <<head, receipt>>
      BY <1>2, Before DEF GatewayStarts, durable, leases, Thread, HoldsInPhase, LeasePhase
    <3> QED BY <3>1, Before DEF Thread, HoldsInPhase, HoldsTheRow, StatusInPhase,
               ScopeInPhase, ReceiptInStatus, StatusOf, LeasePhase, WriteLoop
  <2>2. OwnerRuns'
    BY <1>2 DEF GatewayStarts, OwnerRuns, leases, IInv, Control
  <2> QED BY <2>1, <2>2 DEF Control
<1> QED BY <1>1, <1>2

\* Disturbances that no thread's invariant speaks of, except that a receipt
\* may expire.
LEMMA WorldControl ==
  ASSUME IInv,
         \/ \E k \in Key, v \in Value : NotionEdited(k, v)
         \/ \E v \in Version : SourceMoves(v)
         \/ WikiMoves
         \/ \E p \in Proposal : TimePasses(p)
  PROVE  Control'
<1>1. /\ UNCHANGED <<head, plan, leases, gateway, pc, job>>
      /\ \A q \in Proposal : \/ receipt'[q] = receipt[q]
                             \/ receipt[q] = "live" /\ receipt'[q] = "expired"
  BY Domains DEF IInv, NotionEdited, SourceMoves, WikiMoves, TimePasses, durable, process
<1>2. \A q \in Proposal : Thread(q)'
  BY <1>1, Before, SameScope DEF leases, Thread, HoldsInPhase, HoldsTheRow, StatusInPhase,
     ScopeInPhase, ReceiptInStatus, StatusOf
<1> QED BY <1>1, <1>2 DEF leases, OwnerRuns, IInv, Control

\* Every step keeps the invariant.
LEMMA ControlStep == IInv /\ [Next]_vars => Control'
<1> SUFFICES ASSUME IInv, [Next]_vars PROVE Control'
  OBVIOUS
<1>1. ASSUME NEW p \in Proposal,
             Step(p) \/ Command(p) \/ StepRaises(p) \/ PatchUnanswered(p),
             UNCHANGED <<leases, gateway>>, Thread(p)'
      PROVE  Control'
  BY <1>1, Alone, StepSame DEF IInv
<1>2. ASSUME NEW p \in Proposal,
             Step(p) \/ Command(p) \/ StepRaises(p) \/ PatchUnanswered(p)
      PROVE  Control'
  <2>1. CASE AcquireLease(p) \/ Release(p)
    BY <2>1, AcquireControl, ReleaseControl
  <2>2. CASE ~(AcquireLease(p) \/ Release(p))
    <3>1. UNCHANGED <<leases, gateway>>
      BY <1>2, <2>2
      DEF Step, Command, Capture, LeaseRefused, VerifyFails, Verify, KnowledgeStale,
          Inspect, InspectDone, Guard, Begin, Reconcile, Reset, Recheck, Preflight, Patch,
          PatchUnanswered, Record, Failing, Block, Fail, Final, Commit, RequestApproval,
          RecoverMark, RecoverRevise, Approve, Redeliver, Reject, Recover, Set,
          StepRaises, process
    <3>2. Thread(p)'
      BY <1>2, <2>2, CaptureThread, VerifyThread, InspectThread, GuardThread, BeginThread,
         MarkingThread, ResetThread, LoopThread, CommandThread, StepRaisesThread
      DEF Step, Command
    <3> QED BY <1>1, <1>2, <3>1, <3>2
  <2> QED BY <2>1, <2>2
<1>3. ASSUME World PROVE Control'
  BY <1>2, <1>3, GatewayControl, WorldControl DEF World
<1>4. CASE UNCHANGED vars
  <2>1. \A q \in Proposal : Thread(q)'
    BY <1>4, SameThread DEF vars, Same, durable, leases, process, IInv, Control
  <2> QED BY <1>4, <2>1 DEF vars, leases, process, OwnerRuns, IInv, Control
<1> QED BY <1>2, <1>3, <1>4 DEF Next

LEMMA ControlInit == Init => Control
<1> SUFFICES ASSUME Init PROVE Control
  OBVIOUS
<1>1. \A p \in Proposal : Thread(p)
  BY DEF Init, Thread, HoldsInPhase, HoldsTheRow, StatusInPhase,
     ScopeInPhase, ReceiptInStatus, StatusOf, LeasePhase, WriteLoop
<1> QED BY <1>1 DEF Init, Control, OwnerRuns

LEMMA Invariance == Spec => []IInv
  BY TypeInit, TypeStep, ControlInit, ControlStep, PTL DEF Spec, IInv

\* A receipt is consumed exactly when the apply of its revision has begun.
THEOREM ReceiptsCorrect == Spec => []ReceiptMatchesStatus
<1>1. IInv => ReceiptMatchesStatus
  BY DEF IInv, Control, Thread, ReceiptInStatus, ReceiptMatchesStatus
<1> QED BY <1>1, Invariance, PTL

-----------------------------------------------------------------------------
(* What a step does to the head row of its proposal.                          *)

\* A step of thread p leaves the head row or makes one of these moves.
HeadMove(p) ==
  \/ UNCHANGED head
  \/ /\ held[p] # None /\ UNCHANGED <<leases, process>>
     /\ \E s \in {"APPLYING", "STALE", "FAILED", "COMMITTED"} :
          SetStatus(p, s) /\ <<StatusOf(p), s>> \in LeaseProtocol!ApplyMove
  \/ /\ held[p] = None /\ UNCHANGED <<leases, process>>
     /\ \/ StatusOf(p) = "PENDING" /\ SetStatus(p, "APPROVED")
        \/ StatusOf(p) = "DRAFT" /\ SetStatus(p, "PENDING")
        \/ StatusOf(p) \in Rejectable /\ SetStatus(p, "REJECTED")
        \/ StatusOf(p) \in Editable /\ NewRevision(p)

LEMMA HeadMoves ==
  ASSUME IInv, NEW p \in Proposal,
         Step(p) \/ Command(p) \/ StepRaises(p) \/ PatchUnanswered(p)
  PROVE  HeadMove(p)
<1> USE Before DEF HeadMove, Thread, HoldsInPhase, LeasePhase, LeaseProtocol!ApplyMove, At
<1>1. ASSUME Capture(p) \/ LeaseRefused(p) \/ AcquireLease(p) \/ VerifyFails(p)
             \/ Inspect(p) \/ Reconcile(p) \/ Reset(p) \/ Preflight(p) \/ Patch(p)
             \/ PatchUnanswered(p) \/ Record(p) \/ Failing(p) \/ Block(p) \/ Final(p)
             \/ Release(p) \/ RecoverMark(p) \/ StepRaises(p) \/ Redeliver(p) \/ Recover(p)
      PROVE  UNCHANGED head
  BY <1>1 DEF Capture, LeaseRefused, AcquireLease, VerifyFails, Inspect, Reconcile, Reset,
     Preflight, Patch, PatchUnanswered, Record, Failing, Block, Final, Release, RecoverMark,
     StepRaises, Redeliver, Recover
<1>2. ASSUME NEW b \in BOOLEAN, KnowledgeStale(p, b), held[p] # None,
             StatusOf(p) = IF b THEN "APPLYING" ELSE "APPROVED"
      PROVE  HeadMove(p)
  BY <1>2 DEF KnowledgeStale
<1>3. ASSUME Verify(p) PROVE HeadMove(p)
  <2>1. CASE KnowledgeStale(p, StatusOf(p) = "APPLYING")
    BY <1>2, <1>3, <2>1 DEF Verify, Verified, Resumable
  <2> QED BY <1>3, <2>1 DEF Verify
<1>4. ASSUME Guard(p) PROVE HeadMove(p)
  <2>1. job[p].resuming \in BOOLEAN
    BY DEF JobType, Jobs
  <2>2. CASE KnowledgeStale(p, job[p].resuming)
    BY <1>2, <1>4, <2>1, <2>2 DEF Guard, StatusInPhase
  <2> QED BY <1>4, <2>2 DEF Guard
<1>5. ASSUME InspectDone(p) \/ Begin(p) \/ Commit(p) PROVE HeadMove(p)
  BY <1>5 DEF InspectDone, Begin, Commit, StatusInPhase, WriteLoop
<1>6. ASSUME Recheck(p) \/ Fail(p) PROVE HeadMove(p)
  <2>1. held[p] # None /\ StatusOf(p) \in {"APPLYING", "FAILED"}
    BY <1>6 DEF Recheck, Fail, StatusInPhase, WriteLoop
  <2>2. SetStatus(p, "FAILED") /\ StatusOf(p) = "FAILED" => UNCHANGED head
    BY DEF SetStatus, StatusOf, HeadType
  <2> QED BY <1>6, <2>1, <2>2 DEF Recheck, Fail
<1>7. ASSUME Approve(p) \/ RequestApproval(p) \/ Reject(p) PROVE HeadMove(p)
  BY <1>7 DEF Approve, RequestApproval, Reject, StatusInPhase
<1>8. ASSUME RecoverRevise(p) PROVE HeadMove(p)
  BY <1>8 DEF RecoverRevise, StatusInPhase, Editable, Status
<1>9. ASSUME NEW o, NEW a, Set(p, o, a) PROVE HeadMove(p)
  BY <1>9 DEF Set
<1> QED
  BY <1>1, <1>3, <1>4, <1>5, <1>6, <1>7, <1>8, <1>9 DEF Step, Command

\* A proposal that ended stays as it ended: no command, resumed run or
\* disturbance moves it.
THEOREM EndedIsFinal == Spec => EndedStaysEnded
<1>1. ASSUME IInv, NEW p \in Proposal, HeadMove(p), NEW q \in Proposal,
             StatusOf(q) \in {"COMMITTED", "REJECTED"}
      PROVE  head'[q] = head[q]
  BY <1>1, Before DEF HeadMove, SetStatus, NewRevision, StatusOf, Rejectable, Editable,
     LeaseProtocol!ApplyMove, HeadType
<1>2. ASSUME World,
             ~ \E p \in Proposal : StepRaises(p) \/ PatchUnanswered(p)
      PROVE  UNCHANGED head
  BY <1>2 DEF World, GatewayDies, GatewayStarts, NotionEdited, SourceMoves, WikiMoves,
     TimePasses
<1>3. IInv /\ [Next]_vars =>
        [\A p \in Proposal :
           StatusOf(p) \in {"COMMITTED", "REJECTED"} => head'[p] = head[p]]_vars
  BY <1>1, <1>2, HeadMoves DEF Next
<1> QED BY <1>3, Invariance, PTL DEF Spec, EndedStaysEnded

-----------------------------------------------------------------------------
(* The threads and their gateway implement the lease protocol.                *)

LEMMA StatusMoveRefines ==
  ASSUME IInv, NEW p \in Proposal, HeadMove(p), UNCHANGED <<leases, process>>
  PROVE  [LeaseProtocol!Next]_LeaseProtocol!vars
<1> USE Before
<1>1. UNCHANGED <<alive, usedPids, lease, held, ownerUp>>
  BY DEF leases, process, alive
<1>2. CASE UNCHANGED head
  BY <1>1, <1>2 DEF LeaseProtocol!vars
<1>3. CASE held[p] # None /\ \E s \in {"APPLYING", "STALE", "FAILED", "COMMITTED"} :
             SetStatus(p, s) /\ <<StatusOf(p), s>> \in LeaseProtocol!ApplyMove
  <2>1. PICK s \in {"APPLYING", "STALE", "FAILED", "COMMITTED"} :
          SetStatus(p, s) /\ <<StatusOf(p), s>> \in LeaseProtocol!ApplyMove
    BY <1>3
  <2>2. held[p].proposal = p /\ head[p].revision = held[p].revision
    BY <1>3 DEF Thread, HoldsTheRow
  <2>3. LeaseProtocol!ApplyStep(p, s)
    BY <1>1, <1>3, <2>1, <2>2
    DEF LeaseProtocol!ApplyStep, LeaseProtocol!Holding, LeaseProtocol!SetStatus, SetStatus,
        StatusOf
  <2>4. s \in LeaseProtocol!Status
    BY DEF LeaseProtocol!Status
  <2> QED BY <2>3, <2>4 DEF LeaseProtocol!Next
<1>4. CASE held[p] = None /\
           \/ StatusOf(p) = "PENDING" /\ SetStatus(p, "APPROVED")
           \/ StatusOf(p) = "DRAFT" /\ SetStatus(p, "PENDING")
           \/ StatusOf(p) \in Rejectable /\ SetStatus(p, "REJECTED")
           \/ StatusOf(p) \in Editable /\ NewRevision(p)
  <2>1. LeaseProtocol!Quiet(p)
    BY <1>4 DEF LeaseProtocol!Quiet, LeaseProtocol!Holding, IInv, Control, Thread, HoldsTheRow
  <2>2. \/ LeaseProtocol!Approve(p) \/ LeaseProtocol!RequestApproval(p)
        \/ LeaseProtocol!Reject(p) \/ LeaseProtocol!Revise(p)
    BY <1>1, <1>4, <2>1
    DEF LeaseProtocol!Approve, LeaseProtocol!RequestApproval, LeaseProtocol!Reject,
        LeaseProtocol!Revise, LeaseProtocol!SetStatus, SetStatus, NewRevision, StatusOf,
        Rejectable, Editable, Status, LeaseProtocol!Rejectable, LeaseProtocol!Editable,
        LeaseProtocol!Status
  <2> QED BY <2>2 DEF LeaseProtocol!Next
<1> QED BY <1>2, <1>3, <1>4 DEF HeadMove

LEMMA AcquireRefines ==
  ASSUME IInv, NEW p \in Proposal, AcquireLease(p)
  PROVE  LeaseProtocol!Next
<1> DEFINE inUse == {x.token : x \in ({lease} \cup {held[q] : q \in Proposal}) \ {None}}
           t     == CHOOSE u \in Token : u \notin inUse
           row   == [proposal |-> p, revision |-> head[p].revision, token |-> t,
                     pid |-> gateway]
<1>1. /\ gateway # None /\ gateway \in Pid /\ head[p].revision \in Revision
      /\ Token \ inUse # {} /\ lease' = row /\ held' = [held EXCEPT ![p] = row]
      /\ ownerUp' = TRUE /\ UNCHANGED <<gateway, usedPids, head>>
  BY DEF AcquireLease, At, IInv, TypeOK, process
<1>2. t \in Token \ LeaseProtocol!TokenInUse
  BY <1>1 DEF LeaseProtocol!TokenInUse
<1>3. ~LeaseProtocol!Holding(p)
  BY HolderBlocks DEF LeaseProtocol!Holding
<1>4. LeaseProtocol!MayAcquire(p, head[p].revision)
  BY <1>1 DEF AcquireLease, MayAcquire, LeaseProtocol!MayAcquire, alive, StatusOf,
              TerminalHolder, LeaseProtocol!TerminalHolder
<1>5. head[p].revision <= head[p].revision /\ gateway \in alive /\ UNCHANGED alive
  BY <1>1, ProposalApplyAssumption DEF alive, Revision
<1>6. LeaseProtocol!Acquire(p, gateway, p, head[p].revision)
  BY <1>1, <1>2, <1>3, <1>4, <1>5 DEF LeaseProtocol!Acquire
<1>7. head[p].revision \in LeaseProtocol!Revision
  BY <1>1 DEF Revision, LeaseProtocol!Revision
<1> QED BY <1>1, <1>6, <1>7 DEF LeaseProtocol!Next

LEMMA ReleaseRefines ==
  ASSUME IInv, NEW p \in Proposal, Release(p)
  PROVE  LeaseProtocol!Next
<1> USE Before
<1>1. LeaseProtocol!Holding(p) /\ lease = held[p]
  BY DEF Release, At, Thread, HoldsInPhase, HoldsTheRow, LeasePhase, LeaseProtocol!Holding
<1>2. UNCHANGED <<alive, usedPids, ownerUp, head>> /\ held' = [held EXCEPT ![p] = None]
  BY DEF Release, process, alive
<1>3. lease' = None \/ lease' = lease
  BY DEF Release
<1>4. LeaseProtocol!OwnsRow(p)
  BY <1>1 DEF LeaseProtocol!OwnsRow, LeaseProtocol!Holding
<1>5. LeaseProtocol!Release(p) \/ LeaseProtocol!ReleaseFails(p)
  BY <1>1, <1>2, <1>3, <1>4 DEF LeaseProtocol!Release, LeaseProtocol!ReleaseFails
<1> QED BY <1>5 DEF LeaseProtocol!Next

LEMMA GatewayRefines ==
  ASSUME IInv, GatewayDies \/ \E pid \in Pid : GatewayStarts(pid)
  PROVE  LeaseProtocol!Next
<1>1. CASE GatewayDies
  <2>1. gateway \in Pid /\ gateway # None /\ alive = {gateway} /\ alive' = {}
    BY <1>1 DEF GatewayDies, alive, IInv, TypeOK
  <2>2. held' = [w \in Proposal |->
          IF LeaseProtocol!Holding(w) /\ held[w].pid = gateway THEN None ELSE held[w]]
    BY <1>1 DEF GatewayDies, LeaseProtocol!Holding, IInv, Control, Thread, HoldsTheRow
  <2>3. ownerUp' = (ownerUp /\ lease # None /\ lease.pid # gateway)
    BY <1>1 DEF GatewayDies, IInv, Control, OwnerRuns
  <2>4. LeaseProtocol!ProcessDies(gateway)
    BY <1>1, <2>1, <2>2, <2>3 DEF LeaseProtocol!ProcessDies, GatewayDies
  <2> QED BY <2>1, <2>4 DEF LeaseProtocol!Next
<1>2. CASE \E pid \in Pid : GatewayStarts(pid)
  <2>1. PICK pid \in Pid : GatewayStarts(pid)
    BY <1>2
  <2>2. alive = {} /\ alive' = {pid}
    BY <2>1, ProposalApplyAssumption DEF GatewayStarts, alive
  <2>3. LeaseProtocol!ProcessStarts(pid)
    BY <2>1, <2>2 DEF LeaseProtocol!ProcessStarts, GatewayStarts, leases
  <2> QED BY <2>3 DEF LeaseProtocol!Next
<1> QED BY <1>1, <1>2

\* Every behaviour of the commands and the apply is one of the lease protocol:
\* what ApplyLeaseProofs proves of it holds of the threads.
THEOREM Refinement == Spec => ImplementsLease
<1>1. Init => LeaseProtocol!Init
  BY ProposalApplyAssumption DEF Init, LeaseProtocol!Init, alive
<1>2. ASSUME IInv, NEW p \in Proposal,
             Step(p) \/ Command(p) \/ StepRaises(p) \/ PatchUnanswered(p)
      PROVE  [LeaseProtocol!Next]_LeaseProtocol!vars
  <2>1. CASE AcquireLease(p) \/ Release(p)
    BY <1>2, <2>1, AcquireRefines, ReleaseRefines
  <2>2. CASE ~(AcquireLease(p) \/ Release(p))
    <3>1. UNCHANGED <<leases, process>>
      BY <1>2, <2>2
      DEF Step, Command, Capture, LeaseRefused, VerifyFails, Verify, KnowledgeStale,
          Inspect, InspectDone, Guard, Begin, Reconcile, Reset, Recheck, Preflight, Patch,
          PatchUnanswered, Record, Failing, Block, Fail, Final, Commit, RequestApproval,
          RecoverMark, RecoverRevise, Approve, Redeliver, Reject, Recover, Set,
          StepRaises
    <3> QED BY <1>2, <3>1, HeadMoves, StatusMoveRefines
  <2> QED BY <2>1, <2>2
<1>3. ASSUME IInv, World PROVE [LeaseProtocol!Next]_LeaseProtocol!vars
  <2>1. ASSUME \/ \E k \in Key, v \in Value : NotionEdited(k, v)
               \/ \E v \in Version : SourceMoves(v)
               \/ WikiMoves
               \/ \E p \in Proposal : TimePasses(p)
        PROVE  UNCHANGED LeaseProtocol!vars
    BY <2>1 DEF NotionEdited, SourceMoves, WikiMoves, TimePasses, leases, process,
                LeaseProtocol!vars, alive
  <2> QED BY <1>2, <1>3, <2>1, GatewayRefines DEF World
<1>4. UNCHANGED vars => UNCHANGED LeaseProtocol!vars
  BY DEF vars, leases, process, LeaseProtocol!vars, alive
<1>5. IInv /\ [Next]_vars => [LeaseProtocol!Next]_LeaseProtocol!vars
  BY <1>2, <1>3, <1>4 DEF Next
<1> QED BY <1>1, <1>5, Invariance, PTL DEF Spec, ImplementsLease, LeaseProtocol!Spec

\* A property is written only for a revision that is APPLYING on its consumed
\* receipt, within its scope, by the holder of the lease.
THEOREM WritesAuthorised == Spec => WritesAreAuthorised
<1>1. ASSUME IInv, [Next]_vars, NEW p \in Proposal, NEW r \in Revision, NEW o \in Op,
             <<p, r, o>> \in effects' \ effects
      PROVE  /\ head[p] = [revision |-> r, status |-> "APPLYING"]
             /\ receipt[p] = "used"
             /\ o \in WriteOps(p)
             /\ held[p] # None /\ lease = held[p]
  <2>1. PICK q \in Proposal, u \in Op :
          /\ At(q, "patch") /\ TakeEffect(q, u)
    <3>1. ASSUME NEW q \in Proposal,
                 Step(q) \/ Command(q) \/ StepRaises(q), ~Patch(q)
          PROVE  effects' = effects
      BY <3>1
      DEF Step, Command, Capture, LeaseRefused, AcquireLease, VerifyFails, Verify,
          KnowledgeStale, Inspect, InspectDone, Guard, Begin, Reconcile, Reset, Recheck,
          Preflight, Record, Failing, Block, Fail, Final, Commit, Release,
          RequestApproval, RecoverMark, RecoverRevise, Approve, Redeliver, Reject, Recover,
          Set, StepRaises, world, history
    <3>2. ASSUME World, ~ \E q \in Proposal : StepRaises(q) \/ PatchUnanswered(q)
          PROVE  effects' \subseteq effects
      BY <3>2 DEF World, GatewayDies, GatewayStarts, NotionEdited, SourceMoves, WikiMoves,
                  TimePasses, history
    <3>3. UNCHANGED vars => effects' = effects
      BY DEF vars, history
    <3>4. \E q \in Proposal : Patch(q) \/ PatchUnanswered(q)
      BY <1>1, <3>1, <3>2, <3>3 DEF Next, World
    <3> QED BY <3>4 DEF Patch, PatchUnanswered
  <2>2. p = q /\ o = u /\ r = head[p].revision
    BY <1>1, <2>1 DEF TakeEffect
  <2>3. pc[p] = "patch" /\ o \in job[p].todo
    BY <2>1, <2>2 DEF At, TakeEffect, First
  <2>4. StatusOf(p) = "APPLYING" /\ receipt[p] = "used" /\ o \in WriteOps(p)
        /\ held[p] # None /\ lease = held[p]
    BY <1>1, <2>3, Before DEF Thread, HoldsInPhase, HoldsTheRow, StatusInPhase,
       ScopeInPhase, ReceiptInStatus, LeasePhase, WriteLoop
  <2>5. head[p] = [revision |-> r, status |-> "APPLYING"]
    BY <1>1, <2>2, <2>4, Before DEF StatusOf, HeadType
  <2> QED BY <2>4, <2>5
<1>2. IInv /\ [Next]_vars =>
        [\A p \in Proposal, r \in Revision, o \in Op :
           <<p, r, o>> \in effects' \ effects =>
             /\ head[p] = [revision |-> r, status |-> "APPLYING"]
             /\ receipt[p] = "used"
             /\ o \in WriteOps(p)
             /\ held[p] # None /\ lease = held[p]]_vars
  BY <1>1
<1> QED BY <1>2, Invariance, PTL DEF Spec, WritesAreAuthorised

-----------------------------------------------------------------------------
(* What the tables say of Notion is true: a done row has landed, a complete   *)
(* apply has, and nothing is written over that was not compared.              *)
(*                                                                            *)
(* A row is marked by a thread that has seen or sent its value some steps     *)
(* before, so the invariant, Landed, carries that through the phases of the   *)
(* thread: what it found applied (SeenLanded), what it has no longer to do    *)
(* (TodoLanded), the version it compared (VersionSettled), and that the rows  *)
(* it marks are those of its own revision with the approved values            *)
(* (RowsInScope).  The last says nothing of an operation that two proposals   *)
(* share: either may write its row, and Reached is all that survives.         *)

\* Once an apply has begun, every operation in scope that is not shared has a
\* row of this revision with the approved value.
RowsInScope(p) ==
  StatusOf(p) \in {"APPLYING", "FAILED"} =>
    \A o \in WriteOps(p) :
      ~Shared(o) => OwnRow(p, o) /\ outbox[o].value = Approved(p, o)

\* What the approval shows for o has been in Notion.
HasLanded(p, o) == Reached(o, Approved(p, o))

\* What a thread found applied has reached Notion.
SeenLanded(p) ==
  pc[p] \in LeasePhase \cup {"acquire"} => \A o \in SeenApplied(p) : HasLanded(p, o)

\* What it marks as done, and what it has no longer to do, has reached Notion.
TodoLanded(p) ==
  /\ pc[p] \in {"guard", "begin", "reconcile"} => job[p].todo \subseteq SeenApplied(p)
  /\ pc[p] = "record" => \A o \in Op : First(p, o) => HasLanded(p, o)
  /\ pc[p] = "recover" => \A o \in job[p].todo : o \in WriteOps(p) /\ HasLanded(p, o)
  /\ pc[p] \in WriteLoop \ {"reconcile"} =>
       \A o \in WriteOps(p) \ job[p].todo : HasLanded(p, o)
  /\ pc[p] \in {"final", "commit"} => job[p].todo = {}

\* The captured version is the approved one, from the verification on.
VersionSettled(p) ==
  pc[p] \in LeasePhase \ {"verify", "release"} => job[p].version = SourceOf[p]

\* What is in the scope is what the user decided.
DecisionKept(p) ==
  \A o \in OpsOf[p] : plan[p][o] \in Writes => decision[p][o] = plan[p][o]

\* A thread and its proposal; the whole invariant; the part in memory.
Landing(p) ==
  /\ RowsInScope(p) /\ SeenLanded(p) /\ TodoLanded(p)
  /\ VersionSettled(p) /\ DecisionKept(p)

Landed == /\ DoneMeansLanded /\ RecoveryDropsOnlyLanded
          /\ \A p \in Proposal : Landing(p)

Memory(p) == SeenLanded(p) /\ TodoLanded(p) /\ VersionSettled(p)

-----------------------------------------------------------------------------
(* What the rows, the plan and the memory keep.                               *)

\* Marking changes the status of rows only.
LEMMA MarkKeeps ==
  ASSUME NEW rows \in RowsType, NEW S, NEW o \in Op,
         NEW s \in {"pending", "done", "failed", "blocked"}
  PROVE  /\ Mark(rows, S, s)[o] = None <=> rows[o] = None
         /\ rows[o] # None =>
              /\ Mark(rows, S, s)[o].proposal = rows[o].proposal
              /\ Mark(rows, S, s)[o].revision = rows[o].revision
              /\ Mark(rows, S, s)[o].value = rows[o].value
              /\ Mark(rows, S, s)[o].status = IF o \in S THEN s ELSE rows[o].status
<1>1. CASE rows[o] = None
  BY <1>1 DEF Mark
<1>2. CASE rows[o] # None
  <2>1. rows[o] \in OutboxRow
    BY <1>2 DEF RowsType
  <2>2. [rows[o] EXCEPT !.status = s].proposal = rows[o].proposal
        /\ [rows[o] EXCEPT !.status = s].revision = rows[o].revision
        /\ [rows[o] EXCEPT !.status = s].value = rows[o].value
        /\ [rows[o] EXCEPT !.status = s].status = s
    BY <2>1 DEF OutboxRow
  <2>3. [rows[o] EXCEPT !.status = s] \in OutboxRow
    BY <2>1 DEF OutboxRow
  <2> QED BY <1>2, <2>2, <2>3, ProposalApplyAssumption DEF Mark
<1> QED BY <1>1, <1>2

\* The first operation to do is one operation.
LEMMA OneFirst ==
  ASSUME TypeOK, NEW p \in Proposal, NEW o \in Op, NEW u \in Op, First(p, o), First(p, u)
  PROVE  o = u
<1>1. Order[o] \in Nat /\ Order[u] \in Nat /\ Order[o] <= Order[u] /\ Order[u] <= Order[o]
  BY ProposalApplyAssumption DEF First
<1> QED BY <1>1, ProposalApplyAssumption

\* What is approved changes with the plan only.
LEMMA SamePlan ==
  ASSUME NEW p \in Proposal, plan'[p] = plan[p]
  PROVE  WriteOps(p)' = WriteOps(p) /\ \A o : Approved(p, o)' = Approved(p, o)
  BY DEF WriteOps, Approved

\* What has landed stays so.
LEMMA LandedGrows ==
  ASSUME NEW p \in Proposal, Step(p) \/ Command(p) \/ StepRaises(p) \/ PatchUnanswered(p)
  PROVE  landed \subseteq landed'
  BY DEF Step, Command, Capture, LeaseRefused, AcquireLease, VerifyFails, Verify,
     KnowledgeStale, Inspect, InspectDone, Guard, Begin, Reconcile, Reset, Recheck,
     Preflight, Patch, PatchUnanswered, TakeEffect, Record, Failing, Block, Fail, Final,
     Commit, Release, RequestApproval, RecoverMark, RecoverRevise, Approve, Redeliver,
     Reject, Recover, Set, StepRaises, world, history

\* A thread that is not stepping keeps what its memory says of Notion.
LEMMA MemoryKept ==
  ASSUME NEW q \in Proposal, Memory(q), pc'[q] = pc[q], job'[q] = job[q],
         plan'[q] = plan[q], landed \subseteq landed'
  PROVE  Memory(q)'
<1> USE SamePlan
<1>1. \A o : HasLanded(q, o) => HasLanded(q, o)'
  BY DEF HasLanded, Reached
<1>2. SeenApplied(q)' = SeenApplied(q)
  BY DEF SeenApplied
<1>3. \A o : First(q, o)' <=> First(q, o)
  BY DEF First
<1>4. SeenLanded(q)'
  BY <1>1, <1>2 DEF Memory, SeenLanded
<1>5. TodoLanded(q)'
  BY <1>1, <1>2, <1>3 DEF Memory, TodoLanded
<1> QED BY <1>4, <1>5 DEF Memory, VersionSettled

-----------------------------------------------------------------------------
(* What a step leaves of the memory of its own thread.                        *)

\* A thread outside the apply and /nx_recover says nothing of Notion.
LEMMA OutsideMemory ==
  ASSUME NEW p \in Proposal, pc'[p] \in {"idle", "capture", "request"}
  PROVE  Memory(p)'
  BY DEF Memory, SeenLanded, TodoLanded, VersionSettled, LeasePhase, WriteLoop

\* A run that is given up or failed says nothing more of what it has to do.
LEMMA StoppedMemory ==
  ASSUME NEW p \in Proposal, Memory(p), plan'[p] = plan[p], landed \subseteq landed',
         pc[p] \in LeasePhase \cup {"acquire"},
         \/ pc'[p] \in {"verify", "release"}
         \/ pc'[p] \in {"failing", "fail"} /\ pc[p] \notin {"acquire", "verify", "release"},
         job'[p].seen = job[p].seen, job'[p].version = job[p].version
  PROVE  Memory(p)'
<1> USE SamePlan
<1>1. \A o : HasLanded(p, o) => HasLanded(p, o)'
  BY DEF HasLanded, Reached
<1>2. SeenApplied(p)' = SeenApplied(p)
  BY DEF SeenApplied
<1>3. SeenLanded(p)'
  BY <1>1, <1>2 DEF Memory, SeenLanded, LeasePhase
<1>4. TodoLanded(p)'
  BY DEF TodoLanded, WriteLoop
<1>5. VersionSettled(p)'
  BY DEF Memory, VersionSettled, LeasePhase
<1> QED BY <1>3, <1>4, <1>5 DEF Memory

\* A run that goes on under the lease: what is left to show of its next phase.
LEMMA RunningMemory ==
  ASSUME NEW p \in Proposal, Memory(p), plan'[p] = plan[p], landed \subseteq landed',
         pc[p] \in LeasePhase \ {"verify", "release"},
         pc'[p] \in LeasePhase,
         job'[p].seen = job[p].seen, job'[p].version = job[p].version,
         TodoLanded(p)'
  PROVE  Memory(p)'
<1> USE SamePlan
<1>1. \A o : HasLanded(p, o) => HasLanded(p, o)'
  BY DEF HasLanded, Reached
<1>2. SeenApplied(p)' = SeenApplied(p)
  BY DEF SeenApplied
<1>3. SeenLanded(p)'
  BY <1>1, <1>2 DEF Memory, SeenLanded
<1>5. VersionSettled(p)'
  BY DEF Memory, VersionSettled
<1> QED BY <1>3, <1>5 DEF Memory

\* A thread that captures the version has seen nothing yet.
LEMMA CaptureMemory ==
  ASSUME IInv, NEW p \in Proposal, Capture(p)
  PROVE  Memory(p)'
<1>1. pc'[p] = "acquire" /\ plan' = plan /\ job'[p] = [IdleJob EXCEPT !.version = source]
  BY Before DEF Capture, Goto, durable, JobType
<1>2. \A o \in Op : job'[p].seen[o] = "unseen"
  BY <1>1 DEF IdleJob
<1>3. SeenApplied(p)' = {}
  BY <1>1, <1>2, ScopeType, SameScope DEF SeenApplied
<1> QED BY <1>1, <1>3 DEF Memory, SeenLanded, TodoLanded, VersionSettled, LeasePhase,
                          WriteLoop

\* A new list, a resumed run and one inspection leave the version, and the first
\* two leave what was seen.
LEMMA TodoKeeps ==
  ASSUME job \in JobType, NEW p \in Proposal, NEW S
  PROVE  /\ [job EXCEPT ![p].todo = S][p].todo = S
         /\ [job EXCEPT ![p].todo = S][p].resuming = job[p].resuming
         /\ [job EXCEPT ![p].todo = S][p].seen = job[p].seen
         /\ [job EXCEPT ![p].todo = S][p].version = job[p].version
  BY DEF JobType, Jobs

LEMMA ResumedKeeps ==
  ASSUME NEW j \in Jobs, NEW b, NEW S
  PROVE  /\ [j EXCEPT !.resuming = b, !.todo = S].seen = j.seen
         /\ [j EXCEPT !.resuming = b, !.todo = S].version = j.version
  BY DEF Jobs

LEMMA InspectedKeeps ==
  ASSUME NEW j \in Jobs, NEW s, NEW o \in Op, NEW S
  PROVE  /\ [j EXCEPT !.seen[o] = s, !.todo = S].version = j.version
         /\ [j EXCEPT !.seen[o] = s, !.todo = S].seen = [j.seen EXCEPT ![o] = s]
  BY DEF Jobs

\* The verification compares the captured version with the approved one.
LEMMA VerifyMemory ==
  ASSUME IInv, NEW p \in Proposal, Memory(p), VerifyFails(p) \/ Verify(p)
  PROVE  Memory(p)'
<1> USE Before
<1>0. pc[p] = "verify" /\ UNCHANGED <<plan, landed>>
  BY DEF VerifyFails, Verify, KnowledgeStale, At, durable, history
<1>1. CASE UNCHANGED job /\ pc'[p] = "release"
  BY <1>0, <1>1, StoppedMemory DEF LeasePhase
<1>2. CASE /\ Verified(p)
           /\ job' = [job EXCEPT ![p] =
                 [@ EXCEPT !.resuming = (StatusOf(p) = "APPLYING"), !.todo = WriteOps(p)]]
           /\ Goto(p, "inspect")
  <2>1. job'[p].seen = job[p].seen /\ job'[p].version = job[p].version
    <3> DEFINE j == [job[p] EXCEPT !.resuming = (StatusOf(p) = "APPLYING"),
                                   !.todo = WriteOps(p)]
    <3>1. job'[p] = j
      BY <1>2, Zenon DEF JobType
    <3>2. job[p] \in Jobs
      BY DEF JobType
    <3> HIDE DEF j
    <3>3. j.seen = job[p].seen /\ j.version = job[p].version
      BY <3>2, ResumedKeeps DEF j
    <3> QED BY <3>1, <3>3
  <2>2. pc'[p] = "inspect" /\ job[p].version = SourceOf[p]
    BY <1>2 DEF Verified, Goto
  <2>3. SeenApplied(p)' = SeenApplied(p) /\ \A o : HasLanded(p, o)' <=> HasLanded(p, o)
    BY <1>0, <2>1, SamePlan DEF SeenApplied, HasLanded, Reached
  <2>4. SeenLanded(p)'
    BY <1>0, <2>2, <2>3 DEF Memory, SeenLanded, LeasePhase
  <2> QED BY <2>1, <2>2, <2>4 DEF Memory, TodoLanded, VersionSettled, WriteLoop
<1>3. VerifyFails(p) \/ KnowledgeStale(p, StatusOf(p) = "APPLYING")
        => UNCHANGED job /\ pc'[p] = "release"
  BY DEF VerifyFails, KnowledgeStale, Goto
<1> QED BY <1>1, <1>2, <1>3 DEF Verify

\* A done row of a resumed run is one that landed, and so is what Notion shows.
LEMMA InspectMemory ==
  ASSUME IInv, NEW p \in Proposal, Landing(p), DoneMeansLanded, Inspect(p)
  PROVE  Memory(p)'
<1> USE Before
<1> PICK o \in Op :
      /\ First(p, o)
      /\ job' = [job EXCEPT ![p] =
            [@ EXCEPT !.seen[o] = Sighted(p, o), !.todo = job[p].todo \ {o}]]
      /\ landed' = IF Skipped(p, o) THEN landed ELSE landed \cup Seen(p, {o})
  BY DEF Inspect
<1>1. pc[p] = "inspect" /\ pc'[p] = "inspect" /\ UNCHANGED plan
  BY DEF Inspect, At, durable
<1>2. /\ job'[p].version = job[p].version
      /\ job'[p].seen = [job[p].seen EXCEPT ![o] = Sighted(p, o)]
  <2> DEFINE j == [job[p] EXCEPT !.seen[o] = Sighted(p, o), !.todo = job[p].todo \ {o}]
  <2>1. job'[p] = j
    BY Zenon DEF JobType
  <2>2. job[p] \in Jobs
    BY DEF JobType
  <2> HIDE DEF j
  <2>3. j.version = job[p].version /\ j.seen = [job[p].seen EXCEPT ![o] = Sighted(p, o)]
    BY <2>2, InspectedKeeps DEF j
  <2> QED BY <2>1, <2>3
<1>3. o \in WriteOps(p)
  BY <1>1 DEF First, Thread, ScopeInPhase, LeasePhase
<1>4. \A u : HasLanded(p, u) => HasLanded(p, u)'
  BY <1>1, SamePlan DEF HasLanded, Reached
<1>5. Sighted(p, o) = "applied" => HasLanded(p, o)'
  <2>1. CASE Skipped(p, o)
    <3>1. OwnRow(p, o) /\ outbox[o].status = "done" /\ job[p].resuming
      BY <2>1 DEF Skipped, DoneRow
    <3>2. StatusOf(p) = "APPLYING"
      BY <1>1, <3>1 DEF Thread, StatusInPhase
    <3>3. ~Shared(o) => outbox[o].value = Approved(p, o)
      BY <1>3, <3>2 DEF Landing, RowsInScope
    <3>4. HasLanded(p, o)
      BY <3>1, <3>3 DEF DoneMeansLanded, HasLanded, Reached, OwnRow
    <3> QED BY <1>4, <3>4
  <2>2. CASE ~Skipped(p, o) /\ Inspection(p, o) = "applied"
    <3>1. notion[KeyOf[o]] = Approved(p, o)
      BY <2>2 DEF Inspection
    <3>2. <<o, Approved(p, o)>> \in Seen(p, {o})
      BY <3>1 DEF Seen
    <3>3. <<o, Approved(p, o)>> \in landed'
      BY <2>2, <3>2
    <3> QED BY <1>1, <3>3, SamePlan, ApprovedType DEF HasLanded, Reached
  <2> QED BY <2>1, <2>2 DEF Sighted
<1>6. SeenLanded(p)'
  <2> SUFFICES ASSUME NEW u \in SeenApplied(p)' PROVE HasLanded(p, u)'
    BY DEF SeenLanded
  <2>1. u \in WriteOps(p) /\ u \in Op /\ job'[p].seen[u] = "applied"
    BY <1>1, ScopeType, SamePlan DEF SeenApplied
  <2>2. job[p].seen \in [Op -> Sight]
    BY DEF JobType, Jobs
  <2>3. CASE u = o
    BY <1>2, <1>5, <2>1, <2>2, <2>3
  <2>4. CASE u # o
    BY <1>1, <1>2, <1>4, <2>1, <2>2, <2>4 DEF SeenApplied, Landing, SeenLanded, LeasePhase
  <2> QED BY <2>3, <2>4
<1>7. TodoLanded(p)'
  BY <1>1 DEF TodoLanded, WriteLoop
<1> QED BY <1>1, <1>2, <1>6, <1>7 DEF Memory, Landing, VersionSettled, LeasePhase

\* What the inspection found applied is what is to be marked.
LEMMA GuardMemory ==
  ASSUME IInv, NEW p \in Proposal, Memory(p), InspectDone(p) \/ Guard(p) \/ Begin(p)
  PROVE  Memory(p)'
<1> USE Before
<1>0. UNCHANGED <<plan, landed>> /\ pc[p] \in {"inspect", "guard", "begin"}
  BY DEF InspectDone, Guard, Begin, KnowledgeStale, At, durable, history
<1>1. CASE UNCHANGED job /\ pc'[p] = "release"
  BY <1>0, <1>1, StoppedMemory DEF LeasePhase
<1>2. CASE InspectDone(p) /\ pc'[p] # "release"
  <2>1. pc'[p] = "guard" /\ job' = [job EXCEPT ![p].todo = SeenApplied(p)]
    BY <1>2 DEF InspectDone, Goto
  <2>2. /\ job'[p].todo = SeenApplied(p)
        /\ job'[p].seen = job[p].seen /\ job'[p].version = job[p].version
    BY <2>1, TodoKeeps
  <2>3. SeenApplied(p)' = SeenApplied(p)
    BY <1>0, <2>2, SamePlan DEF SeenApplied
  <2>4. TodoLanded(p)'
    BY <2>1, <2>2, <2>3 DEF TodoLanded, WriteLoop
  <2> QED BY <1>0, <2>1, <2>2, <2>4, RunningMemory DEF LeasePhase
<1>3. CASE (Guard(p) \/ Begin(p)) /\ pc'[p] # "release"
  <2>1. /\ pc[p] \in {"guard", "begin"} /\ pc'[p] \in {"begin", "reconcile"}
        /\ UNCHANGED job
    BY <1>3 DEF Guard, Begin, KnowledgeStale, At, Goto
  <2>2. SeenApplied(p)' = SeenApplied(p)
    BY <1>0, <2>1, SamePlan DEF SeenApplied
  <2>3. TodoLanded(p)'
    BY <2>1, <2>2 DEF Memory, TodoLanded, WriteLoop
  <2> QED BY <1>0, <2>1, <2>3, RunningMemory DEF LeasePhase
<1>4. (InspectDone(p) \/ Guard(p) \/ Begin(p)) /\ pc'[p] = "release" => UNCHANGED job
  BY DEF InspectDone, Guard, Begin, KnowledgeStale, Goto
<1> QED BY <1>1, <1>2, <1>3, <1>4

\* What is left to write once the rest is marked has the others landed.
LEMMA ReconcileMemory ==
  ASSUME IInv, NEW p \in Proposal, Memory(p), Reconcile(p) \/ Reset(p)
  PROVE  Memory(p)'
<1> USE Before
<1>0. UNCHANGED <<plan, landed>> /\ pc[p] = "reconcile"
  BY DEF Reconcile, Reset, At, history
<1>1. CASE Reconcile(p)
  <2>1. PICK o \in Op : job' = [job EXCEPT ![p].todo = job[p].todo \ {o}]
    BY <1>1 DEF Reconcile
  <2>2. /\ job'[p].todo = job[p].todo \ {o} /\ pc'[p] = "reconcile"
        /\ job'[p].seen = job[p].seen /\ job'[p].version = job[p].version
    BY <1>0, <1>1, <2>1, TodoKeeps DEF Reconcile
  <2>3. SeenApplied(p)' = SeenApplied(p)
    BY <1>0, <2>2, SamePlan DEF SeenApplied
  <2>4. TodoLanded(p)'
    BY <1>0, <2>2, <2>3 DEF Memory, TodoLanded, WriteLoop
  <2> QED BY <1>0, <2>2, <2>4, RunningMemory DEF LeasePhase
<1>2. CASE Reset(p) /\ UNCHANGED job /\ pc'[p] = "release"
  BY <1>0, <1>2, StoppedMemory DEF LeasePhase
<1>3. CASE Reset(p) /\ ~(UNCHANGED job /\ pc'[p] = "release")
  <2> DEFINE rest == WriteOps(p) \ SeenApplied(p)
  <2>1. /\ job' = [job EXCEPT ![p].todo = rest]
        /\ pc'[p] = IF rest = {} THEN "final" ELSE "recheck"
    BY <1>3 DEF Reset, Goto
  <2>2. /\ job'[p].todo = rest
        /\ job'[p].seen = job[p].seen /\ job'[p].version = job[p].version
    BY <2>1, TodoKeeps
  <2>3. \A o : HasLanded(p, o)' <=> HasLanded(p, o)
    BY <1>0, SamePlan DEF HasLanded, Reached
  <2>4. \A o \in WriteOps(p) \ rest : HasLanded(p, o)
    BY <1>0, SeenInScope DEF Memory, SeenLanded, LeasePhase
  <2>5. TodoLanded(p)'
    BY <1>0, <2>1, <2>2, <2>3, <2>4, SamePlan DEF TodoLanded, WriteLoop
  <2> QED BY <1>0, <2>1, <2>2, <2>5, RunningMemory DEF LeasePhase
<1> QED BY <1>1, <1>2, <1>3

\* The write loop: what was sent has landed.
LEMMA LoopMemory ==
  ASSUME IInv, NEW p \in Proposal, Memory(p),
         \/ Recheck(p) \/ Preflight(p) \/ Patch(p) \/ PatchUnanswered(p)
         \/ Fail(p) \/ Final(p) \/ Commit(p)
  PROVE  Memory(p)'
<1> USE Before
<1>1. UNCHANGED <<plan, job>> /\ landed \subseteq landed'
  BY LandedGrows DEF Recheck, Preflight, Patch, PatchUnanswered, Fail, Final, Commit, durable,
     Step
<1>2. \/ <<pc[p], pc'[p]>> \in {<<"recheck", "failing">>, <<"preflight", "failing">>,
           <<"patch", "failing">>, <<"final", "fail">>, <<"fail", "release">>,
           <<"commit", "release">>}
      \/ <<pc[p], pc'[p]>> \in {<<"recheck", "preflight">>, <<"preflight", "patch">>,
           <<"final", "commit">>}
      \/ <<pc[p], pc'[p]>> = <<"patch", "record">> /\ Patch(p)
  BY DEF Recheck, Preflight, Patch, PatchUnanswered, Fail, Final, Commit, At, Goto
<1>3. \A o : HasLanded(p, o) => HasLanded(p, o)'
  BY <1>1, SamePlan DEF HasLanded, Reached
<1>4. CASE <<pc[p], pc'[p]>> \in {<<"recheck", "failing">>, <<"preflight", "failing">>,
             <<"patch", "failing">>, <<"final", "fail">>, <<"fail", "release">>,
             <<"commit", "release">>}
  <2>1. /\ pc[p] \in LeasePhase \ {"verify", "release"}
        /\ pc'[p] \in {"failing", "fail", "release"}
    BY <1>4 DEF LeasePhase
  <2> QED BY <1>1, <2>1, StoppedMemory DEF LeasePhase
<1>5. CASE <<pc[p], pc'[p]>> \in {<<"recheck", "preflight">>, <<"preflight", "patch">>,
             <<"final", "commit">>}
  <2>1. TodoLanded(p)'
    BY <1>1, <1>3, <1>5, SamePlan DEF Memory, TodoLanded, WriteLoop
  <2> QED BY <1>1, <1>5, <2>1, RunningMemory DEF LeasePhase
<1>6. CASE <<pc[p], pc'[p]>> = <<"patch", "record">> /\ Patch(p)
  <2>1. PICK o \in Op : TakeEffect(p, o)
    BY <1>6 DEF Patch
  <2>2. HasLanded(p, o)'
    BY <1>1, <2>1, SamePlan, ApprovedType DEF TakeEffect, HasLanded, Reached
  <2>3. \A u \in Op : First(p, u)' => HasLanded(p, u)'
    <3> SUFFICES ASSUME NEW u \in Op, First(p, u)' PROVE HasLanded(p, u)'
      OBVIOUS
    <3>1. First(p, u) /\ First(p, o)
      BY <1>1, <2>1 DEF First, TakeEffect
    <3>2. u = o
      BY <3>1, OneFirst DEF IInv
    <3> QED BY <2>2, <3>2
  <2>4. TodoLanded(p)'
    BY <1>1, <1>3, <1>6, <2>3, SamePlan DEF Memory, TodoLanded, WriteLoop
  <2> QED BY <1>1, <1>6, <2>4, RunningMemory DEF LeasePhase
<1> QED BY <1>2, <1>4, <1>5, <1>6

\* What was sent is taken off the list; a failed run says nothing more.
LEMMA RecordMemory ==
  ASSUME IInv, NEW p \in Proposal, Memory(p), Record(p) \/ Failing(p) \/ Block(p)
  PROVE  Memory(p)'
<1> USE Before
<1>0. UNCHANGED <<plan, landed>>
  BY DEF Record, Failing, Block, history
<1>1. PICK o \in Op : /\ First(p, o)
                      /\ job' = [job EXCEPT ![p].todo = job[p].todo \ {o}]
                      /\ Record(p) => /\ pc[p] = "record"
                                      /\ pc'[p] = IF job[p].todo = {o} THEN "final"
                                                                     ELSE "recheck"
                      /\ ~Record(p) => pc[p] \in {"failing", "fail"} /\ pc'[p] = "fail"
  BY DEF Record, Failing, Block, At, Goto
<1>2. /\ job'[p].todo = job[p].todo \ {o}
      /\ job'[p].seen = job[p].seen /\ job'[p].version = job[p].version
  BY <1>1, TodoKeeps
<1>3. CASE ~Record(p)
  BY <1>0, <1>1, <1>2, <1>3, StoppedMemory DEF LeasePhase
<1>4. CASE Record(p)
  <2>1. \A u : HasLanded(p, u)' <=> HasLanded(p, u)
    BY <1>0, SamePlan DEF HasLanded, Reached
  <2>2. \A u \in WriteOps(p) \ job'[p].todo : HasLanded(p, u)
    BY <1>1, <1>2, <1>4 DEF Memory, TodoLanded, WriteLoop
  <2>3. TodoLanded(p)'
    BY <1>0, <1>1, <1>2, <1>4, <2>1, <2>2, SamePlan DEF TodoLanded, WriteLoop
  <2> QED BY <1>0, <1>1, <1>2, <1>4, <2>3, RunningMemory DEF LeasePhase
<1> QED BY <1>3, <1>4

\* /nx_recover marks what it found in Notion.
LEMMA RecoverMemory ==
  ASSUME IInv, NEW p \in Proposal, Memory(p), Recover(p) \/ RecoverMark(p)
  PROVE  Memory(p)'
<1> USE Before
<1>1. CASE Recover(p)
  <2> DEFINE undone == {o \in WriteOps(p) :
                          ~(outbox[o] # None /\ outbox[o].status = "done")}
             S      == {o \in undone : Inspection(p, o) = "applied"}
  <2>1. /\ UNCHANGED plan /\ pc'[p] = "recover"
        /\ job' = [job EXCEPT ![p].todo = S] /\ landed' = landed \cup Seen(p, undone)
    BY <1>1 DEF Recover, Goto, durable
  <2>2. job'[p].todo = S
    BY <2>1, TodoKeeps
  <2>3. \A o \in S : <<o, Approved(p, o)>> \in Seen(p, undone)
    BY DEF Seen, Inspection
  <2>4. \A o \in S : o \in WriteOps(p)' /\ HasLanded(p, o)'
    BY <2>1, <2>3, SamePlan, ScopeType, ApprovedType DEF HasLanded, Reached
  <2> HIDE DEF S, undone
  <2> QED BY <2>1, <2>2, <2>4 DEF Memory, SeenLanded, TodoLanded, VersionSettled, LeasePhase,
                WriteLoop
<1>2. CASE RecoverMark(p)
  <2>1. PICK o \in Op : job' = [job EXCEPT ![p].todo = job[p].todo \ {o}]
    BY <1>2 DEF RecoverMark
  <2>2. /\ UNCHANGED <<plan, landed, pc>> /\ pc[p] = "recover"
        /\ job'[p].todo \subseteq job[p].todo
    BY <1>2, <2>1, TodoKeeps DEF RecoverMark, At, history
  <2>3. \A u : HasLanded(p, u)' <=> HasLanded(p, u)
    BY <2>2, SamePlan DEF HasLanded, Reached
  <2> QED BY <2>2, <2>3, SamePlan DEF Memory, SeenLanded, TodoLanded, VersionSettled,
                LeasePhase, WriteLoop
<1> QED BY <1>1, <1>2

\* A step that raises ends the run or the command.
LEMMA RaisesMemory ==
  ASSUME IInv, NEW p \in Proposal, Memory(p), StepRaises(p)
  PROVE  Memory(p)'
<1> USE Before
<1>0. UNCHANGED <<plan, landed>>
  BY DEF StepRaises, durable, history
<1>1. CASE pc[p] \in {"recheck", "preflight", "patch", "record"}
  <2>1. pc'[p] = "failing" /\ UNCHANGED job
    BY <1>1 DEF StepRaises, Goto
  <2> QED BY <1>0, <1>1, <2>1, StoppedMemory DEF LeasePhase
<1>2. CASE pc[p] \notin {"recheck", "preflight", "patch", "record"} /\ held[p] # None
  <2>1. pc'[p] = "release" /\ UNCHANGED job /\ pc[p] \in LeasePhase
    BY <1>2 DEF StepRaises, Goto, Thread, HoldsInPhase
  <2> QED BY <1>0, <2>1, StoppedMemory
<1>3. CASE pc[p] \notin {"recheck", "preflight", "patch", "record"} /\ held[p] = None
  <2>1. pc'[p] = "idle"
    BY <1>3 DEF StepRaises, Goto
  <2> QED BY <2>1, OutsideMemory
<1> QED BY <1>1, <1>2, <1>3

\* Every step of a thread keeps what its memory says of Notion.
LEMMA MemoryStep ==
  ASSUME IInv, NEW p \in Proposal, Landing(p), DoneMeansLanded,
         Step(p) \/ Command(p) \/ StepRaises(p) \/ PatchUnanswered(p)
  PROVE  Memory(p)'
<1> USE Before
<1>0. Memory(p)
  BY DEF Landing, Memory
<1>1. ASSUME AcquireLease(p) PROVE Memory(p)'
  <2>1. UNCHANGED <<plan, landed, job>> /\ pc[p] = "acquire" /\ pc'[p] = "verify"
    BY <1>1 DEF AcquireLease, At, Goto, durable, history
  <2> QED BY <1>0, <2>1, StoppedMemory
<1>2. ASSUME Release(p) \/ LeaseRefused(p) \/ RequestApproval(p) \/ RecoverRevise(p)
             \/ Approve(p) \/ Redeliver(p) \/ Reject(p)
      PROVE  Memory(p)'
  <2>1. pc'[p] \in {"idle", "capture", "request"}
    BY <1>2 DEF Release, LeaseRefused, RequestApproval, RecoverRevise, NewRevision, Approve,
       Redeliver, Reject, At, Goto
  <2> QED BY <2>1, OutsideMemory
<1>3. ASSUME NEW o, NEW a, Set(p, o, a) PROVE Memory(p)'
  <2>1. pc'[p] = "request"
    BY <1>3 DEF Set, NewRevision, Goto
  <2> QED BY <2>1, OutsideMemory
<1> HIDE Before
<1> QED
  BY <1>0, <1>1, <1>2, <1>3, CaptureMemory, VerifyMemory, InspectMemory, GuardMemory,
     ReconcileMemory, LoopMemory, RecordMemory, RecoverMemory, RaisesMemory
  DEF Step, Command

-----------------------------------------------------------------------------
(* What a step leaves of the rows.                                            *)

\* Begin makes rows; every other step marks some, done only what has landed.
RowMove(p) ==
  \/ UNCHANGED outbox
  \/ Begin(p)
  \/ \E S \in SUBSET Op, s \in {"pending", "done", "failed", "blocked"} :
       /\ outbox' = Mark(outbox, S, s)
       /\ s = "done" => /\ StatusOf(p) \in {"APPLYING", "FAILED"}
                        /\ \A o \in S : o \in WriteOps(p) /\ HasLanded(p, o)

\* Every step of a thread makes one of these moves.
LEMMA RowMoves ==
  ASSUME IInv, NEW p \in Proposal, Landing(p),
         Step(p) \/ Command(p) \/ StepRaises(p) \/ PatchUnanswered(p)
  PROVE  RowMove(p)
<1> USE Before DEF RowMove
<1>1. ASSUME \/ Reconcile(p) \/ Record(p) \/ RecoverMark(p)
             \/ Reset(p) \/ Failing(p) \/ Block(p)
      PROVE  RowMove(p)
  <2>1. CASE Reconcile(p)
    <3>1. PICK o \in Op :
            First(p, o) /\ outbox' = Mark(outbox, IF DoneRow(p, o) THEN {} ELSE {o}, "done")
      BY <2>1 DEF Reconcile
    <3>2. pc[p] = "reconcile" /\ StatusOf(p) = "APPLYING"
      BY <2>1 DEF Reconcile, At, Thread, StatusInPhase, WriteLoop
    <3>3. o \in WriteOps(p) /\ HasLanded(p, o)
      BY <3>1, <3>2, SeenInScope DEF First, Landing, TodoLanded, SeenLanded, LeasePhase
    <3> QED BY <3>1, <3>2, <3>3
  <2>2. CASE Record(p)
    <3>1. PICK o \in Op : First(p, o) /\ outbox' = Mark(outbox, {o}, "done")
      BY <2>2 DEF Record
    <3>2. pc[p] = "record" /\ StatusOf(p) = "APPLYING"
      BY <2>2 DEF Record, At, Thread, StatusInPhase, WriteLoop
    <3>3. o \in WriteOps(p) /\ HasLanded(p, o)
      BY <3>1, <3>2 DEF First, Landing, TodoLanded, Thread, ScopeInPhase, LeasePhase
    <3> QED BY <3>1, <3>2, <3>3
  <2>3. CASE RecoverMark(p)
    <3>1. PICK o \in Op : First(p, o) /\ outbox' = Mark(outbox, {o}, "done")
      BY <2>3 DEF RecoverMark
    <3>2. pc[p] = "recover" /\ StatusOf(p) = "FAILED"
      BY <2>3 DEF RecoverMark, At, Thread, StatusInPhase
    <3>3. o \in WriteOps(p) /\ HasLanded(p, o)
      BY <3>1, <3>2 DEF First, Landing, TodoLanded
    <3> QED BY <3>1, <3>2, <3>3
  <2>4. CASE Reset(p)
    <3>1. WriteOps(p) \ SeenApplied(p) \in SUBSET Op
      BY ScopeType
    <3> QED BY <2>4, <3>1 DEF Reset
  <2>5. CASE Failing(p) \/ Block(p)
    BY <2>5 DEF Failing, Block
  <2> QED BY <1>1, <2>1, <2>2, <2>3, <2>4, <2>5
<1>2. ASSUME ~ \/ Begin(p) \/ Reconcile(p) \/ Record(p) \/ RecoverMark(p)
               \/ Reset(p) \/ Failing(p) \/ Block(p)
      PROVE  UNCHANGED outbox
  BY <1>2 DEF Step, Command, Capture, LeaseRefused, AcquireLease, VerifyFails, Verify,
     KnowledgeStale, Inspect, InspectDone, Guard, Recheck, Preflight, Patch,
     PatchUnanswered, Fail, Final, Commit, Release, RequestApproval, RecoverRevise,
     Approve, Redeliver, Reject, Recover, Set, StepRaises, durable
<1> QED BY <1>1, <1>2

\* What a row says apart from its status.
KeepsRow(o) ==
  outbox[o] # None =>
    /\ outbox'[o] # None /\ outbox'[o].proposal = outbox[o].proposal
    /\ outbox'[o].revision = outbox[o].revision /\ outbox'[o].value = outbox[o].value

\* A step keeps the rows, except that Begin writes those of its own scope.
LEMMA RowsKept ==
  ASSUME IInv, NEW p \in Proposal, RowMove(p), NEW o \in Op, Begin(p) => o \notin WriteOps(p)
  PROVE  KeepsRow(o)
<1>1. outbox \in RowsType
  BY DEF IInv, TypeOK, RowsType
<1>2. CASE \E S \in SUBSET Op, s \in {"pending", "done", "failed", "blocked"} :
             outbox' = Mark(outbox, S, s)
  BY <1>1, <1>2, MarkKeeps DEF KeepsRow
<1>3. CASE Begin(p)
  BY <1>3 DEF Begin, KeepsRow
<1> QED BY <1>2, <1>3 DEF RowMove, KeepsRow

\* A row is done only if its value has landed, after every step of a thread.
LEMMA DoneStep ==
  ASSUME IInv, NEW p \in Proposal, Landing(p), DoneMeansLanded, RowMove(p),
         landed \subseteq landed'
  PROVE  DoneMeansLanded'
<1> SUFFICES ASSUME NEW o \in Op, outbox'[o] # None, outbox'[o].status = "done"
             PROVE  Reached(o, outbox[o].value)'
  BY DEF DoneMeansLanded
<1>1. outbox \in RowsType
  BY DEF IInv, TypeOK, RowsType
<1>2. CASE UNCHANGED outbox
  BY <1>2 DEF DoneMeansLanded, Reached
<1>3. CASE Begin(p)
  <2>1. o \notin WriteOps(p) /\ outbox'[o] = outbox[o]
    BY <1>3 DEF Begin
  <2> QED BY <2>1 DEF DoneMeansLanded, Reached
<1>4. ASSUME NEW S \in SUBSET Op, NEW s \in {"pending", "done", "failed", "blocked"},
             outbox' = Mark(outbox, S, s),
             s = "done" => /\ StatusOf(p) \in {"APPLYING", "FAILED"}
                           /\ \A u \in S : u \in WriteOps(p) /\ HasLanded(p, u)
      PROVE  Reached(o, outbox[o].value)'
  <2>1. outbox[o] # None /\ outbox'[o].value = outbox[o].value
        /\ outbox'[o].status = IF o \in S THEN s ELSE outbox[o].status
    BY <1>1, <1>4, MarkKeeps
  <2>2. CASE o \in S
    <3>1. s = "done" /\ o \in WriteOps(p) /\ HasLanded(p, o)
      BY <1>4, <2>1, <2>2
    <3>2. ~Shared(o) => outbox[o].value = Approved(p, o)
      BY <1>4, <3>1 DEF Landing, RowsInScope
    <3> QED BY <2>1, <3>1, <3>2 DEF HasLanded, Reached
  <2>3. CASE o \notin S
    BY <2>1, <2>3 DEF DoneMeansLanded, Reached
  <2> QED BY <2>2, <2>3
<1> QED BY <1>2, <1>3, <1>4 DEF RowMove

\* Nothing else brings a proposal to APPLYING.
LEMMA OnlyBeginStarts ==
  ASSUME IInv, NEW p \in Proposal, ~Begin(p), StatusOf(p)' = "APPLYING",
         Step(p) \/ Command(p) \/ StepRaises(p) \/ PatchUnanswered(p)
  PROVE  StatusOf(p) = "APPLYING"
<1> USE Before DEF StatusOf, HeadType
<1>1. ASSUME NEW s, SetStatus(p, s), s # "APPLYING" PROVE FALSE
  BY <1>1 DEF SetStatus
<1>2. ASSUME UNCHANGED head PROVE StatusOf(p) = "APPLYING"
  BY <1>2
<1>3. ~NewRevision(p)
  BY DEF NewRevision
<1>4. ~ \E b : KnowledgeStale(p, b)
  BY <1>1 DEF KnowledgeStale
<1>5. ~(Fail(p) \/ Commit(p) \/ Approve(p) \/ RequestApproval(p) \/ Reject(p)
        \/ RecoverRevise(p) \/ \E o, a : Set(p, o, a))
  BY <1>1, <1>3 DEF Fail, Commit, Approve, RequestApproval, Reject, RecoverRevise, Set
<1>6. InspectDone(p) \/ Recheck(p) => UNCHANGED head
  BY <1>1 DEF InspectDone, Recheck
<1> HIDE DEF StatusOf, HeadType
<1> QED BY <1>2, <1>4, <1>5, <1>6
  DEF Step, Command, Capture, LeaseRefused, AcquireLease, VerifyFails, Verify, Inspect, Guard,
      Reconcile, Reset, Preflight, Patch, PatchUnanswered, Record, Failing, Block, Final,
      Release, RecoverMark, Redeliver, Recover, StepRaises

\* The rows of an apply that has begun stay those of its revision.
LEMMA RowsStep ==
  ASSUME IInv, NEW p \in Proposal, RowsInScope(p), RowMove(p),
         Step(p) \/ Command(p) \/ StepRaises(p) \/ PatchUnanswered(p)
  PROVE  RowsInScope(p)'
<1> USE Before
<1> SUFFICES ASSUME StatusOf(p)' \in {"APPLYING", "FAILED"}, NEW o \in WriteOps(p)', ~Shared(o)
             PROVE  OwnRow(p, o)' /\ outbox'[o].value = Approved(p, o)'
  BY DEF RowsInScope
<1>1. CASE Begin(p)
  <2>1. /\ UNCHANGED plan /\ head'[p].revision = head[p].revision
        /\ outbox' = [u \in Op |->
              IF u \in WriteOps(p)
              THEN [proposal |-> p, revision |-> head[p].revision,
                    value |-> Approved(p, u), status |-> "pending"]
              ELSE outbox[u]]
    BY <1>1 DEF Begin, SetStatus, HeadType
  <2>2. o \in WriteOps(p) /\ o \in Op /\ Approved(p, o)' = Approved(p, o)
    BY <2>1, SamePlan, ScopeType
  <2>3. outbox'[o] = [proposal |-> p, revision |-> head[p].revision,
                      value |-> Approved(p, o), status |-> "pending"]
    BY <2>1, <2>2
  <2>4. outbox'[o] \in OutboxRow
    BY <2>2, <2>3, ApprovedType DEF OutboxRow, HeadType
  <2> QED BY <2>1, <2>2, <2>3, <2>4, ProposalApplyAssumption DEF OwnRow
<1>2. CASE ~Begin(p)
  <2>1. /\ StatusOf(p) \in {"APPLYING", "FAILED"}
        /\ head'[p].revision = head[p].revision
        /\ ~NewRevision(p)
    <3>1. HeadMove(p)
      BY HeadMoves
    <3>2. NewRevision(p) => StatusOf(p)' = "DRAFT"
      BY DEF NewRevision, StatusOf, HeadType
    <3>3. StatusOf(p)' = "APPLYING" => StatusOf(p) = "APPLYING"
      BY <1>2, OnlyBeginStarts
    <3> QED BY <3>1, <3>2, <3>3 DEF HeadMove, SetStatus, StatusOf, HeadType,
                LeaseProtocol!ApplyMove
  <2>2. UNCHANGED plan
    BY <2>1 DEF Step, Command, Capture, LeaseRefused, AcquireLease, VerifyFails, Verify,
     KnowledgeStale, Inspect, InspectDone, Guard, Begin, Reconcile, Reset, Recheck,
     Preflight, Patch, PatchUnanswered, Record, Failing, Block, Fail, Final,
     Commit, Release, RequestApproval, RecoverMark, RecoverRevise, Approve, Redeliver,
     Reject, Recover, Set, StepRaises, durable
  <2>3. o \in WriteOps(p) /\ o \in Op /\ Approved(p, o)' = Approved(p, o)
    BY <2>2, SamePlan, ScopeType
  <2>4. KeepsRow(o)
    BY <1>2, <2>3, RowsKept
  <2> QED BY <2>1, <2>3, <2>4 DEF RowsInScope, OwnRow, KeepsRow
<1> QED BY <1>1, <1>2

-----------------------------------------------------------------------------
(* What a step leaves of the user's decisions.                                *)

\* A step leaves the plan and the decisions, or is /nx_set, or takes what is
\* done out of the scope.
PlanMove(p) ==
  \/ UNCHANGED <<plan, decision>>
  \/ \E o \in OpsOf[p], a \in Action :
       plan' = [plan EXCEPT ![p][o] = a] /\ decision' = [decision EXCEPT ![p][o] = a]
  \/ RecoverRevise(p)

\* Every step of a thread makes one of these moves.
LEMMA PlanMoves ==
  ASSUME NEW p \in Proposal, Step(p) \/ Command(p) \/ StepRaises(p) \/ PatchUnanswered(p)
  PROVE  PlanMove(p)
<1>1. ASSUME NEW o \in OpsOf[p], NEW a \in Decisions, Set(p, o, a) PROVE PlanMove(p)
  BY <1>1, ProposalApplyAssumption DEF Set, PlanMove
<1>2. ASSUME ~RecoverRevise(p), ~ \E o \in OpsOf[p], a \in Decisions : Set(p, o, a)
      PROVE  UNCHANGED <<plan, decision>>
  BY <1>2 DEF Step, Command, Capture, LeaseRefused, AcquireLease, VerifyFails, Verify,
     KnowledgeStale, Inspect, InspectDone, Guard, Begin, Reconcile, Reset, Recheck,
     Preflight, Patch, PatchUnanswered, Record, Failing, Block, Fail, Final, Commit, Release,
     RequestApproval, RecoverMark, Approve, Redeliver, Reject, Recover, StepRaises, durable
<1> QED BY <1>1, <1>2 DEF PlanMove

\* What is in the scope stays what the user decided.
LEMMA DecisionStep ==
  ASSUME IInv, NEW p \in Proposal, PlanMove(p), NEW q \in Proposal, DecisionKept(q)
  PROVE  DecisionKept(q)'
<1>0. /\ DOMAIN plan = Proposal /\ DOMAIN plan[q] = OpsOf[q]
      /\ DOMAIN decision = Proposal /\ DOMAIN decision[q] = OpsOf[q]
  BY DEF IInv, TypeOK
<1>1. CASE UNCHANGED <<plan, decision>>
  BY <1>1 DEF DecisionKept
<1>2. CASE \E o \in OpsOf[p], a \in Action :
             plan' = [plan EXCEPT ![p][o] = a] /\ decision' = [decision EXCEPT ![p][o] = a]
  BY <1>0, <1>2 DEF DecisionKept
<1>3. CASE RecoverRevise(p)
  BY <1>0, <1>3 DEF RecoverRevise, DecisionKept, Writes
<1> QED BY <1>1, <1>2, <1>3 DEF PlanMove

\* What /nx_recover takes out of the scope has a done row of the revision that
\* failed, so the value decided on has landed.
LEMMA RecoveryStep ==
  ASSUME IInv, NEW p \in Proposal, Landing(p), DoneMeansLanded, RecoveryDropsOnlyLanded,
         PlanMove(p), landed \subseteq landed'
  PROVE  RecoveryDropsOnlyLanded'
<1> SUFFICES ASSUME NEW q \in Proposal, NEW o \in OpsOf[q],
                    decision'[q][o] \in Writes, plan'[q][o] \notin Writes
             PROVE  Reached(o, Decided(q, o))'
  BY DEF RecoveryDropsOnlyLanded
<1>0. /\ DOMAIN plan = Proposal /\ DOMAIN plan[q] = OpsOf[q]
      /\ DOMAIN decision = Proposal /\ DOMAIN decision[q] = OpsOf[q]
      /\ o \in Op
  BY ScopeType DEF IInv, TypeOK
<1>1. ASSUME decision'[q][o] = decision[q][o], plan[q][o] \notin Writes
      PROVE  Reached(o, Decided(q, o))'
  BY <1>0, <1>1 DEF RecoveryDropsOnlyLanded, Decided, Reached
<1>2. CASE UNCHANGED <<plan, decision>>
  BY <1>1, <1>2
<1>3. CASE \E u \in OpsOf[p], a \in Action :
             plan' = [plan EXCEPT ![p][u] = a] /\ decision' = [decision EXCEPT ![p][u] = a]
  BY <1>0, <1>1, <1>3
<1>4. CASE RecoverRevise(p)
  <2>1. /\ UNCHANGED decision
        /\ plan' = [plan EXCEPT ![p] = [u \in OpsOf[p] |->
              IF @[u] \in Writes /\ outbox[u] # None /\ outbox[u].status = "done"
              THEN "EXCLUDE" ELSE @[u]]]
    BY <1>4 DEF RecoverRevise
  <2>2. CASE plan[q][o] \in Writes
    <3>1. q = p /\ outbox[o] # None /\ outbox[o].status = "done"
      BY <1>0, <2>1, <2>2
    <3>2. StatusOf(p) = "FAILED" /\ o \in WriteOps(p)
      BY <1>4, <2>2, <3>1, Before DEF RecoverRevise, At, Thread, StatusInPhase, WriteOps
    <3>3. ~Shared(o) => outbox[o].value = Approved(p, o)
      BY <3>2 DEF Landing, RowsInScope
    <3>4. decision[p][o] = plan[p][o]
      BY <2>2, <3>1 DEF Landing, DecisionKept
    <3>5. Decided(q, o)' = Approved(p, o)
      BY <2>1, <3>1, <3>4 DEF Decided, Approved
    <3> QED BY <1>0, <3>1, <3>3, <3>5 DEF DoneMeansLanded, Reached
  <2>3. CASE plan[q][o] \notin Writes
    BY <1>1, <2>1, <2>3
  <2> QED BY <2>2, <2>3
<1> QED BY <1>2, <1>3, <1>4 DEF PlanMove

-----------------------------------------------------------------------------
(* The other threads, the disturbances and the whole invariant.               *)

\* A thread's step leaves what the others rely on: the rows it writes are of its
\* own operations, or of shared ones.
LEMMA OtherLanding ==
  ASSUME IInv, NEW p \in Proposal, Landing(p),
         Step(p) \/ Command(p) \/ StepRaises(p) \/ PatchUnanswered(p),
         NEW q \in Proposal, q # p, Landing(q)
  PROVE  Landing(q)'
<1>1. Same(q) /\ landed \subseteq landed'
  BY StepSame, LandedGrows DEF IInv
<1>2. Memory(q)'
  BY <1>1, MemoryKept DEF Landing, Memory, Same
<1>3. \A o \in WriteOps(q) : ~Shared(o) => o \in Op /\ KeepsRow(o)
  BY RowMoves, RowsKept, ScopeType DEF Shared, WriteOps
<1>4. RowsInScope(q)'
  BY <1>1, <1>3, SamePlan DEF Same, Landing, RowsInScope, OwnRow, KeepsRow, StatusOf
<1>5. DecisionKept(q)'
  BY PlanMoves, DecisionStep DEF Landing
<1> QED BY <1>2, <1>4, <1>5 DEF Landing, Memory

\* A thread's step keeps the invariant.
LEMMA ThreadLanded ==
  ASSUME IInv, Landed, NEW p \in Proposal,
         Step(p) \/ Command(p) \/ StepRaises(p) \/ PatchUnanswered(p)
  PROVE  Landed'
<1>1. DoneMeansLanded' /\ RecoveryDropsOnlyLanded'
  BY RowMoves, PlanMoves, LandedGrows, DoneStep, RecoveryStep DEF Landed
<1>2. Landing(p)'
  <2>1. Memory(p)'
    BY MemoryStep DEF Landed
  <2>2. RowsInScope(p)' /\ DecisionKept(p)'
    BY RowMoves, RowsStep, PlanMoves, DecisionStep DEF Landed, Landing
  <2> QED BY <2>1, <2>2 DEF Landing, Memory
<1>3. \A q \in Proposal : q # p => Landing(q)'
  BY OtherLanding DEF Landed
<1> QED BY <1>1, <1>2, <1>3 DEF Landed

\* So does a disturbance.
LEMMA WorldLanded ==
  ASSUME IInv, Landed,
         \/ GatewayDies \/ WikiMoves
         \/ \E pid \in Pid : GatewayStarts(pid)
         \/ \E k \in Key, v \in Value : NotionEdited(k, v)
         \/ \E v \in Version : SourceMoves(v)
         \/ \E p \in Proposal : TimePasses(p)
  PROVE  Landed'
<1>1. UNCHANGED <<head, plan, outbox, landed, decision>>
  BY DEF GatewayDies, GatewayStarts, NotionEdited, SourceMoves, WikiMoves, TimePasses,
         durable, history
<1>2. DoneMeansLanded' /\ RecoveryDropsOnlyLanded'
  BY <1>1 DEF Landed, DoneMeansLanded, RecoveryDropsOnlyLanded, Decided, Reached
<1>3. ASSUME NEW p \in Proposal PROVE Landing(p)'
  <2>1. RowsInScope(p)' /\ DecisionKept(p)'
    BY <1>1, SamePlan DEF Landed, Landing, RowsInScope, DecisionKept, OwnRow, StatusOf
  <2>2. CASE GatewayDies
    <3>1. pc'[p] = "idle"
      BY <2>2 DEF GatewayDies
    <3> QED BY <2>1, <3>1, OutsideMemory DEF Landing, Memory
  <2>3. CASE ~GatewayDies
    <3>1. UNCHANGED <<pc, job>>
      BY <2>3 DEF GatewayStarts, NotionEdited, SourceMoves, WikiMoves, TimePasses
    <3> QED BY <1>1, <2>1, <3>1, MemoryKept DEF Landed, Landing, Memory
  <2> QED BY <2>2, <2>3
<1> QED BY <1>2, <1>3 DEF Landed

\* So does every step.
LEMMA LandedStep == IInv /\ Landed /\ [Next]_vars => Landed'
<1> SUFFICES ASSUME IInv, Landed, [Next]_vars PROVE Landed'
  OBVIOUS
<1>1. CASE UNCHANGED vars
  <2>1. UNCHANGED <<head, plan, outbox, landed, decision, pc, job>>
    BY <1>1 DEF vars, durable, history
  <2>2. DoneMeansLanded' /\ RecoveryDropsOnlyLanded'
    BY <2>1 DEF Landed, DoneMeansLanded, RecoveryDropsOnlyLanded, Decided, Reached
  <2>3. ASSUME NEW p \in Proposal PROVE Landing(p)'
    <3>1. RowsInScope(p)' /\ DecisionKept(p)'
      BY <2>1, SamePlan DEF Landed, Landing, RowsInScope, DecisionKept, OwnRow, StatusOf
    <3> QED BY <2>1, <3>1, MemoryKept DEF Landed, Landing, Memory
  <2> QED BY <2>2, <2>3 DEF Landed
<1> QED BY <1>1, ThreadLanded, WorldLanded DEF Next, World

\* It holds of the initial states.
LEMMA LandedInit == Init => Landed
<1> SUFFICES ASSUME Init PROVE Landed
  OBVIOUS
<1>1. DoneMeansLanded
  BY DEF Init, DoneMeansLanded
<1>2. RecoveryDropsOnlyLanded
  BY DEF Init, RecoveryDropsOnlyLanded, Writes
<1>3. ASSUME NEW p \in Proposal PROVE Landing(p)
  BY DEF Init, Landing, RowsInScope, SeenLanded, TodoLanded, VersionSettled, DecisionKept,
         StatusOf, LeasePhase, WriteLoop
<1> QED BY <1>1, <1>2, <1>3 DEF Landed

\* It is an invariant.
LEMMA LandedAlways == Spec => [](IInv /\ Landed)
<1>1. Init => IInv /\ Landed
  BY TypeInit, ControlInit, LandedInit DEF IInv
<1>2. IInv /\ Landed /\ [Next]_vars => (IInv /\ Landed)'
  BY TypeStep, ControlStep, LandedStep DEF IInv
<1> QED BY <1>1, <1>2, PTL DEF Spec

\* However an apply is interrupted, resumed or recovered, an outbox row is done
\* only if its value reached Notion.
THEOREM DoneIsLanded == Spec => []DoneMeansLanded
<1>1. IInv /\ Landed => DoneMeansLanded
  BY DEF Landed
<1> QED BY <1>1, LandedAlways, PTL

\* /nx_recover takes nothing out of the scope that is not in Notion.
THEOREM DropsOnlyLanded == Spec => []RecoveryDropsOnlyLanded
<1>1. IInv /\ Landed => RecoveryDropsOnlyLanded
  BY DEF Landed
<1> QED BY <1>1, LandedAlways, PTL

\* The checkpoint moves with the commit of a complete apply only, to the version
\* that was approved.
THEOREM CheckpointFollowsCommit == Spec => CheckpointMovesWithCommit
<1>1. ASSUME IInv, Landed, [Next]_vars, checkpoint' # checkpoint
      PROVE  \E p \in Proposal :
               /\ StatusOf(p) = "APPLYING" /\ head'[p].status = "COMMITTED"
               /\ checkpoint' = SourceOf[p]
               /\ \A o \in WriteOps(p) : Reached(o, Approved(p, o))
               /\ \A o \in OpsOf[p] : plan[p][o] = "DEFER" => o \in pending'
  <2>1. PICK p \in Proposal : Commit(p)
    <3>1. ASSUME NEW p \in Proposal, ~Commit(p),
                 Step(p) \/ Command(p) \/ StepRaises(p) \/ PatchUnanswered(p)
          PROVE  checkpoint' = checkpoint
      BY <3>1 DEF Step, Command, Capture, LeaseRefused, AcquireLease, VerifyFails, Verify,
         KnowledgeStale, Inspect, InspectDone, Guard, Begin, Reconcile, Reset, Recheck,
         Preflight, Patch, PatchUnanswered, Record, Failing, Block, Fail, Final, Release,
         RequestApproval, RecoverMark, RecoverRevise, Approve, Redeliver, Reject, Recover,
         Set, StepRaises, durable
    <3>2. ASSUME World, ~ \E p \in Proposal : StepRaises(p) \/ PatchUnanswered(p)
          PROVE  checkpoint' = checkpoint
      BY <3>2 DEF World, GatewayDies, GatewayStarts, NotionEdited, SourceMoves, WikiMoves,
                  TimePasses, durable
    <3>3. UNCHANGED vars => checkpoint' = checkpoint
      BY DEF vars, durable
    <3> QED BY <1>1, <3>1, <3>2, <3>3 DEF Next, World
  <2>2. pc[p] = "commit" /\ StatusOf(p) = "APPLYING"
    BY <1>1, <2>1, Before DEF Commit, At, Thread, StatusInPhase, WriteLoop
  <2>3. head'[p].status = "COMMITTED" /\ checkpoint' = job[p].version
    BY <1>1, <2>1, Before DEF Commit, SetStatus, HeadType
  <2>4. job[p].version = SourceOf[p]
    BY <1>1, <2>2 DEF Landed, Landing, VersionSettled, LeasePhase
  <2>5. \A o \in WriteOps(p) : HasLanded(p, o)
    BY <1>1, <2>2 DEF Landed, Landing, TodoLanded, WriteLoop
  <2>6. \A o \in OpsOf[p] : plan[p][o] = "DEFER" => o \in pending'
    BY <2>1 DEF Commit
  <2> QED BY <2>2, <2>3, <2>4, <2>5, <2>6 DEF HasLanded, Reached
<1>2. IInv /\ Landed /\ [Next]_vars =>
        [checkpoint' # checkpoint =>
           \E p \in Proposal :
             /\ StatusOf(p) = "APPLYING" /\ head'[p].status = "COMMITTED"
             /\ checkpoint' = SourceOf[p]
             /\ \A o \in WriteOps(p) : Reached(o, Approved(p, o))
             /\ \A o \in OpsOf[p] : plan[p][o] = "DEFER" => o \in pending']_vars
  BY <1>1
<1> QED BY <1>2, LandedAlways, PTL DEF Spec, CheckpointMovesWithCommit

-----------------------------------------------------------------------------
(* What is written over.                                                      *)

\* What is about to be written over is what the operator was shown, or the
\* property was edited since the last comparison.
Reviewed(p) ==
  pc[p] = "patch" => \A o \in Op : First(p, o) =>
                       notion[KeyOf[o]] = OldOf[o] \/ KeyOf[o] \in raced

\* What is about to be written has not been written by this proposal, unless a
\* person edited the property since.
Unwritten(p) ==
  pc[p] = "patch" =>
    \A o \in Op : First(p, o) => \A r \in Revision : <<p, r, o>> \notin effects

\* A property that was written does not show what an operation was prepared
\* against.
EffectShown ==
  \A p \in Proposal, r \in Revision, o \in Op :
    <<p, r, o>> \in effects => notion[KeyOf[o]] # OldOf[o]

Compared == \A p \in Proposal : Reviewed(p)
Once     == EffectShown /\ \A p \in Proposal : Unwritten(p)

\* A thread's step leaves the properties, unless it has just compared one or is
\* writing it.
LEMMA NotionMoves ==
  ASSUME NEW p \in Proposal, Step(p) \/ Command(p) \/ StepRaises(p) \/ PatchUnanswered(p)
  PROVE  \/ UNCHANGED <<notion, effects, raced>>
         \/ Preflight(p)
         \/ /\ pc[p] = "patch" /\ UNCHANGED raced
            /\ \E o \in Op : TakeEffect(p, o)
<1>1. ASSUME ~(Preflight(p) \/ Patch(p) \/ PatchUnanswered(p))
      PROVE  UNCHANGED <<notion, effects, raced>>
  BY <1>1 DEF Step, Command, Capture, LeaseRefused, AcquireLease, VerifyFails, Verify,
     KnowledgeStale, Inspect, InspectDone, Guard, Begin, Reconcile, Reset, Recheck, Record,
     Failing, Block, Fail, Final, Commit, Release, RequestApproval, RecoverMark,
     RecoverRevise, Approve, Redeliver, Reject, Recover, Set, StepRaises, world, history
<1>2. Patch(p) \/ PatchUnanswered(p) =>
        pc[p] = "patch" /\ UNCHANGED raced /\ \E o \in Op : TakeEffect(p, o)
  BY DEF Patch, PatchUnanswered, At
<1> QED BY <1>1, <1>2

\* A thread is about to write only after a comparison.
LEMMA OnlyPreflightPatches ==
  ASSUME IInv, NEW p \in Proposal, pc'[p] = "patch",
         Step(p) \/ Command(p) \/ StepRaises(p) \/ PatchUnanswered(p)
  PROVE  Preflight(p)
<1> USE Before
<1>1. ASSUME NEW l, Goto(p, l), l # "patch" PROVE FALSE
  BY <1>1 DEF Goto
<1>2. ASSUME UNCHANGED pc, pc[p] # "patch" PROVE FALSE
  BY <1>2
<1>3. ~(\/ Inspect(p) \/ Reconcile(p) \/ Block(p) \/ RecoverMark(p) \/ Reject(p))
  BY <1>2 DEF Inspect, Reconcile, Block, RecoverMark, Reject, At
<1>4. ~(\/ Capture(p) \/ LeaseRefused(p) \/ AcquireLease(p) \/ VerifyFails(p) \/ Verify(p)
        \/ Guard(p) \/ Begin(p) \/ Patch(p) \/ PatchUnanswered(p) \/ Failing(p) \/ Fail(p)
        \/ Commit(p) \/ Release(p) \/ RequestApproval(p) \/ Approve(p) \/ Redeliver(p)
        \/ Recover(p))
  BY <1>1 DEF Capture, LeaseRefused, AcquireLease, VerifyFails, Verify, KnowledgeStale, Guard,
     Begin, Patch, PatchUnanswered, Failing, Fail, Commit, Release, RequestApproval, Approve,
     Redeliver, Recover
<1>5. ~(\/ InspectDone(p) \/ Reset(p) \/ Recheck(p) \/ Record(p) \/ Final(p)
        \/ StepRaises(p) \/ RecoverRevise(p) \/ \E o, a : Set(p, o, a))
  BY <1>1 DEF InspectDone, Reset, Recheck, Record, Final, StepRaises, RecoverRevise, Set,
     NewRevision
<1> QED BY <1>3, <1>4, <1>5 DEF Step, Command

\* What a comparison that lets a thread go on has seen.
LEMMA PreflightSaw ==
  ASSUME IInv, NEW p \in Proposal, Preflight(p), pc'[p] = "patch", NEW o \in Op, First(p, o)'
  PROVE  /\ notion[KeyOf[o]] = OldOf[o]
         /\ UNCHANGED <<notion, effects>>
<1>1. PICK u \in Op : /\ First(p, u)
                      /\ Goto(p, IF /\ Inspection(p, u) = "pending" /\ receipt[p] = "used"
                                    /\ StatusOf(p) = "APPLYING"
                                    /\ OwnRow(p, u) /\ outbox[u].status = "pending"
                                 THEN "patch" ELSE "failing")
  BY DEF Preflight
<1>2. Inspection(p, u) = "pending"
  BY <1>1, Before DEF Goto
<1>3. First(p, o) /\ UNCHANGED <<notion, effects>>
  BY DEF Preflight, First, history
<1>4. o = u
  BY <1>1, <1>3, OneFirst DEF IInv
<1> QED BY <1>2, <1>3, <1>4 DEF Inspection

\* While one thread is about to write, no other compares or writes.
LEMMA OthersWait ==
  ASSUME IInv, NEW p \in Proposal, NEW q \in Proposal, q # p, pc[q] = "patch",
         Step(p) \/ Command(p) \/ StepRaises(p) \/ PatchUnanswered(p)
  PROVE  UNCHANGED <<notion, effects, raced>>
<1>1. held[q] # None
  BY Before DEF Thread, HoldsInPhase, LeasePhase
<1>2. pc[p] \notin {"preflight", "patch"}
  BY <1>1, Before, OneHolder DEF Thread, HoldsInPhase, LeasePhase
<1> QED BY <1>2, NotionMoves DEF Preflight, At

\* What is about to be written over was compared.
LEMMA ThreadCompared ==
  ASSUME IInv, Compared, NEW p \in Proposal,
         Step(p) \/ Command(p) \/ StepRaises(p) \/ PatchUnanswered(p)
  PROVE  Compared'
<1> SUFFICES ASSUME NEW q \in Proposal, pc'[q] = "patch", NEW o \in Op, First(q, o)'
             PROVE  notion'[KeyOf[o]] = OldOf[o] \/ KeyOf[o] \in raced'
  BY DEF Compared, Reviewed
<1>1. CASE q = p
  BY <1>1, OnlyPreflightPatches, PreflightSaw
<1>2. CASE q # p
  <2>1. pc[q] = "patch" /\ First(q, o)
    BY <1>2, StepSame DEF IInv, Same, First
  <2>2. UNCHANGED <<notion, raced>>
    BY <1>2, <2>1, OthersWait
  <2> QED BY <2>1, <2>2 DEF Compared, Reviewed
<1> QED BY <1>1, <1>2

\* What was written is not written again.
LEMMA ThreadOnce ==
  ASSUME IInv, ProposesChanges, Once, NEW p \in Proposal,
         Step(p) \/ Command(p) \/ StepRaises(p) \/ PatchUnanswered(p)
  PROVE  Once'
<1>1. EffectShown'
  <2> SUFFICES ASSUME NEW q \in Proposal, NEW r \in Revision, NEW o \in Op,
                      <<q, r, o>> \in effects'
               PROVE  notion'[KeyOf[o]] # OldOf[o]
    BY DEF EffectShown
  <2>1. CASE UNCHANGED <<notion, effects>>
    BY <2>1 DEF Once, EffectShown
  <2>2. ASSUME NEW u \in Op, TakeEffect(p, u) PROVE notion'[KeyOf[o]] # OldOf[o]
    <3>1. notion' = [notion EXCEPT ![KeyOf[u]] = Approved(p, u)] /\ notion \in [Key -> Value]
          /\ KeyOf[u] \in Key /\ KeyOf[o] \in Key
      BY <2>2, ProposalApplyAssumption DEF TakeEffect, IInv, TypeOK
    <3>2. CASE KeyOf[o] = KeyOf[u]
      BY <3>1, <3>2 DEF ProposesChanges, Approved
    <3>3. CASE KeyOf[o] # KeyOf[u]
      <4>1. <<q, r, o>> \in effects
        BY <2>2, <3>3 DEF TakeEffect
      <4> QED BY <3>1, <3>3, <4>1 DEF Once, EffectShown
    <3> QED BY <3>2, <3>3
  <2> QED BY <2>1, <2>2, NotionMoves DEF Preflight, history
<1>2. \A q \in Proposal : Unwritten(q)'
  <2> SUFFICES ASSUME NEW q \in Proposal, pc'[q] = "patch", NEW o \in Op, First(q, o)',
                      NEW r \in Revision
               PROVE  <<q, r, o>> \notin effects'
    BY DEF Unwritten
  <2>1. CASE q = p
    BY <2>1, OnlyPreflightPatches, PreflightSaw DEF Once, EffectShown
  <2>2. CASE q # p
    <3>1. pc[q] = "patch" /\ First(q, o)
      BY <2>2, StepSame DEF IInv, Same, First
    <3>2. UNCHANGED effects
      BY <2>2, <3>1, OthersWait
    <3> QED BY <3>1, <3>2 DEF Once, Unwritten
  <2> QED BY <2>1, <2>2
<1> QED BY <1>1, <1>2 DEF Once

\* A disturbance changes a property only as a person's edit, which is noted.
LEMMA WorldEdits ==
  ASSUME IInv,
         \/ GatewayDies \/ WikiMoves
         \/ \E pid \in Pid : GatewayStarts(pid)
         \/ \E k \in Key, v \in Value : NotionEdited(k, v)
         \/ \E v \in Version : SourceMoves(v)
         \/ \E p \in Proposal : TimePasses(p)
  PROVE  /\ Compared => Compared'
         /\ Once => Once'
<1>1. CASE GatewayDies
  <2>1. UNCHANGED <<notion, effects, raced>> /\ \A q \in Proposal : pc'[q] = "idle"
    BY <1>1 DEF GatewayDies, history
  <2> QED BY <2>1 DEF Compared, Reviewed, Once, EffectShown, Unwritten
<1>2. ASSUME NEW k \in Key, NEW v \in Value, NotionEdited(k, v)
      PROVE  (Compared => Compared') /\ (Once => Once')
  <2>1. /\ UNCHANGED <<pc, job>> /\ notion' = [notion EXCEPT ![k] = v]
        /\ raced' = IF \E p \in Proposal, o \in Op :
                         pc[p] = "patch" /\ First(p, o) /\ KeyOf[o] = k
                    THEN raced \cup {k} ELSE raced
        /\ effects' = {e \in effects : KeyOf[e[3]] # k}
    BY <1>2 DEF NotionEdited
  <2>2. notion \in [Key -> Value] /\ \A o \in Op : KeyOf[o] \in Key
    BY ProposalApplyAssumption DEF IInv, TypeOK
  <2>3. \A q \in Proposal, o \in Op : First(q, o)' <=> First(q, o)
    BY <2>1 DEF First
  <2>4. Compared => Compared'
    BY <2>1, <2>2, <2>3 DEF Compared, Reviewed
  <2>5. ASSUME Once, NEW q \in Proposal, NEW r \in Revision, NEW o \in Op,
               <<q, r, o>> \in effects'
        PROVE  <<q, r, o>> \in effects /\ notion'[KeyOf[o]] # OldOf[o]
    BY <2>1, <2>2, <2>5 DEF Once, EffectShown
  <2>6. Once => Once'
    BY <2>1, <2>3, <2>5 DEF Once, EffectShown, Unwritten
  <2> QED BY <2>4, <2>6
<1>3. CASE \/ WikiMoves
           \/ \E pid \in Pid : GatewayStarts(pid)
           \/ \E v \in Version : SourceMoves(v)
           \/ \E p \in Proposal : TimePasses(p)
  <2>1. UNCHANGED <<notion, effects, raced, pc, job>>
    BY <1>3 DEF GatewayStarts, SourceMoves, WikiMoves, TimePasses, world, history
  <2>2. \A q \in Proposal, o \in Op : First(q, o)' <=> First(q, o)
    BY <2>1 DEF First
  <2> QED BY <2>1, <2>2 DEF Compared, Reviewed, Once, EffectShown, Unwritten
<1> QED BY <1>1, <1>2, <1>3

\* Every step keeps both.
LEMMA ComparedStep ==
  ASSUME IInv, [Next]_vars
  PROVE  /\ Compared => Compared'
         /\ ProposesChanges /\ Once => Once'
<1>1. CASE UNCHANGED vars
  <2>1. UNCHANGED <<notion, effects, raced, pc, job>>
    BY <1>1 DEF vars, world, history
  <2> QED BY <2>1 DEF Compared, Reviewed, Once, EffectShown, Unwritten, First
<1> QED BY <1>1, ThreadCompared, ThreadOnce, WorldEdits DEF Next, World

\* A write replaces what the operator was shown, or a property that was edited
\* after the last comparison.
THEOREM ReplacesReviewed == Spec => OverwritesOnlyReviewed
<1>1. Init => Compared
  BY DEF Init, Compared, Reviewed
<1>2. IInv /\ Compared /\ [Next]_vars => Compared'
  BY ComparedStep
<1>3. IInv /\ Compared /\ [Next]_vars =>
        [\A p \in Proposal : \A o \in OpsOf[p] :
           pc[p] = "patch" /\ First(p, o) /\ pc'[p] # "patch" /\ effects' # effects
             => notion[KeyOf[o]] = OldOf[o] \/ KeyOf[o] \in raced]_vars
  BY ScopeType DEF Compared, Reviewed
<1> QED BY <1>1, <1>2, <1>3, Invariance, PTL DEF Spec, OverwritesOnlyReviewed

\* However often an apply is interrupted, resumed, revised or recovered, a
\* proposal writes an operation once, unless a person edited the property.
THEOREM WritesOnce ==
  ASSUME ProposesChanges
  PROVE  Spec => WrittenOnce
<1>1. Init => Once
  BY DEF Init, Once, EffectShown, Unwritten
<1>2. IInv /\ Once /\ [Next]_vars => Once'
  BY ComparedStep
<1>3. IInv /\ Once /\ [Next]_vars =>
        [\A p \in Proposal : \A o \in OpsOf[p] :
           pc[p] = "patch" /\ First(p, o) /\ pc'[p] = "record"
             => \A r \in Revision : <<p, r, o>> \notin effects]_vars
  BY ScopeType DEF Once, Unwritten
<1> QED BY <1>1, <1>2, <1>3, Invariance, PTL DEF Spec, WrittenOnce
=============================================================================
