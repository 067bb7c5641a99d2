-------------------------- MODULE ApplyLeaseProofs --------------------------
(* What ApplyLease promises, for any number of workers, processes, proposals  *)
(* and tokens.                                                                *)
(*                                                                            *)
(* The argument is one inductive invariant, Ownership: a worker that holds a  *)
(* lease holds THE row, and its process lives.  A row can therefore only be   *)
(* taken over when nobody holds it, because taking over asks for a dead pid.  *)
(* Tokens play no part in it: the exclusion would survive equal tokens.       *)
(* Orphans adds what the recovery after a crash rests on: a pid that a row    *)
(* names was given out before, so, when pids are never given out twice, the   *)
(* row of a dead process never looks alive again.                             *)
EXTENDS ApplyLease, TLAPS

\* Whoever holds a lease holds the row itself, inserted by a live process.
Ownership == \A w \in Worker : Holding(w) => lease = held[w] /\ held[w].pid \in alive

\* Every pid in use or in the row was given out; the row of a process that died
\* names a dead pid, as long as no pid is given out twice.
Orphans ==
  /\ alive \subseteq usedPids
  /\ lease # None => lease.pid \in usedPids
  /\ FreshPids /\ lease # None /\ ~ownerUp => lease.pid \notin alive

IInv == TypeOK /\ MutualExclusion /\ Ownership

-----------------------------------------------------------------------------
\* Every action of ApplyLease keeps each variable within its type.
LEMMA TypeStep == TypeOK /\ [Next]_vars => TypeOK'
<1> SUFFICES ASSUME TypeOK, [Next]_vars PROVE TypeOK'
  OBVIOUS
<1> USE DEF TypeOK
<1>1. ASSUME NEW w \in Worker, NEW pid \in Pid, NEW p \in Proposal, NEW r \in Revision,
             Acquire(w, pid, p, r)
      PROVE  TypeOK'
  <2> PICK t \in Token :
        /\ lease' = [proposal |-> p, revision |-> r, token |-> t, pid |-> pid]
        /\ held' = [held EXCEPT ![w] = [proposal |-> p, revision |-> r,
                                        token |-> t, pid |-> pid]]
    BY <1>1 DEF Acquire
  <2>1. [proposal |-> p, revision |-> r, token |-> t, pid |-> pid] \in LeaseRow
    BY DEF LeaseRow
  <2> QED BY <1>1, <2>1 DEF Acquire
<1>2. ASSUME NEW w \in Worker, Release(w) PROVE TypeOK'
  BY <1>2 DEF Release
<1>3. ASSUME NEW w \in Worker, ReleaseFails(w) PROVE TypeOK'
  BY <1>3 DEF ReleaseFails
<1>4. ASSUME NEW p \in Proposal, NEW s \in Status, SetStatus(p, s) PROVE TypeOK'
  BY <1>4 DEF SetStatus
<1>5. ASSUME NEW w \in Worker, NEW s \in Status, ApplyStep(w, s) PROVE TypeOK'
  <2>1. held[w].proposal \in Proposal
    BY <1>5 DEF ApplyStep, Holding, LeaseRow
  <2> QED BY <1>4, <1>5, <2>1 DEF ApplyStep
<1>6. ASSUME NEW pid \in Pid, ProcessStarts(pid) PROVE TypeOK'
  BY <1>6 DEF ProcessStarts
<1>7. ASSUME NEW pid \in Pid, ProcessDies(pid) PROVE TypeOK'
  <2>1. ownerUp' \in BOOLEAN
    BY <1>7 DEF ProcessDies
  <2>2. held' \in [Worker -> LeaseRow \cup {None}]
    BY <1>7 DEF ProcessDies
  <2> QED BY <1>7, <2>1, <2>2 DEF ProcessDies
<1>8. ASSUME NEW p \in Proposal, Approve(p) \/ RequestApproval(p) \/ Reject(p)
      PROVE  TypeOK'
  <2>1. {"APPROVED", "PENDING", "REJECTED"} \subseteq Status
    BY DEF Status
  <2> QED BY <1>4, <1>8, <2>1 DEF Approve, RequestApproval, Reject
<1>9. ASSUME NEW p \in Proposal, Revise(p) PROVE TypeOK'
  <2>1. head[p].revision + 1 \in Revision
    BY <1>9, LeaseAssumption DEF Revise, Revision
  <2>2. [revision |-> head[p].revision + 1, status |-> "DRAFT"]
          \in [revision : Revision, status : Status]
    BY <2>1 DEF Status
  <2> QED BY <1>9, <2>2 DEF Revise
<1>10. CASE UNCHANGED vars
  BY <1>10 DEF vars
<1> QED
  BY <1>1, <1>2, <1>3, <1>5, <1>6, <1>7, <1>8, <1>9, <1>10 DEF Next

\* The steps that change neither the row nor a worker's memory nor the set of
\* processes: every status change of a proposal is one.
LEMMA StatusSteps ==
  /\ \A w \in Worker, s \in Status :
       ApplyStep(w, s) => UNCHANGED <<alive, usedPids, lease, held, ownerUp>>
  /\ \A p \in Proposal : Approve(p) \/ RequestApproval(p) \/ Reject(p) \/ Revise(p)
       => UNCHANGED <<alive, usedPids, lease, held, ownerUp>>
  BY DEF ApplyStep, Approve, RequestApproval, Reject, Revise, SetStatus

\* Mutual exclusion and the ownership of the row are kept by every action.
LEMMA OwnershipStep == IInv /\ [Next]_vars => (MutualExclusion /\ Ownership)'
<1> SUFFICES ASSUME IInv, [Next]_vars PROVE MutualExclusion' /\ Ownership'
  OBVIOUS
<1> USE DEF IInv, TypeOK, MutualExclusion, Ownership, Holding
<1>1. ASSUME NEW w \in Worker, NEW pid \in Pid, NEW p \in Proposal, NEW r \in Revision,
             Acquire(w, pid, p, r)
      PROVE  MutualExclusion' /\ Ownership'
  <2>1. \A v \in Worker : ~Holding(v)
    BY <1>1 DEF Acquire, MayAcquire
  <2> PICK t \in Token :
        /\ lease' = [proposal |-> p, revision |-> r, token |-> t, pid |-> pid]
        /\ held' = [held EXCEPT ![w] = [proposal |-> p, revision |-> r,
                                        token |-> t, pid |-> pid]]
    BY <1>1 DEF Acquire
  <2>2. alive' = alive /\ pid \in alive
    BY <1>1 DEF Acquire
  <2> QED BY <2>1, <2>2
<1>2. ASSUME NEW w \in Worker, Release(w) PROVE MutualExclusion' /\ Ownership'
  BY <1>2 DEF Release
<1>3. ASSUME NEW w \in Worker, ReleaseFails(w) PROVE MutualExclusion' /\ Ownership'
  BY <1>3 DEF ReleaseFails
<1>4. ASSUME NEW pid \in Pid, ProcessStarts(pid) PROVE MutualExclusion' /\ Ownership'
  BY <1>4 DEF ProcessStarts
<1>5. ASSUME NEW pid \in Pid, ProcessDies(pid) PROVE MutualExclusion' /\ Ownership'
  <2>1. \A v \in Worker : held'[v] # None => held'[v] = held[v] /\ held[v].pid # pid
    BY <1>5 DEF ProcessDies
  <2> QED BY <1>5, <2>1 DEF ProcessDies
<1>6. CASE UNCHANGED <<alive, lease, held>>
  BY <1>6
<1> QED
  BY <1>1, <1>2, <1>3, <1>4, <1>5, <1>6, StatusSteps DEF Next, vars

\* The pid bookkeeping is kept by every action.
LEMMA OrphansStep == TypeOK /\ Orphans /\ [Next]_vars => Orphans'
<1> SUFFICES ASSUME TypeOK, Orphans, [Next]_vars PROVE Orphans'
  OBVIOUS
<1> USE DEF TypeOK, Orphans
<1>1. ASSUME NEW w \in Worker, NEW pid \in Pid, NEW p \in Proposal, NEW r \in Revision,
             Acquire(w, pid, p, r)
      PROVE  Orphans'
  BY <1>1 DEF Acquire
<1>2. ASSUME NEW w \in Worker, Release(w) \/ ReleaseFails(w) PROVE Orphans'
  BY <1>2 DEF Release, ReleaseFails
<1>3. ASSUME NEW pid \in Pid, ProcessStarts(pid) PROVE Orphans'
  BY <1>3 DEF ProcessStarts
<1>4. ASSUME NEW pid \in Pid, ProcessDies(pid) PROVE Orphans'
  BY <1>4 DEF ProcessDies
<1>5. CASE UNCHANGED <<alive, usedPids, lease, ownerUp>>
  BY <1>5
<1> QED
  BY <1>1, <1>2, <1>3, <1>4, <1>5, StatusSteps DEF Next, vars

-----------------------------------------------------------------------------
\* The initial states satisfy every invariant.
LEMMA InitHolds == Init => IInv /\ Orphans
<1> SUFFICES ASSUME Init PROVE IInv /\ Orphans
  OBVIOUS
<1>1. 1 \in Revision
  BY LeaseAssumption DEF Revision
<1>2. TypeOK
  BY <1>1 DEF Init, TypeOK, Status
<1> QED
  BY <1>2 DEF Init, IInv, MutualExclusion, Ownership, Orphans, Holding

\* Type correctness: the row, what workers remember, and the proposals' heads
\* always have the types the columns of source_apply_lease and proposal have.
THEOREM TypeCorrect == Spec => []TypeOK
<1>1. Init => TypeOK
  BY InitHolds DEF IInv
<1> QED BY <1>1, TypeStep, PTL DEF Spec

\* The inductive invariant.
LEMMA InductiveInvariant == Spec => []IInv
<1>1. Init => IInv
  BY InitHolds
<1>2. IInv /\ [Next]_vars => IInv'
  BY TypeStep, OwnershipStep DEF IInv
<1> QED BY <1>1, <1>2, PTL DEF Spec

\* At most one worker, of whatever process, runs an apply for the workbook.
THEOREM LeaseExcludes == Spec => []MutualExclusion
<1>1. IInv => MutualExclusion
  BY DEF IInv
<1> QED BY <1>1, InductiveInvariant, PTL

\* A running worker's heartbeat addresses exactly one row: "The source apply
\* lease was lost" is never raised.
THEOREM HeartbeatNeverLosesLease == Spec => []HeartbeatFindsRow
<1>1. IInv => HeartbeatFindsRow
  BY DEF IInv, Ownership, HeartbeatFindsRow, OwnsRow, Holding
<1> QED BY <1>1, InductiveInvariant, PTL

\* A live owner is never pre-empted: while the process of the row lives, only the
\* worker that inserted the row removes it.
THEOREM LiveOwnerIsNeverPreempted == Spec => LiveOwnerKeepsRow
<1> DEFINE Kept == lease # None /\ lease.pid \in alive /\ lease' # lease
                     => lease' = None /\ \E w \in Worker : OwnsRow(w) /\ held'[w] = None
<1>1. TypeOK /\ [Next]_vars => [Kept]_vars
  <2> SUFFICES ASSUME TypeOK, [Next]_vars, lease # None, lease.pid \in alive,
                      lease' # lease
               PROVE  lease' = None /\ \E w \in Worker : OwnsRow(w) /\ held'[w] = None
    OBVIOUS
  <2>1. ASSUME NEW w \in Worker, NEW pid \in Pid, NEW p \in Proposal, NEW r \in Revision
        PROVE  ~Acquire(w, pid, p, r)
    BY DEF Acquire, MayAcquire
  <2>2. ASSUME NEW w \in Worker, Release(w)
        PROVE  lease' = None /\ OwnsRow(w) /\ held'[w] = None
    BY <2>2 DEF Release, TypeOK
  <2>3. \A w \in Worker : ~ReleaseFails(w)
    BY DEF ReleaseFails
  <2>4. \A pid \in Pid : ~ProcessStarts(pid) /\ ~ProcessDies(pid)
    BY DEF ProcessStarts, ProcessDies
  <2> QED BY <2>1, <2>2, <2>3, <2>4, StatusSteps DEF Next, vars
<1> QED BY <1>1, TypeCorrect, PTL DEF Spec, LiveOwnerKeepsRow

\* When pids are not reused, a lease left behind by a dead process can always be
\* taken back by the same proposal revision.
THEOREM OrphanIsReclaimed == FreshPids => (Spec => []SameRevisionReclaims)
<1> SUFFICES ASSUME FreshPids PROVE Spec => []SameRevisionReclaims
  OBVIOUS
<1>1. Init => TypeOK /\ Orphans
  BY InitHolds DEF IInv
<1>2. TypeOK /\ Orphans /\ [Next]_vars => (TypeOK /\ Orphans)'
  BY TypeStep, OrphansStep
<1>3. TypeOK /\ Orphans => SameRevisionReclaims
  BY DEF TypeOK, Orphans, SameRevisionReclaims, MayAcquire
<1> QED BY <1>1, <1>2, <1>3, PTL DEF Spec
=============================================================================
