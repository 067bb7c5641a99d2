------------------------ MODULE WikiGenerationProofs ------------------------
(* Proofs about WikiGeneration, for any number of commands and applies: its   *)
(* types, and that the generation lock does what it is for.                   *)
EXTENDS WikiGeneration, TLAPS

\* What a command remembers where it needs it.
Publishing == {"publish", "unlock", "stage", "current", "save"}
Prepared   == {"checkpoint", "lock", "refresh", "publish", "unlock", "stage", "current",
               "save", "excelstage", "excelcurrent", "excelsave", "complete"}
JobInPhase ==
  /\ \A t \in Thread : pc[t] \in Publishing => job[t].taken \in Folder
  /\ ~At(Sync, "idle") => job[Sync].number \in Number
  /\ pc[Sync] \in Prepared => job[Sync].base \in Boot
  /\ pc[Sync] \in {"query", "searchunlock", "propose"} => job[Sync].binding \in Folder
  /\ pc[Sync] \in {"searchunlock", "propose"} => job[Sync].cited \in Folder

\* Which phases a command can be in.
Roles ==
  /\ \A c \in Cli : pc[c] \in {"idle", "lock", "refresh", "publish", "unlock"}
  /\ \A a \in Apply : pc[a] \in {"idle", "lock", "guard", "write", "release"}
  /\ pc[Sync] \notin {"guard", "write", "release"}

\* The phases between the lock and its release.
Locked == {"refresh", "publish", "unlock", "status", "query", "searchunlock",
           "guard", "write", "release"}
LockHeld == \A t \in Thread : pc[t] \in Locked => lock = t

\* An index was read from the folder, and is never newer than what the holder of
\* the lock has read since.
IndexRead ==
  /\ index # None => index <= tree
  /\ \A t \in Thread : pc[t] \in {"publish", "unlock"} => job[t].taken <= tree
  /\ \A t \in Thread : At(t, "publish") /\ index # None => index <= job[t].taken
  /\ pc[Sync] \in {"status", "query"} => index # None

IInv == TypeOK /\ JobInPhase /\ Roles /\ LockHeld /\ IndexRead /\ WritesUnderCitedIndex

USE GenerationAssumption

-----------------------------------------------------------------------------

LEMMA Constants ==
  /\ Folder \subseteq Number /\ Folder \subseteq Nat /\ Number \subseteq Nat
  /\ None \notin Folder /\ None \notin Number
  /\ Sync \in Thread /\ Cli \subseteq Thread /\ Apply \subseteq Thread
  /\ None \notin Thread /\ None \notin Boot
  BY DEF Folder, Number, Thread

JobSet ==
  [number : Number \cup {None}, base : Boot \cup {None}, t0 : Number \cup {None},
   taken : Folder \cup {None}, full : BOOLEAN, binding : Folder \cup {None},
   cited : Folder \cup {None}, writes : 0 .. 1]

LEMMA IdleJobType == IdleJob \in JobSet
  BY DEF IdleJob, JobSet

LEMMA Jobs == ASSUME TypeOK PROVE job \in [Thread -> JobSet]
  BY DEF TypeOK, JobSet

LEMMA Initially == Init => IInv
<1> SUFFICES ASSUME Init PROVE IInv OBVIOUS
<1> USE Constants
<1>1. TypeOK
  BY DEF Init, TypeOK, Folder, IdleJob, Phase
<1>2. JobInPhase /\ Roles /\ LockHeld /\ IndexRead /\ WritesUnderCitedIndex
    BY DEF Init, JobInPhase, Roles, LockHeld, IndexRead, WritesUnderCitedIndex, At,
     Publishing,
         Prepared, Locked, Thread
<1> QED BY <1>1, <1>2 DEF IInv

LEMMA AcquireStep == ASSUME IInv, NEW t \in Thread, Lock(t) PROVE IInv'
<1> USE Constants DEF IInv, At, Goto, views
<1>1. TypeOK'
  <2>1. pc' \in [Thread -> Phase]
    BY DEF Lock, Acquire, LockTimeout, Finish, TypeOK, Phase
  <2>2. job' \in [Thread -> JobSet]
    BY IdleJobType DEF Lock, Acquire, LockTimeout, Finish, TypeOK, JobSet, Row
  <2> QED BY <2>1, <2>2 DEF Lock, Acquire, LockTimeout, TypeOK, JobSet
<1>2. JobInPhase' /\ Roles' /\ LockHeld'
  <2>1. JobInPhase'
    BY DEF Lock, Acquire, LockTimeout, Finish, TypeOK, JobInPhase, Publishing, Prepared
  <2>2. Roles'
    <3>1. CASE At(t, "lock") /\ Acquire(t, IF t \in Apply THEN "guard" ELSE "refresh")
      BY <3>1 DEF Acquire, TypeOK, Roles, Thread
    <3>2. CASE At(t, "searchlock") /\ Acquire(t, "status")
      BY <3>2 DEF Acquire, TypeOK, Roles, Thread
    <3>3. CASE LockTimeout(t)
      BY <3>3 DEF LockTimeout, Finish, Roles
    <3> QED BY <3>1, <3>2, <3>3 DEF Lock
  <2>3. LockHeld'
    BY DEF Lock, Acquire, LockTimeout, Finish, TypeOK, LockHeld, Locked
  <2> QED BY <2>1, <2>2, <2>3
<1>3. IndexRead' /\ WritesUnderCitedIndex'
    BY DEF Lock, Acquire, LockTimeout, Finish, TypeOK, JobInPhase, IndexRead,
     WritesUnderCitedIndex, Publishing, Thread
<1> QED BY <1>1, <1>2, <1>3

LEMMA ReadStep == ASSUME IInv, NEW t \in Thread, Read(t) PROVE IInv'
<1> USE Constants DEF IInv, At, Goto, views
<1>1. TypeOK'
  <2>1. pc' \in [Thread -> Phase]
    BY DEF Read, TypeOK, Phase
  <2>2. job' \in [Thread -> JobSet]
    <3>1. job[t] \in JobSet
      BY Jobs
    <3>2. [job[t] EXCEPT !.taken = tree] \in JobSet
      BY <3>1 DEF JobSet, TypeOK
    <3>3. job' = [job EXCEPT ![t] = [job[t] EXCEPT !.taken = tree]]
      BY <3>1, Jobs DEF Read
    <3> QED BY <3>2, <3>3, Jobs
  <2> QED BY <2>1, <2>2 DEF Read, TypeOK, JobSet
<1>2. JobInPhase' /\ Roles' /\ LockHeld'
  BY DEF Read, TypeOK, JobInPhase, Roles, LockHeld, Prepared, Locked
<1>3. IndexRead' /\ WritesUnderCitedIndex'
  BY DEF Read, TypeOK, IndexRead, WritesUnderCitedIndex
<1> QED BY <1>1, <1>2, <1>3

LEMMA PublishStep == ASSUME IInv, NEW t \in Thread, Publish(t) PROVE IInv'
<1> USE Constants DEF IInv, At, Goto, views
<1>1. TypeOK'
  BY DEF Publish, TypeOK, Phase
<1>2. JobInPhase' /\ Roles' /\ LockHeld'
  BY DEF Publish, JobInPhase, Roles, LockHeld, Publishing, Prepared, Locked
<1>3. IndexRead' /\ WritesUnderCitedIndex'
  BY DEF Publish, TypeOK, LockHeld, IndexRead, WritesUnderCitedIndex, Locked
<1> QED BY <1>1, <1>2, <1>3

LEMMA RefreshedStep == ASSUME IInv, NEW t \in Thread, Refreshed(t) PROVE IInv'
<1> USE Constants DEF IInv, At, Goto, views
<1>1. TypeOK'
  <2>1. pc' \in [Thread -> Phase]
    <3>1. pc' = [pc EXCEPT ![t] = "stage"] \/ pc' = [pc EXCEPT ![t] = "idle"]
      BY DEF Refreshed, Finish
    <3> QED BY <3>1 DEF TypeOK, Phase
  <2>2. job' \in [Thread -> JobSet]
    BY IdleJobType DEF Refreshed, Finish, TypeOK, JobSet, Boot
  <2> QED BY <2>1, <2>2 DEF Refreshed, Unlock, TypeOK, JobSet
<1>2. JobInPhase' /\ Roles' /\ LockHeld'
  <2>1. JobInPhase'
    BY DEF Refreshed, Finish, TypeOK, JobInPhase, Publishing, Prepared
  <2>2. Roles'
    <3>1. pc' = [pc EXCEPT ![t] = IF t = Sync THEN "stage" ELSE "idle"]
      BY DEF Refreshed, Finish
    <3> QED BY <3>1 DEF TypeOK, Roles, Thread
  <2>3. LockHeld'
    BY DEF Refreshed, Finish, TypeOK, LockHeld, Locked
  <2> QED BY <2>1, <2>2, <2>3
<1>3. IndexRead' /\ WritesUnderCitedIndex'
    BY DEF Refreshed, Finish, IdleJob, TypeOK, JobInPhase, Roles, LockHeld, IndexRead,
     WritesUnderCitedIndex, Locked, Folder
<1> QED BY <1>1, <1>2, <1>3

LEMMA SyncStartStep == ASSUME IInv, SyncStart PROVE IInv'
<1> USE Constants DEF IInv, At, Goto, views
<1>1. TypeOK'
  <2>1. pc' \in [Thread -> Phase]
    BY DEF SyncStart, IdleJob, TypeOK, Phase
  <2>2. job' \in [Thread -> JobSet]
    <3>1. PICK full \in BOOLEAN :
            job' = [job EXCEPT ![Sync] = [IdleJob EXCEPT !.number = syncs', !.full = full]]
      BY DEF SyncStart
    <3>2. syncs' \in Number
      BY DEF SyncStart, TypeOK, Number
    <3>3. [IdleJob EXCEPT !.number = syncs', !.full = full] \in JobSet
      BY <3>2, IdleJobType DEF JobSet
    <3> QED BY <3>1, <3>3, Jobs
  <2> QED BY <2>1, <2>2 DEF SyncStart, TypeOK, JobSet
<1>2. JobInPhase' /\ Roles' /\ LockHeld'
    BY DEF SyncStart, TypeOK, JobInPhase, Roles, LockHeld, Publishing, Prepared, Locked,
     Number
<1>3. IndexRead' /\ WritesUnderCitedIndex'
  BY DEF SyncStart, IndexRead, WritesUnderCitedIndex
<1> QED BY <1>1, <1>2, <1>3

LEMMA BaselineStep == ASSUME IInv, Baseline PROVE IInv'
<1> USE Constants DEF IInv, At, Goto, views
<1>1. TypeOK'
  <2>1. pc' \in [Thread -> Phase]
    BY DEF Baseline, TypeOK, Phase
  <2>2. job' \in [Thread -> JobSet]
    <3>1. job[Sync] \in JobSet
      BY Jobs
    <3>2. [job[Sync] EXCEPT !.base = boot'] \in JobSet
      <4>1. boot' \in Boot
        BY DEF Baseline, TypeOK, Boot, JobInPhase
      <4> QED BY <3>1, <4>1 DEF JobSet
    <3>3. job' = [job EXCEPT ![Sync] = [job[Sync] EXCEPT !.base = boot']]
      BY <3>1, Jobs DEF Baseline
    <3> QED BY <3>2, <3>3, Jobs
  <2> QED BY <2>1, <2>2 DEF Baseline, TypeOK, JobSet, Boot
<1>2. JobInPhase' /\ Roles' /\ LockHeld'
  BY DEF Baseline, TypeOK, JobInPhase, Roles, LockHeld, Publishing, Locked, Boot
<1>3. IndexRead' /\ WritesUnderCitedIndex'
  BY DEF Baseline, IndexRead, WritesUnderCitedIndex
<1> QED BY <1>1, <1>2, <1>3

LEMMA ReadCheckpointStep == ASSUME IInv, ReadCheckpoint PROVE IInv'
<1> USE Constants DEF IInv, At, Goto, views
<1>1. TypeOK'
  <2>1. pc' \in [Thread -> Phase]
    BY DEF ReadCheckpoint, TypeOK, Phase
  <2>2. job' \in [Thread -> JobSet]
    <3> DEFINE base == IF row["data"] = None THEN job[Sync].base.t0 ELSE row["data"].t0
    <3>1. job[Sync] \in JobSet
      BY Jobs
    <3>2. base \in Number \cup {None}
      BY DEF ReadCheckpoint, TypeOK, JobInPhase, Prepared, Boot, Row, Layer
    <3>3. [job[Sync] EXCEPT !.t0 = base] \in JobSet
      BY <3>1, <3>2 DEF JobSet
    <3>4. job' = [job EXCEPT ![Sync] = [job[Sync] EXCEPT !.t0 = base]]
      BY <3>1, Jobs DEF ReadCheckpoint
    <3> QED BY <3>3, <3>4, Jobs
  <2> QED BY <2>1, <2>2 DEF ReadCheckpoint, TypeOK, JobSet
<1>2. JobInPhase' /\ Roles' /\ LockHeld'
  BY DEF ReadCheckpoint, JobInPhase, Roles, LockHeld, Publishing, Prepared, Locked
<1>3. IndexRead' /\ WritesUnderCitedIndex'
  BY DEF ReadCheckpoint, IndexRead, WritesUnderCitedIndex
<1> QED BY <1>1, <1>2, <1>3

LEMMA PublishDataStep == ASSUME IInv, PublishData PROVE IInv'
<1> USE Constants DEF IInv, At, Goto, views
<1>1. TypeOK'
  <2>1. pc' \in [Thread -> Phase]
    BY DEF PublishData, Stage, SetCurrent, SaveRow, TypeOK, Phase
  <2>2. job' \in [Thread -> JobSet]
    BY Jobs DEF PublishData, Stage, SetCurrent, SaveRow
  <2>3. job[Sync].taken \in Number /\ job[Sync].t0 \in Number \cup {None}
    BY DEF PublishData, TypeOK, JobInPhase, Publishing
  <2>4. dirs' \in [Layer -> [Number -> Number \cup {None}]]
    <3>1. CASE dirs' = dirs
      BY <3>1 DEF TypeOK
    <3>2. CASE dirs' = [dirs EXCEPT !["data"][job[Sync].taken] = job[Sync].t0]
      BY <3>2, <2>3 DEF TypeOK, Layer
    <3> QED BY <3>1, <3>2 DEF PublishData, Stage, SetCurrent, SaveRow
  <2>5. current' \in [Layer -> Number \cup {None}]
    BY <2>3 DEF PublishData, Stage, SetCurrent, SaveRow, TypeOK
  <2>6. row' \in [Layer -> Row \cup {None}]
    <3>1. [generation |-> job[Sync].taken, t0 |-> job[Sync].t0] \in Row
      BY <2>3 DEF Row
    <3> QED BY <3>1 DEF PublishData, Stage, SetCurrent, SaveRow, TypeOK
  <2> QED BY <2>1, <2>2, <2>4, <2>5, <2>6
          DEF PublishData, Stage, SetCurrent, SaveRow, TypeOK, JobSet
<1>2. JobInPhase' /\ Roles' /\ LockHeld'
  <2>1. JobInPhase'
    BY DEF PublishData, Stage, SetCurrent, SaveRow, TypeOK, JobInPhase, Publishing, Prepared
  <2>2. Roles'
    <3>1. PICK phase \in {"current", "save", "excelstage"} : pc' = [pc EXCEPT ![Sync] = phase]
      BY DEF PublishData, Stage, SetCurrent, SaveRow
    <3> QED BY <3>1 DEF TypeOK, Roles, Thread
  <2>3. LockHeld'
    BY DEF PublishData, Stage, SetCurrent, SaveRow, TypeOK, LockHeld, Locked
  <2> QED BY <2>1, <2>2, <2>3
<1>3. IndexRead' /\ WritesUnderCitedIndex'
  BY DEF PublishData, Stage, SetCurrent, SaveRow, TypeOK, IndexRead, WritesUnderCitedIndex
<1> QED BY <1>1, <1>2, <1>3

LEMMA PublishExcelStep == ASSUME IInv, PublishExcel PROVE IInv'
<1> USE Constants DEF IInv, At, Goto, views
<1>1. TypeOK'
  <2>1. pc' \in [Thread -> Phase]
    BY DEF PublishExcel, Stage, SetCurrent, SaveRow, TypeOK, Phase
  <2>2. job' \in [Thread -> JobSet]
    BY Jobs DEF PublishExcel, Stage, SetCurrent, SaveRow
  <2>3. job[Sync].number \in Number /\ job[Sync].base.t0 \in Number
    BY DEF PublishExcel, JobInPhase, Prepared, Boot
  <2>4. dirs' \in [Layer -> [Number -> Number \cup {None}]]
    <3>1. CASE dirs' = dirs
      BY <3>1 DEF TypeOK
    <3>2. CASE dirs' = [dirs EXCEPT !["excel"][job[Sync].number] = job[Sync].base.t0]
      BY <3>2, <2>3 DEF TypeOK, Layer
    <3> QED BY <3>1, <3>2 DEF PublishExcel, Stage, SetCurrent, SaveRow
  <2>5. current' \in [Layer -> Number \cup {None}]
    BY <2>3 DEF PublishExcel, Stage, SetCurrent, SaveRow, TypeOK
  <2>6. row' \in [Layer -> Row \cup {None}]
    <3>1. [generation |-> job[Sync].number, t0 |-> None] \in Row
      BY <2>3 DEF Row
    <3> QED BY <3>1 DEF PublishExcel, Stage, SetCurrent, SaveRow, TypeOK
  <2> QED BY <2>1, <2>2, <2>4, <2>5, <2>6
          DEF PublishExcel, Stage, SetCurrent, SaveRow, TypeOK, JobSet
<1>2. JobInPhase' /\ Roles' /\ LockHeld'
  <2>1. JobInPhase'
        BY DEF PublishExcel, Stage, SetCurrent, SaveRow, TypeOK, JobInPhase, Publishing,
       Prepared
  <2>2. Roles'
    BY DEF PublishExcel, Stage, SetCurrent, SaveRow, TypeOK, Roles, Thread
  <2>3. LockHeld'
    BY DEF PublishExcel, Stage, SetCurrent, SaveRow, TypeOK, LockHeld, Locked
  <2> QED BY <2>1, <2>2, <2>3
<1>3. IndexRead' /\ WritesUnderCitedIndex'
  BY DEF PublishExcel, Stage, SetCurrent, SaveRow, TypeOK, IndexRead, WritesUnderCitedIndex
<1> QED BY <1>1, <1>2, <1>3

LEMMA CompleteStep == ASSUME IInv, Complete PROVE IInv'
<1> USE Constants DEF IInv, At, Goto, views
<1>1. TypeOK'
  <2>1. pc' \in [Thread -> Phase]
    BY DEF Complete, TypeOK, Phase
  <2>2. job' \in [Thread -> JobSet]
    BY IdleJobType DEF Complete, TypeOK, JobSet
  <2>3. boot' \in Boot \cup {None}
    BY DEF Complete, TypeOK, JobInPhase, Prepared, Boot
  <2> QED BY <2>1, <2>2, <2>3 DEF Complete, TypeOK, JobSet
<1>2. JobInPhase' /\ Roles' /\ LockHeld'
  BY DEF Complete, JobInPhase, Roles, LockHeld, Publishing, Prepared, Locked
<1>3. IndexRead' /\ WritesUnderCitedIndex'
  BY DEF Complete, IndexRead, WritesUnderCitedIndex
<1> QED BY <1>1, <1>2, <1>3

LEMMA NoIndexStep == ASSUME IInv, NoIndex PROVE IInv'
<1> USE Constants DEF IInv, At, Goto, views
<1>1. TypeOK'
  <2>1. pc' \in [Thread -> Phase]
    BY DEF NoIndex, Finish, TypeOK, Phase
  <2>2. job' \in [Thread -> JobSet]
    BY IdleJobType DEF NoIndex, Finish, TypeOK, JobSet
  <2> QED BY <2>1, <2>2 DEF NoIndex, Finish, IdleJob, TypeOK
<1>2. JobInPhase' /\ Roles' /\ LockHeld'
  BY DEF NoIndex, Finish, TypeOK, JobInPhase, Roles, LockHeld, Publishing, Prepared, Locked
<1>3. IndexRead' /\ WritesUnderCitedIndex'
  BY DEF NoIndex, Finish, IndexRead, WritesUnderCitedIndex
<1> QED BY <1>1, <1>2, <1>3

LEMMA StatusStep == ASSUME IInv, Status PROVE IInv'
<1> USE Constants DEF IInv, At, Goto, views
<1>1. TypeOK'
  <2>1. pc' \in [Thread -> Phase]
    BY DEF Status, TypeOK, Phase
  <2>2. job' \in [Thread -> JobSet]
    <3>1. job[Sync] \in JobSet
      BY Jobs
    <3>2. [job[Sync] EXCEPT !.binding = index] \in JobSet
      BY <3>1 DEF JobSet, TypeOK
    <3>3. job' = [job EXCEPT ![Sync] = [job[Sync] EXCEPT !.binding = index]]
      BY <3>1, Jobs DEF Status
    <3> QED BY <3>2, <3>3, Jobs
  <2> QED BY <2>1, <2>2 DEF Status, TypeOK, JobSet
<1>2. JobInPhase' /\ Roles' /\ LockHeld'
    BY DEF Status, TypeOK, JobInPhase, Roles, LockHeld, Publishing, Prepared, Locked,
     IndexRead
<1>3. IndexRead' /\ WritesUnderCitedIndex'
  BY DEF Status, IndexRead, WritesUnderCitedIndex
<1> QED BY <1>1, <1>2, <1>3

LEMMA QueryStep == ASSUME IInv, Query PROVE IInv'
<1> USE Constants DEF IInv, At, Goto, views
<1>1. TypeOK'
  <2>1. pc' \in [Thread -> Phase]
    BY DEF Query, TypeOK, Phase
  <2>2. job' \in [Thread -> JobSet]
    <3>1. job[Sync] \in JobSet
      BY Jobs
    <3>2. [job[Sync] EXCEPT !.cited = index] \in JobSet
      BY <3>1 DEF JobSet, TypeOK
    <3>3. job' = [job EXCEPT ![Sync] = [job[Sync] EXCEPT !.cited = index]]
      BY <3>1, Jobs DEF Query
    <3> QED BY <3>2, <3>3, Jobs
  <2> QED BY <2>1, <2>2 DEF Query, TypeOK, JobSet
<1>2. JobInPhase' /\ Roles' /\ LockHeld'
  BY DEF Query, TypeOK, JobInPhase, Roles, LockHeld, Publishing, Prepared, Locked, IndexRead
<1>3. IndexRead' /\ WritesUnderCitedIndex'
  BY DEF Query, IndexRead, WritesUnderCitedIndex
<1> QED BY <1>1, <1>2, <1>3

LEMMA SearchedStep == ASSUME IInv, Searched PROVE IInv'
<1> USE Constants DEF IInv, At, Goto, views
<1>1. TypeOK'
  BY DEF Searched, Unlock, TypeOK, Phase
<1>2. JobInPhase' /\ Roles' /\ LockHeld'
  BY DEF Searched, TypeOK, JobInPhase, Roles, LockHeld, Publishing, Prepared, Locked
<1>3. IndexRead' /\ WritesUnderCitedIndex'
  BY DEF Searched, IndexRead, WritesUnderCitedIndex
<1> QED BY <1>1, <1>2, <1>3

LEMMA ProposeStep == ASSUME IInv, NEW a \in Apply, Propose(a) PROVE IInv'
<1> USE Constants DEF IInv, At, Goto, views
<1>1. TypeOK'
  <2>1. pc' \in [Thread -> Phase]
    BY DEF Propose, Finish, TypeOK
  <2>2. job' \in [Thread -> JobSet]
    BY IdleJobType DEF Propose, Finish, TypeOK, JobSet
  <2> QED BY <2>1, <2>2 DEF Propose, Finish, IdleJob, TypeOK, JobInPhase
<1>2. JobInPhase' /\ Roles' /\ LockHeld'
  BY DEF Propose, Finish, TypeOK, JobInPhase, Roles, LockHeld, Publishing, Prepared, Locked
<1>3. IndexRead' /\ WritesUnderCitedIndex'
  BY DEF Propose, Finish, IndexRead, WritesUnderCitedIndex
<1> QED BY <1>1, <1>2, <1>3

LEMMA CliStartStep == ASSUME IInv, NEW c \in Cli, CliStart(c) PROVE IInv'
<1> USE Constants DEF IInv, At, Goto, views
<1>1. TypeOK'
  BY DEF CliStart, TypeOK, Phase
<1>2. JobInPhase' /\ Roles' /\ LockHeld'
  BY DEF CliStart, JobInPhase, Roles, LockHeld, Publishing, Locked
<1>3. IndexRead' /\ WritesUnderCitedIndex'
  BY DEF CliStart, IndexRead, WritesUnderCitedIndex
<1> QED BY <1>1, <1>2, <1>3

LEMMA ApplyStartStep == ASSUME IInv, NEW a \in Apply, ApplyStart(a) PROVE IInv'
<1> USE Constants DEF IInv, At, Goto, views
<1>1. TypeOK'
  BY DEF ApplyStart, TypeOK, Phase
<1>2. JobInPhase' /\ Roles' /\ LockHeld'
  BY DEF ApplyStart, JobInPhase, Roles, LockHeld, Publishing, Locked
<1>3. IndexRead' /\ WritesUnderCitedIndex'
  BY DEF ApplyStart, IndexRead, WritesUnderCitedIndex
<1> QED BY <1>1, <1>2, <1>3

LEMMA GuardStep == ASSUME IInv, NEW a \in Apply, Guard(a) PROVE IInv'
<1> USE Constants DEF IInv, At, Goto, views
<1>1. TypeOK'
  BY DEF Guard, TypeOK, Phase
<1>2. JobInPhase' /\ Roles' /\ LockHeld'
  BY DEF Guard, JobInPhase, Roles, LockHeld, Publishing, Locked
<1>3. IndexRead' /\ WritesUnderCitedIndex'
  BY DEF Guard, Binds, CitedIsIndexed, IndexRead, WritesUnderCitedIndex
<1> QED BY <1>1, <1>2, <1>3

LEMMA WriteStep == ASSUME IInv, NEW a \in Apply, Write(a) PROVE IInv'
<1> USE Constants DEF IInv, At, Goto, views
<1>1. TypeOK'
  <2>1. pc' \in [Thread -> Phase]
    BY DEF Write, TypeOK, Phase
  <2>2. job' \in [Thread -> JobSet]
    <3>1. [job[a] EXCEPT !.writes = 1] \in JobSet
      BY Jobs DEF JobSet
    <3>2. job' = [job EXCEPT ![a] = [job[a] EXCEPT !.writes = 1]]
      BY Jobs DEF Write
    <3> QED BY <3>1, <3>2, Jobs
  <2> QED BY <2>1, <2>2 DEF Write, TypeOK, JobSet
<1>2. JobInPhase' /\ Roles' /\ LockHeld'
  BY DEF Write, JobInPhase, Roles, LockHeld, Publishing, Locked
<1>3. IndexRead' /\ WritesUnderCitedIndex'
  BY DEF Write, IndexRead, WritesUnderCitedIndex
<1> QED BY <1>1, <1>2, <1>3

LEMMA AppliedStep == ASSUME IInv, NEW a \in Apply, Applied(a) PROVE IInv'
<1> USE Constants DEF IInv, At, Goto, views
<1>1. TypeOK'
  <2>1. pc' \in [Thread -> Phase]
    BY DEF Applied, Finish, TypeOK, Phase
  <2>2. job' \in [Thread -> JobSet]
    BY IdleJobType DEF Applied, Finish, TypeOK, JobSet
  <2> QED BY <2>1, <2>2 DEF Applied, Unlock, Finish, IdleJob, TypeOK
<1>2. JobInPhase' /\ Roles' /\ LockHeld'
  BY DEF Applied, Finish, TypeOK, JobInPhase, Roles, LockHeld, Publishing, Locked
<1>3. IndexRead' /\ WritesUnderCitedIndex'
  BY DEF Applied, Finish, IndexRead, WritesUnderCitedIndex
<1> QED BY <1>1, <1>2, <1>3

LEMMA StopStep == ASSUME IInv, NEW t \in Thread, Stop(t) PROVE IInv'
<1> USE Constants DEF IInv, At, Goto, views
<1>1. TypeOK'
  <2>1. pc' \in [Thread -> Phase]
    BY DEF Stop, Finish, TypeOK, Phase
  <2>2. job' \in [Thread -> JobSet]
    BY IdleJobType DEF Stop, Finish, TypeOK, JobSet
  <2> QED BY <2>1, <2>2 DEF Stop, Unlock, Finish, IdleJob, TypeOK
<1>2. JobInPhase' /\ Roles' /\ LockHeld'
    BY DEF Stop, Unlock, Finish, TypeOK, JobInPhase, Roles, LockHeld, Publishing,
     Prepared, Locked
<1>3. IndexRead' /\ WritesUnderCitedIndex'
  BY DEF Stop, Finish, TypeOK, IndexRead, WritesUnderCitedIndex
<1> QED BY <1>1, <1>2, <1>3

LEMMA FolderChangesStep == ASSUME IInv, FolderChanges PROVE IInv'
<1> USE Constants DEF IInv, At, Goto, views
<1>1. TypeOK'
  BY DEF FolderChanges, TypeOK, Folder
<1>2. JobInPhase' /\ Roles' /\ LockHeld'
  BY DEF FolderChanges, JobInPhase, Roles, LockHeld
<1>3. IndexRead' /\ WritesUnderCitedIndex'
    BY DEF FolderChanges, TypeOK, JobInPhase, IndexRead, WritesUnderCitedIndex,
     Publishing, Folder
<1> QED BY <1>1, <1>2, <1>3

LEMMA Inductive == IInv /\ [Next]_vars => IInv'
<1> SUFFICES ASSUME IInv, [Next]_vars PROVE IInv' OBVIOUS
<1>1. CASE SyncStart
  BY <1>1, SyncStartStep
<1>2. ASSUME NEW c \in Cli, CliStart(c) PROVE IInv'
  BY <1>2, CliStartStep
<1>3. ASSUME NEW a \in Apply, ApplyStart(a) PROVE IInv'
  BY <1>3, ApplyStartStep
<1>4. ASSUME NEW t \in Thread, Step(t) PROVE IInv'
  <2>1. CASE Lock(t) \/ Read(t) \/ Publish(t) \/ Refreshed(t)
    BY <2>1, AcquireStep, ReadStep, PublishStep, RefreshedStep
  <2>2. CASE Baseline \/ ReadCheckpoint \/ PublishData \/ PublishExcel \/ Complete
        BY <2>2, BaselineStep, ReadCheckpointStep, PublishDataStep, PublishExcelStep,
       CompleteStep
  <2>3. CASE NoIndex \/ Status \/ Query \/ Searched
    BY <2>3, NoIndexStep, StatusStep, QueryStep, SearchedStep
  <2>4. ASSUME NEW a \in Apply, Propose(a) PROVE IInv'
    BY <2>4, ProposeStep
  <2>5. CASE t \in Apply /\ (Guard(t) \/ Write(t) \/ Applied(t))
    BY <2>5, GuardStep, WriteStep, AppliedStep
  <2> QED BY <1>4, <2>1, <2>2, <2>3, <2>4, <2>5 DEF Step
<1>5. ASSUME NEW t \in Thread, Stop(t) PROVE IInv'
  BY <1>5, StopStep
<1>6. CASE FolderChanges
  BY <1>6, FolderChangesStep
<1>7. CASE UNCHANGED vars
  BY <1>7 DEF vars, views, IInv, TypeOK, JobInPhase, Roles, LockHeld, IndexRead,
     WritesUnderCitedIndex, At
<1> QED BY <1>1, <1>2, <1>3, <1>4, <1>5, <1>6, <1>7 DEF Next

THEOREM Invariance == Spec => []IInv
<1> QED BY Initially, Inductive, PTL DEF Spec

\* Every variable keeps its type, for any number of commands and applies and any
\* number of states of the folder.
THEOREM TypeCorrect == Spec => []TypeOK
<1>1. IInv => TypeOK
  BY DEF IInv
<1> QED BY <1>1, Invariance, PTL

\* While an apply writes, the index is the one its proposal is bound to and
\* cites: the lock it holds keeps every refresh, of the plugin and of the command
\* line, from publishing another.
THEOREM WritesUnderCited == Spec => []WritesUnderCitedIndex
<1>1. IInv => WritesUnderCitedIndex
  BY DEF IInv
<1> QED BY <1>1, Invariance, PTL

\* A refresh never replaces the index by an older state of the folder: whoever
\* is about to publish has read the folder after everyone who published before.
THEOREM NeverReplacedByOlder == Spec => IndexNeverGoesBack
<1>1. IInv /\ [Next]_vars => [NeverBack]_vars
  <2> SUFFICES ASSUME IInv, Next PROVE NeverBack OBVIOUS
  <2> USE Constants
  <2>1. ASSUME NEW t \in Thread, Publish(t) PROVE NeverBack
    <3>1. index' = job[t].taken /\ job[t].taken \in Folder
      BY <2>1 DEF Publish, IInv, JobInPhase, Publishing, At
    <3>2. index # None => index <= job[t].taken
      BY <2>1 DEF Publish, IInv, IndexRead
    <3> QED BY <3>1, <3>2 DEF NeverBack
  <2>2. CASE UNCHANGED index
    <3>1. index # None => index \in Nat
      BY DEF IInv, TypeOK
    <3> QED BY <2>2, <3>1 DEF NeverBack
  <2>3. UNCHANGED index \/ \E t \in Thread : Publish(t)
    BY DEF Next, Step, SyncStart, CliStart, ApplyStart, Lock, Acquire, LockTimeout, Read,
       Refreshed, Baseline, ReadCheckpoint, PublishData, PublishExcel, Stage, SetCurrent,
       SaveRow, Complete, NoIndex, Status, Query, Searched, Propose, Guard, Write, Applied,
       Stop, FolderChanges
  <2> QED BY <2>1, <2>2, <2>3
<1> QED BY <1>1, Invariance, PTL DEF Spec, IndexNeverGoesBack

-----------------------------------------------------------------------------
(* The views: one T0 for all of them, and no pointer ahead of what it names.  *)

Started == Prepared \ {"checkpoint"}

\* The T0 of the bootstrap checkpoint is the only one there is.
Baselines ==
  /\ row["data"] # None => boot # None /\ row["data"].t0 = boot.t0
  /\ \A l \in Layer, g \in Number : dirs[l][g] # None => boot # None /\ dirs[l][g] = boot.t0
  /\ pc[Sync] \in Prepared => boot # None /\ job[Sync].base.t0 = boot.t0
  /\ pc[Sync] \in Started => job[Sync].t0 = boot.t0

\* What a sync that publishes a view knows of the views before it.
Pointers ==
  /\ PointersFollow
  /\ current["excel"] # None => current["excel"] <= syncs
  /\ ~At(Sync, "idle") => job[Sync].number = syncs
  /\ pc[Sync] \in {"unlock", "stage", "current", "save"} =>
       /\ index # None /\ job[Sync].taken <= index
       /\ current["data"] # None => current["data"] <= job[Sync].taken
  /\ At(Sync, "current") => dirs["data"][job[Sync].taken] # None
  /\ At(Sync, "save") => current["data"] = job[Sync].taken
  /\ At(Sync, "excelcurrent") => dirs["excel"][job[Sync].number] # None
  /\ At(Sync, "excelsave") => current["excel"] = job[Sync].number

VInv == IInv /\ Baselines /\ Pointers

LEMMA AcquireViews == ASSUME VInv, NEW t \in Thread, Lock(t) PROVE Baselines' /\ Pointers'
<1> USE Constants DEF VInv, IInv, At, Goto, views
<1>1. Baselines'
  BY DEF Lock, Acquire, LockTimeout, Finish, TypeOK, Baselines, Started, Prepared
<1>2. Pointers'
  BY DEF Lock, Acquire, LockTimeout, Finish, TypeOK, Pointers, PointersFollow
<1> QED BY <1>1, <1>2

LEMMA ReadViews == ASSUME VInv, NEW t \in Thread, Read(t) PROVE Baselines' /\ Pointers'
<1> USE Constants DEF VInv, IInv, At, Goto, views
<1>1. Baselines'
  BY DEF Read, Baselines, Started, Prepared
<1>2. Pointers'
  BY DEF Read, Pointers, PointersFollow
<1> QED BY <1>1, <1>2

LEMMA PublishViews == ASSUME VInv, NEW t \in Thread, Publish(t) PROVE Baselines' /\ Pointers'
<1> USE Constants DEF VInv, IInv, At, Goto, views
<1>1. Baselines'
  BY DEF Publish, TypeOK, Baselines, Started, Prepared, Layer
<1>2. Pointers'
  <2>1. index' = job[t].taken /\ index' \in Nat /\ (index # None => index \in Nat /\ index <= index')
    BY DEF Publish, TypeOK, JobInPhase, Publishing, IndexRead
  <2>2. UNCHANGED <<dirs, current, row, boot, job, syncs>>
    BY DEF Publish
  <2>3. pc' = [pc EXCEPT ![t] = "unlock"] /\ pc[t] = "publish"
    BY DEF Publish
  <2>4. \A l \in Layer : current[l] # None => current[l] \in Nat
    BY DEF TypeOK
  <2>5. PointersFollow'
    BY <2>1, <2>2, <2>4 DEF Pointers, PointersFollow, Layer
  <2>6. CASE t = Sync
    BY <2>1, <2>2, <2>3, <2>4, <2>5, <2>6 DEF Pointers, PointersFollow, TypeOK, Layer
  <2>7. CASE t # Sync
    <3>1. pc'[Sync] = pc[Sync]
      BY <2>3, <2>7 DEF TypeOK
    <3>2. pc[Sync] \in {"unlock", "stage", "current", "save"} => job[Sync].taken \in Nat
      BY DEF JobInPhase, Publishing
    <3> QED BY <2>1, <2>2, <2>4, <2>5, <3>1, <3>2 DEF Pointers, PointersFollow
  <2> QED BY <2>6, <2>7
<1> QED BY <1>1, <1>2

LEMMA RefreshedViews == ASSUME VInv, NEW t \in Thread, Refreshed(t) PROVE Baselines' /\ Pointers'
<1> USE Constants DEF VInv, IInv, At, Goto, views
<1>1. Baselines'
  BY DEF Refreshed, Finish, TypeOK, Baselines, Started, Prepared
<1>2. Pointers'
  BY DEF Refreshed, Finish, TypeOK, Pointers, PointersFollow
<1> QED BY <1>1, <1>2

LEMMA SyncStartViews == ASSUME VInv, SyncStart PROVE Baselines' /\ Pointers'
<1> USE Constants DEF VInv, IInv, At, Goto, views
<1>1. Baselines'
  BY DEF SyncStart, Baselines, Started, Prepared
<1>2. Pointers'
  BY DEF SyncStart, TypeOK, Pointers, PointersFollow, Layer
<1> QED BY <1>1, <1>2

LEMMA BaselineViews == ASSUME VInv, Baseline PROVE Baselines' /\ Pointers'
<1> USE Constants DEF VInv, IInv, At, Goto, views
<1>1. Baselines'
  <2>1. boot' \in Boot /\ (boot # None => boot' = boot)
    BY DEF Baseline, TypeOK, Boot, JobInPhase
  <2>2. boot' # None
    BY <2>1
  <2>3. job'[Sync].base = boot' /\ pc'[Sync] = "checkpoint"
    BY Jobs DEF Baseline, TypeOK, JobSet
  <2>4. UNCHANGED <<dirs, row>>
    BY DEF Baseline
  <2> QED BY <2>1, <2>2, <2>3, <2>4 DEF Baselines, Started, Prepared
<1>2. Pointers'
  BY DEF Baseline, Pointers, PointersFollow
<1> QED BY <1>1, <1>2

LEMMA ReadCheckpointViews == ASSUME VInv, ReadCheckpoint PROVE Baselines' /\ Pointers'
<1> USE Constants DEF VInv, IInv, At, Goto, views
<1>1. Baselines'
  BY DEF ReadCheckpoint, TypeOK, Baselines, Prepared
<1>2. Pointers'
  BY DEF ReadCheckpoint, Pointers, PointersFollow
<1> QED BY <1>1, <1>2

LEMMA PublishDataViews == ASSUME VInv, PublishData PROVE Baselines' /\ Pointers'
<1> USE Constants DEF VInv, IInv, At, Goto, views
<1>1. Baselines'
    BY DEF PublishData, Stage, SetCurrent, SaveRow, TypeOK, Baselines, Started, Prepared,
     Layer, Boot
<1>2. Pointers'
  <2>1. job[Sync].taken \in Number /\ job[Sync].t0 \in Number
    <3>1. pc[Sync] \in Publishing /\ pc[Sync] \in Started
      BY DEF PublishData, Publishing, Started, Prepared
    <3>2. job[Sync].taken \in Number
      BY <3>1 DEF JobInPhase
    <3>3. boot \in Boot /\ job[Sync].t0 = boot.t0
      BY <3>1 DEF Baselines, Started, TypeOK
    <3> QED BY <3>2, <3>3 DEF Boot
  <2>2. \A l \in Layer : current[l] # None => current[l] \in Nat
    BY DEF TypeOK
  <2> USE <2>1, <2>2 DEF TypeOK, Pointers, PointersFollow, Layer
  <2>3. CASE At(Sync, "stage") /\ Stage("data", job[Sync].taken, job[Sync].t0, "current")
    <3>1. \A l \in Layer, g \in Number : dirs[l][g] # None => dirs'[l][g] # None
      BY <2>3 DEF Stage
    <3>2. dirs'["data"][job[Sync].taken] # None
      BY <2>3 DEF Stage
    <3>3. PointersFollow'
      BY <2>3, <3>1 DEF Stage
    <3> QED BY <2>3, <3>2, <3>3 DEF Stage
  <2>4. CASE At(Sync, "current") /\ SetCurrent("data", job[Sync].taken, "save")
    <3>1. /\ current'["data"] = job[Sync].taken /\ current'["excel"] = current["excel"]
          /\ UNCHANGED <<dirs, row, index, job, syncs>> /\ pc' = [pc EXCEPT ![Sync] = "save"]
      BY <2>4 DEF SetCurrent
    <3>2. /\ index # None /\ index \in Nat /\ job[Sync].taken \in Nat /\ job[Sync].taken <= index
          /\ current["data"] # None => current["data"] <= job[Sync].taken
          /\ dirs["data"][job[Sync].taken] # None
      BY <2>4
    <3>3. row["data"] # None => row["data"].generation \in Nat
      BY DEF Row
    <3>4. row'["data"] # None => current'["data"] # None /\ row'["data"].generation <= current'["data"]
      BY <3>1, <3>2, <3>3
    <3>5. PointersFollow'
      BY <3>1, <3>2, <3>4
    <3>6. pc'[Sync] = "save"
      BY <3>1
    <3>7. current["excel"] # None => current["excel"] <= syncs
      OBVIOUS
    <3>8. job[Sync].number = syncs
      BY <2>4
    <3> HIDE DEF PointersFollow, TypeOK
    <3> QED BY <3>1, <3>2, <3>5, <3>6, <3>7, <3>8
  <2>5. CASE At(Sync, "save") /\ SaveRow("data", job[Sync].taken, job[Sync].t0, "excelstage")
    <3>1. PointersFollow'
      BY <2>5 DEF SaveRow
    <3> QED BY <2>5, <3>1 DEF SaveRow
  <2> QED BY <2>3, <2>4, <2>5 DEF PublishData
<1> QED BY <1>1, <1>2

LEMMA PublishExcelViews == ASSUME VInv, PublishExcel PROVE Baselines' /\ Pointers'
<1> USE Constants DEF VInv, IInv, At, Goto, views
<1>1. Baselines'
    BY DEF PublishExcel, Stage, SetCurrent, SaveRow, TypeOK, Baselines, Started, Prepared,
     Publishing, Layer, Row
<1>2. Pointers'
  <2>1. /\ job[Sync].number \in Number /\ job[Sync].number = syncs /\ syncs \in Nat
        /\ job[Sync].base.t0 \in Number
    BY DEF PublishExcel, TypeOK, JobInPhase, Pointers, Prepared, Boot
  <2>2. \A l \in Layer : current[l] # None => current[l] \in Nat
    BY DEF TypeOK
  <2> USE <2>1, <2>2 DEF TypeOK, Pointers, PointersFollow, Layer
  <2>3. CASE /\ At(Sync, "excelstage")
             /\ Stage("excel", job[Sync].number, job[Sync].base.t0, "excelcurrent")
    <3>1. \A l \in Layer, g \in Number : dirs[l][g] # None => dirs'[l][g] # None
      BY <2>3 DEF Stage
    <3>2. dirs'["excel"][job[Sync].number] # None
      BY <2>3 DEF Stage
    <3>3. PointersFollow'
      BY <2>3, <3>1 DEF Stage
    <3> QED BY <2>3, <3>2, <3>3 DEF Stage
  <2>4. CASE At(Sync, "excelcurrent") /\ SetCurrent("excel", job[Sync].number, "excelsave")
    <3>1. PointersFollow'
      <4>1. row["excel"] # None => row["excel"].generation \in Nat
        BY DEF Row
      <4> QED BY <2>4, <4>1 DEF SetCurrent
    <3> QED BY <2>4, <3>1 DEF SetCurrent
  <2>5. CASE At(Sync, "excelsave") /\ SaveRow("excel", job[Sync].number, None, "complete")
    <3>1. PointersFollow'
      BY <2>5 DEF SaveRow
    <3> QED BY <2>5, <3>1 DEF SaveRow
  <2> QED BY <2>3, <2>4, <2>5 DEF PublishExcel
<1> QED BY <1>1, <1>2

LEMMA CompleteViews == ASSUME VInv, Complete PROVE Baselines' /\ Pointers'
<1> USE Constants DEF VInv, IInv, At, Goto, views
<1>1. Baselines'
  <2>1. job[Sync].base \in Boot /\ job[Sync].base.t0 = boot.t0 /\ boot \in Boot
    BY DEF Complete, TypeOK, JobInPhase, Baselines, Prepared
  <2>2. boot' \in Boot /\ boot'.t0 = boot.t0 /\ boot # None
    BY <2>1 DEF Complete, Boot, Baselines, Prepared
  <2>3. boot' # None
    BY <2>2
  <2>4. pc'[Sync] = "searchlock" /\ UNCHANGED <<dirs, row>>
    BY DEF Complete, TypeOK
  <2> QED BY <2>2, <2>3, <2>4 DEF Baselines, Started, Prepared
<1>2. Pointers'
  BY DEF Complete, Pointers, PointersFollow
<1> QED BY <1>1, <1>2

LEMMA NoIndexViews == ASSUME VInv, NoIndex PROVE Baselines' /\ Pointers'
<1> USE Constants DEF VInv, IInv, At, Goto, views
<1>1. Baselines'
  BY DEF NoIndex, Finish, Baselines, Started, Prepared
<1>2. Pointers'
  BY DEF NoIndex, Finish, TypeOK, Pointers, PointersFollow
<1> QED BY <1>1, <1>2

LEMMA StatusViews == ASSUME VInv, Status PROVE Baselines' /\ Pointers'
<1> USE Constants DEF VInv, IInv, At, Goto, views
<1>1. Baselines'
  BY DEF Status, Baselines, Started, Prepared
<1>2. Pointers'
  BY DEF Status, Pointers, PointersFollow
<1> QED BY <1>1, <1>2

LEMMA QueryViews == ASSUME VInv, Query PROVE Baselines' /\ Pointers'
<1> USE Constants DEF VInv, IInv, At, Goto, views
<1>1. Baselines'
  BY DEF Query, Baselines, Started, Prepared
<1>2. Pointers'
  BY DEF Query, Pointers, PointersFollow
<1> QED BY <1>1, <1>2

LEMMA SearchedViews == ASSUME VInv, Searched PROVE Baselines' /\ Pointers'
<1> USE Constants DEF VInv, IInv, At, Goto, views
<1>1. Baselines'
  BY DEF Searched, Baselines, Started, Prepared
<1>2. Pointers'
  BY DEF Searched, Pointers, PointersFollow
<1> QED BY <1>1, <1>2

LEMMA ProposeViews == ASSUME VInv, NEW a \in Apply, Propose(a) PROVE Baselines' /\ Pointers'
<1> USE Constants DEF VInv, IInv, At, Goto, views
<1>1. Baselines'
  BY DEF Propose, Finish, Baselines, Started, Prepared
<1>2. Pointers'
  BY DEF Propose, Finish, TypeOK, Pointers, PointersFollow
<1> QED BY <1>1, <1>2

LEMMA CliStartViews == ASSUME VInv, NEW c \in Cli, CliStart(c) PROVE Baselines' /\ Pointers'
<1> USE Constants DEF VInv, IInv, At, Goto, views
<1>1. Baselines'
  BY DEF CliStart, Baselines
<1>2. Pointers'
  BY DEF CliStart, Pointers, PointersFollow
<1> QED BY <1>1, <1>2

LEMMA ApplyStartViews == ASSUME VInv, NEW a \in Apply, ApplyStart(a) PROVE Baselines' /\ Pointers'
<1> USE Constants DEF VInv, IInv, At, Goto, views
<1>1. Baselines'
  BY DEF ApplyStart, Baselines
<1>2. Pointers'
  BY DEF ApplyStart, Pointers, PointersFollow
<1> QED BY <1>1, <1>2

LEMMA GuardViews == ASSUME VInv, NEW a \in Apply, Guard(a) PROVE Baselines' /\ Pointers'
<1> USE Constants DEF VInv, IInv, At, Goto, views
<1>1. Baselines'
  BY DEF Guard, Baselines
<1>2. Pointers'
  BY DEF Guard, Pointers, PointersFollow
<1> QED BY <1>1, <1>2

LEMMA WriteViews == ASSUME VInv, NEW a \in Apply, Write(a) PROVE Baselines' /\ Pointers'
<1> USE Constants DEF VInv, IInv, At, Goto, views
<1>1. Baselines'
  BY DEF Write, Baselines
<1>2. Pointers'
  BY DEF Write, Pointers, PointersFollow
<1> QED BY <1>1, <1>2

LEMMA AppliedViews == ASSUME VInv, NEW a \in Apply, Applied(a) PROVE Baselines' /\ Pointers'
<1> USE Constants DEF VInv, IInv, At, Goto, views
<1>1. Baselines'
  BY DEF Applied, Finish, TypeOK, Roles, Baselines, Started, Prepared, Layer
<1>2. Pointers'
  BY DEF Applied, Finish, Pointers, PointersFollow
<1> QED BY <1>1, <1>2

LEMMA StopViews == ASSUME VInv, NEW t \in Thread, Stop(t) PROVE Baselines' /\ Pointers'
<1> USE Constants DEF VInv, IInv, At, Goto, views
<1>1. Baselines'
  BY DEF Stop, Finish, TypeOK, Baselines, Started, Prepared
<1>2. Pointers'
  BY DEF Stop, Finish, TypeOK, Pointers, PointersFollow
<1> QED BY <1>1, <1>2

LEMMA FolderChangesViews == ASSUME VInv, FolderChanges PROVE Baselines' /\ Pointers'
<1> USE Constants DEF VInv, IInv, At, Goto, views
<1>1. Baselines'
  BY DEF FolderChanges, Baselines
<1>2. Pointers'
  BY DEF FolderChanges, Pointers, PointersFollow
<1> QED BY <1>1, <1>2

LEMMA InitialViews == Init => Baselines /\ Pointers
<1> SUFFICES ASSUME Init PROVE Baselines /\ Pointers OBVIOUS
<1> USE Constants
<1> QED BY DEF Init, Baselines, Pointers, PointersFollow, Started, Prepared, At, Layer

LEMMA InductiveViews == VInv /\ [Next]_vars => VInv'
<1> SUFFICES ASSUME VInv, [Next]_vars PROVE Baselines' /\ Pointers'
  BY Inductive DEF VInv
<1>1. CASE SyncStart
  BY <1>1, SyncStartViews
<1>2. ASSUME NEW c \in Cli, CliStart(c) PROVE Baselines' /\ Pointers'
  BY <1>2, CliStartViews
<1>3. ASSUME NEW a \in Apply, ApplyStart(a) PROVE Baselines' /\ Pointers'
  BY <1>3, ApplyStartViews
<1>4. ASSUME NEW t \in Thread, Step(t) PROVE Baselines' /\ Pointers'
  <2>1. CASE Lock(t) \/ Read(t) \/ Publish(t) \/ Refreshed(t)
    BY <2>1, AcquireViews, ReadViews, PublishViews, RefreshedViews
  <2>2. CASE Baseline \/ ReadCheckpoint \/ PublishData \/ PublishExcel \/ Complete
    BY <2>2, BaselineViews, ReadCheckpointViews, PublishDataViews, PublishExcelViews,
       CompleteViews
  <2>3. CASE NoIndex \/ Status \/ Query \/ Searched
    BY <2>3, NoIndexViews, StatusViews, QueryViews, SearchedViews
  <2>4. ASSUME NEW a \in Apply, Propose(a) PROVE Baselines' /\ Pointers'
    BY <2>4, ProposeViews
  <2>5. CASE t \in Apply /\ (Guard(t) \/ Write(t) \/ Applied(t))
    BY <2>5, GuardViews, WriteViews, AppliedViews
  <2> QED BY <1>4, <2>1, <2>2, <2>3, <2>4, <2>5 DEF Step
<1>5. ASSUME NEW t \in Thread, Stop(t) PROVE Baselines' /\ Pointers'
  BY <1>5, StopViews
<1>6. CASE FolderChanges
  BY <1>6, FolderChangesViews
<1>7. CASE UNCHANGED vars
  BY <1>7 DEF vars, views, VInv, Baselines, Pointers, PointersFollow, At
<1> QED BY <1>1, <1>2, <1>3, <1>4, <1>5, <1>6, <1>7 DEF Next

THEOREM ViewInvariance == Spec => []VInv
<1>1. Init => VInv
  BY Initially, InitialViews DEF VInv
<1> QED BY <1>1, InductiveViews, PTL DEF Spec

\* Wherever syncs and refreshes are cut off, CURRENT names a directory that is
\* complete, a checkpoint names what CURRENT has named, and the view of the folder
\* is no newer than the index.
THEOREM PointersNeverAhead == Spec => []PointersFollow
<1>1. VInv => PointersFollow
  BY DEF VInv, Pointers
<1> QED BY <1>1, ViewInvariance, PTL

\* The bootstrap checkpoint keeps the T0 of the first command, and every view and
\* checkpoint is written with that T0.
THEOREM OneBaselineForEver == Spec => BaselineIsKept
<1>1. VInv /\ VInv' /\ [Next]_vars => [OneBaseline]_vars
  <2> SUFFICES ASSUME VInv, VInv', Next PROVE OneBaseline OBVIOUS
  <2>1. /\ row'["data"] # None => row'["data"].t0 = boot'.t0
        /\ \A l \in Layer, g \in Number : dirs'[l][g] # None => dirs'[l][g] = boot'.t0
    BY DEF VInv, Baselines
  <2>2. boot # None => boot'.t0 = boot.t0
    <3>1. CASE Baseline
      BY <3>1 DEF Baseline
    <3>2. CASE Complete
      BY <3>2 DEF Complete, VInv, Baselines
    <3>3. CASE UNCHANGED boot
      BY <3>3
    <3>4. UNCHANGED boot \/ Baseline \/ Complete
      BY DEF Next, Step, SyncStart, CliStart, ApplyStart, Lock, Acquire, LockTimeout, Read,
         Publish, Refreshed, ReadCheckpoint, PublishData, PublishExcel, Stage, SetCurrent,
         SaveRow, NoIndex, Status, Query, Searched, Propose, Guard, Write, Applied, Stop,
         FolderChanges, views
    <3> QED BY <3>1, <3>2, <3>3, <3>4
  <2> QED BY <2>1, <2>2 DEF OneBaseline
<1> QED BY <1>1, ViewInvariance, PTL DEF Spec, BaselineIsKept
=============================================================================
