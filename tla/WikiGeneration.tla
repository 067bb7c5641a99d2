--------------------------- MODULE WikiGeneration ---------------------------
(* Who makes and who uses the generations of the Wiki: /nx_sync, the          *)
(* wiki-refresh command and the applies of proposals that cite it, around one *)
(* lock (knowledge/index.py); the views and the checkpoints a sync writes for *)
(* a generation (knowledge/projection.py, workflow/local_wiki.py and          *)
(* security/hermes_gateway.py).                                               *)
(*                                                                            *)
(* A refresh is its effect, which WikiRefresh has in detail: the source       *)
(* folder at one instant.  The plugin runs one /nx_sync at a time.  A         *)
(* generation is the number of the folder's state, or for the layer of the    *)
(* workbook the number of the sync that read it.                              *)
EXTENDS Naturals

CONSTANTS
  Cli,       \* wiki-refresh commands that may run at once
  Apply,     \* applies that may run at once, each of the proposal in its slot
  MaxEdits,  \* bound on the states of the source folder
  MaxSyncs,  \* bound on the /nx_sync commands
  MaxFaults, \* bound on the commands that end half-way
  None

Sync   == "sync"
Thread == {Sync} \cup Cli \cup Apply
Layer  == {"data", "excel"}
Folder == 0 .. MaxEdits
Number == 0 .. MaxEdits + MaxSyncs
Row    == [generation : Number, t0 : Number \cup {None}]   \* only the data row has a T0
Boot   == [t0 : Number, complete : BOOLEAN]

ASSUME GenerationAssumption ==
  /\ MaxEdits \in Nat /\ MaxSyncs \in Nat /\ MaxFaults \in Nat
  /\ Sync \notin Cli \cup Apply /\ Cli \cap Apply = {}
  /\ None \notin Nat \cup Thread \cup Boot

VARIABLES
  local,    \* source.mode is local_filesystem: a sync refreshes the Wiki itself
  tree,     \* the state of the source folder
  index,    \* the state the index file was made from, or None
  lock,     \* the thread that holds the generation lock, or None
  dirs,     \* [Layer -> [generation -> the T0 in its complete directory, or None]]
  current,  \* [Layer -> what its CURRENT file names, or None]
  row,      \* [Layer -> its ingestion checkpoint, or None]
  boot,     \* the bootstrap checkpoint: T0 and the phase, or None
  proposal, \* [Apply -> the pending proposal: its binding and its citations, or None]
  pc, job, syncs, faults

views == <<dirs, current, row, boot>>
vars  == <<local, tree, index, lock, views, proposal, pc, job, syncs, faults>>

Phase == {"idle", "baseline", "checkpoint", "lock", "refresh", "publish", "unlock",
          "stage", "current", "save", "excelstage", "excelcurrent", "excelsave",
          "complete", "searchlock", "status", "query", "searchunlock", "propose",
          "guard", "write", "release"}
IdleJob == [number |-> None, base |-> None, t0 |-> None, taken |-> None, full |-> FALSE,
            binding |-> None, cited |-> None, writes |-> 0]

TypeOK ==
  /\ local \in BOOLEAN /\ tree \in Folder /\ index \in Folder \cup {None}
  /\ lock \in Thread \cup {None}
  /\ dirs \in [Layer -> [Number -> Number \cup {None}]]
  /\ current \in [Layer -> Number \cup {None}]
  /\ row \in [Layer -> Row \cup {None}]
  /\ boot \in Boot \cup {None}
  /\ proposal \in [Apply -> [binding : Folder, cited : Folder] \cup {None}]
  /\ pc \in [Thread -> Phase]
  /\ job \in [Thread ->
        [number : Number \cup {None}, base : Boot \cup {None}, t0 : Number \cup {None},
         taken : Folder \cup {None}, full : BOOLEAN, binding : Folder \cup {None},
         cited : Folder \cup {None}, writes : 0 .. 1]]
  /\ syncs \in 0 .. MaxSyncs /\ faults \in 0 .. MaxFaults

Init ==
  /\ local \in BOOLEAN /\ tree = 0 /\ index = None /\ lock = None
  /\ dirs = [l \in Layer |-> [g \in Number |-> None]] /\ current = [l \in Layer |-> None]
  /\ row = [l \in Layer |-> None] /\ boot = None
  /\ proposal = [a \in Apply |-> None]
  /\ pc = [t \in Thread |-> "idle"] /\ job = [t \in Thread |-> IdleJob]
  /\ syncs = 0 /\ faults = 0

At(t, phase)   == pc[t] = phase
Goto(t, phase) == pc' = [pc EXCEPT ![t] = phase]
Finish(t)      == Goto(t, "idle") /\ job' = [job EXCEPT ![t] = IdleJob]

-----------------------------------------------------------------------------
(* The lock: threads of one process wait for a threading lock, processes for  *)
(* a lock on a file, and whoever waits too long gives up.                     *)

\* A mutant: a command takes the lock another one holds.
AcquireShared(t, next) ==
  /\ lock' = t
  /\ Goto(t, next)
  /\ UNCHANGED <<local, tree, index, views, proposal, job, syncs, faults>>

Acquire(t, next) ==
  /\ lock = None /\ lock' = t
  /\ Goto(t, next)
  /\ UNCHANGED <<local, tree, index, views, proposal, job, syncs, faults>>

LockTimeout(t) ==
  /\ lock # None
  /\ Finish(t)
  /\ UNCHANGED <<local, tree, index, lock, views, proposal, syncs, faults>>

\* A mutant: a holder that fails while it refreshes keeps the lock.
UnlockForgets(t) == lock' = IF lock = t /\ ~At(t, "refresh") THEN None ELSE lock

Unlock(t) == lock' = IF lock = t THEN None ELSE lock

\* Mutants: wiki-refresh does not take the lock; a sync searches without an index.
LockOrNot(t) ==
  \/ /\ t \in Cli /\ At(t, "lock") /\ Goto(t, "refresh")
     /\ UNCHANGED <<local, tree, index, lock, views, proposal, job, syncs, faults>>
  \/ t \in Apply /\ At(t, "lock") /\ (Acquire(t, "guard") \/ LockTimeout(t))
  \/ t = Sync /\ At(t, "lock") /\ (Acquire(t, "refresh") \/ LockTimeout(t))
  \/ At(t, "searchlock") /\ index # None /\ (Acquire(t, "status") \/ LockTimeout(t))
LockNoIndex(t) ==
  \/ At(t, "lock") /\ (Acquire(t, IF t \in Apply THEN "guard" ELSE "refresh") \/ LockTimeout(t))
  \/ At(t, "searchlock") /\ (Acquire(t, "status") \/ LockTimeout(t))

Lock(t) ==
  \/ At(t, "lock") /\ (Acquire(t, IF t \in Apply THEN "guard" ELSE "refresh") \/ LockTimeout(t))
  \/ At(t, "searchlock") /\ index # None /\ (Acquire(t, "status") \/ LockTimeout(t))

-----------------------------------------------------------------------------
(* A refresh, by a sync or by wiki-refresh.                                   *)

CliStart(c) ==
  /\ At(c, "idle") /\ ~local
  /\ Goto(c, "lock")
  /\ UNCHANGED <<local, tree, index, lock, views, proposal, job, syncs, faults>>

Read(t) ==
  /\ At(t, "refresh")
  /\ job' = [job EXCEPT ![t].taken = tree]
  /\ Goto(t, "publish")
  /\ UNCHANGED <<local, tree, index, lock, views, proposal, syncs, faults>>

Publish(t) ==
  /\ At(t, "publish")
  /\ index' = job[t].taken
  /\ Goto(t, "unlock")
  /\ UNCHANGED <<local, tree, lock, views, proposal, job, syncs, faults>>

Refreshed(t) ==
  /\ At(t, "unlock")
  /\ Unlock(t)
  /\ IF t = Sync THEN Goto(t, "stage") /\ UNCHANGED job ELSE Finish(t)
  /\ UNCHANGED <<local, tree, index, views, proposal, syncs, faults>>

-----------------------------------------------------------------------------
(* /nx_sync: T0, the refresh, the view of the folder and its checkpoint, the  *)
(* view of the workbook and its checkpoint, the search, the proposal.         *)

\* full_reconcile: there was no checkpoint of the workbook yet.
SyncStart ==
  /\ At(Sync, "idle") /\ syncs < MaxSyncs
  /\ syncs' = syncs + 1
  /\ \E full \in BOOLEAN :
       job' = [job EXCEPT ![Sync] = [IdleJob EXCEPT !.number = syncs', !.full = full]]
  /\ Goto(Sync, IF local THEN "baseline" ELSE "searchlock")
  /\ UNCHANGED <<local, tree, index, lock, views, proposal, faults>>

\* A mutant: every command sets T0.
BaselineUpsert ==
  /\ At(Sync, "baseline")
  /\ boot' = [t0 |-> job[Sync].number, complete |-> FALSE]
  /\ job' = [job EXCEPT ![Sync].base = boot']
  /\ Goto(Sync, "checkpoint")
  /\ UNCHANGED <<local, tree, index, lock, dirs, current, row, proposal, syncs, faults>>

\* INSERT OR IGNORE: the first command writes T0, every command reads it.
Baseline ==
  /\ At(Sync, "baseline")
  /\ boot' = IF boot = None THEN [t0 |-> job[Sync].number, complete |-> FALSE] ELSE boot
  /\ job' = [job EXCEPT ![Sync].base = boot']
  /\ Goto(Sync, "checkpoint")
  /\ UNCHANGED <<local, tree, index, lock, dirs, current, row, proposal, syncs, faults>>

\* The T0 of the earlier checkpoint, when there is one.
ReadCheckpoint ==
  /\ At(Sync, "checkpoint")
  /\ job' = [job EXCEPT ![Sync].t0 = IF row["data"] = None THEN job[Sync].base.t0
                                     ELSE row["data"].t0]
  /\ Goto(Sync, "lock")
  /\ UNCHANGED <<local, tree, index, lock, views, proposal, syncs, faults>>

\* The directory of a generation is put in place complete, unless there is one
\* already; then CURRENT names it, then the checkpoint does.
Stage(layer, generation, t0, next) ==
  /\ dirs' = IF dirs[layer][generation] # None THEN dirs
             ELSE [dirs EXCEPT ![layer][generation] = t0]
  /\ Goto(Sync, next)
  /\ UNCHANGED <<local, tree, index, lock, current, row, boot, proposal, job, syncs, faults>>

SetCurrent(layer, generation, next) ==
  /\ current' = [current EXCEPT ![layer] = generation]
  /\ Goto(Sync, next)
  /\ UNCHANGED <<local, tree, index, lock, dirs, row, boot, proposal, job, syncs, faults>>

SaveRow(layer, generation, t0, next) ==
  /\ row' = [row EXCEPT ![layer] = [generation |-> generation, t0 |-> t0]]
  /\ Goto(Sync, next)
  /\ UNCHANGED <<local, tree, index, lock, dirs, current, boot, proposal, job, syncs, faults>>

\* A mutant: the checkpoint is saved before CURRENT is written.
PublishDataEarly ==
  LET generation == job[Sync].taken
  IN  \/ At(Sync, "stage") /\ Stage("data", generation, job[Sync].t0, "save")
      \/ At(Sync, "save") /\ SaveRow("data", generation, job[Sync].t0, "current")
      \/ At(Sync, "current") /\ SetCurrent("data", generation, "excelstage")

PublishData ==
  LET generation == job[Sync].taken
  IN  \/ At(Sync, "stage") /\ Stage("data", generation, job[Sync].t0, "current")
      \/ At(Sync, "current") /\ SetCurrent("data", generation, "save")
      \/ At(Sync, "save") /\ SaveRow("data", generation, job[Sync].t0, "excelstage")

PublishExcel ==
  LET generation == job[Sync].number
  IN  \/ At(Sync, "excelstage") /\ Stage("excel", generation, job[Sync].base.t0, "excelcurrent")
      \/ At(Sync, "excelcurrent") /\ SetCurrent("excel", generation, "excelsave")
      \/ At(Sync, "excelsave") /\ SaveRow("excel", generation, None, "complete")

\* The first generation is complete; T0 is that of the row the command read.
Complete ==
  /\ At(Sync, "complete")
  /\ boot' = IF job[Sync].full /\ row["data"] # None
             THEN [job[Sync].base EXCEPT !.complete = TRUE] ELSE boot
  /\ Goto(Sync, "searchlock")
  /\ UNCHANGED <<local, tree, index, lock, dirs, current, row, proposal, job, syncs, faults>>

\* There is no provider before the first index: the proposal cites nothing.
NoIndex ==
  /\ At(Sync, "searchlock") /\ index = None
  /\ Finish(Sync)
  /\ UNCHANGED <<local, tree, index, lock, views, proposal, syncs, faults>>

\* AnalyzerKnowledgeProvider.prepare: the binding, then the citations.
Status ==
  /\ At(Sync, "status")
  /\ job' = [job EXCEPT ![Sync].binding = index]
  /\ Goto(Sync, "query")
  /\ UNCHANGED <<local, tree, index, lock, views, proposal, syncs, faults>>

Query ==
  /\ At(Sync, "query")
  /\ job' = [job EXCEPT ![Sync].cited = index]
  /\ Goto(Sync, "searchunlock")
  /\ UNCHANGED <<local, tree, index, lock, views, proposal, syncs, faults>>

Searched ==
  /\ At(Sync, "searchunlock")
  /\ Unlock(Sync) /\ Goto(Sync, "propose")
  /\ UNCHANGED <<local, tree, index, views, proposal, job, syncs, faults>>

Propose(a) ==
  /\ At(Sync, "propose") /\ At(a, "idle")
  /\ proposal' = [proposal EXCEPT ![a] = [binding |-> job[Sync].binding,
                                          cited |-> job[Sync].cited]]
  /\ Finish(Sync)
  /\ UNCHANGED <<local, tree, index, lock, views, syncs, faults>>

-----------------------------------------------------------------------------
(* The apply of a proposal that cites the Wiki holds the lock from before its *)
(* first check to after its last write.                                       *)

ApplyStart(a) ==
  /\ At(a, "idle") /\ proposal[a] # None
  /\ Goto(a, "lock")
  /\ UNCHANGED <<local, tree, index, lock, views, proposal, job, syncs, faults>>

CitedIsIndexed(a)  == index = proposal[a].cited
SourceUnchanged(a) == tree = proposal[a].binding
Binds(a) == index = proposal[a].binding /\ CitedIsIndexed(a) /\ SourceUnchanged(a)

\* Before every write; otherwise the proposal is stale, or has failed half-way.
Guard(a) ==
  /\ At(a, "guard")
  /\ Goto(a, IF Binds(a) THEN "write" ELSE "release")
  /\ UNCHANGED <<local, tree, index, lock, views, proposal, job, syncs, faults>>

\* Two writes stand for any number.
Write(a) ==
  /\ At(a, "write")
  /\ Goto(a, IF job[a].writes = 0 THEN "guard" ELSE "release")
  /\ job' = [job EXCEPT ![a].writes = 1]
  /\ UNCHANGED <<local, tree, index, lock, views, proposal, syncs, faults>>

Applied(a) ==
  /\ At(a, "release")
  /\ Unlock(a) /\ Finish(a)
  /\ proposal' = [proposal EXCEPT ![a] = None]
  /\ UNCHANGED <<local, tree, index, views, syncs, faults>>

-----------------------------------------------------------------------------

\* An exception or the end of the process, at any step: the lock is released by
\* the finally block or by the operating system.  A proposal cut off is applied
\* again.
Stop(t) ==
  /\ ~At(t, "idle") /\ faults < MaxFaults
  /\ faults' = faults + 1
  /\ Unlock(t) /\ Finish(t)
  /\ UNCHANGED <<local, tree, index, views, proposal, syncs>>

FolderChanges ==
  /\ tree < MaxEdits /\ tree' = tree + 1
  /\ UNCHANGED <<local, index, lock, views, proposal, pc, job, syncs, faults>>

Step(t) ==
  \/ Lock(t) \/ Read(t) \/ Publish(t) \/ Refreshed(t)
  \/ /\ t = Sync
     /\ \/ Baseline \/ ReadCheckpoint \/ PublishData \/ PublishExcel \/ Complete
        \/ NoIndex \/ Status \/ Query \/ Searched
        \/ \E a \in Apply : Propose(a)
  \/ t \in Apply /\ (Guard(t) \/ Write(t) \/ Applied(t))

Next ==
  \/ SyncStart
  \/ \E c \in Cli : CliStart(c)
  \/ \E a \in Apply : ApplyStart(a)
  \/ \E t \in Thread : Step(t) \/ Stop(t)
  \/ FolderChanges

Spec == Init /\ [][Next]_vars

\* A command that started goes on; nobody has to start one.
FairSpec == Spec /\ \A t \in Thread : WF_vars(Step(t))

-----------------------------------------------------------------------------
(* Properties.                                                                *)

\* While an apply writes, the index is the generation its proposal was made and
\* approved from, whatever refreshes are under way.
WritesUnderCitedIndex ==
  \A a \in Apply : At(a, "write") => index = proposal[a].binding /\ index = proposal[a].cited

\* No pointer runs ahead of what it points to, wherever a sync is cut off:
\* CURRENT names a directory that is complete, a checkpoint names what CURRENT
\* has named, and the view of the folder follows the index.
PointersFollow ==
  /\ \A l \in Layer :
       /\ current[l] # None => dirs[l][current[l]] # None
       /\ row[l] # None => current[l] # None /\ row[l].generation <= current[l]
  /\ current["data"] # None => index # None /\ current["data"] <= index

\* There is one T0: that of the first command, in the bootstrap checkpoint for
\* ever, in every view and in the checkpoint of the folder.
OneBaseline ==
  /\ boot # None => boot'.t0 = boot.t0
  /\ row'["data"] # None => row'["data"].t0 = boot'.t0
  /\ \A l \in Layer, g \in Number : dirs'[l][g] # None => dirs'[l][g] = boot'.t0
BaselineIsKept == [][OneBaseline]_vars

\* A refresh never puts an older state of the folder in place of a newer one:
\* it is read while nobody else may publish.
NeverBack == index # None => index' # None /\ index' >= index
IndexNeverGoesBack == [][NeverBack]_vars

\* Whoever holds the lock gives it back, also when it fails half-way.
LockIsFreed == \A t \in Thread : lock = t ~> lock # t
=============================================================================
