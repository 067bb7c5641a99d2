----------------------------- MODULE WikiRefresh -----------------------------
(* One refresh of the Wiki index from a local source folder that people keep  *)
(* changing: the scans and the delta of adapters/local_directory.py, the      *)
(* catalog and the documents of knowledge/refresh.py, the generation that     *)
(* knowledge/index.py publishes.  WikiGeneration has the lock around it and   *)
(* what happens to the generation afterwards.                                 *)
(*                                                                            *)
(* A scan reads the folder entry by entry, so what it returns need not be any *)
(* state the folder was in.  The folder is one level of top-level folders     *)
(* with files.  A file is what has one inode: an editor that saves by         *)
(* replacing the file deletes one File and creates another.  Every change     *)
(* gives a file or folder it touches times it never had (the stamps).         *)
EXTENDS Naturals, FiniteSets

CONSTANTS
  Folder,        \* the top-level folders, numbered in the order of the scan
  File,          \* numbered in the order of their paths in a folder
  Policy,        \* configurations of the Wiki
  Roots,         \* [Policy -> its include roots, a set of folders]
  Refused,       \* files whose size, extension or path the policy refuses
  Unreadable,    \* files the isolated extractor rejects
  MaxDocuments,  \* max_documents
  MaxAttempts,   \* _FULL_CATALOG_MAX_ATTEMPTS (3 in the code)
  MaxEdits,      \* bound on the changes of the source and the configuration
  None

Item  == Folder \cup File
Stamp == 0 .. MaxEdits

\* The entry of a file or folder, what a scan returns and has got so far, and a
\* document with the version of the text it holds.
Entry    == [stamp : Stamp, folder : Folder, named : BOOLEAN]
Snapshot == [Item -> Entry \cup {None}]
Scan     == [names : [Folder -> BOOLEAN], folder : Folder \cup {None}, todo : SUBSET Item,
             got : Snapshot]
Document   == [entry : Entry, content : Stamp]
Generation == [policy : Policy, cursor : Snapshot,
               document : [File -> Document \cup {None}],
               quarantine : [File -> Entry \cup {None}]]

ASSUME RefreshAssumption ==
  /\ Folder \subseteq Nat /\ File \subseteq Nat /\ Folder \cap File = {}
  /\ Roots \in [Policy -> SUBSET Folder]
  /\ Refused \subseteq File /\ Unreadable \subseteq File
  /\ MaxDocuments \in Nat /\ MaxAttempts \in Nat \ {0} /\ MaxEdits \in Nat
  /\ None \notin Nat \cup Policy \cup Entry \cup Document
  /\ None \notin Snapshot /\ None \notin Scan \cup Generation

VARIABLES
  \* the source and the configuration
  where,   \* [File -> its folder, or None]
  stamp,   \* [Item -> the times of its last change]
  named,   \* [Folder -> it has the name the include roots may list]
  policy,  \* the configuration in force
  edits,   \* changes so far
  \* the refresh
  pc,      \* where it stands
  scan,    \* the scan it is making, or None
  job,     \* what it remembers
  \* the index file
  index,   \* the published generation, or None
  \* history, read by the properties only
  taken    \* the tree when its last full scan of the entries ended, or None

source == <<where, stamp, named, policy, edits>>
vars   == <<source, pc, scan, job, index, taken>>

-----------------------------------------------------------------------------
(* Entries and snapshots.                                                     *)

\* The entry of an item: its identity, its times and its path.
Tag(i) == IF i \in Folder THEN [stamp |-> stamp[i], folder |-> i, named |-> named[i]]
          ELSE [stamp |-> stamp[i], folder |-> where[i], named |-> named[where[i]]]

NoItems  == [i \in Item |-> None]

Exists(i) == i \in Folder \/ where[i] # None
Tree      == [i \in Item |-> IF Exists(i) THEN Tag(i) ELSE None]

\* _entry_is_included: the top folder of its path is an include root.
IsIncluded(p, e) == e # None /\ e.named /\ e.folder \in Roots[p]

\* What differs from the manifest of an earlier scan.
Changed(old, new) == {i \in Item : new[i] # None /\ new[i] # old[i]}
Gone(old, new)    == {i \in Item : old[i] # None /\ new[i] = None}

-----------------------------------------------------------------------------
(* The phases of a refresh.  In each of Scans the folder is scanned once.     *)

Scans == {"checkpoint", "walk", "catchup", "root", "delta", "final"}
Phase == Scans \cup {"idle", "select", "documents", "publish"}

IdleJob == [policy |-> None, full |-> FALSE, attempt |-> 0, first |-> NoItems,
            catalog |-> NoItems, last |-> NoItems, gone |-> {}, chosen |-> {},
            left |-> {}, read |-> [f \in File |-> None]]
Job == [policy : Policy \cup {None}, full : BOOLEAN, attempt : 0 .. MaxAttempts,
        first : Snapshot, catalog : Snapshot, last : Snapshot, gone : SUBSET Item,
        chosen : SUBSET File, left : SUBSET File, read : [File -> Stamp \cup {None}]]

TypeOK ==
  /\ where \in [File -> Folder \cup {None}]
  /\ stamp \in [Item -> Stamp]
  /\ named \in [Folder -> BOOLEAN]
  /\ policy \in Policy
  /\ edits \in 0 .. MaxEdits
  /\ pc \in Phase
  /\ scan \in Scan \cup {None}
  /\ job \in Job
  /\ index \in Generation \cup {None}
  /\ taken \in Snapshot \cup {None}

Init ==
  /\ where \in [File -> Folder \cup {None}]
  /\ stamp = [i \in Item |-> 0]
  /\ named = [d \in Folder |-> TRUE]
  /\ policy \in Policy
  /\ edits = 0
  /\ pc = "idle" /\ scan = None /\ job = IdleJob
  /\ index = None /\ taken = None

Goto(phase) == pc' = phase /\ scan' = None

\* WikiRefreshError, LocalDirectoryError: nothing is published.
Fail == Goto("idle") /\ job' = IdleJob /\ taken' = None /\ UNCHANGED <<source, index>>

-----------------------------------------------------------------------------
(* _scan_folder: the root is listed, then each folder is looked up, listed    *)
(* and its files are looked up, before the next folder.  A path that is gone  *)
(* or a file seen at two paths ends the refresh.                              *)

ListRoot ==
  /\ pc \in Scans /\ scan = None
  /\ scan' = [names |-> named, folder |-> None, todo |-> Folder, got |-> NoItems]
  /\ UNCHANGED <<source, pc, job, index, taken>>

ComesNext(i) ==
  /\ i \in scan.todo
  /\ scan.todo \cap File # {} => i \in File
  /\ \A k \in scan.todo : (i \in File <=> k \in File) => i <= k

\* The path the listing gave still leads to it.
AtPath(i) == IF i \in Folder THEN named[i] = scan.names[i]
             ELSE where[i] = scan.folder /\ named[scan.folder] = scan.names[scan.folder]

LookUp(i) ==
  /\ pc \in Scans /\ scan # None /\ ComesNext(i)
  /\ scan.todo \cap File # {} \/ scan.folder = None
  /\ IF AtPath(i) /\ scan.got[i] = None
     THEN /\ scan' = [scan EXCEPT !.todo = @ \ {i}, !.got[i] = Tag(i),
                          !.folder = IF i \in Folder THEN i
                                     ELSE IF scan.todo \cap File = {i} THEN None ELSE @]
          /\ UNCHANGED <<source, pc, job, index, taken>>
     ELSE Fail

\* The folder that was looked up last; an empty listing leaves nothing to do in it.
ListFolder ==
  /\ pc \in Scans /\ scan # None /\ scan.folder # None
  /\ scan.todo \cap File = {}
  /\ LET d == scan.folder
         listed == {f \in File : where[f] = d}
     IN  IF named[d] # scan.names[d] THEN Fail
         ELSE /\ scan' = [scan EXCEPT !.todo = @ \cup listed,
                                      !.folder = IF listed = {} THEN None ELSE d]
              /\ UNCHANGED <<source, pc, job, index, taken>>

Scanned(phase) ==
  pc = phase /\ scan # None /\ scan.todo = {} /\ scan.folder = None

-----------------------------------------------------------------------------
(* _read_consistent_full_catalog: a cursor, a walk, the delta since the       *)
(* cursor merged into the walk, and a last look at the root.                  *)

Full(p, n) == [IdleJob EXCEPT !.policy = p, !.full = TRUE, !.attempt = n]

\* A mistake: a new configuration is not noticed.
StartStale ==
  /\ pc = "idle"
  /\ IF index = None THEN Goto("checkpoint") /\ job' = Full(policy, 1)
     ELSE Goto("delta") /\ job' = [IdleJob EXCEPT !.policy = policy]
  /\ UNCHANGED <<source, index, taken>>

\* Without the index, or when it was made under another configuration, or on
\* demand, everything is read again.
Start ==
  /\ pc = "idle"
  /\ \E force \in BOOLEAN :
       IF force \/ index = None \/ index.policy # policy
       THEN Goto("checkpoint") /\ job' = Full(policy, 1)
       ELSE Goto("delta") /\ job' = [IdleJob EXCEPT !.policy = policy]
  /\ UNCHANGED <<source, index, taken>>

\* get_folder_delta_checkpoint stores the manifest of its scan.
CheckpointRead ==
  /\ Scanned("checkpoint")
  /\ job' = [job EXCEPT !.first = scan.got]
  /\ Goto("walk") /\ UNCHANGED <<source, index, taken>>

WalkRead ==
  /\ Scanned("walk")
  /\ job' = [job EXCEPT !.catalog = [i \in Item |->
                IF IsIncluded(job.policy, scan.got[i]) THEN scan.got[i] ELSE None]]
  /\ Goto("catchup") /\ UNCHANGED <<source, index, taken>>

\* A folder of the catalog, or one that belongs in it, is new, other or gone.
FolderChanged(now) ==
  \/ \E d \in Folder \cap Changed(job.first, now) :
        job.catalog[d] # None \/ IsIncluded(job.policy, now[d])
  \/ \E d \in Folder \cap Gone(job.first, now) : job.catalog[d] # None

Merged(now) ==
  [i \in Item |->
     IF i \in Changed(job.first, now)
     THEN IF i \in File /\ IsIncluded(job.policy, now[i]) THEN now[i] ELSE None
     ELSE IF i \in Gone(job.first, now) THEN None ELSE job.catalog[i]]

\* A mistake: the attempts are counted, not bounded.
RetryForever ==
  /\ job' = Full(job.policy, job.attempt + 1) /\ taken' = None
  /\ Goto("checkpoint") /\ UNCHANGED <<source, index>>

Retry ==
  IF job.attempt = MaxAttempts THEN Fail
  ELSE /\ job' = Full(job.policy, job.attempt + 1) /\ taken' = None
       /\ Goto("checkpoint") /\ UNCHANGED <<source, index>>

CatchupRead ==
  /\ Scanned("catchup")
  /\ IF FolderChanged(scan.got) THEN Retry
     ELSE /\ job' = [job EXCEPT !.catalog = Merged(scan.got), !.first = NoItems,
                                !.last = scan.got]
          /\ taken' = Tree
          /\ Goto("root") /\ UNCHANGED <<source, index>>

\* The version of the root is the hash of every entry below it.
RootRead ==
  /\ Scanned("root")
  /\ IF scan.got # job.last THEN Retry
     ELSE Goto("select") /\ UNCHANGED <<source, job, index, taken>>

\* read_folder_delta since the cursor of the index.  A folder entry says too
\* little about the files below it: everything is read again.
DeltaRead ==
  /\ Scanned("delta")
  /\ LET new == Changed(index.cursor, scan.got)
     IN  IF new \cap Folder # {}
         THEN /\ job' = Full(job.policy, 1) /\ taken' = None
              /\ Goto("checkpoint")
         ELSE /\ job' = [job EXCEPT !.last = scan.got, !.gone = Gone(index.cursor, scan.got),
                  !.catalog = [i \in Item |-> IF i \in new THEN scan.got[i] ELSE None]]
              /\ taken' = Tree /\ Goto("select")
  /\ UNCHANGED <<source, index>>

-----------------------------------------------------------------------------
(* The documents.                                                             *)

Listed  == {f \in File : job.catalog[f] # None}
Touched == Listed \cup (job.gone \cap File)

\* WikiInclusionPolicy.decide.
Allowed == {f \in Listed : IsIncluded(job.policy, job.catalog[f]) /\ f \notin Refused}

\* Documents of the index that this refresh leaves as they are.
Kept == IF job.full THEN {}
        ELSE {f \in File \ Touched : index.document[f] # None}

Before(f, g) ==
  LET a == job.catalog[f].folder
      b == job.catalog[g].folder
  IN  a < b \/ (a = b /\ f < g)

\* Those that fit, in the order of their paths; the others are quarantined.
Select ==
  /\ pc = "select"
  /\ LET fits(f) == Cardinality(Kept) + Cardinality({g \in Allowed : Before(g, f)})
                      < MaxDocuments
         chosen == {f \in Allowed : fits(f)}
     IN  job' = [job EXCEPT !.chosen = chosen, !.left = chosen]
  /\ Goto("documents") /\ UNCHANGED <<source, index, taken>>

\* _prepare_document by one of the workers: the file is found by its identity,
\* wherever it is now, and read; then its entry must still be the catalog's.
Download(f) ==
  /\ pc = "documents" /\ f \in job.left /\ job.read[f] = None
  /\ IF ~Exists(f) THEN Fail
     ELSE /\ job' = [job EXCEPT !.read[f] = stamp[f]]
          /\ UNCHANGED <<source, pc, scan, index, taken>>

Confirm(f) ==
  /\ pc = "documents" /\ f \in job.left /\ job.read[f] # None
  /\ IF Tree[f] # job.catalog[f] THEN Fail
     ELSE /\ job' = [job EXCEPT !.left = @ \ {f}]
          /\ UNCHANGED <<source, pc, scan, index, taken>>

DocumentsRead ==
  /\ pc = "documents" /\ job.left = {}
  /\ Goto("final") /\ UNCHANGED <<source, job, index, taken>>

\* A mistake: the root is looked at, not compared.
FinalReadBlind ==
  Scanned("final") /\ Goto("publish") /\ UNCHANGED <<source, job, index, taken>>

FinalRead ==
  /\ Scanned("final")
  /\ IF scan.got # job.last THEN Fail
     ELSE Goto("publish") /\ UNCHANGED <<source, job, index, taken>>

\* apply_generation: a copy of the index, or an empty one, without the rows of
\* everything that changed and with the new ones, replaces the index.
Written     == job.chosen \ Unreadable
Quarantined == Listed \ Written

NextGeneration ==
  [policy |-> job.policy,
   cursor |-> job.last,
   document |-> [f \in File |->
      IF f \in Written THEN [entry |-> job.catalog[f], content |-> job.read[f]]
      ELSE IF job.full \/ f \in Touched THEN None ELSE index.document[f]],
   quarantine |-> [f \in File |->
      IF f \in Quarantined THEN job.catalog[f]
      ELSE IF job.full \/ f \in Touched THEN None ELSE index.quarantine[f]]]

Publish ==
  /\ pc = "publish"
  /\ index' = NextGeneration
  /\ job' = IdleJob /\ taken' = None
  /\ Goto("idle") /\ UNCHANGED source

-----------------------------------------------------------------------------
(* People and programs that change the source, and the configuration.         *)

Edited(items) ==
  /\ edits < MaxEdits
  /\ edits' = edits + 1
  /\ stamp' = [i \in Item |-> IF i \in items THEN edits + 1 ELSE stamp[i]]
  /\ UNCHANGED <<policy, pc, scan, job, index, taken>>

Write(f)     == where[f] # None /\ Edited({f}) /\ UNCHANGED <<where, named>>
Place(f, d)  == /\ where[f] # d
                /\ where' = [where EXCEPT ![f] = d]
                /\ Edited({f, d} \cup ({where[f]} \ {None})) /\ UNCHANGED named
Delete(f)    == /\ where[f] # None
                /\ where' = [where EXCEPT ![f] = None]
                /\ Edited({where[f]}) /\ UNCHANGED named
Rename(d)    == /\ named' = [named EXCEPT ![d] = ~@]
                /\ Edited({d}) /\ UNCHANGED where
Configure ==
  /\ edits < MaxEdits /\ edits' = edits + 1
  /\ policy' \in Policy \ {policy}
  /\ UNCHANGED <<where, stamp, named, pc, scan, job, index, taken>>

SourceChanges ==
  \/ \E f \in File : Write(f) \/ Delete(f)
  \/ \E f \in File, d \in Folder : Place(f, d)
  \/ \E d \in Folder : Rename(d)
  \/ Configure

Work ==
  \/ ListRoot \/ ListFolder
  \/ \E i \in Item : LookUp(i)
  \/ CheckpointRead \/ WalkRead \/ CatchupRead \/ RootRead \/ DeltaRead
  \/ Select \/ DocumentsRead \/ FinalRead \/ Publish
  \/ \E f \in File : Download(f) \/ Confirm(f)

Next == Start \/ Work \/ SourceChanges

Spec == Init /\ [][Next]_vars

\* A refresh that runs goes on, and one is asked for again and again (/nx_sync).
FairSpec == Spec /\ WF_vars(Work) /\ WF_vars(Start)

-----------------------------------------------------------------------------
(* Properties.                                                                *)

\* What is to be seen of a tree under a configuration, and what the index shows:
\* a document under the version of the text it holds, a quarantined file under
\* the version of its row.
Visible(p, tree) ==
  [policy |-> p, file |-> [f \in File |-> IF IsIncluded(p, tree[f]) THEN tree[f] ELSE None]]

Shown ==
  IF index = None THEN None ELSE
  [policy |-> index.policy,
   file |-> [f \in File |->
      IF index.document[f] # None
      THEN [index.document[f].entry EXCEPT !.stamp = index.document[f].content]
      ELSE IF IsIncluded(index.policy, index.quarantine[f]) THEN index.quarantine[f]
      ELSE None]]

\* Whatever happens to the folder during the scans, the merge and the downloads,
\* what is published is the folder at one instant of the refresh: every file
\* below an include root, in the version its text was read from, and nothing else.
Snapshots == INSTANCE SourceSnapshot WITH tree <- Tree, index <- Shown
ImplementsSnapshot == Snapshots!Spec

\* When the folder and the configuration are left alone and refreshes go on, the
\* index comes to show them, and stays so.
QuietSourceIndexed == <>[](Shown = Visible(policy, Tree))
=============================================================================
