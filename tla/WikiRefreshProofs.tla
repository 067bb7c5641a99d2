-------------------------- MODULE WikiRefreshProofs --------------------------
(* A refresh publishes the folder as it stood at one instant, for any number  *)
(* of folders, files and changes, though no scan of it is atomic.             *)
(*                                                                            *)
(* An instant lies between two scans that agree.  Whatever is changed gets a  *)
(* stamp it never had, and so does the folder it is in.  What two scans saw   *)
(* under one stamp was not changed between the first look and the second, and *)
(* a folder that was not changed has the files it had.                        *)
EXTENDS WikiRefresh, TLAPS

-----------------------------------------------------------------------------
(* What a scan is worth.                                                      *)

\* The files a snapshot shows in folder d, and those that are there.
Found(S, d) == {f \in File : S[f] # None /\ S[f].folder = d}
Content(d)  == {f \in File : where[f] = d}

\* What a scan saw, and was not changed since, is as it saw it.
SeenFolder(S, d) ==
  /\ S[d].folder = d /\ S[d].stamp <= stamp[d]
  /\ S[d].stamp = stamp[d] => S[d].named = named[d]
SeenFile(S, f) ==
  /\ S[f].stamp <= stamp[f]
  /\ S[S[f].folder] # None /\ S[f].named = S[S[f].folder].named
  /\ S[f].stamp = stamp[f] /\ where[f] # None => where[f] = S[f].folder

Truthful(S) ==
  /\ \A d \in Folder : S[d] # None => SeenFolder(S, d)
  /\ \A f \in File : S[f] # None => SeenFile(S, f)

\* All files of folder d were seen, if it was not changed since.
Settled(S, d) == S[d].stamp = stamp[d] => Content(d) = Found(S, d)

\* A complete scan.
Whole(S) ==
  /\ S \in Snapshot
  /\ Truthful(S)
  /\ \A d \in Folder : S[d] # None /\ Settled(S, d)

\* T was seen after S.
After(S, T) ==
  \A i \in Item : S[i] # None /\ T[i] # None =>
    /\ S[i].stamp <= T[i].stamp
    /\ S[i].stamp = T[i].stamp => /\ S[i].folder = T[i].folder
                                  /\ i \in Folder => S[i].named = T[i].named

\* T was seen after W, which was seen after S: what did not change from S to T
\* has the same files in W.
Within(S, W, T) ==
  /\ After(W, T)
  /\ \A d \in Folder : T[d] # None /\ S[d].stamp = T[d].stamp => Found(S, d) = Found(W, d)

-----------------------------------------------------------------------------
(* The inductive invariant.                                                   *)

Stamped == \A i \in Item : stamp[i] <= edits

\* The scan that is being made.
Got == IF scan = None THEN NoItems ELSE scan.got

Progress(d) ==
  IF scan.folder # d THEN Settled(scan.got, d)
  ELSE IF scan.todo \cap File = {} THEN Found(scan.got, d) = {}
  ELSE scan.got[d].stamp = stamp[d] =>
         Content(d) = Found(scan.got, d) \cup (scan.todo \cap File)

Scanning ==
  scan # None =>
    /\ Truthful(scan.got)
    /\ \A d \in Folder : scan.got[d] = None <=> d \in scan.todo
    /\ \A d \in Folder : scan.got[d] # None => scan.got[d].named = scan.names[d]
    /\ scan.todo \cap File # {} => scan.folder # None
    /\ scan.folder # None => scan.got[scan.folder] # None
    /\ \A d \in Folder : scan.got[d] # None => Progress(d)

\* The catalog of a walk that was made between two scans.
Filtered(p, W) == [i \in Item |-> IF IsIncluded(p, W[i]) THEN W[i] ELSE None]
Walked ==
  \E W \in Snapshot :
    /\ Whole(W) /\ After(job.first, W) /\ Within(job.first, W, Got)
    /\ job.catalog = Filtered(job.policy, W)

\* The instant the refresh stands for is after its last scan of the entries.
Taken == taken # None /\ Whole(job.last) /\ Whole(taken) /\ After(job.last, taken)

\* The catalog is what is to be seen of that scan, or what of it is new.
Catalogued ==
  IF job.full
  THEN \A f \in File : job.catalog[f] = IF IsIncluded(job.policy, job.last[f])
                                        THEN job.last[f] ELSE None
  ELSE /\ index # None /\ index.policy = job.policy
       /\ job.gone = Gone(index.cursor, job.last)
       /\ \A f \in File : job.catalog[f] = IF f \in Changed(index.cursor, job.last)
                                           THEN job.last[f] ELSE None

\* A text that was read is no older than the entry of its file, and is its text
\* once that entry was looked at again.
Read ==
  /\ job.chosen \subseteq Allowed
  /\ \A f \in job.chosen : job.read[f] # None =>
       job.catalog[f].stamp <= job.read[f] /\ job.read[f] <= stamp[f]
  /\ \A f \in job.chosen \ job.left : job.read[f] = job.catalog[f].stamp

Phases ==
  /\ pc = "idle" => scan = None
  /\ pc \in Phase \ Scans => scan = None
  /\ pc # "idle" => job.policy # None
  /\ pc \in {"checkpoint", "walk", "catchup", "root"} => job.full
  /\ pc = "delta" => ~job.full /\ index # None /\ index.policy = job.policy
  /\ pc \in {"checkpoint", "walk", "catchup", "root", "delta", "select"} =>
       \A f \in File : job.read[f] = None
  /\ pc \in {"walk", "catchup"} => Whole(job.first)
  /\ pc = "walk" => After(job.first, Got)
  /\ pc = "catchup" => Walked
  /\ pc \in {"root", "select", "documents", "final"} => Taken
  /\ pc \in {"root", "select", "documents", "final", "publish"} => Catalogued
  /\ pc \in {"documents", "final", "publish"} => Read
  /\ pc \in {"final", "publish"} => job.left = {}
  /\ pc = "final" => Within(job.last, taken, Got)
  /\ pc = "publish" => taken # None /\ taken = job.last

\* The index holds what its cursor shows of a file.
Indexed ==
  index # None => \A f \in File :
    LET seen == index.cursor[f] IN
    /\ index.document[f] # None =>
         /\ IsIncluded(index.policy, seen)
         /\ index.document[f] = [entry |-> seen, content |-> seen.stamp]
    /\ index.quarantine[f] # None => index.quarantine[f] = seen
    /\ IsIncluded(index.policy, seen) =>
         index.document[f] # None \/ index.quarantine[f] # None

IInv == TypeOK /\ Stamped /\ Scanning /\ Phases /\ Indexed

USE RefreshAssumption

-----------------------------------------------------------------------------
(* Entries and snapshots.                                                     *)

LEMMA SnapshotType ==
  ASSUME NEW S \in Snapshot, NEW i \in Item, S[i] # None
  PROVE  S[i] \in Entry /\ S[i].stamp \in Nat /\ S[i].folder \in Folder /\ S[i].named \in BOOLEAN
<1>1. S[i] \in Entry BY DEF Snapshot
<1> QED BY <1>1 DEF Entry, Stamp

LEMMA TagType ==
  ASSUME TypeOK, NEW i \in Item, Exists(i)
  PROVE  /\ Tag(i) \in Entry /\ Tag(i) # None
         /\ Tag(i).stamp = stamp[i]
         /\ i \in Folder => Tag(i).folder = i /\ Tag(i).named = named[i]
         /\ i \in File => Tag(i).folder = where[i] /\ Tag(i).named = named[where[i]]
<1>1. stamp[i] \in Stamp BY DEF TypeOK
<1>2. CASE i \in Folder
  <2>1. Tag(i) = [stamp |-> stamp[i], folder |-> i, named |-> named[i]] BY <1>2 DEF Tag
  <2> QED BY <1>1, <1>2, <2>1 DEF TypeOK, Entry
<1>3. CASE i \notin Folder
  <2>1. i \in File /\ where[i] \in Folder BY <1>3 DEF Item, Exists, TypeOK
  <2>2. Tag(i) = [stamp |-> stamp[i], folder |-> where[i], named |-> named[where[i]]]
    BY <1>3 DEF Tag
  <2>3. named[where[i]] \in BOOLEAN BY <2>1 DEF TypeOK
  <2>4. Tag(i) \in Entry BY <1>1, <2>1, <2>2, <2>3 DEF Entry
  <2>5. Tag(i) # None BY <2>4
  <2> QED BY <1>3, <2>2, <2>4, <2>5
<1> QED BY <1>2, <1>3

LEMMA TreeWhole ==
  ASSUME TypeOK
  PROVE  Tree \in Snapshot /\ Whole(Tree)
<1>1. \A i \in Item : Tree[i] = IF Exists(i) THEN Tag(i) ELSE None BY DEF Tree
<1>2. Tree \in Snapshot BY <1>1, TagType DEF Tree, Snapshot
<1>3. \A d \in Folder : d \in Item /\ Exists(d) BY DEF Item, Exists
<1>4. \A f \in File : f \in Item /\ f \notin Folder BY DEF Item
<1>5. \A f \in File : Tree[f] # None <=> where[f] # None BY <1>1, <1>4, TagType DEF Exists
<1>6. ASSUME NEW d \in Folder
      PROVE  Tree[d] # None /\ SeenFolder(Tree, d) /\ Tree[d].named = named[d]
  <2>1. Tree[d] = Tag(d) BY <1>1, <1>3
  <2>2. stamp[d] \in Nat BY <1>3 DEF TypeOK, Stamp
  <2> QED BY <1>3, <2>1, <2>2, TagType DEF SeenFolder
<1>7. ASSUME NEW f \in File, where[f] # None
      PROVE  Tree[f].folder = where[f] /\ SeenFile(Tree, f)
  <2>1. Tree[f] = Tag(f) /\ Exists(f) BY <1>1, <1>4, <1>7 DEF Exists
  <2>2. where[f] \in Folder BY <1>7 DEF TypeOK
  <2>3. /\ Tree[f].folder = where[f] /\ Tree[f].stamp = stamp[f]
        /\ Tree[f].named = named[where[f]]
    BY <1>4, <2>1, TagType
  <2>4. stamp[f] \in Nat BY <1>4 DEF TypeOK, Stamp
  <2>5. /\ Tree[Tree[f].folder] # None
        /\ Tree[f].named = Tree[Tree[f].folder].named
    BY <1>6, <2>2, <2>3
  <2> QED BY <2>3, <2>4, <2>5 DEF SeenFile
<1>8. \A d \in Folder : Content(d) = Found(Tree, d)
  BY <1>5, <1>7 DEF Content, Found
<1> QED BY <1>2, <1>5, <1>6, <1>7, <1>8 DEF Whole, Truthful, Settled

LEMMA NothingSeen ==
  /\ NoItems \in Snapshot /\ \A i \in Item : NoItems[i] = None
  /\ Truthful(NoItems) /\ \A S : After(S, NoItems)
BY DEF NoItems, Snapshot, Truthful, After, Item

LEMMA NothingWithin ==
  ASSUME NEW S, NEW W
  PROVE  Within(S, W, NoItems)
BY NothingSeen DEF Within, Item

-----------------------------------------------------------------------------
(* The source changes.                                                        *)

\* What a change of the source leaves alone keeps its stamp, and only that.
Moved ==
  /\ \A i \in Item : stamp[i] <= stamp'[i]
  /\ \A d \in Folder : stamp'[d] = stamp[d] =>
       /\ named'[d] = named[d]
       /\ \A f \in File : where'[f] = d <=> where[f] = d
  /\ \A f \in File : stamp'[f] = stamp[f] /\ where'[f] # None => where'[f] = where[f]

LEMMA Edits ==
  ASSUME TypeOK, Stamped, SourceChanges
  PROVE  /\ where' \in [File -> Folder \cup {None}] /\ stamp' \in [Item -> Stamp]
         /\ named' \in [Folder -> BOOLEAN] /\ policy' \in Policy /\ edits' \in 0 .. MaxEdits
         /\ UNCHANGED <<pc, scan, job, index, taken>>
         /\ Stamped' /\ Moved
<1> USE DEF TypeOK, Stamped
<1>1. edits \in Nat /\ \A i \in Item : stamp[i] \in Nat BY DEF Stamp
<1>2. \A f \in File : f \in Item /\ f \notin Folder BY DEF Item
<1>3. \A d \in Folder : d \in Item /\ d # None BY DEF Item
<1>4. ASSUME NEW I \in SUBSET Item, Edited(I)
      PROVE  /\ stamp' \in [Item -> Stamp] /\ policy' \in Policy /\ edits' \in 0 .. MaxEdits
             /\ UNCHANGED <<pc, scan, job, index, taken>> /\ Stamped'
             /\ \A i \in Item : stamp[i] <= stamp'[i]
             /\ \A i \in Item : stamp'[i] = stamp[i] => i \notin I
  <2>1. edits < MaxEdits /\ edits' = edits + 1 BY <1>4 DEF Edited
  <2>2. \A i \in Item : stamp'[i] = IF i \in I THEN edits + 1 ELSE stamp[i] BY <1>4 DEF Edited
  <2>3. stamp' \in [Item -> Stamp] BY <1>1, <1>4, <2>1 DEF Edited, Stamp
  <2> QED BY <1>1, <1>4, <2>1, <2>2, <2>3 DEF Edited
<1>5. CASE \E f \in File : Write(f)
  <2>1. PICK f \in File : Write(f) BY <1>5
  <2>2. Edited({f}) /\ UNCHANGED <<where, named>> BY <2>1 DEF Write
  <2> QED BY <1>2, <1>4, <2>2 DEF Moved
<1>6. CASE \E f \in File : Delete(f)
  <2>1. PICK f \in File : Delete(f) BY <1>6
  <2>2. /\ where[f] # None /\ where' = [where EXCEPT ![f] = None]
        /\ Edited({where[f]}) /\ named' = named
    BY <2>1 DEF Delete
  <2>3. where[f] \in Folder BY <2>2
  <2>4. \A g \in File : where'[g] = IF g = f THEN None ELSE where[g] BY <2>2
  <2>5. where' \in [File -> Folder \cup {None}] BY <2>2
  <2>6. \A d \in Folder : stamp'[d] = stamp[d] => d # where[f] BY <1>3, <1>4, <2>2, <2>3
  <2>7. \A d \in Folder : stamp'[d] = stamp[d] => \A g \in File : where'[g] = d <=> where[g] = d
    BY <1>3, <2>4, <2>6
  <2>8. \A g \in File : where'[g] # None => where'[g] = where[g] BY <2>4
  <2>9. {where[f]} \in SUBSET Item BY <1>3, <2>3
  <2> QED BY <1>4, <2>2, <2>5, <2>7, <2>8, <2>9 DEF Moved
<1>7. CASE \E f \in File, d \in Folder : Place(f, d)
  <2>1. PICK f \in File, c \in Folder : Place(f, c) BY <1>7
  <2>2. /\ where[f] # c /\ where' = [where EXCEPT ![f] = c] /\ named' = named
        /\ Edited({f, c} \cup ({where[f]} \ {None}))
    BY <2>1 DEF Place
  <2> DEFINE I == {f, c} \cup ({where[f]} \ {None})
  <2>3. I \in SUBSET Item BY <1>2, <1>3
  <2>4. \A g \in File : where'[g] = IF g = f THEN c ELSE where[g] BY <2>2
  <2>5. where' \in [File -> Folder \cup {None}] BY <2>2
  <2>a. where[f] # None => where[f] \in I BY <1>3, <2>3
  <2>6. \A d \in Folder : stamp'[d] = stamp[d] => d # where[f] /\ d # c
    <3>1. Edited(I) BY <2>2
    <3>2. \A d \in Folder : stamp'[d] = stamp[d] => d \notin I BY <1>3, <1>4, <2>3, <3>1
    <3> QED BY <1>3, <2>a, <3>2
  <2>7. stamp'[f] # stamp[f] BY <1>2, <1>4, <2>2, <2>3
  <2> QED BY <1>4, <2>2, <2>3, <2>4, <2>5, <2>6, <2>7 DEF Moved
<1>8. CASE \E d \in Folder : Rename(d)
  <2>1. PICK c \in Folder : Rename(c) BY <1>8
  <2>2. named' = [named EXCEPT ![c] = ~@] /\ Edited({c}) /\ where' = where BY <2>1 DEF Rename
  <2>3. named' \in [Folder -> BOOLEAN] BY <2>2
  <2>4. \A d \in Folder : d # c => named'[d] = named[d] BY <2>2
  <2>5. stamp'[c] # stamp[c] BY <1>3, <1>4, <2>2
  <2> QED BY <1>3, <1>4, <2>2, <2>3, <2>4, <2>5 DEF Moved
<1>9. CASE Configure
  BY <1>1, <1>9 DEF Configure, Moved
<1> QED BY <1>5, <1>6, <1>7, <1>8, <1>9 DEF SourceChanges

\* What a scan saw stays true, and so does what its folders hold.
LEMMA SeenKept ==
  ASSUME TypeOK, Moved, stamp' \in [Item -> Stamp], NEW S \in Snapshot
  PROVE  /\ Truthful(S) => Truthful(S)'
         /\ \A d \in Folder : S[d] # None /\ SeenFolder(S, d) /\ S[d].stamp = stamp'[d] =>
              S[d].stamp = stamp[d] /\ Content(d)' = Content(d)
         /\ Whole(S) => Whole(S)'
<1>1. \A i \in Item : stamp[i] \in Nat /\ stamp'[i] \in Nat BY DEF TypeOK, Stamp
<1>2. \A i \in Item : S[i] # None => S[i].stamp \in Nat BY SnapshotType
<1>3. \A f \in File : f \in Item BY DEF Item
<1>4. \A d \in Folder : d \in Item BY DEF Item
<1>5. ASSUME NEW d \in Folder, S[d] # None, SeenFolder(S, d)
      PROVE  SeenFolder(S, d)'
  BY <1>1, <1>2, <1>4, <1>5 DEF SeenFolder, Moved
<1>6. ASSUME NEW f \in File, S[f] # None, SeenFile(S, f)
      PROVE  SeenFile(S, f)'
  <2>1. S[f].stamp <= stamp'[f] BY <1>1, <1>2, <1>3, <1>6 DEF SeenFile, Moved
  <2>2. S[f].stamp = stamp'[f] => stamp'[f] = stamp[f]
    BY <1>1, <1>2, <1>3, <1>6 DEF SeenFile, Moved
  <2> QED BY <1>6, <2>1, <2>2 DEF SeenFile, Moved
<1>7. ASSUME NEW d \in Folder, S[d] # None, SeenFolder(S, d), S[d].stamp = stamp'[d]
      PROVE  S[d].stamp = stamp[d] /\ Content(d)' = Content(d)
  <2>1. stamp'[d] = stamp[d] BY <1>1, <1>2, <1>4, <1>7 DEF SeenFolder, Moved
  <2>2. \A f \in File : where'[f] = d <=> where[f] = d BY <2>1 DEF Moved
  <2> QED BY <1>7, <2>1, <2>2 DEF Content
<1>8. Truthful(S) => Truthful(S)' BY <1>5, <1>6 DEF Truthful
<1>9. ASSUME Whole(S) PROVE Whole(S)'
  <2>1. \A d \in Folder : S[d] # None /\ Settled(S, d)' BY <1>7, <1>9 DEF Whole, Settled, Truthful, Found
  <2> QED BY <1>8, <1>9, <2>1 DEF Whole
<1> QED BY <1>7, <1>8, <1>9

-----------------------------------------------------------------------------
(* A scan goes on.                                                            *)

LEMMA AfterLook ==
  ASSUME TypeOK, NEW S \in Snapshot, Truthful(S), NEW T \in Snapshot, After(S, T),
         NEW i \in Item, Exists(i)
  PROVE  After(S, [T EXCEPT ![i] = Tag(i)])
<1> DEFINE N == [T EXCEPT ![i] = Tag(i)]
<1>1. N[i] = Tag(i) /\ \A k \in Item : k # i => N[k] = T[k] BY DEF Snapshot
<1>2. \A k \in Item : k \in Folder \/ k \in File BY DEF Item
<1>3. ASSUME S[i] # None
      PROVE  /\ S[i].stamp <= Tag(i).stamp
             /\ S[i].stamp = Tag(i).stamp =>
                  S[i].folder = Tag(i).folder /\ (i \in Folder => S[i].named = Tag(i).named)
  <2>1. CASE i \in Folder BY <1>3, <2>1, TagType DEF Truthful, SeenFolder
  <2>2. CASE i \notin Folder
    <3>1. i \in File /\ where[i] # None BY <1>2, <2>2 DEF Exists
    <3> QED BY <1>3, <2>2, <3>1, TagType DEF Truthful, SeenFile
  <2> QED BY <2>1, <2>2
<1> QED BY <1>1, <1>3 DEF After

LEMMA WithinLook ==
  ASSUME TypeOK, NEW S \in Snapshot, NEW W \in Snapshot, NEW T \in Snapshot,
         Whole(S), Whole(W), After(S, W), Within(S, W, T), NEW i \in Item, Exists(i)
  PROVE  Within(S, W, [T EXCEPT ![i] = Tag(i)])
<1> DEFINE N == [T EXCEPT ![i] = Tag(i)]
<1>1. N[i] = Tag(i) /\ \A k \in Item : k # i => N[k] = T[k] BY DEF Snapshot
<1>2. \A d \in Folder : d \in Item BY DEF Item
<1>3. After(W, N) BY AfterLook DEF Within, Whole
<1>4. ASSUME i \in Folder, S[i].stamp = Tag(i).stamp
      PROVE  Found(S, i) = Found(W, i)
  <2>1. S[i] # None /\ W[i] # None /\ Settled(S, i) /\ Settled(W, i) BY <1>4 DEF Whole
  <2>2. Tag(i).stamp = stamp[i] BY TagType
  <2>3. S[i].stamp \in Nat /\ W[i].stamp \in Nat BY <2>1, SnapshotType
  <2>4. S[i].stamp <= W[i].stamp BY <2>1 DEF After
  <2>5. W[i].stamp <= stamp[i] BY <1>4, <2>1 DEF Whole, Truthful, SeenFolder
  <2>6. W[i].stamp = stamp[i] BY <1>4, <2>2, <2>3, <2>4, <2>5
  <2> QED BY <1>4, <2>1, <2>2, <2>6 DEF Settled
<1> QED BY <1>1, <1>2, <1>3, <1>4 DEF Within

\* What a scan saw is before what is there.
LEMMA AfterTree ==
  ASSUME TypeOK, NEW S \in Snapshot, Truthful(S)
  PROVE  After(S, Tree)
<1>1. \A i \in Item : Tree[i] = IF Exists(i) THEN Tag(i) ELSE None BY DEF Tree
<1>2. ASSUME NEW i \in Item, S[i] # None, Tree[i] # None
      PROVE  /\ S[i].stamp <= Tree[i].stamp
             /\ S[i].stamp = Tree[i].stamp =>
                  S[i].folder = Tree[i].folder /\ (i \in Folder => S[i].named = Tree[i].named)
  <2>1. Exists(i) /\ Tree[i] = Tag(i) BY <1>1, <1>2
  <2>2. After(S, [NoItems EXCEPT ![i] = Tag(i)])
    BY <2>1, AfterLook, NothingSeen
  <2>3. [NoItems EXCEPT ![i] = Tag(i)][i] = Tag(i) BY DEF NoItems
  <2> QED BY <1>2, <2>1, <2>2, <2>3 DEF After
<1> QED BY <1>2 DEF After

\* A step of a refresh leaves the source, and what was seen of it.
LEMMA SourceKept ==
  ASSUME UNCHANGED source, NEW S
  PROVE  /\ Truthful(S)' = Truthful(S) /\ Whole(S)' = Whole(S)
         /\ \A d \in Folder : Settled(S, d)' = Settled(S, d) /\ Content(d)' = Content(d)
BY DEF source, Truthful, SeenFolder, SeenFile, Whole, Settled, Content

-----------------------------------------------------------------------------
(* The invariant is inductive.                                                *)

LEMMA FullType ==
  ASSUME NEW p \in Policy, NEW n \in 1 .. MaxAttempts
  PROVE  /\ Full(p, n) \in Job /\ Full(p, n).full /\ Full(p, n).policy = p
         /\ \A f \in File : Full(p, n).read[f] = None
         /\ IdleJob \in Job
<1>1. IdleJob \in Job BY NothingSeen DEF IdleJob, Job
<1>2. Full(p, n) = [IdleJob EXCEPT !.policy = p, !.full = TRUE, !.attempt = n] BY DEF Full
<1>3. n \in 0 .. MaxAttempts OBVIOUS
<1>4. Full(p, n) \in Job BY <1>1, <1>2, <1>3 DEF Job
<1> QED BY <1>1, <1>2, <1>4 DEF IdleJob

LEMMA FailKeeps ==
  ASSUME IInv, Fail
  PROVE  IInv'
<1>1. /\ pc' = "idle" /\ scan' = None /\ job' = IdleJob /\ taken' = None
      /\ UNCHANGED <<where, stamp, named, policy, edits, index>>
  BY DEF Fail, Goto, source
<1>2. IdleJob \in Job BY NothingSeen DEF IdleJob, Job
<1>3. TypeOK' BY <1>1, <1>2 DEF IInv, TypeOK, Phase
<1>4. Phases' BY <1>1 DEF Phases, Scans
<1> QED BY <1>1, <1>3, <1>4 DEF IInv, Stamped, Scanning, Indexed

\* Everything is read again.
LEMMA AgainKeeps ==
  ASSUME IInv, NEW p \in Policy, NEW n \in 1 .. MaxAttempts, Goto("checkpoint"),
         job' = Full(p, n), taken' \in Snapshot \cup {None}, UNCHANGED <<source, index>>
  PROVE  IInv'
<1>1. /\ pc' = "checkpoint" /\ scan' = None
      /\ UNCHANGED <<where, stamp, named, policy, edits, index>>
  BY DEF Goto, source
<1>2. /\ Full(p, n) \in Job /\ Full(p, n).full /\ Full(p, n).policy = p
      /\ \A f \in File : Full(p, n).read[f] = None
  BY FullType
<1>3. job' \in Job /\ job'.full /\ job'.policy = p /\ \A f \in File : job'.read[f] = None
  BY <1>2
<1>4. TypeOK' BY <1>1, <1>3 DEF IInv, TypeOK, Phase, Scans
<1>5. Phases' BY <1>1, <1>3 DEF Phases, Scans
<1> QED BY <1>1, <1>4, <1>5 DEF IInv, Stamped, Scanning, Indexed

LEMMA StartKeeps ==
  ASSUME IInv, Start
  PROVE  IInv'
<1>1. PICK force \in BOOLEAN :
        IF force \/ index = None \/ index.policy # policy
        THEN Goto("checkpoint") /\ job' = Full(policy, 1)
        ELSE Goto("delta") /\ job' = [IdleJob EXCEPT !.policy = policy]
  BY DEF Start
<1>2. policy \in Policy /\ taken \in Snapshot \cup {None} BY DEF IInv, TypeOK
<1>3. UNCHANGED <<source, index, taken>> BY DEF Start
<1>4. CASE force \/ index = None \/ index.policy # policy
  <2>1. Goto("checkpoint") /\ job' = Full(policy, 1) BY <1>1, <1>4
  <2>2. 1 \in 1 .. MaxAttempts OBVIOUS
  <2> QED BY <1>2, <1>3, <2>1, <2>2, AgainKeeps
<1>5. CASE ~(force \/ index = None \/ index.policy # policy)
  <2>1. /\ pc' = "delta" /\ scan' = None /\ job' = [IdleJob EXCEPT !.policy = policy]
        /\ UNCHANGED <<where, stamp, named, policy, edits, index, taken>>
    BY <1>1, <1>3, <1>5 DEF Goto, source
  <2>2. /\ job' \in Job /\ job'.policy = policy /\ ~job'.full
        /\ \A f \in File : job'.read[f] = None
    <3>1. IdleJob \in Job BY NothingSeen DEF IdleJob, Job
    <3>2. job' \in Job BY <1>2, <2>1, <3>1 DEF Job
    <3> QED BY <2>1, <3>2 DEF IdleJob
  <2>3. TypeOK' BY <2>1, <2>2 DEF IInv, TypeOK, Phase, Scans
  <2>4. Phases' BY <1>2, <1>5, <2>1, <2>2 DEF Phases, Scans
  <2> QED BY <2>1, <2>3, <2>4 DEF IInv, Stamped, Scanning, Indexed
<1> QED BY <1>4, <1>5

\* The scan goes on, and what it sees is seen after what was seen before.
LEMMA ScanKeeps ==
  ASSUME IInv, pc \in Scans, scan' \in Scan, UNCHANGED <<source, pc, job, index, taken>>,
         Scanning', \/ Got' = Got
                    \/ \E i \in Item : Exists(i) /\ Got \in Snapshot /\ Got' = [Got EXCEPT ![i] = Tag(i)]
  PROVE  IInv'
<1>1. UNCHANGED <<where, stamp, named, policy, edits>> BY DEF source
<1>2. TypeOK' BY <1>1 DEF IInv, TypeOK
<1>3. \A S \in Snapshot : Truthful(S) /\ After(S, Got) => After(S, Got')
  BY AfterLook DEF IInv
<1>4. \A S, W \in Snapshot :
        Whole(S) /\ Whole(W) /\ After(S, W) /\ Within(S, W, Got) => Within(S, W, Got')
  BY WithinLook DEF IInv
<1>5. \A S : Whole(S)' = Whole(S) BY SourceKept
<1>6. Whole(job.first)' = Whole(job.first) /\ Taken' = Taken BY <1>1, <1>5 DEF Taken, After
<1>7. pc = "walk" => After(job.first, Got)' BY <1>3 DEF IInv, Phases, Whole
<1>8. pc = "catchup" => Walked'
  <2>1. ASSUME pc = "catchup" PROVE Walked'
    <3>1. PICK W \in Snapshot :
            /\ Whole(W) /\ After(job.first, W) /\ Within(job.first, W, Got)
            /\ job.catalog = Filtered(job.policy, W)
      BY <2>1 DEF IInv, Phases, Walked
    <3>2. Whole(job.first) /\ job.first \in Snapshot BY <2>1 DEF IInv, Phases, Whole
    <3>3. Within(job.first, W, Got') BY <1>4, <3>1, <3>2
    <3> QED BY <1>5, <3>1, <3>3 DEF Walked
  <2> QED BY <2>1
<1>9. pc = "final" => Within(job.last, taken, Got)'
  <2>1. ASSUME pc = "final" PROVE Within(job.last, taken, Got)'
    <3>1. /\ job.last \in Snapshot /\ taken \in Snapshot /\ Whole(job.last) /\ Whole(taken)
          /\ After(job.last, taken) /\ Within(job.last, taken, Got)
      BY <2>1 DEF IInv, Phases, Taken, Whole
    <3> QED BY <1>4, <3>1
  <2> QED BY <2>1
<1>10. /\ Catalogued' = Catalogued /\ Read' = Read /\ Indexed' = Indexed /\ Stamped' = Stamped
  BY <1>1 DEF Catalogued, Read, Indexed, Stamped, Allowed, Listed
<1>11. pc \notin {"idle"} \cup (Phase \ Scans) BY DEF Scans, Phase
<1>12. Phases' BY <1>6, <1>7, <1>8, <1>9, <1>10, <1>11 DEF IInv, Phases
<1> QED BY <1>2, <1>10, <1>12 DEF IInv

LEMMA ListRootKeeps ==
  ASSUME IInv, ListRoot
  PROVE  IInv'
<1>1. /\ pc \in Scans /\ scan = None
      /\ scan' = [names |-> named, folder |-> None, todo |-> Folder, got |-> NoItems]
      /\ UNCHANGED <<source, pc, job, index, taken>>
  BY DEF ListRoot
<1>2. scan' \in Scan BY <1>1, NothingSeen DEF IInv, TypeOK, Scan, Item
<1>3. Got' = Got BY <1>1, <1>2 DEF Got
<1>4. Truthful(NoItems)' BY <1>1, NothingSeen, SourceKept
<1>5. \A d \in Folder : NoItems[d] = None BY NothingSeen DEF Item
<1>6. Scanning' BY <1>1, <1>4, <1>5 DEF Scanning
<1> QED BY <1>1, <1>2, <1>3, <1>6, ScanKeeps

LEMMA ListFolderKeeps ==
  ASSUME IInv, ListFolder
  PROVE  IInv'
<1> DEFINE d == scan.folder
           listed == {f \in File : where[f] = d}
<1>1. pc \in Scans /\ scan # None /\ d # None /\ scan.todo \cap File = {} BY DEF ListFolder
<1>2. CASE named[d] # scan.names[d] BY <1>2, FailKeeps DEF ListFolder
<1>3. CASE named[d] = scan.names[d]
  <2>1. /\ scan' = [scan EXCEPT !.todo = @ \cup listed,
                                !.folder = IF listed = {} THEN None ELSE d]
        /\ UNCHANGED <<source, pc, job, index, taken>>
    BY <1>3 DEF ListFolder
  <2>2. scan \in Scan /\ d \in Folder BY <1>1 DEF IInv, TypeOK, Scan
  <2>3. /\ scan' \in Scan /\ scan'.got = scan.got /\ scan'.names = scan.names
        /\ scan'.todo = scan.todo \cup listed
        /\ scan'.folder = IF listed = {} THEN None ELSE d
    BY <2>1, <2>2 DEF Scan, Item
  <2>4. scan' # None BY <2>3
  <2>5. Got' = Got BY <1>1, <2>3, <2>4 DEF Got
  <2>6. listed = Content(d) /\ scan'.todo \cap File = listed BY <1>1, <2>3 DEF Content
  <2>7. \A c \in Folder : c \in scan'.todo <=> c \in scan.todo BY <2>3
  <2>8. /\ \A S : Truthful(S)' = Truthful(S)
        /\ \A S, c \in Folder : Settled(S, c)' = Settled(S, c)
        /\ \A c \in Folder : Content(c)' = Content(c)
        /\ stamp' = stamp
    BY <2>1, SourceKept DEF source
  <2>9. /\ Truthful(scan.got) /\ scan.got[d] # None /\ Found(scan.got, d) = {}
        /\ \A c \in Folder : scan.got[c] # None /\ c # d => Settled(scan.got, c)
    BY <1>1, <2>2 DEF IInv, Scanning, Progress
  <2>10. ASSUME NEW c \in Folder, (scan.got[c] # None)'
         PROVE  Progress(c)'
    <3>1. CASE c # d
      <4>1. scan'.folder # c BY <1>1, <2>3, <3>1
      <4>2. Settled(scan.got, c) BY <2>3, <2>9, <2>10, <3>1
      <4>3. Settled(scan.got, c)' BY <2>3, <2>8, <4>2 DEF Settled, Found
      <4> QED BY <4>1, <4>3 DEF Progress
    <3>2. CASE c = d /\ listed = {}
      <4>1. scan'.folder # c BY <1>1, <2>3, <3>2
      <4>2. Settled(scan.got, c) BY <2>6, <2>9, <3>2 DEF Settled
      <4>3. Settled(scan.got, c)' BY <2>3, <2>8, <4>2 DEF Settled, Found
      <4> QED BY <4>1, <4>3 DEF Progress
    <3>3. CASE c = d /\ listed # {}
      <4>1. /\ scan'.folder = c /\ scan'.todo \cap File = Content(c)
            /\ Found(scan'.got, c) = {} /\ Content(c)' = Content(c)
        BY <2>3, <2>6, <2>8, <2>9, <3>3
      <4> QED BY <3>3, <2>6, <4>1 DEF Progress
    <3> QED BY <3>1, <3>2, <3>3
  <2>11. Scanning'
    <3>1. /\ \A c \in Folder : scan'.got[c] = None <=> c \in scan'.todo
          /\ \A c \in Folder : scan'.got[c] # None => scan'.got[c].named = scan'.names[c]
          /\ scan'.todo \cap File # {} => scan'.folder # None
          /\ scan'.folder # None => scan'.got[scan'.folder] # None
      BY <1>1, <2>3, <2>6, <2>7, <2>9 DEF IInv, Scanning
    <3>2. Truthful(scan.got)' BY <2>3, <2>8, <2>9
    <3> QED BY <2>10, <3>1, <3>2 DEF Scanning
  <2> QED BY <1>1, <2>1, <2>3, <2>5, <2>11, ScanKeeps
<1> QED BY <1>2, <1>3

LEMMA LookUpKeeps ==
  ASSUME IInv, NEW i \in Item, LookUp(i)
  PROVE  IInv'
<1> DEFINE d == scan.folder
           S == scan.got
           N == [S EXCEPT ![i] = Tag(i)]
<1>1. /\ pc \in Scans /\ scan # None /\ ComesNext(i)
      /\ scan.todo \cap File # {} \/ d = None
  BY DEF LookUp
<1>2. CASE ~(AtPath(i) /\ S[i] = None)
  <2>1. Fail BY <1>2 DEF LookUp
  <2> QED BY <2>1, FailKeeps
<1>3. CASE AtPath(i) /\ S[i] = None
  <2>1. /\ scan' = [scan EXCEPT !.todo = @ \ {i}, !.got[i] = Tag(i),
                      !.folder = IF i \in Folder THEN i
                                 ELSE IF scan.todo \cap File = {i} THEN None ELSE @]
        /\ UNCHANGED <<source, pc, job, index, taken>>
    BY <1>3 DEF LookUp
  <2>2. scan \in Scan /\ S \in Snapshot BY <1>1 DEF IInv, TypeOK, Scan
  <2>3. i \in scan.todo /\ (scan.todo \cap File # {} => i \in File) BY <1>1 DEF ComesNext
  <2>4. i \in Folder <=> i \notin File BY DEF Item
  <2>5. i \in File => /\ d \in Folder /\ S[d] # None /\ where[i] = d /\ named[d] = scan.names[d]
                       /\ scan.todo \cap File # {}
    BY <1>1, <1>3, <2>2, <2>3, <2>4 DEF IInv, Scanning, AtPath, Scan
  <2>6. i \in Folder => named[i] = scan.names[i] /\ d = None /\ scan.todo \cap File = {}
    BY <1>1, <1>3, <2>3, <2>4 DEF AtPath
  <2>7. Exists(i) BY <2>4, <2>5 DEF Exists
  <2>8. /\ Tag(i) \in Entry /\ Tag(i) # None /\ Tag(i).stamp = stamp[i]
        /\ i \in Folder => Tag(i).folder = i /\ Tag(i).named = named[i]
        /\ i \in File => Tag(i).folder = where[i] /\ Tag(i).named = named[where[i]]
    BY <2>7, TagType DEF IInv
  <2>9. N \in Snapshot /\ N[i] = Tag(i) /\ \A k \in Item : k # i => N[k] = S[k]
    BY <2>2, <2>8 DEF Snapshot
  <2>10. /\ scan' \in Scan /\ scan'.got = N /\ scan'.names = scan.names
         /\ scan'.todo = scan.todo \ {i}
         /\ scan'.folder = IF i \in Folder THEN i
                           ELSE IF scan.todo \cap File = {i} THEN None ELSE d
    BY <2>1, <2>2, <2>9 DEF Scan
  <2>11. scan' # None BY <2>10
  <2>12. Got \in Snapshot /\ Got' = [Got EXCEPT ![i] = Tag(i)] BY <1>1, <2>2, <2>10, <2>11 DEF Got
  <2>13. stamp[i] \in Nat BY DEF IInv, TypeOK, Stamp
  <2>14. Truthful(N)
    <3>1. ASSUME NEW c \in Folder, N[c] # None PROVE SeenFolder(N, c)
      <4>1. CASE c = i BY <2>8, <2>9, <2>13, <4>1 DEF SeenFolder
      <4>2. CASE c # i
        <5>1. N[c] = S[c] BY <2>9, <4>2 DEF Item
        <5> QED BY <1>1, <3>1, <5>1 DEF IInv, Scanning, Truthful, SeenFolder
      <4> QED BY <4>1, <4>2
    <3>2. ASSUME NEW f \in File, N[f] # None PROVE SeenFile(N, f)
      <4>1. CASE f = i
        <5>1. N[f] = Tag(i) /\ where[i] = d /\ d \in Folder /\ N[d] = S[d] /\ N[d] # None
          BY <2>4, <2>5, <2>9, <4>1 DEF Item
        <5>2. N[d].named = scan.names[d] BY <1>1, <2>5, <4>1, <5>1 DEF IInv, Scanning
        <5> QED BY <2>5, <2>8, <2>13, <4>1, <5>1, <5>2 DEF SeenFile
      <4>2. CASE f # i
        <5>1. N[f] = S[f] BY <2>9, <4>2 DEF Item
        <5>2. SeenFile(S, f) BY <1>1, <3>2, <5>1 DEF IInv, Scanning, Truthful
        <5>3. S[f].folder \in Folder BY <2>2, <3>2, <5>1, SnapshotType DEF Item
        <5>4. N[S[f].folder] = S[S[f].folder] BY <1>3, <2>9, <5>2, <5>3 DEF SeenFile, Item
        <5> QED BY <5>1, <5>2, <5>4 DEF SeenFile
      <4> QED BY <4>1, <4>2
    <3> QED BY <3>1, <3>2 DEF Truthful
  <2>15. \A c \in Folder : Found(N, c) = IF i \in File /\ c = d THEN Found(S, c) \cup {i} ELSE Found(S, c)
    <3>1. \A f \in File : N[f] = IF f = i THEN Tag(i) ELSE S[f] BY <2>9 DEF Item
    <3>2. CASE i \in File
      <4>1. \A f \in File : N[f] # None <=> f = i \/ S[f] # None BY <2>8, <3>1
      <4>2. \A f \in File, c \in Folder :
              N[f] # None /\ N[f].folder = c
                <=> (f = i /\ c = d) \/ (S[f] # None /\ S[f].folder = c)
        BY <1>3, <2>5, <2>8, <3>1, <3>2
      <4> QED BY <3>2, <4>2 DEF Found
    <3>3. CASE i \notin File
      <4>1. \A f \in File : N[f] = S[f] BY <3>1, <3>3
      <4> QED BY <3>3, <4>1 DEF Found
    <3> QED BY <3>2, <3>3
  <2>16. ASSUME NEW c \in Folder, N[c] # None
         PROVE  IF scan'.folder # c THEN Settled(N, c)
                ELSE IF scan'.todo \cap File = {} THEN Found(N, c) = {}
                ELSE N[c].stamp = stamp[c] =>
                       Content(c) = Found(N, c) \cup (scan'.todo \cap File)
    <3>1. CASE i \in Folder /\ c = i
      <4>1. Found(S, i) = {}
        <5>1. \A f \in File : S[f] # None => S[f].folder # i
          BY <1>1, <1>3 DEF IInv, Scanning, Truthful, SeenFile
        <5> QED BY <5>1 DEF Found
      <4>2. Found(N, c) = {} BY <2>4, <2>15, <3>1, <4>1
      <4>3. scan'.folder = c /\ scan'.todo \cap File = {} BY <2>6, <2>10, <3>1
      <4> QED BY <4>2, <4>3
    <3>2. CASE i \in Folder /\ c # i
      <4>1. N[c] = S[c] BY <2>9, <3>2 DEF Item
      <4>2. Settled(S, c)
        BY <1>1, <2>6, <2>16, <3>2, <4>1 DEF IInv, Scanning, Progress
      <4>3. Settled(N, c) BY <2>4, <2>15, <3>2, <4>1, <4>2 DEF Settled
      <4> QED BY <2>10, <3>2, <4>3
    <3>3. CASE i \in File /\ c # d
      <4>1. N[c] = S[c] BY <2>4, <2>9, <3>3 DEF Item
      <4>2. Settled(S, c) BY <1>1, <2>5, <2>16, <3>3, <4>1 DEF IInv, Scanning, Progress
      <4>3. Settled(N, c) BY <2>15, <3>3, <4>1, <4>2 DEF Settled
      <4>4. scan'.folder # c BY <1>1, <2>4, <2>5, <2>10, <3>3
      <4> QED BY <4>3, <4>4
    <3>4. CASE i \in File /\ c = d
      <4>1. N[c] = S[c] BY <2>4, <2>9, <3>4 DEF Item
      <4>2. S[c].stamp = stamp[c] => Content(c) = Found(S, c) \cup (scan.todo \cap File)
        BY <1>1, <2>5, <2>16, <3>4, <4>1 DEF IInv, Scanning, Progress
      <4>3. Found(N, c) = Found(S, c) \cup {i} BY <2>15, <3>4
      <4>4. N[c].stamp = stamp[c] => Content(c) = Found(N, c) \cup (scan'.todo \cap File)
        BY <2>3, <2>10, <3>4, <4>1, <4>2, <4>3
      <4>5. CASE scan.todo \cap File = {i}
        <5>1. scan'.folder = None /\ scan'.todo \cap File = {} BY <2>4, <2>10, <3>4, <4>5
        <5>2. Settled(N, c) BY <4>4, <5>1 DEF Settled
        <5> QED BY <1>1, <2>5, <3>4, <5>1, <5>2
      <4>6. CASE scan.todo \cap File # {i}
        <5>1. scan'.folder = c BY <2>4, <2>10, <3>4, <4>6
        <5>2. scan'.todo \cap File # {} BY <2>3, <2>10, <3>4, <4>6
        <5> QED BY <4>4, <5>1, <5>2
      <4> QED BY <4>5, <4>6
    <3> QED BY <2>4, <3>1, <3>2, <3>3, <3>4
  <2>17. Scanning'
    <3>1. /\ \A T : Truthful(T)' = Truthful(T)
          /\ \A c \in Folder : Content(c)' = Content(c)
          /\ stamp' = stamp
      BY <2>1, SourceKept DEF source
    <3>3. Truthful(scan.got)' BY <2>1, <2>10, <2>14 DEF Truthful, SeenFolder, SeenFile, source
    <3>4. ASSUME NEW c \in Folder, (scan.got[c] # None)'
          PROVE  Progress(c)'
      BY <2>10, <2>16, <3>1, <3>4 DEF Progress, Settled, Found
    <3>5. /\ \A c \in Folder : scan'.got[c] = None <=> c \in scan'.todo
          /\ \A c \in Folder : scan'.got[c] # None => scan'.got[c].named = scan'.names[c]
      <4>1. ASSUME NEW c \in Folder
            PROVE  /\ N[c] = None <=> c \in scan.todo \ {i}
                   /\ N[c] # None => N[c].named = scan.names[c]
        <5>1. CASE c = i BY <2>6, <2>8, <2>9, <5>1
        <5>2. CASE c # i
          <6>1. N[c] = S[c] BY <2>9, <5>2 DEF Item
          <6> QED BY <1>1, <5>2, <6>1 DEF IInv, Scanning
        <5> QED BY <5>1, <5>2
      <4> QED BY <2>10, <4>1
    <3>6. scan'.todo \cap File # {} => scan'.folder # None
      BY <1>1, <2>3, <2>4, <2>5, <2>6, <2>10
    <3>7. scan'.folder # None => scan'.got[scan'.folder] # None
      <4>1. \A c \in Folder : S[c] # None \/ c = i => N[c] # None BY <2>8, <2>9 DEF Item
      <4> QED BY <2>4, <2>5, <2>10, <4>1
    <3> QED BY <3>3, <3>4, <3>5, <3>6, <3>7 DEF Scanning
  <2> QED BY <1>1, <2>1, <2>7, <2>10, <2>12, <2>17, ScanKeeps
<1> QED BY <1>2, <1>3

-----------------------------------------------------------------------------
(* A scan ends.                                                               *)

LEMMA ScanWhole ==
  ASSUME IInv, NEW phase, Scanned(phase)
  PROVE  Whole(scan.got) /\ Got = scan.got /\ scan.got \in Snapshot
<1>1. scan # None /\ scan.todo = {} /\ scan.folder = None BY DEF Scanned
<1>2. scan \in Scan BY <1>1 DEF IInv, TypeOK
<1>3. Truthful(scan.got) /\ scan.got \in Snapshot BY <1>1, <1>2 DEF IInv, Scanning, Scan
<1>4. ASSUME NEW d \in Folder PROVE scan.got[d] # None /\ Settled(scan.got, d)
  <2>1. scan.got[d] # None /\ Progress(d) BY <1>1 DEF IInv, Scanning
  <2> QED BY <1>1, <2>1 DEF Progress
<1> QED BY <1>1, <1>3, <1>4 DEF Whole, Got

LEMMA CheckpointReadKeeps ==
  ASSUME IInv, CheckpointRead
  PROVE  IInv'
<1>1. /\ pc = "checkpoint" /\ pc' = "walk" /\ scan' = None
      /\ job' = [job EXCEPT !.first = scan.got]
      /\ UNCHANGED <<where, stamp, named, policy, edits, index, taken>>
  BY DEF CheckpointRead, Scanned, Goto, source
<1>2. Whole(scan.got) /\ scan.got \in Snapshot BY ScanWhole DEF CheckpointRead
<1>3. job \in Job BY DEF IInv, TypeOK
<1>4. /\ job' \in Job /\ job'.first = scan.got
      /\ job'.full = job.full /\ job'.policy = job.policy /\ job'.read = job.read
  BY <1>1, <1>2, <1>3 DEF Job
<1>5. TypeOK' BY <1>1, <1>4 DEF IInv, TypeOK, Phase, Scans
<1>6. Whole(job.first)'
  BY <1>1, <1>2, <1>4 DEF Whole, Truthful, SeenFolder, SeenFile, Settled, Content, Found
<1>7. After(job.first, Got)' BY <1>1, NothingSeen DEF Got
<1>8. Phases' BY <1>1, <1>4, <1>6, <1>7 DEF IInv, Phases, Scans, Phase
<1> QED BY <1>1, <1>5, <1>8 DEF IInv, Stamped, Scanning, Indexed

LEMMA WalkReadKeeps ==
  ASSUME IInv, WalkRead
  PROVE  IInv'
<1>1. /\ pc = "walk" /\ pc' = "catchup" /\ scan' = None
      /\ job' = [job EXCEPT !.catalog = Filtered(job.policy, scan.got)]
      /\ UNCHANGED <<where, stamp, named, policy, edits, index, taken>>
  BY DEF WalkRead, Scanned, Goto, source, Filtered
<1>2. Whole(scan.got) /\ scan.got \in Snapshot /\ Got = scan.got BY ScanWhole DEF WalkRead
<1>3. job \in Job BY DEF IInv, TypeOK
<1>4. Filtered(job.policy, scan.got) \in Snapshot BY <1>2 DEF Filtered, Snapshot
<1>5. /\ job' \in Job /\ job'.catalog = Filtered(job.policy, scan.got)
      /\ job'.full = job.full /\ job'.policy = job.policy /\ job'.first = job.first
      /\ job'.read = job.read
  BY <1>1, <1>3, <1>4 DEF Job
<1>6. TypeOK' BY <1>1, <1>5 DEF IInv, TypeOK, Phase, Scans
<1>7. Whole(job.first) /\ After(job.first, scan.got) BY <1>1, <1>2 DEF IInv, Phases
<1>8. Whole(job.first)'
  BY <1>1, <1>5, <1>7 DEF Whole, Truthful, SeenFolder, SeenFile, Settled, Content, Found
<1>9. Walked'
  <2> DEFINE W == scan.got
  <2>1. \A S : Whole(S)' = Whole(S) BY <1>1, SourceKept DEF source
  <2>2. PICK V \in Snapshot : V = W BY <1>2
  <2>3. Whole(V)' /\ After(job'.first, V) BY <1>2, <1>5, <1>7, <2>1, <2>2
  <2>4. Got' = NoItems BY <1>1 DEF Got
  <2>5. Within(job'.first, V, Got') BY <2>4, NothingWithin
  <2>6. job'.catalog = Filtered(job'.policy, V) BY <1>5, <2>2
  <2> QED BY <2>3, <2>5, <2>6 DEF Walked
<1>10. Phases' BY <1>1, <1>5, <1>8, <1>9 DEF IInv, Phases, Scans, Phase
<1> QED BY <1>1, <1>6, <1>10 DEF IInv, Stamped, Scanning, Indexed

-----------------------------------------------------------------------------
(* What two scans agree on is so between them.                                *)

LEMMA SameEntry ==
  ASSUME NEW e \in Entry, NEW g \in Entry,
         e.stamp = g.stamp, e.folder = g.folder, e.named = g.named
  PROVE  e = g
BY DEF Entry

LEMMA BetweenFolder ==
  ASSUME NEW S \in Snapshot, NEW W \in Snapshot, NEW T \in Snapshot,
         Whole(S), Whole(W), Whole(T), After(S, W), Within(S, W, T),
         NEW d \in Folder, S[d].stamp = T[d].stamp
  PROVE  W[d] = S[d] /\ Found(W, d) = Found(S, d)
<1>1. d \in Item /\ S[d] # None /\ W[d] # None /\ T[d] # None BY DEF Whole, Item
<1>2. /\ S[d] \in Entry /\ W[d] \in Entry /\ S[d].stamp \in Nat /\ W[d].stamp \in Nat
  BY <1>1, SnapshotType
<1>3. S[d].stamp <= W[d].stamp /\ W[d].stamp <= T[d].stamp BY <1>1 DEF After, Within
<1>4. S[d].stamp = W[d].stamp BY <1>2, <1>3
<1>5. S[d].folder = W[d].folder /\ S[d].named = W[d].named BY <1>1, <1>4 DEF After
<1> QED BY <1>1, <1>2, <1>4, <1>5, SameEntry DEF Within

LEMMA BetweenFile ==
  ASSUME NEW S \in Snapshot, NEW W \in Snapshot, NEW T \in Snapshot,
         Whole(S), Whole(W), Whole(T), After(S, W), Within(S, W, T),
         NEW f \in File, S[f] # None, T[f] = S[f]
  PROVE  /\ S[f].folder \in Folder
         /\ W[f] # None => W[f].folder = S[f].folder
         /\ S[S[f].folder].stamp = T[S[f].folder].stamp => W[f] = S[f]
<1> DEFINE d == S[f].folder
<1>1. f \in Item BY DEF Item
<1>2. S[f] \in Entry /\ S[f].stamp \in Nat /\ d \in Folder BY <1>1, SnapshotType
<1>3. ASSUME W[f] # None
      PROVE  W[f] \in Entry /\ W[f].stamp = S[f].stamp /\ W[f].folder = d
  <2>1. W[f] \in Entry /\ W[f].stamp \in Nat BY <1>1, <1>3, SnapshotType
  <2>2. S[f].stamp <= W[f].stamp /\ W[f].stamp <= T[f].stamp BY <1>1, <1>3 DEF After, Within
  <2>3. S[f].stamp = W[f].stamp BY <1>2, <2>1, <2>2
  <2> QED BY <1>1, <1>3, <2>1, <2>3 DEF After
<1>4. ASSUME S[d].stamp = T[d].stamp PROVE W[f] = S[f]
  <2>1. \A c \in Folder : S[c].stamp = T[c].stamp => W[c] = S[c] /\ Found(W, c) = Found(S, c)
    BY BetweenFolder
  <2>a. W[d] = S[d] /\ Found(W, d) = Found(S, d) BY <1>2, <1>4, <2>1
  <2>2. f \in Found(S, d) BY DEF Found
  <2>3. W[f] # None BY <2>a, <2>2 DEF Found
  <2>4. S[f].named = S[d].named /\ W[f].named = W[W[f].folder].named
    BY <2>3 DEF Whole, Truthful, SeenFile
  <2> QED BY <1>2, <1>3, <2>a, <2>3, <2>4, SameEntry
<1> QED BY <1>2, <1>3, <1>4

\* Two equal scans are the folder at any instant between them.
LEMMA SameInstant ==
  ASSUME NEW S \in Snapshot, NEW W \in Snapshot,
         Whole(S), Whole(W), After(S, W), Within(S, W, S)
  PROVE  W = S
<1>1. ASSUME NEW d \in Folder PROVE W[d] = S[d] /\ Found(W, d) = Found(S, d)
  BY BetweenFolder
<1>2. ASSUME NEW f \in File PROVE W[f] = S[f]
  <2>1. CASE S[f] # None BY <2>1, BetweenFile
  <2>2. CASE S[f] = None
    <3>1. ASSUME W[f] # None PROVE FALSE
      <4>1. W[f].folder \in Folder BY <3>1, SnapshotType DEF Item
      <4>2. f \in Found(W, W[f].folder) BY <3>1 DEF Found
      <4>3. f \in Found(S, W[f].folder) BY <1>1, <4>1, <4>2
      <4> QED BY <2>2, <4>3 DEF Found
    <3> QED BY <2>2, <3>1
  <2> QED BY <2>1, <2>2
<1> QED BY <1>1, <1>2 DEF Snapshot, Item

\* A folder that is included shows that its files are.
LEMMA FolderIncluded ==
  ASSUME NEW W, Whole(W), NEW p, NEW f \in File, W[f] # None
  PROVE  /\ W[f].folder \in Folder
         /\ IsIncluded(p, W[f]) <=> IsIncluded(p, W[W[f].folder])
<1>1. W \in Snapshot BY DEF Whole
<1>2. W[f].folder \in Folder BY <1>1, SnapshotType DEF Item
<1>3. /\ W[W[f].folder] # None /\ W[W[f].folder].folder = W[f].folder
      /\ W[f].named = W[W[f].folder].named
  BY <1>2 DEF Whole, Truthful, SeenFile, SeenFolder
<1> QED BY <1>2, <1>3 DEF IsIncluded

\* The merge is what the second scan shows.
LEMMA MergedIsSeen ==
  ASSUME IInv, Scanned("catchup"), ~FolderChanged(scan.got), NEW f \in File
  PROVE  Merged(scan.got)[f] = IF IsIncluded(job.policy, scan.got[f]) THEN scan.got[f] ELSE None
<1> DEFINE S == job.first
           T == scan.got
           C == job.catalog
           p == job.policy
<1>1. Whole(T) /\ Got = T /\ T \in Snapshot BY ScanWhole
<1>2. pc = "catchup" BY DEF Scanned
<1>3. Whole(S) /\ S \in Snapshot /\ Walked BY <1>2 DEF IInv, Phases, Whole
<1>4. PICK W \in Snapshot : /\ Whole(W) /\ After(S, W) /\ Within(S, W, T)
                            /\ C = Filtered(p, W)
  BY <1>1, <1>3 DEF Walked
<1>5. \A i \in Item : C[i] = IF IsIncluded(p, W[i]) THEN W[i] ELSE None BY <1>4 DEF Filtered
<1>6. f \in Item /\ \A d \in Folder : d \in Item BY DEF Item
<1>7. \A d \in Folder : S[d] # None /\ T[d] # None BY <1>1, <1>3 DEF Whole
<1>8. Merged(T)[f] = IF f \in Changed(S, T)
                    THEN IF IsIncluded(p, T[f]) THEN T[f] ELSE None
                    ELSE IF f \in Gone(S, T) THEN None ELSE C[f]
  BY <1>6 DEF Merged
<1>9. ASSUME NEW d \in Folder, T[d] # S[d] PROVE C[d] = None /\ ~IsIncluded(p, T[d])
  BY <1>6, <1>7, <1>9 DEF FolderChanged, Changed
<1>10. C[f] # None => /\ W[f] # None /\ IsIncluded(p, W[f])
                      /\ W[f].folder \in Folder /\ C[W[f].folder] # None
                      /\ T[W[f].folder] = S[W[f].folder]
  <2>1. ASSUME C[f] # None
        PROVE  /\ W[f] # None /\ IsIncluded(p, W[f])
               /\ W[f].folder \in Folder /\ C[W[f].folder] # None
    <3>1. W[f] # None /\ IsIncluded(p, W[f]) BY <1>5, <1>6, <2>1
    <3>2. W[f].folder \in Folder /\ IsIncluded(p, W[W[f].folder])
      BY <1>4, <3>1, FolderIncluded
    <3> QED BY <1>5, <1>6, <3>1, <3>2 DEF IsIncluded
  <2> QED BY <1>9, <2>1
<1>11. CASE f \in Changed(S, T) BY <1>8, <1>11
<1>12. CASE f \in Gone(S, T) BY <1>8, <1>12 DEF Gone, Changed, IsIncluded
<1>13. CASE f \notin Changed(S, T) \cup Gone(S, T)
  <2>1. Merged(T)[f] = C[f] /\ S[f] = T[f] BY <1>6, <1>8, <1>13 DEF Changed, Gone
  <2>2. CASE T[f] = None
    <3>1. ASSUME C[f] # None PROVE FALSE
      <4>1. Found(W, W[f].folder) = Found(S, W[f].folder)
        <5>1. PICK R \in Snapshot, N \in Snapshot : R = S /\ N = T BY <1>1, <1>3
        <5>2. Whole(R) /\ Whole(N) /\ After(R, W) /\ Within(R, W, N)
          BY <1>1, <1>3, <1>4, <5>1
        <5>3. PICK d \in Folder : d = W[f].folder BY <1>10, <3>1
        <5>4. R[d].stamp = N[d].stamp BY <1>10, <3>1, <5>1, <5>3
        <5>5. Found(W, d) = Found(R, d) BY <1>4, <5>2, <5>4, BetweenFolder
        <5> QED BY <5>1, <5>3, <5>5
      <4>2. f \in Found(W, W[f].folder) BY <1>10, <3>1 DEF Found
      <4> QED BY <2>1, <2>2, <4>1, <4>2 DEF Found
    <3> QED BY <2>1, <2>2, <3>1 DEF IsIncluded
  <2>3. CASE T[f] # None
    <3> DEFINE d == T[f].folder
    <3>1. /\ d \in Folder /\ (W[f] # None => W[f].folder = d)
          /\ S[d].stamp = T[d].stamp => W[f] = T[f]
      <4>1. PICK R \in Snapshot, N \in Snapshot : R = S /\ N = T BY <1>1, <1>3
      <4>2. /\ Whole(R) /\ Whole(N) /\ After(R, W) /\ Within(R, W, N)
            /\ R[f] # None /\ N[f] = R[f] /\ R[f] = T[f]
        BY <1>1, <1>3, <1>4, <2>1, <2>3, <4>1
      <4>3. /\ R[f].folder \in Folder /\ (W[f] # None => W[f].folder = R[f].folder)
            /\ R[R[f].folder].stamp = N[R[f].folder].stamp => W[f] = R[f]
        BY <1>4, <4>2, BetweenFile
      <4> QED BY <4>1, <4>2, <4>3
    <3>2. CASE T[d] = S[d]
      <4>1. W[f] = T[f] BY <3>1, <3>2
      <4> QED BY <1>5, <1>6, <2>1, <4>1
    <3>3. CASE T[d] # S[d]
      <4>1. C[d] = None /\ ~IsIncluded(p, T[d]) BY <1>9, <3>1, <3>3
      <4>2. ~IsIncluded(p, T[f]) BY <1>1, <2>3, <4>1, FolderIncluded
      <4>3. C[f] = None BY <1>10, <3>1, <4>1
      <4> QED BY <2>1, <4>2, <4>3
    <3> QED BY <3>2, <3>3
  <2> QED BY <2>2, <2>3
<1> QED BY <1>11, <1>12, <1>13

LEMMA CatchupReadKeeps ==
  ASSUME IInv, CatchupRead
  PROVE  IInv'
<1> DEFINE T == scan.got
<1>1. pc = "catchup" /\ Scanned("catchup") BY DEF CatchupRead, Scanned
<1>2. Whole(T) /\ T \in Snapshot BY <1>1, ScanWhole
<1>3. job \in Job /\ job.policy \in Policy /\ job.full
  BY <1>1 DEF IInv, TypeOK, Phases, Scans, Job
<1>4. CASE FolderChanged(T)
  <2>1. Retry BY <1>4 DEF CatchupRead
  <2>2. CASE job.attempt = MaxAttempts BY <2>1, <2>2, FailKeeps DEF Retry
  <2>3. CASE job.attempt # MaxAttempts
    <3>1. /\ job' = Full(job.policy, job.attempt + 1) /\ taken' = None
          /\ Goto("checkpoint") /\ UNCHANGED <<source, index>>
      BY <2>1, <2>3 DEF Retry
    <3>2. job.attempt + 1 \in 1 .. MaxAttempts BY <1>3, <2>3 DEF Job
    <3> QED BY <1>3, <3>1, <3>2, AgainKeeps
  <2> QED BY <2>2, <2>3
<1>5. CASE ~FolderChanged(T)
  <2>1. /\ job' = [job EXCEPT !.catalog = Merged(T), !.first = NoItems, !.last = T]
        /\ taken' = Tree /\ pc' = "root" /\ scan' = None
        /\ UNCHANGED <<where, stamp, named, policy, edits, index>>
    BY <1>5 DEF CatchupRead, Goto, source
  <2>2. Merged(T) \in Snapshot BY <1>2, <1>3 DEF Merged, Snapshot, Job
  <2>3. /\ job' \in Job /\ job'.catalog = Merged(T) /\ job'.last = T
        /\ job'.full = job.full /\ job'.policy = job.policy /\ job'.read = job.read
    BY <1>2, <1>3, <2>1, <2>2, NothingSeen DEF Job
  <2>4. Tree \in Snapshot /\ Whole(Tree) BY TreeWhole DEF IInv
  <2>5. TypeOK' BY <2>1, <2>3, <2>4 DEF IInv, TypeOK, Phase, Scans
  <2>6. Taken'
    <3>1. Whole(job.last)'
      BY <1>2, <2>1, <2>3 DEF Whole, Truthful, SeenFolder, SeenFile, Settled, Content, Found
    <3>2. Whole(taken)'
      BY <2>1, <2>4 DEF Whole, Truthful, SeenFolder, SeenFile, Settled, Content, Found
    <3>3. After(T, Tree) BY <1>2, AfterTree DEF IInv, Whole
    <3> QED BY <2>1, <2>3, <2>4, <3>1, <3>2, <3>3 DEF Taken
  <2>7. Catalogued' BY <1>1, <1>3, <1>5, <2>3, MergedIsSeen DEF Catalogued
  <2>8. Phases' BY <1>1, <1>3, <2>1, <2>3, <2>6, <2>7 DEF IInv, Phases, Scans, Phase
  <2> QED BY <2>1, <2>5, <2>8 DEF IInv, Stamped, Scanning, Indexed
<1> QED BY <1>4, <1>5

LEMMA RootReadKeeps ==
  ASSUME IInv, RootRead
  PROVE  IInv'
<1>1. pc = "root" BY DEF RootRead, Scanned
<1>2. job \in Job /\ job.policy \in Policy /\ job.full
  BY <1>1 DEF IInv, TypeOK, Phases, Scans, Job
<1>3. CASE scan.got # job.last
  <2>1. Retry BY <1>3 DEF RootRead
  <2>2. CASE job.attempt = MaxAttempts BY <2>1, <2>2, FailKeeps DEF Retry
  <2>3. CASE job.attempt # MaxAttempts
    <3>1. /\ job' = Full(job.policy, job.attempt + 1) /\ taken' = None
          /\ Goto("checkpoint") /\ UNCHANGED <<source, index>>
      BY <2>1, <2>3 DEF Retry
    <3>2. job.attempt + 1 \in 1 .. MaxAttempts BY <1>2, <2>3 DEF Job
    <3> QED BY <1>2, <3>1, <3>2, AgainKeeps
  <2> QED BY <2>2, <2>3
<1>4. CASE scan.got = job.last
  <2>1. /\ pc' = "select" /\ scan' = None
        /\ UNCHANGED <<where, stamp, named, policy, edits, job, index, taken>>
    BY <1>4 DEF RootRead, Goto, source
  <2>2. TypeOK' BY <2>1 DEF IInv, TypeOK, Phase
  <2>3. Taken' /\ Catalogued'
    <3>1. \A S : Whole(S)' = Whole(S) BY <2>1, SourceKept DEF source
    <3> QED BY <1>1, <2>1, <3>1 DEF IInv, Phases, Taken, Catalogued
  <2>4. Phases' BY <1>1, <2>1, <2>3 DEF IInv, Phases, Scans, Phase
  <2> QED BY <2>1, <2>2, <2>4 DEF IInv, Stamped, Scanning, Indexed
<1> QED BY <1>3, <1>4

LEMMA DeltaReadKeeps ==
  ASSUME IInv, DeltaRead
  PROVE  IInv'
<1> DEFINE T == scan.got
           new == Changed(index.cursor, T)
<1>1. pc = "delta" /\ Scanned("delta") BY DEF DeltaRead, Scanned
<1>2. Whole(T) /\ T \in Snapshot BY <1>1, ScanWhole
<1>3. /\ job \in Job /\ job.policy \in Policy /\ ~job.full
      /\ index # None /\ index.policy = job.policy
  BY <1>1 DEF IInv, TypeOK, Phases, Scans, Job
<1>4. UNCHANGED <<where, stamp, named, policy, edits, index>> BY DEF DeltaRead, source
<1>5. CASE new \cap Folder # {}
  <2>1. job' = Full(job.policy, 1) /\ taken' = None /\ Goto("checkpoint")
    BY <1>5 DEF DeltaRead
  <2>2. 1 \in 1 .. MaxAttempts OBVIOUS
  <2> QED BY <1>3, <1>4, <2>1, <2>2, AgainKeeps DEF source
<1>6. CASE new \cap Folder = {}
  <2> DEFINE C == [i \in Item |-> IF i \in new THEN T[i] ELSE None]
  <2>1. /\ job' = [job EXCEPT !.last = T, !.gone = Gone(index.cursor, T), !.catalog = C]
        /\ taken' = Tree /\ pc' = "select" /\ scan' = None
    BY <1>6 DEF DeltaRead, Goto
  <2>2. C \in Snapshot BY <1>2 DEF Snapshot
  <2>3. Gone(index.cursor, T) \in SUBSET Item BY DEF Gone
  <2>4. /\ job' \in Job /\ job'.catalog = C /\ job'.last = T
        /\ job'.gone = Gone(index.cursor, T)
        /\ job'.full = job.full /\ job'.policy = job.policy /\ job'.read = job.read
    BY <1>2, <1>3, <2>1, <2>2, <2>3 DEF Job
  <2>5. Tree \in Snapshot /\ Whole(Tree) BY TreeWhole DEF IInv
  <2>6. TypeOK' BY <1>4, <2>1, <2>4, <2>5 DEF IInv, TypeOK, Phase
  <2>7. Taken'
    <3>1. Whole(job.last)'
      BY <1>2, <1>4, <2>4 DEF Whole, Truthful, SeenFolder, SeenFile, Settled, Content, Found
    <3>2. Whole(taken)'
      BY <1>4, <2>1, <2>5 DEF Whole, Truthful, SeenFolder, SeenFile, Settled, Content, Found
    <3>3. After(T, Tree) BY <1>2, AfterTree DEF IInv, Whole
    <3> QED BY <2>1, <2>4, <2>5, <3>1, <3>2, <3>3 DEF Taken
  <2>8. Catalogued' BY <1>3, <1>4, <2>4 DEF Catalogued, Item
  <2>9. Phases' BY <1>1, <1>3, <2>1, <2>4, <2>7, <2>8 DEF IInv, Phases, Scans, Phase
  <2> QED BY <1>4, <2>1, <2>6, <2>9 DEF IInv, Stamped, Scanning, Indexed
<1> QED BY <1>5, <1>6

-----------------------------------------------------------------------------
(* The documents, and the index.                                              *)

\* A file of the catalog is as the last scan shows it.
LEMMA CatalogIsLast ==
  ASSUME IInv, pc \in {"select", "documents", "final", "publish"}, NEW f \in Allowed
  PROVE  /\ f \in File /\ IsIncluded(job.policy, job.catalog[f])
         /\ job.catalog[f] # None /\ job.catalog[f] = job.last[f]
<1>1. f \in File /\ job.catalog[f] # None /\ IsIncluded(job.policy, job.catalog[f])
  BY DEF Allowed, Listed
<1>2. Catalogued BY DEF IInv, Phases
<1> QED BY <1>1, <1>2 DEF Catalogued

LEMMA SelectKeeps ==
  ASSUME IInv, Select
  PROVE  IInv'
<1>1. PICK chosen \in SUBSET Allowed :
        job' = [job EXCEPT !.chosen = chosen, !.left = chosen]
  BY DEF Select
<1>2. /\ pc = "select" /\ pc' = "documents" /\ scan' = None
      /\ UNCHANGED <<where, stamp, named, policy, edits, index, taken>>
  BY DEF Select, Goto, source
<1>3. job \in Job /\ chosen \in SUBSET File BY DEF IInv, TypeOK, Allowed, Listed
<1>4. /\ job' \in Job /\ job'.chosen = chosen /\ job'.left = chosen
      /\ job'.catalog = job.catalog /\ job'.last = job.last /\ job'.gone = job.gone
      /\ job'.full = job.full /\ job'.policy = job.policy /\ job'.read = job.read
  BY <1>1, <1>3 DEF Job
<1>5. TypeOK' BY <1>2, <1>4 DEF IInv, TypeOK, Phase
<1>6. Taken' /\ Catalogued'
  <2>1. \A S : Whole(S)' = Whole(S) BY <1>2, SourceKept DEF source
  <2> QED BY <1>2, <1>4, <2>1 DEF IInv, Phases, Taken, Catalogued
<1>7. Allowed' = Allowed BY <1>4 DEF Allowed, Listed
<1>8. Read' BY <1>1, <1>2, <1>3, <1>4, <1>7 DEF IInv, Phases, Read
<1>9. Phases' BY <1>2, <1>4, <1>6, <1>8 DEF IInv, Phases, Scans, Phase
<1> QED BY <1>2, <1>5, <1>9 DEF IInv, Stamped, Scanning, Indexed

\* Reading a document, and looking at its entry again.
LEMMA DocumentKeeps ==
  ASSUME IInv, pc = "documents", job' \in Job, UNCHANGED <<source, pc, scan, index, taken>>,
         job'.catalog = job.catalog, job'.last = job.last, job'.gone = job.gone,
         job'.full = job.full, job'.policy = job.policy, job'.chosen = job.chosen, Read'
  PROVE  IInv'
<1>1. UNCHANGED <<where, stamp, named, policy, edits>> BY DEF source
<1>2. TypeOK' BY <1>1 DEF IInv, TypeOK
<1>3. Taken' /\ Catalogued'
  <2>1. \A S : Whole(S)' = Whole(S) BY SourceKept
  <2> QED BY <2>1 DEF IInv, Phases, Taken, Catalogued
<1>4. scan = None BY DEF IInv, Phases, Phase, Scans
<1>5. Phases' BY <1>3, <1>4 DEF IInv, Phases, Scans, Phase
<1> QED BY <1>1, <1>2, <1>4, <1>5 DEF IInv, Stamped, Scanning, Indexed

LEMMA DownloadKeeps ==
  ASSUME IInv, NEW f \in File, Download(f)
  PROVE  IInv'
<1>1. pc = "documents" /\ f \in job.left /\ job.read[f] = None BY DEF Download
<1>2. CASE ~Exists(f) BY <1>2, FailKeeps DEF Download
<1>3. CASE Exists(f)
  <2>1. /\ job' = [job EXCEPT !.read[f] = stamp[f]]
        /\ UNCHANGED <<source, pc, scan, index, taken>>
    BY <1>3 DEF Download
  <2>2. job \in Job /\ stamp[f] \in Stamp BY DEF IInv, TypeOK, Item
  <2>3. [job.read EXCEPT ![f] = stamp[f]] \in [File -> Stamp \cup {None}] BY <2>2 DEF Job
  <2>4. /\ job' \in Job /\ job'.read = [job.read EXCEPT ![f] = stamp[f]]
        /\ job'.left = job.left /\ job'.chosen = job.chosen
        /\ job'.catalog = job.catalog /\ job'.last = job.last /\ job'.gone = job.gone
        /\ job'.full = job.full /\ job'.policy = job.policy
    BY <2>1, <2>2, <2>3 DEF Job
  <2>5. \A g \in File : job'.read[g] = IF g = f THEN stamp[f] ELSE job.read[g]
    BY <2>2, <2>4 DEF Job
  <2>6. Read BY <1>1 DEF IInv, Phases
  <2>7. f \in job.chosen => job.catalog[f].stamp <= stamp[f] /\ stamp[f] <= stamp[f]
    <3>1. ASSUME f \in job.chosen
          PROVE  job.catalog[f].stamp <= stamp[f]
      <4>1. job.catalog[f] # None /\ job.catalog[f] = job.last[f]
        BY <1>1, <2>6, <3>1, CatalogIsLast DEF Read
      <4>2. Whole(job.last) BY <1>1 DEF IInv, Phases, Taken
      <4> QED BY <4>1, <4>2 DEF Whole, Truthful, SeenFile
    <3>2. stamp[f] \in Nat BY <2>2 DEF Stamp
    <3> QED BY <3>1, <3>2
  <2>8. Read'
    <3>1. Allowed' = Allowed /\ stamp' = stamp BY <2>1, <2>4 DEF Allowed, Listed, source
    <3>2. job.chosen \subseteq File BY <2>2 DEF Job
    <3> QED BY <1>1, <2>4, <2>5, <2>6, <2>7, <3>1, <3>2 DEF Read
  <2> QED BY <1>1, <2>1, <2>4, <2>8, DocumentKeeps
<1> QED BY <1>2, <1>3

LEMMA ConfirmKeeps ==
  ASSUME IInv, NEW f \in File, Confirm(f)
  PROVE  IInv'
<1>1. pc = "documents" /\ f \in job.left /\ job.read[f] # None BY DEF Confirm
<1>2. CASE Tree[f] # job.catalog[f] BY <1>2, FailKeeps DEF Confirm
<1>3. CASE Tree[f] = job.catalog[f]
  <2>1. /\ job' = [job EXCEPT !.left = @ \ {f}]
        /\ UNCHANGED <<source, pc, scan, index, taken>>
    BY <1>3 DEF Confirm
  <2>2. job \in Job BY DEF IInv, TypeOK
  <2>3. /\ job' \in Job /\ job'.read = job.read
        /\ job'.left = job.left \ {f} /\ job'.chosen = job.chosen
        /\ job'.catalog = job.catalog /\ job'.last = job.last /\ job'.gone = job.gone
        /\ job'.full = job.full /\ job'.policy = job.policy
    BY <2>1, <2>2 DEF Job
  <2>4. Read BY <1>1 DEF IInv, Phases
  <2>5. f \in job.chosen => job.read[f] = job.catalog[f].stamp
    <3>1. ASSUME f \in job.chosen
          PROVE  job.read[f] = job.catalog[f].stamp
      <4>1. job.catalog[f] # None BY <1>1, <2>4, <3>1, CatalogIsLast DEF Read
      <4>2. f \in Item /\ Exists(f) /\ Tree[f] = Tag(f) BY <1>3, <4>1 DEF Tree, Item
      <4>3. job.catalog[f].stamp = stamp[f] BY <1>3, <4>2, TagType DEF IInv
      <4>4. job.catalog[f].stamp <= job.read[f] /\ job.read[f] <= stamp[f]
        BY <1>1, <2>4, <3>1 DEF Read
      <4>5. stamp[f] \in Nat /\ job.read[f] \in Nat
        BY <1>1, <2>2, <4>2 DEF IInv, TypeOK, Stamp, Job
      <4> QED BY <4>3, <4>4, <4>5
    <3> QED BY <3>1
  <2>6. Read'
    <3>1. Allowed' = Allowed /\ stamp' = stamp BY <2>1, <2>3 DEF Allowed, Listed, source
    <3> QED BY <2>3, <2>4, <2>5, <3>1 DEF Read
  <2> QED BY <1>1, <2>1, <2>3, <2>6, DocumentKeeps
<1> QED BY <1>2, <1>3

LEMMA DocumentsReadKeeps ==
  ASSUME IInv, DocumentsRead
  PROVE  IInv'
<1>1. /\ pc = "documents" /\ job.left = {} /\ pc' = "final" /\ scan' = None
      /\ UNCHANGED <<where, stamp, named, policy, edits, job, index, taken>>
  BY DEF DocumentsRead, Goto, source
<1>2. TypeOK' BY <1>1 DEF IInv, TypeOK, Phase, Scans
<1>3. Taken' /\ Catalogued' /\ Read'
  <2>1. \A S : Whole(S)' = Whole(S) BY <1>1, SourceKept DEF source
  <2> QED BY <1>1, <2>1 DEF IInv, Phases, Taken, Catalogued, Read, Allowed, Listed
<1>4. Got' = NoItems BY <1>1 DEF Got
<1>5. Within(job.last, taken, Got)' BY <1>1, <1>4, NothingWithin
<1>6. Phases' BY <1>1, <1>3, <1>5 DEF IInv, Phases, Scans, Phase
<1> QED BY <1>1, <1>2, <1>6 DEF IInv, Stamped, Scanning, Indexed

LEMMA FinalReadKeeps ==
  ASSUME IInv, FinalRead
  PROVE  IInv'
<1>1. pc = "final" /\ Scanned("final") BY DEF FinalRead, Scanned
<1>2. Got = scan.got BY <1>1, ScanWhole
<1>3. CASE scan.got # job.last BY <1>3, FailKeeps DEF FinalRead
<1>4. CASE scan.got = job.last
  <2>1. /\ pc' = "publish" /\ scan' = None
        /\ UNCHANGED <<where, stamp, named, policy, edits, job, index, taken>>
    BY <1>4 DEF FinalRead, Goto, source
  <2>2. TypeOK' BY <2>1 DEF IInv, TypeOK, Phase
  <2>3. taken # None /\ taken = job.last
    <3>1. PICK S \in Snapshot, W \in Snapshot : S = job.last /\ W = taken
      BY <1>1 DEF IInv, Phases, Taken, Whole
    <3>2. /\ taken # None /\ Whole(S) /\ Whole(W) /\ After(S, W) /\ Within(S, W, S)
      BY <1>1, <1>2, <1>4, <3>1 DEF IInv, Phases, Taken
    <3> QED BY <3>1, <3>2, SameInstant
  <2>4. Catalogued' /\ Read'
    BY <1>1, <2>1 DEF IInv, Phases, Catalogued, Read, Allowed, Listed
  <2>5. Phases' BY <1>1, <2>1, <2>3, <2>4 DEF IInv, Phases, Scans, Phase
  <2> QED BY <2>1, <2>2, <2>5 DEF IInv, Stamped, Scanning, Indexed
<1> QED BY <1>3, <1>4

\* What is published of a file: the entry the last scan shows of it, with a text
\* read under that entry, or in quarantine.
LEMMA PublishedFile ==
  ASSUME IInv, pc = "publish", NEW f \in File
  PROVE  LET seen == job.last[f]
             document == NextGeneration.document[f]
             quarantine == NextGeneration.quarantine[f]
         IN  /\ document \in Document \cup {None}
             /\ document # None => /\ IsIncluded(job.policy, seen)
                                   /\ document = [entry |-> seen, content |-> seen.stamp]
             /\ quarantine \in Entry \cup {None}
             /\ quarantine # None => quarantine = seen
             /\ IsIncluded(job.policy, seen) => document # None \/ quarantine # None
<1> DEFINE seen == job.last[f]
           document == NextGeneration.document[f]
           quarantine == NextGeneration.quarantine[f]
<1>1. Read /\ Catalogued /\ job.left = {} /\ Indexed /\ job \in Job /\ f \in Item
  BY DEF IInv, Phases, TypeOK, Item
<1>2. /\ document = IF f \in Written THEN [entry |-> job.catalog[f], content |-> job.read[f]]
                    ELSE IF job.full \/ f \in Touched THEN None ELSE index.document[f]
      /\ quarantine = IF f \in Quarantined THEN job.catalog[f]
                      ELSE IF job.full \/ f \in Touched THEN None ELSE index.quarantine[f]
  BY DEF NextGeneration
<1>3. Written \subseteq Listed /\ Quarantined = Listed \ Written /\ (f \in Listed <=> job.catalog[f] # None)
  BY <1>1 DEF Written, Quarantined, Listed, Allowed, Read
<1>4. job.catalog[f] \in Entry \cup {None} /\ seen \in Entry \cup {None}
  BY <1>1 DEF Job, Snapshot
<1>5. job.catalog[f] # None => job.catalog[f] = seen BY <1>1 DEF Catalogued
<1>6. CASE f \in Written
  <2>1. f \in job.chosen /\ f \in Allowed BY <1>1, <1>6 DEF Written, Read
  <2>2. /\ IsIncluded(job.policy, seen) /\ job.catalog[f] = seen /\ seen \in Entry
        /\ job.read[f] = seen.stamp
    BY <1>1, <1>4, <2>1, CatalogIsLast DEF Read
  <2>3. document = [entry |-> seen, content |-> seen.stamp] BY <1>2, <1>6, <2>2
  <2>4. seen.stamp \in Stamp BY <2>2 DEF Entry
  <2>5. document \in Document BY <2>2, <2>3, <2>4 DEF Document
  <2>6. quarantine = None BY <1>2, <1>3, <1>6 DEF Touched
  <2> QED BY <2>2, <2>3, <2>5, <2>6
<1>7. CASE f \in Quarantined
  <2>1. f \notin Written /\ job.catalog[f] # None /\ f \in Touched BY <1>3, <1>7 DEF Touched
  <2>2. document = None BY <1>2, <2>1
  <2>3. quarantine = seen /\ seen \in Entry BY <1>2, <1>4, <1>5, <1>7, <2>1
  <2> QED BY <2>2, <2>3
<1>8. CASE f \notin Written /\ f \notin Quarantined
  <2>1. job.catalog[f] = None BY <1>3, <1>8
  <2>2. CASE job.full
    <3>1. document = None /\ quarantine = None BY <1>2, <1>8, <2>2
    <3>2. ~IsIncluded(job.policy, seen) BY <1>1, <2>1, <2>2 DEF Catalogued, IsIncluded
    <3> QED BY <3>1, <3>2
  <2>3. CASE ~job.full
    <3>1. /\ index # None /\ index \in Generation /\ index.policy = job.policy
          /\ job.gone = Gone(index.cursor, job.last)
          /\ f \notin Changed(index.cursor, job.last)
      BY <1>1, <1>4, <2>1, <2>3 DEF Catalogued, IInv, TypeOK, Changed
    <3>2. CASE f \in job.gone
      <4>1. f \in Touched BY <3>2 DEF Touched
      <4>2. seen = None BY <3>1, <3>2 DEF Gone
      <4> QED BY <1>2, <1>8, <4>1, <4>2 DEF IsIncluded
    <3>3. CASE f \notin job.gone
      <4>1. f \notin Touched BY <1>3, <2>1, <3>3 DEF Touched
      <4>2. document = index.document[f] /\ quarantine = index.quarantine[f]
        BY <1>2, <1>8, <2>3, <4>1
      <4>3. index.cursor[f] = seen
        BY <1>1, <3>1, <3>3 DEF Changed, Gone
      <4>4. document \in Document \cup {None} /\ quarantine \in Entry \cup {None}
        BY <3>1, <4>2 DEF Generation
      <4> QED BY <1>1, <3>1, <4>2, <4>3, <4>4 DEF Indexed
    <3> QED BY <3>2, <3>3
  <2> QED BY <2>2, <2>3
<1> QED BY <1>6, <1>7, <1>8

LEMMA PublishTyped ==
  ASSUME IInv, pc = "publish"
  PROVE  NextGeneration \in Generation /\ NextGeneration # None
<1> DEFINE D == NextGeneration.document
           Q == NextGeneration.quarantine
<1>1. job \in Job /\ job.policy \in Policy /\ job.last \in Snapshot
  BY DEF IInv, TypeOK, Phases, Job
<1>2. D \in [File -> Document \cup {None}] /\ Q \in [File -> Entry \cup {None}]
  <2>1. D = [f \in File |-> D[f]] /\ Q = [f \in File |-> Q[f]] BY DEF NextGeneration
  <2>2. \A f \in File : D[f] \in Document \cup {None} /\ Q[f] \in Entry \cup {None}
    BY PublishedFile
  <2> QED BY <2>1, <2>2
<1>3. NextGeneration = [policy |-> job.policy, cursor |-> job.last, document |-> D, quarantine |-> Q]
  BY DEF NextGeneration
<1> HIDE DEF D, Q
<1>4. NextGeneration \in Generation BY <1>1, <1>2, <1>3 DEF Generation
<1> QED BY <1>4

LEMMA PublishKeeps ==
  ASSUME IInv, Publish
  PROVE  IInv'
<1>1. /\ pc = "publish" /\ index' = NextGeneration /\ job' = IdleJob /\ taken' = None
      /\ pc' = "idle" /\ scan' = None
      /\ UNCHANGED <<where, stamp, named, policy, edits>>
  BY DEF Publish, Goto, source
<1>2. job \in Job /\ job.policy \in Policy BY <1>1 DEF IInv, TypeOK, Phases, Job
<1>3. IdleJob \in Job BY NothingSeen DEF IdleJob, Job
<1>4. /\ index'.policy = job.policy /\ index'.cursor = job.last
      /\ \A f \in File : index'.document[f] = NextGeneration.document[f]
                         /\ index'.quarantine[f] = NextGeneration.quarantine[f]
  BY <1>1 DEF NextGeneration
<1>5. NextGeneration \in Generation BY <1>1, PublishTyped
<1>6. TypeOK' BY <1>1, <1>3, <1>5 DEF IInv, TypeOK, Phase
<1>7. Indexed'
  <2>1. \A f \in File :
          LET seen == job.last[f] IN
          /\ index'.document[f] # None =>
               /\ IsIncluded(job.policy, seen)
               /\ index'.document[f] = [entry |-> seen, content |-> seen.stamp]
          /\ index'.quarantine[f] # None => index'.quarantine[f] = seen
          /\ IsIncluded(job.policy, seen) =>
               index'.document[f] # None \/ index'.quarantine[f] # None
    BY <1>1, <1>4, PublishedFile
  <2> QED BY <1>4, <2>1 DEF Indexed, IsIncluded
<1>8. Phases' BY <1>1 DEF Phases, Scans
<1> QED BY <1>1, <1>6, <1>7, <1>8 DEF IInv, Stamped, Scanning

LEMMA SourceKeeps ==
  ASSUME IInv, SourceChanges
  PROVE  IInv'
<1>1. /\ where' \in [File -> Folder \cup {None}] /\ stamp' \in [Item -> Stamp]
      /\ named' \in [Folder -> BOOLEAN] /\ policy' \in Policy /\ edits' \in 0 .. MaxEdits
      /\ UNCHANGED <<pc, scan, job, index, taken>>
      /\ Stamped' /\ Moved
  BY Edits DEF IInv
<1>2. TypeOK' BY <1>1 DEF IInv, TypeOK
<1>3. \A S \in Snapshot : Whole(S) => Whole(S)' BY <1>1, SeenKept DEF IInv
<1>4. Scanning'
  <2>1. ASSUME scan # None
        PROVE  /\ Truthful(scan.got)'
               /\ \A d \in Folder : scan.got[d] # None => Progress(d)'
    <3>1. scan.got \in Snapshot /\ Truthful(scan.got) BY <2>1 DEF IInv, TypeOK, Scan, Scanning
    <3>2. PICK S \in Snapshot : S = scan.got BY <3>1
    <3>3. Truthful(S) /\ Truthful(S)' BY <1>1, <3>1, <3>2, SeenKept DEF IInv
    <3>4. Truthful(scan.got)'
      BY <1>1, <3>2, <3>3 DEF Truthful, SeenFolder, SeenFile
    <3>5. ASSUME NEW d \in Folder, S[d] # None
          PROVE  Progress(d)'
      <4>1. Progress(d) BY <2>1, <3>2, <3>5 DEF IInv, Scanning
      <4>2. S[d].stamp = stamp'[d] => S[d].stamp = stamp[d] /\ Content(d)' = Content(d)
        BY <1>1, <3>3, <3>5, SeenKept DEF IInv, Truthful
      <4> QED BY <1>1, <3>2, <4>1, <4>2 DEF Progress, Settled, Found
    <3> QED BY <3>2, <3>4, <3>5
  <2> QED BY <1>1, <2>1 DEF IInv, Scanning
<1>5. Got' = Got BY <1>1 DEF Got
<1>6. pc \in {"walk", "catchup"} => Whole(job.first)'
  <2>1. ASSUME pc \in {"walk", "catchup"} PROVE Whole(job.first)'
    <3>1. PICK S \in Snapshot : S = job.first /\ Whole(S)
      BY <2>1 DEF IInv, Phases, Whole
    <3>2. Whole(S)' BY <1>3, <3>1
    <3> QED BY <1>1, <3>1, <3>2
          DEF Whole, Truthful, SeenFolder, SeenFile, Settled, Content, Found
  <2> QED BY <2>1
<1>7. pc = "catchup" => Walked'
  <2>1. ASSUME pc = "catchup" PROVE Walked'
    <3>1. PICK W \in Snapshot :
            /\ Whole(W) /\ After(job.first, W) /\ Within(job.first, W, Got)
            /\ job.catalog = Filtered(job.policy, W)
      BY <2>1 DEF IInv, Phases, Walked
    <3>2. Whole(W)' BY <1>3, <3>1
    <3> QED BY <1>1, <1>5, <3>1, <3>2 DEF Walked
  <2> QED BY <2>1
<1>8. pc \in {"root", "select", "documents", "final"} => Taken'
  <2>1. ASSUME pc \in {"root", "select", "documents", "final"} PROVE Taken'
    <3>1. PICK S \in Snapshot, W \in Snapshot : S = job.last /\ W = taken /\ Whole(S) /\ Whole(W)
      BY <2>1 DEF IInv, Phases, Taken, Whole
    <3>2. Whole(S)' /\ Whole(W)' BY <1>3, <3>1
    <3>3. Whole(job.last)' /\ Whole(taken)'
      BY <1>1, <3>1, <3>2 DEF Whole, Truthful, SeenFolder, SeenFile, Settled, Content, Found
    <3> QED BY <1>1, <2>1, <3>3 DEF IInv, Phases, Taken
  <2> QED BY <2>1
<1>9. Catalogued' = Catalogued /\ Indexed' = Indexed BY <1>1 DEF Catalogued, Indexed
<1>10. pc \in {"documents", "final", "publish"} => Read'
  <2>1. ASSUME pc \in {"documents", "final", "publish"} PROVE Read'
    <3>1. Read /\ Allowed' = Allowed BY <1>1, <2>1 DEF IInv, Phases, Allowed, Listed
    <3>2. ASSUME NEW f \in job.chosen, job.read[f] # None
          PROVE  job.read[f] <= stamp'[f]
      <4>1. f \in File /\ f \in Item /\ job.read[f] \in Nat
        BY <3>2 DEF IInv, TypeOK, Job, Item, Stamp
      <4>2. stamp[f] \in Nat /\ stamp'[f] \in Nat BY <1>1, <4>1 DEF IInv, TypeOK, Stamp
      <4>3. job.read[f] <= stamp[f] /\ stamp[f] <= stamp'[f] BY <1>1, <3>1, <3>2, <4>1 DEF Read, Moved
      <4> QED BY <4>1, <4>2, <4>3
    <3> QED BY <1>1, <3>1, <3>2 DEF Read
  <2> QED BY <2>1
<1>11. Phases' BY <1>1, <1>5, <1>6, <1>7, <1>8, <1>9, <1>10 DEF IInv, Phases
<1> QED BY <1>1, <1>2, <1>4, <1>9, <1>11 DEF IInv

-----------------------------------------------------------------------------
(* The theorems.                                                              *)

LEMMA InitIInv == Init => IInv
<1> SUFFICES ASSUME Init PROVE IInv OBVIOUS
<1>1. IdleJob \in Job BY NothingSeen DEF IdleJob, Job
<1>2. TypeOK BY <1>1 DEF Init, TypeOK, Stamp, Phase
<1>3. Stamped BY DEF Init, Stamped
<1> QED BY <1>2, <1>3 DEF Init, IInv, Scanning, Phases, Indexed, Scans

LEMMA NextIInv == IInv /\ [Next]_vars => IInv'
<1> SUFFICES ASSUME IInv, [Next]_vars PROVE IInv' OBVIOUS
<1>1. CASE Start BY <1>1, StartKeeps
<1>2. CASE ListRoot BY <1>2, ListRootKeeps
<1>3. CASE ListFolder BY <1>3, ListFolderKeeps
<1>4. CASE \E i \in Item : LookUp(i) BY <1>4, LookUpKeeps
<1>5. CASE CheckpointRead BY <1>5, CheckpointReadKeeps
<1>6. CASE WalkRead BY <1>6, WalkReadKeeps
<1>7. CASE CatchupRead BY <1>7, CatchupReadKeeps
<1>8. CASE RootRead BY <1>8, RootReadKeeps
<1>9. CASE DeltaRead BY <1>9, DeltaReadKeeps
<1>10. CASE Select BY <1>10, SelectKeeps
<1>11. CASE DocumentsRead BY <1>11, DocumentsReadKeeps
<1>12. CASE FinalRead BY <1>12, FinalReadKeeps
<1>13. CASE Publish BY <1>13, PublishKeeps
<1>14. CASE \E f \in File : Download(f) \/ Confirm(f) BY <1>14, DownloadKeeps, ConfirmKeeps
<1>15. CASE SourceChanges BY <1>15, SourceKeeps
<1>16. CASE UNCHANGED vars
  <2>1. UNCHANGED <<where, stamp, named, policy, edits, pc, scan, job, index, taken>>
    BY <1>16 DEF vars, source
  <2>2. \A S : Whole(S)' = Whole(S) /\ Truthful(S)' = Truthful(S) BY <2>1, SourceKept DEF source
  <2>3. Got' = Got BY <2>1 DEF Got
  <2>4. Walked' = Walked /\ Taken' = Taken BY <2>1, <2>2, <2>3 DEF Walked, Taken
  <2>5. Scanning' = Scanning
    BY <2>1 DEF Scanning, Truthful, SeenFolder, SeenFile, Progress, Settled, Content, Found
  <2>6. Catalogued' = Catalogued /\ Read' = Read /\ Indexed' = Indexed /\ Stamped' = Stamped
    BY <2>1 DEF Catalogued, Read, Indexed, Stamped, Allowed, Listed
  <2>7. TypeOK' = TypeOK BY <2>1 DEF TypeOK
  <2>8. Whole(job.first)' = Whole(job.first) BY <2>1, <2>2
  <2>9. Phases' = Phases BY <2>1, <2>3, <2>4, <2>6, <2>8 DEF Phases
  <2> QED BY <2>5, <2>6, <2>7, <2>9 DEF IInv
<1> QED BY <1>1, <1>2, <1>3, <1>4, <1>5, <1>6, <1>7, <1>8, <1>9, <1>10, <1>11, <1>12, <1>13,
           <1>14, <1>15, <1>16 DEF Next, Work

\* The scans, the catalog, the documents and the index fit together in every
\* reachable state.
THEOREM Invariance == Spec => []IInv
<1>1. Init => IInv BY InitIInv
<1>2. IInv /\ [Next]_vars => IInv' BY NextIInv
<1> QED BY <1>1, <1>2, PTL DEF Spec

\* Every variable keeps its type; in particular the attempts stay bounded.
THEOREM TypeCorrect == Spec => []TypeOK
<1>1. IInv => TypeOK BY DEF IInv
<1> QED BY <1>1, Invariance, PTL

-----------------------------------------------------------------------------
(* The steps as the abstract specification sees them.                         *)

AbstractStep == Snapshots!Next \/ UNCHANGED Snapshots!vars

\* What the abstract specification sees of the folder and of the index.
LEMMA TreeKept ==
  ASSUME UNCHANGED source
  PROVE  Tree' = Tree
BY DEF source, Tree, Exists, Tag

LEMMA ShownKept ==
  ASSUME UNCHANGED index
  PROVE  Shown' = Shown
BY DEF Shown

\* A step that changes neither the source nor the index.
LEMMA QuietStep ==
  ASSUME UNCHANGED <<source, index>>,
         taken' = taken \/ taken' = None \/ taken' = Tree
  PROVE  AbstractStep
<1>1. Tree' = Tree /\ Shown' = Shown BY TreeKept, ShownKept
<1>2. CASE taken' = taken BY <1>1, <1>2 DEF AbstractStep, Snapshots!vars
<1>3. CASE taken' = None
  BY <1>1, <1>3 DEF AbstractStep, Snapshots!Next, Snapshots!Drop
<1>4. CASE taken' = Tree
  BY <1>1, <1>4 DEF AbstractStep, Snapshots!Next, Snapshots!Take
<1> QED BY <1>2, <1>3, <1>4

LEMMA ChangeStep ==
  ASSUME UNCHANGED <<index, taken>>
  PROVE  AbstractStep
<1>1. Shown' = Shown BY ShownKept
<1>2. CASE Tree' = Tree BY <1>1, <1>2 DEF AbstractStep, Snapshots!vars
<1>3. CASE Tree' # Tree BY <1>1, <1>3 DEF AbstractStep, Snapshots!Next, Snapshots!Change
<1> QED BY <1>2, <1>3

\* The index shows of a file what its cursor shows of it.
LEMMA ShownIsVisible ==
  ASSUME IInv, index # None
  PROVE  Shown = Visible(index.policy, index.cursor)
<1>1. ASSUME NEW f \in File
      PROVE  (IF index.document[f] # None
              THEN [index.document[f].entry EXCEPT !.stamp = index.document[f].content]
              ELSE IF IsIncluded(index.policy, index.quarantine[f]) THEN index.quarantine[f]
              ELSE None)
             = IF IsIncluded(index.policy, index.cursor[f]) THEN index.cursor[f] ELSE None
  <2> DEFINE seen == index.cursor[f]
  <2>1. /\ index.document[f] # None =>
             /\ IsIncluded(index.policy, seen)
             /\ index.document[f] = [entry |-> seen, content |-> seen.stamp]
        /\ index.quarantine[f] # None => index.quarantine[f] = seen
        /\ IsIncluded(index.policy, seen) =>
             index.document[f] # None \/ index.quarantine[f] # None
    BY DEF IInv, Indexed
  <2>2. CASE index.document[f] # None
    <3>1. index.document[f].entry = seen /\ index.document[f].content = seen.stamp
      BY <2>1, <2>2
    <3>2. seen # None BY <2>1, <2>2 DEF IsIncluded
    <3>3. index.cursor \in Snapshot /\ f \in Item BY DEF IInv, TypeOK, Generation, Item
    <3>4. seen \in Entry BY <3>2, <3>3, SnapshotType
    <3>5. [seen EXCEPT !.stamp = seen.stamp] = seen BY <3>4 DEF Entry
    <3> QED BY <2>1, <2>2, <3>1, <3>5
  <2>3. CASE index.document[f] = None BY <2>1, <2>3 DEF IsIncluded
  <2> QED BY <2>2, <2>3
<1> QED BY <1>1 DEF Shown, Visible

\* What is published is the folder at the instant the refresh stands for.
LEMMA PublishStep ==
  ASSUME IInv, Publish
  PROVE  AbstractStep
<1>1. /\ pc = "publish" /\ index' = NextGeneration /\ taken' = None /\ UNCHANGED source
  BY DEF Publish
<1>2. taken # None /\ taken = job.last /\ job.policy \in Policy
  BY <1>1 DEF IInv, TypeOK, Phases, Job
<1>3. Shown' = Visible(job.policy, taken)
  <2>1. IInv' BY PublishKeeps
  <2>2. index' # None BY <1>1, <2>1, PublishTyped
  <2>3. (IInv /\ index # None)' => (Shown = Visible(index.policy, index.cursor))'
    BY ShownIsVisible, PTL
  <2>4. Shown' = Visible(index'.policy, index'.cursor) BY <2>1, <2>2, <2>3 DEF Visible, IsIncluded
  <2>5. index'.policy = job.policy /\ index'.cursor = job.last BY <1>1 DEF NextGeneration
  <2> QED BY <1>2, <2>4, <2>5
<1>4. Snapshots!Publish BY <1>1, <1>2, <1>3, TreeKept DEF Snapshots!Publish
<1> QED BY <1>4 DEF AbstractStep, Snapshots!Next

LEMMA StepIsAbstract == IInv /\ [Next]_vars => AbstractStep
<1> SUFFICES ASSUME IInv, [Next]_vars PROVE AbstractStep OBVIOUS
<1>1. CASE Start BY <1>1, QuietStep DEF Start
<1>2. CASE ListRoot BY <1>2, QuietStep DEF ListRoot
<1>3. CASE Fail BY <1>3, QuietStep DEF Fail
<1>4. CASE Retry BY <1>3, <1>4, QuietStep DEF Retry
<1>5. CASE ListFolder BY <1>3, <1>5, QuietStep DEF ListFolder
<1>6. CASE \E i \in Item : LookUp(i) BY <1>3, <1>6, QuietStep DEF LookUp
<1>7. CASE CheckpointRead BY <1>7, QuietStep DEF CheckpointRead
<1>8. CASE WalkRead BY <1>8, QuietStep DEF WalkRead
<1>9. CASE CatchupRead BY <1>4, <1>9, QuietStep DEF CatchupRead
<1>10. CASE RootRead BY <1>4, <1>10, QuietStep DEF RootRead
<1>11. CASE DeltaRead BY <1>11, QuietStep DEF DeltaRead
<1>12. CASE Select BY <1>12, QuietStep DEF Select
<1>13. CASE DocumentsRead BY <1>13, QuietStep DEF DocumentsRead
<1>14. CASE FinalRead BY <1>3, <1>14, QuietStep DEF FinalRead
<1>15. CASE Publish BY <1>15, PublishStep
<1>16. CASE \E f \in File : Download(f) \/ Confirm(f)
  BY <1>3, <1>16, QuietStep DEF Download, Confirm
<1>17. CASE SourceChanges BY <1>17, Edits, ChangeStep DEF IInv
<1>18. CASE UNCHANGED vars BY <1>18, QuietStep DEF vars
<1> QED BY <1>1, <1>2, <1>5, <1>6, <1>7, <1>8, <1>9, <1>10, <1>11, <1>12, <1>13, <1>14, <1>15,
           <1>16, <1>17, <1>18 DEF Next, Work

\* Whatever happens to the folder during the scans, the merge and the downloads,
\* what a refresh publishes is the folder at one instant of the refresh, with
\* every text in the version it is shown under.
THEOREM Refinement == Spec => ImplementsSnapshot
<1>1. Init => Snapshots!Init BY DEF Init, Snapshots!Init, Shown
<1>2. IInv /\ [Next]_vars => [Snapshots!Next]_Snapshots!vars
  BY StepIsAbstract DEF AbstractStep
<1> QED BY <1>1, <1>2, Invariance, PTL DEF Spec, ImplementsSnapshot, Snapshots!Spec

==============================================================================
