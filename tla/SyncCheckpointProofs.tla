------------------------ MODULE SyncCheckpointProofs ------------------------
(* Whenever the checkpoint moves, Notion shows the version it moves to, for   *)
(* any number of properties, contents of the workbook, proposals and edits:   *)
(* rows may return to what they were, and files may be put back.              *)
(*                                                                            *)
(* The argument: what Notion shows of a property is explained by the          *)
(* checkpoint (Traced): it is the checkpoint's value, or a person decided on  *)
(* it, or its change is queued, or an apply that did not commit wrote it.  A  *)
(* proposal commits while the workbook is its version; as long as no proposal *)
(* is put back to its own, that is the version which a /nx_sync that is still *)
(* running has read (Ordered).  So the checkpoint moves to nothing else under *)
(* the comparison, a row it leaves out is the checkpoint's, and explains the  *)
(* property by the workbook as well (Covers).  That stays so while the        *)
(* workbook is the proposal's, which every write and the commit ask for.      *)
EXTENDS SyncCheckpoint, TLAPS

-----------------------------------------------------------------------------
(* The inductive invariant.                                                   *)

\* The id of an operation names its property.
IdsOfKeys == \A p \in Proposal : \A k \in Scope(p) : ops[p][k].id[1] = k

\* While /nx_sync runs and no proposal is put back to its own version, the
\* checkpoint moves to the version it read at most: the workbook can be the
\* version of a proposal only if that is the one.
Ordered ==
  sync.phase # "idle" =>
    /\ ~sync.back =>
         /\ checkpoint \in {sync.baseline, sync.current}
         /\ sync.current # source =>
              \A p \in Proposal : Known(p) => prop[p].version # source
    /\ sync.back =>
         \A p \in Proposal : Known(p) /\ ~prop[p].back => prop[p].version # source

\* A property shows the workbook's value, or a person decided otherwise.
UpToDate(k) == notion[k] = Content[source][k] \/ k \in settled

\* What it shows is that of version v, or a person decided on it, or its change
\* is queued, or an apply that did not commit wrote it over a row that v has from
\* the checkpoint.
Explained(k, v) ==
  \/ notion[k] = Content[v][k] \/ k \in settled \/ IsQueued(k)
  \/ k \in stray /\ checkpoint # None /\ Content[v][k] = Content[checkpoint][k]

Traced == checkpoint # None => \A k \in Key : Explained(k, checkpoint)

\* /nx_sync is right in proposing nothing.
NothingToPropose ==
  sync.phase = "noop" /\ ~sync.back => \A k \in Key : Explained(k, sync.current)

\* As long as the workbook is that of the proposal, for the first time: what changed in Notion since
\* the proposal was made is up to date, so is what its apply has recorded as
\* done, and what it leaves out is explained.
Covers(p) ==
  Known(p) /\ ~prop[p].back /\ source = prop[p].version =>
    /\ \A k \in Scope(p) : /\ notion[k] = ops[p][k].old \/ UpToDate(k)
                           /\ ops[p][k].landed => UpToDate(k)
    /\ \A k \in Key \ Scope(p) : Explained(k, source)

Covered == \A p \in Proposal : Covers(p)

IInv == TypeOK /\ IdsOfKeys /\ Ordered /\ Traced /\ NothingToPropose /\ Covered

\* If the workbook is that of a proposal, it is the one /nx_sync has read.
LEMMA ReadNow ==
  ASSUME IInv, NEW p \in Proposal, Known(p), source = prop[p].version,
         sync.phase # "idle", ~sync.back
  PROVE  sync.current = source
BY DEF IInv, Ordered

-----------------------------------------------------------------------------
(* The first state.                                                           *)

\* The first checkpoint, if there is one, is the workbook, and Notion shows it.
LEMMA Initial == ASSUME Init PROVE IInv
<1>1. TypeOK
  <2>1. First \in Version /\ MaxEdits \in Nat
    BY SyncAssumption
  <2>2. NoProposal \in PropRec
    BY <2>1 DEF NoProposal, PropStatus, PropRec
  <2>3. prop \in [Proposal -> PropRec]
    BY <2>2 DEF Init
  <2>4. ops \in [Proposal -> [Key -> Op \cup {None}]]
    BY DEF Init, Empty
  <2>5. sync \in SyncRec
    BY <2>1 DEF Init, IdleSync, SyncPhase, SyncRec
  <2> QED BY <2>1, <2>3, <2>4, <2>5 DEF Init, TypeOK
<1>2. \A p \in Proposal : Scope(p) = {} /\ ~Known(p)
  BY DEF Init, NoProposal, Empty, Scope, Known
<1>3. sync.phase = "idle" /\ source = First /\ First \in Version
  BY SyncAssumption DEF Init, IdleSync
<1>4. None \notin Version
  BY SyncAssumption
<1>5. checkpoint # None => checkpoint = First /\ \A k \in Key : notion[k] = Content[First][k]
  BY <1>4 DEF Init
<1>6. IdsOfKeys /\ Covered
  BY <1>2 DEF IdsOfKeys, Covered, Covers
<1>7. Ordered /\ NothingToPropose
  BY <1>2, <1>3 DEF Ordered, NothingToPropose
<1>8. Traced
  <2> SUFFICES ASSUME checkpoint # None, NEW k \in Key PROVE Explained(k, checkpoint)
    BY DEF Traced
  <2>1. notion[k] = Content[checkpoint][k]
    BY <1>5
  <2> QED BY <2>1 DEF Explained
<1> QED BY <1>1, <1>6, <1>7, <1>8 DEF IInv

-----------------------------------------------------------------------------
(* The decisions on a proposal and the beginning of its apply: its operations *)
(* stay what they are, but for the answer to them and their record.           *)

\* What a decision on p changes.
KeepsPlan(p) ==
  /\ UNCHANGED <<source, notion, checkpoint, pending, sync, edits, settled, stray>>
  /\ prop' \in [Proposal -> PropRec]
  /\ ops' \in [Proposal -> [Key -> Op \cup {None}]]
  /\ \A q \in Proposal \ {p} : prop'[q] = prop[q] /\ ops'[q] = ops[q]
  /\ prop'[p].version = prop[p].version /\ prop'[p].back = prop[p].back
  /\ Known(p)
  /\ \A k \in Key : (ops'[p][k] = None) <=> (ops[p][k] = None)
  /\ \A k \in Scope(p) : /\ ops'[p][k].id = ops[p][k].id
                         /\ ops'[p][k].old = ops[p][k].old
                         /\ ops'[p][k].landed => ops[p][k].landed \/ Shown(p, k)

\* Nothing that the properties of the workbook depend on has changed.
LEMMA SameWorld ==
  ASSUME UNCHANGED <<source, notion, checkpoint, pending, settled, stray>>
  PROVE  /\ \A k \in Key : UpToDate(k)' = UpToDate(k)
         /\ \A k \in Key : Explained(k, source)' = Explained(k, source)
         /\ Traced => Traced'
<1>1. source' = source /\ notion' = notion /\ checkpoint' = checkpoint
      /\ pending' = pending /\ settled' = settled /\ stray' = stray
  OBVIOUS
<1>2. \A k \in Key : /\ UpToDate(k)' = UpToDate(k)
                     /\ Explained(k, source)' = Explained(k, source)
                     /\ Explained(k, checkpoint)' = Explained(k, checkpoint)
  BY <1>1 DEF UpToDate, IsQueued, Explained
<1> QED BY <1>1, <1>2 DEF Traced

\* A proposal that did not change is covered as before.
LEMMA SameProposal ==
  ASSUME UNCHANGED <<source, notion, checkpoint, pending, settled, stray>>,
         NEW q \in Proposal, prop'[q] = prop[q], ops'[q] = ops[q], Covers(q)
  PROVE  Covers(q)'
<1>1. source' = source /\ notion' = notion
  OBVIOUS
<1>2. Scope(q)' = Scope(q) /\ Known(q)' = Known(q)
  BY DEF Scope, Known
<1>3. \A k \in Key : /\ UpToDate(k)' = UpToDate(k)
                     /\ Explained(k, source)' = Explained(k, source)
  BY SameWorld
<1>4. Scope(q) \subseteq Key
  BY DEF Scope
<1> QED BY <1>1, <1>2, <1>3, <1>4 DEF Covers

\* Such a step keeps the invariant: what an apply finds shown has changed since the
\* proposal was made, and so is up to date.
LEMMA KeepsPlanKeeps == ASSUME IInv, NEW p \in Proposal, KeepsPlan(p) PROVE IInv'
<1>1. /\ source' = source /\ notion' = notion /\ checkpoint' = checkpoint
      /\ pending' = pending /\ sync' = sync /\ edits' = edits /\ settled' = settled
      /\ stray' = stray
  BY DEF KeepsPlan
<1>2. TypeOK'
  BY <1>1 DEF IInv, KeepsPlan, TypeOK
<1>3. ASSUME NEW q \in Proposal
      PROVE  Scope(q)' = Scope(q) /\ prop'[q].version = prop[q].version
             /\ prop'[q].back = prop[q].back /\ (Known(q)' => Known(q))
  <2>1. CASE q = p
    BY <2>1 DEF KeepsPlan, Scope, Known
  <2>2. CASE q # p
    BY <2>2 DEF KeepsPlan, Scope, Known
  <2> QED BY <2>1, <2>2
<1>4. IdsOfKeys'
  <2> SUFFICES ASSUME NEW q \in Proposal, NEW k \in Scope(q)' PROVE ops'[q][k].id[1] = k
    BY DEF IdsOfKeys
  <2>1. k \in Scope(q) /\ ops[q][k].id[1] = k
    BY <1>3 DEF IInv, IdsOfKeys
  <2>2. ops'[q][k].id = ops[q][k].id
    BY <2>1 DEF KeepsPlan
  <2> QED BY <2>1, <2>2
<1>5. Ordered'
  BY <1>1, <1>3 DEF IInv, Ordered
<1>6. Traced' /\ \A k \in Key : /\ UpToDate(k)' = UpToDate(k)
                                  /\ Explained(k, source)' = Explained(k, source)
  BY <1>1, SameWorld DEF IInv
<1>7. NothingToPropose'
  BY <1>1 DEF IInv, NothingToPropose, Explained, IsQueued
<1>8. Covers(p)'
  <2> SUFFICES ASSUME source = prop[p].version, ~prop[p].back
               PROVE  /\ \A k \in Scope(p) : /\ notion[k] = ops'[p][k].old \/ UpToDate(k)
                                             /\ ops'[p][k].landed => UpToDate(k)
                      /\ \A k \in Key \ Scope(p) : Explained(k, source)
    <3>1. Scope(p) \subseteq Key
      BY DEF Scope
    <3> QED BY <1>1, <1>3, <1>6, <3>1 DEF Covers
  <2>1. /\ \A k \in Scope(p) : /\ notion[k] = ops[p][k].old \/ UpToDate(k)
                               /\ ops[p][k].landed => UpToDate(k)
        /\ \A k \in Key \ Scope(p) : Explained(k, source)
    BY DEF IInv, Covered, Covers, KeepsPlan
  <2>2. \A k \in Scope(p) : Shown(p, k) => UpToDate(k)
    BY <2>1 DEF Shown
  <2> QED BY <2>1, <2>2 DEF KeepsPlan
<1>9. Covered'
  <2>1. \A q \in Proposal \ {p} : Covers(q)'
    BY <1>1, SameProposal DEF IInv, Covered, KeepsPlan
  <2> QED BY <1>8, <2>1 DEF Covered
<1> QED BY <1>2, <1>4, <1>5, <1>6, <1>7, <1>9 DEF IInv

\* Another status of p.
LEMMA StatusSet ==
  ASSUME TypeOK, NEW p \in Proposal, NEW s \in PropStatus, SetStatus(p, s)
  PROVE  /\ prop' \in [Proposal -> PropRec]
         /\ \A q \in Proposal \ {p} : prop'[q] = prop[q]
         /\ prop'[p].version = prop[p].version /\ prop'[p].back = prop[p].back
         /\ prop'[p].status = s
<1>1. prop \in [Proposal -> PropRec]
  BY DEF TypeOK
<1>2. prop' = [prop EXCEPT ![p] = [prop[p] EXCEPT !.status = s]]
  BY <1>1 DEF SetStatus
<1>3. [prop[p] EXCEPT !.status = s] \in PropRec
      /\ [prop[p] EXCEPT !.status = s].version = prop[p].version
      /\ [prop[p] EXCEPT !.status = s].back = prop[p].back
      /\ [prop[p] EXCEPT !.status = s].status = s
  BY <1>1 DEF PropRec
<1> QED BY <1>1, <1>2, <1>3

\* An operation with another answer.
LEMMA AnswerChanged ==
  ASSUME NEW x \in Op, NEW a \in {"APPLY", "EXCLUDE", "DEFER"}
  PROVE  /\ [x EXCEPT !.action = a] \in Op
         /\ [x EXCEPT !.action = a].id = x.id /\ [x EXCEPT !.action = a].old = x.old
BY DEF Op

\* An operation with another record.
LEMMA RecordChanged ==
  ASSUME NEW x \in Op, NEW b \in BOOLEAN
  PROVE  /\ [x EXCEPT !.landed = b] \in Op
         /\ [x EXCEPT !.landed = b].id = x.id /\ [x EXCEPT !.landed = b].old = x.old
         /\ [x EXCEPT !.landed = b].landed = b
BY DEF Op

\* A revision with other answers to the operations.
LEMMA RevisionKeepsPlan ==
  ASSUME TypeOK, NEW p \in Proposal, Known(p),
         NEW f \in [Key -> Op \cup {None}], Revision(p, f),
         \A k \in Key : f[k] # None <=> ops[p][k] # None,
         \A k \in Scope(p) : f[k].id = ops[p][k].id /\ f[k].old = ops[p][k].old,
         UNCHANGED <<source, notion, checkpoint, pending, sync, edits, settled, stray>>
  PROVE  KeepsPlan(p)
<1> DEFINE g == [k \in Key |-> IF f[k] = None THEN None ELSE [f[k] EXCEPT !.landed = FALSE]]
<1>1. ops' = [ops EXCEPT ![p] = g] /\ SetStatus(p, "PENDING")
  BY DEF Revision
<1>2. None \notin Op
  BY SyncAssumption
<1>3. ASSUME NEW k \in Key, f[k] # None
      PROVE  /\ g[k] \in Op /\ g[k].id = f[k].id /\ g[k].old = f[k].old /\ g[k].landed = FALSE
  <2>1. f[k] \in Op
    BY <1>3
  <2>2. g[k] = [f[k] EXCEPT !.landed = FALSE]
    BY <1>3
  <2> HIDE DEF g
  <2> QED BY <2>1, <2>2, RecordChanged
<1>4. ASSUME NEW k \in Key, f[k] = None PROVE g[k] = None
  BY <1>4
<1>5. g \in [Key -> Op \cup {None}]
  BY <1>3, <1>4
<1>6. ops \in [Proposal -> [Key -> Op \cup {None}]]
  BY DEF TypeOK
<1>7. ops' \in [Proposal -> [Key -> Op \cup {None}]] /\ ops'[p] = g
      /\ \A q \in Proposal \ {p} : ops'[q] = ops[q]
  <2> HIDE DEF g
  <2> QED BY <1>1, <1>5, <1>6
<1>8. /\ prop' \in [Proposal -> PropRec]
      /\ \A q \in Proposal \ {p} : prop'[q] = prop[q]
      /\ prop'[p].version = prop[p].version /\ prop'[p].back = prop[p].back
  BY <1>1, StatusSet DEF PropStatus
<1>9. \A k \in Key : (g[k] = None) <=> (f[k] = None)
  BY <1>2, <1>3, <1>4
<1>10. \A k \in Scope(p) : k \in Key /\ f[k] # None
  BY DEF Scope
<1> HIDE DEF g
<1> QED BY <1>3, <1>7, <1>8, <1>9, <1>10 DEF KeepsPlan

\* /nx_set is such a step,
LEMMA SetKeepsPlan ==
  ASSUME TypeOK, NEW p \in Proposal, NEW k \in Key, NEW a \in Decisions, Set(p, k, a)
  PROVE  KeepsPlan(p)
<1> DEFINE f == [ops[p] EXCEPT ![k].action = a]
<1>1. Revision(p, f) /\ k \in Scope(p) /\ Known(p)
      /\ UNCHANGED <<source, notion, checkpoint, pending, sync, edits, settled, stray>>
  BY DEF Set, Known
<1>2. ops[p] \in [Key -> Op \cup {None}] /\ ops[p][k] \in Op
  BY <1>1 DEF TypeOK, Scope
<1>3. None \notin Op /\ a \in {"APPLY", "EXCLUDE", "DEFER"}
  BY SyncAssumption
<1>4. f = [ops[p] EXCEPT ![k] = [ops[p][k] EXCEPT !.action = a]]
  BY <1>2
<1>5. f[k] = [ops[p][k] EXCEPT !.action = a]
  BY <1>2, <1>4
<1>6. f[k] \in Op /\ f[k].id = ops[p][k].id /\ f[k].old = ops[p][k].old
  <2>1. PICK x \in Op : x = ops[p][k]
    BY <1>2
  <2>2. [x EXCEPT !.action = a] \in Op /\ [x EXCEPT !.action = a].id = x.id
        /\ [x EXCEPT !.action = a].old = x.old
    BY <1>3, AnswerChanged
  <2> HIDE DEF f
  <2> QED BY <1>5, <2>1, <2>2
<1>7. \A u \in Key \ {k} : f[u] = ops[p][u]
  BY <1>2, <1>4
<1>8. f \in [Key -> Op \cup {None}]
  BY <1>2, <1>4, <1>5, <1>6
<1>9. Scope(p) \subseteq Key
  BY DEF Scope
<1>10. \A u \in Key : f[u] # None <=> ops[p][u] # None
  BY <1>2, <1>3, <1>6, <1>7
<1>11. \A u \in Scope(p) : f[u].id = ops[p][u].id /\ f[u].old = ops[p][u].old
  BY <1>6, <1>7, <1>9
<1> HIDE DEF f
<1> QED BY <1>1, <1>8, <1>10, <1>11, RevisionKeepsPlan

\* so is /nx_recover,
LEMMA RecoverKeepsPlan ==
  ASSUME TypeOK, NEW p \in Proposal, Recover(p) PROVE KeepsPlan(p)
<1> DEFINE Drops(k) == k \in Writes(p) /\ (ops[p][k].landed \/ Shown(p, k))
           f == [k \in Key |-> IF Drops(k) THEN [ops[p][k] EXCEPT !.action = "EXCLUDE"]
                               ELSE ops[p][k]]
<1>1. Revision(p, f) /\ Known(p)
      /\ UNCHANGED <<source, notion, checkpoint, pending, sync, edits, settled, stray>>
  BY DEF Recover, Known
<1>2. ops[p] \in [Key -> Op \cup {None}] /\ None \notin Op
  BY SyncAssumption DEF TypeOK
<1>3. ASSUME NEW k \in Key, Drops(k)
      PROVE  ops[p][k] \in Op /\ f[k] \in Op /\ f[k].id = ops[p][k].id /\ f[k].old = ops[p][k].old
  <2>1. ops[p][k] \in Op
    BY <1>2, <1>3 DEF Writes, Scope
  <2>2. f[k] = [ops[p][k] EXCEPT !.action = "EXCLUDE"]
    BY <1>3
  <2> HIDE DEF f
  <2> QED BY <2>1, <2>2, AnswerChanged
<1>4. ASSUME NEW k \in Key, ~Drops(k) PROVE f[k] = ops[p][k]
  BY <1>4
<1> HIDE DEF Drops
<1>5. f \in [Key -> Op \cup {None}]
  BY <1>2, <1>3, <1>4
<1>6. Scope(p) \subseteq Key
  BY DEF Scope
<1> HIDE DEF f
<1>7. \A u \in Key : f[u] # None <=> ops[p][u] # None
  BY <1>2, <1>3, <1>4
<1>8. \A u \in Scope(p) : f[u].id = ops[p][u].id /\ f[u].old = ops[p][u].old
  BY <1>3, <1>4, <1>6
<1> QED BY <1>1, <1>5, <1>7, <1>8, RevisionKeepsPlan

\* so is a failure,
LEMMA FailKeepsPlan ==
  ASSUME TypeOK, NEW p \in Proposal, Fail(p) PROVE KeepsPlan(p)
<1>1. /\ SetStatus(p, "FAILED") /\ Known(p)
      /\ UNCHANGED <<source, notion, checkpoint, pending, ops, sync, edits, settled, stray>>
  BY DEF Fail, Known
<1>2. /\ prop' \in [Proposal -> PropRec]
      /\ \A q \in Proposal \ {p} : prop'[q] = prop[q]
      /\ prop'[p].version = prop[p].version /\ prop'[p].back = prop[p].back
  BY <1>1, StatusSet DEF PropStatus
<1> QED BY <1>1, <1>2 DEF KeepsPlan, TypeOK

\* and so is the beginning of an apply, resumed or not.
LEMMA BeginKeepsPlan ==
  ASSUME TypeOK, NEW p \in Proposal, NEW from \in {"PENDING", "APPLYING"}, Begin(p, from)
  PROVE  KeepsPlan(p)
<1> DEFINE done(k) == Shown(p, k) \/ (from = "APPLYING" /\ ops[p][k].landed)
           g == [k \in Key |-> IF k \in Writes(p) THEN [ops[p][k] EXCEPT !.landed = done(k)]
                               ELSE ops[p][k]]
<1>1. /\ Known(p)
      /\ UNCHANGED <<source, notion, checkpoint, pending, sync, edits, settled, stray>>
      /\ \/ SetStatus(p, "STALE") /\ ops' = ops
         \/ SetStatus(p, "APPLYING") /\ ops' = [ops EXCEPT ![p] = g]
  BY DEF Begin, Known
<1>2. /\ prop' \in [Proposal -> PropRec]
      /\ \A q \in Proposal \ {p} : prop'[q] = prop[q]
      /\ prop'[p].version = prop[p].version /\ prop'[p].back = prop[p].back
  BY <1>1, StatusSet DEF PropStatus
<1>3. ops \in [Proposal -> [Key -> Op \cup {None}]] /\ None \notin Op
  BY SyncAssumption DEF TypeOK
<1>4. ASSUME NEW k \in Key, k \in Writes(p)
      PROVE  /\ ops[p][k] \in Op /\ g[k] \in Op
             /\ g[k].id = ops[p][k].id /\ g[k].old = ops[p][k].old
             /\ g[k].landed => ops[p][k].landed \/ Shown(p, k)
  <2>1. ops[p][k] \in Op
    BY <1>3, <1>4 DEF Writes, Scope
  <2>2. PICK b \in BOOLEAN : b = done(k)
    OBVIOUS
  <2>3. g[k] = [ops[p][k] EXCEPT !.landed = b]
    BY <1>4, <2>2
  <2> HIDE DEF g
  <2>4. g[k] \in Op /\ g[k].id = ops[p][k].id /\ g[k].old = ops[p][k].old /\ g[k].landed = b
    BY <2>1, <2>3, RecordChanged
  <2> QED BY <2>1, <2>2, <2>4
<1>5. ASSUME NEW k \in Key, k \notin Writes(p) PROVE g[k] = ops[p][k]
  BY <1>5
<1> HIDE DEF done
<1>6. g \in [Key -> Op \cup {None}]
  BY <1>3, <1>4, <1>5
<1> HIDE DEF g
<1>7. CASE ops' = ops
  BY <1>1, <1>2, <1>3, <1>7 DEF KeepsPlan
<1>8. CASE ops' = [ops EXCEPT ![p] = g]
  <2>1. ops' \in [Proposal -> [Key -> Op \cup {None}]] /\ ops'[p] = g
        /\ \A q \in Proposal \ {p} : ops'[q] = ops[q]
    BY <1>3, <1>6, <1>8
  <2>2. \A k \in Key : (g[k] = None) <=> (ops[p][k] = None)
    BY <1>3, <1>4, <1>5
  <2>3. Scope(p) \subseteq Key
    BY DEF Scope
  <2>4. \A k \in Scope(p) : /\ g[k].id = ops[p][k].id /\ g[k].old = ops[p][k].old
                            /\ g[k].landed => ops[p][k].landed \/ Shown(p, k)
    BY <1>4, <1>5, <2>3
  <2> QED BY <1>1, <1>2, <2>1, <2>2, <2>4 DEF KeepsPlan
<1> QED BY <1>1, <1>7, <1>8

-----------------------------------------------------------------------------
(* /nx_sync.                                                                  *)

\* A row that /nx_sync does not propose is the checkpoint's.
LEMMA RowsUnchanged ==
  ASSUME IInv, sync.phase # "idle", ~sync.back, NEW k \in Key, k \notin Rows
  PROVE  Explained(k, sync.current)
<1>1. /\ sync.baseline \in Version \cup {None} /\ sync.current \in Version
      /\ None \notin Version /\ checkpoint \in {sync.baseline, sync.current}
  BY SyncAssumption DEF IInv, TypeOK, Ordered, SyncRec
<1>2. sync.baseline # None /\ Content[sync.baseline][k] = Content[sync.current][k]
  BY <1>1 DEF Rows, ChangedRows
<1>3. checkpoint # None /\ Content[checkpoint][k] = Content[sync.current][k]
  BY <1>1, <1>2
<1> QED BY <1>3 DEF IInv, Traced, Explained

\* When only the thread of /nx_sync moves, what is left to show.
LEMMA SyncMoves ==
  ASSUME IInv, UNCHANGED <<source, notion, checkpoint, pending, prop, ops, edits, settled, stray>>,
         sync' \in SyncRec,
         Ordered', NothingToPropose'
  PROVE  IInv'
<1>1. TypeOK'
  BY DEF IInv, TypeOK
<1>2. IdsOfKeys'
  BY DEF IInv, IdsOfKeys, Scope
<1>3. Traced'
  BY SameWorld DEF IInv
<1>4. Covered'
  BY SameProposal DEF IInv, Covered
<1> QED BY <1>1, <1>2, <1>3, <1>4 DEF IInv

\* A thread that ends.
LEMMA IdleTyped ==
  /\ IdleSync \in SyncRec
  /\ IdleSync.phase = "idle"
BY SyncAssumption DEF IdleSync, SyncPhase, SyncRec

\* /nx_sync may end anywhere.
LEMMA SyncEndsKeeps ==
  ASSUME IInv, SyncEnds,
         UNCHANGED <<source, notion, checkpoint, pending, prop, ops, edits, settled, stray>>
  PROVE  IInv'
<1>1. sync' = IdleSync /\ sync'.phase = "idle"
  BY IdleTyped DEF SyncEnds
<1>2. source' = source /\ checkpoint' = checkpoint /\ prop' = prop
  OBVIOUS
<1>3. Ordered' /\ NothingToPropose'
  BY <1>1, <1>2 DEF IInv, Ordered, Known, NothingToPropose
<1> QED BY <1>1, <1>3, IdleTyped, SyncMoves

\* What it reads first is the workbook and the checkpoint of that moment.
LEMMA SyncVersionsKeeps == ASSUME IInv, SyncVersions PROVE IInv'
<1>1. /\ UNCHANGED <<source, notion, checkpoint, pending, prop, ops, edits, settled, stray>>
      /\ sync' = [IdleSync EXCEPT !.phase = "pending", !.current = source,
                                  !.baseline = checkpoint]
  BY DEF SyncVersions
<1>2. /\ IdleSync \in SyncRec /\ ~IdleSync.back
      /\ source \in Version /\ checkpoint \in Version \cup {None}
  BY IdleTyped DEF IInv, TypeOK, IdleSync
<1>3. /\ sync' \in SyncRec
      /\ sync'.phase = "pending" /\ sync'.current = source /\ sync'.baseline = checkpoint
      /\ ~sync'.back
  BY <1>1, <1>2 DEF SyncPhase, SyncRec
<1>4. Ordered' /\ NothingToPropose'
  BY <1>1, <1>3 DEF IInv, Ordered, Known, NothingToPropose
<1> QED BY <1>1, <1>3, <1>4, SyncMoves

\* The queue says nothing of the versions.
LEMMA SyncPendingKeeps == ASSUME IInv, SyncPending PROVE IInv'
<1>1. /\ UNCHANGED <<source, notion, checkpoint, pending, prop, ops, edits, settled, stray>>
      /\ SyncEnds \/ sync' = [sync EXCEPT !.phase = "recheck", !.queue = pending]
      /\ sync.phase = "pending"
  BY DEF SyncPending
<1>2. CASE sync' = [sync EXCEPT !.phase = "recheck", !.queue = pending]
  <2>1. /\ sync \in SyncRec
        /\ pending \subseteq Queued
    BY DEF IInv, TypeOK
  <2>2. /\ sync' \in SyncRec
        /\ sync'.phase = "recheck" /\ sync'.current = sync.current
        /\ sync'.baseline = sync.baseline /\ sync'.back = sync.back
    BY <1>2, <2>1 DEF SyncPhase, SyncRec
  <2>3. Ordered' /\ NothingToPropose'
    BY <1>1, <2>2 DEF IInv, Ordered, Known, NothingToPropose
  <2> QED BY <1>1, <2>2, <2>3, SyncMoves
<1> QED BY <1>1, <1>2, SyncEndsKeeps

\* When the workbook is still the one it read and no row changed, there is nothing
\* to propose.
LEMMA SyncRecheckKeeps == ASSUME IInv, SyncRecheck PROVE IInv'
<1>1. /\ UNCHANGED <<source, notion, checkpoint, pending, prop, ops, edits, settled, stray>>
      /\ sync.phase = "recheck"
      /\ \/ SyncEnds
         \/ /\ source = sync.current
            /\ sync' = [sync EXCEPT !.phase = IF Rows = {} /\ sync.queue = {} THEN "noop"
                                              ELSE "create"]
  BY DEF SyncRecheck
<1>2. CASE /\ source = sync.current
           /\ sync' = [sync EXCEPT !.phase = IF Rows = {} /\ sync.queue = {} THEN "noop"
                                             ELSE "create"]
  <2>1. /\ sync \in SyncRec
    BY DEF IInv, TypeOK
  <2>2. PICK ph \in {"noop", "create"} :
          sync' = [sync EXCEPT !.phase = ph] /\ (ph = "noop" => Rows = {})
    BY <1>2
  <2>3. /\ sync' \in SyncRec
        /\ sync'.phase = ph /\ sync'.current = sync.current
        /\ sync'.baseline = sync.baseline /\ sync'.back = sync.back
    BY <2>1, <2>2 DEF SyncPhase, SyncRec
  <2>4. Ordered'
    BY <1>1, <1>2, <2>3 DEF IInv, Ordered, Known
  <2>5. NothingToPropose'
    <3> SUFFICES ASSUME ph = "noop", ~sync.back, NEW k \in Key
                 PROVE  Explained(k, sync.current)
      BY <1>1, <2>3 DEF NothingToPropose, Explained, IsQueued
    <3> QED BY <1>1, <2>2, RowsUnchanged
  <2> QED BY <1>1, <2>3, <2>4, <2>5, SyncMoves
<1> QED BY <1>1, <1>2, SyncEndsKeeps

\* The checkpoint moves to the version read, which Notion shows even if the
\* workbook has moved on.
LEMMA SyncNoopKeeps == ASSUME IInv, SyncNoop PROVE IInv'
<1>1. /\ UNCHANGED <<source, notion, pending, prop, ops, edits, settled>>
      /\ sync.phase = "noop" /\ checkpoint' = sync.current
      /\ stray' = Unexplained(sync.current, sync.back)
      /\ sync' = IdleSync /\ sync'.phase = "idle"
  BY IdleTyped DEF SyncNoop, SyncEnds
<1>2. sync.current \in Version /\ sync.back \in BOOLEAN
  BY DEF IInv, TypeOK, SyncRec
<1>3. TypeOK'
  BY <1>1, <1>2, IdleTyped DEF IInv, TypeOK, Unexplained
<1>4. IdsOfKeys'
  BY <1>1 DEF IInv, IdsOfKeys, Scope
<1>5. Ordered' /\ NothingToPropose'
  BY <1>1, <1>2 DEF IInv, Ordered, Known, NothingToPropose
<1>6. Traced'
  BY <1>1 DEF IInv, NothingToPropose, Traced, Explained, IsQueued, Unexplained
<1>7. Covered'
  <2> SUFFICES ASSUME NEW p \in Proposal, Known(p), ~prop[p].back, source = prop[p].version
               PROVE  Covers(p)'
    BY <1>1 DEF Covered, Covers, Known
  <2>1. ~sync.back /\ sync.current = source
    BY <1>1, ReadNow DEF IInv, Ordered
  <2>2. \A k \in Key : /\ UpToDate(k)' = UpToDate(k)
                       /\ Explained(k, source) => Explained(k, source)'
    BY <1>1, <1>2, <2>1, SyncAssumption DEF UpToDate, Explained, IsQueued, Unexplained
  <2>3. Scope(p)' = Scope(p) /\ Scope(p) \subseteq Key /\ Covers(p)
    BY <1>1 DEF Scope, IInv, Covered
  <2> QED BY <1>1, <2>2, <2>3 DEF Covers
<1> QED BY <1>3, <1>4, <1>5, <1>6, <1>7 DEF IInv

-----------------------------------------------------------------------------
(* A new proposal.                                                            *)

\* A new id names its property.
LEMMA FreshIdTyped ==
  ASSUME NEW k \in Key, \E n \in 1 .. MaxId : <<k, n>> \notin InUse
  PROVE  FreshId(k) \in Id /\ FreshId(k)[1] = k
<1>1. PICK n \in 1 .. MaxId : <<k, n>> \notin InUse
  OBVIOUS
<1>2. <<k, n>> \in Id /\ <<k, n>>[1] = k
  BY DEF Id
<1> QED BY <1>1, <1>2 DEF FreshId

\* What /nx_sync proposes for a property.
Proposes(k) == Merged(Rows, sync.queue, sync.current)[k]

\* It leaves a property out only when the row did not change or Notion shows it.
LEMMA ProposesTyped ==
  ASSUME TypeOK, NEW k \in Key, k \in Rows => \E n \in 1 .. MaxId : <<k, n>> \notin InUse
  PROVE  /\ Proposes(k) = None => k \notin Rows \/ Content[sync.current][k] = notion[k]
         /\ Proposes(k) # None =>
              /\ Proposes(k) \in Op /\ Proposes(k).id[1] = k
              /\ Proposes(k).old = notion[k] /\ Proposes(k).landed = FALSE
<1> DEFINE fresh    == k \in Rows /\ Content[sync.current][k] # notion[k]
           deferred == {x \in sync.queue : x.id[1] = k}
           one      == CHOOSE y \in deferred : TRUE
           id       == IF deferred = {} THEN FreshId(k) ELSE one.id
           value    == IF fresh THEN Content[sync.current][k] ELSE one.value
<1>1. Proposes(k) = IF ~fresh /\ deferred = {} THEN None
                    ELSE [id |-> id, value |-> value, old |-> notion[k],
                          landed |-> FALSE, action |-> "APPLY"]
  BY DEF Proposes, Merged
<1>2. None \notin Op
  BY SyncAssumption
<1>3. /\ sync.queue \subseteq Queued /\ sync.current \in Version
      /\ notion[k] \in Value /\ Content[sync.current][k] \in Value
  BY SyncAssumption DEF TypeOK, SyncRec
<1>4. deferred # {} => one \in Queued /\ one.id[1] = k
  BY <1>3
<1>5. ASSUME fresh \/ deferred # {} PROVE id \in Id /\ id[1] = k /\ value \in Value
  <2>1. deferred = {} => FreshId(k) \in Id /\ FreshId(k)[1] = k
    BY <1>5, FreshIdTyped
  <2>2. one \in Queued => one.id \in Id /\ one.value \in Value
    BY DEF Queued
  <2> QED BY <1>3, <1>4, <1>5, <2>1, <2>2
<1> HIDE DEF fresh, deferred, id, value
<1>6. CASE ~fresh /\ deferred = {}
  BY <1>1, <1>6 DEF fresh
<1>7. CASE fresh \/ deferred # {}
  <2>1. Proposes(k) = [id |-> id, value |-> value, old |-> notion[k],
                       landed |-> FALSE, action |-> "APPLY"]
    BY <1>1, <1>7
  <2>2. Proposes(k) \in Op /\ Proposes(k).id = id
        /\ Proposes(k).old = notion[k] /\ Proposes(k).landed = FALSE
    BY <1>3, <1>5, <1>7, <2>1 DEF Op
  <2> QED BY <1>2, <1>5, <1>7, <2>2
<1> QED BY <1>6, <1>7

\* What the new proposal is.
LEMMA SyncCreates ==
  ASSUME TypeOK, NEW p \in Proposal, SyncCreate(p)
  PROVE  /\ UNCHANGED <<source, notion, checkpoint, pending, edits, settled, stray>>
         /\ sync.phase = "create" /\ sync' = IdleSync
         /\ prop' \in [Proposal -> PropRec]
         /\ ops' \in [Proposal -> [Key -> Op \cup {None}]]
         /\ \A q \in Proposal \ {p} : prop'[q] = prop[q] /\ ops'[q] = ops[q]
         /\ prop'[p].status = "PENDING" /\ prop'[p].version = sync.current
         /\ prop'[p].back = sync.back
         /\ \A k \in Key : ops'[p][k] = Proposes(k)
         /\ \A k \in Rows : \E n \in 1 .. MaxId : <<k, n>> \notin InUse
<1> DEFINE g == Merged(Rows, sync.queue, sync.current)
           made == [status |-> "PENDING", version |-> sync.current, back |-> sync.back]
<1>1. /\ UNCHANGED <<source, notion, checkpoint, pending, edits, settled, stray>>
      /\ sync.phase = "create" /\ sync' = IdleSync
      /\ \A k \in Rows : \E n \in 1 .. MaxId : <<k, n>> \notin InUse
      /\ prop' = [prop EXCEPT ![p] = made] /\ ops' = [ops EXCEPT ![p] = g]
  BY DEF SyncCreate, SyncEnds
<1>2. /\ prop \in [Proposal -> PropRec]
      /\ ops \in [Proposal -> [Key -> Op \cup {None}]]
      /\ sync.current \in Version /\ sync.back \in BOOLEAN
  BY DEF TypeOK, SyncRec
<1>3. \A k \in Key : g[k] = Proposes(k) /\ g[k] \in Op \cup {None}
  BY <1>1, ProposesTyped DEF Proposes
<1>4. g = [k \in Key |-> g[k]]
  BY DEF Merged
<1>5. g \in [Key -> Op \cup {None}]
  BY <1>3, <1>4
<1>6. made \in PropRec
      /\ made.status = "PENDING" /\ made.version = sync.current /\ made.back = sync.back
  BY <1>2 DEF PropStatus, PropRec
<1> HIDE DEF g, made
<1>7. /\ prop' \in [Proposal -> PropRec]
      /\ ops' \in [Proposal -> [Key -> Op \cup {None}]]
      /\ prop'[p] = made /\ ops'[p] = g
      /\ \A q \in Proposal \ {p} : prop'[q] = prop[q] /\ ops'[q] = ops[q]
  BY <1>1, <1>2, <1>5, <1>6
<1> QED BY <1>1, <1>3, <1>6, <1>7

\* The new proposal has the type of one.
LEMMA SyncCreateTyped ==
  ASSUME TypeOK, NEW p \in Proposal, SyncCreate(p) PROVE TypeOK'
BY SyncCreates, IdleTyped DEF TypeOK

\* A proposal covers every row it leaves out.
LEMMA SyncCreateKeeps ==
  ASSUME IInv, NEW p \in Proposal, SyncCreate(p) PROVE IInv'
<1>1. /\ UNCHANGED <<source, notion, checkpoint, pending, edits, settled, stray>>
      /\ sync.phase = "create" /\ sync'.phase = "idle"
      /\ \A q \in Proposal \ {p} : prop'[q] = prop[q] /\ ops'[q] = ops[q]
      /\ prop'[p].status = "PENDING" /\ prop'[p].version = sync.current
      /\ prop'[p].back = sync.back
      /\ \A k \in Key : ops'[p][k] = Proposes(k)
  BY SyncCreates, IdleTyped DEF IInv
<1>3. \A k \in Key :
        /\ Proposes(k) = None => k \notin Rows \/ Content[sync.current][k] = notion[k]
        /\ Proposes(k) # None => /\ Proposes(k).id[1] = k /\ Proposes(k).old = notion[k]
                                 /\ Proposes(k).landed = FALSE
  BY SyncCreates, ProposesTyped DEF IInv
<1>4. TypeOK'
  BY SyncCreateTyped DEF IInv
<1>5. IdsOfKeys'
  BY <1>1, <1>3 DEF IInv, IdsOfKeys, Scope
<1>7. Ordered' /\ NothingToPropose'
  BY <1>1 DEF Ordered, NothingToPropose
<1>8. Traced' /\ \A k \in Key : /\ UpToDate(k)' = UpToDate(k)
                                  /\ Explained(k, source)' = Explained(k, source)
  BY <1>1, SameWorld DEF IInv
<1>9. Covers(p)'
  <2> SUFFICES ASSUME source = sync.current, ~sync.back
               PROVE  \A k \in Key :
                        /\ Proposes(k) # None => notion[k] = Proposes(k).old /\ ~Proposes(k).landed
                        /\ Proposes(k) = None => Explained(k, source)
    BY <1>1, <1>8 DEF Covers, Scope
  <2> TAKE k \in Key
  <2>1. k \notin Rows => Explained(k, source)
    BY <1>1, RowsUnchanged
  <2> QED BY <1>3, <2>1 DEF Explained
<1>10. Covered'
  <2>1. \A q \in Proposal \ {p} : Covers(q)'
    BY <1>1, SameProposal DEF IInv, Covered
  <2> QED BY <1>9, <2>1 DEF Covered
<1> QED BY <1>4, <1>5, <1>7, <1>8, <1>10 DEF IInv

-----------------------------------------------------------------------------
(* A proposal that ends.                                                      *)

\* What is left of it.
LEMMA Forgotten ==
  ASSUME TypeOK, NEW p \in Proposal, Forget(p)
  PROVE  /\ prop' \in [Proposal -> PropRec]
         /\ ops' \in [Proposal -> [Key -> Op \cup {None}]]
         /\ \A q \in Proposal \ {p} : prop'[q] = prop[q] /\ ops'[q] = ops[q]
         /\ Scope(p)' = {} /\ ~Known(p)'
<1>1. NoProposal \in PropRec /\ NoProposal.status = "none"
  BY SyncAssumption DEF NoProposal, PropStatus, PropRec
<1>2. Empty \in [Key -> Op \cup {None}] /\ \A k \in Key : Empty[k] = None
  BY DEF Empty
<1>3. /\ prop' = [prop EXCEPT ![p] = NoProposal]
      /\ ops' = [ops EXCEPT ![p] = Empty]
  BY DEF Forget
<1>4. /\ prop \in [Proposal -> PropRec]
      /\ ops \in [Proposal -> [Key -> Op \cup {None}]]
  BY DEF TypeOK
<1>5. /\ prop'[p] = NoProposal /\ ops'[p] = Empty
      /\ \A q \in Proposal \ {p} : prop'[q] = prop[q] /\ ops'[q] = ops[q]
  BY <1>3, <1>4
<1>6. Scope(p)' = {} /\ ~Known(p)'
  BY <1>1, <1>2, <1>5 DEF Scope, Known
<1> QED BY <1>1, <1>2, <1>3, <1>4, <1>5, <1>6

\* A rejected proposal promises nothing.
LEMMA RejectKeeps == ASSUME IInv, NEW p \in Proposal, Reject(p) PROVE IInv'
<1>1. Forget(p) /\ UNCHANGED <<source, notion, checkpoint, pending, sync, edits, settled, stray>>
  BY DEF Reject
<1>2. /\ prop' \in [Proposal -> PropRec]
      /\ ops' \in [Proposal -> [Key -> Op \cup {None}]]
      /\ \A q \in Proposal \ {p} : prop'[q] = prop[q] /\ ops'[q] = ops[q]
      /\ Scope(p)' = {} /\ ~Known(p)'
  BY <1>1, Forgotten DEF IInv
<1>3. TypeOK'
  BY <1>1, <1>2 DEF IInv, TypeOK
<1>4. IdsOfKeys'
  BY <1>2 DEF IInv, IdsOfKeys, Scope
<1>5. Ordered' /\ NothingToPropose'
  BY <1>1, <1>2 DEF IInv, Ordered, Known, NothingToPropose, Explained, IsQueued
<1>6. Traced'
  BY <1>1, SameWorld DEF IInv
<1>7. Covered'
  <2>1. \A q \in Proposal \ {p} : Covers(q)'
    BY <1>1, <1>2, SameProposal DEF IInv, Covered
  <2>2. Covers(p)'
    BY <1>2 DEF Covers
  <2> QED BY <2>1, <2>2 DEF Covered
<1> QED BY <1>3, <1>4, <1>5, <1>6, <1>7 DEF IInv

\* An apply that did not commit wrote the property; its row is the checkpoint's.
Strayed(k) ==
  k \in stray /\ checkpoint # None /\ Content[source][k] = Content[checkpoint][k]

\* Whatever a proposal that commits has of a property: Notion shows it up to
\* date, or its change is queued again, or it stays stray under the row of the
\* checkpoint.
LEMMA CommitCovers ==
  ASSUME IInv, NEW p \in Proposal, Commit(p), NEW k \in Key
  PROVE  /\ UpToDate(k) => UpToDate(k)'
         /\ ~prop[p].back => \/ UpToDate(k)' \/ IsQueued(k)'
                             \/ Strayed(k) /\ k \in stray'
<1>1. /\ source' = source /\ notion' = notion
      /\ settled' = SettledBy(p) /\ source = prop[p].version /\ stray' = Unexplained(source, prop[p].back)
      /\ \A u \in Writes(p) : ops[p][u].landed
      /\ pending' = {x \in pending : \A u \in Scope(p) : ops[p][u].id # x.id}
                    \cup {[id |-> ops[p][u].id, value |-> ops[p][u].value] :
                            u \in {w \in Scope(p) : ops[p][w].action = "DEFER"}}
  BY DEF Commit, Complete
<1>2. UpToDate(k) => UpToDate(k)'
  BY <1>1 DEF UpToDate, SettledBy
<1> SUFFICES ASSUME ~prop[p].back
             PROVE  \/ UpToDate(k)' \/ IsQueued(k)'
                    \/ Strayed(k) /\ k \in stray'
  BY <1>2
<1>3. Covers(p) /\ Known(p) /\ source = prop[p].version
  BY <1>1 DEF IInv, Covered, Commit, Complete, Known
<1>4. ASSUME k \in Scope(p) PROVE UpToDate(k)' \/ IsQueued(k)'
  <2>1. ops[p][k].action \in {"APPLY", "EXCLUDE", "DEFER"}
    BY <1>4 DEF IInv, TypeOK, Scope, Op
  <2>2. CASE ops[p][k].action = "APPLY"
    BY <1>1, <1>2, <1>3, <1>4, <2>2 DEF Writes, Covers
  <2>3. CASE ops[p][k].action = "EXCLUDE"
    BY <1>1, <1>4, <2>3 DEF UpToDate, SettledBy
  <2>4. CASE ops[p][k].action = "DEFER"
    <3>1. PICK x : x = [id |-> ops[p][k].id, value |-> ops[p][k].value]
      OBVIOUS
    <3>2. x \in pending'
      BY <1>1, <1>4, <2>4, <3>1
    <3>3. x.id[1] = k
      BY <1>4, <3>1 DEF IInv, IdsOfKeys
    <3> QED BY <3>2, <3>3 DEF IsQueued
  <2> QED BY <2>1, <2>2, <2>3, <2>4
<1>5. ASSUME k \notin Scope(p)
      PROVE  UpToDate(k)' \/ IsQueued(k)' \/ (Strayed(k) /\ k \in stray')
  <2>1. CASE UpToDate(k)
    BY <1>2, <2>1
  <2>2. CASE IsQueued(k)
    <3>1. PICK x \in pending : x.id[1] = k
      BY <2>2 DEF IsQueued
    <3>2. \A u \in Scope(p) : ops[p][u].id # x.id
      BY <1>5, <3>1 DEF IInv, IdsOfKeys
    <3>3. x \in pending'
      BY <1>1, <3>1, <3>2
    <3> QED BY <3>1, <3>3 DEF IsQueued
  <2>3. CASE Strayed(k) /\ ~UpToDate(k)
    BY <1>1, <2>3 DEF Strayed, Unexplained, UpToDate
  <2> QED BY <1>3, <1>5, <2>1, <2>2, <2>3 DEF Covers, Explained, Strayed, UpToDate
<1> QED BY <1>4, <1>5

\* A commit queues operations with an id and a value.
LEMMA CommitTyped == ASSUME TypeOK, NEW p \in Proposal, Commit(p) PROVE TypeOK'
<1>1. settled' \subseteq Key /\ stray' \subseteq Key
  BY DEF Commit, SettledBy, Unexplained, Scope, TypeOK
<1>2. pending' \subseteq Queued
  <2>1. \A u \in Scope(p) : ops[p][u] \in Op
    BY DEF TypeOK, Scope
  <2>2. \A u \in Scope(p) : [id |-> ops[p][u].id, value |-> ops[p][u].value] \in Queued
    BY <2>1 DEF Op, Queued
  <2>3. pending \subseteq Queued
    BY DEF TypeOK
  <2> QED BY <2>2, <2>3 DEF Commit
<1>3. checkpoint' \in Version /\ UNCHANGED <<source, notion, sync, edits>>
  BY DEF Commit, TypeOK, PropRec
<1>4. /\ prop' \in [Proposal -> PropRec]
      /\ ops' \in [Proposal -> [Key -> Op \cup {None}]]
  BY Forgotten DEF Commit
<1> QED BY <1>1, <1>2, <1>3, <1>4 DEF TypeOK

\* A commit moves the checkpoint to the workbook as it is.
LEMMA CommitKeeps == ASSUME IInv, NEW p \in Proposal, Commit(p) PROVE IInv'
<1>1. /\ source' = source /\ notion' = notion /\ sync' = sync /\ edits' = edits
      /\ checkpoint' = prop[p].version /\ source = prop[p].version
      /\ stray' = Unexplained(source, prop[p].back) /\ Forget(p) /\ Known(p)
  BY DEF Commit, Complete, Known
<1>2. /\ prop' \in [Proposal -> PropRec]
      /\ ops' \in [Proposal -> [Key -> Op \cup {None}]]
      /\ \A q \in Proposal \ {p} : prop'[q] = prop[q] /\ ops'[q] = ops[q]
      /\ Scope(p)' = {} /\ ~Known(p)'
  BY <1>1, Forgotten DEF IInv
<1>3. \A k \in Key : /\ UpToDate(k) => UpToDate(k)'
                     /\ UpToDate(k)' \/ IsQueued(k)' \/ k \in stray'
  <2>1. CASE prop[p].back
    BY <1>1, <2>1, CommitCovers DEF Unexplained, UpToDate
  <2>2. CASE ~prop[p].back
    BY <2>2, CommitCovers
  <2> QED BY <2>1, <2>2
<1>4. TypeOK'
  BY CommitTyped DEF IInv
<1>5. IdsOfKeys'
  BY <1>2 DEF IInv, IdsOfKeys, Scope
<1>6. /\ sync.phase # "idle" /\ ~sync.back => sync.current = source
      /\ source \in Version /\ None \notin Version
  BY <1>1, ReadNow, SyncAssumption DEF IInv, TypeOK
<1>7. Ordered'
  BY <1>1, <1>2, <1>6 DEF IInv, Ordered, Known
<1>8. \A k \in Key : Explained(k, source)'
  BY <1>1, <1>3, <1>6 DEF Explained, UpToDate
<1>9. Traced' /\ NothingToPropose'
  BY <1>1, <1>6, <1>8 DEF Traced, NothingToPropose, Explained
<1>10. Covered'
  <2> SUFFICES ASSUME NEW q \in Proposal, q # p PROVE Covers(q)'
    BY <1>2 DEF Covered, Covers
  <2>1. Scope(q)' = Scope(q) /\ Known(q)' = Known(q) /\ prop'[q] = prop[q] /\ ops'[q] = ops[q]
    BY <1>2 DEF Scope, Known
  <2>2. Scope(q) \subseteq Key
    BY DEF Scope
  <2> QED BY <1>1, <1>3, <1>8, <2>1, <2>2 DEF IInv, Covered, Covers
<1> QED BY <1>4, <1>5, <1>7, <1>9, <1>10 DEF IInv

-----------------------------------------------------------------------------
(* Notion and the workbook change.                                            *)

\* A property gets the workbook's value, or another one by a decision.
Updated(k, w) ==
  /\ notion' = [notion EXCEPT ![k] = w]
  /\ settled' = settled \/ settled' = settled \cup {k}
  /\ stray' = stray \/ stray' = stray \cup {k}
  /\ w = Content[source][k] \/ k \in settled'

\* What was up to date stays so, and that property is.
LEMMA UpdatedIs ==
  ASSUME TypeOK, NEW k \in Key, NEW w \in Value, Updated(k, w), source' = source
  PROVE  /\ notion' \in [Key -> Value] /\ settled' \subseteq Key /\ settled \subseteq settled'
         /\ stray' \subseteq Key /\ stray \subseteq stray'
         /\ UpToDate(k)'
         /\ \A u \in Key : (UpToDate(u) => UpToDate(u)') /\ (u # k => notion'[u] = notion[u])
BY DEF TypeOK, Updated, UpToDate

\* What explained a property still does, and the new value is explained by the
\* workbook.
LEMMA UpdatedExplains ==
  ASSUME IInv, NEW k \in Key, NEW w \in Value, Updated(k, w),
         source' = source, checkpoint' = checkpoint, pending' = pending
  PROVE  /\ Explained(k, source)'
         /\ \A u \in Key \ {k}, v \in Version :
              Explained(u, v) => \/ notion'[u] = Content[v][u] \/ u \in settled' \/ IsQueued(u)'
                                 \/ /\ u \in stray' /\ checkpoint' # None
                                    /\ Content[v][u] = Content[checkpoint'][u]
<1>1. /\ UpToDate(k)' /\ settled \subseteq settled' /\ stray \subseteq stray'
      /\ \A u \in Key : u # k => notion'[u] = notion[u]
  BY UpdatedIs DEF IInv
<1>2. \A u \in Key : IsQueued(u)' = IsQueued(u)
  BY DEF IsQueued
<1> QED BY <1>1, <1>2 DEF Explained, UpToDate

\* The new value is one that a person decided on or an apply wrote.
LEMMA UpdatedTraced ==
  ASSUME IInv, NEW k \in Key, NEW w \in Value, Updated(k, w),
         k \in settled' \/ k \in stray',
         source' = source, checkpoint' = checkpoint, pending' = pending
  PROVE  Traced'
<1> SUFFICES ASSUME checkpoint # None, NEW u \in Key PROVE Explained(u, checkpoint)'
  BY DEF Traced
<1>1. CASE u = k
  BY <1>1 DEF Explained
<1>2. CASE u # k
  <2>1. checkpoint \in Version /\ Explained(u, checkpoint)
    BY DEF IInv, Traced, TypeOK
  <2> QED BY <1>2, <2>1, UpdatedExplains DEF Explained
<1> QED BY <1>1, <1>2

\* A proposal that keeps its operations, apart from the record of one that is
\* up to date.
LEMMA UpdatedCovers ==
  ASSUME IInv, NEW k \in Key, NEW w \in Value, Updated(k, w),
         source' = source, checkpoint' = checkpoint, pending' = pending,
         NEW q \in Proposal,
         prop'[q].version = prop[q].version, prop'[q].back = prop[q].back,
         Known(q)' => Known(q),
         \A u \in Key : (ops'[q][u] = None) <=> (ops[q][u] = None),
         \A u \in Scope(q) : /\ ops'[q][u].old = ops[q][u].old
                             /\ u # k => ops'[q][u].landed = ops[q][u].landed
  PROVE  Covers(q)'
<1>1. /\ UpToDate(k)'
      /\ \A u \in Key : (UpToDate(u) => UpToDate(u)') /\ (u # k => notion'[u] = notion[u])
  BY UpdatedIs DEF IInv
<1>2. Scope(q)' = Scope(q) /\ Scope(q) \subseteq Key
  BY DEF Scope
<1>3. \A u \in Key : Explained(u, source) => Explained(u, source)'
  BY UpdatedExplains DEF IInv, TypeOK, Explained
<1>4. Covers(q)
  BY DEF IInv, Covered
<1> SUFFICES ASSUME Known(q)', ~prop[q].back, source = prop[q].version
             PROVE  /\ \A u \in Scope(q) : /\ notion'[u] = ops'[q][u].old \/ UpToDate(u)'
                                           /\ ops'[q][u].landed => UpToDate(u)'
                    /\ \A u \in Key \ Scope(q) : Explained(u, source)'
  BY <1>2 DEF Covers
<1>5. /\ \A u \in Scope(q) : /\ notion[u] = ops[q][u].old \/ UpToDate(u)
                             /\ ops[q][u].landed => UpToDate(u)
      /\ \A u \in Key \ Scope(q) : Explained(u, source)
  BY <1>4 DEF Covers
<1> QED BY <1>1, <1>2, <1>3, <1>5

\* What a write does to the property, and to the operation that it carries out.
LEMMA Writing ==
  ASSUME TypeOK, NEW p \in Proposal, NEW k \in Key, NEW answered \in BOOLEAN,
         Write(p, k, answered)
  PROVE  /\ UNCHANGED <<source, checkpoint, pending, sync, edits>>
         /\ Known(p) /\ source = prop[p].version
         /\ ops[p][k].value \in Value /\ Updated(k, ops[p][k].value) /\ k \in stray'
         /\ prop' \in [Proposal -> PropRec]
         /\ ops' \in [Proposal -> [Key -> Op \cup {None}]]
         /\ \A q \in Proposal :
              /\ prop'[q].version = prop[q].version /\ prop'[q].back = prop[q].back
              /\ (Known(q)' => Known(q))
              /\ \A u \in Key : (ops'[q][u] = None) <=> (ops[q][u] = None)
              /\ \A u \in Scope(q) :
                   /\ ops'[q][u].id = ops[q][u].id /\ ops'[q][u].old = ops[q][u].old
                   /\ u # k => ops'[q][u].landed = ops[q][u].landed
<1> DEFINE s == IF answered THEN "APPLYING" ELSE "FAILED"
<1>1. /\ UNCHANGED <<source, checkpoint, pending, sync, edits>>
      /\ k \in Scope(p) /\ Known(p) /\ source = prop[p].version
      /\ notion' = [notion EXCEPT ![k] = ops[p][k].value]
      /\ settled' = IF ops[p][k].value = Content[source][k] THEN settled
                    ELSE settled \cup {k}
      /\ stray' = stray \cup {k}
      /\ ops' = [ops EXCEPT ![p][k].landed = answered]
      /\ SetStatus(p, s)
  BY DEF Write, Writes, Known
<1>2. ops \in [Proposal -> [Key -> Op \cup {None}]] /\ None \notin Op
  BY SyncAssumption DEF TypeOK
<1>3. PICK x \in Op : x = ops[p][k]
  BY <1>1, <1>2 DEF Scope
<1>4. ops[p][k].value \in Value /\ Updated(k, ops[p][k].value) /\ k \in stray'
  BY <1>1, <1>3 DEF Op, Updated
<1>5. /\ prop' \in [Proposal -> PropRec]
      /\ \A q \in Proposal \ {p} : prop'[q] = prop[q]
      /\ prop'[p].version = prop[p].version /\ prop'[p].back = prop[p].back
  BY <1>1, StatusSet DEF PropStatus
<1>6. PICK y : y = [x EXCEPT !.landed = answered]
  OBVIOUS
<1>7. y \in Op /\ y.id = x.id /\ y.old = x.old
  BY <1>6, RecordChanged
<1>8. ops' = [ops EXCEPT ![p] = [ops[p] EXCEPT ![k] = y]]
  BY <1>1, <1>2, <1>3, <1>6
<1>9. /\ ops' \in [Proposal -> [Key -> Op \cup {None}]]
      /\ \A q \in Proposal \ {p} : ops'[q] = ops[q]
      /\ ops'[p][k] = y /\ \A u \in Key \ {k} : ops'[p][u] = ops[p][u]
  BY <1>2, <1>7, <1>8
<1>10. ASSUME NEW q \in Proposal
       PROVE  /\ prop'[q].version = prop[q].version /\ (Known(q)' => Known(q))
              /\ \A u \in Key : (ops'[q][u] = None) <=> (ops[q][u] = None)
              /\ \A u \in Scope(q) :
                   /\ ops'[q][u].id = ops[q][u].id /\ ops'[q][u].old = ops[q][u].old
                   /\ u # k => ops'[q][u].landed = ops[q][u].landed
  <2>1. CASE q = p
    <3>1. Scope(q) \subseteq Key
      BY DEF Scope
    <3> QED BY <1>1, <1>2, <1>3, <1>5, <1>7, <1>9, <2>1, <3>1
  <2>2. CASE q # p
    BY <1>5, <1>9, <2>2 DEF Known
  <2> QED BY <2>1, <2>2
<1> QED BY <1>1, <1>4, <1>5, <1>9, <1>10

\* A write keeps the types.
LEMMA WriteTyped ==
  ASSUME TypeOK, NEW p \in Proposal, NEW k \in Key, NEW answered \in BOOLEAN,
         Write(p, k, answered)
  PROVE  TypeOK'
<1>1. notion' \in [Key -> Value] /\ settled' \subseteq Key /\ stray' \subseteq Key
  BY Writing, UpdatedIs
<1> QED BY <1>1, Writing DEF TypeOK

\* A write makes its property up to date, for the thread of /nx_sync as well: the
\* version of a proposal that may still write is the one that thread read.
LEMMA WriteKeeps ==
  ASSUME IInv, NEW p \in Proposal, NEW k \in Key, NEW answered \in BOOLEAN,
         Write(p, k, answered)
  PROVE  IInv'
<1>1. /\ UNCHANGED <<source, checkpoint, pending, sync>>
      /\ Known(p) /\ source = prop[p].version /\ source \in Version
      /\ ops[p][k].value \in Value /\ Updated(k, ops[p][k].value) /\ k \in stray'
  BY Writing DEF IInv, TypeOK
<1>2. \A q \in Proposal :
        /\ prop'[q].version = prop[q].version /\ prop'[q].back = prop[q].back
        /\ (Known(q)' => Known(q))
        /\ \A u \in Key : (ops'[q][u] = None) <=> (ops[q][u] = None)
        /\ \A u \in Scope(q) :
             /\ ops'[q][u].id = ops[q][u].id /\ ops'[q][u].old = ops[q][u].old
             /\ u # k => ops'[q][u].landed = ops[q][u].landed
  BY Writing DEF IInv
<1>3. TypeOK'
  BY WriteTyped DEF IInv
<1>4. IdsOfKeys'
  BY <1>2 DEF IInv, IdsOfKeys, Scope
<1>5. Ordered'
  BY <1>1, <1>2 DEF IInv, Ordered
<1>6. Traced'
  BY <1>1, UpdatedTraced
<1>7. NothingToPropose'
  <2> SUFFICES ASSUME sync.phase = "noop", ~sync.back, NEW u \in Key
               PROVE  Explained(u, source)'
    BY <1>1, ReadNow DEF NothingToPropose
  <2>1. Explained(u, source)
    BY <1>1, ReadNow DEF IInv, NothingToPropose
  <2> QED BY <1>1, <2>1, UpdatedExplains DEF Explained
<1>8. Covered'
  BY <1>1, <1>2, UpdatedCovers DEF Covered
<1> QED BY <1>3, <1>4, <1>5, <1>6, <1>7, <1>8 DEF IInv

\* What an edit in Notion does.
LEMMA PersonSets ==
  ASSUME NEW k \in Key, NEW v \in HandValues, PersonEdits(k, v)
  PROVE  /\ UNCHANGED <<source, checkpoint, pending, prop, ops, sync, stray>>
         /\ v \in Value /\ Updated(k, v) /\ k \in settled'
BY SyncAssumption DEF PersonEdits, Updated

\* An edit in Notion keeps the types.
LEMMA PersonEditsTyped ==
  ASSUME TypeOK, NEW k \in Key, NEW v \in HandValues, PersonEdits(k, v) PROVE TypeOK'
<1>1. notion' \in [Key -> Value] /\ settled' \subseteq Key /\ stray' \subseteq Key
  BY PersonSets, UpdatedIs
<1>2. edits' \in 0 .. MaxEdits
  BY SyncAssumption DEF TypeOK, PersonEdits
<1> QED BY <1>1, <1>2, PersonSets DEF TypeOK

\* What a person sets is settled.
LEMMA PersonEditsKeeps ==
  ASSUME IInv, NEW k \in Key, NEW v \in HandValues, PersonEdits(k, v) PROVE IInv'
<1>1. /\ UNCHANGED <<source, checkpoint, pending, prop, ops, sync, stray>>
      /\ v \in Value /\ Updated(k, v) /\ k \in settled'
  BY PersonSets
<1>2. settled \subseteq settled' /\ \A u \in Key : u # k => notion'[u] = notion[u]
  BY <1>1, UpdatedIs DEF IInv
<1>3. TypeOK'
  BY PersonEditsTyped DEF IInv
<1>4. IdsOfKeys'
  BY <1>1 DEF IInv, IdsOfKeys, Scope
<1>5. Ordered'
  BY <1>1 DEF IInv, Ordered, Known
<1>6. Traced'
  BY <1>1, UpdatedTraced
<1>7. NothingToPropose'
  BY <1>1, <1>2 DEF IInv, NothingToPropose, Explained, IsQueued
<1>8. Covered'
  BY <1>1, UpdatedCovers DEF Covered, Known
<1> QED BY <1>3, <1>4, <1>5, <1>6, <1>7, <1>8 DEF IInv

\* What a new content of the workbook does: the proposals it is the version of
\* are not covered any more.
LEMMA Moved ==
  ASSUME TypeOK, NEW v \in Version, SourceMoves(v)
  PROVE  /\ UNCHANGED <<notion, checkpoint, pending, ops, settled, stray>>
         /\ edits' \in 0 .. MaxEdits
         /\ source' = v
         /\ prop' \in [Proposal -> PropRec]
         /\ \A p \in Proposal : /\ prop'[p].status = prop[p].status
                                /\ prop'[p].version = prop[p].version
                                /\ Known(p) /\ prop[p].version = v => prop'[p].back
                                /\ prop[p].back => prop'[p].back
         /\ sync' \in SyncRec
         /\ sync'.phase = sync.phase /\ sync'.baseline = sync.baseline
         /\ sync'.current = sync.current
         /\ \/ sync'.back
            \/ /\ sync' = sync
               /\ sync.phase = "idle" \/ \A p \in Proposal : Known(p) => prop[p].version # v
<1> DEFINE again(p) == Known(p) /\ prop[p].version = v
<1>1. /\ UNCHANGED <<notion, checkpoint, pending, ops, settled, stray>>
      /\ source' = v
      /\ prop' = [p \in Proposal |->
                   IF again(p) THEN [prop[p] EXCEPT !.back = TRUE] ELSE prop[p]]
      /\ sync' = IF sync.phase # "idle" /\ (\E p \in Proposal : again(p))
                 THEN [sync EXCEPT !.back = TRUE] ELSE sync
  BY DEF SourceMoves
<1>2. prop \in [Proposal -> PropRec] /\ sync \in SyncRec
  BY DEF TypeOK
<1>3. ASSUME NEW p \in Proposal
      PROVE  /\ prop'[p] \in PropRec
             /\ prop'[p].status = prop[p].status /\ prop'[p].version = prop[p].version
             /\ again(p) => prop'[p].back
             /\ prop[p].back => prop'[p].back
  <2>1. PICK x \in PropRec : x = prop[p]
    BY <1>2
  <2>2. prop'[p] = IF again(p) THEN [x EXCEPT !.back = TRUE] ELSE x
    BY <1>1, <2>1
  <2> HIDE DEF again
  <2> QED BY <2>1, <2>2 DEF PropRec
<1>4. prop' \in [Proposal -> PropRec]
  BY <1>1, <1>3
<1>5. /\ sync' \in SyncRec
      /\ sync'.phase = sync.phase /\ sync'.baseline = sync.baseline
      /\ sync'.current = sync.current
      /\ \/ sync'.back
         \/ sync' = sync /\ (sync.phase = "idle" \/ \A p \in Proposal : ~again(p))
  <2> HIDE DEF again
  <2> QED BY <1>1, <1>2 DEF SyncRec
<1>6. edits' \in 0 .. MaxEdits
  BY SyncAssumption DEF SourceMoves, TypeOK
<1> QED BY <1>1, <1>3, <1>4, <1>5, <1>6

\* A new content of the workbook keeps the types.
LEMMA SourceMovesTyped ==
  ASSUME TypeOK, NEW v \in Version, SourceMoves(v) PROVE TypeOK'
BY Moved DEF TypeOK

\* A proposal whose version the workbook leaves has nothing to cover, nor has one
\* that it comes back to.
LEMMA SourceMovesKeeps ==
  ASSUME IInv, NEW v \in Version, SourceMoves(v) PROVE IInv'
<1>1. /\ UNCHANGED <<notion, checkpoint, pending, ops, settled, stray>>
      /\ source' = v
      /\ \A p \in Proposal : /\ prop'[p].status = prop[p].status
                             /\ prop'[p].version = prop[p].version
                             /\ Known(p) /\ prop[p].version = v => prop'[p].back
      /\ sync'.phase = sync.phase /\ sync'.baseline = sync.baseline
      /\ sync'.current = sync.current
      /\ \/ sync'.back
         \/ /\ sync' = sync
            /\ sync.phase = "idle" \/ \A p \in Proposal : Known(p) => prop[p].version # v
  BY Moved DEF IInv
<1>2. TypeOK'
  BY SourceMovesTyped DEF IInv
<1>3. IdsOfKeys'
  BY <1>1 DEF IInv, IdsOfKeys, Scope
<1>4. Ordered'
  BY <1>1 DEF IInv, Ordered, Known
<1>5. Traced'
  BY <1>1 DEF IInv, Traced, Explained, IsQueued
<1>6. NothingToPropose'
  BY <1>1 DEF IInv, NothingToPropose, Explained, IsQueued
<1>7. Covered'
  BY <1>1 DEF Covered, Covers, Known
<1> QED BY <1>2, <1>3, <1>4, <1>5, <1>6, <1>7 DEF IInv

-----------------------------------------------------------------------------
(* The theorems.                                                              *)

\* Every step of /nx_sync leaves its thread with what it reads.
LEMMA SyncTyped ==
  ASSUME TypeOK, SyncVersions \/ SyncPending \/ SyncRecheck \/ SyncNoop PROVE TypeOK'
<1>1. /\ sync \in SyncRec
      /\ source \in Version /\ checkpoint \in Version \cup {None} /\ pending \subseteq Queued
  BY DEF TypeOK
<1>2. sync' \in SyncRec
  <2>1. CASE SyncVersions
    BY <1>1, <2>1, IdleTyped DEF SyncVersions, SyncPhase, SyncRec
  <2>2. CASE SyncPending
    BY <1>1, <2>2, IdleTyped DEF SyncPending, SyncEnds, SyncPhase, SyncRec
  <2>3. CASE SyncRecheck
    <3>1. PICK ph \in {"noop", "create"} :
            sync' = IdleSync \/ sync' = [sync EXCEPT !.phase = ph]
      BY <2>3 DEF SyncRecheck, SyncEnds
    <3> QED BY <1>1, <3>1, IdleTyped DEF SyncPhase, SyncRec
  <2>4. CASE SyncNoop
    BY <2>4, IdleTyped DEF SyncNoop, SyncEnds
  <2> QED BY <2>1, <2>2, <2>3, <2>4
<1>3. /\ UNCHANGED <<source, notion, pending, prop, ops, edits, settled>>
      /\ checkpoint' \in Version \cup {None} /\ stray' \subseteq Key
  BY <1>1 DEF TypeOK, SyncVersions, SyncPending, SyncRecheck, SyncNoop, Unexplained, SyncRec
<1> QED BY <1>2, <1>3 DEF TypeOK

\* Every step keeps the types.
LEMMA TypeKept == ASSUME TypeOK, [Next]_vars PROVE TypeOK'
<1>1. \A p \in Proposal : KeepsPlan(p) => TypeOK'
  BY DEF KeepsPlan, TypeOK
<1>2. CASE UNCHANGED vars
  BY <1>2 DEF vars, TypeOK
<1>3. CASE SyncVersions \/ SyncStep
  BY <1>3, SyncTyped, SyncCreateTyped DEF SyncStep
<1>4. ASSUME NEW p \in Proposal, ApplyStep(p) PROVE TypeOK'
  BY <1>1, <1>4, CommitTyped, FailKeepsPlan, WriteTyped DEF ApplyStep
<1>5. ASSUME NEW p \in Proposal, Decide(p) PROVE TypeOK'
  <2>1. CASE Reject(p)
    BY <2>1, Forgotten DEF Reject, TypeOK
  <2>2. CASE Recover(p)
    BY <1>1, <2>2, RecoverKeepsPlan
  <2>3. CASE Start(p) \/ Resume(p)
    BY <1>1, <2>3, BeginKeepsPlan DEF Start, Resume
  <2>4. CASE \E k \in Key, a \in Decisions : Set(p, k, a)
    BY <1>1, <2>4, SetKeepsPlan
  <2> QED BY <1>5, <2>1, <2>2, <2>3, <2>4 DEF Decide
<1>6. CASE World
  BY <1>6, PersonEditsTyped, SourceMovesTyped DEF World
<1> QED BY <1>2, <1>3, <1>4, <1>5, <1>6 DEF Next

\* Every variable keeps its type; an operation or a queued change without an id
\* or a value would not be one, and a bound on the ids in use never leaves a
\* change without an id.
THEOREM TypeCorrect == Spec => []TypeOK
<1>1. Init => TypeOK
  BY Initial DEF IInv
<1>2. TypeOK /\ [Next]_vars => TypeOK'
  BY TypeKept
<1> QED BY <1>1, <1>2, PTL DEF Spec

\* Every step keeps the invariant.
LEMMA Inductive == ASSUME IInv, [Next]_vars PROVE IInv'
<1>1. CASE UNCHANGED vars
  <2>1. UNCHANGED <<source, notion, checkpoint, pending, prop, ops, edits, settled, stray>>
        /\ sync' = sync
    BY <1>1 DEF vars
  <2>2. Ordered' /\ NothingToPropose'
    BY <2>1 DEF IInv, Ordered, NothingToPropose, Explained, Known, IsQueued
  <2> QED BY <2>1, <2>2, SyncMoves DEF IInv, TypeOK
<1>2. CASE SyncVersions
  BY <1>2, SyncVersionsKeeps
<1>3. CASE SyncStep
  BY <1>3, SyncPendingKeeps, SyncRecheckKeeps, SyncNoopKeeps, SyncCreateKeeps DEF SyncStep
<1>4. ASSUME NEW p \in Proposal, ApplyStep(p) PROVE IInv'
  BY <1>4, CommitKeeps, FailKeepsPlan, KeepsPlanKeeps, WriteKeeps DEF ApplyStep, IInv
<1>5. ASSUME NEW p \in Proposal, Decide(p) PROVE IInv'
  <2>1. TypeOK
    BY DEF IInv
  <2>2. CASE Reject(p)
    BY <2>2, RejectKeeps
  <2>3. CASE Recover(p)
    BY <2>1, <2>3, RecoverKeepsPlan, KeepsPlanKeeps
  <2>4. CASE Start(p) \/ Resume(p)
    BY <2>1, <2>4, BeginKeepsPlan, KeepsPlanKeeps DEF Start, Resume
  <2>5. CASE \E k \in Key, a \in Decisions : Set(p, k, a)
    BY <2>1, <2>5, SetKeepsPlan, KeepsPlanKeeps
  <2> QED BY <1>5, <2>2, <2>3, <2>4, <2>5 DEF Decide
<1>6. CASE World
  BY <1>6, SourceMovesKeeps, PersonEditsKeeps DEF World
<1> QED BY <1>1, <1>2, <1>3, <1>4, <1>5, <1>6 DEF Next

\* The invariant holds in every reachable state.
THEOREM Invariance == Spec => []IInv
<1>1. Init => IInv
  BY Initial
<1>2. IInv /\ [Next]_vars => IInv'
  BY Inductive
<1> QED BY <1>1, <1>2, PTL DEF Spec

\* When a commit, or a /nx_sync that finds nothing to propose, moves the
\* checkpoint to a version (finalize_success, commit_noop_checkpoint), every
\* property shows that version's value, unless its change was deferred or a
\* person decided otherwise, or its row is the one of the previous checkpoint and
\* an apply that did not commit wrote the property: whatever the other proposals
\* did, however the steps of /nx_sync fall between theirs, and whatever became of
\* the workbook, as long as it was not put back to the version of the proposal
\* that commits, or to that of a proposal while the /nx_sync ran.
THEOREM CheckpointIsMirrored == Spec => CheckpointMirrored
<1> DEFINE Right == checkpoint' # checkpoint /\ ~OfOldFile =>
                      \A k \in Key : Mirrored(k) \/ LeftStray(k)
<1>1. ASSUME IInv, NEW p \in Proposal, Commit(p), ~OfOldFile
      PROVE  \A k \in Key : Mirrored(k) \/ LeftStray(k)
  <2>1. checkpoint' = source /\ source' = source /\ notion' = notion /\ ~prop[p].back
    BY <1>1 DEF Commit, Complete, OfOldFile
  <2>2. \A k \in Key : UpToDate(k)' \/ IsQueued(k)' \/ (Strayed(k) /\ k \in stray')
    BY <1>1, <2>1, CommitCovers
  <2> QED BY <2>1, <2>2 DEF UpToDate, Strayed, Mirrored, LeftStray
<1>2. ASSUME IInv, SyncNoop, ~OfOldFile
      PROVE  \A k \in Key : Mirrored(k) \/ LeftStray(k)
  <2>1. /\ ~sync.back /\ sync.phase = "noop" /\ checkpoint' = sync.current
        /\ notion' = notion /\ settled' = settled /\ pending' = pending
        /\ stray' = Unexplained(sync.current, sync.back)
    BY <1>2 DEF SyncNoop, OfOldFile
  <2> TAKE k \in Key
  <2>2. Explained(k, sync.current)
    BY <1>2, <2>1 DEF IInv, NothingToPropose
  <2> QED BY <2>1, <2>2 DEF Explained, IsQueued, Unexplained, Mirrored, LeftStray
<1>3. ASSUME [Next]_vars, ~SyncNoop, \A p \in Proposal : ~Commit(p)
      PROVE  checkpoint' = checkpoint
  BY <1>3 DEF Next, vars, SyncVersions, SyncStep, SyncPending, SyncRecheck, SyncCreate,
              ApplyStep, Fail, Write, Decide, Reject, Recover, Start, Resume, Begin, Set,
              World, SourceMoves, PersonEdits
<1>4. IInv /\ [Next]_vars => Right
  BY <1>1, <1>2, <1>3
<1>5. IInv /\ [Next]_vars => [Right]_vars
  BY <1>4
<1>6. Spec => []IInv
  BY Invariance
<1> QED BY <1>5, <1>6, PTL DEF Spec, CheckpointMirrored

=============================================================================
