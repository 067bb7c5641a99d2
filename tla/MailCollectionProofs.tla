------------------------ MODULE MailCollectionProofs ------------------------
(* A mail that the checkpoint covers is in the Wiki, or is a copy of one that *)
(* is: for any number of mails, whatever fails and whatever is deleted.       *)
EXTENDS MailCollection, TLAPS

-----------------------------------------------------------------------------
(* The inductive invariant.                                                   *)

\* A mail the command still has to publish, and one it will have published or
\* has already, with its file and its page, when the batch is done.
Pending(v) == \E n \in 1 .. Len(batch.messages) : batch.messages[n] = v
Landing(v) == Pending(v) \/ (v \in files /\ v \in pages)

\* Mail v stands for mail u: it is u, or u is a copy of it.
StandsFor(v, u) == v = u \/ (letter[u].id # None /\ letter[v].id = letter[u].id)

\* What the checkpoint and the batch say they have is kept, or is on its way.
CheckpointHolds ==
  /\ checkpoint.uidls \subseteq DOMAIN letter
  /\ \A u \in checkpoint.uidls : \E v \in DOMAIN letter : Kept(v) /\ StandsFor(v, u)
  /\ \A i \in checkpoint.ids : \E v \in DOMAIN letter : Kept(v) /\ letter[v].id = i

BatchHolds ==
  /\ batch.uidls \subseteq DOMAIN letter
  /\ \A u \in batch.uidls : \E v \in DOMAIN letter : Landing(v) /\ StandsFor(v, u)
  /\ \A i \in batch.ids : \E v \in DOMAIN letter : Landing(v) /\ letter[v].id = i

\* How far the publication is at each step of the command.
Progress ==
  /\ pc = "idle" => batch = NoBatch
  /\ pc = "page" => batch.messages # <<>> /\ Head(batch.messages) \in files
  /\ pc \in {"stage", "current", "save"} => batch.messages = <<>>
  /\ pc \in {"current", "save"} => files \in generations
  /\ pc = "save" => current = files

CurrentIsWritten == current \in generations => current \subseteq files

IInv == TypeOK /\ CheckpointHolds /\ BatchHolds /\ Progress /\ CurrentIsWritten

-----------------------------------------------------------------------------
(* What a step leaves as it was.                                              *)

\* Letters are only added.
Grown == \A v \in DOMAIN letter : v \in DOMAIN letter' /\ letter'[v] = letter[v]

\* The first state: nothing is covered yet.
LEMMA Initial == ASSUME Init PROVE IInv
<1>1. /\ letter = <<>> /\ letter \in Seq(Letters) /\ Len(letter) <= MaxMails
      /\ DOMAIN letter = {}
  BY MailAssumption DEF Init
<1>2. batch \in HiworksMailBatch /\ checkpoint \in HiworksMailCheckpoint
  BY DEF Init, NoBatch, HiworksMailBatch, HiworksMailCheckpoint
<1>3. TypeOK
  <2>1. 0 \in 0 .. MaxFaults
    BY MailAssumption
  <2>2. /\ mailbox = {} /\ todo = {} /\ files = {} /\ pages = {} /\ generations = {}
        /\ current = None
    BY DEF Init
  <2>3. pc = "idle" /\ faults = 0
    BY DEF Init
  <2>4. /\ generations \subseteq SUBSET Mail /\ current \in (SUBSET Mail) \cup {None}
        /\ mailbox \subseteq DOMAIN letter /\ todo \subseteq Mail
        /\ files \subseteq Mail /\ pages \subseteq Mail
    BY <2>2
  <2>5. /\ faults \in 0 .. MaxFaults
        /\ pc \in {"idle", "read", "file", "page", "stage", "current", "save"}
    BY <2>1, <2>3
  <2> QED BY <1>1, <1>2, <2>4, <2>5, Zenon DEF TypeOK
<1>4. CheckpointHolds /\ BatchHolds
  BY DEF Init, CheckpointHolds, BatchHolds, NoBatch
<1>5. Progress /\ CurrentIsWritten
  BY DEF Init, Progress, CurrentIsWritten
<1> QED BY <1>3, <1>4, <1>5 DEF IInv

\* A step that keeps what is kept keeps what the checkpoint says, if it leaves it alone.
LEMMA CheckpointKeeps ==
  ASSUME CheckpointHolds, Grown, checkpoint' = checkpoint,
         \A v \in DOMAIN letter : Kept(v) => Kept(v)'
  PROVE  CheckpointHolds'
<1>1. checkpoint'.uidls \subseteq DOMAIN letter'
  BY DEF CheckpointHolds, Grown
<1>2. ASSUME NEW u \in checkpoint'.uidls
      PROVE  \E v \in DOMAIN letter' : Kept(v)' /\ StandsFor(v, u)'
  BY <1>2 DEF CheckpointHolds, Grown, StandsFor
<1>3. ASSUME NEW i \in checkpoint'.ids
      PROVE  \E v \in DOMAIN letter' : Kept(v)' /\ letter'[v].id = i
  BY <1>3 DEF CheckpointHolds, Grown
<1> QED BY <1>1, <1>2, <1>3 DEF CheckpointHolds

\* The same of the batch: what was on its way is, or has arrived.
LEMMA BatchKeeps ==
  ASSUME BatchHolds, Grown, batch'.uidls = batch.uidls, batch'.ids = batch.ids,
         \A v \in DOMAIN letter : Landing(v) => Landing(v)'
  PROVE  BatchHolds'
<1>1. batch'.uidls \subseteq DOMAIN letter'
  BY DEF BatchHolds, Grown
<1>2. ASSUME NEW u \in batch'.uidls
      PROVE  \E v \in DOMAIN letter' : Landing(v)' /\ StandsFor(v, u)'
  BY <1>2 DEF BatchHolds, Grown, StandsFor
<1>3. ASSUME NEW i \in batch'.ids
      PROVE  \E v \in DOMAIN letter' : Landing(v)' /\ letter'[v].id = i
  BY <1>3 DEF BatchHolds, Grown
<1> QED BY <1>1, <1>2, <1>3 DEF BatchHolds

\* A command that is not running has nothing on its way.
LEMMA NoBatchHolds == ASSUME batch = NoBatch PROVE BatchHolds
BY DEF BatchHolds, NoBatch

\* What a batch may be.
LEMMA BatchTyped ==
  ASSUME NEW U \in SUBSET Mail, NEW I \in SUBSET Id, NEW M \in Seq(Mail)
  PROVE  [uidls |-> U, ids |-> I, messages |-> M] \in HiworksMailBatch
BY DEF HiworksMailBatch

\* The batch of no command is a batch.
LEMMA NoBatchTyped == NoBatch \in HiworksMailBatch
<1>1. <<>> \in Seq(Mail)
  OBVIOUS
<1> QED BY <1>1, BatchTyped DEF NoBatch

\* The mails delivered are mails.
LEMMA LettersAreMails == ASSUME TypeOK PROVE DOMAIN letter = 1 .. Len(letter)
                                         /\ DOMAIN letter \subseteq Mail
<1>1. letter \in Seq(Letters) /\ Len(letter) <= MaxMails /\ MaxMails \in Nat
  BY MailAssumption DEF TypeOK
<1> QED BY <1>1 DEF Mail

\* A letter is what a mail may be.
LEMMA LetterTyped ==
  ASSUME TypeOK, NEW u \in DOMAIN letter
  PROVE  letter[u].id \in Id \cup {None}
<1>1. letter[u] \in Letters
  BY DEF TypeOK
<1> QED BY <1>1, MailAssumption DEF Letter

\* A step that changes none of the variables the invariant reads.
LEMMA SameKept ==
  ASSUME UNCHANGED wiki
  PROVE  \A v : Kept(v) => Kept(v)'
BY DEF wiki, Kept

-----------------------------------------------------------------------------
(* Every action keeps the invariant.                                          *)

LEMMA DeliverKeeps == ASSUME IInv, Deliver PROVE IInv'
<1> USE DEF IInv
<1>1. PICK l \in Letters : letter' = Append(letter, l)
  BY DEF Deliver
<1>2. Len(letter) < MaxMails /\ mailbox' = mailbox \cup {Len(letter) + 1}
  BY DEF Deliver
<1>3. UNCHANGED <<pc, todo, batch, wiki, checkpoint, faults>>
  BY DEF Deliver
<1>4. /\ letter' \in Seq(Letters) /\ Len(letter') = Len(letter) + 1
      /\ Len(letter') <= MaxMails /\ DOMAIN letter' = 1 .. Len(letter) + 1
      /\ DOMAIN letter = 1 .. Len(letter) /\ Len(letter) \in Nat
  BY <1>1, <1>2, MailAssumption DEF TypeOK
<1>5. Grown
  BY <1>1, <1>4 DEF Grown, TypeOK
<1>6. TypeOK'
  BY <1>2, <1>3, <1>4 DEF TypeOK, wiki
<1>7. CheckpointHolds'
  BY <1>3, <1>5, CheckpointKeeps, SameKept
<1>8. BatchHolds'
  BY <1>3, <1>5, BatchKeeps DEF Landing, Pending, wiki
<1>9. Progress' /\ CurrentIsWritten'
  BY <1>3 DEF Progress, CurrentIsWritten, wiki
<1> QED BY <1>6, <1>7, <1>8, <1>9

\* A deletion takes a mail from the mailbox, not from the Wiki.
LEMMA RemoveKeeps == ASSUME IInv, NEW u \in Mail, Remove(u) PROVE IInv'
<1> USE DEF IInv
<1>1. /\ mailbox' = mailbox \ {u}
      /\ UNCHANGED <<letter, pc, todo, batch, wiki, checkpoint, faults>>
  BY DEF Remove
<1>2. Grown
  BY <1>1 DEF Grown
<1>3. TypeOK'
  BY <1>1 DEF TypeOK, wiki
<1>4. CheckpointHolds'
  BY <1>1, <1>2, CheckpointKeeps, SameKept
<1>5. BatchHolds'
  BY <1>1, <1>2, BatchKeeps DEF Landing, Pending, wiki
<1>6. Progress' /\ CurrentIsWritten'
  BY <1>1 DEF Progress, CurrentIsWritten, wiki
<1> QED BY <1>3, <1>4, <1>5, <1>6

\* A batch that is given up: the Wiki keeps what is in it.
LEMMA AbortKeeps ==
  ASSUME IInv, Abort, faults' \in 0 .. MaxFaults PROVE IInv'
<1> USE DEF IInv
<1>1. /\ pc' = "idle" /\ todo' = {} /\ batch' = NoBatch
      /\ UNCHANGED <<letter, mailbox, wiki, checkpoint>>
  BY DEF Abort, server
<1>2. Grown
  BY <1>1 DEF Grown
<1>3. TypeOK'
  BY <1>1, NoBatchTyped DEF TypeOK, wiki
<1>4. CheckpointHolds'
  BY <1>1, <1>2, CheckpointKeeps, SameKept
<1>5. BatchHolds'
  BY <1>1 DEF BatchHolds, NoBatch
<1>6. Progress' /\ CurrentIsWritten'
  BY <1>1 DEF Progress, CurrentIsWritten, wiki
<1> QED BY <1>3, <1>4, <1>5, <1>6

\* A batch that cannot be read is given up.
LEMMA UnreadableKeeps == ASSUME IInv, Unreadable PROVE IInv'
<1>1. Abort /\ faults' = faults
  BY DEF Unreadable
<1>2. faults \in 0 .. MaxFaults
  BY DEF IInv, TypeOK
<1> QED BY <1>1, <1>2, AbortKeeps

\* A command that fails half-way gives its batch up.
LEMMA FailKeeps == ASSUME IInv, Fail PROVE IInv'
<1>1. Abort /\ faults < MaxFaults /\ faults' = faults + 1
  BY DEF Fail
<1>2. faults \in 0 .. MaxFaults
  BY DEF IInv, TypeOK
<1>3. faults' \in 0 .. MaxFaults
  BY <1>1, <1>2, MailAssumption
<1> QED BY <1>1, <1>3, AbortKeeps

\* A batch begins with the Message-IDs of the checkpoint, and those are kept.
LEMMA CollectKeeps == ASSUME IInv, Collect PROVE IInv'
<1> USE DEF IInv
<1>1. /\ pc' = "read" /\ todo' = Candidates /\ batch' = [NoBatch EXCEPT !.ids = checkpoint.ids]
      /\ UNCHANGED <<letter, mailbox, wiki, checkpoint, faults>>
  BY DEF Collect, server
<1>2. Grown
  BY <1>1 DEF Grown
<1>3. batch' = [uidls |-> {}, ids |-> checkpoint.ids, messages |-> <<>>]
  BY <1>1 DEF NoBatch
<1>4. checkpoint.ids \in SUBSET Id /\ <<>> \in Seq(Mail)
  BY DEF TypeOK, HiworksMailCheckpoint
<1>5. batch' \in HiworksMailBatch
  BY <1>3, <1>4, BatchTyped
<1>6. todo' \subseteq Mail
  BY <1>1, LettersAreMails DEF Candidates, Unseen, TypeOK
<1>7. TypeOK'
  BY <1>1, <1>5, <1>6 DEF TypeOK, wiki
<1>8. CheckpointHolds'
  BY <1>1, <1>2, CheckpointKeeps, SameKept
<1>9. ASSUME NEW i \in batch'.ids
      PROVE  \E v \in DOMAIN letter' : Landing(v)' /\ letter'[v].id = i
  <2>1. PICK v \in DOMAIN letter : Kept(v) /\ letter[v].id = i
    BY <1>3, <1>9 DEF CheckpointHolds
  <2>2. Landing(v)'
    BY <1>1, <2>1 DEF Kept, Landing, wiki
  <2> QED BY <1>1, <2>1, <2>2
<1>10. BatchHolds'
  BY <1>3, <1>9 DEF BatchHolds
<1>11. Progress' /\ CurrentIsWritten'
  BY <1>1 DEF Progress, CurrentIsWritten, wiki
<1> QED BY <1>7, <1>8, <1>10, <1>11

\* A candidate that is read: it is in the batch, or its copy is.
LEMMA ProcessKeeps ==
  ASSUME IInv, NEW u \in DOMAIN letter, NEW ids \in SUBSET Id, NEW messages \in {<<>>, <<u>>},
         pc = "read", Process(u, ids, messages),
         \E v \in DOMAIN letter : Landing(v)' /\ StandsFor(v, u),
         \A i \in ids : i \in batch.ids
                        \/ (\E v \in DOMAIN letter : Landing(v)' /\ letter[v].id = i)
  PROVE  IInv'
<1> USE DEF IInv
<1>1. /\ todo' = todo \ {u}
      /\ batch' = [uidls |-> batch.uidls \cup {u}, ids |-> ids,
                   messages |-> batch.messages \o messages]
      /\ UNCHANGED <<letter, mailbox, pc, wiki, checkpoint, faults>>
  BY DEF Process, server
<1>2. Grown
  BY <1>1 DEF Grown
<1>3. u \in Mail /\ batch.uidls \in SUBSET Mail /\ batch.messages \in Seq(Mail)
  BY LettersAreMails DEF TypeOK, HiworksMailBatch
<1>4. batch.messages \o messages \in Seq(Mail)
  <2>1. <<>> \in Seq(Mail) /\ <<u>> \in Seq(Mail)
    BY <1>3
  <2>2. messages \in Seq(Mail)
    BY <2>1
  <2> QED BY <1>3, <2>2
<1>5. batch' \in HiworksMailBatch
  BY <1>1, <1>3, <1>4, BatchTyped
<1>6. TypeOK'
  BY <1>1, <1>5 DEF TypeOK, wiki
<1>7. CheckpointHolds'
  BY <1>1, <1>2, CheckpointKeeps, SameKept
<1>8. \A v : Pending(v) => Pending(v)'
  <2>1. Len(batch.messages \o messages) >= Len(batch.messages)
    BY <1>3
  <2>2. \A n \in 1 .. Len(batch.messages) : (batch.messages \o messages)[n] = batch.messages[n]
    BY <1>3
  <2>3. batch'.messages = batch.messages \o messages
    BY <1>1
  <2>4. Len(batch.messages) \in Nat /\ Len(batch.messages \o messages) \in Nat
    BY <1>3, <1>4
  <2> QED BY <2>1, <2>2, <2>3, <2>4 DEF Pending
<1>9. \A v : Landing(v) => Landing(v)'
  BY <1>1, <1>8 DEF Landing, wiki
<1>10. BatchHolds'
  <2>1. batch'.uidls \subseteq DOMAIN letter'
    BY <1>1 DEF BatchHolds
  <2>2. ASSUME NEW w \in batch'.uidls
        PROVE  \E v \in DOMAIN letter' : Landing(v)' /\ StandsFor(v, w)'
    <3>1. CASE w = u
      BY <1>1, <3>1 DEF StandsFor
    <3>2. CASE w \in batch.uidls
      BY <1>1, <1>9, <3>2 DEF BatchHolds, StandsFor
    <3> QED BY <1>1, <2>2, <3>1, <3>2
  <2>3. ASSUME NEW i \in batch'.ids
        PROVE  \E v \in DOMAIN letter' : Landing(v)' /\ letter'[v].id = i
    <3>1. CASE i \in batch.ids
      BY <1>1, <1>9, <3>1 DEF BatchHolds
    <3>2. CASE \E v \in DOMAIN letter : Landing(v)' /\ letter[v].id = i
      BY <1>1, <3>2
    <3> QED BY <1>1, <2>3, <3>1, <3>2
  <2> QED BY <2>1, <2>2, <2>3 DEF BatchHolds
<1>11. Progress' /\ CurrentIsWritten'
  BY <1>1 DEF Progress, CurrentIsWritten, wiki
<1> QED BY <1>6, <1>7, <1>10, <1>11

\* The message that is read last is to be published.
LEMMA LastIsPending ==
  ASSUME TypeOK, NEW u \in DOMAIN letter, NEW ids, Process(u, ids, <<u>>)
  PROVE  Pending(u)'
<1>1. u \in Mail /\ batch.messages \in Seq(Mail)
  BY LettersAreMails DEF TypeOK, HiworksMailBatch
<1>2. batch'.messages = batch.messages \o <<u>>
  BY DEF Process
<1>3. /\ Len(batch.messages \o <<u>>) = Len(batch.messages) + 1
      /\ (batch.messages \o <<u>>)[Len(batch.messages) + 1] = u
      /\ Len(batch.messages) \in Nat
  BY <1>1
<1> QED BY <1>2, <1>3 DEF Pending

\* A mail with too long a header is read by its header alone.
LEMMA LongHeaderKeeps == ASSUME IInv, NEW u \in Mail, LongHeader(u) PROVE IInv'
<1>1. /\ u \in DOMAIN letter /\ pc = "read" /\ Process(u, batch.ids, <<u>>)
      /\ batch.ids \in SUBSET Id
  BY DEF IInv, LongHeader, Reading, InBox, TypeOK, HiworksMailBatch
<1>2. Landing(u)' /\ StandsFor(u, u)
  BY <1>1, LastIsPending DEF IInv, Landing, StandsFor
<1> QED BY <1>1, <1>2, ProcessKeeps

\* A duplicate is stood for by the mail whose Message-ID is known.
LEMMA DuplicateKeeps == ASSUME IInv, NEW u \in Mail, Duplicate(u) PROVE IInv'
<1>1. /\ u \in DOMAIN letter /\ pc = "read" /\ Process(u, batch.ids, <<>>)
      /\ batch.ids \in SUBSET Id /\ batch.messages \in Seq(Mail)
  BY DEF IInv, Duplicate, Reading, InBox, TypeOK, HiworksMailBatch
<1>2. letter[u].id # None /\ letter[u].id \in batch.ids
  BY DEF Duplicate, Known
<1>3. PICK v \in DOMAIN letter : Landing(v) /\ letter[v].id = letter[u].id
  BY <1>2 DEF IInv, BatchHolds
<1>4. batch'.messages = batch.messages \o <<>> /\ UNCHANGED wiki
  BY <1>1 DEF Process
<1>5. batch'.messages = batch.messages
  BY <1>1, <1>4
<1>6. Landing(v)' /\ StandsFor(v, u)
  BY <1>2, <1>3, <1>4, <1>5 DEF Landing, Pending, StandsFor, wiki
<1> QED BY <1>1, <1>6, ProcessKeeps

\* A mail that is read stands for itself.
LEMMA MessageKeeps == ASSUME IInv, NEW u \in Mail, Message(u) PROVE IInv'
<1>1. /\ u \in DOMAIN letter /\ pc = "read" /\ Process(u, Remembered(u), <<u>>)
      /\ batch.ids \in SUBSET Id
  BY DEF IInv, Message, Reading, InBox, TypeOK, HiworksMailBatch
<1>2. letter[u].id \in Id \cup {None}
  BY <1>1, LetterTyped DEF IInv
<1>3. Remembered(u) \in SUBSET Id
  BY <1>1, <1>2 DEF Remembered
<1>4. Landing(u)' /\ StandsFor(u, u)
  BY <1>1, LastIsPending DEF IInv, Landing, StandsFor
<1>5. \A i \in Remembered(u) : i \in batch.ids
        \/ (\E v \in DOMAIN letter : Landing(v)' /\ letter[v].id = i)
  BY <1>1, <1>4 DEF Remembered
<1> QED BY <1>1, <1>3, <1>4, <1>5, ProcessKeeps

\* The publication begins with the batch that was read.
LEMMA CloseKeeps == ASSUME IInv, Close PROVE IInv'
<1> USE DEF IInv
<1>1. /\ pc = "read" /\ pc' = "file"
      /\ UNCHANGED <<letter, mailbox, todo, batch, wiki, checkpoint, faults>>
  BY DEF Close, server
<1>2. Grown
  BY <1>1 DEF Grown
<1>3. TypeOK'
  BY <1>1 DEF TypeOK, wiki
<1>4. CheckpointHolds'
  BY <1>1, <1>2, CheckpointKeeps, SameKept
<1>5. BatchHolds'
  BY <1>1, <1>2, BatchKeeps DEF Landing, Pending, wiki
<1>6. Progress' /\ CurrentIsWritten'
  BY <1>1 DEF Progress, CurrentIsWritten, wiki
<1> QED BY <1>3, <1>4, <1>5, <1>6

\* A file is added to the Wiki.
LEMMA WriteFileKeeps == ASSUME IInv, WriteFile PROVE IInv'
<1> USE DEF IInv
<1>1. /\ pc = "file" /\ batch.messages # <<>> /\ pc' = "page"
      /\ files' = files \cup {Head(batch.messages)}
      /\ UNCHANGED <<letter, mailbox, todo, batch, pages, generations, current>>
      /\ UNCHANGED <<checkpoint, faults>>
  BY DEF WriteFile, server
<1>2. batch.messages \in Seq(Mail)
  BY DEF TypeOK, HiworksMailBatch
<1>3. Head(batch.messages) \in Mail
  BY <1>1, <1>2
<1>4. Grown
  BY <1>1 DEF Grown
<1>5. TypeOK'
  BY <1>1, <1>3 DEF TypeOK
<1>6. CheckpointHolds'
  BY <1>1, <1>4, CheckpointKeeps DEF Kept
<1>7. BatchHolds'
  BY <1>1, <1>4, BatchKeeps DEF Landing, Pending
<1>8. Progress' /\ CurrentIsWritten'
  BY <1>1 DEF Progress, CurrentIsWritten
<1> QED BY <1>5, <1>6, <1>7, <1>8

\* The page makes the first message one that has arrived.
LEMMA WritePageKeeps == ASSUME IInv, WritePage PROVE IInv'
<1> USE DEF IInv
<1> DEFINE m == batch.messages
<1>1. /\ pc = "page" /\ pc' = "file" /\ pages' = pages \cup {Head(m)}
      /\ batch' = [batch EXCEPT !.messages = Tail(@)]
      /\ UNCHANGED <<letter, mailbox, todo, files, generations, current, checkpoint, faults>>
  BY DEF WritePage, server
<1>2. /\ m \in Seq(Mail) /\ batch.uidls \in SUBSET Mail /\ batch.ids \in SUBSET Id
      /\ batch = [uidls |-> batch.uidls, ids |-> batch.ids, messages |-> m]
  BY DEF TypeOK, HiworksMailBatch
<1>3. m # <<>> /\ Head(m) \in files
  BY <1>1 DEF Progress
<1>4. /\ Head(m) \in Mail /\ Head(m) = m[1] /\ Tail(m) \in Seq(Mail)
      /\ Len(m) \in Nat /\ Len(Tail(m)) = Len(m) - 1
      /\ \A n \in 1 .. Len(Tail(m)) : Tail(m)[n] = m[n + 1]
  BY <1>2, <1>3
<1>5. batch' = [uidls |-> batch.uidls, ids |-> batch.ids, messages |-> Tail(m)]
  BY <1>1, <1>2
<1>6. batch' \in HiworksMailBatch
  BY <1>2, <1>4, <1>5, BatchTyped
<1>7. Grown
  BY <1>1 DEF Grown
<1>8. TypeOK'
  BY <1>1, <1>4, <1>6 DEF TypeOK
<1>9. CheckpointHolds'
  BY <1>1, <1>7, CheckpointKeeps DEF Kept
<1>10. ASSUME NEW v, Landing(v) PROVE Landing(v)'
  <2>1. CASE v \in files /\ v \in pages
    BY <1>1, <2>1 DEF Landing
  <2>2. CASE Pending(v)
    <3>1. PICK n \in 1 .. Len(m) : m[n] = v
      BY <2>2 DEF Pending
    <3>2. CASE n = 1
      BY <1>1, <1>3, <1>4, <3>1, <3>2 DEF Landing
    <3>3. CASE n # 1
      <4>1. n - 1 \in 1 .. Len(Tail(m)) /\ Tail(m)[n - 1] = v
        BY <1>4, <3>1, <3>3
      <4>2. batch'.messages = Tail(m)
        BY <1>5
      <4> QED BY <4>1, <4>2 DEF Landing, Pending
    <3> QED BY <3>2, <3>3
  <2> QED BY <1>10, <2>1, <2>2 DEF Landing
<1>11. BatchHolds'
  BY <1>5, <1>7, <1>10, BatchKeeps
<1>12. Progress' /\ CurrentIsWritten'
  BY <1>1 DEF Progress, CurrentIsWritten
<1> QED BY <1>8, <1>9, <1>11, <1>12

\* The catalog may have its directory already.
LEMMA ListFilesKeeps == ASSUME IInv, ListFiles PROVE IInv'
<1> USE DEF IInv
<1>1. /\ pc = "file" /\ batch.messages = <<>>
      /\ pc' = IF files \in generations THEN "current" ELSE "stage"
      /\ UNCHANGED <<letter, mailbox, todo, batch, wiki, checkpoint, faults>>
  BY DEF ListFiles, server, Catalog
<1>2. Grown
  BY <1>1 DEF Grown
<1>3. TypeOK'
  BY <1>1 DEF TypeOK, wiki
<1>4. CheckpointHolds'
  BY <1>1, <1>2, CheckpointKeeps, SameKept
<1>5. BatchHolds'
  BY <1>1, <1>2, BatchKeeps DEF Landing, Pending, wiki
<1>6. Progress' /\ CurrentIsWritten'
  BY <1>1 DEF Progress, CurrentIsWritten, wiki
<1> QED BY <1>3, <1>4, <1>5, <1>6

\* A catalog gets its directory.
LEMMA PublishStagingKeeps == ASSUME IInv, PublishStaging PROVE IInv'
<1> USE DEF IInv
<1>1. /\ pc = "stage" /\ pc' = "current" /\ generations' = generations \cup {files}
      /\ UNCHANGED <<letter, mailbox, todo, batch, files, pages, current, checkpoint, faults>>
  BY DEF PublishStaging, server, Catalog
<1>2. Grown
  BY <1>1 DEF Grown
<1>3. TypeOK'
  BY <1>1 DEF TypeOK
<1>4. CheckpointHolds'
  BY <1>1, <1>2, CheckpointKeeps DEF Kept
<1>5. BatchHolds'
  BY <1>1, <1>2, BatchKeeps DEF Landing, Pending
<1>6. Progress' /\ CurrentIsWritten'
  BY <1>1 DEF Progress, CurrentIsWritten
<1> QED BY <1>3, <1>4, <1>5, <1>6

\* The catalog of all files loses nothing that CURRENT named before.
LEMMA WriteCurrentKeeps == ASSUME IInv, WriteCurrent PROVE IInv'
<1> USE DEF IInv
<1>1. /\ pc = "current" /\ pc' = "save" /\ current' = files
      /\ UNCHANGED <<letter, mailbox, todo, batch, files, pages, generations, checkpoint, faults>>
  BY DEF WriteCurrent, server, Catalog
<1>2. Grown
  BY <1>1 DEF Grown
<1>3. TypeOK'
  BY <1>1 DEF TypeOK
<1>4. files \in generations /\ (current \in generations => current \subseteq files)
  BY <1>1 DEF Progress, CurrentIsWritten
<1>5. CheckpointHolds'
  BY <1>1, <1>2, <1>4, CheckpointKeeps DEF Kept
<1>6. BatchHolds'
  BY <1>1, <1>2, BatchKeeps DEF Landing, Pending
<1>7. Progress' /\ CurrentIsWritten'
  BY <1>1, <1>4 DEF Progress, CurrentIsWritten
<1> QED BY <1>3, <1>5, <1>6, <1>7

\* When the checkpoint is saved, all that was on its way has arrived.
LEMMA SaveKeeps == ASSUME IInv, Save PROVE IInv'
<1> USE DEF IInv
<1>1. /\ pc = "save" /\ pc' = "idle" /\ batch' = NoBatch
      /\ checkpoint' = [uidls |-> checkpoint.uidls \cup batch.uidls, ids |-> batch.ids]
      /\ UNCHANGED <<letter, mailbox, todo, wiki, faults>>
  BY DEF Save, server, NextCheckpoint
<1>2. batch.messages = <<>> /\ files \in generations /\ current = files
  BY <1>1 DEF Progress
<1>3. checkpoint' \in HiworksMailCheckpoint
  BY <1>1 DEF TypeOK, HiworksMailCheckpoint, HiworksMailBatch
<1>4. TypeOK'
  BY <1>1, <1>3, NoBatchTyped DEF TypeOK, wiki
<1>5. ASSUME NEW v, Landing(v) PROVE Kept(v)'
  <2>1. ~Pending(v)
    BY <1>2 DEF Pending
  <2> QED BY <1>1, <1>2, <1>5, <2>1 DEF Landing, Kept, wiki
<1>6. \A v : Kept(v) => Kept(v)'
  BY <1>1, SameKept
<1>7. CheckpointHolds'
  <2>1. checkpoint'.uidls \subseteq DOMAIN letter'
    BY <1>1 DEF CheckpointHolds, BatchHolds
  <2>2. ASSUME NEW u \in checkpoint'.uidls
        PROVE  \E v \in DOMAIN letter' : Kept(v)' /\ StandsFor(v, u)'
    <3>1. CASE u \in checkpoint.uidls
      BY <1>1, <1>6, <3>1 DEF CheckpointHolds, StandsFor
    <3>2. CASE u \in batch.uidls
      BY <1>1, <1>5, <3>2 DEF BatchHolds, StandsFor
    <3> QED BY <1>1, <2>2, <3>1, <3>2
  <2>3. ASSUME NEW i \in checkpoint'.ids
        PROVE  \E v \in DOMAIN letter' : Kept(v)' /\ letter'[v].id = i
    BY <1>1, <1>5, <2>3 DEF BatchHolds
  <2> QED BY <2>1, <2>2, <2>3 DEF CheckpointHolds
<1>8. BatchHolds'
  BY <1>1 DEF BatchHolds, NoBatch
<1>9. Progress' /\ CurrentIsWritten'
  BY <1>1 DEF Progress, CurrentIsWritten, wiki
<1> QED BY <1>4, <1>7, <1>8, <1>9

\* The invariant is inductive: every step of the specification keeps it.
LEMMA Inductive == ASSUME IInv, [Next]_vars PROVE IInv'
<1>1. CASE Command
  BY <1>1, CollectKeeps, UnreadableKeeps, CloseKeeps, LongHeaderKeeps, DuplicateKeeps,
     MessageKeeps, WriteFileKeeps, WritePageKeeps, ListFilesKeeps, PublishStagingKeeps,
     WriteCurrentKeeps, SaveKeeps DEF Command
<1>2. CASE Fail
  BY <1>2, FailKeeps
<1>3. CASE Deliver
  BY <1>3, DeliverKeeps
<1>4. CASE \E u \in Mail : Remove(u)
  BY <1>4, RemoveKeeps
<1>5. CASE UNCHANGED vars
  <2>1. UNCHANGED <<letter, mailbox, pc, todo, batch, wiki, checkpoint, faults>>
    BY <1>5 DEF vars, server
  <2> QED BY <2>1 DEF IInv, TypeOK, CheckpointHolds, BatchHolds, Progress, CurrentIsWritten,
       StandsFor, Kept, Landing, Pending, wiki
<1> QED BY <1>1, <1>2, <1>3, <1>4, <1>5 DEF Next

\* The invariant holds in every reachable state.
THEOREM Invariance == Spec => []IInv
<1>1. Init => IInv
  BY Initial
<1>2. IInv /\ [Next]_vars => IInv'
  BY Inductive
<1> QED BY <1>1, <1>2, PTL DEF Spec

-----------------------------------------------------------------------------
(* What it is for.                                                            *)

\* Every variable keeps its type: the mails, the batch and the checkpoint of the
\* collection (HiworksMailBatch and HiworksMailCheckpoint).
THEOREM TypeCorrect == Spec => []TypeOK
<1>1. IInv => TypeOK
  BY DEF IInv
<1> QED BY <1>1, Invariance, PTL

\* A mail that the saved checkpoint covers, and that is therefore never read
\* again, is in the Wiki with its metadata and its page, or is the copy of one
\* that is: however many mails there are, whatever batch was cut off and
\* whatever was deleted from the mailbox (collect, publish_mail_messages).
THEOREM CoveredIsKept == Spec => []NothingLost
<1>1. IInv => NothingLost
  BY DEF IInv, CheckpointHolds, StandsFor, NothingLost
<1> QED BY <1>1, Invariance, PTL
=============================================================================
