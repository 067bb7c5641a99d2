--------------------------- MODULE MailCollection ---------------------------
(* From the mailbox to the Wiki: HiworksIncrementalMailReader.collect reads   *)
(* the mails it has not seen (adapters/hiworks_mail.py), a command publishes  *)
(* them (publish_mail_messages of knowledge/projection.py) and then saves the *)
(* checkpoint of the batch.  That command is not in the repository: its order *)
(* is what data-contract.md asks of it (a checkpoint moves after its output). *)
(*                                                                            *)
(* Other mail programs deliver to the mailbox and delete from it meanwhile.   *)
(* The UIDL of a mail is the number of its delivery and a Message-ID a member *)
(* of Id; the POP3 numbers of a session follow the order of delivery.         *)
EXTENDS Naturals, Sequences, FiniteSets

CONSTANTS
  MaxMails,    \* bound on the mails delivered
  Id,          \* Message-IDs
  Letters,     \* what the mails of an instance may be, among Letter
  MaxMessages, \* max_messages of the reader
  MaxFaults,   \* bound on the commands that end half-way
  None

Mail == 1 .. MaxMails

\* How a mail reads: its Message-ID; whether TOP answers with a header that is
\* too long or that cannot be parsed; whether RETR answers with a body to keep,
\* with another mail, or the body is not kept, as the mail is older than T0, too
\* large by LIST or when read, or its MIME parts cannot be parsed.
Letter == [id   : Id \cup {None},
           head : {"short", "long", "unreadable"},
           body : {"kept", "isolated", "other"}]

ASSUME MailAssumption ==
  /\ Letters \subseteq Letter
  /\ MaxMails \in Nat /\ MaxMessages \in Nat \ {0} /\ MaxFaults \in Nat
  /\ None \notin Id

VARIABLES
  letter,      \* the letters delivered: mail u is letter[u]
  mailbox,     \* the mails of the server
  pc,          \* where the command is
  todo,        \* the candidates it still has to read
  batch,       \* what it read: UIDLs processed, Message-IDs known, messages to publish
  files,       \* the mails with a metadata file in the Wiki
  pages,       \* the mails with a page in the Wiki
  generations, \* the catalogs with a complete directory
  current,     \* the catalog CURRENT names, or None
  checkpoint,  \* the saved UIDLs and Message-IDs
  faults

server == <<letter, mailbox>>
wiki   == <<files, pages, generations, current>>
vars   == <<server, pc, todo, batch, wiki, checkpoint, faults>>

HiworksMailCheckpoint == [uidls : SUBSET Mail, ids : SUBSET Id]
HiworksMailBatch ==
  [uidls : SUBSET Mail, ids : SUBSET Id, messages : Seq(Mail)]
NoBatch == [uidls |-> {}, ids |-> {}, messages |-> <<>>]

TypeOK ==
  /\ letter \in Seq(Letters) /\ Len(letter) <= MaxMails
  /\ mailbox \subseteq DOMAIN letter
  /\ pc \in {"idle", "read", "file", "page", "stage", "current", "save"}
  /\ todo \subseteq Mail /\ batch \in HiworksMailBatch
  /\ files \subseteq Mail /\ pages \subseteq Mail
  /\ generations \subseteq SUBSET Mail
  /\ current \in (SUBSET Mail) \cup {None}
  /\ checkpoint \in HiworksMailCheckpoint
  /\ faults \in 0 .. MaxFaults

Init ==
  /\ letter = <<>> /\ mailbox = {}
  /\ pc = "idle" /\ todo = {} /\ batch = NoBatch
  /\ files = {} /\ pages = {} /\ generations = {} /\ current = None
  /\ checkpoint = [uidls |-> {}, ids |-> {}] /\ faults = 0

InBox(u) == u \in mailbox

-----------------------------------------------------------------------------
(* The mailbox.                                                               *)

Deliver ==
  /\ Len(letter) < MaxMails
  /\ \E l \in Letters : letter' = Append(letter, l)
  /\ mailbox' = mailbox \cup {Len(letter) + 1}
  /\ UNCHANGED <<pc, todo, batch, wiki, checkpoint, faults>>

Remove(u) ==
  /\ InBox(u)
  /\ mailbox' = mailbox \ {u}
  /\ UNCHANGED <<letter, pc, todo, batch, wiki, checkpoint, faults>>

-----------------------------------------------------------------------------
(* collect: UIDL and LIST, then TOP and RETR of one candidate after another.  *)

\* Mutants: the first mails are taken whether they were seen or not; a mail
\* without a Message-ID is remembered like any other.
Every                == mailbox
RememberedAlways(u)  == batch.ids \cup {letter[u].id}

Unseen == mailbox \ checkpoint.uidls

\* The first MaxMessages of them.
Candidates == {u \in Unseen : Cardinality({v \in Unseen : v <= u}) <= MaxMessages}

Collect ==
  /\ pc = "idle" /\ pc' = "read"
  /\ todo' = Candidates
  /\ batch' = [NoBatch EXCEPT !.ids = checkpoint.ids]
  /\ UNCHANGED <<server, wiki, checkpoint, faults>>

\* The candidate is processed; a message is one to publish, a duplicate none.
Process(u, ids, messages) ==
  /\ todo' = todo \ {u}
  /\ batch' = [uidls |-> batch.uidls \cup {u}, ids |-> ids,
               messages |-> batch.messages \o messages]
  /\ UNCHANGED <<server, pc, wiki, checkpoint, faults>>

\* The candidate of the lowest number.
First(u)   == u \in todo /\ \A v \in todo : u <= v
Reading(u) == pc = "read" /\ First(u) /\ InBox(u)

Known(u)      == letter[u].id # None /\ letter[u].id \in batch.ids
Remembered(u) == batch.ids \cup ({letter[u].id} \ {None})

\* RETR answers with another mail than TOP did.
OtherMail(u) ==
  letter[u].head = "short" /\ letter[u].body = "other" /\ letter[u].id # None

LongHeader(u) ==
  /\ Reading(u) /\ letter[u].head = "long"
  /\ Process(u, batch.ids, <<u>>)

Duplicate(u) ==
  /\ Reading(u) /\ letter[u].head = "short" /\ Known(u)
  /\ Process(u, batch.ids, <<>>)

\* The mail with its body, or its header alone when the mail is isolated.
Message(u) ==
  /\ Reading(u) /\ letter[u].head = "short" /\ ~Known(u) /\ ~OtherMail(u)
  /\ Process(u, Remembered(u), <<u>>)

\* The command ends without a checkpoint; what is in the Wiki stays there.
Abort ==
  /\ pc' = "idle" /\ todo' = {} /\ batch' = NoBatch
  /\ UNCHANGED <<server, wiki, checkpoint>>

\* What ends the whole batch: a header that cannot be parsed, another mail in
\* the answer of RETR, a candidate that is no longer there.
Unreadable ==
  /\ pc = "read"
  /\ \E u \in todo :
       /\ First(u)
       /\ ~InBox(u) \/ letter[u].head = "unreadable" \/ (OtherMail(u) /\ ~Known(u))
  /\ Abort /\ UNCHANGED faults

Close ==
  /\ pc = "read" /\ todo = {} /\ pc' = "file"
  /\ UNCHANGED <<server, todo, batch, wiki, checkpoint, faults>>

\* The connection is lost, a file cannot be written or the process dies.
Fail ==
  /\ pc # "idle"
  /\ faults < MaxFaults /\ faults' = faults + 1
  /\ Abort

-----------------------------------------------------------------------------
(* publish_mail_messages, and the checkpoint after it.                        *)

\* A mutant: the catalog lists the mails of the batch alone.
BatchAlone == files \cap batch.uidls

Catalog == files

WriteFile ==
  /\ pc = "file" /\ batch.messages # <<>> /\ pc' = "page"
  /\ files' = files \cup {Head(batch.messages)}
  /\ UNCHANGED <<server, todo, batch, pages, generations, current, checkpoint, faults>>

WritePage ==
  /\ pc = "page" /\ pc' = "file"
  /\ pages' = pages \cup {Head(batch.messages)}
  /\ batch' = [batch EXCEPT !.messages = Tail(@)]
  /\ UNCHANGED <<server, todo, files, generations, current, checkpoint, faults>>

ListFiles ==
  /\ pc = "file" /\ batch.messages = <<>>
  /\ pc' = IF Catalog \in generations THEN "current" ELSE "stage"
  /\ UNCHANGED <<server, todo, batch, wiki, checkpoint, faults>>

PublishStaging ==
  /\ pc = "stage" /\ pc' = "current"
  /\ generations' = generations \cup {Catalog}
  /\ UNCHANGED <<server, todo, batch, files, pages, current, checkpoint, faults>>

WriteCurrent ==
  /\ pc = "current" /\ pc' = "save"
  /\ current' = Catalog
  /\ UNCHANGED <<server, todo, batch, files, pages, generations, checkpoint, faults>>

NextCheckpoint == [uidls |-> checkpoint.uidls \cup batch.uidls, ids |-> batch.ids]

Save ==
  /\ pc = "save" /\ pc' = "idle"
  /\ checkpoint' = NextCheckpoint
  /\ batch' = NoBatch
  /\ UNCHANGED <<server, todo, wiki, faults>>

-----------------------------------------------------------------------------

Command ==
  \/ Collect \/ Unreadable \/ Close
  \/ \E u \in Mail : LongHeader(u) \/ Duplicate(u) \/ Message(u)
  \/ WriteFile \/ WritePage \/ ListFiles \/ PublishStaging \/ WriteCurrent \/ Save

Next == Command \/ Fail \/ Deliver \/ \E u \in Mail : Remove(u)

Spec == Init /\ [][Next]_vars

\* Commands are sent again and again, and a command that runs goes on.
FairSpec == Spec /\ WF_vars(Command)

-----------------------------------------------------------------------------

\* A mail that is in the Wiki for a reader who starts at CURRENT: in a catalog
\* with a complete directory, with its metadata and its page.
Kept(u) ==
  /\ current \in generations /\ u \in current
  /\ u \in files /\ u \in pages

\* A mail the checkpoint covers is never read again, so it must be in the Wiki
\* by then, or be the copy of one with the same Message-ID that is: whatever
\* batch a failure or a crash interrupted, and whatever was deleted from the
\* mailbox before the next one (collect, publish_mail_messages).
NothingLost ==
  \A u \in checkpoint.uidls :
    \/ Kept(u)
    \/ letter[u].id # None
       /\ \E v \in DOMAIN letter : Kept(v) /\ letter[v].id = letter[u].id

\* A mail that ends every batch it is read in.
EndsBatch(v) == letter[v].head = "unreadable" \/ OtherMail(v)

\* However many mails wait and however few a batch may take, a mail that stays
\* in the mailbox is processed, or there is a mail that ends every batch (the
\* selection of the candidates in collect).
MailIsProcessed ==
  \A u \in Mail :
    InBox(u) ~> \/ u \in checkpoint.uidls \/ ~InBox(u)
               \/ \E v \in DOMAIN letter : InBox(v) /\ EndsBatch(v)

=============================================================================
