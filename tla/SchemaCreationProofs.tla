------------------------ MODULE SchemaCreationProofs ------------------------
(* The rows, threads, answers and requests of SchemaCreation fit together in  *)
(* every reachable state (IInv), so its answers are true, its request is sent *)
(* and its database adopted only with authority, and it implements            *)
(* SingleCreation.                                                            *)
EXTENDS SchemaCreation, TLAPS

-----------------------------------------------------------------------------
(* The inductive invariant.                                                   *)

\* Where a thread holds the lease of the target; and what its message asked for.
Leased     == {"preview", "issue", "begin", "recheck", "attempt", "post", "await", "record",
               "verify", "finalize", "unknown", "look", "adopt", "register", "release"}
Creating   == {"recheck", "attempt", "post", "await", "record", "verify", "finalize", "unknown"}
Approving  == {"preview", "issue", "begin"} \cup Creating
Recovering == {"authority", "sign", "look", "adopt", "register"}
Ending     == {"release", "complete", "answer"}
Commanded  == {"dispatch", "lease"} \cup Approving \cup Recovering \cup Ending

\* The statuses whose apply has begun: the receipt is spent, the journal exists.
Begun   == {"APPLYING", "UNKNOWN", "COMMITTED", "FAILED"}
Running == {"APPLYING", "UNKNOWN"}

\* The rows of a proposal and what its requests have done: one request, counted
\* in the journal before it is sent, makes at most one database.
RowsOf(p) ==
  /\ status[p] \in {"none", "PENDING", "REJECTED", "EXPIRED"} => receipt[p] = None
  /\ status[p] \in {"APPROVED"} \cup Begun => receipt[p] # None
  /\ journal[p] # None <=> status[p] \in Begun
  /\ posts[p] \in 0 .. 1
  /\ posts[p] = 1 => journal[p] # None /\ journal[p].attempts = 1
  /\ posts[p] = 0 => made[p] = {} /\ p \notin inflight
  /\ p \in inflight => made[p] = {}
  /\ \A d, e \in made[p] : d = e
  /\ status[p] = "FAILED" => made[p] = {} /\ p \notin inflight
  /\ status[p] = "COMMITTED" => made[p] # {}

\* The message a thread carries out is its own.
MessageOf(p) ==
  pc[p] \in Commanded =>
    /\ Message(p) \in Update /\ claim[Message(p)] # None
    /\ claim[Message(p)].proposal = p /\ claim[Message(p)].answer = None
    /\ status[p] # "none"
    /\ pc[p] \in Approving => claim[Message(p)].command = "approve"
    /\ pc[p] \in Recovering => claim[Message(p)].command = "recover"
    /\ pc[p] = "lease" => claim[Message(p)].command # "reject"

\* What an approving thread knows at each step.
ApprovalOf(p) ==
  /\ pc[p] = "lease" /\ claim[Message(p)].command = "approve"
       => status[p] \in {"PENDING", "APPROVED"}
  /\ pc[p] \in {"preview", "issue"} => status[p] \in {"PENDING", "APPROVED"}
  /\ pc[p] = "begin" => status[p] = "APPROVED" /\ ItsReceipt(p)
  /\ pc[p] \in Creating => status[p] = "APPLYING" /\ ItsReceipt(p) /\ receipt[p].secret = secret
  /\ pc[p] \in {"recheck", "attempt", "post"} => posts[p] = 0
  /\ pc[p] \in {"recheck", "attempt"} => journal[p].attempts = 0
  /\ pc[p] = "post" => journal[p].attempts = 1
  /\ pc[p] \in {"await", "record", "verify", "finalize", "unknown"} => posts[p] = 1
  /\ pc[p] = "await" => p \in inflight \/ made[p] # {}
  /\ pc[p] \in {"record", "verify", "finalize"} => job[p].database \in made[p]
  /\ pc[p] \in {"verify", "finalize"} => journal[p].database = job[p].database

\* What a recovering thread knows at each step.
RecoveryOf(p) ==
  /\ pc[p] = "lease" /\ claim[Message(p)].command = "recover" => status[p] \in Running
  /\ pc[p] \in {"look", "adopt", "register"} => status[p] \in Running
  /\ pc[p] \in {"authority", "sign"} => status[p] = "UNKNOWN"
  /\ \/ pc[p] \in {"look", "adopt", "register"}
     \/ pc[p] = "lease" /\ claim[Message(p)].command = "recover"
     => job[p].signed \/ receipt[p].secret = secret
  /\ pc[p] = "sign" => recovery[Message(p)] # None
  /\ pc[p] \in Commanded /\ job[p].signed
       => recovery[Message(p)] # None /\ recovery[Message(p)].receipt # None
  /\ pc[p] \in {"adopt", "register"} => job[p].database \in made[p]
  /\ pc[p] = "register" => \/ journal[p].database = job[p].database
                           \/ job[p].signed /\ journal[p].database = None

\* An answer to message u of proposal p is true.
True(p, u, a) ==
  /\ u \in postedBy /\ a \in {"denied", "rejected", "failed"} => made[p] = {} /\ p \notin inflight
  /\ a = "committed" => installed # None /\ installed.proposal = p
  /\ a = "failed" => status[p] = "FAILED"

AnswerOf(p) ==
  pc[p] \in Ending => job[p].answer \in Answer /\ True(p, Message(p), job[p].answer)

\* The messages kept for a proposal: their answers, and that the one that sent a
\* request is the one that was approved.
InboxOf(p) ==
  /\ receipt[p] # None
       => claim[receipt[p].update] # None /\ claim[receipt[p].update].proposal = p
  /\ \A u \in Update : claim[u] # None /\ claim[u].proposal = p =>
       /\ status[p] # "none"
       /\ True(p, u, claim[u].answer)
       /\ recovery[u] # None => claim[u].command = "recover" /\ True(p, u, recovery[u].answer)
       /\ u \in postedBy =>
            /\ claim[u].command = "approve"
            /\ receipt[p] # None /\ receipt[p].update = u /\ posts[p] = 1

Own(p) == RowsOf(p) /\ MessageOf(p) /\ ApprovalOf(p) /\ RecoveryOf(p) /\ AnswerOf(p) /\ InboxOf(p)
Owns   == \A p \in Proposal : Own(p)

\* One thread holds the lease, and only while the gateway runs.
Holding ==
  /\ \A p \in Proposal : pc[p] \in Leased => lease # None /\ lease.proposal = p /\ lease.alive
  /\ ~up => \A p \in Proposal : pc[p] = "idle"

\* There is one active proposal, and none while a plan is made or once the
\* database is registered.
Alone ==
  /\ \A p, q \in Proposal : status[p] \in Active /\ status[q] \in Active => p = q
  /\ \A p \in Proposal : pc[p] \in Planning =>
       /\ status[p] = "none" /\ installed = None
       /\ \A q \in Proposal : status[q] \notin Active /\ (pc[q] \in Planning => q = p)
  /\ installed # None => \A p \in Proposal : status[p] \notin Active
  /\ \A p \in Proposal : status[p] = "COMMITTED" => installed # None /\ installed.proposal = p

\* A database that carries the marker of a proposal was made by its request.
Marked == \A d \in Database : child[d] # None /\ child[d].marker # None
                                => d \in made[child[d].marker]

\* A message that claimed a recovery or sent a request is kept.
Kept == \A u \in Update : recovery[u] # None \/ u \in postedBy => claim[u] # None

IInv == TypeOK /\ Owns /\ Holding /\ Alone /\ Marked /\ Kept

USE SchemaAssumption

-----------------------------------------------------------------------------
(* What a step of one proposal leaves alone.                                  *)

\* The rows, thread and requests of the other proposals, and their messages.
OthersKept(p) ==
  \A q \in Proposal \ {p} :
    /\ status'[q] = status[q] /\ receipt'[q] = receipt[q] /\ journal'[q] = journal[q]
    /\ pc'[q] = pc[q] /\ job'[q] = job[q]
    /\ posts'[q] = posts[q] /\ made'[q] = made[q] /\ (q \in inflight' <=> q \in inflight)

SameMessage(u) ==
  /\ claim'[u] # None /\ claim'[u].proposal = claim[u].proposal
  /\ claim'[u].command = claim[u].command /\ claim'[u].answer = claim[u].answer
  /\ recovery'[u] = recovery[u]
  /\ u \in postedBy' <=> u \in postedBy

MessagesKept(p) ==
  \A u \in Update :
    /\ claim[u] # None /\ claim[u].proposal # p => SameMessage(u)
    /\ claim'[u] # None /\ claim'[u].proposal # p => claim[u] # None /\ claim[u].proposal # p

Frame(p) ==
  /\ OthersKept(p) /\ MessagesKept(p)
  /\ secret' = secret
  /\ installed # None => installed' = installed

(* A step of p that leaves the other threads' rows alone keeps what the
   invariant says of every other proposal. *)
LEMMA OthersOwn ==
  ASSUME IInv, NEW p \in Proposal, Frame(p), NEW q \in Proposal \ {p}
  PROVE  Own(q)'
<1> USE DEF IInv, Owns, Own
<1>1. /\ status'[q] = status[q] /\ receipt'[q] = receipt[q] /\ journal'[q] = journal[q]
      /\ pc'[q] = pc[q] /\ job'[q] = job[q] /\ secret' = secret
      /\ posts'[q] = posts[q] /\ made'[q] = made[q] /\ (q \in inflight' <=> q \in inflight)
  BY DEF Frame, OthersKept
<1>2. \A u \in Update : claim[u] # None /\ claim[u].proposal = q => SameMessage(u)
  BY DEF Frame, MessagesKept
<1>3. ASSUME NEW u \in Update, claim[u] # None, claim[u].proposal = q,
             NEW a, True(q, u, a)
      PROVE  True(q, u, a)'
  BY <1>1, <1>2, <1>3 DEF True, SameMessage, Frame
<1>4. RowsOf(q)'
  BY <1>1 DEF RowsOf
<1>5. pc[q] \in Commanded => SameMessage(Message(q)) /\ Message(q)' = Message(q)
  BY <1>1, <1>2 DEF MessageOf, Message
<1>6. MessageOf(q)'
  BY <1>1, <1>5 DEF MessageOf, SameMessage, Message
<1>7. ApprovalOf(q)'
  BY <1>1, <1>5 DEF ApprovalOf, SameMessage, Message, ItsReceipt, Commanded, Approving, Creating
<1>8. RecoveryOf(q)'
  BY <1>1, <1>5 DEF RecoveryOf, SameMessage, Message, Commanded, Recovering
<1>9. AnswerOf(q)'
  <2> SUFFICES ASSUME pc[q] \in Ending
               PROVE  job[q].answer \in Answer /\ True(q, Message(q), job[q].answer)'
    BY <1>1 DEF AnswerOf, Message
  <2>1. pc[q] \in Commanded
    BY DEF Commanded
  <2>2. Message(q) \in Update /\ claim[Message(q)] # None /\ claim[Message(q)].proposal = q
    BY <2>1 DEF MessageOf
  <2>3. True(q, Message(q), job[q].answer) /\ job[q].answer \in Answer
    BY DEF AnswerOf
  <2> QED BY <1>1, <1>3, <2>2, <2>3 DEF Message
<1>10. InboxOf(q)'
  <2>1. receipt[q] # None => receipt[q].update \in Update
    BY DEF TypeOK, Receipt
  <2>2. receipt'[q] # None
          => claim'[receipt'[q].update] # None /\ claim'[receipt'[q].update].proposal = q
    BY <1>1, <1>2, <2>1 DEF InboxOf, SameMessage
  <2>3. ASSUME NEW u \in Update, claim'[u] # None, claim'[u].proposal = q
        PROVE  claim[u] # None /\ claim[u].proposal = q /\ SameMessage(u)
    BY <1>2, <2>3 DEF Frame, MessagesKept, SameMessage
  <2>4. ASSUME NEW u \in Update, claim'[u] # None, claim'[u].proposal = q
        PROVE  /\ status'[q] # "none"
               /\ True(q, u, claim[u].answer)'
               /\ recovery'[u] # None => claim'[u].command = "recover"
               /\ recovery'[u] # None => True(q, u, recovery[u].answer)'
               /\ u \in postedBy' =>
                    /\ claim'[u].command = "approve"
                    /\ receipt'[q] # None /\ receipt'[q].update = u /\ posts'[q] = 1
    <3>1. claim[u] # None /\ claim[u].proposal = q /\ SameMessage(u)
      BY <2>3, <2>4
    <3>2. True(q, u, claim[u].answer)'
      <4>1. True(q, u, claim[u].answer) /\ claim'[u].answer = claim[u].answer
        BY <3>1 DEF InboxOf, SameMessage
      <4> QED BY <4>1, <3>1, <1>1 DEF True, SameMessage, Frame
    <3>3. recovery'[u] # None => True(q, u, recovery[u].answer)'
      <4>1. recovery[u] # None => True(q, u, recovery[u].answer)
        BY <3>1 DEF InboxOf
      <4> QED BY <4>1, <3>1, <1>1 DEF True, SameMessage, Frame
    <3> QED BY <1>1, <3>1, <3>2, <3>3 DEF InboxOf, SameMessage
  <2> QED BY <2>2, <2>4 DEF InboxOf
<1> QED BY <1>4, <1>6, <1>7, <1>8, <1>9, <1>10

\* A step of p keeps the invariant when it keeps what is said of p.
LEMMA Framed ==
  ASSUME IInv, NEW p \in Proposal, Frame(p),
         TypeOK', Own(p)', Holding', Alone', Marked', Kept'
  PROVE  IInv'
  BY OthersOwn DEF IInv, Owns

\* A step that moves the thread and changes nothing else of the state.
LEMMA Moved ==
  ASSUME IInv, NEW p \in Proposal, up, NEW l \in Label, Goto(p, l),
         job' \in [Proposal -> Job], \A q \in Proposal \ {p} : job'[q] = job[q],
         faults' \in [Kind -> Nat],
         UNCHANGED <<rows, claim, lease, process, live, child, inflight, history>>,
         l \in Leased => pc[p] \in Leased, l \notin Planning,
         MessageOf(p)', ApprovalOf(p)', RecoveryOf(p)', AnswerOf(p)'
  PROVE  IInv'
<1> USE DEF IInv, Owns, Own, rows, process, history
<1>1. pc' \in [Proposal -> Label] /\ pc'[p] = l /\ \A q \in Proposal \ {p} : pc'[q] = pc[q]
  BY DEF Goto, TypeOK
<1>2. TypeOK'
  BY <1>1 DEF TypeOK
<1>3. Frame(p)
  BY <1>1 DEF Frame, OthersKept, MessagesKept, SameMessage
<1>4. RowsOf(p)' /\ InboxOf(p)'
  BY DEF RowsOf, InboxOf, True
<1>5. Holding'
  BY <1>1 DEF Holding
<1>6. Alone'
  BY <1>1 DEF Alone
<1>7. Marked' /\ Kept'
  BY DEF Marked, Kept
<1> HIDE DEF IInv, Own, Owns
<1>8. Own(p)'
  BY <1>4 DEF Own
<1> QED BY <1>2, <1>3, <1>5, <1>6, <1>7, <1>8, Framed

-----------------------------------------------------------------------------
(* The updates that the actions share.                                        *)

LEMMA Facts ==
  ASSUME IInv, NEW p \in Proposal
  PROVE  /\ TypeOK /\ Holding /\ Alone /\ Marked /\ Kept
         /\ RowsOf(p) /\ MessageOf(p) /\ ApprovalOf(p) /\ RecoveryOf(p) /\ AnswerOf(p)
         /\ InboxOf(p)
  BY DEF IInv, Owns, Own

\* An answer is written into the job.
LEMMA JobAnswer ==
  ASSUME TypeOK, NEW p \in Proposal, NEW a \in Answer \cup {None},
         job' = [job EXCEPT ![p].answer = a]
  PROVE  /\ job' \in [Proposal -> Job] /\ \A q \in Proposal \ {p} : job'[q] = job[q]
         /\ job'[p].answer = a /\ job'[p].update = job[p].update
         /\ job'[p].database = job[p].database /\ job'[p].signed = job[p].signed
<1>1. job \in [Proposal -> Job] /\ job[p] \in Job
  BY DEF TypeOK
<1>2. [job[p] EXCEPT !.answer = a] \in Job
  BY <1>1 DEF Job
<1>3. job' = [job EXCEPT ![p] = [job[p] EXCEPT !.answer = a]]
  OBVIOUS
<1>4. job'[p] = [job[p] EXCEPT !.answer = a]
  BY <1>1, <1>3
<1>5. /\ job'[p].answer = a /\ job'[p].update = job[p].update
      /\ job'[p].database = job[p].database /\ job'[p].signed = job[p].signed
  BY <1>1, <1>4 DEF Job
<1> QED BY <1>1, <1>2, <1>3, <1>5

\* The database that was found is written into the job.
LEMMA JobDatabase ==
  ASSUME TypeOK, NEW p \in Proposal, NEW d \in Database,
         job' = [job EXCEPT ![p].database = d]
  PROVE  /\ job' \in [Proposal -> Job] /\ \A q \in Proposal \ {p} : job'[q] = job[q]
         /\ job'[p].database = d /\ job'[p].update = job[p].update
         /\ job'[p].answer = job[p].answer /\ job'[p].signed = job[p].signed
<1>1. job \in [Proposal -> Job] /\ job[p] \in Job
  BY DEF TypeOK
<1>2. [job[p] EXCEPT !.database = d] \in Job
  BY <1>1 DEF Job
<1>3. job' = [job EXCEPT ![p] = [job[p] EXCEPT !.database = d]]
  OBVIOUS
<1>4. job'[p] = [job[p] EXCEPT !.database = d]
  BY <1>1, <1>3
<1>5. /\ job'[p].database = d /\ job'[p].update = job[p].update
      /\ job'[p].answer = job[p].answer /\ job'[p].signed = job[p].signed
  BY <1>1, <1>4 DEF Job
<1> QED BY <1>1, <1>2, <1>3, <1>5

\* The job of a message that is taken up, or of no message.
LEMMA JobOf ==
  ASSUME TypeOK, NEW p \in Proposal, NEW u \in Update
  PROVE  [IdleJob EXCEPT !.update = u] \in Job /\ IdleJob \in Job
         /\ [IdleJob EXCEPT !.update = u].update = u
         /\ [IdleJob EXCEPT !.update = u].signed = FALSE
  BY DEF Job, IdleJob

(* A thread that runs no command holds a well-formed, empty job. *)
LEMMA IdleJobType == IdleJob \in Job
  BY DEF Job, IdleJob

\* The journal is written: the row of p changes, and the messages keep all but
\* their freshness.
JournalStep(p, j) ==
  /\ journal' \in [Proposal -> Journal \cup {None}]
  /\ journal'[p] = j /\ \A q \in Proposal \ {p} : journal'[q] = journal[q]
  /\ claim' \in [Update -> Claim \cup {None}]
  /\ \A u \in Update :
       /\ claim'[u] = None <=> claim[u] = None
       /\ claim[u] # None => /\ claim'[u].proposal = claim[u].proposal
                             /\ claim'[u].command = claim[u].command
                             /\ claim'[u].answer = claim[u].answer

(* Writing one journal row keeps the journals typed and the other rows. *)
LEMMA JournalWritten ==
  ASSUME TypeOK, NEW p \in Proposal, NEW j \in Journal, WriteJournal(p, j)
  PROVE  JournalStep(p, j)
<1>1. journal \in [Proposal -> Journal \cup {None}] /\ claim \in [Update -> Claim \cup {None}]
  BY DEF TypeOK
<1>2. ASSUME NEW u \in Update
      PROVE  /\ claim'[u] \in Claim \cup {None}
             /\ claim'[u] = None <=> claim[u] = None
             /\ claim[u] # None => /\ claim'[u].proposal = claim[u].proposal
                                   /\ claim'[u].command = claim[u].command
                                   /\ claim'[u].answer = claim[u].answer
  <2>1. claim'[u] = IF claim[u] # None /\ claim[u].proposal = p
                    THEN [claim[u] EXCEPT !.fresh = FALSE] ELSE claim[u]
    BY DEF WriteJournal
  <2>2. claim[u] # None => claim[u] \in Claim
    BY <1>1
  <2>3. ASSUME claim[u] # None, claim'[u] = [claim[u] EXCEPT !.fresh = FALSE]
        PROVE  /\ claim'[u] \in Claim
               /\ claim'[u].proposal = claim[u].proposal
               /\ claim'[u].command = claim[u].command
               /\ claim'[u].answer = claim[u].answer
    BY <2>2, <2>3 DEF Claim
  <2> QED BY <1>1, <2>1, <2>2, <2>3
<1>3. claim' \in [Update -> Claim \cup {None}]
  BY <1>2 DEF WriteJournal
<1>4. /\ journal' \in [Proposal -> Journal \cup {None}]
      /\ journal'[p] = j /\ \A q \in Proposal \ {p} : journal'[q] = journal[q]
  BY <1>1 DEF WriteJournal
<1> QED BY <1>2, <1>3, <1>4 DEF JournalStep

\* The authority of a recovery message gets its answer, or a receipt.
LEMMA RecoveryAnswer ==
  ASSUME TypeOK, NEW u \in Update, recovery[u] # None, NEW a \in Answer,
         recovery' = [recovery EXCEPT ![u].answer = a]
  PROVE  /\ recovery' \in [Update -> Authority \cup {None}]
         /\ \A v \in Update \ {u} : recovery'[v] = recovery[v]
         /\ recovery'[u] # None /\ recovery'[u].answer = a
         /\ recovery'[u].prior = recovery[u].prior
         /\ recovery'[u].receipt = recovery[u].receipt
<1>1. recovery \in [Update -> Authority \cup {None}] /\ recovery[u] \in Authority
  BY DEF TypeOK
<1> DEFINE r == [recovery[u] EXCEPT !.answer = a]
<1>2. r \in Authority /\ r.answer = a /\ r.prior = recovery[u].prior
      /\ r.receipt = recovery[u].receipt
  BY <1>1 DEF Authority
<1>3. recovery' = [recovery EXCEPT ![u] = r]
  OBVIOUS
<1> HIDE DEF r
<1> QED BY <1>1, <1>2, <1>3

(* A proposal that reached an outcome nobody knows has a receipt. *)
LEMMA RecoveryReceipt ==
  ASSUME TypeOK, NEW u \in Update, recovery[u] # None, NEW g \in Grants,
         recovery' = [recovery EXCEPT ![u].receipt = g]
  PROVE  /\ recovery' \in [Update -> Authority \cup {None}]
         /\ \A v \in Update \ {u} : recovery'[v] = recovery[v]
         /\ recovery'[u] # None /\ recovery'[u].answer = recovery[u].answer
         /\ recovery'[u].prior = recovery[u].prior
         /\ recovery'[u].receipt = g /\ recovery'[u].receipt # None
<1>1. recovery \in [Update -> Authority \cup {None}] /\ recovery[u] \in Authority
  BY DEF TypeOK
<1> DEFINE r == [recovery[u] EXCEPT !.receipt = g]
<1>2. r \in Authority /\ r.answer = recovery[u].answer /\ r.prior = recovery[u].prior
      /\ r.receipt = g
  BY <1>1 DEF Authority
<1>3. recovery' = [recovery EXCEPT ![u] = r]
  OBVIOUS
<1> HIDE DEF r
<1> QED BY <1>1, <1>2, <1>3

\* The message of a thread sent no request as long as none was sent.
LEMMA Unposted ==
  ASSUME IInv, NEW p \in Proposal, pc[p] \in Commanded,
         posts[p] = 0 \/ claim[Message(p)].command # "approve"
  PROVE  Message(p) \notin postedBy
<1>1. MessageOf(p) /\ InboxOf(p)
  BY Facts
<1>2. Message(p) \in Update /\ claim[Message(p)] # None /\ claim[Message(p)].proposal = p
  BY <1>1 DEF MessageOf
<1> QED BY <1>1, <1>2 DEF InboxOf

(* Answering an active proposal with a denial keeps the invariant. *)
LEMMA Denied ==
  ASSUME IInv, NEW p \in Proposal, pc[p] \in Commanded,
         posts[p] = 0 \/ claim[Message(p)].command # "approve"
  PROVE  True(p, Message(p), "denied")
  BY Unposted DEF True

-----------------------------------------------------------------------------
(* Steps of a thread that change only where it stands.                        *)

\* The command ends.
LEMMA Ended ==
  ASSUME IInv, NEW p \in Proposal, up, NEW l \in Ending, Goto(p, l),
         pc[p] \in Commanded, l = "release" => pc[p] \in Leased,
         NEW a \in Answer, job' = [job EXCEPT ![p].answer = a],
         faults' \in [Kind -> Nat],
         UNCHANGED <<rows, claim, lease, process, live, child, inflight, history>>,
         True(p, Message(p), a)
  PROVE  IInv'
<1>1. /\ TypeOK /\ MessageOf(p) /\ RecoveryOf(p)
  BY Facts
<1>2. /\ job' \in [Proposal -> Job] /\ \A q \in Proposal \ {p} : job'[q] = job[q]
      /\ job'[p].answer = a /\ job'[p].update = job[p].update
      /\ job'[p].database = job[p].database /\ job'[p].signed = job[p].signed
  BY <1>1, JobAnswer
<1>3. pc'[p] = l /\ l \in Label /\ l \in Commanded /\ l \notin Planning /\ l \notin Approving
      /\ l \notin Recovering /\ l \notin Creating /\ l # "lease"
      /\ (l \in Leased => l = "release")
  BY <1>1 DEF Goto, TypeOK, Ending, Label, Commanded, Planning, Approving, Recovering, Creating,
              Leased
<1>4. MessageOf(p)'
  BY <1>1, <1>2, <1>3 DEF MessageOf, Message, rows
<1>5. ApprovalOf(p)'
  BY <1>3 DEF ApprovalOf, Ending
<1>6. RecoveryOf(p)'
  BY <1>1, <1>2, <1>3 DEF RecoveryOf, Ending, Message, rows
<1>7. AnswerOf(p)'
  BY <1>2 DEF AnswerOf, True, Message, rows, history
<1> QED BY <1>2, <1>3, <1>4, <1>5, <1>6, <1>7, Moved

\* The command goes on.
LEMMA Went ==
  ASSUME IInv, NEW p \in Proposal, up, NEW l \in Commanded \ Ending, Goto(p, l),
         pc[p] \in Commanded, l \in Leased => pc[p] \in Leased,
         UNCHANGED job, faults' \in [Kind -> Nat],
         UNCHANGED <<rows, claim, lease, process, live, child, inflight, history>>,
         l \in Approving => claim[Message(p)].command = "approve",
         l \in Recovering => claim[Message(p)].command = "recover",
         l = "lease" => claim[Message(p)].command # "reject",
         ApprovalOf(p)', RecoveryOf(p)'
  PROVE  IInv'
<1>1. TypeOK /\ MessageOf(p)
  BY Facts
<1>2. pc'[p] = l /\ l \in Label /\ l \notin Planning /\ l \notin Ending
  BY <1>1 DEF Goto, TypeOK, Ending, Label, Commanded, Planning, Approving, Recovering, Creating
<1>3. MessageOf(p)'
  BY <1>1, <1>2 DEF MessageOf, Message, rows
<1>4. AnswerOf(p)'
  BY <1>2 DEF AnswerOf
<1>5. job' \in [Proposal -> Job] /\ \A q \in Proposal \ {p} : job'[q] = job[q]
  BY <1>1 DEF TypeOK
<1> QED BY <1>2, <1>3, <1>4, <1>5, Moved

\* The thread is done with its message.
LEMMA Dropped ==
  ASSUME IInv, NEW p \in Proposal, up, Goto(p, "idle"),
         job' = [job EXCEPT ![p] = IdleJob] \/ job' = job, faults' \in [Kind -> Nat],
         UNCHANGED <<rows, claim, lease, process, live, child, inflight, history>>
  PROVE  IInv'
<1>1. TypeOK /\ IdleJob \in Job
  BY Facts, IdleJobType
<1>2. pc'[p] = "idle"
  BY <1>1 DEF Goto, TypeOK
<1>3. job' \in [Proposal -> Job] /\ \A q \in Proposal \ {p} : job'[q] = job[q]
  BY <1>1 DEF TypeOK
<1>4. MessageOf(p)' /\ ApprovalOf(p)' /\ RecoveryOf(p)' /\ AnswerOf(p)'
  BY <1>2 DEF MessageOf, ApprovalOf, RecoveryOf, AnswerOf, Commanded, Approving, Creating,
              Recovering, Ending
<1>5. "idle" \in Label /\ "idle" \notin Leased /\ "idle" \notin Planning
  BY DEF Label, Leased, Planning
<1> QED BY <1>2, <1>3, <1>4, <1>5, Moved

(* An approval of a settled proposal repeats what became of it. *)
LEMMA ApproveSettledKeeps ==
  ASSUME IInv, NEW p \in Proposal, ApproveSettled(p)
  PROVE  IInv'
<1>1. TypeOK /\ MessageOf(p) /\ RowsOf(p) /\ InboxOf(p) /\ Alone
  BY Facts
<1>2. up /\ pc[p] = "dispatch" /\ pc[p] \in Commanded /\ Settled(p)
  BY DEF ApproveSettled, Asks, At, Commanded
<1> DEFINE a == CASE status[p] = "COMMITTED" -> "committed"
                  [] status[p] \in {"APPLYING", "UNKNOWN"} -> "unknown"
                  [] OTHER -> "denied"
<1>3. Goto(p, "complete") /\ job' = [job EXCEPT ![p].answer = a] /\ a \in Answer
  BY DEF ApproveSettled, End, Answer
<1>4. True(p, Message(p), a)
  <2>1. CASE status[p] \in Running
    BY <2>1 DEF True, Running
  <2>2. CASE status[p] = "COMMITTED"
    BY <1>1, <2>2 DEF True, Alone
  <2>3. CASE status[p] \notin Running /\ status[p] # "COMMITTED"
    <3>1. a = "denied"
      BY <2>3 DEF Running
    <3>2. made[p] = {} /\ p \notin inflight
      BY <1>1, <2>3 DEF RowsOf, Begun, Running, TypeOK
    <3> QED BY <3>1, <3>2 DEF True
  <2> QED BY <2>1, <2>2, <2>3
<1>5. "complete" \in Ending /\ faults' \in [Kind -> Nat]
      /\ UNCHANGED <<rows, claim, lease, process, live, child, inflight, history>>
  BY <1>1 DEF ApproveSettled, Ending, world, TypeOK
<1> HIDE DEF a
<1> QED BY <1>2, <1>3, <1>4, <1>5, Ended

\* How a proposal that was not applied ends, and what its command answers then.
Dismissed == {"REJECTED", "EXPIRED"}
Closing   == {"STALE"} \cup Dismissed
Refusal   == {"denied", "rejected"}

\* A proposal that was not applied is closed, and its command ends.
LEMMA Closed ==
  ASSUME IInv, NEW p \in Proposal, up, NEW s \in Closing,
         status[p] \in {"PENDING", "APPROVED"}, status[p] = "APPROVED" => s \notin Dismissed,
         SetStatus(p, s), pc[p] \in Commanded, NEW a \in Refusal,
         End(p, a) \/ (Leave(p, a) /\ pc[p] \in Leased),
         faults' \in [Kind -> Nat],
         UNCHANGED <<approved, open, receipt, journal, recovery, installed, claim, lease,
                     process, live, child, inflight, history>>
  PROVE  IInv'
<1>1. /\ TypeOK /\ Holding /\ Alone /\ Marked /\ Kept /\ RowsOf(p) /\ MessageOf(p)
      /\ RecoveryOf(p) /\ InboxOf(p)
  BY Facts
<1>0. PICK l \in Ending : /\ Goto(p, l) /\ job' = [job EXCEPT ![p].answer = a]
                          /\ l = "release" => pc[p] \in Leased
  BY DEF End, Leave, Ending
<1>2. /\ job' \in [Proposal -> Job] /\ \A q \in Proposal \ {p} : job'[q] = job[q]
      /\ job'[p].answer = a /\ job'[p].update = job[p].update
      /\ job'[p].database = job[p].database /\ job'[p].signed = job[p].signed
  <2>1. a \in Answer \cup {None}
    BY DEF Answer, Refusal
  <2> QED BY <1>0, <1>1, <2>1, JobAnswer
<1>3. /\ pc' \in [Proposal -> Label]
      /\ pc'[p] = l /\ l \in Label /\ l \in Commanded /\ l \notin Planning /\ l \notin Approving
      /\ l \notin Recovering /\ l \notin Creating /\ l # "lease"
      /\ (l \in Leased => l = "release")
      /\ \A q \in Proposal \ {p} : pc'[q] = pc[q]
  BY <1>0, <1>1 DEF Goto, TypeOK, Ending, Label, Commanded, Planning, Approving, Recovering,
       Creating,
              Leased
<1>4. /\ status' \in [Proposal -> Status] /\ status'[p] = s
      /\ \A q \in Proposal \ {p} : status'[q] = status[q]
  BY <1>1 DEF SetStatus, TypeOK, Status, Closing, Dismissed
<1>5. posts[p] = 0 /\ made[p] = {} /\ p \notin inflight
  BY <1>1 DEF RowsOf, Begun
<1>6. TypeOK'
  BY <1>1, <1>2, <1>3, <1>4 DEF TypeOK, process, history
<1>7. Frame(p)
  BY <1>1, <1>2, <1>3, <1>4 DEF Frame, OthersKept, MessagesKept, SameMessage, process, history
<1>8. RowsOf(p)'
  BY <1>1, <1>4, <1>5 DEF RowsOf, Begun, history, Closing, Dismissed
<1>9. MessageOf(p)'
  BY <1>1, <1>2, <1>3, <1>4 DEF MessageOf, Message, Closing, Dismissed
<1>10. ApprovalOf(p)' /\ RecoveryOf(p)'
  BY <1>1, <1>2, <1>3 DEF ApprovalOf, RecoveryOf, Ending, Message
<1>11. AnswerOf(p)'
  BY <1>2, <1>5 DEF AnswerOf, True, Answer, Refusal, history
<1>12. InboxOf(p)'
  <2>1. ASSUME NEW u \in Update, NEW b, True(p, u, b)
        PROVE  True(p, u, b)'
    BY <1>5, <2>1 DEF True, history
  <2> QED BY <1>1, <1>4, <2>1 DEF InboxOf, history, Closing, Dismissed
<1>13. Holding'
  BY <1>0, <1>1, <1>3 DEF Holding, process
<1>14. Alone'
  BY <1>1, <1>3, <1>4 DEF Alone, Active, Closing, Dismissed
<1>15. Marked' /\ Kept'
  BY <1>1 DEF Marked, Kept, history
<1>16. Own(p)'
  BY <1>8, <1>9, <1>10, <1>11, <1>12 DEF Own
<1> QED BY <1>6, <1>7, <1>13, <1>14, <1>15, <1>16, Framed

\* What the command answers when the creation failed.
Negative == {"denied", "failed"}

\* The creation failed for good: no database came of it, and the command ends.
LEMMA FailedStep ==
  ASSUME IInv, NEW p \in Proposal, up, pc[p] \in Leased, pc[p] \in Commanded,
         status[p] \in Running,
         posts[p] = 0 \/ p \in inflight,
         inflight' = inflight \ {p},
         SetStatus(p, "FAILED"),
         WriteJournal(p, [journal[p] EXCEPT !.status = "failed"]),
         NEW a \in Negative, Leave(p, a),
         faults' \in [Kind -> Nat],
         UNCHANGED <<approved, open, receipt, recovery, installed, lease, process,
                     live, child, history>>
  PROVE  IInv'
<1>1. /\ TypeOK /\ Holding /\ Alone /\ Marked /\ Kept /\ RowsOf(p) /\ MessageOf(p)
      /\ RecoveryOf(p) /\ InboxOf(p)
  BY Facts
<1>2. /\ job' \in [Proposal -> Job] /\ \A q \in Proposal \ {p} : job'[q] = job[q]
      /\ job'[p].answer = a /\ job'[p].update = job[p].update
      /\ job'[p].database = job[p].database /\ job'[p].signed = job[p].signed
  <2>1. a \in Answer \cup {None} /\ job' = [job EXCEPT ![p].answer = a]
    BY DEF Answer, Leave, Negative
  <2> QED BY <1>1, <2>1, JobAnswer
<1>3. /\ pc' \in [Proposal -> Label] /\ pc'[p] = "release"
      /\ \A q \in Proposal \ {p} : pc'[q] = pc[q]
  BY <1>1 DEF Goto, Leave, TypeOK, Label
<1>4. /\ status' \in [Proposal -> Status] /\ status'[p] = "FAILED"
      /\ \A q \in Proposal \ {p} : status'[q] = status[q]
  BY <1>1 DEF SetStatus, TypeOK, Status
<1>5. /\ made[p] = {}
      /\ p \notin inflight'
      /\ \A q \in Proposal \ {p} : q \in inflight' <=> q \in inflight
  BY <1>1 DEF RowsOf
<1> DEFINE j == [journal[p] EXCEPT !.status = "failed"]
<1>6. journal[p] \in Journal /\ j \in Journal /\ j # None /\ j.attempts = journal[p].attempts
  <2>1. journal[p] \in Journal
    BY <1>1 DEF RowsOf, TypeOK, Begun, Running
  <2> QED BY <2>1 DEF Journal
<1>7. JournalStep(p, j)
  BY <1>1, <1>6, JournalWritten
<1> HIDE DEF j
<1>8. TypeOK'
  <2>1. inflight' \subseteq Proposal
    BY <1>1 DEF TypeOK
  <2> QED BY <1>1, <1>2, <1>3, <1>4, <1>7, <2>1 DEF TypeOK, JournalStep, process, history
<1>9. Frame(p)
  BY <1>1, <1>2, <1>3, <1>4, <1>5, <1>7
  DEF Frame, OthersKept, MessagesKept, SameMessage, JournalStep, process, history
<1>10. RowsOf(p)'
  BY <1>1, <1>4, <1>5, <1>6, <1>7 DEF RowsOf, Begun, Running, JournalStep, history
<1>11. MessageOf(p)'
  BY <1>1, <1>2, <1>3, <1>4, <1>7
  DEF MessageOf, Message, JournalStep, Commanded, Approving, Creating, Recovering
<1>12. ApprovalOf(p)' /\ RecoveryOf(p)'
  BY <1>1, <1>2, <1>3 DEF ApprovalOf, RecoveryOf, Creating, Message
<1>13. AnswerOf(p)'
  BY <1>2, <1>4, <1>5 DEF AnswerOf, True, Answer, Negative, history
<1>14. InboxOf(p)'
  <2>1. ASSUME NEW u \in Update, NEW b, True(p, u, b)
        PROVE  True(p, u, b)'
    BY <1>4, <1>5, <2>1 DEF True, history
  <2>2. receipt[p] # None => receipt[p].update \in Update
    BY <1>1 DEF TypeOK, Receipt
  <2> QED BY <1>1, <1>4, <1>7, <2>1, <2>2 DEF InboxOf, JournalStep, history
<1>15. Holding'
  BY <1>1, <1>3 DEF Holding, process
<1>16. Alone'
  BY <1>1, <1>3, <1>4 DEF Alone, Active, Planning
<1>17. Marked' /\ Kept'
  BY <1>1, <1>7 DEF Marked, Kept, JournalStep, history
<1>18. Own(p)'
  BY <1>10, <1>11, <1>12, <1>13, <1>14 DEF Own
<1> QED BY <1>8, <1>9, <1>15, <1>16, <1>17, <1>18, Framed

\* The database that a request of p created is registered, and the command ends.
LEMMA Committed ==
  ASSUME IInv, NEW p \in Proposal, up, pc[p] \in Leased, pc[p] \in Commanded,
         status[p] \in Running,
         job[p].database \in made[p], Commit(p, job[p].database),
         recovery' \in [Update -> Authority \cup {None}],
         \A u \in Update : /\ u # Message(p) => recovery'[u] = recovery[u]
                           /\ recovery'[u] = None <=> recovery[u] = None
                           /\ recovery[u] # None => /\ recovery'[u].answer = recovery[u].answer
                                                    /\ recovery[u].receipt # None
                                                         => recovery'[u].receipt # None,
         UNCHANGED <<approved, open, receipt, journal, claim, lease, process, world, history>>
  PROVE  IInv'
<1> DEFINE d == job[p].database
<1>1. /\ TypeOK /\ Holding /\ Alone /\ Marked /\ Kept /\ RowsOf(p) /\ MessageOf(p)
      /\ RecoveryOf(p) /\ InboxOf(p)
  BY Facts
<1>2. /\ job' \in [Proposal -> Job] /\ \A q \in Proposal \ {p} : job'[q] = job[q]
      /\ job'[p].answer = "committed" /\ job'[p].update = job[p].update
      /\ job'[p].database = job[p].database /\ job'[p].signed = job[p].signed
  <2>1. "committed" \in Answer \cup {None} /\ job' = [job EXCEPT ![p].answer = "committed"]
    BY DEF Answer, Leave, Commit
  <2> QED BY <1>1, <2>1, JobAnswer
<1>3. /\ pc' \in [Proposal -> Label] /\ pc'[p] = "release"
      /\ \A q \in Proposal \ {p} : pc'[q] = pc[q]
  BY <1>1 DEF Goto, Leave, Commit, TypeOK, Label
<1>4. /\ status' \in [Proposal -> Status] /\ status'[p] = "COMMITTED"
      /\ \A q \in Proposal \ {p} : status'[q] = status[q]
  BY <1>1 DEF SetStatus, Commit, TypeOK, Status
<1>5. installed = None
  BY <1>1 DEF Alone, Active, Running
<1>6. /\ installed' # None /\ installed' \in Installation /\ installed'.proposal = p
      /\ installed'.database = d
  <2>1. d \in Database
    BY <1>1 DEF TypeOK
  <2>2. installed' = [proposal |-> p, database |-> d]
    BY DEF Commit
  <2> QED BY <2>1, <2>2 DEF Installation
<1>7. TypeOK'
  BY <1>1, <1>2, <1>3, <1>4, <1>6 DEF TypeOK, process, world, history
<1>8. Message(p) \in Update /\ claim[Message(p)].proposal = p
  BY <1>1 DEF MessageOf
<1>9. Frame(p)
  BY <1>1, <1>2, <1>3, <1>4, <1>5, <1>8
  DEF Frame, OthersKept, MessagesKept, SameMessage, process, world, history
<1>10. RowsOf(p)'
  BY <1>1, <1>4 DEF RowsOf, Begun, Running, world, history
<1>11. MessageOf(p)'
  BY <1>1, <1>2, <1>3, <1>4
  DEF MessageOf, Message, Commanded, Approving, Creating, Recovering
<1>12. ApprovalOf(p)' /\ RecoveryOf(p)'
  BY <1>1, <1>2, <1>3, <1>8 DEF ApprovalOf, RecoveryOf, Creating, Message
<1>13. AnswerOf(p)'
  BY <1>2, <1>6 DEF AnswerOf, True, Answer
<1>14. InboxOf(p)'
  <2>1. ASSUME NEW u \in Update, NEW b, True(p, u, b)
        PROVE  True(p, u, b)'
    BY <1>1, <1>6, <2>1 DEF True, Running, world, history
  <2> QED BY <1>1, <1>4, <2>1 DEF InboxOf, history
<1>15. Holding'
  BY <1>1, <1>3 DEF Holding, process
<1>16. Alone'
  <2>1. \A q \in Proposal : pc[q] \notin Planning
    BY <1>1 DEF Alone, Active, Running
  <2> QED BY <1>1, <1>3, <1>4, <1>5, <1>6, <2>1 DEF Alone, Active, Planning, Running
<1>17. Marked' /\ Kept'
  BY <1>1 DEF Marked, Kept, world, history
<1>18. Own(p)'
  BY <1>10, <1>11, <1>12, <1>13, <1>14 DEF Own
<1> QED BY <1>7, <1>9, <1>15, <1>16, <1>17, <1>18, Framed

-----------------------------------------------------------------------------
(* The actions, one after the other.                                          *)

LEMMA PlanBeginKeeps ==
  ASSUME IInv, NEW p \in Proposal, PlanBegin(p)
  PROVE  IInv'
<1>1. TypeOK /\ Holding /\ Alone /\ Marked /\ Kept /\ RowsOf(p) /\ InboxOf(p)
  BY Facts
<1>2. up /\ pc[p] = "idle" /\ status[p] = "none" /\ installed = None
      /\ \A q \in Proposal : pc[q] \notin Planning /\ status[q] \notin Active
  BY DEF PlanBegin, At
<1>3. /\ pc' \in [Proposal -> Label] /\ pc'[p] = "survey"
      /\ \A q \in Proposal \ {p} : pc'[q] = pc[q]
  BY <1>1 DEF PlanBegin, Goto, TypeOK, Label
<1>4. UNCHANGED <<rows, claim, lease, process, job, world, history>>
  BY DEF PlanBegin
<1>5. TypeOK'
  BY <1>1, <1>3, <1>4 DEF TypeOK, rows, process, world, history
<1>6. Frame(p)
  BY <1>3, <1>4 DEF Frame, OthersKept, MessagesKept, SameMessage, rows, process, world, history
<1>7. RowsOf(p)' /\ InboxOf(p)'
  BY <1>1, <1>4 DEF RowsOf, InboxOf, True, rows, world, history
<1>8. MessageOf(p)' /\ ApprovalOf(p)' /\ RecoveryOf(p)' /\ AnswerOf(p)'
  BY <1>3 DEF MessageOf, ApprovalOf, RecoveryOf, AnswerOf, Commanded, Approving, Creating,
              Recovering, Ending
<1>9. Holding'
  BY <1>1, <1>2, <1>3, <1>4 DEF Holding, Leased, process
<1>10. Alone'
  BY <1>1, <1>2, <1>3, <1>4 DEF Alone, rows
<1>11. Marked' /\ Kept'
  BY <1>1, <1>4 DEF Marked, Kept, rows, world, history
<1>12. Own(p)'
  BY <1>7, <1>8 DEF Own
<1> QED BY <1>5, <1>6, <1>9, <1>10, <1>11, <1>12, Framed

(* Reading the parent page to plan keeps the invariant. *)
LEMMA SurveyKeeps ==
  ASSUME IInv, NEW p \in Proposal, Survey(p)
  PROVE  IInv'
<1>1. TypeOK /\ Holding /\ Alone /\ Marked /\ Kept /\ RowsOf(p) /\ InboxOf(p)
  BY Facts
<1>2. up /\ pc[p] = "survey" /\ UNCHANGED <<rows, claim, lease, process, world, history>>
  BY DEF Survey, At
<1>3. CASE Relevant = {}
  <2>1. /\ pc' \in [Proposal -> Label] /\ pc'[p] = "save"
        /\ \A q \in Proposal \ {p} : pc'[q] = pc[q]
    BY <1>1, <1>3 DEF Survey, Goto, TypeOK, Label
  <2>2. job' \in [Proposal -> Job] /\ \A q \in Proposal \ {p} : job'[q] = job[q]
    <3>1. [job[p] EXCEPT !.base = live] \in Job
      <4>1. job[p] \in Job /\ live \in Base
        BY <1>1 DEF TypeOK
      <4> QED BY <4>1 DEF Job
    <3>2. job' = [job EXCEPT ![p] = [job[p] EXCEPT !.base = live]]
      BY <1>3 DEF Survey
    <3> QED BY <1>1, <3>1, <3>2 DEF TypeOK
  <2>3. TypeOK'
    BY <1>1, <1>2, <2>1, <2>2 DEF TypeOK, rows, process, world, history
  <2>4. Frame(p)
    BY <1>2, <2>1, <2>2
    DEF Frame, OthersKept, MessagesKept, SameMessage, rows, process, world, history
  <2>5. RowsOf(p)' /\ InboxOf(p)'
    BY <1>1, <1>2 DEF RowsOf, InboxOf, True, rows, world, history
  <2>6. MessageOf(p)' /\ ApprovalOf(p)' /\ RecoveryOf(p)' /\ AnswerOf(p)'
    BY <2>1 DEF MessageOf, ApprovalOf, RecoveryOf, AnswerOf, Commanded, Approving, Creating,
                Recovering, Ending
  <2>7. Holding'
    BY <1>1, <1>2, <2>1 DEF Holding, Leased, process
  <2>8. Alone'
    BY <1>1, <1>2, <2>1 DEF Alone, rows, Planning
  <2>9. Marked' /\ Kept'
    BY <1>1, <1>2 DEF Marked, Kept, rows, world, history
  <2>10. Own(p)'
    BY <2>5, <2>6 DEF Own
  <2> QED BY <2>3, <2>4, <2>7, <2>8, <2>9, <2>10, Framed
<1>4. CASE Relevant # {}
  <2>1. Goto(p, "idle") /\ job' = job /\ faults' \in [Kind -> Nat]
    BY <1>1, <1>2, <1>4 DEF Survey, TypeOK, world
  <2> QED BY <1>2, <2>1, Dropped DEF world
<1> QED BY <1>3, <1>4

(* Saving the plan keeps the invariant: the row is fresh and has no receipt. *)
LEMMA SavePlanKeeps ==
  ASSUME IInv, NEW p \in Proposal, SavePlan(p)
  PROVE  IInv'
<1>1. TypeOK /\ Holding /\ Alone /\ Marked /\ Kept /\ RowsOf(p) /\ InboxOf(p)
  BY Facts
<1>2. /\ up /\ pc[p] = "save" /\ \A q \in Proposal : status[q] \notin Active
      /\ status[p] = "none" /\ installed = None
      /\ \A q \in Proposal : pc[q] \in Planning => q = p
      /\ UNCHANGED <<open, receipt, journal, recovery, installed, claim, lease, process,
                     world, history>>
  BY <1>1 DEF SavePlan, At, Alone, Planning
<1>3. /\ pc' \in [Proposal -> Label] /\ pc'[p] = "idle"
      /\ \A q \in Proposal \ {p} : pc'[q] = pc[q]
  BY <1>1 DEF SavePlan, Goto, TypeOK, Label
<1>4. job' \in [Proposal -> Job] /\ \A q \in Proposal \ {p} : job'[q] = job[q]
  BY <1>1, IdleJobType DEF SavePlan, TypeOK
<1>5. /\ status' \in [Proposal -> Status] /\ status'[p] = "PENDING"
      /\ \A q \in Proposal \ {p} : status'[q] = status[q]
  BY <1>1 DEF SavePlan, SetStatus, TypeOK, Status
<1>6. approved' \in [Proposal -> Base \cup {None}]
  <2>1. job[p].base \in Base \cup {None}
    BY <1>1 DEF TypeOK, Job
  <2> QED BY <1>1, <2>1 DEF SavePlan, TypeOK
<1>7. TypeOK'
  BY <1>1, <1>2, <1>3, <1>4, <1>5, <1>6 DEF TypeOK, process, world, history
<1>8. Frame(p)
  BY <1>2, <1>3, <1>4, <1>5
  DEF Frame, OthersKept, MessagesKept, SameMessage, process, world, history
<1>9. RowsOf(p)'
  BY <1>1, <1>2, <1>5 DEF RowsOf, Begun, world, history
<1>10. InboxOf(p)'
  BY <1>1, <1>2, <1>5 DEF InboxOf
<1>11. MessageOf(p)' /\ ApprovalOf(p)' /\ RecoveryOf(p)' /\ AnswerOf(p)'
  BY <1>3 DEF MessageOf, ApprovalOf, RecoveryOf, AnswerOf, Commanded, Approving, Creating,
              Recovering, Ending
<1>12. Holding'
  BY <1>1, <1>2, <1>3 DEF Holding, Leased, process
<1>13. Alone'
  BY <1>1, <1>2, <1>3, <1>5 DEF Alone, Active, Planning
<1>14. Marked' /\ Kept'
  BY <1>1, <1>2 DEF Marked, Kept, world, history
<1>15. Own(p)'
  BY <1>9, <1>10, <1>11 DEF Own
<1> QED BY <1>7, <1>8, <1>12, <1>13, <1>14, <1>15, Framed

(* A message claimed before is answered from its row. *)
LEMMA RedeliverKeeps ==
  ASSUME IInv, NEW p \in Proposal, NEW u \in Update, Redeliver(p, u)
  PROVE  IInv'
<1>1. TypeOK /\ InboxOf(p)
  BY Facts
<1>2. /\ up /\ claim[u] # None /\ claim[u].proposal = p /\ claim[u].answer = None
      /\ UNCHANGED <<rows, claim, lease, process, world, history>> /\ Goto(p, "dispatch")
  BY DEF Redeliver, At
<1>3. /\ job' \in [Proposal -> Job] /\ \A q \in Proposal \ {p} : job'[q] = job[q]
      /\ job'[p].update = u /\ job'[p].signed = FALSE
  BY <1>1, JobOf DEF Redeliver, TypeOK
<1>4. pc'[p] = "dispatch" /\ "dispatch" \in Label /\ "dispatch" \notin Leased \cup Planning
  BY <1>1, <1>2 DEF Goto, TypeOK, Label, Leased, Planning
<1>5. MessageOf(p)'
  BY <1>1, <1>2, <1>3, <1>4
  DEF MessageOf, InboxOf, Message, rows, Approving, Creating, Recovering
<1>6. ApprovalOf(p)' /\ RecoveryOf(p)' /\ AnswerOf(p)'
  BY <1>3, <1>4 DEF ApprovalOf, RecoveryOf, AnswerOf, Creating, Ending
<1>7. faults' \in [Kind -> Nat]
  BY <1>1, <1>2 DEF TypeOK, world
<1> QED BY <1>2, <1>3, <1>4, <1>5, <1>6, <1>7, Moved DEF world

(* A first delivery claims the message for the proposal. *)
LEMMA DeliverKeeps ==
  ASSUME IInv, NEW p \in Proposal, NEW u \in Update, NEW c \in Command, Deliver(p, u, c)
  PROVE  IInv'
<1>1. TypeOK /\ Holding /\ Alone /\ Marked /\ Kept /\ RowsOf(p) /\ InboxOf(p)
  BY Facts
<1>2. /\ up /\ pc[p] = "idle" /\ status[p] # "none" /\ claim[u] = None
      /\ UNCHANGED <<rows, lease, process, world, history>>
  BY DEF Deliver, At
<1>3. /\ job' \in [Proposal -> Job] /\ \A q \in Proposal \ {p} : job'[q] = job[q]
      /\ job'[p].update = u /\ job'[p].signed = FALSE
  BY <1>1, JobOf DEF Deliver, TypeOK
<1>4. /\ pc' \in [Proposal -> Label] /\ pc'[p] = "dispatch"
      /\ \A q \in Proposal \ {p} : pc'[q] = pc[q]
  BY <1>1 DEF Deliver, Goto, TypeOK, Label
<1>5. /\ claim' \in [Update -> Claim \cup {None}]
      /\ claim'[u] # None /\ claim'[u].proposal = p /\ claim'[u].command = c
      /\ claim'[u].answer = None
      /\ \A v \in Update \ {u} : claim'[v] = claim[v]
  <2> DEFINE r == [proposal |-> p, command |-> c, answer |-> None, fresh |-> TRUE]
  <2>1. r \in Claim /\ r.proposal = p /\ r.command = c /\ r.answer = None
    BY DEF Claim
  <2>2. claim' = [claim EXCEPT ![u] = r]
    BY DEF Deliver
  <2> HIDE DEF r
  <2> QED BY <1>1, <2>1, <2>2 DEF TypeOK
<1>6. u \notin postedBy /\ recovery[u] = None
  BY <1>1, <1>2 DEF Kept
<1>7. TypeOK'
  BY <1>1, <1>2, <1>3, <1>4, <1>5 DEF TypeOK, rows, process, world, history
<1>8. Frame(p)
  BY <1>2, <1>3, <1>4, <1>5
  DEF Frame, OthersKept, MessagesKept, SameMessage, rows, process, world, history
<1>9. RowsOf(p)'
  BY <1>1, <1>2 DEF RowsOf, rows, world, history
<1>10. InboxOf(p)'
  <2>1. ASSUME NEW v \in Update, NEW b, True(p, v, b)
        PROVE  True(p, v, b)'
    BY <1>2, <2>1 DEF True, rows, world, history
  <2>2. True(p, u, None)'
    BY <1>2, <1>6 DEF True, history, Answer
  <2>3. receipt[p] # None => receipt[p].update \in Update
    BY <1>1 DEF TypeOK, Receipt
  <2>4. receipt'[p] # None
          => claim'[receipt'[p].update] # None /\ claim'[receipt'[p].update].proposal = p
    BY <1>1, <1>2, <1>5, <2>3 DEF InboxOf, rows
  <2>5. ASSUME NEW v \in Update \ {u}, claim'[v] # None, claim'[v].proposal = p
        PROVE  /\ status'[p] # "none"
               /\ True(p, v, claim[v].answer)'
               /\ recovery'[v] # None => claim'[v].command = "recover"
               /\ recovery'[v] # None => True(p, v, recovery[v].answer)'
               /\ v \in postedBy' =>
                    /\ claim'[v].command = "approve"
                    /\ receipt'[p] # None /\ receipt'[p].update = v /\ posts'[p] = 1
    <3>1. /\ claim'[v] = claim[v] /\ recovery'[v] = recovery[v]
          /\ claim[v] # None /\ claim[v].proposal = p
      BY <1>2, <1>5, <2>5 DEF rows
    <3>2. True(p, v, claim[v].answer) /\ (recovery[v] # None => True(p, v, recovery[v].answer))
      BY <1>1, <3>1 DEF InboxOf
    <3>3. True(p, v, claim[v].answer)'
      BY <1>2, <3>1, <3>2 DEF True, rows, world, history
    <3>4. recovery'[v] # None => True(p, v, recovery[v].answer)'
      BY <1>2, <3>1, <3>2 DEF True, rows, world, history
    <3> QED BY <1>1, <1>2, <3>1, <3>3, <3>4 DEF InboxOf, rows, history
  <2>6. /\ True(p, u, claim[u].answer)' /\ status'[p] # "none" /\ recovery'[u] = None
        /\ u \notin postedBy'
    BY <1>2, <1>5, <1>6, <2>2 DEF rows, history, True
  <2> QED BY <2>4, <2>5, <2>6 DEF InboxOf
<1>11. MessageOf(p)'
  BY <1>2, <1>3, <1>4, <1>5 DEF MessageOf, Message, rows, Approving, Creating, Recovering
<1>12. ApprovalOf(p)' /\ RecoveryOf(p)' /\ AnswerOf(p)'
  BY <1>3, <1>4 DEF ApprovalOf, RecoveryOf, AnswerOf, Creating, Ending
<1>13. Holding'
  BY <1>1, <1>2, <1>4 DEF Holding, Leased, process
<1>14. Alone'
  BY <1>1, <1>2, <1>4 DEF Alone, Planning, rows
<1>15. Marked' /\ Kept'
  BY <1>1, <1>2, <1>5 DEF Marked, Kept, rows, world, history
<1>16. Own(p)'
  BY <1>9, <1>10, <1>11, <1>12 DEF Own
<1> QED BY <1>7, <1>8, <1>13, <1>14, <1>15, <1>16, Framed

(* Completing a command records an answer that the state bears out. *)
LEMMA CompleteKeeps ==
  ASSUME IInv, NEW p \in Proposal, Complete(p)
  PROVE  IInv'
<1> DEFINE u == Message(p)
<1>1. /\ TypeOK /\ Holding /\ Alone /\ Marked /\ Kept /\ RowsOf(p) /\ MessageOf(p)
      /\ RecoveryOf(p) /\ AnswerOf(p) /\ InboxOf(p)
  BY Facts
<1>2. /\ up /\ pc[p] = "complete" /\ pc[p] \in Commanded /\ pc[p] \in Ending /\ Goto(p, "answer")
      /\ UNCHANGED <<status, approved, open, receipt, journal, installed, claim, lease,
                     process, world, history>>
  BY DEF Complete, At, Commanded, Ending
<1>3. /\ pc' \in [Proposal -> Label] /\ pc'[p] = "answer"
      /\ \A q \in Proposal \ {p} : pc'[q] = pc[q]
  BY <1>1, <1>2 DEF Goto, TypeOK, Label
<1>4. u \in Update /\ claim[u] # None /\ claim[u].proposal = p
  BY <1>1, <1>2 DEF MessageOf
<1>5. job[p].answer \in Answer /\ True(p, u, job[p].answer)
  BY <1>1, <1>2 DEF AnswerOf
<1>6. faults' \in [Kind -> Nat]
  BY <1>1, <1>2 DEF TypeOK, world
<1>7. ASSUME UNCHANGED <<recovery, job>>
      PROVE  IInv'
  <2>1. MessageOf(p)'
    BY <1>1, <1>2, <1>3, <1>7
    DEF MessageOf, Message, Commanded, Approving, Creating, Recovering
  <2>2. ApprovalOf(p)' /\ RecoveryOf(p)' /\ AnswerOf(p)'
    BY <1>1, <1>2, <1>3, <1>5, <1>7
    DEF ApprovalOf, RecoveryOf, AnswerOf, Creating, True, world, history, Message
  <2>3. /\ job' \in [Proposal -> Job] /\ \A q \in Proposal \ {p} : job'[q] = job[q]
        /\ UNCHANGED <<rows, claim, lease, process, live, child, inflight, history>>
        /\ "answer" \in Label /\ "answer" \notin Leased /\ "answer" \notin Planning
    BY <1>1, <1>2, <1>7 DEF TypeOK, rows, world, Label, Leased, Planning
  <2> QED BY <1>2, <1>6, <2>1, <2>2, <2>3, Moved
<1>8. ASSUME claim[u].command = "recover", recovery[u] # None, recovery[u].answer # None,
             job' = [job EXCEPT ![p].answer = recovery[u].answer], UNCHANGED recovery
      PROVE  IInv'
  <2>1. recovery[u].answer \in Answer
    BY <1>1, <1>4, <1>8 DEF TypeOK, Authority
  <2>2. True(p, u, recovery[u].answer)
    BY <1>1, <1>4, <1>8 DEF InboxOf
  <2>3. UNCHANGED <<rows, claim, lease, process, live, child, inflight, history>>
        /\ "answer" \in Ending
    BY <1>2, <1>8 DEF rows, world, Ending
  <2> QED BY <1>2, <1>6, <1>8, <2>1, <2>2, <2>3, Ended
<1>9. ASSUME claim[u].command = "recover", recovery[u] # None, recovery[u].answer = None,
             recovery' = [recovery EXCEPT ![u].answer = job[p].answer], UNCHANGED job
      PROVE  IInv'
  <2>1. /\ recovery' \in [Update -> Authority \cup {None}]
        /\ \A v \in Update \ {u} : recovery'[v] = recovery[v]
        /\ recovery'[u] # None /\ recovery'[u].answer = job[p].answer
        /\ recovery'[u].prior = recovery[u].prior
        /\ recovery'[u].receipt = recovery[u].receipt
    BY <1>1, <1>4, <1>5, <1>9, RecoveryAnswer
  <2>2. TypeOK'
    BY <1>1, <1>2, <1>3, <1>9, <2>1 DEF TypeOK, process, world, history
  <2>3. Frame(p)
    BY <1>2, <1>3, <1>4, <1>9, <2>1
    DEF Frame, OthersKept, MessagesKept, SameMessage, process, world, history
  <2>4. RowsOf(p)'
    BY <1>1, <1>2 DEF RowsOf, world, history
  <2>5. MessageOf(p)'
    BY <1>1, <1>2, <1>3, <1>9
    DEF MessageOf, Message, Commanded, Approving, Creating, Recovering
  <2>6. ApprovalOf(p)' /\ RecoveryOf(p)' /\ AnswerOf(p)'
    BY <1>1, <1>2, <1>3, <1>5, <1>9, <2>1
    DEF ApprovalOf, RecoveryOf, AnswerOf, Creating, True, world, history, Message
  <2>7. InboxOf(p)'
    <3>1. ASSUME NEW v \in Update, NEW b, True(p, v, b)
          PROVE  True(p, v, b)'
      BY <1>2, <3>1 DEF True, world, history
    <3> QED BY <1>1, <1>2, <1>4, <1>5, <1>9, <2>1, <3>1 DEF InboxOf, history
  <2>8. Holding'
    BY <1>1, <1>2, <1>3 DEF Holding, Leased, process
  <2>9. Alone'
    BY <1>1, <1>2, <1>3 DEF Alone, Planning
  <2>10. Marked' /\ Kept'
    BY <1>1, <1>2, <1>4, <2>1 DEF Marked, Kept, world, history
  <2>11. Own(p)'
    BY <2>4, <2>5, <2>6, <2>7 DEF Own
  <2> QED BY <2>2, <2>3, <2>8, <2>9, <2>10, <2>11, Framed
<1> QED BY <1>7, <1>8, <1>9 DEF Complete, CompleteRecovery

(* Answering the message that asked keeps the answers true. *)
LEMMA AnswerMessageKeeps ==
  ASSUME IInv, NEW p \in Proposal, AnswerMessage(p)
  PROVE  IInv'
<1> DEFINE u == Message(p)
<1>1. /\ TypeOK /\ Holding /\ Alone /\ Marked /\ Kept /\ RowsOf(p) /\ MessageOf(p)
      /\ AnswerOf(p) /\ InboxOf(p)
  BY Facts
<1>2. /\ up /\ pc[p] = "answer" /\ pc[p] \in Commanded /\ pc[p] \in Ending
      /\ UNCHANGED <<rows, lease, process, world, history>>
  BY DEF AnswerMessage, At, Commanded, Ending
<1>3. /\ pc' \in [Proposal -> Label] /\ pc'[p] = "idle"
      /\ \A q \in Proposal \ {p} : pc'[q] = pc[q]
  BY <1>1 DEF AnswerMessage, Goto, TypeOK, Label
<1>4. job' \in [Proposal -> Job] /\ \A q \in Proposal \ {p} : job'[q] = job[q]
  BY <1>1, IdleJobType DEF AnswerMessage, TypeOK
<1>5. /\ u \in Update /\ claim[u] # None /\ claim[u].proposal = p
      /\ job[p].answer \in Answer /\ True(p, u, job[p].answer)
  BY <1>1, <1>2 DEF MessageOf, AnswerOf
<1>6. /\ claim' \in [Update -> Claim \cup {None}]
      /\ claim'[u] # None /\ claim'[u].proposal = p /\ claim'[u].command = claim[u].command
      /\ claim'[u].answer = job[p].answer
      /\ \A v \in Update \ {u} : claim'[v] = claim[v]
  <2> DEFINE r == [claim[u] EXCEPT !.answer = job[p].answer]
  <2>1. claim[u] \in Claim
    BY <1>1, <1>5 DEF TypeOK
  <2>2. r \in Claim /\ r.proposal = p /\ r.command = claim[u].command /\ r.answer = job[p].answer
    BY <1>5, <2>1 DEF Claim
  <2>3. claim' = [claim EXCEPT ![u] = r]
    BY DEF AnswerMessage
  <2> HIDE DEF r
  <2> QED BY <1>1, <1>5, <2>2, <2>3 DEF TypeOK
<1>7. TypeOK'
  BY <1>1, <1>2, <1>3, <1>4, <1>6 DEF TypeOK, rows, process, world, history
<1>8. Frame(p)
  BY <1>2, <1>3, <1>4, <1>5, <1>6
  DEF Frame, OthersKept, MessagesKept, SameMessage, rows, process, world, history
<1>9. RowsOf(p)'
  BY <1>1, <1>2 DEF RowsOf, rows, world, history
<1>10. InboxOf(p)'
  <2>1. ASSUME NEW v \in Update, NEW b, True(p, v, b)
        PROVE  True(p, v, b)'
    BY <1>2, <2>1 DEF True, rows, world, history
  <2>2. receipt[p] # None => receipt[p].update \in Update
    BY <1>1 DEF TypeOK, Receipt
  <2> QED BY <1>1, <1>2, <1>5, <1>6, <2>1, <2>2 DEF InboxOf, rows, history
<1>11. MessageOf(p)' /\ ApprovalOf(p)' /\ RecoveryOf(p)' /\ AnswerOf(p)'
  BY <1>3 DEF MessageOf, ApprovalOf, RecoveryOf, AnswerOf, Commanded, Approving, Creating,
              Recovering, Ending
<1>12. Holding'
  BY <1>1, <1>2, <1>3 DEF Holding, Leased, process
<1>13. Alone'
  BY <1>1, <1>2, <1>3 DEF Alone, Planning, rows
<1>14. Marked' /\ Kept'
  BY <1>1, <1>2, <1>5, <1>6 DEF Marked, Kept, rows, world, history
<1>15. Own(p)'
  BY <1>9, <1>10, <1>11 DEF Own
<1> QED BY <1>7, <1>8, <1>12, <1>13, <1>14, <1>15, Framed

(* A rejection ends a proposal that has made nothing. *)
LEMMA RejectKeeps ==
  ASSUME IInv, NEW p \in Proposal, Reject(p)
  PROVE  IInv'
<1>1. TypeOK /\ MessageOf(p)
  BY Facts
<1>2. /\ up /\ pc[p] \in Commanded /\ claim[Message(p)].command = "reject"
      /\ UNCHANGED <<approved, open, receipt, journal, recovery, installed, claim, lease,
                     process, world, history>>
      /\ "complete" \in Ending /\ faults' \in [Kind -> Nat]
  BY <1>1 DEF Reject, Asks, At, Commanded, Ending, world, TypeOK
<1>3. CASE status[p] = "PENDING"
  <2>1. SetStatus(p, "REJECTED") /\ End(p, "rejected")
    BY <1>3 DEF Reject
  <2>3. "REJECTED" \in Closing /\ "rejected" \in Refusal
    BY DEF Closing, Dismissed, Refusal
  <2>2. UNCHANGED <<approved, open, receipt, journal, recovery, installed, claim, lease,
                    process, live, child, inflight, history>>
    BY <1>2 DEF world
  <2> QED BY <1>2, <1>3, <2>1, <2>2, <2>3, Closed
<1>4. CASE status[p] # "PENDING"
  <2>1. PICK a \in {"rejected", "denied"} :
          Goto(p, "complete") /\ job' = [job EXCEPT ![p].answer = a]
    BY DEF Reject, End
  <2>2. True(p, Message(p), a) /\ a \in Answer
    BY <1>2, Unposted DEF True, Answer
  <2>3. UNCHANGED <<rows, claim, lease, process, live, child, inflight, history>>
    BY <1>2, <1>4 DEF Reject, rows, world
  <2> QED BY <1>2, <2>1, <2>2, <2>3, Ended
<1> QED BY <1>3, <1>4

(* An approval that came too late ends a proposal that has made nothing. *)
LEMMA ApproveExpiredKeeps ==
  ASSUME IInv, NEW p \in Proposal, ApproveExpired(p)
  PROVE  IInv'
<1>1. TypeOK
  BY Facts
<1>2. /\ up /\ pc[p] \in Commanded /\ status[p] = "PENDING" /\ SetStatus(p, "EXPIRED")
      /\ End(p, "denied")
      /\ UNCHANGED <<approved, open, receipt, journal, recovery, installed, claim, lease,
                     process, live, child, inflight, history>>
      /\ faults' \in [Kind -> Nat]
  BY <1>1 DEF ApproveExpired, Asks, At, Commanded, world, TypeOK
<1>3. "EXPIRED" \in Closing /\ "denied" \in Refusal
  BY DEF Closing, Dismissed, Refusal
<1> QED BY <1>2, <1>3, Closed

(* Entering the approval keeps the invariant. *)
LEMMA ApproveEnterKeeps ==
  ASSUME IInv, NEW p \in Proposal, ApproveEnter(p)
  PROVE  IInv'
<1>1. TypeOK /\ RecoveryOf(p)
  BY Facts
<1>2. /\ up /\ pc[p] = "dispatch" /\ pc[p] \in Commanded /\ claim[Message(p)].command = "approve"
      /\ status[p] \in {"PENDING", "APPROVED"} /\ Goto(p, "lease") /\ UNCHANGED job
      /\ UNCHANGED <<rows, claim, lease, process, live, child, inflight, history>>
      /\ faults' \in [Kind -> Nat]
  BY <1>1 DEF ApproveEnter, Asks, At, Commanded, Settled, world, TypeOK
<1>3. pc'[p] = "lease" /\ "lease" \in Commanded \ Ending /\ "lease" \notin Leased
      /\ "lease" \notin Approving /\ "lease" \notin Recovering
  BY <1>1, <1>2 DEF Goto, TypeOK, Commanded, Ending, Leased, Approving, Creating, Recovering
<1>4. ApprovalOf(p)'
  BY <1>2, <1>3 DEF ApprovalOf, rows, Creating
<1>5. RecoveryOf(p)'
  BY <1>1, <1>2, <1>3 DEF RecoveryOf, rows, Message
<1> QED BY <1>2, <1>3, <1>4, <1>5, Went

(* Taking the lease leaves one thread alone with it. *)
LEMMA TakeLeaseKeeps ==
  ASSUME IInv, NEW p \in Proposal, TakeLease(p)
  PROVE  IInv'
<1>1. /\ TypeOK /\ Holding /\ Alone /\ Marked /\ Kept /\ RowsOf(p) /\ MessageOf(p)
      /\ ApprovalOf(p) /\ RecoveryOf(p) /\ InboxOf(p)
  BY Facts
<1>2. /\ up /\ pc[p] = "lease" /\ pc[p] \in Commanded /\ (lease = None \/ ~lease.alive)
      /\ UNCHANGED <<rows, claim, process, job, world, history>>
  BY DEF TakeLease, At, Commanded, MayTake
<1>3. PICK l \in {"preview", "look"} :
        /\ Goto(p, l)
        /\ l = "preview" <=> claim[Message(p)].command = "approve"
  BY DEF TakeLease
<1>4. /\ pc' \in [Proposal -> Label] /\ pc'[p] = l
      /\ \A q \in Proposal \ {p} : pc'[q] = pc[q]
  BY <1>1, <1>3 DEF Goto, TypeOK, Label
<1>5. lease' \in Lease /\ lease' # None /\ lease'.proposal = p /\ lease'.alive
  <2> DEFINE r == [proposal |-> p, alive |-> TRUE]
  <2>1. lease' = r
    BY DEF TakeLease
  <2>2. r \in Lease /\ r.proposal = p /\ r.alive
    BY DEF Lease
  <2> QED BY <2>1, <2>2
<1>6. claim[Message(p)].command \in {"approve", "recover"}
  BY <1>1, <1>2 DEF MessageOf, TypeOK, Claim, Command
<1>7. TypeOK'
  BY <1>1, <1>2, <1>4, <1>5 DEF TypeOK, rows, process, world, history
<1>8. Frame(p)
  BY <1>2, <1>4
  DEF Frame, OthersKept, MessagesKept, SameMessage, rows, process, world, history
<1>9. RowsOf(p)' /\ InboxOf(p)'
  BY <1>1, <1>2 DEF RowsOf, InboxOf, True, rows, world, history
<1>10. MessageOf(p)'
  BY <1>1, <1>2, <1>3, <1>4, <1>6
  DEF MessageOf, Message, rows, Commanded, Approving, Creating, Recovering
<1>11. ApprovalOf(p)' /\ AnswerOf(p)'
  BY <1>1, <1>2, <1>3, <1>4 DEF ApprovalOf, AnswerOf, rows, Creating, Ending
<1>12. RecoveryOf(p)'
  BY <1>1, <1>2, <1>3, <1>4, <1>6 DEF RecoveryOf, Message, rows, process
<1>13. Holding'
  BY <1>1, <1>2, <1>4, <1>5 DEF Holding, process
<1>14. Alone'
  BY <1>1, <1>2, <1>4 DEF Alone, Planning, rows
<1>15. Marked' /\ Kept'
  BY <1>1, <1>2 DEF Marked, Kept, rows, world, history
<1>16. Own(p)'
  BY <1>9, <1>10, <1>11, <1>12 DEF Own
<1> QED BY <1>7, <1>8, <1>13, <1>14, <1>15, <1>16, Framed

(* A busy lease turns the command away unchanged. *)
LEMMA LeaseBusyKeeps ==
  ASSUME IInv, NEW p \in Proposal, LeaseBusy(p)
  PROVE  IInv'
<1>1. TypeOK /\ MessageOf(p) /\ ApprovalOf(p) /\ RowsOf(p)
  BY Facts
<1>2. /\ up /\ pc[p] = "lease" /\ pc[p] \in Commanded /\ Goto(p, "complete")
      /\ job' = [job EXCEPT ![p].answer = "denied"]
      /\ UNCHANGED <<rows, claim, lease, process, live, child, inflight, history>>
      /\ faults' \in [Kind -> Nat] /\ "complete" \in Ending /\ "denied" \in Answer
  BY <1>1 DEF LeaseBusy, At, Commanded, End, Ending, Answer, world, TypeOK
<1>3. posts[p] = 0 \/ claim[Message(p)].command # "approve"
  BY <1>1, <1>2 DEF ApprovalOf, RowsOf, Begun
<1>4. True(p, Message(p), "denied")
  BY <1>2, <1>3, Denied
<1> QED BY <1>2, <1>4, Ended

(* Releasing the lease ends the command and keeps the invariant. *)
LEMMA ReleaseKeeps ==
  ASSUME IInv, NEW p \in Proposal, Release(p)
  PROVE  IInv'
<1>1. /\ TypeOK /\ Holding /\ Alone /\ Marked /\ Kept /\ RowsOf(p) /\ MessageOf(p)
      /\ RecoveryOf(p) /\ AnswerOf(p) /\ InboxOf(p)
  BY Facts
<1>2. /\ up /\ pc[p] = "release" /\ pc[p] \in Commanded /\ pc[p] \in Leased /\ lease' = None
      /\ UNCHANGED <<rows, claim, process, job, world, history>>
  BY DEF Release, At, Commanded, Ending, Leased
<1>3. /\ pc' \in [Proposal -> Label] /\ pc'[p] = "complete"
      /\ \A q \in Proposal \ {p} : pc'[q] = pc[q]
  BY <1>1 DEF Release, Goto, TypeOK, Label
<1>4. TypeOK'
  BY <1>1, <1>2, <1>3 DEF TypeOK, rows, process, world, history
<1>5. Frame(p)
  BY <1>2, <1>3
  DEF Frame, OthersKept, MessagesKept, SameMessage, rows, process, world, history
<1>6. RowsOf(p)' /\ InboxOf(p)'
  BY <1>1, <1>2 DEF RowsOf, InboxOf, True, rows, world, history
<1>7. MessageOf(p)'
  BY <1>1, <1>2, <1>3
  DEF MessageOf, Message, rows, Commanded, Approving, Creating, Recovering
<1>8. ApprovalOf(p)' /\ RecoveryOf(p)' /\ AnswerOf(p)'
  BY <1>1, <1>2, <1>3
  DEF ApprovalOf, RecoveryOf, AnswerOf, Message, Creating, Ending, True, rows, world, history
<1>9. Holding'
  <2>1. \A q \in Proposal \ {p} : pc[q] \notin Leased
    BY <1>1, <1>2 DEF Holding
  <2> QED BY <1>1, <1>2, <1>3, <2>1 DEF Holding, Leased, process
<1>10. Alone'
  BY <1>1, <1>2, <1>3 DEF Alone, Planning, rows
<1>11. Marked' /\ Kept'
  BY <1>1, <1>2 DEF Marked, Kept, rows, world, history
<1>12. Own(p)'
  BY <1>6, <1>7, <1>8 DEF Own
<1> QED BY <1>4, <1>5, <1>9, <1>10, <1>11, <1>12, Framed

(* Finding the parent page changed ends a proposal that has made nothing. *)
LEMMA StaleKeeps ==
  ASSUME IInv, NEW p \in Proposal, up, pc[p] \in {"preview", "issue", "begin"},
         status[p] \in {"PENDING", "APPROVED"}, Stale(p)
  PROVE  IInv'
<1>1. TypeOK
  BY Facts
<1>2. pc[p] \in Leased /\ pc[p] \in Commanded
  BY DEF Leased, Commanded, Approving
<1>3. /\ SetStatus(p, "STALE") /\ Leave(p, "denied") /\ faults' \in [Kind -> Nat]
      /\ UNCHANGED <<approved, open, receipt, journal, recovery, installed, claim, lease,
                     process, live, child, inflight, history>>
  BY <1>1 DEF Stale, world, TypeOK
<1>4. "STALE" \in Closing /\ "STALE" \notin Dismissed /\ "denied" \in Refusal
  BY DEF Closing, Dismissed, Refusal
<1> QED BY <1>2, <1>3, <1>4, Closed

(* The preview before the approval keeps the invariant. *)
LEMMA PreviewKeeps ==
  ASSUME IInv, NEW p \in Proposal, Preview(p)
  PROVE  IInv'
<1>1. TypeOK /\ MessageOf(p) /\ ApprovalOf(p) /\ RecoveryOf(p)
  BY Facts
<1>2. up /\ pc[p] = "preview" /\ pc[p] \in Commanded /\ status[p] \in {"PENDING", "APPROVED"}
  BY <1>1 DEF Preview, At, Commanded, Approving, ApprovalOf
<1>3. ASSUME Stale(p)
      PROVE  IInv'
  BY <1>2, <1>3, StaleKeeps
<1>4. ASSUME Goto(p, "issue"), UNCHANGED <<rows, claim, lease, process, job, world, history>>
      PROVE  IInv'
  <2>1. pc'[p] = "issue" /\ "issue" \in Commanded \ Ending /\ "issue" \notin Recovering
        /\ pc[p] \in Leased /\ faults' \in [Kind -> Nat]
    BY <1>1, <1>2, <1>4
    DEF Goto, TypeOK, Commanded, Ending, Leased, Approving, Recovering, world
  <2>2. claim[Message(p)].command = "approve"
    BY <1>1, <1>2 DEF MessageOf, Approving
  <2>3. ApprovalOf(p)'
    BY <1>2, <1>4, <2>1 DEF ApprovalOf, rows, Creating
  <2>4. RecoveryOf(p)'
    BY <1>1, <1>2, <1>4, <2>1 DEF RecoveryOf, rows, Message
  <2>5. UNCHANGED <<rows, claim, lease, process, live, child, inflight, history>>
        /\ UNCHANGED job
    BY <1>4 DEF world
  <2> QED BY <1>2, <1>4, <2>1, <2>2, <2>3, <2>4, <2>5, Went
<1> QED BY <1>3, <1>4 DEF Preview

(* Issuing a receipt keeps it the receipt of the message that asked. *)
LEMMA IssueKeeps ==
  ASSUME IInv, NEW p \in Proposal, Issue(p)
  PROVE  IInv'
<1>1. /\ TypeOK /\ Holding /\ Alone /\ Marked /\ Kept /\ RowsOf(p) /\ MessageOf(p)
      /\ RecoveryOf(p) /\ InboxOf(p)
  BY Facts
<1>2. /\ up /\ pc[p] = "issue" /\ pc[p] \in Commanded /\ pc[p] \in Leased /\ status[p] = "PENDING"
      /\ UNCHANGED <<approved, open, journal, recovery, installed, claim, lease,
                     process, world, history>>
  BY DEF Issue, At, Commanded, Approving, Leased
<1>3. CASE ~open[p]
  <2>1. /\ Goto(p, "release") /\ job' = [job EXCEPT ![p].answer = "denied"]
        /\ UNCHANGED <<rows, claim, lease, process, live, child, inflight, history>>
        /\ faults' \in [Kind -> Nat] /\ "release" \in Ending /\ "denied" \in Answer
    BY <1>1, <1>2, <1>3 DEF Issue, Leave, Ending, Answer, TypeOK, rows, world
  <2>2. posts[p] = 0
    BY <1>1, <1>2 DEF RowsOf, Begun
  <2>3. True(p, Message(p), "denied")
    BY <1>2, <2>2, Denied
  <2> QED BY <1>2, <2>1, <2>3, Ended
<1>4. CASE open[p]
  <2>1. /\ pc' \in [Proposal -> Label] /\ pc'[p] = "begin"
        /\ \A q \in Proposal \ {p} : pc'[q] = pc[q]
    BY <1>1, <1>4 DEF Issue, Goto, TypeOK, Label
  <2>2. /\ status' \in [Proposal -> Status] /\ status'[p] = "APPROVED" /\ UNCHANGED job
        /\ \A q \in Proposal \ {p} : status'[q] = status[q]
    BY <1>1, <1>4 DEF Issue, SetStatus, TypeOK, Status
  <2>3. /\ Message(p) \in Update /\ claim[Message(p)] # None /\ claim[Message(p)].proposal = p
        /\ claim[Message(p)].command = "approve" /\ claim[Message(p)].answer = None
    BY <1>1, <1>2 DEF MessageOf, Approving
  <2>4. /\ receipt' \in [Proposal -> Receipt \cup {None}] /\ receipt'[p] # None
        /\ receipt'[p].update = Message(p)
        /\ \A q \in Proposal \ {p} : receipt'[q] = receipt[q]
    <3>1. Signed(p) \in Receipt /\ Signed(p).update = Message(p)
      BY <1>1, <2>3 DEF Signed, Receipt, TypeOK
    <3>2. receipt' = [receipt EXCEPT ![p] = Signed(p)]
      BY <1>4 DEF Issue
    <3> QED BY <1>1, <3>1, <3>2 DEF TypeOK
  <2>5. journal[p] = None /\ posts[p] = 0 /\ made[p] = {} /\ p \notin inflight
    BY <1>1, <1>2 DEF RowsOf, Begun
  <2>6. TypeOK'
    BY <1>1, <1>2, <2>1, <2>2, <2>4 DEF TypeOK, process, world, history
  <2>7. Frame(p)
    BY <1>2, <2>1, <2>2, <2>4
    DEF Frame, OthersKept, MessagesKept, SameMessage, process, world, history
  <2>8. RowsOf(p)'
    BY <1>1, <1>2, <2>2, <2>4, <2>5 DEF RowsOf, Begun, world, history
  <2>9. MessageOf(p)'
    BY <1>2, <2>1, <2>2, <2>3 DEF MessageOf, Message, Recovering
  <2>10. ApprovalOf(p)' /\ AnswerOf(p)'
    BY <2>1, <2>2, <2>4 DEF ApprovalOf, AnswerOf, ItsReceipt, Message, Creating, Ending
  <2>11. RecoveryOf(p)'
    BY <1>1, <1>2, <2>1, <2>2 DEF RecoveryOf, Message
  <2>12. InboxOf(p)'
    <3>1. ASSUME NEW u \in Update, NEW b, True(p, u, b)
          PROVE  True(p, u, b)'
      BY <1>2, <2>5, <3>1 DEF True, world, history
    <3> QED BY <1>1, <1>2, <2>2, <2>3, <2>4, <2>5, <3>1 DEF InboxOf, history
  <2>13. Holding'
    BY <1>1, <1>2, <2>1 DEF Holding, process
  <2>14. Alone'
    BY <1>1, <1>2, <2>1, <2>2 DEF Alone, Active, Planning
  <2>15. Marked' /\ Kept'
    BY <1>1, <1>2 DEF Marked, Kept, world, history
  <2>16. Own(p)'
    BY <2>8, <2>9, <2>10, <2>11, <2>12 DEF Own
  <2> QED BY <2>6, <2>7, <2>13, <2>14, <2>15, <2>16, Framed
<1> QED BY <1>3, <1>4

(* A receipt issued before is taken up as it is. *)
LEMMA ReissueKeeps ==
  ASSUME IInv, NEW p \in Proposal, Reissue(p)
  PROVE  IInv'
<1>1. TypeOK /\ MessageOf(p) /\ RecoveryOf(p)
  BY Facts
<1>2. up /\ pc[p] = "issue" /\ pc[p] \in Commanded /\ status[p] = "APPROVED"
  BY DEF Reissue, At, Commanded, Approving
<1>3. ASSUME Stale(p)
      PROVE  IInv'
  BY <1>2, <1>3, StaleKeeps
<1>4. ASSUME ItsReceipt(p), Goto(p, "begin"),
             UNCHANGED <<rows, claim, lease, process, job, world, history>>
      PROVE  IInv'
  <2>1. pc'[p] = "begin" /\ "begin" \in Commanded \ Ending /\ "begin" \notin Recovering
        /\ pc[p] \in Leased /\ faults' \in [Kind -> Nat]
    BY <1>1, <1>2, <1>4
    DEF Goto, TypeOK, Commanded, Ending, Leased, Approving, Recovering, world
  <2>2. claim[Message(p)].command = "approve"
    BY <1>1, <1>2 DEF MessageOf, Approving
  <2>3. ApprovalOf(p)'
    BY <1>2, <1>4, <2>1 DEF ApprovalOf, rows, Creating, ItsReceipt, Message
  <2>4. RecoveryOf(p)'
    BY <1>1, <1>2, <1>4, <2>1 DEF RecoveryOf, rows, Message
  <2>5. UNCHANGED <<rows, claim, lease, process, live, child, inflight, history>>
        /\ UNCHANGED job
    BY <1>4 DEF world
  <2> QED BY <1>2, <1>4, <2>1, <2>2, <2>3, <2>4, <2>5, Went
<1> QED BY <1>3, <1>4 DEF Reissue

(* Beginning to apply moves the proposal to work that only its thread does. *)
LEMMA BeginKeeps ==
  ASSUME IInv, NEW p \in Proposal, Begin(p)
  PROVE  IInv'
<1>1. /\ TypeOK /\ Holding /\ Alone /\ Marked /\ Kept /\ RowsOf(p) /\ MessageOf(p)
      /\ ApprovalOf(p) /\ RecoveryOf(p) /\ InboxOf(p)
  BY Facts
<1>2. /\ up /\ pc[p] = "begin" /\ pc[p] \in Commanded /\ pc[p] \in Leased
      /\ status[p] = "APPROVED"
      /\ ItsReceipt(p)
  BY <1>1 DEF Begin, At, Commanded, Approving, Leased, ApprovalOf
<1>3. CASE ~Verified(p)
  <2>1. Stale(p)
    BY <1>3 DEF Begin
  <2> QED BY <1>2, <2>1, StaleKeeps
<1>4. CASE Verified(p)
  <2> DEFINE j == [status |-> "pending", attempts |-> 0, database |-> None, finished |-> FALSE]
  <2>1. /\ pc' \in [Proposal -> Label] /\ pc'[p] = "recheck"
        /\ \A q \in Proposal \ {p} : pc'[q] = pc[q]
    BY <1>1, <1>4 DEF Begin, Goto, TypeOK, Label
  <2>2. /\ status' \in [Proposal -> Status] /\ status'[p] = "APPLYING"
        /\ \A q \in Proposal \ {p} : status'[q] = status[q]
        /\ UNCHANGED <<approved, open, recovery, installed, lease, process, job, world, history>>
    BY <1>1, <1>4 DEF Begin, SetStatus, TypeOK, Status
  <2>3. /\ Message(p) \in Update /\ claim[Message(p)] # None /\ claim[Message(p)].proposal = p
        /\ claim[Message(p)].command = "approve" /\ claim[Message(p)].answer = None
    BY <1>1, <1>2 DEF MessageOf, Approving
  <2>4. /\ receipt' \in [Proposal -> Receipt \cup {None}] /\ receipt'[p] # None
        /\ receipt'[p].update = receipt[p].update /\ receipt'[p].secret = secret
        /\ \A q \in Proposal \ {p} : receipt'[q] = receipt[q]
    <3> DEFINE r == [receipt[p] EXCEPT !.used = TRUE]
    <3>1. receipt[p] \in Receipt
      BY <1>1, <1>2 DEF TypeOK, RowsOf
    <3>2. r \in Receipt /\ r.update = receipt[p].update /\ r.secret = secret
      BY <1>4, <3>1 DEF Receipt, Verified
    <3>3. receipt' = [receipt EXCEPT ![p] = r]
      BY <1>4 DEF Begin
    <3> HIDE DEF r
    <3> QED BY <1>1, <3>2, <3>3 DEF TypeOK
  <2>5. j \in Journal /\ j # None /\ j.attempts = 0
    <3>1. j \in Journal
      BY DEF Journal
    <3> QED BY <3>1
  <2>6. JournalStep(p, j)
    <3>1. WriteJournal(p, j)
      BY <1>4 DEF Begin
    <3> HIDE DEF j
    <3> QED BY <1>1, <2>5, <3>1, JournalWritten
  <2> HIDE DEF j
  <2>7. posts[p] = 0 /\ made[p] = {} /\ p \notin inflight
    BY <1>1, <1>2 DEF RowsOf, Begun
  <2>8. TypeOK'
    BY <1>1, <2>1, <2>2, <2>4, <2>6 DEF TypeOK, JournalStep, process, world, history
  <2>9. Frame(p)
    BY <2>1, <2>2, <2>4, <2>6
    DEF Frame, OthersKept, MessagesKept, SameMessage, JournalStep, process, world, history
  <2>10. RowsOf(p)'
    BY <2>2, <2>4, <2>5, <2>6, <2>7 DEF RowsOf, Begun, JournalStep, world, history
  <2>11. MessageOf(p)'
    BY <2>1, <2>2, <2>3, <2>6 DEF MessageOf, Message, JournalStep, Recovering
  <2>12. ApprovalOf(p)' /\ AnswerOf(p)'
    BY <1>2, <2>1, <2>2, <2>4, <2>5, <2>6, <2>7
    DEF ApprovalOf, AnswerOf, ItsReceipt, Message, JournalStep, Ending, process, history
  <2>13. RecoveryOf(p)'
    BY <1>1, <1>2, <2>1, <2>2 DEF RecoveryOf, Message
  <2>14. InboxOf(p)'
    <3>1. ASSUME NEW u \in Update, NEW b, True(p, u, b)
          PROVE  True(p, u, b)'
      BY <1>2, <2>2, <2>7, <3>1 DEF True, world, history
    <3>2. receipt[p].update \in Update /\ receipt[p] # None
      BY <1>1, <1>2 DEF TypeOK, Receipt, RowsOf
    <3> QED BY <1>1, <2>2, <2>3, <2>4, <2>6, <2>7, <3>1, <3>2 DEF InboxOf, JournalStep, history
  <2>15. Holding'
    BY <1>1, <1>2, <2>1, <2>2 DEF Holding, Leased, process
  <2>16. Alone'
    BY <1>1, <1>2, <2>1, <2>2 DEF Alone, Active, Planning
  <2>17. Marked' /\ Kept'
    BY <1>1, <2>2, <2>6 DEF Marked, Kept, JournalStep, world, history
  <2>18. Own(p)'
    BY <2>10, <2>11, <2>12, <2>13, <2>14 DEF Own
  <2> QED BY <2>8, <2>9, <2>15, <2>16, <2>17, <2>18, Framed
<1> QED BY <1>3, <1>4

(* The second look at the parent page keeps the invariant. *)
LEMMA RecheckKeeps ==
  ASSUME IInv, NEW p \in Proposal, Recheck(p)
  PROVE  IInv'
<1>1. TypeOK /\ MessageOf(p) /\ ApprovalOf(p) /\ RecoveryOf(p) /\ RowsOf(p)
  BY Facts
<1>2. /\ up /\ pc[p] = "recheck" /\ pc[p] \in Commanded /\ pc[p] \in Leased
      /\ status[p] = "APPLYING" /\ posts[p] = 0
  BY <1>1 DEF Recheck, At, Commanded, Approving, Creating, Leased, ApprovalOf
<1>3. ASSUME FailApply(p, "denied"), UNCHANGED <<world, history>>
      PROVE  IInv'
  <2>1. /\ SetStatus(p, "FAILED") /\ WriteJournal(p, [journal[p] EXCEPT !.status = "failed"])
        /\ Leave(p, "denied") /\ faults' \in [Kind -> Nat] /\ inflight' = inflight
        /\ UNCHANGED <<approved, open, receipt, recovery, installed, lease, process,
                       live, child, history>>
    BY <1>1, <1>3 DEF FailApply, world, TypeOK
  <2>2. inflight' = inflight \ {p}
    BY <1>1, <1>2, <2>1 DEF RowsOf
  <2>3. "denied" \in Negative /\ status[p] \in Running
    BY <1>2 DEF Negative, Running
  <2> QED BY <1>2, <2>1, <2>2, <2>3, FailedStep
<1>4. ASSUME Goto(p, "attempt"), UNCHANGED <<rows, claim, lease, process, job, world, history>>
      PROVE  IInv'
  <2>1. pc'[p] = "attempt" /\ "attempt" \in Commanded \ Ending /\ "attempt" \notin Recovering
        /\ faults' \in [Kind -> Nat]
    BY <1>1, <1>4
    DEF Goto, TypeOK, Commanded, Ending, Approving, Creating, Recovering, world
  <2>2. claim[Message(p)].command = "approve"
    BY <1>1, <1>2 DEF MessageOf, Approving, Creating
  <2>3. ApprovalOf(p)'
    BY <1>1, <1>2, <1>4, <2>1
    DEF ApprovalOf, rows, process, history, Creating, ItsReceipt, Message
  <2>4. RecoveryOf(p)'
    BY <1>1, <1>2, <1>4, <2>1 DEF RecoveryOf, rows, Message
  <2>5. UNCHANGED <<rows, claim, lease, process, live, child, inflight, history>>
        /\ UNCHANGED job
    BY <1>4 DEF world
  <2> QED BY <1>2, <1>4, <2>1, <2>2, <2>3, <2>4, <2>5, Went
<1> QED BY <1>3, <1>4 DEF Recheck

\* A thread writes the journal of its proposal, and the status stays.
LEMMA Journaled ==
  ASSUME IInv, NEW p \in Proposal, up, NEW l \in Leased \cap Commanded, l \notin Ending,
         Goto(p, l),
         pc[p] \in Leased, pc[p] \in Commanded, status[p] \in Running,
         NEW j \in Journal, j.attempts = journal[p].attempts \/ j.attempts = 1,
         WriteJournal(p, j),
         l \in Approving => pc[p] \in Approving,
         l \in Recovering => pc[p] \in Recovering,
         UNCHANGED <<status, approved, open, receipt, recovery, installed, lease, process,
                     job, world, history>>,
         JournalStep(p, j) => ApprovalOf(p)', JournalStep(p, j) => RecoveryOf(p)'
  PROVE  IInv'
<1>1. /\ TypeOK /\ Holding /\ Alone /\ Marked /\ Kept /\ RowsOf(p) /\ MessageOf(p) /\ InboxOf(p)
  BY Facts
<1>2. JournalStep(p, j) /\ j # None
  BY <1>1, JournalWritten
<1>3. /\ pc' \in [Proposal -> Label] /\ pc'[p] = l /\ l # "lease" /\ l \notin Planning
      /\ \A q \in Proposal \ {p} : pc'[q] = pc[q]
  BY <1>1 DEF Goto, TypeOK, Label, Leased, Planning
<1>4. TypeOK'
  BY <1>1, <1>2, <1>3 DEF TypeOK, JournalStep, process, world, history
<1>5. Frame(p)
  BY <1>2, <1>3
  DEF Frame, OthersKept, MessagesKept, SameMessage, JournalStep, process, world, history
<1>6. RowsOf(p)'
  BY <1>1, <1>2 DEF RowsOf, Begun, Running, JournalStep, world, history
<1>7. MessageOf(p)'
  BY <1>1, <1>2, <1>3 DEF MessageOf, Message, JournalStep
<1>8. AnswerOf(p)'
  BY <1>3 DEF AnswerOf
<1>9. InboxOf(p)'
  <2>1. ASSUME NEW u \in Update, NEW b, True(p, u, b)
        PROVE  True(p, u, b)'
    BY <2>1 DEF True, world, history
  <2>2. receipt[p] # None => receipt[p].update \in Update
    BY <1>1 DEF TypeOK, Receipt
  <2> QED BY <1>1, <1>2, <2>1, <2>2 DEF InboxOf, JournalStep, history
<1>10. Holding'
  BY <1>1, <1>3 DEF Holding, process
<1>11. Alone'
  BY <1>1, <1>3 DEF Alone
<1>12. Marked' /\ Kept'
  BY <1>1, <1>2 DEF Marked, Kept, JournalStep, world, history
<1>13. Own(p)'
  BY <1>2, <1>6, <1>7, <1>8, <1>9 DEF Own
<1> QED BY <1>4, <1>5, <1>10, <1>11, <1>12, <1>13, Framed

(* The attempt is in the journal before the request is sent. *)
LEMMA AttemptKeeps ==
  ASSUME IInv, NEW p \in Proposal, Attempt(p)
  PROVE  IInv'
<1> DEFINE j == [journal[p] EXCEPT !.attempts = 1]
<1>1. TypeOK /\ ApprovalOf(p) /\ RecoveryOf(p) /\ RowsOf(p) /\ MessageOf(p)
  BY Facts
<1>2. /\ up /\ pc[p] = "attempt" /\ pc[p] \in Commanded /\ pc[p] \in Leased /\ pc[p] \in Approving
      /\ status[p] = "APPLYING" /\ status[p] \in Running /\ posts[p] = 0
  BY <1>1 DEF Attempt, At, Commanded, Approving, Creating, Leased, ApprovalOf, Running
<1>3. j \in Journal /\ j.attempts = 1
  <2>1. journal[p] \in Journal
    BY <1>1, <1>2 DEF RowsOf, TypeOK, Begun
  <2> QED BY <2>1 DEF Journal
<1>4. /\ WriteJournal(p, j) /\ Goto(p, "post")
      /\ UNCHANGED <<status, approved, open, receipt, recovery, installed, lease, process,
                     job, world, history>>
  BY DEF Attempt
<1> HIDE DEF j
<1>5. pc'[p] = "post" /\ "post" \in Leased \cap Commanded /\ "post" \notin Ending
      /\ "post" \notin Recovering
  BY <1>1, <1>4 DEF Goto, TypeOK, Leased, Commanded, Approving, Creating, Ending, Recovering
<1>6. JournalStep(p, j) => ApprovalOf(p)'
  BY <1>1, <1>2, <1>3, <1>4, <1>5
  DEF ApprovalOf, JournalStep, Creating, ItsReceipt, Message, process, history
<1>7. JournalStep(p, j) => RecoveryOf(p)'
  BY <1>1, <1>2, <1>4, <1>5 DEF RecoveryOf, JournalStep, Message
<1> QED BY <1>2, <1>3, <1>4, <1>5, <1>6, <1>7, Journaled

(* The journal records the database that Notion answered with. *)
LEMMA RecordKeeps ==
  ASSUME IInv, NEW p \in Proposal, Record(p)
  PROVE  IInv'
<1> DEFINE j == [journal[p] EXCEPT !.database = job[p].database, !.finished = TRUE]
<1>1. TypeOK /\ ApprovalOf(p) /\ RecoveryOf(p) /\ RowsOf(p) /\ MessageOf(p)
  BY Facts
<1>2. /\ up /\ pc[p] = "record" /\ pc[p] \in Commanded /\ pc[p] \in Leased /\ pc[p] \in Approving
      /\ status[p] = "APPLYING" /\ status[p] \in Running /\ posts[p] = 1
  BY <1>1 DEF Record, At, Commanded, Approving, Creating, Leased, ApprovalOf, Running
<1>3. j \in Journal /\ j.attempts = journal[p].attempts /\ j.database = job[p].database
  <2>1. journal[p] \in Journal /\ job[p].database \in Database
    BY <1>1, <1>2 DEF RowsOf, ApprovalOf, TypeOK, Begun
  <2> QED BY <2>1 DEF Journal
<1>4. /\ WriteJournal(p, j) /\ Goto(p, "verify")
      /\ UNCHANGED <<status, approved, open, receipt, recovery, installed, lease, process,
                     job, world, history>>
  BY DEF Record
<1> HIDE DEF j
<1>5. pc'[p] = "verify" /\ "verify" \in Leased \cap Commanded /\ "verify" \notin Ending
      /\ "verify" \notin Recovering
  BY <1>1, <1>4 DEF Goto, TypeOK, Leased, Commanded, Approving, Creating, Ending, Recovering
<1>6. JournalStep(p, j) => ApprovalOf(p)'
  BY <1>1, <1>2, <1>3, <1>4, <1>5
  DEF ApprovalOf, JournalStep, Creating, ItsReceipt, Message, process, history
<1>7. JournalStep(p, j) => RecoveryOf(p)'
  BY <1>1, <1>2, <1>4, <1>5 DEF RecoveryOf, JournalStep, Message
<1> QED BY <1>2, <1>3, <1>4, <1>5, <1>6, <1>7, Journaled

(* Reading the new database back keeps the invariant. *)
LEMMA VerifyKeeps ==
  ASSUME IInv, NEW p \in Proposal, Verify(p)
  PROVE  IInv'
<1> DEFINE j == [journal[p] EXCEPT !.status = "done"]
<1>1. TypeOK /\ ApprovalOf(p) /\ RecoveryOf(p) /\ RowsOf(p) /\ MessageOf(p)
  BY Facts
<1>2. /\ up /\ pc[p] = "verify" /\ pc[p] \in Commanded /\ pc[p] \in Leased /\ pc[p] \in Approving
      /\ status[p] = "APPLYING" /\ status[p] \in Running /\ posts[p] = 1
      /\ UNCHANGED <<status, approved, open, receipt, recovery, installed, lease, process,
                     job, world, history>>
  BY <1>1 DEF Verify, At, Commanded, Approving, Creating, Leased, ApprovalOf, Running
<1>3. ASSUME WriteJournal(p, j), Goto(p, "finalize")
      PROVE  IInv'
  <2>1. j \in Journal /\ j.attempts = journal[p].attempts /\ j.database = journal[p].database
    <3>1. journal[p] \in Journal
      BY <1>1, <1>2 DEF RowsOf, TypeOK, Begun
    <3> QED BY <3>1 DEF Journal
  <2> HIDE DEF j
  <2>2. pc'[p] = "finalize" /\ "finalize" \in Leased \cap Commanded /\ "finalize" \notin Ending
        /\ "finalize" \notin Recovering
    BY <1>1, <1>3 DEF Goto, TypeOK, Leased, Commanded, Approving, Creating, Ending, Recovering
  <2>3. JournalStep(p, j) => ApprovalOf(p)'
    BY <1>1, <1>2, <2>1, <2>2
    DEF ApprovalOf, JournalStep, Creating, ItsReceipt, Message, process, history
  <2>4. JournalStep(p, j) => RecoveryOf(p)'
    BY <1>1, <1>2, <2>2 DEF RecoveryOf, JournalStep, Message
  <2> QED BY <1>2, <1>3, <2>1, <2>2, <2>3, <2>4, Journaled
<1>4. ASSUME UNCHANGED <<journal, claim>>, Goto(p, "unknown")
      PROVE  IInv'
  <2>1. pc'[p] = "unknown" /\ "unknown" \in Commanded \ Ending /\ "unknown" \notin Recovering
        /\ faults' \in [Kind -> Nat]
    BY <1>1, <1>2, <1>4
    DEF Goto, TypeOK, Commanded, Ending, Approving, Creating, Recovering, world
  <2>2. claim[Message(p)].command = "approve"
    BY <1>1, <1>2 DEF MessageOf
  <2>3. ApprovalOf(p)'
    BY <1>1, <1>2, <1>4, <2>1
    DEF ApprovalOf, process, history, Creating, ItsReceipt, Message
  <2>4. RecoveryOf(p)'
    BY <1>1, <1>2, <1>4, <2>1 DEF RecoveryOf, Message
  <2>5. UNCHANGED <<rows, claim, lease, process, live, child, inflight, history>>
    BY <1>2, <1>4 DEF world, rows
  <2> QED BY <1>2, <1>4, <2>1, <2>2, <2>3, <2>4, <2>5, Went
<1> QED BY <1>2, <1>3, <1>4 DEF Verify

(* The request is sent under a receipt that verifies. *)
LEMMA PostKeeps ==
  ASSUME IInv, NEW p \in Proposal, Post(p)
  PROVE  IInv'
<1>1. /\ TypeOK /\ Holding /\ Alone /\ Marked /\ Kept /\ RowsOf(p) /\ MessageOf(p)
      /\ ApprovalOf(p) /\ RecoveryOf(p) /\ InboxOf(p)
  BY Facts
<1>2. /\ up /\ pc[p] = "post" /\ pc[p] \in Commanded /\ pc[p] \in Leased /\ status[p] = "APPLYING"
      /\ ItsReceipt(p) /\ posts[p] = 0 /\ journal[p].attempts = 1
      /\ UNCHANGED <<rows, claim, lease, process, job, live, child, faults, made>>
  BY <1>1 DEF Post, At, Commanded, Approving, Creating, Leased, ApprovalOf
<1>3. /\ pc' \in [Proposal -> Label] /\ pc'[p] = "await"
      /\ \A q \in Proposal \ {p} : pc'[q] = pc[q]
  BY <1>1 DEF Post, Goto, TypeOK, Label
<1>4. /\ posts' \in [Proposal -> Nat] /\ posts'[p] = 1
      /\ \A q \in Proposal \ {p} : posts'[q] = posts[q]
      /\ inflight' = inflight \cup {p} /\ postedBy' = postedBy \cup {Message(p)}
  BY <1>1, <1>2 DEF Post, TypeOK
<1>5. /\ Message(p) \in Update /\ claim[Message(p)] # None /\ claim[Message(p)].proposal = p
      /\ claim[Message(p)].command = "approve" /\ claim[Message(p)].answer = None
  BY <1>1, <1>2 DEF MessageOf, Approving, Creating
<1>6. journal[p] # None /\ made[p] = {} /\ receipt[p] # None /\ receipt[p].update = Message(p)
  BY <1>1, <1>2 DEF RowsOf, Begun, ItsReceipt
<1>7. TypeOK'
  BY <1>1, <1>2, <1>3, <1>4, <1>5 DEF TypeOK, rows, process
<1>8. Frame(p)
  BY <1>2, <1>3, <1>4, <1>5
  DEF Frame, OthersKept, MessagesKept, SameMessage, rows, process
<1>9. RowsOf(p)'
  BY <1>1, <1>2, <1>4, <1>6 DEF RowsOf, rows
<1>10. MessageOf(p)'
  BY <1>2, <1>3, <1>5 DEF MessageOf, Message, rows, Recovering
<1>11. ApprovalOf(p)' /\ AnswerOf(p)'
  BY <1>1, <1>2, <1>3, <1>4
  DEF ApprovalOf, AnswerOf, ItsReceipt, Message, rows, process, Creating, Ending
<1>12. RecoveryOf(p)'
  BY <1>1, <1>2, <1>3 DEF RecoveryOf, Message, rows
<1>13. InboxOf(p)'
  <2>1. ASSUME NEW u \in Update \ {Message(p)}, claim[u] # None, claim[u].proposal = p
        PROVE  u \notin postedBy'
    BY <1>1, <1>2, <1>4, <2>1 DEF InboxOf
  <2>2. ASSUME NEW u \in Update, u \notin postedBy', NEW b, True(p, u, b)
        PROVE  True(p, u, b)'
    BY <1>2, <2>2 DEF True, rows
  <2>3. True(p, Message(p), claim[Message(p)].answer)' /\ recovery[Message(p)] = None
    <3>1. recovery[Message(p)] = None
      BY <1>1, <1>5 DEF InboxOf
    <3>2. claim'[Message(p)].answer = None /\ Message(p)' = Message(p)
      BY <1>2, <1>5 DEF Message
    <3> QED BY <3>1, <3>2 DEF True, Answer
  <2>4. ASSUME NEW u \in Update \ {Message(p)}, claim'[u] # None, claim'[u].proposal = p
        PROVE  /\ True(p, u, claim[u].answer)'
               /\ recovery'[u] # None => claim'[u].command = "recover"
               /\ recovery'[u] # None => True(p, u, recovery[u].answer)'
    BY <1>1, <1>2, <2>1, <2>2, <2>4 DEF InboxOf, rows
  <2> QED BY <1>1, <1>2, <1>4, <1>5, <1>6, <2>1, <2>3, <2>4 DEF InboxOf, rows, Message
<1>14. Holding'
  BY <1>1, <1>2, <1>3 DEF Holding, Leased, process
<1>15. Alone'
  BY <1>1, <1>2, <1>3 DEF Alone, Planning, rows
<1>16. Marked' /\ Kept'
  BY <1>1, <1>2, <1>4, <1>5 DEF Marked, Kept, rows
<1>17. Own(p)'
  BY <1>9, <1>10, <1>11, <1>12, <1>13 DEF Own
<1> QED BY <1>7, <1>8, <1>14, <1>15, <1>16, <1>17, Framed

(* The database appears for the one request in flight. *)
LEMMA TakesEffectKeeps ==
  ASSUME IInv, NEW p \in Proposal, TakesEffect(p)
  PROVE  IInv'
<1>1. /\ TypeOK /\ Holding /\ Alone /\ Marked /\ Kept /\ RowsOf(p) /\ MessageOf(p)
      /\ ApprovalOf(p) /\ RecoveryOf(p) /\ AnswerOf(p) /\ InboxOf(p)
  BY Facts
<1>2. /\ p \in inflight /\ inflight' = inflight \ {p}
      /\ UNCHANGED <<rows, claim, lease, process, pc, job, live, faults, posts, postedBy>>
  BY DEF TakesEffect
<1>3. PICK d \in Unused, e \in BOOLEAN :
        /\ child' = [child EXCEPT ![d] = [marker |-> p, exact |-> e]]
        /\ made' = [made EXCEPT ![p] = @ \cup {d}]
  BY DEF TakesEffect
<1>4. d \in Database /\ child[d] = None
  BY DEF Unused
<1>5. /\ child' \in [Database -> Child \cup {None}]
      /\ child'[d].marker = p /\ \A x \in Database \ {d} : child'[x] = child[x]
  <2> DEFINE c == [marker |-> p, exact |-> e]
  <2>1. c \in Child /\ c.marker = p
    BY DEF Child
  <2>2. child' = [child EXCEPT ![d] = c]
    BY <1>3
  <2> HIDE DEF c
  <2> QED BY <1>1, <1>4, <2>1, <2>2 DEF TypeOK
<1>6. made[p] = {} /\ status[p] # "FAILED" /\ posts[p] = 1 /\ status[p] # "COMMITTED"
  BY <1>1, <1>2 DEF RowsOf
<1>7. /\ made' \in [Proposal -> SUBSET Database] /\ made'[p] = {d}
      /\ \A q \in Proposal \ {p} : made'[q] = made[q]
  BY <1>1, <1>3, <1>4, <1>6 DEF TypeOK
<1>8. TypeOK'
  BY <1>1, <1>2, <1>5, <1>7 DEF TypeOK, rows, process
<1>9. Frame(p)
  BY <1>2, <1>7 DEF Frame, OthersKept, MessagesKept, SameMessage, rows, process
<1>10. RowsOf(p)'
  BY <1>1, <1>2, <1>6, <1>7 DEF RowsOf, rows
<1>11. MessageOf(p)'
  BY <1>1, <1>2 DEF MessageOf, Message, rows
<1>12. ASSUME NEW u \in Update, NEW b, True(p, u, b)
       PROVE  True(p, u, b)'
  BY <1>2, <1>12 DEF True, rows
<1>13. ApprovalOf(p)'
  BY <1>1, <1>2, <1>6, <1>7 DEF ApprovalOf, ItsReceipt, Message, rows, process
<1>14. RecoveryOf(p)'
  BY <1>1, <1>2, <1>6, <1>7 DEF RecoveryOf, Message, rows, process
<1>15. AnswerOf(p)'
  BY <1>1, <1>2, <1>12 DEF AnswerOf, Message, MessageOf, Commanded
<1>16. InboxOf(p)'
  BY <1>1, <1>2, <1>12 DEF InboxOf, rows
<1>17. Holding' /\ Alone'
  BY <1>1, <1>2 DEF Holding, Alone, rows, process
<1>18. Marked'
  <2>1. \A x \in Database : child[x] # None => child[x].marker \in Proposal \cup {None}
    BY <1>1 DEF TypeOK, Child
  <2> QED BY <1>1, <1>4, <1>5, <1>6, <1>7, <2>1 DEF Marked
<1>19. Kept'
  BY <1>1, <1>2 DEF Kept, rows
<1>20. Own(p)'
  BY <1>10, <1>11, <1>13, <1>14, <1>15, <1>16 DEF Own
<1> QED BY <1>8, <1>9, <1>17, <1>18, <1>19, <1>20, Framed

(* The answer names the database that appeared. *)
LEMMA AnsweredKeeps ==
  ASSUME IInv, NEW p \in Proposal, Answered(p)
  PROVE  IInv'
<1>1. TypeOK /\ MessageOf(p) /\ ApprovalOf(p) /\ RecoveryOf(p)
  BY Facts
<1>2. /\ up /\ pc[p] = "await" /\ pc[p] \in Commanded /\ pc[p] \in Leased
      /\ p \notin inflight /\ Goto(p, "record")
      /\ UNCHANGED <<rows, claim, lease, process, world, history>>
  BY DEF Answered, At, Commanded, Approving, Creating, Leased
<1>3. PICK d \in made[p] : job' = [job EXCEPT ![p].database = d]
  BY <1>1, <1>2 DEF Answered, ApprovalOf
<1>4. d \in Database
  BY <1>1 DEF TypeOK
<1>5. /\ job' \in [Proposal -> Job] /\ \A q \in Proposal \ {p} : job'[q] = job[q]
      /\ job'[p].database = d /\ job'[p].update = job[p].update
      /\ job'[p].answer = job[p].answer /\ job'[p].signed = job[p].signed
  BY <1>1, <1>3, <1>4, JobDatabase
<1>6. /\ pc'[p] = "record" /\ "record" \in Label /\ "record" \notin Planning
      /\ "record" \in Commanded /\ "record" \notin Recovering /\ "record" \notin Ending
      /\ "record" \in Creating /\ faults' \in [Kind -> Nat]
  BY <1>1, <1>2
  DEF Goto, TypeOK, Label, Planning, Commanded, Approving, Creating, Recovering, Ending, world
<1>7. MessageOf(p)'
  BY <1>1, <1>2, <1>5, <1>6 DEF MessageOf, Message, rows, Approving, Creating
<1>8. ApprovalOf(p)'
  BY <1>1, <1>2, <1>5, <1>6
  DEF ApprovalOf, ItsReceipt, Message, rows, process, history, Creating
<1>9. RecoveryOf(p)' /\ AnswerOf(p)'
  BY <1>1, <1>2, <1>5, <1>6 DEF RecoveryOf, AnswerOf, Message, rows
<1>10. UNCHANGED <<rows, claim, lease, process, live, child, inflight, history>>
  BY <1>2 DEF world
<1> QED BY <1>2, <1>5, <1>6, <1>7, <1>8, <1>9, <1>10, Moved

(* A refused request has made nothing. *)
LEMMA RefusedKeeps ==
  ASSUME IInv, NEW p \in Proposal, Refused(p), faults' \in [Kind -> Nat]
  PROVE  IInv'
<1>1. TypeOK /\ ApprovalOf(p)
  BY Facts
<1>2. /\ up /\ pc[p] = "await" /\ pc[p] \in Commanded /\ pc[p] \in Leased /\ p \in inflight
      /\ status[p] \in Running
  BY <1>1 DEF Refused, At, Commanded, Approving, Creating, Leased, ApprovalOf, Running
<1>3. /\ SetStatus(p, "FAILED") /\ WriteJournal(p, [journal[p] EXCEPT !.status = "failed"])
      /\ Leave(p, "failed") /\ inflight' = inflight \ {p}
      /\ UNCHANGED <<approved, open, receipt, recovery, installed, lease, process,
                     live, child, history>>
  BY DEF Refused, FailApply
<1>4. "failed" \in Negative
  BY DEF Negative
<1> QED BY <1>2, <1>3, <1>4, FailedStep

(* A request that may or may not have landed leaves its thread able to say so. *)
LEMMA ToUnknown ==
  ASSUME IInv, NEW p \in Proposal, up, pc[p] \in {"await", "record", "verify", "finalize"},
         Goto(p, "unknown"), faults' \in [Kind -> Nat],
         UNCHANGED <<rows, claim, lease, process, job, live, child, inflight, history>>
  PROVE  IInv'
<1>1. TypeOK /\ MessageOf(p) /\ ApprovalOf(p) /\ RecoveryOf(p)
  BY Facts
<1>2. pc[p] \in Commanded /\ pc[p] \in Leased /\ pc[p] \in Creating
  BY DEF Commanded, Approving, Creating, Leased
<1>3. /\ pc'[p] = "unknown" /\ "unknown" \in Commanded \ Ending /\ "unknown" \notin Recovering
      /\ "unknown" # "lease"
  BY <1>1 DEF Goto, TypeOK, Commanded, Ending, Approving, Creating, Recovering
<1>4. claim[Message(p)].command = "approve"
  BY <1>1, <1>2 DEF MessageOf, Approving, Commanded
<1>5. ApprovalOf(p)'
  BY <1>1, <1>2, <1>3
  DEF ApprovalOf, rows, process, history, Creating, ItsReceipt, Message
<1>6. RecoveryOf(p)'
  BY <1>1, <1>2, <1>3 DEF RecoveryOf, Message, rows
<1>7. UNCHANGED <<rows, claim, lease, process, live, child, inflight, history>> /\ UNCHANGED job
  OBVIOUS
<1> QED BY <1>2, <1>3, <1>4, <1>5, <1>6, <1>7, Went

(* A request without an answer leaves the outcome open. *)
LEMMA UnansweredKeeps ==
  ASSUME IInv, NEW p \in Proposal, Unanswered(p), faults' \in [Kind -> Nat]
  PROVE  IInv'
<1>1. /\ up /\ pc[p] \in {"await", "record", "verify", "finalize"} /\ Goto(p, "unknown")
      /\ UNCHANGED <<rows, claim, lease, process, job, live, child, inflight, history>>
  BY DEF Unanswered, At
<1> QED BY <1>1, ToUnknown

(* Finalizing registers the database of the journal. *)
LEMMA FinalizeKeeps ==
  ASSUME IInv, NEW p \in Proposal, Finalize(p)
  PROVE  IInv'
<1>1. TypeOK /\ ApprovalOf(p)
  BY Facts
<1>2. /\ up /\ pc[p] = "finalize" /\ pc[p] \in Commanded /\ pc[p] \in Leased
      /\ status[p] \in Running /\ job[p].database \in made[p] /\ Commit(p, job[p].database)
      /\ UNCHANGED <<approved, open, receipt, journal, recovery, claim, lease, process,
                     world, history>>
  BY <1>1 DEF Finalize, At, Commanded, Approving, Creating, Leased, ApprovalOf, Running
<1>3. /\ recovery' \in [Update -> Authority \cup {None}] /\ recovery' = recovery
  BY <1>1, <1>2 DEF TypeOK
<1>4. UNCHANGED <<approved, open, receipt, journal, claim, lease, process, world, history>>
  BY <1>2
<1> QED BY <1>2, <1>3, <1>4, Committed

(* Marking the outcome unknown keeps the invariant. *)
LEMMA MarkUnknownKeeps ==
  ASSUME IInv, NEW p \in Proposal, MarkUnknown(p)
  PROVE  IInv'
<1>1. /\ TypeOK /\ Holding /\ Alone /\ Marked /\ Kept /\ RowsOf(p) /\ MessageOf(p)
      /\ ApprovalOf(p) /\ RecoveryOf(p) /\ InboxOf(p)
  BY Facts
<1>2. /\ up /\ pc[p] = "unknown" /\ pc[p] \in Commanded /\ pc[p] \in Leased
      /\ status[p] = "APPLYING" /\ Leave(p, "unknown")
      /\ UNCHANGED <<approved, open, receipt, recovery, installed, lease, process, world,
                     history>>
  BY <1>1 DEF MarkUnknown, At, Commanded, Approving, Creating, Leased, ApprovalOf
<1>3. CASE journal[p].status # "pending"
  <2>1. /\ Goto(p, "release") /\ job' = [job EXCEPT ![p].answer = "unknown"]
        /\ UNCHANGED <<rows, claim, lease, process, live, child, inflight, history>>
        /\ faults' \in [Kind -> Nat] /\ "release" \in Ending /\ "unknown" \in Answer
        /\ True(p, Message(p), "unknown")
    BY <1>1, <1>2, <1>3 DEF MarkUnknown, Leave, Ending, Answer, TypeOK, rows, world, True
  <2> QED BY <1>2, <2>1, Ended
<1>4. CASE journal[p].status = "pending"
  <2> DEFINE j == [journal[p] EXCEPT !.status = "unknown", !.finished = TRUE]
  <2>1. /\ pc' \in [Proposal -> Label] /\ pc'[p] = "release"
        /\ \A q \in Proposal \ {p} : pc'[q] = pc[q]
    BY <1>1, <1>2 DEF Leave, Goto, TypeOK, Label
  <2>2. /\ job' \in [Proposal -> Job] /\ \A q \in Proposal \ {p} : job'[q] = job[q]
        /\ job'[p].answer = "unknown" /\ job'[p].update = job[p].update
        /\ job'[p].database = job[p].database /\ job'[p].signed = job[p].signed
    <3>1. "unknown" \in Answer /\ job' = [job EXCEPT ![p].answer = "unknown"]
      BY <1>2 DEF Answer, Leave
    <3> QED BY <1>1, <3>1, JobAnswer
  <2>3. /\ status' \in [Proposal -> Status] /\ status'[p] = "UNKNOWN"
        /\ \A q \in Proposal \ {p} : status'[q] = status[q]
    BY <1>1, <1>4 DEF MarkUnknown, UnknownRows, SetStatus, TypeOK, Status
  <2>4. j \in Journal /\ j # None /\ j.attempts = journal[p].attempts
    <3>1. journal[p] \in Journal
      BY <1>1, <1>2 DEF RowsOf, TypeOK, Begun
    <3> QED BY <3>1 DEF Journal
  <2>5. JournalStep(p, j)
    <3>1. WriteJournal(p, j)
      BY <1>4 DEF MarkUnknown, UnknownRows
    <3> HIDE DEF j
    <3> QED BY <1>1, <2>4, <3>1, JournalWritten
  <2> HIDE DEF j
  <2>6. TypeOK'
    BY <1>1, <1>2, <2>1, <2>2, <2>3, <2>5 DEF TypeOK, JournalStep, process, world, history
  <2>7. Frame(p)
    BY <1>2, <2>1, <2>2, <2>3, <2>5
    DEF Frame, OthersKept, MessagesKept, SameMessage, JournalStep, process, world, history
  <2>8. RowsOf(p)'
    BY <1>1, <1>2, <2>3, <2>4, <2>5 DEF RowsOf, Begun, JournalStep, world, history
  <2>9. MessageOf(p)'
    BY <1>1, <1>2, <2>1, <2>2, <2>3, <2>5
    DEF MessageOf, Message, JournalStep, Approving, Creating, Recovering, Commanded, Ending
  <2>10. ApprovalOf(p)' /\ AnswerOf(p)'
    BY <2>1, <2>2 DEF ApprovalOf, AnswerOf, Creating, Answer, True
  <2>11. RecoveryOf(p)'
    BY <1>1, <1>2, <2>1, <2>2 DEF RecoveryOf, Message
  <2>12. InboxOf(p)'
    <3>1. ASSUME NEW u \in Update, NEW b, True(p, u, b)
          PROVE  True(p, u, b)'
      BY <1>2, <3>1 DEF True, world, history
    <3>2. receipt[p] # None => receipt[p].update \in Update
      BY <1>1 DEF TypeOK, Receipt
    <3> QED BY <1>1, <1>2, <2>3, <2>5, <3>1, <3>2 DEF InboxOf, JournalStep, history
  <2>13. Holding'
    BY <1>1, <1>2, <2>1 DEF Holding, process
  <2>14. Alone'
    BY <1>1, <1>2, <2>1, <2>3 DEF Alone, Active, Planning
  <2>15. Marked' /\ Kept'
    BY <1>1, <1>2, <2>5 DEF Marked, Kept, JournalStep, world, history
  <2>16. Own(p)'
    BY <2>8, <2>9, <2>10, <2>11, <2>12 DEF Own
  <2> QED BY <2>6, <2>7, <2>13, <2>14, <2>15, <2>16, Framed
<1> QED BY <1>3, <1>4

\* A thread that holds the lease, or is about to recover, ends its command.
LEMMA EndedWith ==
  ASSUME IInv, NEW p \in Proposal, up, pc[p] \in Commanded, NEW a \in Answer,
         End(p, a) \/ (Leave(p, a) /\ pc[p] \in Leased), True(p, Message(p), a),
         faults' \in [Kind -> Nat],
         UNCHANGED <<rows, claim, lease, process, live, child, inflight, history>>
  PROVE  IInv'
<1>1. PICK l \in Ending : /\ Goto(p, l) /\ job' = [job EXCEPT ![p].answer = a]
                          /\ l = "release" => pc[p] \in Leased
  BY DEF End, Leave, Ending
<1> QED BY <1>1, Ended

(* Entering the recovery keeps the invariant. *)
LEMMA RecoverEnterKeeps ==
  ASSUME IInv, NEW p \in Proposal, RecoverEnter(p)
  PROVE  IInv'
<1>1. TypeOK /\ MessageOf(p) /\ RecoveryOf(p) /\ Alone
  BY Facts
<1>2. /\ up /\ pc[p] = "dispatch" /\ pc[p] \in Commanded /\ faults' \in [Kind -> Nat]
      /\ claim[Message(p)].command = "recover"
      /\ UNCHANGED <<rows, claim, lease, process, live, child, inflight, history>>
  BY <1>1 DEF RecoverEnter, Asks, At, Commanded, world, TypeOK
<1>3. ASSUME status[p] = "COMMITTED", End(p, "committed")
      PROVE  IInv'
  <2>1. "committed" \in Answer /\ True(p, Message(p), "committed")
    BY <1>1, <1>3 DEF Answer, True, Alone
  <2> QED BY <1>2, <1>3, <2>1, EndedWith
<1>4. ASSUME End(p, "denied")
      PROVE  IInv'
  <2>1. "denied" \in Answer /\ True(p, Message(p), "denied")
    BY <1>2, Denied DEF Answer
  <2> QED BY <1>2, <1>4, <2>1, EndedWith
<1>5. ASSUME NEW l \in {"lease", "authority"}, status[p] \in Running,
             l = "lease" => receipt[p].secret = secret,
             l = "authority" => status[p] = "UNKNOWN",
             Goto(p, l), UNCHANGED job
      PROVE  IInv'
  <2>1. pc'[p] = l /\ l \in Commanded \ Ending /\ l \notin Leased /\ l \notin Approving
    BY <1>1, <1>5 DEF Goto, TypeOK, Commanded, Ending, Leased, Approving, Creating, Recovering
  <2>2. ApprovalOf(p)'
    BY <1>2, <1>5, <2>1 DEF ApprovalOf, Message, Creating
  <2>3. RecoveryOf(p)'
    BY <1>1, <1>2, <1>5, <2>1 DEF RecoveryOf, Message, rows, process
  <2> QED BY <1>2, <1>5, <2>1, <2>2, <2>3, Went
<1> QED BY <1>3, <1>4, <1>5 DEF RecoverEnter, Running

(* Claiming the recovery message keeps its authority. *)
LEMMA ClaimRecoveryKeeps ==
  ASSUME IInv, NEW p \in Proposal, ClaimRecovery(p)
  PROVE  IInv'
<1> DEFINE u == Message(p)
<1>1. /\ TypeOK /\ Holding /\ Alone /\ Marked /\ Kept /\ RowsOf(p) /\ MessageOf(p)
      /\ RecoveryOf(p) /\ InboxOf(p)
  BY Facts
<1>2. /\ up /\ pc[p] = "authority" /\ pc[p] \in Commanded /\ pc[p] \in Recovering
      /\ status[p] = "UNKNOWN" /\ faults' \in [Kind -> Nat]
      /\ UNCHANGED <<status, approved, open, receipt, journal, installed, claim, lease,
                     process, world, history>>
  BY <1>1 DEF ClaimRecovery, At, Commanded, Recovering, RecoveryOf, TypeOK, world
<1>3. /\ u \in Update /\ claim[u] # None /\ claim[u].proposal = p
      /\ claim[u].command = "recover" /\ claim[u].answer = None
  BY <1>1, <1>2 DEF MessageOf
<1>4. ASSUME recovery[u] # None, UNCHANGED recovery, Goto(p, "sign"), UNCHANGED job
      PROVE  IInv'
  <2>1. pc'[p] = "sign" /\ "sign" \in Commanded \ Ending /\ "sign" \notin Leased
        /\ "sign" \notin Approving /\ "sign" # "lease"
    BY <1>1, <1>4 DEF Goto, TypeOK, Commanded, Ending, Leased, Approving, Creating, Recovering
  <2>2. ApprovalOf(p)'
    BY <2>1 DEF ApprovalOf, Creating
  <2>3. RecoveryOf(p)'
    BY <1>1, <1>2, <1>4, <2>1 DEF RecoveryOf, Message
  <2>4. UNCHANGED <<rows, claim, lease, process, live, child, inflight, history>>
        /\ UNCHANGED job
    BY <1>2, <1>4 DEF rows, world
  <2> QED BY <1>2, <1>3, <1>4, <2>1, <2>2, <2>3, <2>4, Went
<1>5. ASSUME recovery[u] # None, UNCHANGED recovery, recovery[u].answer # None,
             End(p, recovery[u].answer)
      PROVE  IInv'
  <2>1. recovery[u].answer \in Answer
    BY <1>1, <1>3, <1>5 DEF TypeOK, Authority
  <2>2. True(p, u, recovery[u].answer)
    BY <1>1, <1>3, <1>5 DEF InboxOf
  <2>3. UNCHANGED <<rows, claim, lease, process, live, child, inflight, history>>
    BY <1>2, <1>5 DEF rows, world
  <2> QED BY <1>2, <1>5, <2>1, <2>2, <2>3, EndedWith
<1>6. ASSUME FirstClaim(p, u)
      PROVE  IInv'
  <2>1. /\ pc' \in [Proposal -> Label] /\ pc'[p] = "sign" /\ UNCHANGED job
        /\ \A q \in Proposal \ {p} : pc'[q] = pc[q]
    BY <1>1, <1>6 DEF FirstClaim, Goto, TypeOK, Label
  <2>2. /\ recovery' \in [Update -> Authority \cup {None}] /\ recovery[u] = None
        /\ recovery'[u] # None /\ recovery'[u].answer = None
        /\ \A v \in Update \ {u} : recovery'[v] = recovery[v]
    <3> DEFINE r == [answer |-> None, prior |-> {v \in Update : Attests(p, u, v)},
                     receipt |-> None]
    <3>1. r \in Authority /\ r.answer = None
      BY DEF Authority
    <3>2. recovery' = [recovery EXCEPT ![u] = r] /\ recovery[u] = None
      BY <1>6 DEF FirstClaim
    <3> HIDE DEF r
    <3> QED BY <1>1, <1>3, <3>1, <3>2 DEF TypeOK
  <2>3. job[p].signed = FALSE
    BY <1>1, <1>2, <2>2 DEF RecoveryOf, TypeOK, Job
  <2>4. TypeOK'
    BY <1>1, <1>2, <2>1, <2>2 DEF TypeOK, process, world, history
  <2>5. Frame(p)
    BY <1>2, <1>3, <2>1, <2>2
    DEF Frame, OthersKept, MessagesKept, SameMessage, process, world, history
  <2>6. RowsOf(p)'
    BY <1>1, <1>2 DEF RowsOf, world, history
  <2>7. MessageOf(p)'
    BY <1>1, <1>2, <1>3, <2>1 DEF MessageOf, Message, Approving, Creating
  <2>8. ApprovalOf(p)' /\ AnswerOf(p)'
    BY <2>1 DEF ApprovalOf, AnswerOf, Creating, Ending
  <2>9. RecoveryOf(p)'
    BY <1>2, <2>1, <2>2, <2>3 DEF RecoveryOf, Message
  <2>10. InboxOf(p)'
    <3>1. ASSUME NEW v \in Update, NEW b, True(p, v, b)
          PROVE  True(p, v, b)'
      BY <1>2, <3>1 DEF True, world, history
    <3>2. True(p, u, None)'
      <4>1. u \notin postedBy
        BY <1>2, <1>3, Unposted
      <4> QED BY <1>2, <4>1 DEF True, history, Answer
    <3> QED BY <1>1, <1>2, <1>3, <2>2, <3>1, <3>2 DEF InboxOf, history
  <2>11. Holding'
    BY <1>1, <1>2, <2>1 DEF Holding, Leased, process
  <2>12. Alone'
    BY <1>1, <1>2, <2>1 DEF Alone, Planning
  <2>13. Marked' /\ Kept'
    BY <1>1, <1>2, <1>3, <2>2 DEF Marked, Kept, world, history
  <2>14. Own(p)'
    BY <2>6, <2>7, <2>8, <2>9, <2>10 DEF Own
  <2> QED BY <2>4, <2>5, <2>11, <2>12, <2>13, <2>14, Framed
<1> QED BY <1>4, <1>5, <1>6 DEF ClaimRecovery, ClaimedBefore

(* Signing changes the authority of the job and nothing else of its type. *)
LEMMA JobSigned ==
  ASSUME TypeOK, NEW p \in Proposal, job' = [job EXCEPT ![p].signed = TRUE]
  PROVE  /\ job' \in [Proposal -> Job] /\ \A q \in Proposal \ {p} : job'[q] = job[q]
         /\ job'[p].signed /\ job'[p].update = job[p].update
         /\ job'[p].answer = job[p].answer /\ job'[p].database = job[p].database
<1>1. job \in [Proposal -> Job] /\ job[p] \in Job
  BY DEF TypeOK
<1>2. [job[p] EXCEPT !.signed = TRUE] \in Job
  BY <1>1 DEF Job
<1>3. job' = [job EXCEPT ![p] = [job[p] EXCEPT !.signed = TRUE]]
  OBVIOUS
<1>4. job'[p] = [job[p] EXCEPT !.signed = TRUE]
  BY <1>1, <1>3
<1>5. /\ job'[p].signed /\ job'[p].update = job[p].update
      /\ job'[p].answer = job[p].answer /\ job'[p].database = job[p].database
  BY <1>1, <1>4 DEF Job
<1> QED BY <1>1, <1>2, <1>3, <1>5

(* Signing the attestation of a recovery keeps the invariant. *)
LEMMA SignKeeps ==
  ASSUME IInv, NEW p \in Proposal, Sign(p)
  PROVE  IInv'
<1> DEFINE u == Message(p)
<1>1. /\ TypeOK /\ Holding /\ Alone /\ Marked /\ Kept /\ RowsOf(p) /\ MessageOf(p)
      /\ RecoveryOf(p) /\ InboxOf(p)
  BY Facts
<1>2. /\ up /\ pc[p] = "sign" /\ pc[p] \in Commanded /\ pc[p] \in Recovering
      /\ status[p] = "UNKNOWN" /\ faults' \in [Kind -> Nat] /\ recovery[u] # None
      /\ UNCHANGED <<status, approved, open, receipt, journal, installed, claim, lease,
                     process, world, history>>
  BY <1>1 DEF Sign, At, Commanded, Recovering, RecoveryOf, TypeOK, world
<1>3. /\ u \in Update /\ claim[u] # None /\ claim[u].proposal = p
      /\ claim[u].command = "recover" /\ claim[u].answer = None
  BY <1>1, <1>2 DEF MessageOf
<1>4. ASSUME End(p, "denied"), UNCHANGED recovery
      PROVE  IInv'
  <2>1. "denied" \in Answer /\ True(p, Message(p), "denied")
    BY <1>2, <1>3, Denied DEF Answer
  <2>2. UNCHANGED <<rows, claim, lease, process, live, child, inflight, history>>
    BY <1>2, <1>4 DEF rows, world
  <2> QED BY <1>2, <1>4, <2>1, <2>2, EndedWith
<1>5. ASSUME SignNew(p, u) \/ (Receipted(u) /\ UNCHANGED recovery),
             job' = [job EXCEPT ![p].signed = TRUE], Goto(p, "lease")
      PROVE  IInv'
  <2>1. /\ pc' \in [Proposal -> Label] /\ pc'[p] = "lease"
        /\ \A q \in Proposal \ {p} : pc'[q] = pc[q]
    BY <1>1, <1>5 DEF Goto, TypeOK, Label
  <2>2. /\ job' \in [Proposal -> Job] /\ \A q \in Proposal \ {p} : job'[q] = job[q]
        /\ job'[p].signed /\ job'[p].update = job[p].update
    BY <1>1, <1>5, JobSigned
  <2>3. /\ recovery' \in [Update -> Authority \cup {None}]
        /\ recovery'[u] # None /\ recovery'[u].answer = recovery[u].answer
        /\ recovery'[u].receipt # None
        /\ \A v \in Update \ {u} : recovery'[v] = recovery[v]
    <3>1. CASE Receipted(u) /\ UNCHANGED recovery
      BY <1>1, <1>2, <3>1 DEF TypeOK, Receipted
    <3>2. CASE SignNew(p, u)
      <4>1. Grant \in Grants
        BY <1>1 DEF Grant, Grants, TypeOK
      <4>2. recovery' = [recovery EXCEPT ![u].receipt = Grant]
        BY <3>2 DEF SignNew
      <4> QED BY <1>1, <1>2, <1>3, <4>1, <4>2, RecoveryReceipt
    <3> QED BY <1>5, <3>1, <3>2
  <2>4. TypeOK'
    BY <1>1, <1>2, <2>1, <2>2, <2>3 DEF TypeOK, process, world, history
  <2>5. Frame(p)
    BY <1>2, <1>3, <2>1, <2>2, <2>3
    DEF Frame, OthersKept, MessagesKept, SameMessage, process, world, history
  <2>6. RowsOf(p)'
    BY <1>1, <1>2 DEF RowsOf, world, history
  <2>7. MessageOf(p)'
    BY <1>1, <1>2, <1>3, <2>1, <2>2
    DEF MessageOf, Message, Approving, Creating, Recovering
  <2>8. ApprovalOf(p)' /\ AnswerOf(p)'
    BY <1>2, <1>3, <2>1, <2>2 DEF ApprovalOf, AnswerOf, Message, Creating, Ending
  <2>9. RecoveryOf(p)'
    BY <1>2, <2>1, <2>2, <2>3 DEF RecoveryOf, Message, Running
  <2>10. InboxOf(p)'
    <3>1. ASSUME NEW v \in Update, NEW b, True(p, v, b)
          PROVE  True(p, v, b)'
      BY <1>2, <3>1 DEF True, world, history
    <3> QED BY <1>1, <1>2, <1>3, <2>3, <3>1 DEF InboxOf, history
  <2>11. Holding'
    BY <1>1, <1>2, <2>1 DEF Holding, Leased, process
  <2>12. Alone'
    BY <1>1, <1>2, <2>1 DEF Alone, Planning
  <2>13. Marked' /\ Kept'
    BY <1>1, <1>2, <1>3, <2>3 DEF Marked, Kept, world, history
  <2>14. Own(p)'
    BY <2>6, <2>7, <2>8, <2>9, <2>10 DEF Own
  <2> QED BY <2>4, <2>5, <2>11, <2>12, <2>13, <2>14, Framed
<1> QED BY <1>4, <1>5 DEF Sign

(* A look at Notion that fails leaves the proposal as it was. *)
LEMMA LookUnknownKeeps ==
  ASSUME IInv, NEW p \in Proposal, LookUnknown(p)
  PROVE  IInv'
<1>1. TypeOK
  BY Facts
<1>2. /\ up /\ pc[p] \in Commanded /\ pc[p] \in Leased /\ Leave(p, "unknown")
      /\ UNCHANGED <<rows, claim, lease, process, live, child, inflight, history>>
      /\ faults' \in [Kind -> Nat] /\ "unknown" \in Answer /\ True(p, Message(p), "unknown")
  BY <1>1 DEF LookUnknown, At, Commanded, Recovering, Leased, Answer, TypeOK, world, True
<1> QED BY <1>2, EndedWith

(* Looking for the database the attempt may have made keeps the invariant. *)
LEMMA LookKeeps ==
  ASSUME IInv, NEW p \in Proposal, Look(p)
  PROVE  IInv'
<1>1. TypeOK /\ Marked /\ RowsOf(p) /\ MessageOf(p) /\ ApprovalOf(p) /\ RecoveryOf(p)
  BY Facts
<1>2. /\ up /\ pc[p] = "look" /\ pc[p] \in Commanded /\ pc[p] \in Leased /\ pc[p] \in Recovering
      /\ status[p] \in Running /\ claim[Message(p)].command = "recover"
      /\ job[p].signed \/ receipt[p].secret = secret
  BY <1>1 DEF Look, At, Commanded, Recovering, Leased, RecoveryOf, MessageOf
<1>3. ASSUME NEW a \in {"conflict", "denied", "unknown"}, Leave(p, a),
             UNCHANGED <<rows, claim, lease, process, world, history>>
      PROVE  IInv'
  <2>1. a \in Answer /\ True(p, Message(p), a)
    BY <1>2, Denied DEF Answer, True
  <2>2. UNCHANGED <<rows, claim, lease, process, live, child, inflight, history>>
        /\ faults' \in [Kind -> Nat]
    BY <1>1, <1>3 DEF world, TypeOK
  <2> QED BY <1>2, <1>3, <2>1, <2>2, EndedWith
<1>4. ASSUME journal[p].attempts = 0, FailApply(p, "failed"), UNCHANGED <<world, history>>
      PROVE  IInv'
  <2>1. /\ SetStatus(p, "FAILED") /\ WriteJournal(p, [journal[p] EXCEPT !.status = "failed"])
        /\ Leave(p, "failed") /\ faults' \in [Kind -> Nat] /\ inflight' = inflight
        /\ UNCHANGED <<approved, open, receipt, recovery, installed, lease, process,
                       live, child, history>>
    BY <1>1, <1>4 DEF FailApply, world, TypeOK
  <2>2. posts[p] = 0
    BY <1>1, <1>4 DEF RowsOf
  <2>3. inflight' = inflight \ {p}
    BY <1>1, <2>1, <2>2 DEF RowsOf
  <2>4. "failed" \in Negative
    BY DEF Negative
  <2> QED BY <1>2, <2>1, <2>2, <2>3, <2>4, FailedStep
<1>5. ASSUME NEW d \in Database, Relevant = {d}, Proven(p, d),
             job' = [job EXCEPT ![p].database = d],
             NEW l \in {"register", "adopt"}, l = "register" => job[p].signed, Goto(p, l),
             UNCHANGED <<rows, claim, lease, process, world, history>>
      PROVE  IInv'
  <2>1. d \in made[p]
    <3>1. child[d] # None /\ child[d].marker = p
      BY <1>5 DEF Relevant, Proven
    <3> QED BY <1>1, <3>1 DEF Marked
  <2>2. /\ job' \in [Proposal -> Job] /\ \A q \in Proposal \ {p} : job'[q] = job[q]
        /\ job'[p].database = d /\ job'[p].update = job[p].update
        /\ job'[p].answer = job[p].answer /\ job'[p].signed = job[p].signed
    BY <1>1, <1>5, JobDatabase
  <2>3. /\ pc'[p] = l /\ l \in Label /\ l \notin Planning /\ l \in Commanded
        /\ l \in Recovering /\ l \notin Approving /\ l \notin Ending /\ faults' \in [Kind -> Nat]
    BY <1>1, <1>5
    DEF Goto, TypeOK, Label, Planning, Commanded, Approving, Creating, Recovering, Ending, world
  <2>4. MessageOf(p)'
    BY <1>1, <1>2, <1>5, <2>2, <2>3 DEF MessageOf, Message, rows
  <2>5. ApprovalOf(p)' /\ AnswerOf(p)'
    BY <1>5, <2>3 DEF ApprovalOf, AnswerOf, Approving, Creating
  <2>6. RecoveryOf(p)'
    BY <1>1, <1>2, <1>5, <2>1, <2>2, <2>3
    DEF RecoveryOf, Message, Proven, rows, process, history
  <2>7. UNCHANGED <<rows, claim, lease, process, live, child, inflight, history>>
    BY <1>5 DEF world
  <2> QED BY <1>2, <1>5, <2>2, <2>3, <2>4, <2>5, <2>6, <2>7, Moved
<1> QED BY <1>3, <1>4, <1>5 DEF Look

(* An adopted database is the one the evidence attests. *)
LEMMA AdoptKeeps ==
  ASSUME IInv, NEW p \in Proposal, Adopt(p)
  PROVE  IInv'
<1> DEFINE j == [journal[p] EXCEPT
                   !.status = IF status[p] = "UNKNOWN" THEN "unknown" ELSE "done",
                   !.database = job[p].database, !.finished = TRUE]
<1>1. TypeOK /\ ApprovalOf(p) /\ RecoveryOf(p) /\ RowsOf(p) /\ MessageOf(p)
  BY Facts
<1>2. /\ up /\ pc[p] = "adopt" /\ pc[p] \in Commanded /\ pc[p] \in Leased /\ pc[p] \in Recovering
      /\ status[p] \in Running
  BY <1>1 DEF Adopt, At, Commanded, Recovering, Leased, RecoveryOf
<1>3. j \in Journal /\ j.attempts = journal[p].attempts /\ j.database = job[p].database
  <2>1. journal[p] \in Journal /\ job[p].database \in Database
    BY <1>1, <1>2 DEF RowsOf, RecoveryOf, TypeOK, Begun, Running
  <2> QED BY <2>1 DEF Journal
<1>4. /\ WriteJournal(p, j) /\ Goto(p, "register")
      /\ UNCHANGED <<status, approved, open, receipt, recovery, installed, lease, process,
                     job, world, history>>
  BY DEF Adopt
<1> HIDE DEF j
<1>5. pc'[p] = "register" /\ "register" \in Leased \cap Commanded /\ "register" \notin Ending
      /\ "register" \notin Approving
  BY <1>1, <1>4 DEF Goto, TypeOK, Leased, Commanded, Approving, Creating, Ending, Recovering
<1>6. JournalStep(p, j) => ApprovalOf(p)'
  BY <1>5 DEF ApprovalOf, Creating
<1>7. JournalStep(p, j) => RecoveryOf(p)'
  BY <1>1, <1>2, <1>3, <1>4, <1>5 DEF RecoveryOf, JournalStep, Message, process, history
<1> QED BY <1>2, <1>3, <1>4, <1>5, <1>6, <1>7, Journaled

(* Registering an adopted database completes the proposal. *)
LEMMA RegisterKeeps ==
  ASSUME IInv, NEW p \in Proposal, Register(p)
  PROVE  IInv'
<1> DEFINE u == Message(p)
<1>1. TypeOK /\ MessageOf(p) /\ RecoveryOf(p)
  BY Facts
<1>2. /\ up /\ pc[p] = "register" /\ pc[p] \in Commanded /\ pc[p] \in Leased
      /\ pc[p] \in Recovering /\ status[p] \in Running /\ job[p].database \in made[p]
      /\ claim[u].command = "recover" /\ u \in Update
      /\ UNCHANGED <<approved, open, receipt, journal, claim, lease, process, world, history>>
  BY <1>1 DEF Register, At, Commanded, Recovering, Leased, RecoveryOf, MessageOf
<1>3. ASSUME Commit(p, job[p].database), UNCHANGED recovery
      PROVE  IInv'
  <2>1. recovery' \in [Update -> Authority \cup {None}]
    BY <1>1, <1>3 DEF TypeOK
  <2> QED BY <1>2, <1>3, <2>1, Committed
<1>4. ASSUME job[p].signed, Commit(p, job[p].database), Spend(u)
      PROVE  IInv'
  <2>1. recovery[u] # None /\ recovery[u].receipt # None
    BY <1>1, <1>2, <1>4 DEF RecoveryOf
  <2> DEFINE g == [recovery[u].receipt EXCEPT !.used = TRUE]
  <2>2. g \in Grants
    <3>1. recovery[u].receipt \in Grants
      BY <1>1, <1>2, <2>1 DEF TypeOK, Authority
    <3> QED BY <3>1 DEF Grants
  <2>3. recovery' = [recovery EXCEPT ![u].receipt = g]
    BY <1>4 DEF Spend
  <2> HIDE DEF g
  <2>4. /\ recovery' \in [Update -> Authority \cup {None}]
        /\ \A v \in Update \ {u} : recovery'[v] = recovery[v]
        /\ recovery'[u] # None /\ recovery'[u].answer = recovery[u].answer
        /\ recovery'[u].receipt # None
    BY <1>1, <1>2, <2>1, <2>2, <2>3, RecoveryReceipt
  <2> QED BY <1>2, <1>4, <2>1, <2>4, Committed
<1>5. ASSUME Leave(p, "denied"), UNCHANGED <<status, recovery, installed>>
      PROVE  IInv'
  <2>1. "denied" \in Answer /\ True(p, Message(p), "denied")
    BY <1>2, Denied DEF Answer
  <2>2. UNCHANGED <<rows, claim, lease, process, live, child, inflight, history>>
        /\ faults' \in [Kind -> Nat]
    BY <1>1, <1>2, <1>5 DEF rows, world, TypeOK
  <2> QED BY <1>2, <1>5, <2>1, <2>2, EndedWith
<1> QED BY <1>3, <1>4, <1>5 DEF Register, RegisterSigned

\* A fault is counted.
LEMMA FaultType ==
  ASSUME faults \in [Kind -> Nat], NEW k \in Kind, Fault(k)
  PROVE  faults' \in [Kind -> Nat]
  BY DEF Fault

(* A command cut short by an exception keeps the invariant. *)
LEMMA RaiseKeeps ==
  ASSUME IInv, NEW p \in Proposal, Raise(p)
  PROVE  IInv'
<1>1. TypeOK /\ MessageOf(p) /\ ApprovalOf(p) /\ RecoveryOf(p) /\ RowsOf(p)
  BY Facts
<1>2. /\ up /\ faults' \in [Kind -> Nat]
      /\ UNCHANGED <<approved, open, receipt, recovery, installed, lease, process,
                     live, child, inflight, history>>
  BY <1>1, FaultType DEF Raise, Kind, TypeOK
<1>3. pc[p] \in Recovering => claim[Message(p)].command # "approve"
  BY <1>1 DEF MessageOf, Commanded
<1>4. CASE /\ pc[p] \in {"preview", "attempt", "look", "adopt", "register"}
           /\ Leave(p, "denied") /\ UNCHANGED <<status, journal, claim>>
  <2>1. pc[p] \in Commanded /\ pc[p] \in Leased
    BY <1>4 DEF Commanded, Leased, Approving, Creating, Recovering
  <2>2. posts[p] = 0 \/ claim[Message(p)].command # "approve"
    BY <1>1, <1>3, <1>4 DEF ApprovalOf, RowsOf, Begun, Recovering
  <2>3. "denied" \in Answer /\ True(p, Message(p), "denied")
    BY <2>1, <2>2, Denied DEF Answer
  <2>4. UNCHANGED <<rows, claim, lease, process, live, child, inflight, history>>
    BY <1>2, <1>4 DEF rows
  <2> QED BY <1>2, <1>4, <2>1, <2>3, <2>4, EndedWith
<1>5. CASE /\ pc[p] \in {"issue", "begin"}
           /\ Aborted(p) /\ Leave(p, "denied") /\ UNCHANGED <<journal, claim>>
  <2>1. pc[p] \in Commanded /\ pc[p] \in Leased /\ status[p] \in {"PENDING", "APPROVED"}
    BY <1>1, <1>5 DEF Commanded, Leased, Approving, ApprovalOf
  <2>2. CASE status[p] = "APPROVED"
    <3>1. SetStatus(p, "STALE")
      BY <1>5, <2>2 DEF Aborted, SetStatus
    <3>2. "STALE" \in Closing /\ "STALE" \notin Dismissed /\ "denied" \in Refusal
      BY DEF Closing, Dismissed, Refusal
    <3>3. UNCHANGED <<approved, open, receipt, journal, recovery, installed, claim, lease,
                      process, live, child, inflight, history>>
      BY <1>2, <1>5
    <3> QED BY <1>2, <1>5, <2>1, <3>1, <3>2, <3>3, Closed
  <2>3. CASE status[p] = "PENDING"
    <3>1. posts[p] = 0
      BY <1>1, <2>3 DEF RowsOf, Begun
    <3>2. "denied" \in Answer /\ True(p, Message(p), "denied")
      BY <2>1, <3>1, Denied DEF Answer
    <3>3. UNCHANGED <<rows, claim, lease, process, live, child, inflight, history>>
      BY <1>2, <1>5, <2>3 DEF rows, Aborted
    <3> QED BY <1>2, <1>5, <2>1, <3>2, <3>3, EndedWith
  <2> QED BY <2>1, <2>2, <2>3
<1>6. CASE /\ pc[p] = "recheck" /\ SetStatus(p, "FAILED")
           /\ WriteJournal(p, [journal[p] EXCEPT !.status = "failed"]) /\ Leave(p, "denied")
  <2>1. pc[p] \in Commanded /\ pc[p] \in Leased /\ status[p] \in Running /\ posts[p] = 0
    BY <1>1, <1>6 DEF Commanded, Leased, Approving, Creating, ApprovalOf, Running
  <2>2. inflight' = inflight \ {p} /\ "denied" \in Negative
    BY <1>1, <1>2, <2>1 DEF RowsOf, Negative
  <2> QED BY <1>2, <1>6, <2>1, <2>2, FailedStep
<1>7. CASE /\ pc[p] \in {"record", "verify", "finalize"}
           /\ Goto(p, "unknown") /\ UNCHANGED <<job, status, journal, claim>>
  <2>1. UNCHANGED <<rows, claim, lease, process, job, live, child, inflight, history>>
        /\ pc[p] \in {"await", "record", "verify", "finalize"}
    BY <1>2, <1>7 DEF rows
  <2> QED BY <1>2, <1>7, <2>1, ToUnknown
<1>8. CASE pc[p] = "unknown" /\ Leave(p, "unknown") /\ UNCHANGED <<status, journal, claim>>
  <2>1. /\ pc[p] \in Commanded /\ pc[p] \in Leased
        /\ "unknown" \in Answer /\ True(p, Message(p), "unknown")
        /\ UNCHANGED <<rows, claim, lease, process, live, child, inflight, history>>
    BY <1>2, <1>8 DEF Commanded, Leased, Approving, Creating, Answer, True, rows
  <2> QED BY <1>2, <1>8, <2>1, EndedWith
<1>9. CASE /\ pc[p] \in {"authority", "sign"}
           /\ End(p, "denied") /\ UNCHANGED <<status, journal, claim>>
  <2>1. pc[p] \in Commanded /\ pc[p] \in Recovering
    BY <1>9 DEF Commanded, Recovering
  <2>2. "denied" \in Answer /\ True(p, Message(p), "denied")
    BY <1>3, <2>1, Denied DEF Answer
  <2>3. UNCHANGED <<rows, claim, lease, process, live, child, inflight, history>>
    BY <1>2, <1>9 DEF rows
  <2> QED BY <1>2, <1>9, <2>1, <2>2, <2>3, EndedWith
<1>10. CASE pc[p] = "release" /\ End(p, "error") /\ UNCHANGED <<status, journal, claim>>
  <2>1. /\ pc[p] \in Commanded /\ "error" \in Answer /\ True(p, Message(p), "error")
        /\ UNCHANGED <<rows, claim, lease, process, live, child, inflight, history>>
    BY <1>2, <1>10 DEF Commanded, Ending, Answer, True, rows
  <2> QED BY <1>2, <1>10, <2>1, EndedWith
<1>11. CASE /\ pc[p] \in {"complete", "answer"} /\ Goto(p, "idle")
            /\ job' = [job EXCEPT ![p] = IdleJob] /\ UNCHANGED <<status, journal, claim>>
  <2>1. UNCHANGED <<rows, claim, lease, process, live, child, inflight, history>>
    BY <1>2, <1>11 DEF rows
  <2> QED BY <1>2, <1>11, <2>1, Dropped
<1> QED BY <1>4, <1>5, <1>6, <1>7, <1>8, <1>9, <1>10, <1>11 DEF Raise

-----------------------------------------------------------------------------
(* The disturbances.                                                          *)

\* No thread runs.
LEMMA Resting ==
  ASSUME IInv, TypeOK', \A p \in Proposal : pc'[p] = "idle",
         UNCHANGED <<rows, claim, child, inflight, history>>
  PROVE  IInv'
<1>1. TypeOK /\ Alone /\ Marked /\ Kept
  BY DEF IInv
<1>2. ASSUME NEW p \in Proposal
      PROVE  Own(p)'
  <2>1. RowsOf(p) /\ InboxOf(p)
    BY Facts
  <2>2. RowsOf(p)' /\ InboxOf(p)'
    BY <2>1 DEF RowsOf, InboxOf, True, rows, history
  <2>3. MessageOf(p)' /\ ApprovalOf(p)' /\ RecoveryOf(p)' /\ AnswerOf(p)'
    BY DEF MessageOf, ApprovalOf, RecoveryOf, AnswerOf, Commanded, Approving, Creating,
           Recovering, Ending
  <2> QED BY <2>2, <2>3 DEF Own
<1>3. Holding'
  BY DEF Holding, Leased
<1>4. Alone'
  BY <1>1 DEF Alone, Planning, rows
<1>5. Marked' /\ Kept'
  BY <1>1 DEF Marked, Kept, rows, history
<1> QED BY <1>2, <1>3, <1>4, <1>5 DEF IInv, Owns

(* A crash stops every thread and keeps what the database holds. *)
LEMMA CrashKeeps == ASSUME IInv, Crash PROVE IInv'
<1>1. TypeOK
  BY DEF IInv
<1>2. /\ up' = FALSE /\ pc' = [p \in Proposal |-> "idle"] /\ job' = [p \in Proposal |-> IdleJob]
      /\ UNCHANGED <<rows, claim, secret, configured, live, child, inflight, history>>
  BY DEF Crash
<1>3. lease' \in Lease \cup {None}
  <2>1. lease # None => [lease EXCEPT !.alive = FALSE] \in Lease
    BY <1>1 DEF TypeOK, Lease
  <2> QED BY <2>1 DEF Crash
<1>4. faults' \in [Kind -> Nat]
  BY <1>1, FaultType DEF Crash, Kind, TypeOK
<1>5. pc' \in [Proposal -> Label] /\ job' \in [Proposal -> Job]
  BY <1>2, IdleJobType DEF Label
<1>6. TypeOK'
  BY <1>1, <1>2, <1>3, <1>4, <1>5 DEF TypeOK, rows, history
<1> QED BY <1>2, <1>6, Resting

(* A restart, with the same secret or a rotated one, keeps the invariant. *)
LEMMA RestartKeeps == ASSUME IInv, Restart \/ RestartRotated PROVE IInv'
<1>1. TypeOK /\ Holding
  BY DEF IInv
<1>2. /\ ~up /\ up' = TRUE /\ secret' \in Secret
      /\ UNCHANGED <<rows, claim, lease, configured, pc, job, live, child, inflight, history>>
  BY <1>1 DEF Restart, RestartRotated, world, TypeOK
<1>3. faults' \in [Kind -> Nat]
  BY <1>1, FaultType DEF Restart, RestartRotated, Kind, TypeOK, world
<1>4. TypeOK'
  BY <1>1, <1>2, <1>3 DEF TypeOK, rows, history
<1>5. \A p \in Proposal : pc'[p] = "idle"
  BY <1>1, <1>2 DEF Holding
<1> QED BY <1>2, <1>4, <1>5, Resting

\* A receipt changes in nothing but its window.
LEMMA Expiring ==
  ASSUME IInv, TypeOK',
         \A p \in Proposal :
           /\ receipt'[p] = None <=> receipt[p] = None
           /\ receipt'[p].update = receipt[p].update \/ receipt[p] = None
           /\ receipt'[p].secret = receipt[p].secret \/ receipt[p] = None,
         \A u \in Update :
           /\ recovery'[u] = None <=> recovery[u] = None
           /\ recovery'[u].answer = recovery[u].answer \/ recovery[u] = None
           /\ (recovery'[u].receipt = None <=> recovery[u].receipt = None) \/ recovery[u] = None,
         UNCHANGED <<status, approved, journal, installed, claim, lease, up, secret, pc, job,
                     child, inflight, history>>
  PROVE  IInv'
<1>1. TypeOK /\ Holding /\ Alone /\ Marked /\ Kept
  BY DEF IInv
<1>2. ASSUME NEW p \in Proposal
      PROVE  Own(p)'
  <2>1. RowsOf(p) /\ MessageOf(p) /\ ApprovalOf(p) /\ RecoveryOf(p) /\ AnswerOf(p) /\ InboxOf(p)
    BY Facts
  <2>2. RowsOf(p)'
    BY <2>1 DEF RowsOf, history
  <2>3. MessageOf(p)'
    BY <2>1 DEF MessageOf, Message
  <2>4. \/ receipt[p] # None
        \/ pc[p] \notin {"begin"} \cup Creating \cup {"look", "adopt", "register"}
    BY <2>1 DEF RowsOf, ApprovalOf, RecoveryOf, Begun, Running
  <2>5. ApprovalOf(p)'
    BY <2>1, <2>4 DEF ApprovalOf, ItsReceipt, Message, history
  <2>6. RecoveryOf(p)'
    <3>1. pc[p] = "lease" /\ claim[Message(p)].command = "recover" => receipt[p] # None
      BY <2>1 DEF RecoveryOf, RowsOf, Begun, Running
    <3>2. pc[p] \in Commanded => Message(p) \in Update
      BY <2>1 DEF MessageOf
    <3>3. "sign" \in Commanded
      BY DEF Commanded, Recovering
    <3> QED BY <2>1, <2>4, <3>1, <3>2, <3>3 DEF RecoveryOf, Message, history
  <2>7. ASSUME NEW u \in Update, NEW b, True(p, u, b)
        PROVE  True(p, u, b)'
    BY <2>7 DEF True, history
  <2>8. AnswerOf(p)'
    BY <2>1, <2>7 DEF AnswerOf, Message, MessageOf, Commanded
  <2>9. InboxOf(p)'
    <3>1. receipt[p] # None => receipt[p].update \in Update
      BY <1>1 DEF TypeOK, Receipt
    <3> QED BY <2>1, <2>7, <3>1 DEF InboxOf, history
  <2> QED BY <2>2, <2>3, <2>5, <2>6, <2>8, <2>9 DEF Own
<1>3. Holding' /\ Alone'
  BY <1>1 DEF Holding, Alone
<1>4. Marked' /\ Kept'
  BY <1>1 DEF Marked, Kept, history
<1> QED BY <1>2, <1>3, <1>4 DEF IInv, Owns

(* The lapse of an approval keeps the invariant. *)
LEMMA ExpireKeeps == ASSUME IInv, Expire PROVE IInv'
<1>1. TypeOK
  BY DEF IInv
<1>2. /\ faults' \in [Kind -> Nat]
      /\ UNCHANGED <<status, approved, journal, installed, claim, lease, process, pc, job,
                     live, child, inflight, history>>
  BY <1>1, FaultType DEF Expire, Kind, TypeOK
<1>3. UNCHANGED <<status, approved, journal, installed, claim, lease, up, secret, pc, job,
                  child, inflight, history>>
  BY <1>2 DEF process
<1>4. ASSUME open' \in [Proposal -> BOOLEAN], receipt' \in [Proposal -> Receipt \cup {None}],
             recovery' \in [Update -> Authority \cup {None}]
      PROVE  TypeOK'
  BY <1>1, <1>2, <1>4 DEF TypeOK, process, history
<1>5. CASE \E p \in Proposal :
             /\ open[p] /\ status[p] = "PENDING" /\ open' = [open EXCEPT ![p] = FALSE]
             /\ UNCHANGED <<receipt, recovery>>
  <2>1. TypeOK'
    BY <1>1, <1>4, <1>5 DEF TypeOK
  <2> QED BY <1>3, <1>5, <2>1, Expiring
<1>6. CASE \E p \in Proposal :
             /\ receipt[p] # None /\ status[p] = "APPROVED" /\ receipt[p].open
             /\ receipt' = [receipt EXCEPT ![p].open = FALSE]
             /\ UNCHANGED <<open, recovery>>
  <2> PICK p \in Proposal : /\ receipt[p] # None /\ receipt' = [receipt EXCEPT ![p].open = FALSE]
                            /\ UNCHANGED <<open, recovery>>
    BY <1>6
  <2> DEFINE r == [receipt[p] EXCEPT !.open = FALSE]
  <2>1. r \in Receipt /\ r.update = receipt[p].update /\ r.secret = receipt[p].secret
    <3>1. receipt[p] \in Receipt
      BY <1>1 DEF TypeOK
    <3> QED BY <3>1 DEF Receipt
  <2>2. receipt' = [receipt EXCEPT ![p] = r] /\ receipt \in [Proposal -> Receipt \cup {None}]
    BY <1>1 DEF TypeOK
  <2> HIDE DEF r
  <2>3. /\ receipt' \in [Proposal -> Receipt \cup {None}]
        /\ \A q \in Proposal :
             /\ receipt'[q] = None <=> receipt[q] = None
             /\ receipt'[q].update = receipt[q].update \/ receipt[q] = None
             /\ receipt'[q].secret = receipt[q].secret \/ receipt[q] = None
    BY <2>1, <2>2
  <2>4. TypeOK'
    BY <1>1, <1>4, <2>3 DEF TypeOK
  <2> QED BY <1>3, <2>3, <2>4, Expiring
<1>7. CASE \E u \in Update :
             /\ recovery[u] # None /\ recovery[u].receipt # None
             /\ recovery[u].receipt.open /\ ~recovery[u].receipt.used
             /\ recovery' = [recovery EXCEPT ![u].receipt.open = FALSE]
             /\ UNCHANGED <<open, receipt>>
  <2> PICK u \in Update : /\ recovery[u] # None /\ recovery[u].receipt # None
                          /\ recovery' = [recovery EXCEPT ![u].receipt.open = FALSE]
                          /\ UNCHANGED <<open, receipt>>
    BY <1>7
  <2> DEFINE g == [recovery[u].receipt EXCEPT !.open = FALSE]
  <2>1. g \in Grants
    <3>1. recovery[u].receipt \in Grants
      BY <1>1 DEF TypeOK, Authority
    <3> QED BY <3>1 DEF Grants
  <2>2. recovery' = [recovery EXCEPT ![u].receipt = g]
    OBVIOUS
  <2> HIDE DEF g
  <2>3. /\ recovery' \in [Update -> Authority \cup {None}]
        /\ \A v \in Update \ {u} : recovery'[v] = recovery[v]
        /\ recovery'[u] # None /\ recovery'[u].answer = recovery[u].answer
        /\ recovery'[u].receipt # None
    BY <1>1, <2>1, <2>2, RecoveryReceipt
  <2>4. TypeOK'
    BY <1>1, <1>4, <2>3 DEF TypeOK
  <2>5. \A v \in Update :
           /\ recovery'[v] = None <=> recovery[v] = None
           /\ recovery'[v].answer = recovery[v].answer \/ recovery[v] = None
           /\ (recovery'[v].receipt = None <=> recovery[v].receipt = None) \/ recovery[v] = None
    BY <2>3
  <2> QED BY <1>3, <2>4, <2>5, Expiring
<1> QED BY <1>5, <1>6, <1>7 DEF Expire

\* What the threads know does not depend on the parent, the configuration and
\* what a user does to a database.
LEMMA Elsewhere ==
  ASSUME IInv, TypeOK', Marked',
         UNCHANGED <<rows, claim, lease, up, secret, pc, job, inflight, history>>
  PROVE  IInv'
<1>1. TypeOK /\ Holding /\ Alone /\ Kept
  BY DEF IInv
<1>2. ASSUME NEW p \in Proposal
      PROVE  Own(p)'
  <2>1. RowsOf(p) /\ MessageOf(p) /\ ApprovalOf(p) /\ RecoveryOf(p) /\ AnswerOf(p) /\ InboxOf(p)
    BY Facts
  <2>2. RowsOf(p)' /\ MessageOf(p)' /\ InboxOf(p)'
    BY <2>1 DEF RowsOf, MessageOf, InboxOf, True, Message, rows, history
  <2>3. ApprovalOf(p)' /\ RecoveryOf(p)' /\ AnswerOf(p)'
    BY <2>1 DEF ApprovalOf, RecoveryOf, AnswerOf, ItsReceipt, True, Message, rows, history
  <2> QED BY <2>2, <2>3 DEF Own
<1>3. Holding' /\ Alone' /\ Kept'
  BY <1>1 DEF Holding, Alone, Kept, rows, history
<1> QED BY <1>2, <1>3 DEF IInv, Owns

(* The users' edits in Notion and of the configuration keep the invariant. *)
LEMMA UserKeeps == ASSUME IInv, UserDrifts \/ UserEdits \/ Configure PROVE IInv'
<1>1. TypeOK /\ Marked
  BY DEF IInv
<1>2. /\ UNCHANGED <<rows, claim, lease, up, secret, pc, job, inflight, history>>
      /\ live' \in Base /\ configured' \in BOOLEAN
  BY <1>1 DEF UserDrifts, UserEdits, Configure, process, TypeOK
<1>3. faults' \in [Kind -> Nat]
  BY <1>1, FaultType DEF UserDrifts, UserEdits, Configure, Kind, TypeOK
<1>4. /\ child' \in [Database -> Child \cup {None}]
      /\ \A x \in Database : child'[x] # None /\ child'[x].marker # None
           => child[x] # None /\ child[x].marker = child'[x].marker
  <2>1. CASE UserDrifts \/ Configure
    BY <1>1, <2>1 DEF UserDrifts, Configure, TypeOK
  <2>2. CASE UserEdits
    <3>1. ASSUME NEW d \in Database, NEW c \in Child \cup {None}, child' = [child EXCEPT ![d] = c],
                 c # None => c.marker = None \/ (child[d] # None /\ c.marker = child[d].marker)
          PROVE  /\ child' \in [Database -> Child \cup {None}]
                 /\ \A x \in Database : child'[x] # None /\ child'[x].marker # None
                      => child[x] # None /\ child[x].marker = child'[x].marker
      BY <1>1, <3>1 DEF TypeOK
    <3>2. CASE \E d \in Unused : child' = [child EXCEPT ![d] = [marker |-> None, exact |-> FALSE]]
      <4> DEFINE c == [marker |-> None, exact |-> FALSE]
      <4>1. PICK d \in Database : child' = [child EXCEPT ![d] = c]
        BY <3>2 DEF Unused
      <4>2. c \in Child \cup {None} /\ c.marker = None
        BY DEF Child
      <4> HIDE DEF c
      <4> QED BY <4>1, <4>2, <3>1
    <3>3. CASE \E d \in Relevant : child' = [child EXCEPT ![d] = None]
      BY <3>1, <3>3 DEF Relevant
    <3>4. CASE \E d \in Relevant : child[d].exact /\ child' = [child EXCEPT ![d].exact = FALSE]
      <4>1. PICK d \in Relevant : child' = [child EXCEPT ![d] = [child[d] EXCEPT !.exact = FALSE]]
        BY <3>4
      <4> DEFINE c == [child[d] EXCEPT !.exact = FALSE]
      <4>2. d \in Database /\ child[d] # None /\ child[d] \in Child
        BY <1>1 DEF Relevant, TypeOK
      <4>3. c \in Child \cup {None} /\ c.marker = child[d].marker
        BY <4>2 DEF Child
      <4>4. child' = [child EXCEPT ![d] = c]
        BY <4>1
      <4> HIDE DEF c
      <4> QED BY <4>2, <4>3, <4>4, <3>1
    <3> QED BY <2>2, <3>2, <3>3, <3>4 DEF UserEdits
  <2> QED BY <2>1, <2>2
<1>5. TypeOK'
  BY <1>1, <1>2, <1>3, <1>4 DEF TypeOK, rows, history
<1>6. Marked'
  BY <1>1, <1>2, <1>4 DEF Marked, history
<1> QED BY <1>2, <1>5, <1>6, Elsewhere

(* A message that is delivered no more keeps the invariant. *)
LEMMA ForgetKeeps == ASSUME IInv, NEW u \in Update, Forget(u) PROVE IInv'
<1>1. TypeOK /\ Holding /\ Alone /\ Marked /\ Kept
  BY DEF IInv
<1>2. /\ claim[u] # None /\ claim[u].answer # None
      /\ \A p \in Proposal : receipt[p] # None => receipt[p].update # u
      /\ UNCHANGED <<status, approved, open, receipt, journal, installed, lease, process,
                     pc, job, world, history>>
  BY DEF Forget
<1>3. /\ claim' \in [Update -> Claim \cup {None}] /\ claim'[u] = None
      /\ \A v \in Update \ {u} : claim'[v] = claim[v]
  BY <1>1 DEF Forget, TypeOK
<1>4. ASSUME NEW w \in Update \ {u}, recovery[w] # None
      PROVE  /\ recovery'[w] \in Authority /\ recovery'[w].answer = recovery[w].answer
             /\ recovery'[w].receipt = recovery[w].receipt
  <2> DEFINE r == [recovery[w] EXCEPT !.prior = recovery[w].prior \ {u}]
  <2>1. recovery[w] \in Authority
    BY <1>1, <1>4 DEF TypeOK
  <2>2. r \in Authority /\ r.answer = recovery[w].answer /\ r.receipt = recovery[w].receipt
    BY <2>1 DEF Authority
  <2>3. recovery'[w] = r
    BY <1>4 DEF Forget
  <2> HIDE DEF r
  <2> QED BY <2>2, <2>3
<1>5. recovery'[u] = None /\ \A w \in Update : recovery[w] = None => recovery'[w] = None
  BY DEF Forget
<1>6. recovery' \in [Update -> Authority \cup {None}]
  <2>1. \A w \in Update : recovery'[w] \in Authority \cup {None}
    BY <1>4, <1>5
  <2>2. recovery' = [w \in Update |-> recovery'[w]]
    BY DEF Forget
  <2> QED BY <2>1, <2>2
<1>7. TypeOK'
  BY <1>1, <1>2, <1>3, <1>6 DEF TypeOK, process, world, history
<1>8. ASSUME NEW p \in Proposal
      PROVE  Own(p)'
  <2>1. RowsOf(p) /\ MessageOf(p) /\ ApprovalOf(p) /\ RecoveryOf(p) /\ AnswerOf(p) /\ InboxOf(p)
    BY Facts
  <2>2. RowsOf(p)'
    BY <1>2, <2>1 DEF RowsOf, world, history
  <2>3. pc[p] \in Commanded => Message(p) # u /\ Message(p) \in Update
    BY <1>2, <2>1 DEF MessageOf
  <2>4. /\ Message(p)' = Message(p)
        /\ pc[p] \in Commanded => claim'[Message(p)] = claim[Message(p)]
    BY <1>2, <1>3, <2>3 DEF Message
  <2>5. MessageOf(p)'
    BY <1>2, <2>1, <2>4 DEF MessageOf
  <2>6. ApprovalOf(p)'
    BY <1>2, <2>1, <2>4
    DEF ApprovalOf, ItsReceipt, Commanded, process, world, history
  <2>7. pc[p] \in Commanded /\ recovery[Message(p)] # None
          => /\ recovery'[Message(p)] # None
             /\ recovery'[Message(p)].receipt = recovery[Message(p)].receipt
    BY <1>4, <2>3
  <2>8. RecoveryOf(p)'
    <3>1. "sign" \in Commanded /\ "lease" \in Commanded
      BY DEF Commanded, Recovering
    <3> QED BY <1>2, <2>1, <2>4, <2>7, <3>1 DEF RecoveryOf, process, history
  <2>9. ASSUME NEW v \in Update, NEW b, True(p, v, b)
        PROVE  True(p, v, b)'
    BY <1>2, <2>9 DEF True, world, history
  <2>10. AnswerOf(p)'
    BY <1>2, <2>1, <2>3, <2>4, <2>9 DEF AnswerOf, Commanded
  <2>11. InboxOf(p)'
    <3>1. receipt[p] # None => receipt[p].update \in Update \ {u}
      BY <1>1, <1>2 DEF TypeOK, Receipt
    <3> QED BY <1>2, <1>3, <1>4, <1>5, <2>1, <2>9, <3>1 DEF InboxOf, history
  <2> QED BY <2>2, <2>5, <2>6, <2>8, <2>10, <2>11 DEF Own
<1>9. Holding' /\ Alone' /\ Marked'
  BY <1>1, <1>2 DEF Holding, Alone, Marked, process, world, history
<1>10. Kept'
  <2>1. u \notin postedBy
    <3>1. claim[u].proposal \in Proposal
      BY <1>1, <1>2 DEF TypeOK, Claim
    <3>2. InboxOf(claim[u].proposal)
      BY <3>1, Facts
    <3> QED BY <1>2, <3>1, <3>2 DEF InboxOf
  <2> QED BY <1>1, <1>2, <1>3, <1>5, <2>1 DEF Kept, history
<1> QED BY <1>7, <1>8, <1>9, <1>10 DEF IInv, Owns

-----------------------------------------------------------------------------
(* The invariant.                                                             *)

LEMMA InitHolds == ASSUME Init PROVE IInv
<1>1. TypeOK
  <2>1. FirstSecret \in Secret /\ FirstBase \in Base
    BY DEF FirstSecret, FirstBase
  <2> QED BY <2>1, IdleJobType DEF Init, TypeOK, Status, Label, Kind
<1>2. \A p \in Proposal : Own(p)
  BY DEF Init, Own, RowsOf, MessageOf, ApprovalOf, RecoveryOf, AnswerOf, InboxOf, Begun,
         Commanded, Approving, Creating, Recovering, Ending
<1>3. Holding /\ Alone /\ Marked /\ Kept
  BY DEF Init, Holding, Alone, Marked, Kept, Leased, Active, Planning
<1> QED BY <1>1, <1>2, <1>3 DEF IInv, Owns

(* Every step of the environment keeps the invariant. *)
LEMMA EnvironmentKeeps == ASSUME IInv, Environment PROVE IInv'
<1>1. TypeOK
  BY DEF IInv
<1>2. ASSUME NEW p \in Proposal, TakesEffect(p) \/ Refused(p) \/ Unanswered(p) \/ Raise(p)
      PROVE  IInv'
  <2>1. Refused(p) \/ Unanswered(p) => faults' \in [Kind -> Nat]
    BY <1>1, FaultType DEF Refused, Unanswered, Kind, TypeOK
  <2> QED BY <1>2, <2>1, TakesEffectKeeps, RefusedKeeps, UnansweredKeeps, RaiseKeeps
<1> QED BY <1>2, CrashKeeps, RestartKeeps, ExpireKeeps, UserKeeps, ForgetKeeps DEF Environment

(* Every step of a thread that runs a command keeps the invariant. *)
LEMMA ThreadKeeps ==
  ASSUME IInv, NEW p \in Proposal, PlanBegin(p) \/ Inbox(p) \/ Thread(p)
  PROVE  IInv'
<1>1. CASE PlanBegin(p) \/ Inbox(p)
  BY <1>1, PlanBeginKeeps, RedeliverKeeps, DeliverKeeps DEF Inbox
<1>2. CASE Survey(p) \/ SavePlan(p)
  BY <1>2, SurveyKeeps, SavePlanKeeps
<1>3. CASE Prepare(p)
  BY <1>3, RejectKeeps, ApproveSettledKeeps, ApproveExpiredKeeps, ApproveEnterKeeps,
     TakeLeaseKeeps, LeaseBusyKeeps, PreviewKeeps, IssueKeeps, ReissueKeeps, BeginKeeps
  DEF Prepare
<1>4. CASE Create(p)
  BY <1>4, RecheckKeeps, AttemptKeeps, PostKeeps, AnsweredKeeps, RecordKeeps, VerifyKeeps,
     FinalizeKeeps, MarkUnknownKeeps
  DEF Create
<1>5. CASE Recover(p)
  BY <1>5, RecoverEnterKeeps, ClaimRecoveryKeeps, SignKeeps, LookUnknownKeeps, LookKeeps,
     AdoptKeeps, RegisterKeeps
  DEF Recover
<1>6. CASE Close(p)
  BY <1>6, ReleaseKeeps, CompleteKeeps, AnswerMessageKeeps DEF Close
<1> QED BY <1>1, <1>2, <1>3, <1>4, <1>5, <1>6 DEF Thread

(* A stuttering step keeps the invariant. *)
LEMMA StutterKeeps == ASSUME IInv, UNCHANGED vars PROVE IInv'
<1>1. UNCHANGED <<rows, claim, lease, up, secret, pc, job, inflight, history>> /\ TypeOK /\ Marked
  BY DEF vars, process, world, IInv
<1>2. TypeOK' /\ Marked'
  BY <1>1 DEF TypeOK, Marked, vars, rows, process, world, history
<1> QED BY <1>1, <1>2, Elsewhere

(* The invariant is inductive: every step of the specification keeps it. *)
LEMMA Inductive == ASSUME IInv, [Next]_vars PROVE IInv'
  BY EnvironmentKeeps, ThreadKeeps, StutterKeeps DEF Next


(* The invariant holds in every reachable state: what each thread, row and message knows
   of the others. The theorems below follow from it. *)
THEOREM Invariance == Spec => []IInv
  BY InitHolds, Inductive, PTL DEF Spec

-----------------------------------------------------------------------------
(* The theorems.                                                              *)

\* Every variable keeps its type.
THEOREM TypeCorrect == Spec => []TypeOK
<1>1. IInv => TypeOK
  BY DEF IInv
<1> QED BY <1>1, Invariance, PTL

\* The answers that the messages are given are true.
THEOREM AnswersTrue == Spec => []AnswersAreTrue
<1>1. ASSUME IInv
      PROVE  AnswersAreTrue
  <2>1. ASSUME NEW u \in Update, claim[u] # None
        PROVE  True(claim[u].proposal, u, claim[u].answer)
    <3>1. claim[u].proposal \in Proposal
      BY <1>1, <2>1 DEF IInv, TypeOK, Claim
    <3>2. InboxOf(claim[u].proposal)
      BY <1>1, <3>1, Facts
    <3> QED BY <2>1, <3>1, <3>2 DEF InboxOf
  <2> QED BY <2>1 DEF AnswersAreTrue, True
<1> QED BY <1>1, Invariance, PTL

-----------------------------------------------------------------------------
(* Which steps send a request, make a database or register one.               *)

\* A step that does none of it, and leaves a request open or not as it was.
Quiet ==
  /\ UNCHANGED <<posts, made, installed>>
  /\ \A p \in Proposal : Open(p)' <=> Open(p)

(* A step that leaves the status, the Notion side and the registration alone is quiet. *)
LEMMA Calm ==
  ASSUME UNCHANGED <<status, posts, made, installed>>
  PROVE  Quiet
  BY DEF Quiet, Open

\* One status changes, of a proposal without a request or from a status to
\* another that is as open.
LEMMA OneStatus ==
  ASSUME status \in [Proposal -> Status], NEW p \in Proposal, NEW s \in Status, SetStatus(p, s),
         posts[p] = 0 \/ (status[p] \in Running <=> s \in Running),
         UNCHANGED <<posts, made, installed>>
  PROVE  Quiet
  BY DEF Quiet, Open, SetStatus, Running

(* An exception of a command asks Notion for nothing and answers nothing. *)
LEMMA RaiseQuiet == ASSUME IInv, NEW p \in Proposal, Raise(p) PROVE Quiet
<1>1. TypeOK /\ ApprovalOf(p)
  BY Facts
<1>2. UNCHANGED <<posts, made, installed>> /\ status \in [Proposal -> Status]
  BY <1>1 DEF Raise, history, TypeOK
<1>3. CASE UNCHANGED status
  BY <1>2, <1>3, Calm
<1>4. CASE pc[p] = "recheck" /\ SetStatus(p, "FAILED")
  BY <1>1, <1>2, <1>4, OneStatus DEF ApprovalOf, Status
<1>5. CASE status[p] = "APPROVED" /\ SetStatus(p, "STALE")
  BY <1>2, <1>5, OneStatus DEF Running, Status
<1> QED BY <1>3, <1>4, <1>5 DEF Raise, Aborted, SetStatus

(* No step of the environment reaches the abstract state. *)
LEMMA EnvironmentSteps ==
  ASSUME IInv, Environment
  PROVE  Quiet \/ \E p \in Proposal : TakesEffect(p) \/ Refused(p)
<1>1. ASSUME \/ Crash \/ Restart \/ RestartRotated \/ Expire \/ UserDrifts \/ UserEdits
             \/ Configure \/ (\E u \in Update : Forget(u)) \/ \E p \in Proposal : Unanswered(p)
      PROVE  UNCHANGED <<status, posts, made, installed>>
  BY <1>1 DEF Crash, Restart, RestartRotated, Expire, UserDrifts, UserEdits, Configure, Forget,
              Unanswered, rows, history
<1> QED BY <1>1, Calm, RaiseQuiet DEF Environment

(* No step of planning or of message delivery reaches the abstract state. *)
LEMMA PlanSteps ==
  ASSUME IInv, NEW p \in Proposal, PlanBegin(p) \/ Inbox(p) \/ Survey(p) \/ SavePlan(p)
  PROVE  Quiet
<1>1. TypeOK /\ RowsOf(p) /\ Alone
  BY Facts
<1>2. CASE PlanBegin(p) \/ Inbox(p) \/ Survey(p)
  <2>1. UNCHANGED <<status, posts, made, installed>>
    BY <1>2 DEF PlanBegin, Inbox, Survey, Redeliver, Deliver, rows, history
  <2> QED BY <2>1, Calm
<1>3. CASE SavePlan(p)
  <2>1. SetStatus(p, "PENDING") /\ UNCHANGED <<posts, made, installed>> /\ pc[p] \in Planning
    BY <1>3 DEF SavePlan, history, At, Planning
  <2>2. status[p] \notin Running /\ "PENDING" \notin Running /\ "PENDING" \in Status
    BY <1>1, <2>1 DEF Alone, Running, Status
  <2> QED BY <1>1, <2>1, <2>2, OneStatus DEF TypeOK
<1> QED BY <1>2, <1>3

(* No step before the creation reaches the abstract state. *)
LEMMA PrepareSteps == ASSUME IInv, NEW p \in Proposal, Prepare(p) PROVE Quiet
<1>1. TypeOK /\ RowsOf(p) /\ ApprovalOf(p)
  BY Facts
<1>2. UNCHANGED <<posts, made, installed>>
  BY DEF Prepare, Reject, ApproveSettled, ApproveExpired, ApproveEnter, TakeLease, LeaseBusy,
         Preview, Issue, Reissue, Begin, Stale, rows, history
<1>3. \/ UNCHANGED status
      \/ \E s \in {"REJECTED", "EXPIRED", "STALE", "APPROVED"} :
           status[p] \in {"PENDING", "APPROVED"} /\ SetStatus(p, s)
      \/ status[p] = "APPROVED" /\ SetStatus(p, "APPLYING")
  <2>1. CASE Reject(p) \/ ApproveSettled(p) \/ ApproveExpired(p) \/ ApproveEnter(p)
    BY <2>1 DEF Reject, ApproveSettled, ApproveExpired, ApproveEnter, rows
  <2>2. CASE TakeLease(p) \/ LeaseBusy(p) \/ Preview(p)
    BY <1>1, <2>2 DEF TakeLease, LeaseBusy, Preview, Stale, At, ApprovalOf, rows
  <2>3. CASE Issue(p) \/ Reissue(p) \/ Begin(p)
    BY <1>1, <2>3 DEF Issue, Reissue, Begin, Stale, At, ApprovalOf, rows
  <2> QED BY <2>1, <2>2, <2>3 DEF Prepare
<1>4. CASE UNCHANGED status
  BY <1>2, <1>4, Calm
<1>5. CASE \E s \in {"REJECTED", "EXPIRED", "STALE", "APPROVED"} :
             status[p] \in {"PENDING", "APPROVED"} /\ SetStatus(p, s)
  BY <1>1, <1>2, <1>5, OneStatus DEF Running, Status, TypeOK
<1>6. CASE status[p] = "APPROVED" /\ SetStatus(p, "APPLYING")
  <2>1. posts[p] = 0
    BY <1>1, <1>6 DEF RowsOf, Begun
  <2> QED BY <1>1, <1>2, <1>6, <2>1, OneStatus DEF Status, TypeOK
<1> QED BY <1>3, <1>4, <1>5, <1>6

(* A step of the creation is quiet or one of the four that matter. *)
LEMMA CreateSteps ==
  ASSUME IInv, NEW p \in Proposal, Create(p)
  PROVE  Quiet \/ Post(p) \/ Finalize(p)
<1>1. TypeOK /\ ApprovalOf(p)
  BY Facts
<1>2. CASE Attempt(p) \/ Answered(p) \/ Record(p) \/ Verify(p)
  <2>1. UNCHANGED <<status, posts, made, installed>>
    BY <1>2 DEF Attempt, Answered, Record, Verify, rows, history
  <2> QED BY <2>1, Calm
<1>3. CASE Recheck(p)
  <2>1. UNCHANGED <<posts, made, installed>> /\ posts[p] = 0
    BY <1>1, <1>3 DEF Recheck, At, ApprovalOf, FailApply, rows, history
  <2>2. UNCHANGED status \/ SetStatus(p, "FAILED")
    BY <1>3 DEF Recheck, FailApply, rows
  <2> QED BY <1>1, <2>1, <2>2, Calm, OneStatus DEF TypeOK, Status
<1>4. CASE MarkUnknown(p)
  <2>1. UNCHANGED <<posts, made, installed>> /\ status[p] = "APPLYING"
    BY <1>1, <1>4 DEF MarkUnknown, At, ApprovalOf, Creating, history
  <2>2. UNCHANGED status \/ SetStatus(p, "UNKNOWN")
    BY <1>4 DEF MarkUnknown, UnknownRows
  <2> QED BY <1>1, <2>1, <2>2, Calm, OneStatus DEF TypeOK, Status, Running
<1> QED BY <1>2, <1>3, <1>4 DEF Create

(* A step of the recovery is quiet or the registration of what it found. *)
LEMMA RecoverSteps ==
  ASSUME IInv, NEW p \in Proposal, Recover(p)
  PROVE  Quiet \/ (Register(p) /\ Commit(p, job[p].database))
<1>1. TypeOK /\ RowsOf(p)
  BY Facts
<1>2. CASE RecoverEnter(p) \/ ClaimRecovery(p) \/ Sign(p) \/ LookUnknown(p) \/ Adopt(p)
  <2>1. UNCHANGED <<status, posts, made, installed>>
    BY <1>2 DEF RecoverEnter, ClaimRecovery, Sign, LookUnknown, Adopt, rows, history
  <2> QED BY <2>1, Calm
<1>3. CASE Look(p)
  <2>1. UNCHANGED <<posts, made, installed>>
    BY <1>3 DEF Look, FailApply, rows, history
  <2>2. UNCHANGED status \/ (SetStatus(p, "FAILED") /\ journal[p].attempts = 0)
    BY <1>3 DEF Look, FailApply, rows
  <2>3. journal[p].attempts = 0 => posts[p] = 0
    BY <1>1 DEF RowsOf
  <2> QED BY <1>1, <2>1, <2>2, <2>3, Calm, OneStatus DEF TypeOK, Status
<1>4. CASE Register(p) /\ ~Commit(p, job[p].database)
  <2>1. UNCHANGED <<status, posts, made, installed>>
    BY <1>4 DEF Register, RegisterSigned, history
  <2> QED BY <2>1, Calm
<1> QED BY <1>2, <1>3, <1>4 DEF Recover

(* Closing a command is quiet. *)
LEMMA CloseSteps == ASSUME NEW p \in Proposal, Close(p) PROVE Quiet
<1>1. UNCHANGED <<status, posts, made, installed>>
  BY DEF Close, Release, Complete, AnswerMessage, rows, history
<1> QED BY <1>1, Calm

\* What a step can be.
LEMMA Steps ==
  ASSUME IInv, [Next]_vars
  PROVE  \/ Quiet
         \/ \E p \in Proposal : \/ Post(p) \/ TakesEffect(p) \/ Refused(p) \/ Finalize(p)
                               \/ (Register(p) /\ Commit(p, job[p].database))
<1>1. CASE UNCHANGED vars
  <2>1. UNCHANGED <<status, posts, made, installed>>
    BY <1>1 DEF vars, rows, history
  <2> QED BY <2>1, Calm
<1>2. CASE Environment
  BY <1>2, EnvironmentSteps
<1>3. ASSUME NEW p \in Proposal, PlanBegin(p) \/ Inbox(p) \/ Thread(p)
      PROVE  Quiet \/ Post(p) \/ Finalize(p) \/ (Register(p) /\ Commit(p, job[p].database))
  BY <1>3, PlanSteps, PrepareSteps, CreateSteps, RecoverSteps, CloseSteps DEF Thread
<1> QED BY <1>1, <1>2, <1>3 DEF Next

-----------------------------------------------------------------------------

\* The one request of a proposal is sent by the message that was approved, under
\* the lease of the target, before anything is registered (PostIsAuthorised).
THEOREM PostAuthorised == Spec => PostIsAuthorised
<1>1. ASSUME IInv, [Next]_vars, NEW p \in Proposal, posts'[p] # posts[p]
      PROVE  /\ posts[p] = 0 /\ installed = None
             /\ receipt[p].update = Message(p)
             /\ lease = [proposal |-> p, alive |-> TRUE]
  <2>1. PICK q \in Proposal : Post(q)
    BY <1>1, Steps DEF Quiet, TakesEffect, Refused, Finalize, Register, history
  <2>2. posts \in [Proposal -> Nat] /\ TypeOK /\ Holding /\ Alone /\ ApprovalOf(p)
    BY <1>1, Facts DEF TypeOK
  <2>3. q = p
    BY <1>1, <2>1, <2>2 DEF Post
  <2>4. pc[p] = "post" /\ pc[p] \in Creating /\ pc[p] \in Leased
    BY <2>1, <2>3 DEF Post, At, Creating, Leased
  <2>5. posts[p] = 0 /\ receipt[p].update = Message(p) /\ status[p] = "APPLYING"
    BY <2>2, <2>4 DEF ApprovalOf, ItsReceipt
  <2>6. installed = None
    BY <2>2, <2>5 DEF Alone, Active
  <2>7. lease = [proposal |-> p, alive |-> TRUE]
    <3>1. lease \in Lease /\ lease.proposal = p /\ lease.alive = TRUE
      BY <2>2, <2>4 DEF Holding, TypeOK, Lease
    <3> QED BY <3>1 DEF Lease
  <2> QED BY <2>5, <2>6, <2>7
<1>2. IInv /\ [Next]_vars
        => [\A p \in Proposal : posts'[p] # posts[p] =>
              /\ posts[p] = 0 /\ installed = None
              /\ receipt[p].update = Message(p)
              /\ lease = [proposal |-> p, alive |-> TRUE]]_vars
  BY <1>1
<1> QED BY <1>2, Invariance, PTL DEF Spec, PostIsAuthorised

\* A process without the approval's secret registers only a database whose id was
\* written down, on the word of another message's conflict (AdoptionAttested).
THEOREM AdoptionIsAttested == Spec => AdoptionAttested
<1>1. ASSUME IInv, [Next]_vars, NEW p \in Proposal,
             installed' # installed, installed'.proposal = p, receipt[p].secret # secret
      PROVE  /\ journal[p].database = installed'.database
             /\ \E v \in Update \ {Message(p)} :
                  claim[v] # None /\ claim[v].proposal = p /\ claim[v].answer = "conflict"
  <2>1. PICK q \in Proposal : Finalize(q) \/ (Register(q) /\ Commit(q, job[q].database))
    BY <1>1, Steps DEF Quiet, TakesEffect, Refused, Post, FailApply, rows
  <2>2. installed' = [proposal |-> q, database |-> job[q].database]
    BY <2>1 DEF Finalize, Commit
  <2>3. q = p
    BY <1>1, <2>2
  <2>4. TypeOK /\ MessageOf(p) /\ ApprovalOf(p) /\ RecoveryOf(p)
    BY <1>1, Facts
  <2>5. ~Finalize(p)
    BY <1>1, <2>4 DEF Finalize, At, ApprovalOf, Creating
  <2>6. Register(p) /\ pc[p] = "register" /\ job[p].signed
    BY <1>1, <2>1, <2>3, <2>4, <2>5 DEF Register, At, RecoveryOf
  <2>7. Evidence(p, Message(p))
    BY <1>1, <2>6 DEF Register, RegisterSigned
  <2>8. journal[p].database = job[p].database
    BY <2>4, <2>6, <2>7 DEF Evidence, AttemptUnknown, RecoveryOf
  <2>9. PICK v \in recovery[Message(p)].prior : Attests(p, Message(p), v)
    BY <2>7 DEF Evidence
  <2>10. v \in Update
    <3>1. Message(p) \in Update /\ recovery[Message(p)] # None
      BY <2>4, <2>6 DEF MessageOf, RecoveryOf, Commanded, Recovering
    <3>2. recovery[Message(p)] \in Authority
      BY <2>4, <3>1 DEF TypeOK
    <3> QED BY <3>2, <2>9 DEF Authority
  <2> QED BY <2>2, <2>3, <2>8, <2>9, <2>10 DEF Attests
<1>2. IInv /\ [Next]_vars
        => [\A p \in Proposal :
              installed' # installed /\ installed'.proposal = p /\ receipt[p].secret # secret
                => /\ journal[p].database = installed'.database
                   /\ \E v \in Update \ {Message(p)} :
                        claim[v] # None /\ claim[v].proposal = p
                        /\ claim[v].answer = "conflict"]_vars
  BY <1>1
<1> QED BY <1>2, Invariance, PTL DEF Spec, AdoptionAttested

-----------------------------------------------------------------------------
(* The refinement of SingleCreation.                                          *)

AbstractPhase == IF installed # None THEN "registered"
                 ELSE IF \E p \in Proposal : Open(p) THEN "asked" ELSE "free"
AbstractMade     == UNION {made[p] : p \in Proposal}
AbstractRegister == IF installed = None THEN None ELSE installed.database

\* A proposal with an open request is the only one that made a database.
LEMMA OnlyMaker ==
  ASSUME IInv, NEW p \in Proposal, status[p] \in Active, installed = None
  PROVE  /\ \A q \in Proposal \ {p} : made[q] = {} /\ ~Open(q)
         /\ AbstractMade = made[p]
<1>1. ASSUME NEW q \in Proposal \ {p}
      PROVE  made[q] = {} /\ ~Open(q)
  <2>1. Alone /\ RowsOf(q) /\ TypeOK
    BY <1>1, Facts
  <2>2. status[q] \notin Active /\ status[q] # "COMMITTED"
    BY <2>1 DEF Alone
  <2>3. ~Open(q)
    BY <2>2 DEF Open, Active
  <2>4. made[q] = {}
    BY <2>1, <2>2 DEF RowsOf, Begun, Active
  <2> QED BY <2>3, <2>4
<1> QED BY <1>1 DEF AbstractMade

(* The first state of the workflow is a first state of the abstraction. *)
LEMMA AbstractInit == ASSUME Init PROVE Abstract!Init
<1>1. \A p \in Proposal : made[p] = {} /\ ~Open(p)
  BY DEF Init, Open
<1>2. installed = None /\ AbstractMade = {}
  BY <1>1 DEF Init, AbstractMade
<1> QED BY <1>1, <1>2 DEF Abstract!Init, AbstractMade

\* The two states of the specification below differ at most as a step of it does.
AbstractStep == Abstract!Next \/ UNCHANGED Abstract!vars

(* A quiet step stutters in the abstraction. *)
LEMMA QuietMaps == ASSUME IInv, Quiet PROVE AbstractStep
<1>1. UNCHANGED <<AbstractPhase, AbstractMade, AbstractRegister>>
  BY DEF Quiet, AbstractPhase, AbstractMade, AbstractRegister
<1> QED BY <1>1
    DEF AbstractStep, Abstract!vars, AbstractPhase, AbstractMade, AbstractRegister

(* Sending the request is the abstract question. *)
LEMMA PostMaps == ASSUME IInv, NEW p \in Proposal, Post(p) PROVE AbstractStep
<1>1. TypeOK /\ RowsOf(p) /\ ApprovalOf(p) /\ Alone
  BY Facts
<1>2. /\ status[p] = "APPLYING" /\ posts[p] = 0 /\ made[p] = {} /\ status[p] \in Active
  BY <1>1 DEF Post, At, ApprovalOf, RowsOf, Creating, Active
<1>3. installed = None
  BY <1>1, <1>2 DEF Alone
<1>4. AbstractPhase = "free" /\ AbstractMade = {}
  BY <1>2, <1>3, OnlyMaker DEF AbstractPhase, Open
<1>5. UNCHANGED <<status, made, installed>> /\ posts'[p] = 1
  BY <1>1, <1>2 DEF Post, rows, TypeOK
<1>6. Open(p)' /\ installed' = None
  BY <1>2, <1>3, <1>5 DEF Open
<1>7. AbstractPhase' = "asked" /\ UNCHANGED <<AbstractMade, AbstractRegister>>
  BY <1>5, <1>6 DEF AbstractPhase, AbstractMade, AbstractRegister
<1>8. Abstract!Ask
  BY <1>4, <1>7 DEF Abstract!Ask, AbstractPhase, AbstractMade, AbstractRegister
<1> QED BY <1>8 DEF AbstractStep, Abstract!Next

(* A refusal of Notion is the abstract refusal. *)
LEMMA RefusedMaps == ASSUME IInv, NEW p \in Proposal, Refused(p) PROVE AbstractStep
<1>1. TypeOK /\ RowsOf(p) /\ ApprovalOf(p) /\ Alone
  BY Facts
<1>2. /\ status[p] = "APPLYING" /\ posts[p] = 1 /\ made[p] = {} /\ status[p] \in Active
  BY <1>1 DEF Refused, At, ApprovalOf, RowsOf, Creating, Active
<1>3. installed = None /\ Open(p)
  BY <1>1, <1>2 DEF Alone, Open
<1>4. AbstractPhase = "asked" /\ AbstractMade = {}
  BY <1>2, <1>3, OnlyMaker DEF AbstractPhase
<1>5. UNCHANGED <<made, posts, installed>> /\ SetStatus(p, "FAILED")
  BY DEF Refused, FailApply, history
<1>6. ASSUME NEW q \in Proposal
      PROVE  ~Open(q)'
  <2>1. CASE q = p
    BY <1>1, <1>5, <2>1 DEF SetStatus, Open, TypeOK
  <2>2. CASE q # p
    <3>1. ~Open(q)
      BY <1>2, <1>3, <2>2, OnlyMaker
    <3>2. status'[q] = status[q]
      BY <1>1, <1>5, <2>2 DEF SetStatus, TypeOK
    <3> QED BY <1>5, <3>1, <3>2 DEF Open
  <2> QED BY <2>1, <2>2
<1>7. AbstractPhase' = "free" /\ UNCHANGED <<AbstractMade, AbstractRegister>>
  BY <1>3, <1>5, <1>6 DEF AbstractPhase, AbstractMade, AbstractRegister
<1>8. Abstract!Refused
  BY <1>4, <1>7 DEF Abstract!Refused, AbstractPhase, AbstractMade, AbstractRegister
<1> QED BY <1>8 DEF AbstractStep, Abstract!Next

(* The database that appears is the one that was asked for. *)
LEMMA TakesEffectMaps == ASSUME IInv, NEW p \in Proposal, TakesEffect(p) PROVE AbstractStep
<1>1. TypeOK /\ RowsOf(p) /\ Alone
  BY Facts
<1>2. /\ posts[p] = 1 /\ made[p] = {} /\ status[p] \in Running /\ status[p] \in Active
  BY <1>1 DEF TakesEffect, RowsOf, Begun, Running, Active
<1>3. installed = None /\ Open(p)
  BY <1>1, <1>2 DEF Alone, Open, Running
<1>4. AbstractPhase = "asked" /\ AbstractMade = {}
  BY <1>2, <1>3, OnlyMaker DEF AbstractPhase
<1>5. PICK d \in Database : made' = [made EXCEPT ![p] = @ \cup {d}]
  BY DEF TakesEffect, Unused
<1>6. UNCHANGED <<status, posts, installed>>
  BY DEF TakesEffect, rows
<1>7. AbstractMade' = {d}
  <2>1. made'[p] = {d} /\ \A q \in Proposal \ {p} : made'[q] = {}
    BY <1>1, <1>2, <1>3, <1>5, OnlyMaker DEF TypeOK
  <2> QED BY <2>1 DEF AbstractMade
<1>8. UNCHANGED <<AbstractPhase, AbstractRegister>>
  BY <1>6 DEF AbstractPhase, AbstractRegister, Open
<1>9. Abstract!Appear
  BY <1>4, <1>7, <1>8 DEF Abstract!Appear, AbstractPhase, AbstractMade, AbstractRegister
<1> QED BY <1>9 DEF AbstractStep, Abstract!Next

(* The commit registers, for the one proposal, the database that was made. *)
LEMMA CommitMaps ==
  ASSUME IInv, NEW p \in Proposal, status[p] \in Running, job[p].database \in made[p],
         Commit(p, job[p].database), UNCHANGED <<posts, made>>
  PROVE  AbstractStep
<1>1. TypeOK /\ RowsOf(p) /\ Alone
  BY Facts
<1>2. posts[p] = 1 /\ status[p] \in Active /\ posts[p] > 0
  BY <1>1 DEF RowsOf, Running, Active
<1>3. installed = None /\ Open(p)
  BY <1>1, <1>2 DEF Alone, Open, Running
<1>4. AbstractPhase = "asked" /\ AbstractMade = made[p] /\ AbstractMade # {}
  BY <1>2, <1>3, OnlyMaker DEF AbstractPhase
<1>5. installed' # None /\ installed'.database = job[p].database
  <2> DEFINE r == [proposal |-> p, database |-> job[p].database]
  <2>1. installed' = r
    BY DEF Commit
  <2>2. r \in Installation /\ r.database = job[p].database
    BY <1>1 DEF Installation, TypeOK
  <2> HIDE DEF r
  <2> QED BY <2>1, <2>2
<1>6. AbstractPhase' = "registered" /\ AbstractRegister' = job[p].database
      /\ UNCHANGED AbstractMade
  BY <1>5 DEF AbstractPhase, AbstractRegister, AbstractMade
<1>7. Abstract!Register
  BY <1>4, <1>6 DEF Abstract!Register, AbstractPhase, AbstractMade, AbstractRegister
<1> QED BY <1>7 DEF AbstractStep, Abstract!Next

\* However the gateway, Notion and the user behave, the workflow asks for one
\* database and registers only what it created (ImplementsSingleCreation).
THEOREM Refinement == Spec => ImplementsSingleCreation
<1>1. ASSUME IInv, [Next]_vars
      PROVE  [Abstract!Next]_(Abstract!vars)
  <2>1. CASE Quiet
    BY <1>1, <2>1, QuietMaps DEF AbstractStep
  <2>2. ASSUME NEW p \in Proposal, Post(p) \/ TakesEffect(p) \/ Refused(p)
        PROVE  AbstractStep
    BY <1>1, <2>2, PostMaps, TakesEffectMaps, RefusedMaps
  <2>3. ASSUME NEW p \in Proposal, Finalize(p) \/ (Register(p) /\ Commit(p, job[p].database))
        PROVE  AbstractStep
    <3>1. ApprovalOf(p) /\ RecoveryOf(p)
      BY <1>1, Facts
    <3>2. /\ status[p] \in Running /\ job[p].database \in made[p]
          /\ Commit(p, job[p].database) /\ UNCHANGED <<posts, made>>
      BY <2>3, <3>1
      DEF Finalize, Register, At, ApprovalOf, RecoveryOf, Creating, Running, history
    <3> QED BY <1>1, <3>2, CommitMaps
  <2> QED BY <1>1, <2>1, <2>2, <2>3, Steps DEF AbstractStep
<1> QED BY <1>1, AbstractInit, Invariance, PTL DEF Spec, ImplementsSingleCreation, Abstract!Spec
=============================================================================
