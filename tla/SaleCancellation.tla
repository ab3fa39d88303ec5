-------------------------- MODULE SaleCancellation --------------------------
(***************************************************************************)
(* Cancelling a source document of the ERP: the void and the credit note   *)
(* of a sale invoice (internal/handlers/compat/cancel_invoice.go) and the  *)
(* reversal of a sale order (cancel_sale_order.go).                        *)
(*                                                                         *)
(* Each HTTP request is one PostgreSQL transaction at REPEATABLE READ that *)
(* first waits for an advisory lock on its source.  PostgreSQL takes the   *)
(* transaction's snapshot when the statement that asks for the lock        *)
(* starts, that is BEFORE the wait, so a request that waited reads a view  *)
(* older than the commit that released the lock.  What keeps it from       *)
(* cancelling twice is the row lock: FOR UPDATE on a row that was updated  *)
(* after the snapshot fails (SQLSTATE 40001).                              *)
(*                                                                         *)
(* The ERP desktop program and the other writers of the source row do not  *)
(* take the advisory lock; they are the environment of this module.        *)
(***************************************************************************)
EXTENDS Naturals

CONSTANTS
  Request,    \* HTTP requests; each is served once, a retry is another one
  Invoice,    \* sale invoices  (trans_flag 44)
  Order,      \* sale orders    (trans_flag 36)
  DocNo,      \* numbers for cancellation documents
  Intent,     \* request bodies, as far as the payload hash tells them apart
  Calls,      \* the calls clients make
  LastMinute, \* bound on the clock
  NoRequest,  \* holder of a free advisory lock
  NoHash      \* no profile marker is stored for the document

Source == Invoice \cup Order
Kind == {"void", "credit", "ssc"}   \* trans_flag 45, 48 and 37

KindsOf(s) == IF s \in Invoice THEN {"void", "credit"} ELSE {"ssc"}

(* A call: profile is document_profile_version = "sml-document-v1", and    *)
(* timed says that the body gives doc_date and doc_time.                   *)
Call == [kind : Kind, src : Source, no : DocNo, profile : BOOLEAN,
         intent : Intent, timed : BOOLEAN, preview : BOOLEAN]

Minute == 0..LastMinute

(* The payload hash of a call, its document number left out: a date and a  *)
(* time the body omits are those of the clock.                             *)
Hash == [intent : Intent, minute : Minute]
HashAt(c, m) == [intent |-> c.intent, minute |-> IF c.timed THEN 0 ELSE m]

ASSUME SourcesDisjoint == Invoice \cap Order = {}
ASSUME CallsAssumption ==
  /\ Calls \subseteq Call /\ Calls # {}
  /\ \A c \in Calls : c.kind \in KindsOf(c.src)
ASSUME ClockAssumption == LastMinute \in Nat
ASSUME NullAssumption == NoRequest \notin Request /\ NoHash \notin Hash

(* last_status and used_status of a source's header row. *)
Row == [last : {0, 1}, used : {0, 1}]
OpenRow == [last |-> 0, used |-> 0]

(* The header of a cancellation document; hash is what its profile marker  *)
(* stores, NoHash when it has no marker.                                   *)
Doc == [kind : Kind, no : DocNo, src : Source,
        hash : Hash \cup {NoHash}, owner : {"api", "erp"}]

(* A row of the relations writeProfileRelations adds, and who inserted it. *)
Relation == [kind : Kind, no : DocNo, by : Request]

Phase == {"idle", "waiting", "locked", "examined", "inserted", "marked",
          "committed", "done"}
Holding == {"locked", "examined", "inserted", "marked"}
RowHolding == {"examined", "inserted", "marked"}
Open == {"waiting"} \cup Holding

Reply == {"none", "ready", "created", "already_exists", "document_busy",
          "not_found", "cancelled_externally", "payload_mismatch",
          "source_already_cancelled", "source_used", "duplicate_doc_no",
          "source_state_changed", "serialization_failure",
          "internal_error", "lost"}

VARIABLES
  pc,      \* progress of each request
  call,    \* what it asks for
  reply,   \* what it answered
  view,    \* the snapshot of its transaction, as far as it is read
  missed,  \* was the source row updated after the snapshot?
  lock,    \* holder of each source's advisory lock
  row,     \* committed header row of each source
  docs,    \* committed active cancellation documents
  rel,     \* committed profile relations
  clock    \* the minute that time.Now() shows

vars == <<pc, call, reply, view, missed, lock, row, docs, rel, clock>>
db == <<row, docs, rel>>

-----------------------------------------------------------------------------
DocsOf(s) == {d \in docs : d.src = s}

(* minute is when the handler computed the payload of its document. *)
Snapshot(s) ==
  [row |-> row[s], docs |-> DocsOf(s), rel |-> rel, minute |-> 0]

View == [row : Row, docs : SUBSET Doc, rel : SUBSET Relation, minute : Minute]
NoView == [row |-> OpenRow, docs |-> {}, rel |-> {}, minute |-> 0]

NoCall == CHOOSE c \in Calls : TRUE

Init ==
  /\ pc = [r \in Request |-> "idle"]
  /\ call = [r \in Request |-> NoCall]
  /\ reply = [r \in Request |-> "none"]
  /\ view = [r \in Request |-> NoView]
  /\ missed = [r \in Request |-> FALSE]
  /\ lock = [s \in Source |-> NoRequest]
  /\ row = [s \in Source |-> OpenRow]
  /\ docs = {}
  /\ rel = {}
  /\ clock = 0

(* The transaction of r ends: pg_advisory_xact_lock and the row locks go   *)
(* with it, whether it commits or rolls back, and so does its snapshot.    *)
EndTransaction(r) ==
  /\ lock' = [s \in Source |-> IF lock[s] = r THEN NoRequest ELSE lock[s]]
  /\ view' = [view EXCEPT ![r] = NoView]

Rollback(r, answer) ==
  /\ EndTransaction(r)
  /\ pc' = [pc EXCEPT ![r] = "done"]
  /\ reply' = [reply EXCEPT ![r] = answer]
  /\ missed' = [missed EXCEPT ![r] = FALSE]
  /\ UNCHANGED <<call, db, clock>>

(* Mutant: READ COMMITTED, where FOR UPDATE does not fail on such a row. *)
RowUpdatedReadCommitted(s) == missed

(* An update of the row of s commits: every snapshot taken before misses it. *)
RowUpdated(s) ==
  [q \in Request |-> missed[q] \/ (pc[q] \in Open /\ call[q].src = s)]

RowLocked(s) == \E r \in Request : pc[r] \in RowHolding /\ call[r].src = s

(* The unique index on (trans_flag, doc_no): a committed document has the  *)
(* number, or an open transaction has inserted it.                         *)
NumberTaken(k, n) == \E d \in docs : d.kind = k /\ d.no = n
NumberPending(k, n) ==
  \E r \in Request : /\ pc[r] \in {"inserted", "marked"}
                     /\ call[r].kind = k
                     /\ call[r].no = n

-----------------------------------------------------------------------------
(* A request begins its transaction, sets it to REPEATABLE READ and issues *)
(* the SELECT that waits for the source's advisory lock.                   *)
Receive(r) ==
  /\ pc[r] = "idle"
  /\ \E c \in Calls :
       /\ call' = [call EXCEPT ![r] = c]
       /\ view' = [view EXCEPT ![r] = Snapshot(c.src)]
  /\ pc' = [pc EXCEPT ![r] = "waiting"]
  /\ missed' = [missed EXCEPT ![r] = FALSE]
  /\ UNCHANGED <<reply, lock, db, clock>>

AcquireLock(r) ==
  /\ pc[r] = "waiting"
  /\ lock[call[r].src] = NoRequest
  /\ lock' = [lock EXCEPT ![call[r].src] = r]
  /\ pc' = [pc EXCEPT ![r] = "locked"]
  /\ UNCHANGED <<call, reply, view, missed, db, clock>>

(* lock_timeout = 3s: SQLSTATE 55P03 becomes 409 document_busy. *)
LockTimeout(r) ==
  /\ pc[r] = "waiting"
  /\ lock[call[r].src] # NoRequest
  /\ Rollback(r, "document_busy")

-----------------------------------------------------------------------------
(* Mutant: any profile document is taken for the one of this call. *)
AnyProfile(c, d) == d.hash # NoHash

(* Is d the document an earlier call with this payload made?  The invoice  *)
(* handlers take over the number of the existing document before they      *)
(* hash; the sale-order handler hashes the number of the request.          *)
OwnPayload(c, d) ==
  d.hash = HashAt(c, clock) /\ (c.kind = "ssc" => d.no = c.no)

Mine(c, v) == {d \in v.docs : d.kind = c.kind}

(* The answer to a call whose document is already there. *)
ExistingVerdict(c, mine) ==
  IF ~c.profile THEN "already_exists"
  ELSE IF \E d \in mine : d.hash = NoHash THEN "cancelled_externally"
  ELSE IF \E d \in mine : OwnPayload(c, d) THEN "already_exists"
  ELSE "payload_mismatch"

(* Mutant: the active source is loaded before the existing document. *)
InvoiceVerdictActiveFirst(c, v, conflict) ==
  LET mine == Mine(c, v)
  IN  IF v.row.last = 1 THEN "not_found"
      ELSE IF conflict THEN "serialization_failure"
      ELSE IF mine # {} THEN ExistingVerdict(c, mine)
      ELSE IF v.docs # {} THEN "source_already_cancelled"
      ELSE IF v.row.used = 1 THEN "source_used"
      ELSE "ready"

(* The early returns of the void and of the credit note, in their order.   *)
(* v is the snapshot; conflict says that FOR UPDATE on the source row would *)
(* fail, which legacy calls and calls on unmarked documents never reach.   *)
InvoiceVerdict(c, v, conflict) ==
  LET mine == Mine(c, v)
      rowRead == c.profile /\ \A d \in mine : d.hash # NoHash
  IN  IF mine # {} /\ conflict /\ rowRead THEN "serialization_failure"
      ELSE IF mine # {} THEN ExistingVerdict(c, mine)
      ELSE IF v.docs # {} THEN "source_already_cancelled"
      ELSE IF v.row.last = 1 THEN "not_found"
      ELSE IF conflict THEN "serialization_failure"
      ELSE IF v.row.used = 1 THEN "source_used"
      ELSE "ready"

(* Those of the sale-order reversal, which loads the source first. *)
OrderVerdict(c, v, conflict) ==
  IF v.row.last = 1 THEN "not_found"
  ELSE IF conflict THEN "serialization_failure"
  ELSE IF Mine(c, v) # {} THEN ExistingVerdict(c, Mine(c, v))
  ELSE IF v.row.used = 1 THEN "source_used"
  ELSE "ready"

(* Mutant: no call asks for the row lock. *)
VerdictWithoutRowLock(r) ==
  IF call[r].kind = "ssc" THEN OrderVerdict(call[r], view[r], FALSE)
                          ELSE InvoiceVerdict(call[r], view[r], FALSE)

(* A preview never asks for the row lock. *)
VerdictOf(r) ==
  LET conflict == missed[r] /\ ~call[r].preview
  IN  IF call[r].kind = "ssc" THEN OrderVerdict(call[r], view[r], conflict)
                              ELSE InvoiceVerdict(call[r], view[r], conflict)

(* A preview, a refusal, or a legacy call whose document exists: the       *)
(* request answers and its transaction leaves nothing behind.              *)
AnswerOnly(r) ==
  /\ pc[r] = "locked"
  /\ \/ call[r].preview
     \/ VerdictOf(r) \notin {"ready", "already_exists"}
     \/ VerdictOf(r) = "already_exists" /\ ~call[r].profile
  /\ Rollback(r, VerdictOf(r))

(* Every check passed and the source row is locked FOR UPDATE, which waits *)
(* while another transaction has it locked.                                *)
Examine(r) ==
  /\ pc[r] = "locked"
  /\ ~call[r].preview
  /\ ~RowLocked(call[r].src)
  /\ VerdictOf(r) = "ready"
  /\ pc' = [pc EXCEPT ![r] = "examined"]
  /\ view' = [view EXCEPT ![r].minute = clock]
  /\ UNCHANGED <<call, reply, missed, lock, db, clock>>

(* Mutant: INSERT without WHERE NOT EXISTS. *)
NewRelationsAlways(r, k, n) == {[kind |-> k, no |-> n, by |-> r]}

(* The relations of document (k, n) that r inserts: INSERT ... WHERE NOT   *)
(* EXISTS, evaluated on the snapshot.                                      *)
NewRelations(r, k, n) ==
  IF \E x \in view[r].rel : x.kind = k /\ x.no = n
  THEN {}
  ELSE {[kind |-> k, no |-> n, by |-> r]}

(* A profile call whose document exists with its own payload repairs what  *)
(* is missing of the profile and commits.                                  *)
Reconcile(r) ==
  /\ pc[r] = "locked"
  /\ ~call[r].preview
  /\ call[r].profile
  /\ ~RowLocked(call[r].src)
  /\ VerdictOf(r) = "already_exists"
  /\ \E d \in view[r].docs :
       /\ d.kind = call[r].kind
       /\ OwnPayload(call[r], d)
       /\ rel' = rel \cup NewRelations(r, d.kind, d.no)
  /\ EndTransaction(r)
  /\ pc' = [pc EXCEPT ![r] = "committed"]
  /\ reply' = [reply EXCEPT ![r] = "already_exists"]
  /\ missed' = [missed EXCEPT ![r] = FALSE]
  /\ UNCHANGED <<call, row, docs, clock>>

-----------------------------------------------------------------------------
(* INSERT of the header: it waits while another open transaction has the   *)
(* number, and fails when a committed document has it.                     *)
InsertHeader(r) ==
  /\ pc[r] = "examined"
  /\ ~NumberTaken(call[r].kind, call[r].no)
  /\ ~NumberPending(call[r].kind, call[r].no)
  /\ pc' = [pc EXCEPT ![r] = "inserted"]
  /\ UNCHANGED <<call, reply, view, missed, lock, db, clock>>

(* Mutant: the number is looked up in the snapshot. *)
DuplicateNumberInView(r) ==
  /\ pc[r] = "examined"
  /\ \E d \in view[r].docs : d.kind = call[r].kind /\ d.no = call[r].no
  /\ Rollback(r, "duplicate_doc_no")

DuplicateNumber(r) ==
  /\ pc[r] = "examined"
  /\ NumberTaken(call[r].kind, call[r].no)
  /\ Rollback(r, "duplicate_doc_no")

(* The WHERE clause of the UPDATE of the source row, and what it sets. *)
Markable(k, rw) == rw.last = 0 /\ (k # "void" => rw.used = 0)

(* Mutants: a void sets another code; only a void marks its source. *)
MarkedAsCode(k, rw) == IF k = "void" THEN [rw EXCEPT !.last = 2]
                                     ELSE [rw EXCEPT !.used = 1]
MarkedByVoidOnly(k, rw) == IF k = "void" THEN [rw EXCEPT !.last = 1] ELSE rw

Marked(k, rw) == IF k = "void" THEN [rw EXCEPT !.last = 1]
                               ELSE [rw EXCEPT !.used = 1]

(* UPDATE ic_trans ...; a row updated since the snapshot is a 40001, and   *)
(* RowsAffected() other than 1 a 409.                                      *)
MarkSource(r) ==
  /\ pc[r] = "inserted"
  /\ IF ~missed[r] /\ Markable(call[r].kind, row[call[r].src])
     THEN /\ pc' = [pc EXCEPT ![r] = "marked"]
          /\ UNCHANGED <<call, reply, view, missed, lock, db, clock>>
     ELSE Rollback(r, IF missed[r] THEN "serialization_failure"
                                   ELSE "source_state_changed")

NewDoc(r) ==
  [kind |-> call[r].kind, no |-> call[r].no, src |-> call[r].src,
   hash |-> IF call[r].profile THEN HashAt(call[r], view[r].minute)
                               ELSE NoHash,
   owner |-> "api"]

(* The header, its details and profile relations and the mark on the       *)
(* source become visible in one step.                                      *)
Commit(r) ==
  /\ pc[r] = "marked"
  /\ docs' = docs \cup {NewDoc(r)}
  /\ rel' = rel \cup (IF call[r].profile
                      THEN NewRelations(r, call[r].kind, call[r].no)
                      ELSE {})
  /\ row' = [row EXCEPT ![call[r].src] = Marked(call[r].kind, @)]
  /\ EndTransaction(r)
  /\ missed' = [RowUpdated(call[r].src) EXCEPT ![r] = FALSE]
  /\ pc' = [pc EXCEPT ![r] = "committed"]
  /\ reply' = [reply EXCEPT ![r] = "created"]
  /\ UNCHANGED <<call, clock>>

(* The response leaves, or is lost with the connection or the process. *)
Respond(r) ==
  /\ pc[r] = "committed"
  /\ pc' = [pc EXCEPT ![r] = "done"]
  /\ UNCHANGED <<call, reply, view, missed, lock, db, clock>>

LoseReply(r) ==
  /\ pc[r] = "committed"
  /\ pc' = [pc EXCEPT ![r] = "done"]
  /\ reply' = [reply EXCEPT ![r] = "lost"]
  /\ UNCHANGED <<call, view, missed, lock, db, clock>>

(* A statement fails, a deadline passes, the client or the process goes    *)
(* away before the commit: the deferred Rollback, or the server, undoes    *)
(* the transaction.                                                        *)
Fail(r) ==
  /\ pc[r] \in Open
  /\ Rollback(r, "internal_error")

-----------------------------------------------------------------------------
(* The ERP desktop cancels an open source itself, without a marker. *)
ErpCancel(s) ==
  /\ row[s] = OpenRow
  /\ ~RowLocked(s)
  /\ \E k \in KindsOf(s), n \in DocNo :
       /\ ~NumberTaken(k, n)
       /\ ~NumberPending(k, n)
       /\ docs' = docs \cup {[kind |-> k, no |-> n, src |-> s,
                              hash |-> NoHash, owner |-> "erp"]}
       /\ row' = [row EXCEPT ![s] = Marked(k, @)]
  /\ missed' = RowUpdated(s)
  /\ UNCHANGED <<pc, call, reply, view, lock, rel, clock>>

(* The ERP refers to an open source from a document of another kind. *)
ErpReference(s) ==
  /\ row[s] = OpenRow
  /\ ~RowLocked(s)
  /\ row' = [row EXCEPT ![s].used = 1]
  /\ missed' = RowUpdated(s)
  /\ UNCHANGED <<pc, call, reply, view, lock, docs, rel, clock>>

(* Another writer updates a column of the row that no check reads, as the  *)
(* record lock of internal/handlers/lock.go does.                          *)
TouchSource(s) ==
  /\ row[s].last = 0
  /\ ~RowLocked(s)
  /\ missed' = RowUpdated(s)
  /\ UNCHANGED <<pc, call, reply, view, lock, db, clock>>

-----------------------------------------------------------------------------
Step(r) ==
  \/ AcquireLock(r)
  \/ LockTimeout(r)
  \/ AnswerOnly(r)
  \/ Examine(r)
  \/ Reconcile(r)
  \/ InsertHeader(r)
  \/ DuplicateNumber(r)
  \/ MarkSource(r)
  \/ Commit(r)
  \/ Respond(r)

Tick ==
  /\ clock < LastMinute
  /\ clock' = clock + 1
  /\ UNCHANGED <<pc, call, reply, view, missed, lock, db>>

Environment(s) == ErpCancel(s) \/ ErpReference(s) \/ TouchSource(s)

Next ==
  \/ \E r \in Request : Receive(r) \/ Step(r) \/ Fail(r) \/ LoseReply(r)
  \/ \E s \in Source : Environment(s)
  \/ Tick

Spec == Init /\ [][Next]_vars

(* A handler that runs goes on: nothing in it waits without a bound. *)
FairSpec == Spec /\ \A r \in Request : WF_vars(Step(r))

-----------------------------------------------------------------------------
TypeOK ==
  /\ pc \in [Request -> Phase]
  /\ call \in [Request -> Calls]
  /\ reply \in [Request -> Reply]
  /\ view \in [Request -> View]
  /\ missed \in [Request -> BOOLEAN]
  /\ lock \in [Source -> Request \cup {NoRequest}]
  /\ row \in [Source -> Row]
  /\ docs \subseteq Doc
  /\ rel \subseteq Relation
  /\ clock \in Minute

(* At most one cancellation document is ever active for a source, whoever  *)
(* made it: two requests whose snapshots both predate the first commit, or *)
(* a request racing the ERP, never both commit one.                        *)
AtMostOneCancellation == \A d, e \in docs : d.src = e.src => d = e

(* The mark on a source and its document go together: a void cancels the   *)
(* invoice, a credit note or a reversal uses the source up, and no source  *)
(* is cancelled without its void (the UPDATE of the source and the INSERT  *)
(* of the document are one transaction).                                   *)
SourceMatchesDocument ==
  /\ \A d \in docs : IF d.kind = "void" THEN row[d.src].last = 1
                                       ELSE row[d.src].used = 1
  /\ \A s \in Source :
       row[s].last = 1 => \E d \in DocsOf(s) : d.kind = "void"

(* writeProfileRelations is run at creation and again by every retry: each *)
(* profile document made here has its relations exactly once, none are     *)
(* ever added to a document of the ERP or of a legacy call, and none are   *)
(* without a document.                                                     *)
RelationsOnce ==
  /\ \A x, y \in rel : x.kind = y.kind /\ x.no = y.no => x = y
  /\ \A d \in docs : (d.hash # NoHash)
                    <=> (\E x \in rel : x.kind = d.kind /\ x.no = d.no)
  /\ \A x \in rel : NumberTaken(x.kind, x.no)

(* Between its checks and its commit a request works on what is committed: *)
(* the snapshot, older than its wait for the lock, still shows the source  *)
(* as it is, open and without any cancellation.                            *)
ExaminedSourceIsOpen ==
  \A r \in Request :
    pc[r] \in RowHolding =>
      /\ view[r].row = row[call[r].src]
      /\ row[call[r].src] = OpenRow
      /\ view[r].docs = {}
      /\ DocsOf(call[r].src) = {}

(* What a request was told is so: "created" of its own document, under its *)
(* number and payload, and "already_exists" of a document of its kind, for *)
(* a profile call with its body and made here.                             *)
AnswersAreTrue ==
  \A r \in Request :
    /\ reply[r] = "created" =>
         \E d \in DocsOf(call[r].src) :
           /\ d.kind = call[r].kind /\ d.no = call[r].no /\ d.owner = "api"
           /\ (d.hash # NoHash) = call[r].profile
    /\ reply[r] = "already_exists" =>
         \E d \in DocsOf(call[r].src) :
           /\ d.kind = call[r].kind
           /\ call[r].profile => /\ d.owner = "api"
                                 /\ d.hash.intent = call[r].intent

(* A retry of a committed call that gives its date and time, after a lost  *)
(* reply for instance, finds the document it made although the source is   *)
(* no longer open; only the row lock can make it fail.                     *)
RetryRecognised ==
  [][\A r \in Request :
       /\ pc[r] = "locked" /\ pc'[r] \in {"examined", "committed", "done"}
       /\ call[r].profile /\ call[r].timed
       /\ \E d \in view[r].docs : /\ d.kind = call[r].kind
                                  /\ d.no = call[r].no
                                  /\ d.hash = HashAt(call[r], 0)
       => reply'[r] \in {"already_exists", "serialization_failure",
                         "internal_error"}]_vars

(* Every request that was received is answered: none waits for ever for    *)
(* the lock of its source or for a document number another one inserts.    *)
Answered == \A r \in Request : pc[r] = "waiting" ~> pc[r] = "done"

(* What keeps a source from being cancelled twice: there is one active     *)
(* cancellation at most, and who is about to make one has seen what is     *)
(* committed (cancel_invoice.go:81).                                       *)
SourcesAreSafe == AtMostOneCancellation /\ ExaminedSourceIsOpen

-----------------------------------------------------------------------------
(* Why they hold: the parts of the inductive invariant. *)

(* The advisory lock of a source is with the request that is past the wait *)
(* for it.                                                                 *)
LockOwned ==
  \A r \in Request, s \in Source :
    lock[s] = r <=> pc[r] \in Holding /\ call[r].src = s

(* A snapshot that missed no update of its row is current. *)
ViewCurrent ==
  \A r \in Request :
    pc[r] \in Open /\ ~missed[r] => /\ view[r].row = row[call[r].src]
                                  /\ view[r].docs = DocsOf(call[r].src)

(* Nobody else updates the row between the checks and the commit. *)
RowLockKept ==
  \A r \in Request :
    pc[r] \in RowHolding => /\ ~missed[r]
                           /\ ~call[r].preview
                           /\ row[call[r].src] = OpenRow
                           /\ DocsOf(call[r].src) = {}

KindsMatch == \A d \in docs : d.kind \in KindsOf(d.src)

(* A call that could not have got the lock, the row or an open source has  *)
(* not got past it: every safety property of this module rests on this.    *)
IInv ==
  /\ TypeOK
  /\ LockOwned
  /\ ViewCurrent
  /\ RowLockKept
  /\ KindsMatch
  /\ SourceMatchesDocument
  /\ AtMostOneCancellation

(* A snapshot is of the past: its documents are still there, with the      *)
(* relations they were committed with.                                     *)
ViewOfThePast ==
  \A r \in Request :
    pc[r] \in Open =>
      /\ view[r].docs \subseteq DocsOf(call[r].src)
      /\ view[r].rel \subseteq rel
      /\ view[r].row.last = 1 => row[call[r].src].last = 1
      /\ \A d \in view[r].docs :
           d.hash # NoHash =>
             \E x \in view[r].rel : x.kind = d.kind /\ x.no = d.no

(* A number belongs to one document, committed or about to be. *)
NumbersOwned ==
  /\ \A d, e \in docs : d.kind = e.kind /\ d.no = e.no => d = e
  /\ \A r \in Request :
       pc[r] \in {"inserted", "marked"} =>
         /\ ~NumberTaken(call[r].kind, call[r].no)
         /\ \A q \in Request \ {r} :
              pc[q] \in {"inserted", "marked"} =>
                <<call[q].kind, call[q].no>> # <<call[r].kind, call[r].no>>

AnswersInPhase ==
  \A r \in Request :
    /\ reply[r] # "none" => pc[r] \in {"committed", "done"}
    /\ pc[r] = "committed" => reply[r] \in {"created", "already_exists"}

MarkersAreOurs == \A d \in docs : d.hash # NoHash => d.owner = "api"

(* What the answers and the profile relations rest on besides IInv. *)
JInv ==
  /\ IInv
  /\ ViewOfThePast
  /\ NumbersOwned
  /\ AnswersInPhase
  /\ MarkersAreOurs
  /\ RelationsOnce
  /\ AnswersAreTrue

-----------------------------------------------------------------------------
(* The abstract view: committed documents, and the answers by their class. *)
Refusal == Reply \ {"none", "created", "already_exists", "lost"}
outcomeBar == [s \in Source |-> DocsOf(s)]
answerBar == [r \in Request |-> IF reply[r] \in Refusal THEN "refused"
                                                       ELSE reply[r]]

Once == INSTANCE CancelOnce
          WITH Document <- Doc, outcome <- outcomeBar, answer <- answerBar

(* The transactions, locks and snapshots implement the one-step promise of *)
(* CancelOnce.                                                             *)
CancelledOnce == Once!Spec

(* The API document says that the 409 of the endpoints covers a "state     *)
(* race": a request that lost the race for its source is not answered by   *)
(* an internal error.                                                      *)
RacesAreConflicts == \A r \in Request : reply[r] # "serialization_failure"

(* The API document says "Idempotent by source sale invoice": a call with  *)
(* the body of the call that made the document is not told that the        *)
(* payload differs.                                                        *)
IdempotentBySource ==
  \A r \in Request :
    reply[r] = "payload_mismatch" /\ call[r].kind # "ssc" =>
      ~\E d \in DocsOf(call[r].src) : /\ d.owner = "api"
                                     /\ d.hash.intent = call[r].intent
=============================================================================
