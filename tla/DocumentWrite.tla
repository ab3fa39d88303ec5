--------------------------- MODULE DocumentWrite ---------------------------
(***************************************************************************)
(* Writing a sale order, a sale invoice or a purchase order to the main    *)
(* database of a tenant (internal/handlers/compat/write.go), and the       *)
(* relations of its document profile (document_profile.go).                *)
(*                                                                         *)
(* A request is one REPEATABLE READ transaction whose snapshot is taken by *)
(* docExists.  A number that the snapshot does not show may have been      *)
(* taken since: the INSERT then fails on the unique index, and the request *)
(* compares itself with the document that is there in a second             *)
(* transaction, at READ COMMITTED.                                         *)
(*                                                                         *)
(* The ERP desktop creates, edits and cancels documents at any time.       *)
(***************************************************************************)
EXTENDS Sequences, Naturals, SequencesExt

CONSTANTS
  Request,  \* HTTP requests; each is served once, a retry is another one
  Key,      \* what names a document: its trans_flag and doc_no
  Core,     \* customer, totals and lines: what every retry is compared by
  Header,   \* dates, branch, remarks: what a profile retry also is
  Fine,     \* shipment, cents: what only the payload hash tells apart
  Calls,    \* the calls clients make
  Edited,   \* the core of a document that the ERP edited
  Erp,      \* the maker of a document that is not ours
  NoDoc,    \* there is no document
  NoHash    \* no profile marker is stored for the document

Body == [core : Core, head : Header, fine : Fine]
Call == [key : Key, profile : BOOLEAN, body : Body]

(* A row of ic_trans; active is last_status = 0. *)
Document == [core : Core \cup {Edited}, head : Header, active : BOOLEAN,
             by : Request \cup {Erp}]

(* A row of the VAT and shipment relations, and a profile marker in logs. *)
Relation == [by : Request, fine : Fine]
Marker == [by : Request, body : Body]

ASSUME CallsAssumption == Calls \subseteq Call /\ Calls # {}
ASSUME NullAssumption ==
  /\ Erp \notin Request
  /\ NoDoc \notin Document
  /\ NoHash \notin Body
  /\ Edited \notin Core

Phase == {"idle", "absent", "comparing", "matched", "inserted", "conflict",
          "stored", "done"}
Open == {"absent", "comparing", "matched", "inserted", "conflict"}
Outcome == {"none", "created", "already_exists", "rejected",
            "payload_mismatch", "duplicate_doc_no", "serialization_failure",
            "internal_error"}

VARIABLES
  pc,      \* progress of each request
  call,    \* what it asks for
  outcome, \* what became of it
  fresh,   \* is it in its second, READ COMMITTED transaction?
  view,    \* the snapshot of its first one
  missed,  \* was the header row updated after the snapshot?
  stored,  \* committed header row of each key
  rels,    \* committed relations of each key
  marks    \* committed profile markers of each key, in order

vars == <<pc, call, outcome, fresh, view, missed, stored, rels, marks>>
db == <<stored, rels, marks>>

-----------------------------------------------------------------------------
(* What a transaction reads of a key. *)
Reading == [row : Document \cup {NoDoc}, rels : SUBSET Relation,
            marks : Seq(Marker)]
Committed(k) == [row |-> stored[k], rels |-> rels[k], marks |-> marks[k]]
Nothing == [row |-> NoDoc, rels |-> {}, marks |-> <<>>]

NoCall == CHOOSE c \in Calls : TRUE

KeyOf(r) == call[r].key
BodyOf(r) == call[r].body

IsActive(row) == row # NoDoc /\ row.active

Init ==
  /\ pc = [r \in Request |-> "idle"]
  /\ call = [r \in Request |-> NoCall]
  /\ outcome = [r \in Request |-> "none"]
  /\ fresh = [r \in Request |-> FALSE]
  /\ view = [r \in Request |-> Nothing]
  /\ missed = [r \in Request |-> FALSE]
  /\ stored = [k \in Key |-> NoDoc]
  /\ rels = [k \in Key |-> {}]
  /\ marks = [k \in Key |-> <<>>]

(* Statements of the second transaction see what is committed when they    *)
(* run; those of the first see its snapshot.                               *)
Reads(r) == IF fresh[r] THEN Committed(KeyOf(r)) ELSE view[r]

(* The row lock of existingDocumentMatches, held until the commit. *)
RowLocked(k) == \E r \in Request : pc[r] = "matched" /\ KeyOf(r) = k

NumberPending(k) == \E r \in Request : pc[r] = "inserted" /\ KeyOf(r) = k

(* The transaction of r is over, and what r will be told is settled. *)
Leaves(r, phase, answer) ==
  /\ pc' = [pc EXCEPT ![r] = phase]
  /\ outcome' = [outcome EXCEPT ![r] = answer]
  /\ view' = [view EXCEPT ![r] = Nothing]
  /\ missed' = [missed EXCEPT ![r] = FALSE]
  /\ UNCHANGED <<call, fresh>>

(* The transaction of r is rolled back and the request is over. *)
EndWith(r, answer) == Leaves(r, "done", answer) /\ UNCHANGED db

Goes(r, phase) ==
  /\ pc' = [pc EXCEPT ![r] = phase]
  /\ UNCHANGED <<call, outcome, fresh, view, missed, db>>

-----------------------------------------------------------------------------
(* docExists takes the snapshot and says which way the request goes. *)
Receive(r) ==
  /\ pc[r] = "idle"
  /\ \E c \in Calls :
       /\ call' = [call EXCEPT ![r] = c]
       /\ view' = [view EXCEPT ![r] = Committed(c.key)]
       /\ pc' = [pc EXCEPT ![r] = IF IsActive(stored[c.key]) THEN "comparing"
                                                             ELSE "absent"]
  /\ UNCHANGED <<outcome, fresh, missed, db>>

(* validateRefs or prepareDocumentItems finds fault with a new document. *)
Reject(r) ==
  /\ pc[r] = "absent"
  /\ EndWith(r, "rejected")

(* INSERT of the header: it waits while another open transaction has the   *)
(* number.                                                                 *)
InsertHeader(r) ==
  /\ pc[r] = "absent"
  /\ stored[KeyOf(r)] = NoDoc
  /\ ~NumberPending(KeyOf(r))
  /\ Goes(r, "inserted")

(* Mutant: a taken number is refused without a look at what has it. *)
UniqueConflictRefused(r) ==
  /\ pc[r] = "absent"
  /\ stored[KeyOf(r)] # NoDoc
  /\ EndWith(r, "duplicate_doc_no")

(* Mutant: the whole request again, in a new snapshot. *)
UniqueConflictRepeated(r) ==
  /\ pc[r] = "absent"
  /\ stored[KeyOf(r)] # NoDoc
  /\ pc' = [pc EXCEPT ![r] = IF IsActive(stored[KeyOf(r)]) THEN "comparing"
                                                         ELSE "absent"]
  /\ view' = [view EXCEPT ![r] = Committed(KeyOf(r))]
  /\ missed' = [missed EXCEPT ![r] = FALSE]
  /\ UNCHANGED <<call, outcome, fresh, db>>

(* The unique index refuses the number: roll back and start again.  An     *)
(* inactive document, which docExists does not see, keeps its number.      *)
UniqueConflict(r) ==
  /\ pc[r] = "absent"
  /\ stored[KeyOf(r)] # NoDoc
  /\ pc' = [pc EXCEPT ![r] = "conflict"]
  /\ fresh' = [fresh EXCEPT ![r] = TRUE]
  /\ view' = [view EXCEPT ![r] = Nothing]
  /\ missed' = [missed EXCEPT ![r] = FALSE]
  /\ UNCHANGED <<call, outcome, db>>

(* docExists in the second transaction. *)
LookAgain(r) ==
  /\ pc[r] = "conflict"
  /\ IF IsActive(stored[KeyOf(r)]) THEN Goes(r, "comparing")
                                   ELSE EndWith(r, "duplicate_doc_no")

-----------------------------------------------------------------------------
(* existingDocumentMatches. *)
SameDocument(c, row) ==
  /\ row.core = c.body.core
  /\ c.profile => row.head = c.body.head

(* storedProfileHash: the latest marker decides. *)
StoredHash(reading) ==
  IF reading.marks = <<>> THEN NoHash ELSE Last(reading.marks).body

(* Mutant: a marker is never compared. *)
AcceptableAlways(c, reading) == SameDocument(c, reading.row)

(* validateStoredProfileHash: a document without a marker is any body's. *)
Acceptable(c, reading) ==
  /\ SameDocument(c, reading.row)
  /\ c.profile => StoredHash(reading) \in {NoHash, c.body}

(* FOR UPDATE on a row updated since the snapshot. *)
SerializationFailure(r) ==
  /\ pc[r] = "comparing"
  /\ ~fresh[r]
  /\ missed[r]
  /\ EndWith(r, "serialization_failure")

(* FOR UPDATE in the second transaction finds the row no longer active. *)
Vanished(r) ==
  /\ pc[r] = "comparing"
  /\ fresh[r]
  /\ ~IsActive(stored[KeyOf(r)])
  /\ EndWith(r, "internal_error")

(* Mutant: READ COMMITTED also in the first transaction, so that the row   *)
(* is there and is taken for what the earlier statement saw of it.         *)
RowReadLate(r) ==
  /\ pc[r] = "comparing"
  /\ ~RowLocked(KeyOf(r))
  /\ fresh[r] => IsActive(stored[KeyOf(r)])

(* The row is there and free, and r has it locked from now on. *)
RowRead(r) ==
  /\ pc[r] = "comparing"
  /\ ~RowLocked(KeyOf(r))
  /\ IF fresh[r] THEN IsActive(stored[KeyOf(r)]) ELSE ~missed[r]

Mismatch(r) ==
  /\ RowRead(r)
  /\ ~Acceptable(call[r], Reads(r))
  /\ EndWith(r, "payload_mismatch")

(* Mutant: a profile call is answered like a legacy one. *)
ExistsForAll(r) ==
  /\ RowRead(r)
  /\ Acceptable(call[r], Reads(r))
  /\ EndWith(r, "already_exists")

LegacyExists(r) ==
  /\ RowRead(r)
  /\ ~call[r].profile
  /\ Acceptable(call[r], Reads(r))
  /\ EndWith(r, "already_exists")

Match(r) ==
  /\ RowRead(r)
  /\ call[r].profile
  /\ Acceptable(call[r], Reads(r))
  /\ Goes(r, "matched")

-----------------------------------------------------------------------------
(* writeProfileRelations: each row is inserted WHERE NOT EXISTS, judged by *)
(* what the transaction reads; the marker by its hash.                     *)
WithRelations(r, reading) ==
  IF reading.rels = {} THEN {[by |-> r, fine |-> BodyOf(r).fine]} ELSE {}

WithMarker(r, reading) ==
  IF \E i \in DOMAIN reading.marks : reading.marks[i].body = BodyOf(r)
  THEN <<>>
  ELSE <<[by |-> r, body |-> BodyOf(r)]>>

WriteProfile(r, reading) ==
  /\ rels' = [rels EXCEPT ![KeyOf(r)] = @ \cup WithRelations(r, reading)]
  /\ marks' = [marks EXCEPT ![KeyOf(r)] = @ \o WithMarker(r, reading)]

(* The transaction of r makes the document: header, details, relations and *)
(* marker become visible in one step.                                      *)
Stores(r) ==
  /\ pc[r] = "inserted"
  /\ stored' = [stored EXCEPT ![KeyOf(r)] =
                  [core |-> BodyOf(r).core, head |-> BodyOf(r).head,
                   active |-> TRUE, by |-> r]]
  /\ IF call[r].profile THEN WriteProfile(r, Reads(r))
                        ELSE UNCHANGED <<rels, marks>>

(* The transaction of r adds to a document what is missing of its profile. *)
Reconciles(r) ==
  /\ pc[r] = "matched"
  /\ WriteProfile(r, Reads(r))
  /\ UNCHANGED stored

(* Mutant: the word of the log line is the answer. *)
CommittingAsLogged(r, answer) ==
  Leaves(r, "stored", IF answer = "already_exists"
                      THEN "already_exists_reconciled" ELSE answer)

(* The commit is heard, and the request goes on to the log. *)
Committing(r, answer) == Leaves(r, "stored", answer)

Commit(r) == Stores(r) /\ Committing(r, "created")

Reconcile(r) == Reconciles(r) /\ Committing(r, "already_exists")

(* The commit takes effect and tx.Commit returns an error: the connection  *)
(* or the deadline ended while its answer was under way.  The request is   *)
(* told that it failed, and does not come to the log.                      *)
CommitUnheard(r) ==
  /\ Stores(r) \/ Reconciles(r)
  /\ Leaves(r, "done", "internal_error")

(* The reply: a legacy retry leaves without it passing here. *)
Answer(r) ==
  /\ pc[r] = "stored"
  /\ Goes(r, "done")

(* A statement fails, a deadline passes, the client or the process goes    *)
(* away, and the transaction is not committed.                             *)
Fail(r) ==
  /\ pc[r] \in Open
  /\ EndWith(r, "internal_error")

-----------------------------------------------------------------------------
(* An update of the row of k commits: every snapshot before it misses it.  *)
RowUpdated(k) ==
  [q \in Request |-> missed[q] \/ (pc[q] \in {"absent", "comparing"}
                                   /\ KeyOf(q) = k /\ ~fresh[q])]

ErpCreate(k) ==
  /\ stored[k] = NoDoc
  /\ ~NumberPending(k)
  /\ \E c \in Core, h \in Header :
       stored' = [stored EXCEPT ![k] = [core |-> c, head |-> h,
                                        active |-> TRUE, by |-> Erp]]
  /\ UNCHANGED <<pc, call, outcome, fresh, view, missed, rels, marks>>

(* The ERP changes the document for good, its lines for instance. *)
ErpEdit(k) ==
  /\ IsActive(stored[k])
  /\ ~RowLocked(k)
  /\ stored' = [stored EXCEPT ![k].core = Edited]
  /\ missed' = RowUpdated(k)
  /\ UNCHANGED <<pc, call, outcome, fresh, view, rels, marks>>

(* The ERP, or a void of the invoice made here, cancels the document. *)
Cancel(k) ==
  /\ IsActive(stored[k])
  /\ ~RowLocked(k)
  /\ stored' = [stored EXCEPT ![k].active = FALSE]
  /\ missed' = RowUpdated(k)
  /\ UNCHANGED <<pc, call, outcome, fresh, view, rels, marks>>

-----------------------------------------------------------------------------
(* What a request does to the main database before its reply. *)
Serve(r) ==
  \/ InsertHeader(r)
  \/ UniqueConflict(r)
  \/ LookAgain(r)
  \/ SerializationFailure(r)
  \/ Vanished(r)
  \/ Mismatch(r)
  \/ LegacyExists(r)
  \/ Match(r)
  \/ Reconcile(r)
  \/ Commit(r)

Environment(k) == ErpCreate(k) \/ ErpEdit(k) \/ Cancel(k)

Next ==
  \/ \E r \in Request : Receive(r) \/ Reject(r) \/ Serve(r) \/ Answer(r)
                        \/ Fail(r) \/ CommitUnheard(r)
  \/ \E k \in Key : Environment(k)

Spec == Init /\ [][Next]_vars

(* A handler that runs goes on: nothing in it waits without a bound. *)
FairSpec == Spec /\ \A r \in Request : WF_vars(Serve(r) \/ Answer(r))

-----------------------------------------------------------------------------
TypeOK ==
  /\ pc \in [Request -> Phase]
  /\ call \in [Request -> Calls]
  /\ outcome \in [Request -> Outcome]
  /\ fresh \in [Request -> BOOLEAN]
  /\ view \in [Request -> Reading]
  /\ missed \in [Request -> BOOLEAN]
  /\ stored \in [Key -> Document \cup {NoDoc}]
  /\ rels \in [Key -> SUBSET Relation]
  /\ marks \in [Key -> Seq(Marker)]

(* Of the requests for one number one creates it, and the document stays   *)
(* its own; a profile call that is told that its document is stored finds  *)
(* its relations and its own payload recorded with it.                     *)
OutcomesAreTrue ==
  \A r \in Request :
    /\ outcome[r] = "created" =>
         stored[KeyOf(r)] # NoDoc /\ stored[KeyOf(r)].by = r
    /\ outcome[r] \in {"created", "already_exists"} /\ call[r].profile =>
         /\ rels[KeyOf(r)] # {}
         /\ \E i \in DOMAIN marks[KeyOf(r)] :
              marks[KeyOf(r)][i].body = BodyOf(r)

(* As its callers see it, a document write happens in one step, the one in *)
(* which it is answered: two transactions, a snapshot that may be stale,   *)
(* waits for numbers and rows and a commit whose answer is lost implement  *)
(* WriteOnce.                                                              *)
askBar == [r \in Request |-> IF pc[r] = "idle" THEN {} ELSE {call[r]}]
payloadsBar == [k \in Key |-> {marks[k][i].body : i \in DOMAIN marks[k]}]

Once == INSTANCE WriteOnce WITH
  ask <- askBar, document <- stored, payloads <- payloadsBar,
  answer <- outcome

WrittenOnce == Once!Spec

(* A document whose profile was written with it has one set of relations   *)
(* and one marker, those of its creation, whatever is sent for its number  *)
(* later or at the same time; and no document has relations without a      *)
(* marker, or either without its header.                                   *)
BornWithProfile(k) ==
  /\ stored[k] # NoDoc
  /\ stored[k].by # Erp
  /\ call[stored[k].by].profile

ProfileWrittenOnce ==
  \A k \in Key :
    /\ BornWithProfile(k) =>
         /\ marks[k] = <<[by |-> stored[k].by, body |-> BodyOf(stored[k].by)]>>
         /\ rels[k] = {[by |-> stored[k].by,
                        fine |-> BodyOf(stored[k].by).fine]}
    /\ rels[k] # {} <=> marks[k] # <<>>
    /\ rels[k] # {} => stored[k] # NoDoc

(* "an identical retry is idempotent": a call with the number and the body *)
(* of the call that made a document is never refused because of it, unless *)
(* the ERP changed or cancelled the document; not even when both were sent *)
(* at the same time and neither saw the other, or when the first was told  *)
(* that it failed.                                                         *)
IdenticalRetry ==
  \A q, r \in Request :
    LET doc == stored[KeyOf(q)]
    IN  /\ doc # NoDoc /\ doc.by = q /\ call[r] = call[q]
        /\ doc.active /\ doc.core = BodyOf(q).core
        => outcome[r] \notin {"payload_mismatch", "duplicate_doc_no"}

(* Every request that was received is answered, whatever numbers and rows  *)
(* it has to wait for.                                                     *)
Answered == \A r \in Request : pc[r] # "idle" ~> pc[r] = "done"

(* A test says that a different payload hash must conflict: no document    *)
(* ends up with the markers of two payloads.                               *)
OnePayload ==
  \A k \in Key : \A i, j \in DOMAIN marks[k] :
    marks[k][i].body = marks[k][j].body
=============================================================================
