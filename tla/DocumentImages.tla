--------------------------- MODULE DocumentImages ---------------------------
(***************************************************************************)
(* Replacing the page images of a document                                 *)
(* (internal/handlers/document_image.go).  They are kept twice, in the     *)
(* main database of the tenant and in its image database.                  *)
(*                                                                         *)
(* A request holds the document's lock in the main database, replaces and  *)
(* commits the rows of the image database under the lock of the same name  *)
(* there, and then replaces and commits those of the main database.  Both  *)
(* transactions are READ COMMITTED.  Between the two commits the process   *)
(* may stop; and the idle main transaction may be ended by the server, its *)
(* lock with it, long before the request notices.                          *)
(***************************************************************************)
EXTENDS Naturals

CONSTANTS
  Request,   \* HTTP requests; a retry is another one
  Doc,       \* document numbers
  Page,      \* page numbers
  Calls,     \* what clients ask for
  NoRequest  \* the advisory lock is free

Call == [doc : Doc, pages : (SUBSET Page) \ {{}}]
Row == [page : Page, by : Request]

ASSUME CallsAssumption == Calls \subseteq Call /\ Calls # {}
ASSUME NoneAssumption == NoRequest \notin Request

Phase == {"idle", "waiting", "found", "locked", "deleted", "stored",
          "replaced", "done"}
Outcome == {"none", "ok", "not_found", "failed"}

VARIABLES
  pc,        \* progress of each request
  call,      \* what it asks for
  outcome,   \* what it answered
  alive,     \* does the server still have its main transaction?
  doomed,    \* rows that its last DELETE found
  mainLock,  \* holder of each document's lock in the main database
  imageLock, \* and in the image database
  mainRows,  \* committed rows of each document in the main database
  imageRows  \* and in the image database

vars == <<pc, call, outcome, alive, doomed, mainLock, imageLock, mainRows,
          imageRows>>
locks == <<mainLock, imageLock>>
rows == <<mainRows, imageRows>>

-----------------------------------------------------------------------------
DocOf(r) == call[r].doc

(* The rows that r inserts, one for each page. *)
RowsOf(r) == {[page |-> p, by |-> r] : p \in call[r].pages}

Init ==
  /\ pc = [r \in Request |-> "idle"]
  /\ call = [r \in Request |-> CHOOSE c \in Calls : TRUE]
  /\ outcome = [r \in Request |-> "none"]
  /\ alive = [r \in Request |-> FALSE]
  /\ doomed = [r \in Request |-> {}]
  /\ mainLock = [d \in Doc |-> NoRequest]
  /\ imageLock = [d \in Doc |-> NoRequest]
  /\ mainRows = [d \in Doc |-> {}]
  /\ imageRows = [d \in Doc |-> {}]

(* Mutant: a lock of the session, which nobody gives back. *)
WithoutSession(lock, r) == lock

Without(lock, r) == [d \in Doc |-> IF lock[d] = r THEN NoRequest ELSE lock[d]]

(* The handler returns: what is still open is rolled back. *)
EndWith(r, answer) ==
  /\ pc' = [pc EXCEPT ![r] = "done"]
  /\ outcome' = [outcome EXCEPT ![r] = answer]
  /\ alive' = [alive EXCEPT ![r] = FALSE]
  /\ doomed' = [doomed EXCEPT ![r] = {}]
  /\ mainLock' = Without(mainLock, r)
  /\ imageLock' = Without(imageLock, r)
  /\ UNCHANGED call

-----------------------------------------------------------------------------
(* The images are valid and the main transaction begins. *)
Receive(r) ==
  /\ pc[r] = "idle"
  /\ \E c \in Calls : call' = [call EXCEPT ![r] = c]
  /\ pc' = [pc EXCEPT ![r] = "waiting"]
  /\ alive' = [alive EXCEPT ![r] = TRUE]
  /\ UNCHANGED <<outcome, doomed, locks, rows>>

(* acquireDocumentImageLock in the main database, and locateDocForLock. *)
LockMain(r) ==
  /\ pc[r] = "waiting"
  /\ alive[r]
  /\ mainLock[DocOf(r)] = NoRequest
  /\ mainLock' = [mainLock EXCEPT ![DocOf(r)] = r]
  /\ pc' = [pc EXCEPT ![r] = "found"]
  /\ UNCHANGED <<call, outcome, alive, doomed, imageLock, rows>>

(* Mutant: the error code is the outcome. *)
NotFoundInWords(r) ==
  /\ pc[r] = "waiting"
  /\ mainLock[DocOf(r)] = NoRequest
  /\ EndWith(r, "document_not_found")
  /\ UNCHANGED rows

NotFound(r) ==
  /\ pc[r] = "waiting"
  /\ alive[r]
  /\ mainLock[DocOf(r)] = NoRequest
  /\ EndWith(r, "not_found")
  /\ UNCHANGED rows

(* Mutant: the image database needs no lock of its own. *)
NoLockImage(r) ==
  /\ pc[r] = "found"
  /\ pc' = [pc EXCEPT ![r] = "locked"]
  /\ UNCHANGED <<call, outcome, alive, doomed, locks, rows>>

(* replaceDocumentImages in the image database: its lock first. *)
LockImage(r) ==
  /\ pc[r] = "found"
  /\ imageLock[DocOf(r)] = NoRequest
  /\ imageLock' = [imageLock EXCEPT ![DocOf(r)] = r]
  /\ pc' = [pc EXCEPT ![r] = "locked"]
  /\ UNCHANGED <<call, outcome, alive, doomed, mainLock, rows>>

(* DELETE: the rows that are committed when it starts.  The INSERTs that   *)
(* follow are seen by nobody before the commit.                            *)
DeleteImages(r) ==
  /\ pc[r] = "locked"
  /\ doomed' = [doomed EXCEPT ![r] = imageRows[DocOf(r)]]
  /\ pc' = [pc EXCEPT ![r] = "deleted"]
  /\ UNCHANGED <<call, outcome, alive, locks, rows>>

Replaced(stored, r) ==
  [stored EXCEPT ![DocOf(r)] = (@ \ doomed[r]) \cup RowsOf(r)]

CommitImages(r) ==
  /\ pc[r] = "deleted"
  /\ imageRows' = Replaced(imageRows, r)
  /\ imageLock' = Without(imageLock, r)
  /\ doomed' = [doomed EXCEPT ![r] = {}]
  /\ pc' = [pc EXCEPT ![r] = "stored"]
  /\ UNCHANGED <<call, outcome, alive, mainLock, mainRows>>

(* The commit took effect, its answer did not arrive. *)
CommitImagesUnheard(r) ==
  /\ pc[r] = "deleted"
  /\ imageRows' = Replaced(imageRows, r)
  /\ EndWith(r, "failed")
  /\ UNCHANGED mainRows

(* replaceDocumentImages in the main database: its lock is held already,   *)
(* unless the server ended the transaction, which r finds out here.        *)
ReplaceMain(r) ==
  /\ pc[r] = "stored"
  /\ alive[r]
  /\ doomed' = [doomed EXCEPT ![r] = mainRows[DocOf(r)]]
  /\ pc' = [pc EXCEPT ![r] = "replaced"]
  /\ UNCHANGED <<call, outcome, alive, locks, rows>>

CommitMain(r) ==
  /\ pc[r] = "replaced"
  /\ alive[r]
  /\ mainRows' = Replaced(mainRows, r)
  /\ EndWith(r, "ok")
  /\ UNCHANGED imageRows

CommitMainUnheard(r) ==
  /\ pc[r] = "replaced"
  /\ alive[r]
  /\ mainRows' = Replaced(mainRows, r)
  /\ EndWith(r, "failed")
  /\ UNCHANGED imageRows

(* A statement fails, a deadline passes, the client or the process goes    *)
(* away.                                                                   *)
Fail(r) ==
  /\ pc[r] \notin {"idle", "done"}
  /\ EndWith(r, "failed")
  /\ UNCHANGED rows

(* Mutant: the index in the main database is an extra, its error ignored. *)
MainGoneIgnored(r) ==
  /\ pc[r] \in {"waiting", "stored", "replaced"}
  /\ ~alive[r]
  /\ EndWith(r, IF pc[r] = "waiting" THEN "failed" ELSE "ok")
  /\ UNCHANGED rows

(* The next use of a main transaction that is gone. *)
MainGone(r) ==
  /\ pc[r] \in {"waiting", "stored", "replaced"}
  /\ ~alive[r]
  /\ EndWith(r, "failed")
  /\ UNCHANGED rows

(* The server ends the main transaction of r: connection or time-out.      *)
LoseMain(r) ==
  /\ alive[r]
  /\ alive' = [alive EXCEPT ![r] = FALSE]
  /\ mainLock' = Without(mainLock, r)
  /\ UNCHANGED <<pc, call, outcome, doomed, imageLock, rows>>

-----------------------------------------------------------------------------
Step(r) ==
  \/ LockMain(r)
  \/ LockImage(r)
  \/ DeleteImages(r)
  \/ CommitImages(r)
  \/ ReplaceMain(r)
  \/ CommitMain(r)
  \/ MainGone(r)

Next ==
  \E r \in Request :
    \/ Receive(r)
    \/ Step(r)
    \/ NotFound(r)
    \/ CommitImagesUnheard(r)
    \/ CommitMainUnheard(r)
    \/ Fail(r)
    \/ LoseMain(r)

Spec == Init /\ [][Next]_vars

(* A handler that runs goes on: its statements end within thirty seconds. *)
ImageFairness == \A r \in Request : WF_vars(Step(r))

FairSpec == Spec /\ ImageFairness

-----------------------------------------------------------------------------
TypeOK ==
  /\ pc \in [Request -> Phase]
  /\ call \in [Request -> Calls]
  /\ outcome \in [Request -> Outcome]
  /\ alive \in [Request -> BOOLEAN]
  /\ doomed \in [Request -> SUBSET Row]
  /\ mainLock \in [Doc -> Request \cup {NoRequest}]
  /\ imageLock \in [Doc -> Request \cup {NoRequest}]
  /\ mainRows \in [Doc -> SUBSET Row]
  /\ imageRows \in [Doc -> SUBSET Row]

(* "retries never create duplicate pages": in either database a document   *)
(* has the pages of one request, all of them and nothing else, however     *)
(* requests overlap and whichever transactions are lost.                   *)
Whole(stored, d) ==
  stored[d] = {} \/ \E r \in Request : DocOf(r) = d /\ stored[d] = RowsOf(r)

OneSnapshot == \A d \in Doc : Whole(mainRows, d) /\ Whole(imageRows, d)

(* The databases disagree on a document only while the request whose pages *)
(* the image database has was not told "ok": its client still waits, or    *)
(* knows that it has to try again.                                         *)
DivergenceIsReported ==
  \A d \in Doc : mainRows[d] # imageRows[d] =>
    \E r \in Request : /\ DocOf(r) = d
                       /\ imageRows[d] = RowsOf(r)
                       /\ outcome[r] \in {"none", "failed"}

(* Every request ends, and gives both locks up. *)
Answered == \A r \in Request : pc[r] = "waiting" ~> pc[r] = "done"
=============================================================================
