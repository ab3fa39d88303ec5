---------------------------- MODULE ProfileWrite ----------------------------
(***************************************************************************)
(* The whole of a document write (createDocument in                        *)
(* internal/handlers/compat/write.go): the document in the main database,  *)
(* then its audit log in the log database, then the reply, which says of a *)
(* profile call whether the profile is complete.                           *)
(*                                                                         *)
(* The two commits are apart: between them other requests run, the log     *)
(* database may fail, and the process may stop, which is a request that    *)
(* takes no further step.                                                  *)
(***************************************************************************)
EXTENDS DocumentWrite

CONSTANTS
  NoBody,    \* a log row without content
  NoRequest  \* a free lock

VARIABLES stage, job, status, lock, logs, cache  \* those of ErpLog

ASSUME LogAssumption == NoBody \notin Body /\ NoRequest \notin Request

L == INSTANCE ErpLog WITH Jobs <- Calls

logVars == <<stage, job, status, lock, logs, cache>>
profileVars == <<vars, logVars>>

ProfileInit == Init /\ L!Init

-----------------------------------------------------------------------------
(* The transaction in the main database. *)
Writing(r) ==
  /\ Receive(r) \/ Reject(r) \/ Serve(r) \/ Fail(r) \/ CommitUnheard(r)
  /\ UNCHANGED logVars

(* Mutant: the log is written before the document is committed. *)
LogBeforeCommit(r) ==
  /\ pc[r] \in {"inserted", "stored"}
  /\ L!Begin(r, call[r])
  /\ UNCHANGED vars

(* writeERPLog is called: a legacy retry never comes here. *)
LogBegin(r) ==
  /\ pc[r] = "stored"
  /\ L!Begin(r, call[r])
  /\ UNCHANGED vars

Logging(r) ==
  /\ L!Step(r) \/ L!Fail(r) \/ L!CommitUnheard(r)
  /\ UNCHANGED vars

Reply(r) ==
  /\ stage[r] = "done"
  /\ Answer(r)
  /\ UNCHANGED logVars

ProfileNext ==
  \/ \E r \in Request : Writing(r) \/ LogBegin(r) \/ Logging(r) \/ Reply(r)
  \/ \E k \in Key : Environment(k) /\ UNCHANGED logVars
  \/ L!Forget /\ UNCHANGED vars

ProfileSpec == ProfileInit /\ [][ProfileNext]_profileVars

-----------------------------------------------------------------------------
(* Mutant: a warning is not worth a reconciliation. *)
CompleteAnyway(r) == call[r].profile

(* documentWriteResponse: profile_status, from what became of the log.     *)
Complete(r) ==
  call[r].profile /\ status[r] \in {"created", "skipped", "updated"}

Replied(r) == pc[r] = "done" /\ outcome[r] \in {"created", "already_exists"}

(* A client that is told that a profile is complete need not come back:    *)
(* header, relations, a marker with its payload and a log row with content *)
(* are all there, though they were committed in two databases and perhaps  *)
(* by different requests.                                                  *)
CompleteIsComplete ==
  \A r \in Request : Replied(r) /\ Complete(r) =>
    LET k == call[r].key
    IN  /\ stored[k] # NoDoc
        /\ rels[k] # {}
        /\ \E i \in DOMAIN marks[k] : marks[k][i].body = call[r].body
        /\ \E i \in DOMAIN logs[k] : logs[k][i].data # NoBody

(* The audit log tells of nothing that did not happen: a row is that of a  *)
(* request which created or found its document, and content in it is a     *)
(* payload that was accepted for the document; if the document was written *)
(* with its profile, exactly that one.                                     *)
LogFollowsDocument ==
  \A k \in Key : \A i \in DOMAIN logs[k] :
    /\ stored[k] # NoDoc
    /\ outcome[logs[k][i].by] \in {"created", "already_exists"}
    /\ logs[k][i].data # NoBody =>
         /\ \E n \in DOMAIN marks[k] : marks[k][n].body = logs[k][i].data
         /\ BornWithProfile(k) => logs[k][i].data = call[stored[k].by].body
=============================================================================
