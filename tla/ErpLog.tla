------------------------------- MODULE ErpLog -------------------------------
(***************************************************************************)
(* The ERP's audit log of a document, written after the document itself is *)
(* committed, in another database of the tenant (writeERPLog and           *)
(* insertERPLog in internal/handlers/compat/write.go).                     *)
(*                                                                         *)
(* The log is optional: whatever goes wrong ends in a warning.  A memory   *)
(* of one minute saves legacy calls from waiting for a log database that   *)
(* was just found to be down.  Profile calls always try, and fill in the   *)
(* content of a row that a legacy call left without any.                   *)
(***************************************************************************)
EXTENDS Naturals, Sequences

CONSTANTS
  Request,   \* calls of writeERPLog
  Key,       \* documents: trans_flag and doc_no
  Body,      \* payloads
  Jobs,      \* what is to be logged
  NoBody,    \* data_new is empty
  NoRequest  \* the advisory lock is free

Job == [key : Key, profile : BOOLEAN, body : Body]

(* A row of erp_logs made here (user_code BILLFLOW, function_code 1). *)
LogRow == [by : Request, data : Body \cup {NoBody}]

ASSUME JobsAssumption == Jobs \subseteq Job /\ Jobs # {}
ASSUME NoneAssumption == NoBody \notin Body /\ NoRequest \notin Request

Stage == {"idle", "waiting", "locked", "written", "decided", "done"}
Status == {"none", "created", "updated", "skipped", "warning"}

VARIABLES
  stage,  \* progress of each request
  job,    \* what it has to log
  status, \* what it found or did
  lock,   \* advisory lock of each document, in the log database
  logs,   \* committed rows of each document, by roworder
  cache   \* what is remembered of the log database

vars == <<stage, job, status, lock, logs, cache>>

-----------------------------------------------------------------------------
KeyOf(r) == job[r].key

(* What is written for j, given the status that was decided on. *)
DataOf(j) == IF j.profile THEN j.body ELSE NoBody
HasData(row) == row.data # NoBody

Init ==
  /\ stage = [r \in Request |-> "idle"]
  /\ job = [r \in Request |-> CHOOSE j \in Jobs : TRUE]
  /\ status = [r \in Request |-> "none"]
  /\ lock = [k \in Key |-> NoRequest]
  /\ logs = [k \in Key |-> <<>>]
  /\ cache = "unknown"

-----------------------------------------------------------------------------
(* cachedERPLogAvailability, and who may use it. *)
CachedDown(j) == cache = "down" /\ ~j.profile

(* writeERPLog begins: a legacy call is turned away on the cache's word.   *)
Begin(r, j) ==
  /\ stage[r] = "idle"
  /\ job' = [job EXCEPT ![r] = j]
  /\ IF CachedDown(j)
     THEN /\ stage' = [stage EXCEPT ![r] = "done"]
          /\ status' = [status EXCEPT ![r] = "warning"]
     ELSE /\ stage' = [stage EXCEPT ![r] = "waiting"]
          /\ UNCHANGED status
  /\ UNCHANGED <<lock, logs, cache>>

(* Mutant: no advisory lock. *)
Unlocked(r) ==
  /\ stage[r] = "waiting"
  /\ stage' = [stage EXCEPT ![r] = "locked"]
  /\ UNCHANGED <<job, status, lock, logs, cache>>

(* pg_advisory_xact_lock on tenant, flag and number. *)
Lock(r) ==
  /\ stage[r] = "waiting"
  /\ lock[KeyOf(r)] = NoRequest
  /\ lock' = [lock EXCEPT ![KeyOf(r)] = r]
  /\ stage' = [stage EXCEPT ![r] = "locked"]
  /\ UNCHANGED <<job, status, logs, cache>>

(* Mutant: any row is a duplicate, as it is for a legacy call. *)
AnyDuplicate(j, rows) == rows # <<>>

(* duplicateCondition. *)
Duplicate(j, rows) == \E i \in DOMAIN rows : j.profile => HasData(rows[i])

(* UPDATE of the first row, which has an effect if that row has no data.   *)
Fillable(j, rows) == j.profile /\ rows # <<>> /\ ~HasData(Head(rows))

(* Mutant: the word of the document's own retry. *)
VerdictInWords(j, rows) ==
  IF Duplicate(j, rows) THEN "already_exists"
  ELSE IF Fillable(j, rows) THEN "updated" ELSE "created"

Verdict(j, rows) ==
  IF Duplicate(j, rows) THEN "skipped"
  ELSE IF Fillable(j, rows) THEN "updated" ELSE "created"

(* insertERPLog: the check and the statement that follows it; READ         *)
(* COMMITTED, so the check sees what the last holder of the lock did.      *)
Write(r) ==
  /\ stage[r] = "locked"
  /\ status' = [status EXCEPT ![r] = Verdict(job[r], logs[KeyOf(r)])]
  /\ stage' = [stage EXCEPT ![r] = "written"]
  /\ UNCHANGED <<job, lock, logs, cache>>

(* Mutant: the UPDATE comes before the check, and without its condition. *)
AfterUpdatingFirst(r, rows) ==
  CASE status[r] = "created" -> Append(rows, [by |-> r, data |-> DataOf(job[r])])
    [] status[r] # "created" /\ job[r].profile ->
         [rows EXCEPT ![1].data = job[r].body]
    [] OTHER -> rows

(* What the commit of r makes of the rows of its document. *)
After(r, rows) ==
  CASE status[r] = "created" -> Append(rows, [by |-> r, data |-> DataOf(job[r])])
    [] status[r] = "updated" -> [rows EXCEPT ![1].data = job[r].body]
    [] OTHER -> rows

(* Mutant: a lock of the session, which nobody gives back. *)
KeepLock(r) == lock' = lock

(* The advisory lock is one of the transaction. *)
Release(r) ==
  lock' = [k \in Key |-> IF lock[k] = r THEN NoRequest ELSE lock[k]]

Commit(r) ==
  /\ stage[r] = "written"
  /\ logs' = [logs EXCEPT ![KeyOf(r)] = After(r, @)]
  /\ stage' = [stage EXCEPT ![r] = "decided"]
  /\ Release(r)
  /\ UNCHANGED <<job, status, cache>>

(* No pool, a statement that fails, or the deadline of two seconds. *)
Fail(r) ==
  /\ stage[r] \in {"waiting", "locked", "written"}
  /\ stage' = [stage EXCEPT ![r] = "decided"]
  /\ status' = [status EXCEPT ![r] = "warning"]
  /\ Release(r)
  /\ UNCHANGED <<job, logs, cache>>

(* The commit took effect but its answer did not arrive in time. *)
CommitUnheard(r) ==
  /\ stage[r] = "written"
  /\ logs' = [logs EXCEPT ![KeyOf(r)] = After(r, @)]
  /\ stage' = [stage EXCEPT ![r] = "decided"]
  /\ status' = [status EXCEPT ![r] = "warning"]
  /\ Release(r)
  /\ UNCHANGED <<job, cache>>

(* setERPLogAvailability, some time after the transaction ended. *)
Remember(r) ==
  /\ stage[r] = "decided"
  /\ cache' = IF status[r] = "warning" THEN "down" ELSE "up"
  /\ stage' = [stage EXCEPT ![r] = "done"]
  /\ UNCHANGED <<job, status, lock, logs>>

(* A minute passes. *)
Forget ==
  /\ cache # "unknown"
  /\ cache' = "unknown"
  /\ UNCHANGED <<stage, job, status, lock, logs>>

-----------------------------------------------------------------------------
Step(r) == Lock(r) \/ Write(r) \/ Commit(r) \/ Remember(r)

Next ==
  \/ \E r \in Request :
       Step(r) \/ Fail(r) \/ CommitUnheard(r) \/ \E j \in Jobs : Begin(r, j)
  \/ Forget

Spec == Init /\ [][Next]_vars

(* A call that runs goes on: each of its statements has a deadline. *)
FairSpec == Spec /\ \A r \in Request : WF_vars(Step(r))

-----------------------------------------------------------------------------
TypeOK ==
  /\ stage \in [Request -> Stage]
  /\ job \in [Request -> Jobs]
  /\ status \in [Request -> Status]
  /\ lock \in [Key -> Request \cup {NoRequest}]
  /\ logs \in [Key -> Seq(LogRow)]
  /\ cache \in {"unknown", "up", "down"}

(* However many calls log one document, with or without a profile, retried *)
(* or at the same time, it has at most one row of this service.            *)
OneLogRow == \A k \in Key : Len(logs[k]) <= 1

(* A caller is told "created", "updated" or "skipped" only of a row that   *)
(* is there, and a profile call only of a row with content: the reply's    *)
(* profile_status "complete" rests on it.                                  *)
Settled(r) ==
  stage[r] \in {"decided", "done"}
  /\ status[r] \in {"created", "updated", "skipped"}

StatusIsTrue ==
  \A r \in Request : Settled(r) =>
    /\ logs[KeyOf(r)] # <<>>
    /\ job[r].profile => HasData(Head(logs[KeyOf(r)]))
    /\ status[r] = "created" => Head(logs[KeyOf(r)]).by = r

(* As its callers see it, a call logs in one step: the lock, the check, the *)
(* statement that follows it and the commit implement LogOnce.             *)
askBar == [r \in Request |-> IF stage[r] = "idle" THEN {} ELSE {job[r]}]
entryBar == [k \in Key |-> {logs[k][i] : i \in DOMAIN logs[k]}]
answerBar ==
  [r \in Request |-> IF stage[r] \in {"decided", "done"} THEN status[r]
                                                        ELSE "none"]

Once == INSTANCE LogOnce WITH
  ask <- askBar, entry <- entryBar, answer <- answerBar

LoggedOnce == Once!Spec

(* Content, once logged, is never changed or removed by a later call, and  *)
(* a row is never lost.                                                    *)
LogIsKept ==
  [][\A k \in Key : \A i \in DOMAIN logs[k] :
       /\ i \in DOMAIN logs'[k]
       /\ logs'[k][i].by = logs[k][i].by
       /\ HasData(logs[k][i]) => logs'[k][i] = logs[k][i]]_vars

(* Every call ends and gives up its lock, whoever else logs the document.  *)
CallsEnd == \A r \in Request : stage[r] # "idle" ~> stage[r] = "done"
=============================================================================
