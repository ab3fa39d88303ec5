------------------------- MODULE PurchaseOrderUpdate -------------------------
(***************************************************************************)
(* Changing the creditor or the reference of a purchase order              *)
(* (UpdatePurchaseOrderCreditor and UpdatePurchaseOrderDocRef in           *)
(* internal/handlers/compat/write.go).                                     *)
(*                                                                         *)
(* The transaction is READ COMMITTED: SELECT ... FOR UPDATE waits for the  *)
(* row and reads it as it is then.  The caller may say which value it      *)
(* expects to replace.  A new creditor is written to the log database as   *)
(* well, by a statement of its own after the commit, which nothing orders  *)
(* among several requests; and the row it changes may still be about to be *)
(* written by the creation of the order.                                   *)
(***************************************************************************)
EXTENDS OrderRow

CONSTANTS
  Updates,   \* what clients ask for
  Supplier,  \* creditors that exist and are in use
  NoLogRow,  \* the log database has no row of the order
  NoHeader   \* a request that has read nothing, or is over

Expected == Value \cup {NoValue}
Update == [field : Field, new : Value, old : Expected, remark : Expected,
           dry : BOOLEAN]

ASSUME UpdatesAssumption ==
  /\ Updates \subseteq Update /\ Updates # {}
  /\ \A u \in Updates : u.field = "cust_code" => u.remark = NoValue /\ ~u.dry
ASSUME LogAssumption == NoLogRow \notin Value /\ NoHeader \notin Header

Step == {"idle", "begun", "missing", "locked", "logging", "adrift", "over"}
OrderAnswer == {"none", "updated", "unchanged", "dry_run", "conflict",
                "supplier_not_found", "not_purchase_order", "not_found", "failed"}
LogAnswer == {"none", "updated", "skipped", "warning"}

VARIABLES
  step,    \* progress of each request
  update,  \* what it asks for
  seen,    \* the header it has read
  answer,  \* what became of the order
  logged,  \* log_status of the reply
  alone,   \* no other log statement was under way at its commit (history)
  logRow,  \* cust_code of the order's row in erp_logs
  toLog    \* the creditor that the creation is about to log

orderVars == <<step, update, seen, answer, logged, alone, logRow, toLog>>

OrderInit ==
  /\ step = [r \in Writer |-> "idle"]
  /\ update = [r \in Writer |-> CHOOSE u \in Updates : TRUE]
  /\ seen = [r \in Writer |-> NoHeader]
  /\ answer = [r \in Writer |-> "none"]
  /\ logged = [r \in Writer |-> "none"]
  /\ alone = [r \in Writer |-> FALSE]
  /\ logRow = NoLogRow
  /\ toLog = NoValue

Forget(r) == seen' = [seen EXCEPT ![r] = NoHeader]

At(r, s) == step' = [step EXCEPT ![r] = s]

(* The handler returns and gives back what it has locked. *)
OrderEnd(r, a) ==
  /\ At(r, "over")
  /\ answer' = [answer EXCEPT ![r] = a]
  /\ rowLock' = IF rowLock = r THEN Unlocked ELSE rowLock
  /\ UNCHANGED <<status, frozen, header, detail, writtenBy>>
  /\ Forget(r)
  /\ UNCHANGED <<update, logged, alone, logRow, toLog>>

-----------------------------------------------------------------------------
ReceiveUpdate(r) ==
  /\ step[r] = "idle"
  /\ \E u \in Updates : update' = [update EXCEPT ![r] = u]
  /\ At(r, "begun")
  /\ UNCHANGED <<seen, answer, logged, alone, logRow, toLog, rowVars>>

(* Mutant: SELECT without FOR UPDATE. *)
ReadRow(r) ==
  /\ step[r] = "begun" /\ Active("purchase")
  /\ seen' = [seen EXCEPT ![r] = header]
  /\ At(r, "locked")
  /\ UNCHANGED <<update, answer, logged, alone, logRow, toLog, rowVars>>

(* SELECT ... FOR UPDATE finds the order, at last. *)
LockRow(r) ==
  /\ step[r] = "begun" /\ Active("purchase") /\ rowLock = Unlocked
  /\ rowLock' = r
  /\ seen' = [seen EXCEPT ![r] = header]
  /\ At(r, "locked")
  /\ UNCHANGED <<update, answer, logged, alone, logRow, toLog>>
  /\ UNCHANGED <<status, frozen, header, detail, writtenBy>>

MissRow(r) ==
  /\ step[r] = "begun" /\ ~Active("purchase")
  /\ At(r, "missing")
  /\ UNCHANGED <<update, seen, answer, logged, alone, logRow, toLog, rowVars>>

(* A second statement asks for any active document of ic_trans: it may be  *)
(* the order itself, if that has become active in between.                 *)
NotPurchaseOrder(r) ==
  /\ step[r] = "missing" /\ \E x \in InTrans : Active(x)
  /\ OrderEnd(r, "not_purchase_order")

NotFound(r) ==
  /\ step[r] = "missing" /\ \A x \in InTrans : ~Active(x)
  /\ OrderEnd(r, "not_found")

AsExpected(r) ==
  /\ update[r].old \in {NoValue, seen[r][update[r].field]}
  /\ update[r].remark \in {NoValue, seen[r]["remark_5"]}

(* creditor_changed, doc_ref_changed, remark_5_mismatch *)
Conflict(r) ==
  /\ step[r] = "locked" /\ ~AsExpected(r)
  /\ OrderEnd(r, "conflict")

KnownSupplier(r) == update[r].field = "cust_code" => update[r].new \in Supplier

SupplierNotFound(r) ==
  /\ step[r] = "locked" /\ AsExpected(r) /\ ~KnownSupplier(r)
  /\ OrderEnd(r, "supplier_not_found")

Acceptable(r) == step[r] = "locked" /\ AsExpected(r) /\ KnownSupplier(r)
Changes(r) == seen[r][update[r].field] # update[r].new

DryRun(r) ==
  /\ Acceptable(r) /\ update[r].dry
  /\ OrderEnd(r, "dry_run")

(* The same value again: committed without an UPDATE, and not logged. *)
Unchanged(r) ==
  /\ Acceptable(r) /\ ~update[r].dry /\ ~Changes(r)
  /\ OrderEnd(r, "unchanged")

(* Mutant: the header only. *)
WriteHeader(r) ==
  /\ header' = [header EXCEPT ![update[r].field] = update[r].new]
  /\ writtenBy' = [writtenBy EXCEPT ![update[r].field] = r]
  /\ UNCHANGED <<detail, status, frozen>>

(* Mutant: the parameters of the UPDATE are in the wrong order. *)
WriteExpected(r) ==
  /\ header' = [header EXCEPT ![update[r].field] = update[r].old]
  /\ detail' = [detail EXCEPT ![update[r].field] = update[r].old]
  /\ writtenBy' = [writtenBy EXCEPT ![update[r].field] = r]
  /\ UNCHANGED <<status, frozen>>

(* UPDATE of the header and of the details. *)
WriteRows(r) ==
  /\ header' = [header EXCEPT ![update[r].field] = update[r].new]
  /\ detail' = [detail EXCEPT ![update[r].field] = update[r].new]
  /\ writtenBy' = [writtenBy EXCEPT ![update[r].field] = r]
  /\ UNCHANGED <<status, frozen>>

NothingToLog ==
  toLog = NoValue /\ \A q \in Writer : step[q] \notin {"logging", "adrift"}

CommitUpdate(r) ==
  /\ Acceptable(r) /\ ~update[r].dry /\ Changes(r)
  /\ WriteRows(r)
  /\ rowLock' = Unlocked
  /\ answer' = [answer EXCEPT ![r] = "updated"]
  /\ alone' = [alone EXCEPT ![r] = NothingToLog]
  /\ IF update[r].field = "cust_code"
     THEN At(r, "logging") /\ UNCHANGED seen
     ELSE At(r, "over") /\ Forget(r)
  /\ UNCHANGED <<update, logged, logRow, toLog>>

(* An error, the deadline, a client that went away; the commit may have    *)
(* taken effect, and then nobody writes the log.                           *)
FailUpdate(r) ==
  /\ step[r] \in {"begun", "missing", "locked"}
  /\ OrderEnd(r, "failed")

CommitUnheard(r) ==
  /\ Acceptable(r) /\ ~update[r].dry /\ Changes(r)
  /\ WriteRows(r)
  /\ rowLock' = Unlocked
  /\ answer' = [answer EXCEPT ![r] = "failed"]
  /\ At(r, "over")
  /\ Forget(r)
  /\ UNCHANGED <<update, logged, alone, logRow, toLog>>

-----------------------------------------------------------------------------
(* Mutant: the log is given the creditor that was replaced. *)
LogReplaced(r) ==
  logRow' = IF logRow = NoLogRow THEN NoLogRow ELSE seen[r]["cust_code"]

LogChanged(r) == logRow' = IF logRow = NoLogRow THEN NoLogRow ELSE update[r].new

(* updateERPLogCreditor: one UPDATE; without a row it changes nothing. *)
LogUpdate(r) ==
  /\ step[r] = "logging"
  /\ LogChanged(r)
  /\ logged' = [logged EXCEPT ![r] =
       IF logRow = NoLogRow THEN "skipped" ELSE "updated"]
  /\ At(r, "over")
  /\ Forget(r)
  /\ UNCHANGED <<update, answer, alone, toLog, rowVars>>

(* The log database is away or late; the server may still execute the      *)
(* statement afterwards.                                                   *)
LogGivenUp(r) ==
  /\ step[r] = "logging"
  /\ logged' = [logged EXCEPT ![r] = "warning"]
  /\ At(r, "adrift")
  /\ UNCHANGED <<update, seen, answer, alone, logRow, toLog, rowVars>>

LogLate(r) ==
  /\ step[r] = "adrift"
  /\ LogChanged(r) \/ UNCHANGED logRow
  /\ At(r, "over")
  /\ Forget(r)
  /\ UNCHANGED <<update, answer, logged, alone, toLog, rowVars>>

(* insertERPLog for the creation: it adds the row, or gives a row that has *)
(* no content yet the creditor of its own payload, or fails.               *)
LogCreation ==
  /\ toLog # NoValue
  /\ logRow' \in {logRow, toLog}
  /\ toLog' = NoValue
  /\ UNCHANGED <<step, update, seen, answer, logged, alone, rowVars>>

(* The order is created by this service, or its creation is tried again:   *)
(* it matches the order, and will log the creditor it matched.             *)
Create ==
  /\ Active("purchase") /\ rowLock = Unlocked /\ toLog = NoValue
  /\ toLog' = header["cust_code"]
  /\ UNCHANGED <<step, update, seen, answer, logged, alone, logRow, rowVars>>

OrderStep(r) ==
  \/ LockRow(r) \/ MissRow(r) \/ NotPurchaseOrder(r) \/ NotFound(r)
  \/ Conflict(r) \/ SupplierNotFound(r) \/ DryRun(r) \/ Unchanged(r)
  \/ CommitUpdate(r) \/ LogUpdate(r)

OrderNext ==
  \/ \E r \in Writer :
       \/ ReceiveUpdate(r) \/ OrderStep(r) \/ FailUpdate(r) \/ CommitUnheard(r)
       \/ LogGivenUp(r) \/ LogLate(r)
  \/ LogCreation \/ Create

-----------------------------------------------------------------------------
OrderTypeOK ==
  /\ status \in [Row -> {"absent", "active", "cancelled"}]
  /\ frozen \subseteq Row
  /\ header \in Header
  /\ detail \in [Field -> Value]
  /\ writtenBy \in [Field -> Writer \cup {Desktop}]
  /\ rowLock \in Writer \cup {Unlocked}
  /\ step \in [Writer -> Step]
  /\ update \in [Writer -> Updates]
  /\ seen \in [Writer -> Header \cup {NoHeader}]
  /\ answer \in [Writer -> OrderAnswer]
  /\ logged \in [Writer -> LogAnswer]
  /\ alone \in [Writer -> BOOLEAN]
  /\ logRow \in Value \cup {NoLogRow}
  /\ toLog \in Value \cup {NoValue}

(* No lost update: what a request replaces is what it has reported as the  *)
(* old value and what its caller expected, in an order that is active.     *)
ReplacesWhatItReports ==
  [][\A r \in Writer, f \in Field :
       (writtenBy'[f] = r /\ (step[r] = "locked" /\ step'[r] # "locked")) =>
         /\ header[f] = seen[r][f]
         /\ update[r].old \in {NoValue, header[f]}
         /\ update[r].remark \in {NoValue, header["remark_5"]}
         /\ Active("purchase")]_<<rowVars, orderVars>>

(* A change that was answered stands, in header and details, until the ERP *)
(* or another request changes the same field: changes of creditor and of   *)
(* reference that meet do not undo each other.                             *)
AnsweredChangesStand ==
  \A r \in Writer : answer[r] = "updated" =>
    LET f == update[r].field
    IN  writtenBy[f] = r => header[f] = update[r].new /\ detail[f] = update[r].new

(* The log has the creditor that the reply says it has, as long as it is   *)
(* the order's; unless some other statement for the log was still under    *)
(* way when the change was committed, which may be executed later.         *)
LogFollowsOrder ==
  \A r \in Writer :
    (/\ logged[r] = "updated" /\ alone[r]
     /\ writtenBy["cust_code"] = r) => logRow = header["cust_code"]
=============================================================================
