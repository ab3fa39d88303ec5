------------------------------ MODULE OrderRow ------------------------------
(***************************************************************************)
(* What the ERP keeps under one document number: a purchase order, another *)
(* document of ic_trans, or a bill of ap_ar_trans; a number is used once   *)
(* (internal/handlers/lock.go relies on it).  The purchase order has a     *)
(* header and detail rows, which repeat its creditor and its reference.    *)
(***************************************************************************)
EXTENDS Naturals

CONSTANTS
  Writer,  \* requests that change the purchase order
  Value,   \* codes of creditors, references, remarks
  Headers, \* what the order may say at first
  Unlocked, \* nobody has the row lock of the purchase order
  Desktop, \* who wrote a value last, if no request did
  NoValue  \* the empty string

ASSUME RowAssumption ==
  Unlocked \notin Writer /\ Desktop \notin Writer /\ NoValue \notin Value

Field == {"cust_code", "doc_ref"}
Header == [Field \cup {"remark_5"} -> Value]

ASSUME HeadersAssumption == Headers \subseteq Header

InTrans == {"purchase", "sale"}  \* rows of ic_trans
Row == InTrans \cup {"bill"}

VARIABLES
  status,  \* of each row
  frozen,  \* rows with is_lock_record = 1
  header,  \* what the header says, remark_5 included
  detail,  \* what all detail rows say
  writtenBy, \* who wrote a field last (history)
  rowLock  \* the request with the row lock of the purchase order

rowVars == <<status, frozen, header, detail, writtenBy, rowLock>>

Active(x) == status[x] = "active"

RowInit ==
  /\ status = [x \in Row |-> "absent"]
  /\ frozen = {}
  /\ header \in Headers
  /\ detail = [f \in Field |-> header[f]]
  /\ writtenBy = [f \in Field |-> Desktop]
  /\ rowLock = Unlocked

(* The ERP changes the order, header and details in one transaction. *)
ErpEdit(f, v) ==
  /\ Active("purchase") /\ rowLock = Unlocked
  /\ header' = [header EXCEPT ![f] = v]
  /\ detail' = [detail EXCEPT ![f] = v]
  /\ writtenBy' = [writtenBy EXCEPT ![f] = Desktop]
  /\ UNCHANGED <<status, frozen, rowLock>>

DesktopCancel(x) ==
  /\ Active(x) /\ (x = "purchase" => rowLock = Unlocked)
  /\ status' = [status EXCEPT ![x] = "cancelled"]
  /\ UNCHANGED <<frozen, header, detail, writtenBy, rowLock>>

(* A document gets the number; the order may be one of this service's.     *)
DesktopCreate(x) ==
  /\ \A y \in Row : status[y] = "absent"
  /\ status' = [status EXCEPT ![x] = "active"]
  /\ UNCHANGED <<frozen, header, detail, writtenBy, rowLock>>

ErpStep ==
  \/ \E f \in Field, v \in Value : ErpEdit(f, v)
  \/ \E x \in Row : DesktopCancel(x) \/ DesktopCreate(x)
=============================================================================
