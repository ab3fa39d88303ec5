------------------------------ MODULE ArReceipt ------------------------------
(***************************************************************************)
(* Receipts for sale invoices (internal/handlers/ar_receipt.go).           *)
(*                                                                         *)
(* A request names orders; the invoice of each is looked up, checked to    *)
(* have no receipt yet, and paid by a new receipt.  The transaction is     *)
(* READ COMMITTED and locks nothing: each statement reads what is          *)
(* committed when it starts, and what keeps two requests apart is the      *)
(* number of the receipt alone.  The number is the caller's, or the one    *)
(* after the last.  The ERP makes and cancels receipts itself, and         *)
(* invoices are cancelled meanwhile.                                       *)
(***************************************************************************)
EXTENDS Integers, FiniteSets

CONSTANTS
  Request,    \* HTTP requests; a retry is another one
  Order,      \* order numbers of the marketplace
  Invoice,    \* document numbers of sale invoices
  OrderOf,    \* doc_ref of each invoice; an order may have several
  Calls,      \* what clients ask for
  LastNumber, \* bound: receipts are numbered up to it
  NoNumber,   \* a call without a number
  NoInvoice,  \* a line that names no invoice, an order that has none yet
  NoOrder,    \* the ERP refers to invoices only
  Erp,        \* maker of the receipts that the ERP writes
  NoReceipt   \* a number nobody has used

Number == 1 .. LastNumber

(* lines: the orders, each with the invoice that its line names. *)
Call ==
  [number : Number \cup {NoNumber},
   lines : UNION {[S -> Invoice \cup {NoInvoice}] : S \in (SUBSET Order) \ {{}}}]

ASSUME OrdersAssumption == OrderOf \in [Invoice -> Order]
ASSUME CallsAssumption == Calls \subseteq Call /\ Calls # {}
ASSUME NumberAssumption == LastNumber \in Nat /\ NoNumber \notin Number
ASSUME NoneAssumption == /\ NoInvoice \notin Invoice
                         /\ NoOrder \notin Order
                         /\ Erp \notin Request

Line == [order : Order \cup {NoOrder}, invoice : Invoice]
Receipt == [by : Request \cup {Erp}, lines : SUBSET Line, open : BOOLEAN]

ASSUME ReceiptAssumption == NoReceipt \notin Receipt

Phase == {"idle", "numbering", "checking", "prepared", "numbered", "inserted",
          "done"}
Outcome == {"none", "created", "invoice_not_found", "already_received",
            "duplicate", "rejected", "failed"}

VARIABLES
  pc,       \* progress of each request
  call,     \* what it asks for
  number,   \* number of its receipt
  paid,     \* lines it has prepared
  outcome,  \* what it answered
  known,    \* numbers in use when it came (history)
  receipts, \* committed receipts: ap_ar_trans, its details, cb_trans
  active    \* invoices that are not cancelled

vars == <<pc, call, number, paid, outcome, known, receipts, active>>
requests == <<pc, call, number, paid, outcome, known>>

-----------------------------------------------------------------------------
Used == {n \in Number : receipts[n] # NoReceipt}
Open == {n \in Used : receipts[n].open}
OrdersOf(r) == DOMAIN call[r].lines

Init ==
  /\ pc = [r \in Request |-> "idle"]
  /\ call = [r \in Request |-> CHOOSE c \in Calls : TRUE]
  /\ number = [r \in Request |-> NoNumber]
  /\ paid = [r \in Request |-> {}]
  /\ outcome = [r \in Request |-> "none"]
  /\ known = [r \in Request |-> {}]
  /\ receipts = [n \in Number |-> NoReceipt]
  /\ active = Invoice

(* The handler returns; what was not committed is rolled back. *)
EndWith(r, answer) ==
  /\ pc' = [pc EXCEPT ![r] = "done"]
  /\ outcome' = [outcome EXCEPT ![r] = answer]
  /\ UNCHANGED <<call, number, paid, known>>

Proceed(r, phase) == pc' = [pc EXCEPT ![r] = phase]

(* Two requests to write one number: the second waits for the first. *)
NumberPending(r) ==
  \E q \in Request \ {r} : pc[q] = "inserted" /\ number[q] = number[r]

-----------------------------------------------------------------------------
Receive(r) ==
  /\ pc[r] = "idle"
  /\ \E c \in Calls :
       /\ call' = [call EXCEPT ![r] = c]
       /\ number' = [number EXCEPT ![r] = c.number]
       /\ Proceed(r, IF c.number = NoNumber THEN "numbering" ELSE "checking")
  /\ known' = [known EXCEPT ![r] = Used]
  /\ UNCHANGED <<paid, outcome, receipts, active>>

(* nextReceiptDocNo: one more than the last that is not cancelled. *)
IsNext(n) ==
  /\ n > 0
  /\ \A m \in Open : m < n
  /\ n = 1 \/ n - 1 \in Open

PickNumber(r) ==
  /\ pc[r] = "numbering"
  /\ \E n \in Number : IsNext(n) /\ number' = [number EXCEPT ![r] = n]
  /\ Proceed(r, "checking")
  /\ UNCHANGED <<call, paid, outcome, known, receipts, active>>

(* Mutant: lines are compared by order number only. *)
ReceivedByOrder(i) ==
  \E n \in Open : \E line \in receipts[n].lines : line.order = OrderOf[i]

(* The invoice, or another one of its order, is in a receipt. *)
Received(i) ==
  \E n \in Open : \E line \in receipts[n].lines :
    line.invoice = i \/ line.order = OrderOf[i]

(* The invoices of an order; the one that its line names if it has none.   *)
Found(r, o) ==
  LET own == {i \in active : OrderOf[i] = o}
  IN  IF own # {} THEN own ELSE active \cap {call[r].lines[o]}

(* loadReceiptInvoices, one statement, and the checks of each line. *)
Prepare(r) ==
  /\ pc[r] = "checking"
  /\ \E pick \in [OrdersOf(r) -> Invoice] :
       /\ \A o \in OrdersOf(r) : pick[o] \in Found(r, o) /\ ~Received(pick[o])
       /\ paid' = [paid EXCEPT ![r] =
            {[order |-> o, invoice |-> pick[o]] : o \in OrdersOf(r)}]
  /\ Proceed(r, "prepared")
  /\ UNCHANGED <<call, number, outcome, known, receipts, active>>

(* Mutant: the error code is in words. *)
InvoiceNotFoundInWords(r) ==
  /\ pc[r] = "checking"
  /\ \E o \in OrdersOf(r) : Found(r, o) = {}
  /\ EndWith(r, "not found")
  /\ UNCHANGED <<receipts, active>>

InvoiceNotFound(r) ==
  /\ pc[r] = "checking"
  /\ \E o \in OrdersOf(r) : Found(r, o) = {}
  /\ EndWith(r, "invoice_not_found")
  /\ UNCHANGED <<receipts, active>>

AlreadyReceived(r) ==
  /\ pc[r] = "checking"
  /\ \E o \in OrdersOf(r) : \E i \in Found(r, o) : Received(i)
  /\ EndWith(r, "already_received")
  /\ UNCHANGED <<receipts, active>>

(* Format, passbook, customer, payout or expense are not accepted. *)
Reject(r) ==
  /\ pc[r] = "checking"
  /\ EndWith(r, "rejected")
  /\ UNCHANGED <<receipts, active>>

(* The EXISTS of insertReceipt, over ap_ar_trans and cb_trans. *)
CheckNumber(r) ==
  /\ pc[r] = "prepared"
  /\ number[r] \notin Used
  /\ Proceed(r, "numbered")
  /\ UNCHANGED <<call, number, paid, outcome, known, receipts, active>>

(* Mutant: the header is an upsert. *)
Upsert(r) ==
  /\ pc[r] = "numbered"
  /\ ~NumberPending(r)
  /\ Proceed(r, "inserted")
  /\ UNCHANGED <<call, number, paid, outcome, known, receipts, active>>

(* INSERT of the header: the index on the number has the last word. *)
Insert(r) ==
  /\ pc[r] = "numbered"
  /\ ~NumberPending(r)
  /\ number[r] \notin Used
  /\ Proceed(r, "inserted")
  /\ UNCHANGED <<call, number, paid, outcome, known, receipts, active>>

Duplicate(r) ==
  /\ pc[r] \in {"prepared", "numbered"}
  /\ number[r] \in Used
  /\ EndWith(r, "duplicate")
  /\ UNCHANGED <<receipts, active>>

(* The details and cb_trans follow; the reply may be lost. *)
Commit(r) ==
  /\ pc[r] = "inserted"
  /\ receipts' = [receipts EXCEPT ![number[r]] =
       [by |-> r, lines |-> paid[r], open |-> TRUE]]
  /\ \E answer \in {"created", "failed"} : EndWith(r, answer)
  /\ UNCHANGED active

Fail(r) ==
  /\ pc[r] \notin {"idle", "done"}
  /\ EndWith(r, "failed")
  /\ UNCHANGED <<receipts, active>>

-----------------------------------------------------------------------------
ErpCreate ==
  \E n \in Number \ Used : \E i \in active :
    /\ \A q \in Request : ~(pc[q] = "inserted" /\ number[q] = n)
    /\ receipts' = [receipts EXCEPT ![n] =
         [by |-> Erp, lines |-> {[order |-> NoOrder, invoice |-> i]},
          open |-> TRUE]]
    /\ UNCHANGED <<requests, active>>

ErpCancel ==
  \E n \in Open :
    /\ receipts' = [receipts EXCEPT ![n].open = FALSE]
    /\ UNCHANGED <<requests, active>>

(* By the ERP or by the cancellation endpoint, which look at no receipt.   *)
CancelInvoice ==
  /\ \E i \in active : active' = active \ {i}
  /\ UNCHANGED <<requests, receipts>>

Next ==
  \/ \E r \in Request :
       \/ Receive(r)
       \/ PickNumber(r)
       \/ Prepare(r)
       \/ InvoiceNotFound(r)
       \/ AlreadyReceived(r)
       \/ Reject(r)
       \/ CheckNumber(r)
       \/ Insert(r)
       \/ Duplicate(r)
       \/ Commit(r)
       \/ Fail(r)
  \/ ErpCreate
  \/ ErpCancel
  \/ CancelInvoice

Spec == Init /\ [][Next]_vars

-----------------------------------------------------------------------------
TypeOK ==
  /\ pc \in [Request -> Phase]
  /\ call \in [Request -> Calls]
  /\ number \in [Request -> Number \cup {NoNumber}]
  /\ paid \in [Request -> SUBSET Line]
  /\ outcome \in [Request -> Outcome]
  /\ known \in [Request -> SUBSET Number]
  /\ receipts \in [Number -> Receipt \cup {NoReceipt}]
  /\ active \subseteq Invoice

InvoicesIn(n) == {line.invoice : line \in receipts[n].lines}

(* An invoice whose receipt was there when a request came is not paid by   *)
(* that request, unless the receipt was cancelled since: a client that     *)
(* sends a settlement again, with another number or none, does not pay     *)
(* twice, whoever made the first receipt and however it refers to the      *)
(* invoice.                                                                *)
NotPaidAgain ==
  \A m \in Used : receipts[m].by \in Request =>
    \A n \in known[receipts[m].by] :
      receipts[n].open => InvoicesIn(n) \cap InvoicesIn(m) = {}

(* "created" is true for good: the number has the receipt of this request, *)
(* with the lines it asked for, whatever other requests do with the same   *)
(* number at the same time or later.                                       *)
CreatedIsStored ==
  \A r \in Request : outcome[r] = "created" =>
    /\ number[r] \in Used
    /\ receipts[number[r]].by = r
    /\ receipts[number[r]].lines = paid[r]
    /\ {line.order : line \in paid[r]} = OrdersOf(r)

(* docs/openapi.json: "duplicate receipt or invoice already received" is   *)
(* the answer to a receipt for an invoice that has one; so no two receipts *)
(* made here pay one invoice.                                              *)
PaidOnce ==
  \A m, n \in Open :
    m # n /\ receipts[m].by \in Request /\ receipts[n].by \in Request
      => InvoicesIn(m) \cap InvoicesIn(n) = {}

(* Receipts stay what they were: of the invoices paid in them and of the   *)
(* requests that were told so (ar_receipt.go).                             *)
ReceiptsAreSound == NotPaidAgain /\ CreatedIsStored
=============================================================================
