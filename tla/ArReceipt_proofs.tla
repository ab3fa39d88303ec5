-------------------------- MODULE ArReceipt_proofs --------------------------
(***************************************************************************)
(* Proofs about ArReceipt, for any sets of requests, orders, invoices,     *)
(* numbers and calls.                                                      *)
(*                                                                         *)
(* The argument: a receipt that was there when a request came can only be  *)
(* cancelled, so the check, although it is made once and holds nothing,    *)
(* stays true of those receipts (PaidInv).  A number that a request has    *)
(* inserted is nobody else's until the request ends (InsertedInv).         *)
(***************************************************************************)
EXTENDS ArReceipt, TLAPS

HasNumber == {"checking", "prepared", "numbered", "inserted"}
HasLines == {"prepared", "numbered", "inserted"}

NumberInv == \A r \in Request : pc[r] \in HasNumber => number[r] \in Number

InsertedInv ==
  \A r \in Request : pc[r] = "inserted" =>
    /\ number[r] \notin Used
    /\ \A q \in Request : q # r /\ pc[q] = "inserted" => number[q] # number[r]

KnownInv == \A r \in Request : known[r] \subseteq Used

(* The lines of r pay nothing that a receipt which r could know still pays. *)
NewTo(r, n) ==
  receipts[n].open => \A line \in paid[r] : line.invoice \notin InvoicesIn(n)

PaidInv ==
  \A r \in Request : pc[r] \in HasLines =>
    /\ \A n \in known[r] : NewTo(r, n)
    /\ {line.order : line \in paid[r]} = OrdersOf(r)

(* A receipt made here is that of a request which is done with it. *)
MakerInv ==
  \A m \in Used : receipts[m].by \in Request =>
    /\ pc[receipts[m].by] = "done"
    /\ receipts[m].lines = paid[receipts[m].by]
    /\ \A n \in known[receipts[m].by] : NewTo(receipts[m].by, n)

CreatedInv ==
  /\ \A r \in Request : outcome[r] = "created" => pc[r] = "done"
  /\ CreatedIsStored

IInv == TypeOK /\ NumberInv /\ InsertedInv /\ KnownInv /\ PaidInv /\ MakerInv /\ CreatedInv

-----------------------------------------------------------------------------
LEMMA Typed ==
  ASSUME TypeOK, NEW r \in Request
  PROVE  /\ call[r] \in Calls /\ OrdersOf(r) \subseteq Order
         /\ \A c \in Calls : c.number \in Number \cup {NoNumber}
<1>1. call[r] \in Calls /\ call[r] \in Call
  BY CallsAssumption DEF TypeOK
<1>2. PICK S \in (SUBSET Order) \ {{}} : call[r].lines \in [S -> Invoice \cup {NoInvoice}]
  BY <1>1 DEF Call
<1>3. \A c \in Calls : c.number \in Number \cup {NoNumber}
  BY CallsAssumption DEF Call
<1> QED
  BY <1>1, <1>2, <1>3 DEF OrdersOf

LEMMA InitInv == Init => IInv
<1> SUFFICES ASSUME Init PROVE IInv
  OBVIOUS
<1>1. (CHOOSE c \in Calls : TRUE) \in Calls
  BY CallsAssumption
<1>2. TypeOK
  BY <1>1 DEF Init, TypeOK, Phase, Outcome
<1>3. Used = {}
  BY DEF Init, Used
<1> QED
  BY <1>2, <1>3 DEF Init, IInv, NumberInv, InsertedInv, KnownInv, PaidInv, MakerInv,
     CreatedInv, CreatedIsStored, HasNumber, HasLines

(* While the receipts stay, so does all that is said of them. *)
LEMMA ReceiptsKept ==
  ASSUME UNCHANGED receipts
  PROVE  /\ Used' = Used /\ Open' = Open
         /\ \A n : InvoicesIn(n)' = InvoicesIn(n)
BY DEF Used, Open, InvoicesIn

LEMMA ReceiveInv ==
  ASSUME IInv, NEW r \in Request, Receive(r)
  PROVE  IInv'
<1>a. TypeOK /\ NumberInv /\ InsertedInv /\ KnownInv /\ PaidInv /\ MakerInv /\ CreatedInv
  BY DEF IInv
<1>1. PICK c \in Calls :
        /\ call' = [call EXCEPT ![r] = c]
        /\ number' = [number EXCEPT ![r] = c.number]
        /\ pc' = [pc EXCEPT ![r] = IF c.number = NoNumber THEN "numbering" ELSE "checking"]
  BY DEF Receive, Proceed
<1>2. /\ UNCHANGED <<paid, outcome, receipts, active>>
      /\ known' = [known EXCEPT ![r] = Used] /\ pc[r] = "idle"
  BY DEF Receive
<1>3. Used \subseteq Number /\ c.number \in Number \cup {NoNumber}
  BY <1>a, Typed DEF Used
<1>4. TypeOK'
  BY <1>a, <1>1, <1>2, <1>3 DEF TypeOK, Phase
<1>5. /\ pc'[r] \in {"numbering", "checking"} /\ known'[r] = Used
      /\ pc'[r] = "checking" => number'[r] \in Number
      /\ \A q \in Request : q # r => /\ pc'[q] = pc[q] /\ call'[q] = call[q]
                                     /\ number'[q] = number[q] /\ known'[q] = known[q]
  BY <1>a, <1>1, <1>2, <1>3 DEF TypeOK
<1>6. Used' = Used /\ \A n : InvoicesIn(n)' = InvoicesIn(n)
  BY <1>2, ReceiptsKept
<1>7. NumberInv'
  BY <1>a, <1>5 DEF NumberInv, HasNumber
<1>8. InsertedInv'
  BY <1>a, <1>5, <1>6 DEF InsertedInv
<1>9. KnownInv'
  BY <1>a, <1>5, <1>6 DEF KnownInv
<1>10. \A q \in Request : OrdersOf(q)' = DOMAIN call'[q].lines
  BY DEF OrdersOf
<1>11. PaidInv'
  BY <1>a, <1>2, <1>5, <1>6, <1>10 DEF PaidInv, NewTo, OrdersOf, HasLines
<1>12. MakerInv'
  BY <1>a, <1>2, <1>5, <1>6 DEF MakerInv, NewTo
<1>13. CreatedInv'
  BY <1>a, <1>2, <1>5, <1>6, <1>10 DEF CreatedInv, CreatedIsStored, OrdersOf
<1> QED
  BY <1>4, <1>7, <1>8, <1>9, <1>11, <1>12, <1>13 DEF IInv

(* Steps of r that write only its phase, and its number or its lines.      *)
LEMMA ProgressInv ==
  ASSUME IInv, NEW r \in Request,
         PickNumber(r) \/ Prepare(r) \/ CheckNumber(r) \/ Insert(r)
  PROVE  IInv'
<1>a. TypeOK /\ NumberInv /\ InsertedInv /\ KnownInv /\ PaidInv /\ MakerInv /\ CreatedInv
  BY DEF IInv
<1>1. UNCHANGED <<call, outcome, known, receipts, active>>
  BY DEF PickNumber, Prepare, CheckNumber, Insert
<1>2. Used' = Used /\ \A n : InvoicesIn(n)' = InvoicesIn(n)
  BY <1>1, ReceiptsKept
<1>3. \A q \in Request : OrdersOf(q)' = OrdersOf(q)
  BY <1>1 DEF OrdersOf
<1>4. pc[r] \notin {"idle", "done", "inserted"} /\ pc'[r] \notin {"idle", "done"}
  BY <1>a DEF PickNumber, Prepare, CheckNumber, Insert, Proceed, TypeOK
<1>5. \A q \in Request : q # r => /\ pc'[q] = pc[q] /\ number'[q] = number[q]
                                   /\ paid'[q] = paid[q]
  BY <1>a DEF PickNumber, Prepare, CheckNumber, Insert, Proceed, TypeOK
<1>6. TypeOK'
  <2>1. CASE PickNumber(r)
    BY <2>1, <1>a DEF PickNumber, Proceed, TypeOK, Phase
  <2>2. CASE Prepare(r)
    <3>1. PICK pick \in [OrdersOf(r) -> Invoice] :
            paid' = [paid EXCEPT ![r] = {[order |-> o, invoice |-> pick[o]] : o \in OrdersOf(r)}]
      BY <2>2 DEF Prepare
    <3>2. {[order |-> o, invoice |-> pick[o]] : o \in OrdersOf(r)} \in SUBSET Line
      BY <1>a, Typed DEF Line
    <3> QED
      BY <2>2, <3>1, <3>2, <1>a DEF Prepare, Proceed, TypeOK, Phase
  <2>3. CASE CheckNumber(r) \/ Insert(r)
    BY <2>3, <1>a DEF CheckNumber, Insert, Proceed, TypeOK, Phase
  <2> QED
    BY <2>1, <2>2, <2>3
<1>7. pc'[r] \in HasNumber => number'[r] \in Number
  BY <1>a DEF PickNumber, Prepare, CheckNumber, Insert, Proceed, TypeOK, NumberInv, HasNumber
<1>8. NumberInv'
  BY <1>a, <1>5, <1>7 DEF NumberInv
<1>9. pc'[r] = "inserted" => /\ number'[r] \notin Used
                            /\ \A q \in Request : q # r /\ pc[q] = "inserted" => number[q] # number'[r]
  BY <1>a DEF PickNumber, Prepare, CheckNumber, Insert, Proceed, TypeOK, NumberPending
<1>10. InsertedInv'
  BY <1>a, <1>2, <1>5, <1>9 DEF InsertedInv
<1>11. KnownInv'
  BY <1>a, <1>1, <1>2 DEF KnownInv
<1>12. pc'[r] \in HasLines =>
         /\ \A n \in known[r] : receipts[n].open =>
              \A line \in paid'[r] : line.invoice \notin InvoicesIn(n)
         /\ {line.order : line \in paid'[r]} = OrdersOf(r)
  <2>1. CASE PickNumber(r)
    BY <2>1, <1>a DEF PickNumber, Proceed, TypeOK, HasLines
  <2>2. CASE Prepare(r)
    <3>1. PICK pick \in [OrdersOf(r) -> Invoice] :
            /\ \A o \in OrdersOf(r) : ~Received(pick[o])
            /\ paid' = [paid EXCEPT ![r] = {[order |-> o, invoice |-> pick[o]] : o \in OrdersOf(r)}]
      BY <2>2 DEF Prepare
    <3>2. paid'[r] = {[order |-> o, invoice |-> pick[o]] : o \in OrdersOf(r)}
      BY <3>1, <1>a DEF TypeOK
    <3>3. {line.order : line \in paid'[r]} = OrdersOf(r)
      <4>1. \A line \in paid'[r] : line.order \in OrdersOf(r)
        BY <3>2
      <4>2. ASSUME NEW o \in OrdersOf(r) PROVE \E line \in paid'[r] : line.order = o
        <5>1. [order |-> o, invoice |-> pick[o]] \in paid'[r]
          BY <3>2
        <5> QED
          BY <5>1
      <4> QED
        BY <4>1, <4>2
    <3>4. ASSUME NEW n \in known[r], receipts[n].open, NEW line \in paid'[r]
          PROVE  line.invoice \notin InvoicesIn(n)
      <4>1. n \in Open
        BY <3>4, <1>a DEF KnownInv, Open
      <4>2. ~Received(line.invoice)
        BY <3>1, <3>2, <3>4
      <4> QED
        BY <4>1, <4>2 DEF Received, InvoicesIn
    <3> QED
      BY <3>3, <3>4
  <2>3. CASE CheckNumber(r) \/ Insert(r)
    BY <2>3, <1>a DEF CheckNumber, Insert, Proceed, TypeOK, HasLines, PaidInv, NewTo
  <2> QED
    BY <2>1, <2>2, <2>3
<1>13. PaidInv'
  BY <1>a, <1>1, <1>2, <1>3, <1>5, <1>12 DEF PaidInv, NewTo
<1>14. MakerInv'
  BY <1>a, <1>1, <1>2, <1>4, <1>5 DEF MakerInv, NewTo
<1>15. CreatedInv'
  BY <1>a, <1>1, <1>2, <1>3, <1>4, <1>5 DEF CreatedInv, CreatedIsStored
<1> QED
  BY <1>6, <1>8, <1>10, <1>11, <1>13, <1>14, <1>15 DEF IInv

(* The handler returns without a commit, or something else happens to the  *)
(* invoices.                                                               *)
LEMMA NoReceiptInv ==
  ASSUME IInv, UNCHANGED <<call, number, paid, known, receipts>>, active' \subseteq Invoice,
         \/ UNCHANGED <<pc, outcome>>
         \/ \E r \in Request : \E a \in Outcome \ {"created"} :
              pc[r] # "done" /\ EndWith(r, a)
  PROVE  IInv'
<1>a. TypeOK /\ NumberInv /\ InsertedInv /\ KnownInv /\ PaidInv /\ MakerInv /\ CreatedInv
  BY DEF IInv
<1>1. Used' = Used /\ \A n : InvoicesIn(n)' = InvoicesIn(n)
  BY ReceiptsKept
<1>2. \A q \in Request : OrdersOf(q)' = OrdersOf(q)
  BY DEF OrdersOf
<1>3. TypeOK'
  BY <1>a DEF EndWith, TypeOK, Phase
<1>4. \A q \in Request : /\ pc'[q] = pc[q] \/ pc'[q] = "done"
                         /\ pc[q] = "done" => pc'[q] = "done"
                         /\ outcome'[q] = "created" => outcome[q] = "created"
  BY <1>a DEF EndWith, TypeOK
<1>5. NumberInv' /\ InsertedInv' /\ KnownInv'
  BY <1>a, <1>1, <1>4 DEF NumberInv, InsertedInv, KnownInv, HasNumber
<1>6. PaidInv' /\ MakerInv'
  BY <1>a, <1>1, <1>2, <1>4 DEF PaidInv, MakerInv, NewTo, HasLines
<1>7. CreatedInv'
  BY <1>a, <1>1, <1>2, <1>4 DEF CreatedInv, CreatedIsStored
<1> QED
  BY <1>3, <1>5, <1>6, <1>7 DEF IInv

-----------------------------------------------------------------------------
(* A new receipt has a number that was free, so no request knew it.        *)
LEMMA CommitReceiptInv ==
  ASSUME IInv, NEW r \in Request, Commit(r)
  PROVE  IInv'
<1>a. TypeOK /\ NumberInv /\ InsertedInv /\ KnownInv /\ PaidInv /\ MakerInv /\ CreatedInv
  BY DEF IInv
<1>0. PICK m \in Number : m = number[r]
  BY <1>a DEF Commit, NumberInv, HasNumber
<1>1. PICK a \in {"created", "failed"} : EndWith(r, a)
  BY DEF Commit
<1>2. /\ UNCHANGED <<call, number, paid, known, active>>
      /\ receipts' = [receipts EXCEPT ![m] = [by |-> r, lines |-> paid[r], open |-> TRUE]]
      /\ pc[r] = "inserted" /\ m \notin Used
  BY <1>0, <1>1, <1>a DEF Commit, EndWith, InsertedInv
<1>3. [by |-> r, lines |-> paid[r], open |-> TRUE] \in Receipt
  BY <1>a DEF TypeOK, Receipt
<1>4. TypeOK'
  BY <1>a, <1>1, <1>2, <1>3 DEF EndWith, TypeOK, Phase, Outcome
<1>5. /\ receipts'[m] = [by |-> r, lines |-> paid[r], open |-> TRUE]
      /\ \A n \in Number : n # m => receipts'[n] = receipts[n]
  BY <1>a, <1>2 DEF TypeOK
<1>6. Used' = Used \cup {m}
  BY <1>3, <1>5, ReceiptAssumption DEF Used
<1>7. \A n \in Used : n # m /\ n \in Number /\ receipts'[n] = receipts[n]
                      /\ InvoicesIn(n)' = InvoicesIn(n)
  BY <1>2, <1>5 DEF Used, InvoicesIn
<1>8. /\ pc'[r] = "done" /\ outcome'[r] = a
      /\ \A q \in Request : q # r => pc'[q] = pc[q] /\ outcome'[q] = outcome[q]
  BY <1>a, <1>1 DEF EndWith, TypeOK
<1>9. NumberInv' /\ KnownInv'
  BY <1>a, <1>2, <1>6, <1>8 DEF NumberInv, KnownInv, HasNumber
<1>10. InsertedInv'
  BY <1>a, <1>0, <1>2, <1>6, <1>8 DEF InsertedInv
<1>11. \A q \in Request : OrdersOf(q)' = OrdersOf(q)
  BY <1>2 DEF OrdersOf
<1>12. \A q \in Request : \A n \in known[q] : NewTo(q, n) => NewTo(q, n)'
  BY <1>a, <1>2, <1>7 DEF KnownInv, NewTo
<1>13. PaidInv'
  BY <1>a, <1>2, <1>8, <1>11, <1>12 DEF PaidInv, HasLines
<1>14. \A n \in known[r] : NewTo(r, n)
  BY <1>a, <1>2 DEF PaidInv, HasLines
<1>15. MakerInv'
  BY <1>a, <1>2, <1>5, <1>6, <1>7, <1>8, <1>12, <1>14 DEF MakerInv
<1>16. {line.order : line \in paid[r]} = OrdersOf(r)
  BY <1>a, <1>2 DEF PaidInv, HasLines
<1>17. CreatedInv'
  BY <1>a, <1>0, <1>2, <1>5, <1>6, <1>7, <1>8, <1>11, <1>16 DEF CreatedInv, CreatedIsStored
<1> QED
  BY <1>4, <1>9, <1>10, <1>13, <1>15, <1>17 DEF IInv

LEMMA ErpCreateInv ==
  ASSUME IInv, ErpCreate
  PROVE  IInv'
<1>a. TypeOK /\ NumberInv /\ InsertedInv /\ KnownInv /\ PaidInv /\ MakerInv /\ CreatedInv
  BY DEF IInv
<1>1. PICK m \in Number \ Used, i \in active :
        /\ \A q \in Request : ~(pc[q] = "inserted" /\ number[q] = m)
        /\ receipts' = [receipts EXCEPT ![m] =
             [by |-> Erp, lines |-> {[order |-> NoOrder, invoice |-> i]}, open |-> TRUE]]
        /\ UNCHANGED <<requests, active>>
  BY DEF ErpCreate
<1>2. UNCHANGED <<pc, call, number, paid, outcome, known, active>>
  BY <1>1 DEF requests
<1>3. [by |-> Erp, lines |-> {[order |-> NoOrder, invoice |-> i]}, open |-> TRUE] \in Receipt
  BY <1>a, <1>1 DEF TypeOK, Receipt, Line
<1>4. TypeOK'
  BY <1>a, <1>1, <1>2, <1>3 DEF TypeOK
<1>5. /\ receipts'[m].by = Erp /\ receipts'[m] \in Receipt
      /\ \A n \in Number : n # m => receipts'[n] = receipts[n]
  BY <1>a, <1>1, <1>3 DEF TypeOK
<1>6. Used' = Used \cup {m}
  BY <1>5, ReceiptAssumption DEF Used
<1>7. \A n \in Used : n # m /\ n \in Number /\ receipts'[n] = receipts[n]
                      /\ InvoicesIn(n)' = InvoicesIn(n)
  BY <1>1, <1>5 DEF Used, InvoicesIn
<1>8. NumberInv' /\ KnownInv' /\ InsertedInv'
  BY <1>a, <1>1, <1>2, <1>6 DEF NumberInv, KnownInv, InsertedInv
<1>9. \A q \in Request : OrdersOf(q)' = OrdersOf(q)
  BY <1>2 DEF OrdersOf
<1>10. \A q \in Request : \A n \in known[q] : NewTo(q, n) => NewTo(q, n)'
  BY <1>a, <1>2, <1>7 DEF KnownInv, NewTo
<1>11. PaidInv'
  BY <1>a, <1>2, <1>9, <1>10 DEF PaidInv
<1>12. MakerInv'
  BY <1>a, <1>2, <1>5, <1>6, <1>7, <1>10, NoneAssumption DEF MakerInv
<1>13. CreatedInv'
  BY <1>a, <1>2, <1>6, <1>7, <1>9 DEF CreatedInv, CreatedIsStored
<1> QED
  BY <1>4, <1>8, <1>11, <1>12, <1>13 DEF IInv

(* A cancelled receipt keeps its number, its maker and its lines. *)
LEMMA ErpCancelInv ==
  ASSUME IInv, ErpCancel
  PROVE  IInv'
<1>a. TypeOK /\ NumberInv /\ InsertedInv /\ KnownInv /\ PaidInv /\ MakerInv /\ CreatedInv
  BY DEF IInv
<1>1. PICK m \in Open : receipts' = [receipts EXCEPT ![m].open = FALSE]
                        /\ UNCHANGED <<requests, active>>
  BY DEF ErpCancel
<1>2. UNCHANGED <<pc, call, number, paid, outcome, known, active>>
  BY <1>1 DEF requests
<1>3. m \in Number /\ m \in Used /\ receipts[m] \in Receipt
  BY <1>a DEF Open, Used, TypeOK
<1>4. /\ receipts'[m] \in Receipt /\ ~receipts'[m].open
      /\ receipts'[m].by = receipts[m].by /\ receipts'[m].lines = receipts[m].lines
      /\ \A n \in Number : n # m => receipts'[n] = receipts[n]
  BY <1>a, <1>1, <1>3 DEF TypeOK, Receipt
<1>5. TypeOK'
  <2>1. receipts' \in [Number -> Receipt \cup {NoReceipt}]
    BY <1>a, <1>1, <1>3, <1>4 DEF TypeOK
  <2> QED
    BY <1>a, <1>2, <2>1 DEF TypeOK
<1>6. Used' = Used
  BY <1>3, <1>4, ReceiptAssumption DEF Used
<1>7. \A n \in Used : /\ n \in Number /\ receipts'[n].by = receipts[n].by
                      /\ receipts'[n].lines = receipts[n].lines
                      /\ receipts'[n].open => receipts[n].open
                      /\ InvoicesIn(n)' = InvoicesIn(n)
  BY <1>4 DEF Used, InvoicesIn
<1>8. NumberInv' /\ KnownInv' /\ InsertedInv'
  BY <1>a, <1>2, <1>6 DEF NumberInv, KnownInv, InsertedInv
<1>9. \A q \in Request : OrdersOf(q)' = OrdersOf(q)
  BY <1>2 DEF OrdersOf
<1>10. \A q \in Request : \A n \in known[q] : NewTo(q, n) => NewTo(q, n)'
  BY <1>a, <1>2, <1>7 DEF KnownInv, NewTo
<1>11. PaidInv'
  BY <1>a, <1>2, <1>9, <1>10 DEF PaidInv
<1>12. MakerInv'
  BY <1>a, <1>2, <1>6, <1>7, <1>10 DEF MakerInv
<1>13. CreatedInv'
  BY <1>a, <1>2, <1>6, <1>7, <1>9 DEF CreatedInv, CreatedIsStored
<1> QED
  BY <1>5, <1>8, <1>11, <1>12, <1>13 DEF IInv

-----------------------------------------------------------------------------
LEMMA NextInv == IInv /\ [Next]_vars => IInv'
<1> SUFFICES ASSUME IInv, [Next]_vars PROVE IInv'
  OBVIOUS
<1>1. ASSUME NEW r \in Request, Receive(r) PROVE IInv'
  BY <1>1, ReceiveInv
<1>2. ASSUME NEW r \in Request, PickNumber(r) \/ Prepare(r) \/ CheckNumber(r) \/ Insert(r)
      PROVE  IInv'
  BY <1>2, ProgressInv
<1>3. ASSUME NEW r \in Request,
             InvoiceNotFound(r) \/ AlreadyReceived(r) \/ Reject(r) \/ Duplicate(r) \/ Fail(r)
      PROVE  IInv'
  <2>1. \E a \in Outcome \ {"created"} : pc[r] # "done" /\ EndWith(r, a)
    BY <1>3 DEF InvoiceNotFound, AlreadyReceived, Reject, Duplicate, Fail, Outcome
  <2>2. UNCHANGED <<call, number, paid, known, receipts, active>>
    BY <1>3 DEF InvoiceNotFound, AlreadyReceived, Reject, Duplicate, Fail, EndWith
  <2>3. active' \subseteq Invoice
    BY <2>2 DEF IInv, TypeOK
  <2> QED
    BY <2>1, <2>2, <2>3, NoReceiptInv
<1>4. ASSUME NEW r \in Request, Commit(r) PROVE IInv'
  BY <1>4, CommitReceiptInv
<1>5. CASE ErpCreate
  BY <1>5, ErpCreateInv
<1>6. CASE ErpCancel
  BY <1>6, ErpCancelInv
<1>7. CASE CancelInvoice \/ UNCHANGED vars
  <2>1. UNCHANGED <<pc, outcome, call, number, paid, known, receipts>>
    BY <1>7 DEF CancelInvoice, requests, vars
  <2>2. active' \subseteq Invoice
    BY <1>7 DEF CancelInvoice, vars, IInv, TypeOK
  <2> QED
    BY <2>1, <2>2, NoReceiptInv
<1> QED
  BY <1>1, <1>2, <1>3, <1>4, <1>5, <1>6, <1>7 DEF Next

LEMMA Invariance == Spec => []IInv
<1>1. IInv /\ [Next]_vars => IInv'
  BY NextInv
<1> QED
  BY <1>1, InitInv, PTL DEF Spec

-----------------------------------------------------------------------------
(* The variables keep their types through every interleaving of receipts,  *)
(* of the ERP's and of cancelled invoices.                                 *)
THEOREM ReceiptTypes == Spec => []TypeOK
<1>1. IInv => TypeOK
  BY DEF IInv
<1> QED
  BY <1>1, Invariance, PTL

(* Sending a settlement again after its receipt was committed never pays   *)
(* an invoice twice, whatever number it comes with: Create checks every    *)
(* line against all receipts that are there when it comes.                 *)
THEOREM RetriesPayNothing == Spec => []NotPaidAgain
<1>1. IInv => NotPaidAgain
  <2> SUFFICES ASSUME IInv, NEW m \in Used, receipts[m].by \in Request,
                      NEW n \in known[receipts[m].by], receipts[n].open
               PROVE  InvoicesIn(n) \cap InvoicesIn(m) = {}
    BY DEF NotPaidAgain
  <2>1. NewTo(receipts[m].by, n) /\ receipts[m].lines = paid[receipts[m].by]
    BY DEF IInv, MakerInv
  <2> QED
    BY <2>1 DEF NewTo, InvoicesIn
<1> QED
  BY <1>1, Invariance, PTL

(* A number that was answered "created" has the receipt of that request:   *)
(* requests and the ERP never take a number from one another.              *)
THEOREM CreatedStaysStored == Spec => []CreatedIsStored
<1>1. IInv => CreatedIsStored
  BY DEF IInv, CreatedInv
<1> QED
  BY <1>1, Invariance, PTL

(* Receipts stay what they were, for those who were told of them and for   *)
(* the invoices in them (ar_receipt.go).                                   *)
THEOREM ReceiptsStaySound == Spec => []ReceiptsAreSound
BY RetriesPayNothing, CreatedStaysStored, PTL DEF ReceiptsAreSound
=============================================================================
