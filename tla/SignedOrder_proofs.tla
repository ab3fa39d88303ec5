--------------------------- MODULE SignedOrder_proofs ---------------------------
(***************************************************************************)
(* Proofs about SignedOrder, for any sets of requests, values and updates. *)
(*                                                                         *)
(* The argument: the row lock makes what a request has read true until it  *)
(* writes (SeenInv), so a request replaces what it reports; a request      *)
(* writes once, so what it wrote stands until somebody else writes that    *)
(* field (DoneInv, AnsweredChangesStand); and a request that was the only  *)
(* one with something for the log at its commit stays so while the order   *)
(* has its creditor, because whoever comes later must change it first      *)
(* (LogInv).                                                               *)
(***************************************************************************)
EXTENDS SignedOrder, TLAPS

HeldInv == \A r \in Writer : rowLock = r <=> step[r] = "locked"

SeenInv == \A r \in Writer : step[r] = "locked" => seen[r] = header /\ Active("purchase")

Wrote(r) == answer[r] = "updated" \/ \E f \in Field : writtenBy[f] = r

DoneInv ==
  \A r \in Writer :
    /\ Wrote(r) => step[r] \in {"logging", "adrift", "over"}
    /\ step[r] \in {"logging", "adrift"} \/ logged[r] # "none" =>
         answer[r] = "updated" /\ update[r].field = "cust_code"
    /\ logged[r] = "updated" => step[r] = "over"

(* The log is left to r, or has been told. *)
LogIsMine(r) ==
  /\ \A q \in Writer : q # r => step[q] \notin {"logging", "adrift"}
  /\ toLog \in {NoValue, header["cust_code"]}
  /\ logged[r] = "updated" => logRow = header["cust_code"]

LogInv ==
  \A r \in Writer :
    (/\ answer[r] = "updated" /\ update[r].field = "cust_code"
     /\ alone[r] /\ writtenBy["cust_code"] = r) => LogIsMine(r)

OrderInv ==
  OrderTypeOK /\ HeldInv /\ SeenInv /\ DoneInv /\ AnsweredChangesStand /\ LogInv

SignInv ==
  /\ SignTypeOK /\ LockAnswersAreTrue
  /\ \A q \in Signer : /\ signed[q] # "none" => signStage[q] = "answered"
                       /\ signStage[q] = "found" => at[q] \in Row

orderOnly == <<status, header, detail, writtenBy, rowLock, orderVars>>

-----------------------------------------------------------------------------
LEMMA UpdateIsTyped ==
  ASSUME OrderTypeOK, NEW r \in Writer
  PROVE  /\ update[r].field \in Field /\ update[r].new \in Value
         /\ update[r].field \in {"cust_code", "doc_ref"}
<1>1. update[r] \in Update
  BY UpdatesAssumption DEF OrderTypeOK
<1> QED
  BY <1>1 DEF Update, Field

LEMMA SignedInitInv == SignedInit => OrderInv /\ SignInv
<1> SUFFICES ASSUME SignedInit PROVE OrderInv /\ SignInv
  OBVIOUS
<1>1. (CHOOSE u \in Updates : TRUE) \in Updates
  BY UpdatesAssumption
<1>2. header \in Header
  BY HeadersAssumption DEF SignedInit, RowInit
<1>3. detail \in [Field -> Value]
  BY <1>2 DEF SignedInit, RowInit, Header
<1>4. OrderTypeOK
  BY <1>1, <1>2, <1>3 DEF SignedInit, RowInit, OrderInit, OrderTypeOK, Step, OrderAnswer, LogAnswer
<1>5. \A r \in Writer : step[r] = "idle" /\ answer[r] = "none" /\ logged[r] = "none"
  BY DEF SignedInit, OrderInit
<1>6. \A r \in Writer : rowLock # r /\ \A f \in Field : writtenBy[f] # r
  BY RowAssumption DEF SignedInit, RowInit
<1>7. OrderInv
  BY <1>4, <1>5, <1>6 DEF OrderInv, HeldInv, SeenInv, DoneInv, AnsweredChangesStand, LogInv, Wrote
<1>8. SignInv
  BY DEF SignedInit, SignInit, SignInv, SignTypeOK, LockAnswersAreTrue, SignStage, SignAnswer
<1> QED
  BY <1>7, <1>8

(* The order and its log stay as they are, whatever is frozen. *)
LEMMA OrderKept ==
  ASSUME OrderInv, frozen' \subseteq Row, UNCHANGED orderOnly
  PROVE  OrderInv'
BY DEF OrderInv, orderOnly, orderVars, OrderTypeOK, HeldInv, SeenInv, DoneInv,
       AnsweredChangesStand, LogInv, LogIsMine, Wrote, Active

(* A step of r that writes no row and says nothing of the log: it goes on, *)
(* or ends.                                                                *)
LEMMA QuietInv ==
  ASSUME OrderInv, NEW r \in Writer,
         UNCHANGED <<header, detail, status, writtenBy, logged, alone, logRow, toLog>>,
         OrderTypeOK',
         \A q \in Writer : q # r => /\ step'[q] = step[q] /\ seen'[q] = seen[q]
                                    /\ update'[q] = update[q] /\ answer'[q] = answer[q],
         step[r] \in {"idle", "begun", "missing", "locked"},
         step'[r] \in {"begun", "missing", "locked", "over"},
         answer'[r] # "updated",
         step'[r] = "locked" => rowLock' = r /\ seen'[r] = header /\ Active("purchase"),
         step'[r] # "locked" => rowLock' # r,
         rowLock' = rowLock \/ (rowLock' = r /\ rowLock = Unlocked)
                            \/ (rowLock = r /\ rowLock' = Unlocked)
  PROVE  OrderInv'
<1>1. OrderTypeOK /\ HeldInv /\ SeenInv /\ DoneInv /\ AnsweredChangesStand /\ LogInv
  BY DEF OrderInv
<1>2. \A q \in Writer : q # r => (rowLock' = q <=> rowLock = q)
  BY RowAssumption
<1>3. HeldInv'
  BY <1>1, <1>2 DEF HeldInv
<1>4. SeenInv'
  BY <1>1 DEF SeenInv, Active
<1>5. logged[r] = "none" /\ \A f \in Field : writtenBy[f] # r
  BY <1>1 DEF DoneInv, Wrote
<1>6. DoneInv'
  BY <1>1, <1>5 DEF DoneInv, Wrote
<1>7. AnsweredChangesStand'
  BY <1>1 DEF AnsweredChangesStand
<1>8. LogInv'
  BY <1>1 DEF LogInv, LogIsMine
<1> QED
  BY <1>3, <1>4, <1>6, <1>7, <1>8 DEF OrderInv

LEMMA EndInv ==
  ASSUME OrderInv, NEW r \in Writer, step[r] \in {"begun", "missing", "locked"},
         NEW a \in OrderAnswer \ {"none", "updated"}, OrderEnd(r, a)
  PROVE  OrderInv'
<1>1. OrderTypeOK /\ HeldInv
  BY DEF OrderInv
<1>2. /\ step' = [step EXCEPT ![r] = "over"] /\ answer' = [answer EXCEPT ![r] = a]
      /\ rowLock' = IF rowLock = r THEN Unlocked ELSE rowLock
      /\ UNCHANGED <<status, frozen, header, detail, writtenBy>>
      /\ seen' = [seen EXCEPT ![r] = NoHeader]
      /\ UNCHANGED <<update, logged, alone, logRow, toLog>>
  BY DEF OrderEnd, At, Forget
<1>3. OrderTypeOK'
  BY <1>1, <1>2 DEF OrderTypeOK, Step
<1>4. step'[r] = "over" /\ answer'[r] # "updated" /\ rowLock' # r
  BY <1>1, <1>2, RowAssumption DEF OrderTypeOK
<1>5. \A q \in Writer : q # r => /\ step'[q] = step[q] /\ seen'[q] = seen[q]
                                 /\ update'[q] = update[q] /\ answer'[q] = answer[q]
  BY <1>1, <1>2 DEF OrderTypeOK
<1>6. rowLock' = rowLock \/ (rowLock = r /\ rowLock' = Unlocked)
  BY <1>2
<1>7. UNCHANGED <<header, detail, status, writtenBy, logged, alone, logRow, toLog>>
  BY <1>2
<1> QED
  BY <1>3, <1>4, <1>5, <1>6, <1>7, QuietInv

LEMMA BeginInv ==
  ASSUME OrderInv, NEW r \in Writer, ReceiveUpdate(r) \/ MissRow(r) \/ LockRow(r)
  PROVE  OrderInv'
<1>1. OrderTypeOK /\ HeldInv /\ DoneInv
  BY DEF OrderInv
<1>2. /\ UNCHANGED <<header, detail, status, writtenBy, logged, alone, logRow, toLog, answer, frozen>>
      /\ step[r] \in {"idle", "begun"}
  BY DEF ReceiveUpdate, MissRow, LockRow, rowVars
<1>3. answer[r] # "updated" /\ rowLock # r
  BY <1>1, <1>2 DEF DoneInv, Wrote, HeldInv
<1>4. CASE ReceiveUpdate(r)
  <2>1. PICK u \in Updates : update' = [update EXCEPT ![r] = u]
    BY <1>4 DEF ReceiveUpdate
  <2>2. step' = [step EXCEPT ![r] = "begun"] /\ UNCHANGED <<seen, rowLock>>
    BY <1>4 DEF ReceiveUpdate, At, rowVars
  <2>3. OrderTypeOK'
    BY <1>1, <1>2, <2>1, <2>2 DEF OrderTypeOK, Step
  <2>4. /\ step'[r] = "begun"
        /\ \A q \in Writer : q # r => /\ step'[q] = step[q] /\ seen'[q] = seen[q]
                                      /\ update'[q] = update[q] /\ answer'[q] = answer[q]
    BY <1>1, <1>2, <2>1, <2>2 DEF OrderTypeOK
  <2> QED
    BY <1>2, <1>3, <2>2, <2>3, <2>4, QuietInv
<1>5. CASE MissRow(r)
  <2>1. step' = [step EXCEPT ![r] = "missing"] /\ UNCHANGED <<seen, rowLock, update>>
    BY <1>5 DEF MissRow, At, rowVars
  <2>2. OrderTypeOK'
    BY <1>1, <1>2, <2>1 DEF OrderTypeOK, Step
  <2>3. /\ step'[r] = "missing"
        /\ \A q \in Writer : q # r => /\ step'[q] = step[q] /\ seen'[q] = seen[q]
                                      /\ update'[q] = update[q] /\ answer'[q] = answer[q]
    BY <1>1, <1>2, <2>1 DEF OrderTypeOK
  <2> QED
    BY <1>2, <1>3, <2>1, <2>2, <2>3, QuietInv
<1>6. CASE LockRow(r)
  <2>1. /\ step' = [step EXCEPT ![r] = "locked"] /\ seen' = [seen EXCEPT ![r] = header]
        /\ rowLock' = r /\ rowLock = Unlocked /\ Active("purchase") /\ UNCHANGED update
    BY <1>6 DEF LockRow, At
  <2>2. OrderTypeOK'
    BY <1>1, <1>2, <2>1 DEF OrderTypeOK, Step
  <2>3. /\ step'[r] = "locked" /\ seen'[r] = header
        /\ \A q \in Writer : q # r => /\ step'[q] = step[q] /\ seen'[q] = seen[q]
                                      /\ update'[q] = update[q] /\ answer'[q] = answer[q]
    BY <1>1, <1>2, <2>1 DEF OrderTypeOK
  <2> QED
    BY <1>2, <1>3, <2>1, <2>2, <2>3, QuietInv
<1> QED
  BY <1>4, <1>5, <1>6

(* What WriteRows does to the order. *)
LEMMA RowsWritten ==
  ASSUME OrderTypeOK, NEW r \in Writer, WriteRows(r)
  PROVE  /\ header' \in Header /\ detail' \in [Field -> Value]
         /\ writtenBy' \in [Field -> Writer \cup {Desktop}]
         /\ UNCHANGED <<status, frozen>>
         /\ \A f \in Field :
              /\ header'[f] = IF f = update[r].field THEN update[r].new ELSE header[f]
              /\ detail'[f] = IF f = update[r].field THEN update[r].new ELSE detail[f]
              /\ writtenBy'[f] = IF f = update[r].field THEN r ELSE writtenBy[f]
BY UpdateIsTyped DEF OrderTypeOK, WriteRows, Header

(* r commits its change; it is told so (a = "updated") or never hears it.  *)
LEMMA CommitInv ==
  ASSUME OrderInv, NEW r \in Writer, CommitUpdate(r) \/ CommitUnheard(r)
  PROVE  OrderInv'
<1>1. OrderTypeOK /\ HeldInv /\ SeenInv /\ DoneInv /\ AnsweredChangesStand /\ LogInv
  BY DEF OrderInv
<1>2. /\ step[r] = "locked" /\ WriteRows(r) /\ rowLock' = Unlocked
      /\ UNCHANGED <<update, logged, logRow, toLog>>
  BY DEF CommitUpdate, CommitUnheard, Acceptable
<1>3. rowLock = r /\ answer[r] # "updated" /\ logged[r] = "none"
  BY <1>1, <1>2 DEF HeldInv, DoneInv, Wrote
<1>4. /\ header' \in Header /\ detail' \in [Field -> Value]
      /\ writtenBy' \in [Field -> Writer \cup {Desktop}]
      /\ UNCHANGED <<status, frozen>>
      /\ \A f \in Field :
           /\ header'[f] = IF f = update[r].field THEN update[r].new ELSE header[f]
           /\ detail'[f] = IF f = update[r].field THEN update[r].new ELSE detail[f]
           /\ writtenBy'[f] = IF f = update[r].field THEN r ELSE writtenBy[f]
  BY <1>1, <1>2, RowsWritten
<1>5. update[r].field \in Field /\ update[r].field \in {"cust_code", "doc_ref"}
  BY <1>1, UpdateIsTyped
<1>6. /\ step'[r] \in {"logging", "over"}
      /\ step'[r] = "logging" => answer'[r] = "updated" /\ update[r].field = "cust_code"
      /\ answer'[r] = "updated" => alone'[r] = NothingToLog
      /\ \A q \in Writer : q # r => /\ step'[q] = step[q] /\ seen'[q] = seen[q]
                                    /\ answer'[q] = answer[q] /\ alone'[q] = alone[q]
      /\ step' \in [Writer -> Step] /\ answer' \in [Writer -> OrderAnswer]
      /\ seen' \in [Writer -> Header \cup {NoHeader}]
      /\ alone' \in [Writer -> BOOLEAN]
  <2>1. CASE CommitUpdate(r)
    <3>1. NothingToLog \in BOOLEAN
      BY DEF NothingToLog
    <3>2. /\ answer' = [answer EXCEPT ![r] = "updated"]
          /\ alone' = [alone EXCEPT ![r] = NothingToLog]
          /\ \/ /\ update[r].field = "cust_code"
                /\ step' = [step EXCEPT ![r] = "logging"] /\ UNCHANGED seen
             \/ /\ step' = [step EXCEPT ![r] = "over"]
                /\ seen' = [seen EXCEPT ![r] = NoHeader]
      BY <2>1 DEF CommitUpdate, At, Forget
    <3>3. /\ answer' \in [Writer -> OrderAnswer] /\ answer'[r] = "updated"
          /\ \A q \in Writer : q # r => answer'[q] = answer[q]
      BY <1>1, <3>2 DEF OrderTypeOK, OrderAnswer
    <3>4. /\ alone' \in [Writer -> BOOLEAN] /\ alone'[r] = NothingToLog
          /\ \A q \in Writer : q # r => alone'[q] = alone[q]
      BY <1>1, <3>1, <3>2, Zenon DEF OrderTypeOK
    <3>5. /\ step' \in [Writer -> Step] /\ seen' \in [Writer -> Header \cup {NoHeader}]
          /\ step'[r] \in {"logging", "over"}
          /\ step'[r] = "logging" => update[r].field = "cust_code"
          /\ \A q \in Writer : q # r => step'[q] = step[q] /\ seen'[q] = seen[q]
      BY <1>1, <3>2 DEF OrderTypeOK, Step
    <3> QED
      BY <3>3, <3>4, <3>5
  <2>2. CASE CommitUnheard(r)
    <3>1. /\ answer' = [answer EXCEPT ![r] = "failed"] /\ UNCHANGED alone
          /\ step' = [step EXCEPT ![r] = "over"] /\ seen' = [seen EXCEPT ![r] = NoHeader]
      BY <2>2 DEF CommitUnheard, At, Forget
    <3> QED
      BY <1>1, <3>1 DEF OrderTypeOK, Step, OrderAnswer
  <2> QED
    BY <2>1, <2>2
<1>7. OrderTypeOK'
  BY <1>1, <1>2, <1>4, <1>6 DEF OrderTypeOK
<1>8. \A q \in Writer : q # r => step[q] # "locked"
  BY <1>1, <1>3 DEF HeldInv
<1>9. HeldInv'
  BY <1>2, <1>6, <1>8, RowAssumption DEF HeldInv
<1>10. SeenInv'
  BY <1>6, <1>8 DEF SeenInv
<1>11. DoneInv'
  <2> SUFFICES ASSUME NEW q \in Writer
               PROVE  /\ Wrote(q)' => step'[q] \in {"logging", "adrift", "over"}
                      /\ step'[q] \in {"logging", "adrift"} \/ logged[q] # "none" =>
                           answer'[q] = "updated" /\ update[q].field = "cust_code"
                      /\ logged[q] = "updated" => step'[q] = "over"
    BY <1>2 DEF DoneInv
  <2>1. CASE q = r
    BY <1>3, <1>6, <2>1
  <2>2. CASE q # r
    <3>1. Wrote(q)' => Wrote(q)
      BY <1>4, <1>6, <2>2 DEF Wrote
    <3> QED
      BY <1>1, <1>6, <2>2, <3>1 DEF DoneInv
  <2> QED
    BY <2>1, <2>2
<1>12. AnsweredChangesStand'
  <2> SUFFICES ASSUME NEW q \in Writer, answer'[q] = "updated",
                      writtenBy'[update[q].field] = q
               PROVE  /\ header'[update[q].field] = update[q].new
                      /\ detail'[update[q].field] = update[q].new
    BY <1>2 DEF AnsweredChangesStand
  <2>1. update[q].field \in Field
    BY <1>1, UpdateIsTyped
  <2>2. CASE q = r
    BY <1>4, <2>1, <2>2
  <2>3. CASE q # r
    <3>1. /\ answer[q] = "updated" /\ update[q].field # update[r].field
          /\ writtenBy[update[q].field] = q
      BY <1>4, <1>6, <2>1, <2>3
    <3> QED
      BY <1>1, <1>4, <2>1, <3>1 DEF AnsweredChangesStand
  <2> QED
    BY <2>2, <2>3
<1>13. LogInv'
  <2> SUFFICES ASSUME NEW q \in Writer, answer'[q] = "updated",
                      update[q].field = "cust_code", alone'[q], writtenBy'["cust_code"] = q
               PROVE  LogIsMine(q)'
    BY <1>2 DEF LogInv
  <2>0. "cust_code" \in Field
    BY DEF Field
  <2>1. CASE q = r
    <3>1. NothingToLog
      BY <1>6, <2>1
    <3>2. \A p \in Writer : p # r => step'[p] \notin {"logging", "adrift"}
      BY <1>6, <3>1 DEF NothingToLog
    <3> QED
      BY <1>2, <1>3, <2>1, <3>1, <3>2 DEF LogIsMine, NothingToLog
  <2>2. CASE q # r
    <3>1. /\ update[r].field # "cust_code" /\ writtenBy["cust_code"] = q
          /\ header'["cust_code"] = header["cust_code"]
          /\ answer[q] = "updated" /\ alone[q]
      BY <1>4, <1>6, <2>0, <2>2
    <3>2. LogIsMine(q) /\ step'[r] # "logging"
      BY <1>1, <1>6, <3>1 DEF LogInv
    <3>3. \A p \in Writer : p # q => step'[p] \notin {"logging", "adrift"}
      BY <1>6, <3>2 DEF LogIsMine
    <3> QED
      BY <1>2, <3>1, <3>2, <3>3 DEF LogIsMine
  <2> QED
    BY <2>1, <2>2
<1> QED
  BY <1>7, <1>9, <1>10, <1>11, <1>12, <1>13 DEF OrderInv

-----------------------------------------------------------------------------
(* The log is written, or not; the order is left alone.                    *)
LEMMA LogStepInv ==
  ASSUME OrderInv, NEW r \in Writer, LogUpdate(r) \/ LogGivenUp(r) \/ LogLate(r)
  PROVE  OrderInv'
<1>1. OrderTypeOK /\ HeldInv /\ SeenInv /\ DoneInv /\ AnsweredChangesStand /\ LogInv
  BY DEF OrderInv
<1>2. /\ step[r] \in {"logging", "adrift"} /\ UNCHANGED <<update, answer, alone, toLog>>
      /\ UNCHANGED <<status, frozen, header, detail, writtenBy, rowLock>>
  BY DEF LogUpdate, LogGivenUp, LogLate, rowVars
<1>3. answer[r] = "updated" /\ update[r].field = "cust_code" /\ update[r].new \in Value
  BY <1>1, <1>2, UpdateIsTyped DEF DoneInv
<1>4. /\ \A q \in Writer : q # r => /\ step'[q] = step[q] /\ seen'[q] = seen[q]
                                    /\ logged'[q] = logged[q]
      /\ step'[r] \in {"adrift", "over"}
      /\ step' \in [Writer -> Step] /\ seen' \in [Writer -> Header \cup {NoHeader}]
      /\ logged' \in [Writer -> LogAnswer]
      /\ logRow' \in {logRow, update[r].new}
      /\ logged'[r] = "updated" => step'[r] = "over"
  <2>1. CASE LogUpdate(r)
    BY <1>1, <2>1 DEF LogUpdate, LogChanged, At, Forget, OrderTypeOK, Step, LogAnswer
  <2>2. CASE LogGivenUp(r)
    BY <1>1, <2>2 DEF LogGivenUp, At, OrderTypeOK, Step, LogAnswer
  <2>3. CASE LogLate(r)
    BY <1>1, <1>2, <2>3 DEF LogLate, LogChanged, At, Forget, OrderTypeOK, Step, DoneInv
  <2> QED
    BY <2>1, <2>2, <2>3
<1>5. logged'[r] = "updated" => logRow' = update[r].new
  <2>1. CASE LogUpdate(r)
    BY <1>1, <2>1 DEF LogUpdate, LogChanged, OrderTypeOK
  <2>2. CASE LogGivenUp(r) \/ LogLate(r)
    BY <1>1, <2>2 DEF LogGivenUp, LogLate, OrderTypeOK, DoneInv
  <2> QED
    BY <2>1, <2>2
<1>6. OrderTypeOK'
  BY <1>1, <1>2, <1>3, <1>4 DEF OrderTypeOK
<1>7. HeldInv' /\ SeenInv'
  BY <1>1, <1>2, <1>4 DEF HeldInv, SeenInv, Active
<1>8. DoneInv'
  BY <1>1, <1>2, <1>3, <1>4 DEF DoneInv, Wrote
<1>9. AnsweredChangesStand'
  BY <1>1, <1>2 DEF AnsweredChangesStand
<1>10. LogInv'
  <2> SUFFICES ASSUME NEW q \in Writer, answer[q] = "updated",
                      update[q].field = "cust_code", alone[q], writtenBy["cust_code"] = q
               PROVE  LogIsMine(q)'
    BY <1>2 DEF LogInv
  <2>1. LogIsMine(q)
    BY <1>1 DEF LogInv
  <2>2. q = r
    BY <1>2, <2>1 DEF LogIsMine
  <2>3. header["cust_code"] = update[r].new
    BY <1>1, <1>3, <2>2 DEF AnsweredChangesStand
  <2> QED
    BY <1>2, <1>4, <1>5, <2>1, <2>2, <2>3 DEF LogIsMine
<1> QED
  BY <1>6, <1>7, <1>8, <1>9, <1>10 DEF OrderInv

LEMMA CreationInv ==
  ASSUME OrderInv, LogCreation \/ Create
  PROVE  OrderInv'
<1>1. OrderTypeOK /\ HeldInv /\ SeenInv /\ DoneInv /\ AnsweredChangesStand /\ LogInv
  BY DEF OrderInv
<1>2. UNCHANGED <<step, update, seen, answer, logged, alone, rowVars>>
  BY DEF LogCreation, Create
<1>3. header["cust_code"] \in Value
  BY <1>1 DEF OrderTypeOK, Header, Field
<1>4. \/ toLog # NoValue /\ logRow' \in {logRow, toLog} /\ toLog' = NoValue
      \/ UNCHANGED logRow /\ toLog' = header["cust_code"]
  BY DEF LogCreation, Create
<1>5. OrderTypeOK'
  BY <1>1, <1>2, <1>3, <1>4 DEF OrderTypeOK, rowVars
<1>6. HeldInv' /\ SeenInv' /\ DoneInv' /\ AnsweredChangesStand'
  BY <1>1, <1>2 DEF rowVars, HeldInv, SeenInv, DoneInv, AnsweredChangesStand, Wrote, Active
<1>7. LogInv'
  BY <1>1, <1>2, <1>4 DEF rowVars, LogInv, LogIsMine
<1> QED
  BY <1>5, <1>6, <1>7 DEF OrderInv

LEMMA ErpInv ==
  ASSUME OrderInv, ErpStep, UNCHANGED orderVars
  PROVE  OrderInv'
<1>1. OrderTypeOK /\ HeldInv /\ SeenInv /\ DoneInv /\ AnsweredChangesStand /\ LogInv
  BY DEF OrderInv
<1>2. UNCHANGED <<step, update, seen, answer, logged, alone, logRow, toLog>>
  BY DEF orderVars
<1>3. ASSUME NEW f \in Field, NEW v \in Value, ErpEdit(f, v)
      PROVE  OrderInv'
  <2>1. /\ header' = [header EXCEPT ![f] = v] /\ detail' = [detail EXCEPT ![f] = v]
        /\ writtenBy' = [writtenBy EXCEPT ![f] = Desktop]
        /\ UNCHANGED <<status, frozen, rowLock>> /\ rowLock = Unlocked
    BY <1>3 DEF ErpEdit
  <2>2. /\ header' \in Header /\ detail' \in [Field -> Value]
        /\ writtenBy' \in [Field -> Writer \cup {Desktop}]
        /\ \A g \in Field :
             /\ header'[g] = IF g = f THEN v ELSE header[g]
             /\ detail'[g] = IF g = f THEN v ELSE detail[g]
             /\ writtenBy'[g] = IF g = f THEN Desktop ELSE writtenBy[g]
    BY <1>1, <2>1 DEF OrderTypeOK, Header
  <2>3. OrderTypeOK'
    BY <1>1, <1>2, <2>1, <2>2 DEF OrderTypeOK
  <2>4. \A r \in Writer : step[r] # "locked"
    BY <1>1, <2>1, RowAssumption DEF HeldInv
  <2>5. HeldInv' /\ SeenInv'
    BY <1>1, <1>2, <2>1, <2>4 DEF HeldInv, SeenInv
  <2>6. \A r \in Writer, g \in Field :
          writtenBy'[g] = r => writtenBy[g] = r /\ header'[g] = header[g] /\ detail'[g] = detail[g]
    BY <2>2, RowAssumption
  <2>7. \A r \in Writer : Wrote(r)' => Wrote(r)
    BY <1>2, <2>6 DEF Wrote
  <2>8. DoneInv'
    BY <1>1, <1>2, <2>7 DEF DoneInv
  <2>9. AnsweredChangesStand'
    <3>1. \A r \in Writer : update[r].field \in Field
      BY <1>1, UpdateIsTyped
    <3> QED
      BY <1>1, <1>2, <2>6, <3>1 DEF AnsweredChangesStand
  <2>10. LogInv'
    <3>1. "cust_code" \in Field
      BY DEF Field
    <3> QED
      BY <1>1, <1>2, <2>6, <3>1 DEF LogInv, LogIsMine
  <2> QED
    BY <2>3, <2>5, <2>8, <2>9, <2>10 DEF OrderInv
<1>4. ASSUME NEW x \in Row, DesktopCancel(x) \/ DesktopCreate(x)
      PROVE  OrderInv'
  <2>1. /\ UNCHANGED <<frozen, header, detail, writtenBy, rowLock>>
        /\ status' \in [Row -> {"absent", "active", "cancelled"}]
    BY <1>1, <1>4 DEF DesktopCancel, DesktopCreate, OrderTypeOK
  <2>2. OrderTypeOK' /\ HeldInv' /\ DoneInv' /\ AnsweredChangesStand' /\ LogInv'
    BY <1>1, <1>2, <2>1 DEF OrderTypeOK, HeldInv, DoneInv, AnsweredChangesStand,
       LogInv, LogIsMine, Wrote
  <2>3. SeenInv'
    <3> SUFFICES ASSUME NEW r \in Writer, step[r] = "locked"
                 PROVE  Active("purchase")'
      BY <1>1, <1>2, <2>1 DEF SeenInv
    <3>1. Active("purchase") /\ rowLock # Unlocked
      BY <1>1, RowAssumption DEF SeenInv, HeldInv
    <3>2. "purchase" \in Row
      BY DEF Row, InTrans
    <3> QED
      BY <1>1, <1>4, <3>1, <3>2 DEF DesktopCancel, DesktopCreate, Active, OrderTypeOK
  <2> QED
    BY <2>2, <2>3 DEF OrderInv
<1> QED
  BY <1>3, <1>4 DEF ErpStep

LEMMA OrderStepInv ==
  ASSUME OrderInv, OrderNext
  PROVE  OrderInv'
<1>1. ASSUME NEW r \in Writer,
             \/ NotPurchaseOrder(r) \/ NotFound(r) \/ Conflict(r) \/ SupplierNotFound(r)
             \/ DryRun(r) \/ Unchanged(r) \/ FailUpdate(r)
      PROVE  OrderInv'
  <2>1. /\ step[r] \in {"begun", "missing", "locked"}
        /\ \E a \in OrderAnswer \ {"none", "updated"} : OrderEnd(r, a)
    BY <1>1 DEF NotPurchaseOrder, NotFound, Conflict, SupplierNotFound, DryRun, Unchanged,
       FailUpdate, Acceptable, OrderAnswer
  <2> QED
    BY <2>1, EndInv
<1> QED
  BY <1>1, BeginInv, CommitInv, LogStepInv, CreationInv DEF OrderNext, OrderStep

-----------------------------------------------------------------------------
(* Nothing is unfrozen, and the requests to freeze stay where they are.    *)
LEMMA SignKept ==
  ASSUME SignInv, UNCHANGED signVars, frozen \subseteq frozen'
  PROVE  SignInv'
BY DEF SignInv, signVars, SignTypeOK, LockAnswersAreTrue

LEMMA SignStepInv ==
  ASSUME SignInv, OrderTypeOK, NEW q \in Signer, SignStep(q) \/ SignFail(q)
  PROVE  /\ SignInv' /\ frozen' \subseteq Row
         /\ UNCHANGED <<status, header, detail, writtenBy, rowLock>>
<1>1. /\ SignTypeOK /\ LockAnswersAreTrue
      /\ \A p \in Signer : /\ signed[p] # "none" => signStage[p] = "answered"
                           /\ signStage[p] = "found" => at[p] \in Row
      /\ frozen \subseteq Row
  BY DEF SignInv, OrderTypeOK
<1>2. signStage[q] # "answered" /\ signed[q] = "none"
  BY <1>1 DEF SignStep, SignFail, ProbeTrans, ProbeBills, Freeze
<1>3. InTrans \subseteq Row /\ "bill" \in Row /\ NoRow \notin Row
  BY SignerAssumption DEF Row
<1>4. \A p \in Signer : p # q =>
        signStage'[p] = signStage[p] /\ signed'[p] = signed[p] /\ at'[p] = at[p]
  BY <1>1 DEF SignStep, SignFail, ProbeTrans, ProbeBills, Freeze, Locate, SignEnd, SignTypeOK
<1>5. SignTypeOK'
  BY <1>1, <1>3 DEF SignStep, SignFail, ProbeTrans, ProbeBills, Freeze, Locate, SignEnd,
     SignTypeOK, SignStage, SignAnswer
<1>6. /\ UNCHANGED <<status, header, detail, writtenBy, rowLock>>
      /\ frozen \subseteq frozen'
  BY DEF SignStep, SignFail, ProbeTrans, ProbeBills, Freeze, rowVars
<1>7. /\ signed'[q] # "none" => signStage'[q] = "answered"
      /\ signStage'[q] = "found" => at'[q] \in Row
  BY <1>1, <1>2, <1>3 DEF SignStep, SignFail, ProbeTrans, ProbeBills, Freeze, Locate, SignEnd, SignTypeOK
<1>8. signed'[q] \in {"locked", "already_locked"} => at'[q] \in frozen'
  <2>1. ASSUME NEW x \in Row, Locate(q, x), UNCHANGED frozen,
               signed'[q] \in {"locked", "already_locked"}
        PROVE  at'[q] \in frozen'
    BY <1>1, <1>2, <2>1 DEF Locate, SignEnd, SignTypeOK
  <2>2. CASE ProbeTrans(q)
    BY <1>2, <1>3, <2>1, <2>2 DEF ProbeTrans, rowVars
  <2>3. CASE ProbeBills(q)
    BY <1>1, <1>3, <2>1, <2>3 DEF ProbeBills, rowVars, SignEnd, SignTypeOK
  <2>4. CASE Freeze(q)
    BY <1>1, <2>4 DEF Freeze, SignEnd, SignTypeOK
  <2>5. CASE SignFail(q)
    BY <1>1, <2>5 DEF SignFail, SignEnd, SignTypeOK
  <2> QED
    BY <2>2, <2>3, <2>4, <2>5 DEF SignStep
<1>9. \A p \in Signer : /\ signed'[p] # "none" => signStage'[p] = "answered"
                        /\ signStage'[p] = "found" => at'[p] \in Row
  BY <1>1, <1>4, <1>7
<1>10. LockAnswersAreTrue'
  BY <1>1, <1>4, <1>6, <1>8 DEF LockAnswersAreTrue
<1>11. frozen' \subseteq Row
  <2>1. CASE ProbeTrans(q) \/ ProbeBills(q)
    BY <1>1, <2>1 DEF ProbeTrans, ProbeBills, rowVars
  <2>2. CASE Freeze(q) \/ SignFail(q)
    <3>1. frozen' \subseteq frozen \cup {at[q]} /\ (frozen' # frozen => Active(at[q]) /\ signStage[q] = "found")
      BY <2>2 DEF Freeze, SignFail
    <3>2. frozen' # frozen => at[q] \in Row
      BY <1>1, <3>1
    <3> QED
      BY <1>1, <3>1, <3>2
  <2> QED
    BY <2>1, <2>2 DEF SignStep
<1> QED
  BY <1>5, <1>6, <1>9, <1>10, <1>11 DEF SignInv

LEMMA SignedStepInv ==
  ASSUME OrderInv, SignInv, [SignedNext]_signedVars
  PROVE  OrderInv' /\ SignInv'
<1>0. OrderTypeOK /\ frozen \subseteq Row
  BY DEF OrderInv, OrderTypeOK
<1>1. CASE OrderNext /\ UNCHANGED signVars
  <2>1. UNCHANGED frozen
    BY <1>1 DEF OrderNext, OrderStep, ReceiveUpdate, LockRow, MissRow, NotPurchaseOrder, NotFound,
       Conflict, SupplierNotFound, DryRun, Unchanged, FailUpdate, OrderEnd, CommitUpdate,
       CommitUnheard, WriteRows, LogUpdate, LogGivenUp, LogLate, LogCreation, Create, rowVars
  <2> QED
    BY <1>1, <2>1, OrderStepInv, SignKept
<1>2. ASSUME NEW q \in Signer, SignStep(q) \/ SignFail(q), UNCHANGED orderVars
      PROVE  OrderInv' /\ SignInv'
  <2>1. /\ SignInv' /\ frozen' \subseteq Row
        /\ UNCHANGED <<status, header, detail, writtenBy, rowLock>>
    BY <1>0, <1>2, SignStepInv
  <2>2. UNCHANGED orderOnly
    BY <1>2, <2>1 DEF orderOnly
  <2> QED
    BY <2>1, <2>2, OrderKept
<1>3. CASE ErpStep /\ UNCHANGED <<orderVars, signVars>>
  <2>1. UNCHANGED frozen
    BY <1>3 DEF ErpStep, ErpEdit, DesktopCancel, DesktopCreate
  <2> QED
    BY <1>3, <2>1, ErpInv, SignKept
<1>4. CASE UNCHANGED signedVars
  <2>1. UNCHANGED orderOnly /\ UNCHANGED signVars /\ UNCHANGED frozen
    BY <1>4 DEF signedVars, rowVars, orderOnly
  <2> QED
    BY <1>0, <2>1, OrderKept, SignKept
<1> QED
  BY <1>1, <1>2, <1>3, <1>4 DEF SignedNext

(* The invariants of a purchase order under updates and signatures hold in *)
(* every state (PurchaseOrderUpdate.tla, DocumentLock.tla).                *)
THEOREM SignedInvariance == SignedSpec => [](OrderInv /\ SignInv)
<1>1. OrderInv /\ SignInv /\ [SignedNext]_signedVars => OrderInv' /\ SignInv'
  BY SignedStepInv
<1> QED
  BY <1>1, SignedInitInv, PTL DEF SignedSpec

(* The variables of the order and of its changes keep their types.         *)
THEOREM OrderTypeCorrect == SignedSpec => []OrderTypeOK
<1>1. OrderInv => OrderTypeOK
  BY DEF OrderInv
<1> QED
  BY <1>1, SignedInvariance, PTL

(* The variables of the requests to freeze keep their types.               *)
THEOREM SignTypeCorrect == SignedSpec => []SignTypeOK
<1>1. SignInv => SignTypeOK
  BY DEF SignInv
<1> QED
  BY <1>1, SignedInvariance, PTL

(* A change of the creditor or the reference that was answered "updated"   *)
(* is in the header and in all detail rows until somebody changes the same *)
(* field.                                                                  *)
THEOREM AnsweredChangesLast == SignedSpec => []AnsweredChangesStand
<1>1. OrderInv => AnsweredChangesStand
  BY DEF OrderInv
<1> QED
  BY <1>1, SignedInvariance, PTL

(* log_status "updated" is true as long as the creditor is the order's,    *)
(* for a change at whose commit nobody else was about to write the log.    *)
THEOREM LogTellsTheCreditor == SignedSpec => []LogFollowsOrder
<1>1. OrderInv => LogFollowsOrder
  <2> SUFFICES ASSUME OrderInv, NEW r \in Writer, logged[r] = "updated", alone[r],
                      writtenBy["cust_code"] = r
               PROVE  logRow = header["cust_code"]
    BY DEF LogFollowsOrder
  <2>1. answer[r] = "updated" /\ update[r].field = "cust_code"
    BY DEF OrderInv, DoneInv
  <2> QED
    BY <2>1 DEF OrderInv, LogInv, LogIsMine
<1> QED
  BY <1>1, SignedInvariance, PTL

(* Who is told that a document is locked may rely on it.                   *)
THEOREM LockedMeansLocked == SignedSpec => []LockAnswersAreTrue
<1>1. SignInv => LockAnswersAreTrue
  BY DEF SignInv
<1> QED
  BY <1>1, SignedInvariance, PTL

(* No lost update: SELECT ... FOR UPDATE keeps what was read true until it *)
(* is replaced.                                                            *)
THEOREM NothingIsLost == SignedSpec => ReplacesWhatItReports
<1>1. ASSUME OrderInv, SignedNext, NEW r \in Writer, NEW f \in Field,
             writtenBy'[f] = r, step[r] = "locked", step'[r] # "locked"
      PROVE  /\ header[f] = seen[r][f]
             /\ update[r].old \in {NoValue, header[f]}
             /\ update[r].remark \in {NoValue, header["remark_5"]}
             /\ Active("purchase")
  <2>0. OrderTypeOK /\ SeenInv /\ DoneInv
    BY <1>1 DEF OrderInv
  <2>1. seen[r] = header /\ Active("purchase") /\ writtenBy[f] # r
    BY <1>1, <2>0 DEF SeenInv, DoneInv, Wrote
  <2>2. writtenBy' # writtenBy
    BY <1>1, <2>1
  <2>3. PICK q \in Writer : CommitUpdate(q) \/ CommitUnheard(q)
    <3>1. CASE \E q \in Signer : (SignStep(q) \/ SignFail(q)) /\ UNCHANGED orderVars
      BY <1>1, <3>1 DEF orderVars
    <3>2. CASE ErpStep /\ UNCHANGED <<orderVars, signVars>>
      BY <1>1, <3>2 DEF orderVars
    <3>3. CASE OrderNext
      BY <2>2, <3>3 DEF OrderNext, OrderStep, ReceiveUpdate, LockRow, MissRow, NotPurchaseOrder,
         NotFound, Conflict, SupplierNotFound, DryRun, Unchanged, FailUpdate, OrderEnd,
         LogUpdate, LogGivenUp, LogLate, LogCreation, Create, rowVars
    <3> QED
      BY <1>1, <3>1, <3>2, <3>3 DEF SignedNext
  <2>4. /\ WriteRows(q) /\ AsExpected(q)
    BY <2>3 DEF CommitUpdate, CommitUnheard, Acceptable
  <2>5. writtenBy'[f] = IF f = update[q].field THEN q ELSE writtenBy[f]
    BY <2>0, <2>4, RowsWritten
  <2>6. q = r /\ f = update[r].field
    BY <1>1, <2>1, <2>5
  <2> QED
    BY <2>1, <2>4, <2>6 DEF AsExpected
<1>2. OrderInv /\ [SignedNext]_signedVars =>
        [\A r \in Writer, f \in Field :
           (writtenBy'[f] = r /\ (step[r] = "locked" /\ step'[r] # "locked")) =>
             /\ header[f] = seen[r][f]
             /\ update[r].old \in {NoValue, header[f]}
             /\ update[r].remark \in {NoValue, header["remark_5"]}
             /\ Active("purchase")]_<<rowVars, orderVars>>
  BY <1>1 DEF signedVars
<1> QED
  BY <1>2, SignedInvariance, PTL DEF SignedSpec, ReplacesWhatItReports

(* Answers about a purchase order hold on: changes stand, the log has      *)
(* them, frozen documents are frozen.                                      *)
THEOREM AnswersHoldOn == SignedSpec => []OrderAnswersHold
BY AnsweredChangesLast, LogTellsTheCreditor, LockedMeansLocked, PTL DEF OrderAnswersHold
=============================================================================
