---------------------- MODULE SaleCancellation_proofs ----------------------
(* Proofs about SaleCancellation. *)
EXTENDS SaleCancellation, TLAPS

LEMMA KindsOfType == \A s : KindsOf(s) \subseteq Kind
  BY DEF KindsOf, Kind

LEMMA CallType == Calls \subseteq Call
  BY CallsAssumption

LEMMA HashType ==
  ASSUME NEW c \in Calls, NEW m \in Minute
  PROVE  HashAt(c, m) \in Hash
  BY CallType, ClockAssumption DEF Call, HashAt, Hash, Minute

LEMMA VerdictType == \A r \in Request : VerdictOf(r) \in Reply
  BY DEF VerdictOf, OrderVerdict, InvoiceVerdict, ExistingVerdict, Reply

LEMMA SnapshotType ==
  ASSUME TypeOK, NEW s \in Source
  PROVE  Snapshot(s) \in View
  BY ClockAssumption DEF TypeOK, Snapshot, View, DocsOf, Minute

LEMMA NoViewType == NoView \in View
  BY ClockAssumption DEF NoView, View, OpenRow, Row, Minute

LEMMA MarkedType ==
  ASSUME NEW k, NEW rw \in Row
  PROVE  Marked(k, rw) \in Row
  BY DEF Marked, Row

LEMMA NewDocType ==
  ASSUME TypeOK, NEW r \in Request
  PROVE  NewDoc(r) \in Doc
<1>1. call[r] \in Calls /\ call[r] \in Call /\ view[r].minute \in Minute
  BY CallType DEF TypeOK, View
<1>2. HashAt(call[r], view[r].minute) \in Hash
  BY <1>1, HashType
<1>. QED
  BY <1>1, <1>2 DEF NewDoc, Doc, Call

LEMMA RollbackType ==
  ASSUME TypeOK, NEW r \in Request, NEW a \in Reply, Rollback(r, a)
  PROVE  TypeOK'
  BY NoViewType DEF TypeOK, Rollback, EndTransaction, Phase, db

(* Every step keeps the types. *)
LEMMA TypeStep ==
  ASSUME TypeOK, [Next]_vars
  PROVE  TypeOK'
<1>. USE DEF TypeOK, db
<1>1. ASSUME NEW r \in Request, Receive(r) PROVE TypeOK'
  <2>1. PICK c \in Calls : /\ call' = [call EXCEPT ![r] = c]
                           /\ view' = [view EXCEPT ![r] = Snapshot(c.src)]
    BY <1>1 DEF Receive
  <2>2. c.src \in Source
    BY CallType DEF Call
  <2>3. Snapshot(c.src) \in View
    BY <2>2, SnapshotType
  <2>. QED
    BY <1>1, <2>1, <2>3 DEF Receive, Phase
<1>2. ASSUME NEW r \in Request, AcquireLock(r) PROVE TypeOK'
  BY <1>2 DEF AcquireLock, Phase
<1>3. ASSUME NEW r \in Request, LockTimeout(r) PROVE TypeOK'
  BY <1>3, RollbackType DEF LockTimeout, Reply
<1>4. ASSUME NEW r \in Request, AnswerOnly(r) PROVE TypeOK'
  BY <1>4, RollbackType, VerdictType DEF AnswerOnly
<1>5. ASSUME NEW r \in Request, Examine(r) PROVE TypeOK'
  BY <1>5 DEF Examine, Phase, View
<1>6. ASSUME NEW r \in Request, Reconcile(r) PROVE TypeOK'
  <2>1. PICK d \in view[r].docs : rel' = rel \cup NewRelations(r, d.kind, d.no)
    BY <1>6 DEF Reconcile
  <2>2. d \in Doc
    BY <2>1 DEF View
  <2>3. rel' \subseteq Relation
    BY <2>1, <2>2 DEF NewRelations, Relation, Doc
  <2>. QED
    BY <1>6, <2>3, NoViewType DEF Reconcile, EndTransaction, Phase, Reply
<1>7. ASSUME NEW r \in Request, InsertHeader(r) PROVE TypeOK'
  BY <1>7 DEF InsertHeader, Phase
<1>8. ASSUME NEW r \in Request, DuplicateNumber(r) PROVE TypeOK'
  BY <1>8, RollbackType DEF DuplicateNumber, Reply
<1>9. ASSUME NEW r \in Request, MarkSource(r) PROVE TypeOK'
  <2>1. CASE ~missed[r] /\ Markable(call[r].kind, row[call[r].src])
    BY <1>9, <2>1 DEF MarkSource, Phase
  <2>2. CASE ~(~missed[r] /\ Markable(call[r].kind, row[call[r].src]))
    BY <1>9, <2>2, RollbackType DEF MarkSource, Reply
  <2>. QED BY <2>1, <2>2
<1>10. ASSUME NEW r \in Request, Commit(r) PROVE TypeOK'
  <2>1. call[r] \in Call
    BY CallType
  <2>2. rel' \subseteq Relation
    BY <1>10, <2>1 DEF Commit, NewRelations, Relation, Call
  <2>3. row' \in [Source -> Row]
    BY <1>10, <2>1, MarkedType DEF Commit, Call
  <2>. QED
    BY <1>10, <2>2, <2>3, NewDocType, NoViewType
       DEF Commit, EndTransaction, RowUpdated, Phase, Reply
<1>11. ASSUME NEW r \in Request, Respond(r) \/ LoseReply(r) PROVE TypeOK'
  BY <1>11 DEF Respond, LoseReply, Phase, Reply
<1>12. ASSUME NEW r \in Request, Fail(r) PROVE TypeOK'
  BY <1>12, RollbackType DEF Fail, Reply
<1>13. ASSUME NEW s \in Source, ErpCancel(s) PROVE TypeOK'
  <2>1. PICK k \in KindsOf(s), n \in DocNo :
          /\ docs' = docs \cup {[kind |-> k, no |-> n, src |-> s,
                                 hash |-> NoHash, owner |-> "erp"]}
          /\ row' = [row EXCEPT ![s] = Marked(k, @)]
    BY <1>13 DEF ErpCancel
  <2>2. docs' \subseteq Doc
    BY <2>1, KindsOfType DEF Doc
  <2>3. row' \in [Source -> Row]
    BY <2>1, MarkedType
  <2>. QED
    BY <1>13, <2>2, <2>3 DEF ErpCancel, RowUpdated
<1>14. ASSUME NEW s \in Source, ErpReference(s) PROVE TypeOK'
  BY <1>14 DEF ErpReference, RowUpdated, Row
<1>15. ASSUME NEW s \in Source, TouchSource(s) PROVE TypeOK'
  BY <1>15 DEF TouchSource, RowUpdated
<1>16. ASSUME Tick PROVE TypeOK'
  BY <1>16, ClockAssumption DEF Tick, Minute
<1>17. CASE UNCHANGED vars
  BY <1>17 DEF vars
<1>. QED
  BY <1>1, <1>2, <1>3, <1>4, <1>5, <1>6, <1>7, <1>8, <1>9, <1>10, <1>11,
     <1>12, <1>13, <1>14, <1>15, <1>16, <1>17 DEF Next, Step, Environment

-----------------------------------------------------------------------------
(* What a "ready" verdict says about the snapshot it was drawn from. *)
LEMMA ReadyMeans ==
  ASSUME NEW r \in Request, VerdictOf(r) = "ready", ~call[r].preview,
         TypeOK, ViewCurrent, KindsMatch, pc[r] = "locked"
  PROVE  /\ ~missed[r]
         /\ row[call[r].src] = OpenRow
         /\ DocsOf(call[r].src) = {}
<1>. DEFINE v == view[r]
            c == call[r]
<1>0. c \in Calls /\ c \in Call /\ c.kind \in KindsOf(c.src)
  BY CallsAssumption DEF TypeOK
<1>1. /\ ~missed[r]
      /\ v.row.last # 1
      /\ v.row.used # 1
      /\ Mine(c, v) = {}
      /\ c.kind # "ssc" => v.docs = {}
  <2>1. CASE c.kind = "ssc"
    BY <2>1 DEF VerdictOf, OrderVerdict, ExistingVerdict, TypeOK
  <2>2. CASE c.kind # "ssc"
    BY <2>2 DEF VerdictOf, InvoiceVerdict, ExistingVerdict, TypeOK
  <2>. QED BY <2>1, <2>2
<1>2. v.row = row[c.src] /\ v.docs = DocsOf(c.src)
  BY <1>1 DEF ViewCurrent, Open, Holding
<1>3. row[c.src] = OpenRow
  <2>1. row[c.src] \in Row
    BY <1>0 DEF TypeOK, Call
  <2>. QED
    BY <1>1, <1>2, <2>1 DEF Row, OpenRow
<1>4. DocsOf(c.src) = {}
  <2>1. CASE c.kind # "ssc"
    BY <1>1, <1>2, <2>1
  <2>2. CASE c.kind = "ssc"
    <3>1. c.src \notin Invoice
      BY <1>0, <2>2 DEF KindsOf
    <3>2. \A d \in DocsOf(c.src) : d.kind = "ssc"
      BY <3>1 DEF DocsOf, KindsMatch, KindsOf
    <3>. QED
      BY <1>1, <1>2, <2>2, <3>2 DEF Mine
  <2>. QED BY <2>1, <2>2
<1>. QED
  BY <1>1, <1>3, <1>4

(* The lock is where the requests believe it is. *)
LEMMA LockStep ==
  ASSUME TypeOK, LockOwned, [Next]_vars
  PROVE  LockOwned'
<1>. USE DEF TypeOK, LockOwned, Holding
<1>1. ASSUME NEW r \in Request, EndTransaction(r), call' = call,
             NEW p \in Phase \ Holding, pc' = [pc EXCEPT ![r] = p]
      PROVE  LockOwned'
  BY <1>1, NullAssumption DEF EndTransaction
<1>2. ASSUME NEW r \in Request, NEW a, Rollback(r, a) PROVE LockOwned'
  BY <1>1, <1>2 DEF Rollback, Phase
<1>3. ASSUME NEW r \in Request, lock' = lock, call' = call,
             NEW p \in Phase, pc' = [pc EXCEPT ![r] = p],
             pc[r] \in Holding <=> p \in Holding
      PROVE  LockOwned'
  BY <1>3
<1>4. ASSUME NEW r \in Request, Receive(r) PROVE LockOwned'
  BY <1>4 DEF Receive
<1>5. ASSUME NEW r \in Request, AcquireLock(r) PROVE LockOwned'
  <2>1. call[r].src \in Source
    BY CallType DEF Call
  <2>. QED
    BY <1>5, <2>1, NullAssumption DEF AcquireLock
<1>6. ASSUME NEW r \in Request,
             \/ LockTimeout(r) \/ AnswerOnly(r) \/ DuplicateNumber(r) \/ Fail(r)
      PROVE  LockOwned'
  BY <1>2, <1>6 DEF LockTimeout, AnswerOnly, DuplicateNumber, Fail
<1>7. ASSUME NEW r \in Request, Examine(r) \/ InsertHeader(r) PROVE LockOwned'
  BY <1>3, <1>7 DEF Examine, InsertHeader, Phase
<1>8. ASSUME NEW r \in Request, Reconcile(r) \/ Commit(r) PROVE LockOwned'
  BY <1>1, <1>8 DEF Reconcile, Commit, Phase
<1>9. ASSUME NEW r \in Request, MarkSource(r) PROVE LockOwned'
  BY <1>2, <1>3, <1>9 DEF MarkSource, Phase
<1>10. ASSUME NEW r \in Request, Respond(r) \/ LoseReply(r) PROVE LockOwned'
  BY <1>3, <1>10 DEF Respond, LoseReply, Phase
<1>11. ASSUME NEW s \in Source, Environment(s) PROVE LockOwned'
  BY <1>11 DEF Environment, ErpCancel, ErpReference, TouchSource
<1>12. CASE Tick \/ UNCHANGED vars
  BY <1>12 DEF Tick, vars
<1>. QED
  BY <1>4, <1>5, <1>6, <1>7, <1>8, <1>9, <1>10, <1>11, <1>12 DEF Next, Step

-----------------------------------------------------------------------------
(* The steps that leave the committed data and every snapshot's standing   *)
(* with it alone: nobody but r moves, and r ends its transaction or keeps  *)
(* its snapshot.                                                           *)
Quiet(r) ==
  /\ UNCHANGED <<row, docs, call>>
  /\ \E p \in Phase : /\ pc' = [pc EXCEPT ![r] = p]
                      /\ \/ p \notin Open
                         \/ /\ pc[r] \in Open
                            /\ missed' = missed
                            /\ view'[r].row = view[r].row
                            /\ view'[r].docs = view[r].docs
  /\ \A q \in Request \ {r} : missed'[q] = missed[q] /\ view'[q] = view[q]

LEMMA QuietSteps ==
  ASSUME TypeOK, NEW r \in Request,
         \/ AcquireLock(r) \/ LockTimeout(r) \/ AnswerOnly(r) \/ Examine(r)
         \/ Reconcile(r) \/ InsertHeader(r) \/ DuplicateNumber(r)
         \/ MarkSource(r) \/ Respond(r) \/ LoseReply(r) \/ Fail(r)
  PROVE  Quiet(r)
<1>. USE DEF TypeOK, Quiet, Open, Holding, Phase, db
<1>1. ASSUME NEW a, Rollback(r, a) PROVE Quiet(r)
  BY <1>1 DEF Rollback, EndTransaction
<1>2. CASE AcquireLock(r) \/ InsertHeader(r) \/ Respond(r) \/ LoseReply(r)
  BY <1>2 DEF AcquireLock, InsertHeader, Respond, LoseReply
<1>3. CASE LockTimeout(r) \/ AnswerOnly(r) \/ DuplicateNumber(r) \/ Fail(r)
  BY <1>1, <1>3 DEF LockTimeout, AnswerOnly, DuplicateNumber, Fail
<1>4. CASE Examine(r)
  <2>1. view[r] \in View /\ view' = [view EXCEPT ![r].minute = clock]
    BY <1>4 DEF Examine
  <2>2. view'[r].row = view[r].row /\ view'[r].docs = view[r].docs
    BY <2>1 DEF View
  <2>. QED
    BY <1>4, <2>1, <2>2 DEF Examine
<1>5. CASE Reconcile(r)
  BY <1>5 DEF Reconcile, EndTransaction
<1>6. CASE MarkSource(r)
  BY <1>1, <1>6 DEF MarkSource
<1>. QED
  BY <1>2, <1>3, <1>4, <1>5, <1>6

(* The steps that update the row of s: everybody with a snapshot of s      *)
(* misses the update, and the other sources are as they were.              *)
Updates(s) ==
  /\ \A q \in Request :
       pc'[q] \in Open => /\ pc[q] = pc'[q]
                          /\ missed'[q] = RowUpdated(s)[q]
                          /\ view'[q] = view[q]
  /\ \A t \in Source \ {s} : row'[t] = row[t] /\ DocsOf(t)' = DocsOf(t)
  /\ call' = call

LEMMA CommitUpdates ==
  ASSUME TypeOK, NEW r \in Request, Commit(r)
  PROVE  Updates(call[r].src)
<1>1. NewDoc(r).src = call[r].src
  BY DEF NewDoc
<1>. QED
  BY <1>1 DEF TypeOK, Updates, Commit, EndTransaction, RowUpdated, DocsOf,
              Open, Holding, Phase

LEMMA EnvironmentUpdates ==
  ASSUME TypeOK, NEW s \in Source, Environment(s)
  PROVE  Updates(s)
<1>1. CASE ErpCancel(s)
  <2>1. PICK k \in KindsOf(s), n \in DocNo :
          /\ docs' = docs \cup {[kind |-> k, no |-> n, src |-> s,
                                 hash |-> NoHash, owner |-> "erp"]}
          /\ row' = [row EXCEPT ![s] = Marked(k, @)]
    BY <1>1 DEF ErpCancel
  <2>. QED
    BY <1>1, <2>1 DEF TypeOK, Updates, ErpCancel, RowUpdated, DocsOf
<1>2. CASE ErpReference(s)
  BY <1>2 DEF TypeOK, Updates, ErpReference, RowUpdated, DocsOf
<1>3. CASE TouchSource(s)
  BY <1>3 DEF TypeOK, Updates, TouchSource, RowUpdated, DocsOf, db
<1>. QED
  BY <1>1, <1>2, <1>3 DEF Environment

(* A snapshot goes stale only in a step that says so. *)
LEMMA ViewStep ==
  ASSUME TypeOK, ViewCurrent, [Next]_vars
  PROVE  ViewCurrent'
<1>0. \A r \in Request : call[r].src \in Source
  BY CallType DEF TypeOK, Call
<1>1. ASSUME NEW r \in Request, Receive(r) PROVE ViewCurrent'
  <2>1. PICK c \in Calls : /\ call' = [call EXCEPT ![r] = c]
                           /\ view' = [view EXCEPT ![r] = Snapshot(c.src)]
    BY <1>1 DEF Receive
  <2>2. view'[r].row = row[c.src] /\ view'[r].docs = DocsOf(c.src)
    BY <2>1 DEF TypeOK, Snapshot
  <2>. QED
    BY <1>1, <2>1, <2>2 DEF TypeOK, ViewCurrent, Receive, DocsOf, db
<1>2. ASSUME NEW r \in Request, Quiet(r) PROVE ViewCurrent'
  <2>1. /\ row' = row /\ docs' = docs /\ call' = call
        /\ \A s : DocsOf(s)' = DocsOf(s)
    BY <1>2 DEF Quiet, DocsOf
  <2>. SUFFICES ASSUME NEW q \in Request, pc'[q] \in Open, ~missed'[q]
                PROVE  /\ pc[q] \in Open /\ ~missed[q]
                       /\ view'[q].row = view[q].row
                       /\ view'[q].docs = view[q].docs
    BY <2>1 DEF ViewCurrent, Open, Holding
  <2>2. CASE q = r
    BY <1>2, <2>2 DEF Quiet, TypeOK
  <2>3. CASE q # r
    BY <1>2, <2>3 DEF Quiet, TypeOK
  <2>. QED BY <2>2, <2>3
<1>3. ASSUME NEW s \in Source, Updates(s) PROVE ViewCurrent'
  <2>. SUFFICES ASSUME NEW q \in Request, pc'[q] \in Open, ~missed'[q]
                PROVE  /\ view'[q].row = row'[call'[q].src]
                       /\ view'[q].docs = DocsOf(call[q].src)'
    BY DEF ViewCurrent, Open, Holding
  <2>1. pc[q] \in Open /\ ~missed[q] /\ call[q].src # s
    BY <1>3 DEF Updates, RowUpdated, TypeOK
  <2>. QED
    BY <1>0, <1>3, <2>1 DEF Updates, ViewCurrent
<1>4. CASE Tick \/ UNCHANGED vars
  BY <1>4 DEF Tick, vars, ViewCurrent, DocsOf, db, Open, Holding
<1>. QED
  BY <1>0, <1>1, <1>2, <1>3, <1>4, QuietSteps, CommitUpdates,
     EnvironmentUpdates DEF Next, Step

-----------------------------------------------------------------------------
(* Two requests are never past the checks of the same source. *)
LEMMA OneHolder ==
  ASSUME TypeOK, LockOwned, NEW q \in Request, NEW r \in Request,
         pc[q] \in Holding, pc[r] \in Holding, call[q].src = call[r].src
  PROVE  q = r
<1>1. call[q].src \in Source
  BY CallType DEF TypeOK, Call
<1>. QED
  BY <1>1 DEF LockOwned

(* The row a request holds does not change under it. *)
LEMMA RowLockStep ==
  ASSUME TypeOK, LockOwned, ViewCurrent, RowLockKept, KindsMatch, [Next]_vars
  PROVE  RowLockKept'
<1>. USE DEF RowHolding, Holding
<1>0. \A r \in Request : call[r].src \in Source
  BY CallType DEF TypeOK, Call
<1>1. ASSUME NEW r \in Request, Receive(r) PROVE RowLockKept'
  BY <1>1 DEF TypeOK, RowLockKept, Receive, DocsOf, db
<1>2. ASSUME NEW r \in Request, Quiet(r),
             pc'[r] \in RowHolding => pc[r] \in RowHolding \/ Examine(r)
      PROVE  RowLockKept'
  <2>1. row' = row /\ call' = call /\ \A s : DocsOf(s)' = DocsOf(s)
    BY <1>2 DEF Quiet, DocsOf
  <2>2. ASSUME NEW q \in Request, pc'[q] \in RowHolding
        PROVE  /\ ~missed'[q]
               /\ ~call[q].preview
               /\ row[call[q].src] = OpenRow
               /\ DocsOf(call[q].src) = {}
    <3>1. CASE pc[q] \in RowHolding
      <4>1. missed'[q] = missed[q]
        BY <1>2, <2>2, <3>1 DEF Quiet, Open, TypeOK
      <4>. QED BY <3>1, <4>1 DEF RowLockKept
    <3>2. CASE pc[q] \notin RowHolding
      <4>1. q = r /\ Examine(r)
        BY <1>2, <2>2, <3>2 DEF Quiet, TypeOK
      <4>. QED
        BY <4>1, ReadyMeans DEF Examine
    <3>. QED BY <3>1, <3>2
  <2>. QED
    BY <2>1, <2>2 DEF RowLockKept
<1>3. ASSUME NEW s \in Source, Updates(s),
             \A q \in Request :
               pc'[q] \in RowHolding => pc[q] \in RowHolding /\ call[q].src # s
      PROVE  RowLockKept'
  <2>. SUFFICES ASSUME NEW q \in Request, pc'[q] \in RowHolding
                PROVE  /\ ~missed'[q]
                       /\ ~call'[q].preview
                       /\ row'[call'[q].src] = OpenRow
                       /\ DocsOf(call[q].src)' = {}
    BY DEF RowLockKept
  <2>1. pc[q] \in RowHolding /\ call[q].src # s /\ pc'[q] \in Open
    BY <1>3 DEF Open
  <2>2. missed'[q] = RowUpdated(s)[q] /\ call' = call
    BY <1>3, <2>1 DEF Updates
  <2>3. ~missed'[q]
    BY <2>1, <2>2 DEF RowUpdated, RowLockKept
  <2>. QED
    BY <1>0, <1>3, <2>1, <2>2, <2>3 DEF Updates, RowLockKept
<1>4. ASSUME NEW r \in Request,
             \/ AcquireLock(r) \/ LockTimeout(r) \/ AnswerOnly(r) \/ Examine(r)
             \/ Reconcile(r) \/ InsertHeader(r) \/ DuplicateNumber(r)
             \/ MarkSource(r) \/ Respond(r) \/ LoseReply(r) \/ Fail(r)
      PROVE  RowLockKept'
  <2>1. pc'[r] \in RowHolding => pc[r] \in RowHolding \/ Examine(r)
    BY <1>4 DEF TypeOK, AcquireLock, LockTimeout, AnswerOnly, Reconcile,
                InsertHeader, DuplicateNumber, MarkSource, Respond,
                LoseReply, Fail, Rollback
  <2>. QED
    BY <1>2, <1>4, <2>1, QuietSteps
<1>5. ASSUME NEW r \in Request, Commit(r) PROVE RowLockKept'
  <2>1. Updates(call[r].src)
    BY <1>5, CommitUpdates
  <2>2. ASSUME NEW q \in Request, pc'[q] \in RowHolding
        PROVE  pc[q] \in RowHolding /\ call[q].src # call[r].src
    <3>1. q # r /\ pc[q] \in RowHolding /\ pc[r] \in Holding
      BY <1>5, <2>2 DEF Commit, TypeOK
    <3>. QED BY <3>1, OneHolder
  <2>. QED
    BY <1>0, <1>3, <2>1, <2>2
<1>6. ASSUME NEW s \in Source, Environment(s) PROVE RowLockKept'
  <2>1. Updates(s) /\ ~RowLocked(s) /\ pc' = pc
    BY <1>6, EnvironmentUpdates DEF Environment, ErpCancel, ErpReference,
                                    TouchSource
  <2>. QED
    BY <1>3, <2>1 DEF RowLocked
<1>7. CASE Tick \/ UNCHANGED vars
  BY <1>7 DEF Tick, vars, RowLockKept, DocsOf, db
<1>. QED
  BY <1>1, <1>4, <1>5, <1>6, <1>7 DEF Next, Step, Environment, TouchSource

-----------------------------------------------------------------------------
(* How the committed documents and marks grow: not at all, or by one       *)
(* document of an open source, which is marked, or by a reference to an    *)
(* open source.                                                            *)
Keeps == row' = row /\ docs' = docs

Cancels(d) ==
  /\ d \in Doc
  /\ d.kind \in KindsOf(d.src)
  /\ row[d.src] = OpenRow
  /\ DocsOf(d.src) = {}
  /\ docs' = docs \cup {d}
  /\ row' = [row EXCEPT ![d.src] = Marked(d.kind, @)]

Refers(s) ==
  /\ row[s] = OpenRow
  /\ docs' = docs
  /\ row' = [row EXCEPT ![s].used = 1]

LEMMA NoDocOfOpenSource ==
  ASSUME TypeOK, SourceMatchesDocument, NEW s \in Source, row[s] = OpenRow
  PROVE  DocsOf(s) = {}
  BY DEF SourceMatchesDocument, DocsOf, OpenRow

LEMMA HowDataGrows ==
  ASSUME TypeOK, RowLockKept, SourceMatchesDocument, [Next]_vars
  PROVE  \/ Keeps
         \/ \E d : Cancels(d)
         \/ \E s \in Source : Refers(s)
<1>1. ASSUME NEW r \in Request, Commit(r) PROVE Cancels(NewDoc(r))
  <2>1. NewDoc(r) \in Doc
    BY NewDocType
  <2>2. NewDoc(r).src = call[r].src /\ NewDoc(r).kind = call[r].kind
    BY DEF NewDoc
  <2>3. call[r].kind \in KindsOf(call[r].src)
    BY CallsAssumption DEF TypeOK
  <2>. QED
    BY <1>1, <2>1, <2>2, <2>3 DEF Commit, Cancels, RowLockKept, RowHolding
<1>2. ASSUME NEW s \in Source, ErpCancel(s) PROVE \E d : Cancels(d)
  <2>1. PICK k \in KindsOf(s), n \in DocNo :
          /\ docs' = docs \cup {[kind |-> k, no |-> n, src |-> s,
                                 hash |-> NoHash, owner |-> "erp"]}
          /\ row' = [row EXCEPT ![s] = Marked(k, @)]
    BY <1>2 DEF ErpCancel
  <2>. DEFINE d == [kind |-> k, no |-> n, src |-> s,
                    hash |-> NoHash, owner |-> "erp"]
  <2>2. d \in Doc /\ d.kind = k /\ d.src = s
    BY KindsOfType DEF Doc
  <2>3. DocsOf(s) = {} /\ row[s] = OpenRow
    BY <1>2, NoDocOfOpenSource DEF ErpCancel
  <2>4. Cancels(d)
    BY <2>1, <2>2, <2>3 DEF Cancels
  <2>. QED BY <2>4
<1>3. ASSUME NEW s \in Source, ErpReference(s) PROVE Refers(s)
  BY <1>3 DEF ErpReference, Refers
<1>4. ASSUME NEW r \in Request,
             \/ AcquireLock(r) \/ LockTimeout(r) \/ AnswerOnly(r) \/ Examine(r)
             \/ Reconcile(r) \/ InsertHeader(r) \/ DuplicateNumber(r)
             \/ MarkSource(r) \/ Respond(r) \/ LoseReply(r) \/ Fail(r)
      PROVE  Keeps
  BY <1>4, QuietSteps DEF Quiet, Keeps
<1>5. ASSUME NEW r \in Request, Receive(r) PROVE Keeps
  BY <1>5 DEF Receive, Keeps, db
<1>6. ASSUME NEW s \in Source, TouchSource(s) PROVE Keeps
  BY <1>6 DEF TouchSource, Keeps, db
<1>7. CASE Tick \/ UNCHANGED vars
  BY <1>7 DEF Tick, vars, Keeps, db
<1>. QED
  BY <1>1, <1>2, <1>3, <1>4, <1>5, <1>6, <1>7 DEF Next, Step, Environment

LEMMA KindsStep ==
  ASSUME TypeOK, RowLockKept, SourceMatchesDocument, KindsMatch, [Next]_vars
  PROVE  KindsMatch'
  BY HowDataGrows DEF KindsMatch, Keeps, Cancels, Refers

LEMMA AtMostOneStep ==
  ASSUME TypeOK, RowLockKept, SourceMatchesDocument, AtMostOneCancellation,
         [Next]_vars
  PROVE  AtMostOneCancellation'
<1>1. ASSUME NEW d, Cancels(d) PROVE AtMostOneCancellation'
  BY <1>1 DEF Cancels, AtMostOneCancellation, DocsOf
<1>. QED
  BY <1>1, HowDataGrows DEF AtMostOneCancellation, Keeps, Refers

LEMMA MarkStep ==
  ASSUME TypeOK, RowLockKept, SourceMatchesDocument, KindsMatch, [Next]_vars
  PROVE  SourceMatchesDocument'
<1>1. ASSUME NEW d, Cancels(d) PROVE SourceMatchesDocument'
  <2>1. /\ d.src \in Source
        /\ row'[d.src].last = IF d.kind = "void" THEN 1 ELSE 0
        /\ d.kind # "void" => row'[d.src].used = 1
    BY <1>1 DEF TypeOK, Cancels, Doc, Marked, OpenRow
  <2>2. \A s \in Source \ {d.src} : row'[s] = row[s]
    BY <1>1 DEF TypeOK, Cancels
  <2>3. \A e \in docs : e.src # d.src
    BY <1>1 DEF Cancels, DocsOf
  <2>4. docs \subseteq Doc /\ docs' = docs \cup {d}
    BY <1>1 DEF Cancels, TypeOK
  <2>5. \A e \in docs' : IF e.kind = "void" THEN row'[e.src].last = 1
                                          ELSE row'[e.src].used = 1
    BY <2>1, <2>2, <2>3, <2>4 DEF SourceMatchesDocument, Doc
  <2>6. \A s \in Source :
          row'[s].last = 1 => \E e \in DocsOf(s)' : e.kind = "void"
    BY <2>1, <2>2, <2>4 DEF SourceMatchesDocument, DocsOf
  <2>. QED
    BY <2>5, <2>6 DEF SourceMatchesDocument
<1>2. ASSUME NEW s \in Source, Refers(s) PROVE SourceMatchesDocument'
  <2>1. row[s] \in Row /\ row' = [row EXCEPT ![s].used = 1]
    BY <1>2 DEF Refers, TypeOK
  <2>2. row'[s].last = 0 /\ row'[s].used = 1
    BY <1>2, <2>1 DEF Refers, OpenRow, Row, TypeOK
  <2>3. \A t \in Source \ {s} : row'[t] = row[t]
    BY <2>1 DEF TypeOK
  <2>4. DocsOf(s) = {} /\ docs' = docs
    BY <1>2, NoDocOfOpenSource DEF Refers
  <2>. QED
    BY <2>2, <2>3, <2>4 DEF SourceMatchesDocument, DocsOf, TypeOK, Doc
<1>. QED
  BY <1>1, <1>2, HowDataGrows DEF SourceMatchesDocument, Keeps, DocsOf

-----------------------------------------------------------------------------
LEMMA IInvInit == Init => IInv
  BY NoViewType, ClockAssumption, CallsAssumption, NullAssumption
     DEF Init, IInv, TypeOK, LockOwned, ViewCurrent, RowLockKept, KindsMatch,
         SourceMatchesDocument, AtMostOneCancellation, Phase, Reply, NoCall,
         OpenRow, Row, Minute, Open, Holding, RowHolding

LEMMA IInvStep == IInv /\ [Next]_vars => IInv'
  BY TypeStep, LockStep, ViewStep, RowLockStep, KindsStep, MarkStep,
     AtMostOneStep DEF IInv

(* The parts of IInv hold in every reachable state: whatever requests and  *)
(* the ERP do, a request past its checks works on its source as it is.     *)
THEOREM Invariance == Spec => []IInv
  BY IInvInit, IInvStep, PTL DEF Spec

(* Every variable stays within its type, for any requests, sources, calls. *)
THEOREM TypeCorrect == Spec => []TypeOK
<1>1. IInv => TypeOK
  BY DEF IInv
<1>. QED
  BY <1>1, Invariance, PTL

(* No source is ever cancelled twice, by any number of concurrent calls    *)
(* and with any cancellations the ERP makes on its own.                    *)
THEOREM NeverCancelledTwice == Spec => []AtMostOneCancellation
<1>1. IInv => AtMostOneCancellation
  BY DEF IInv
<1>. QED
  BY <1>1, Invariance, PTL

(* The mark on a source and its cancellation document appear together. *)
THEOREM MarksMatchDocuments == Spec => []SourceMatchesDocument
<1>1. IInv => SourceMatchesDocument
  BY DEF IInv
<1>. QED
  BY <1>1, Invariance, PTL

(* A snapshot older than the wait for the lock is never acted on: between  *)
(* its checks and its commit a request's view of its source is current.    *)
THEOREM ChecksStillHold == Spec => []ExaminedSourceIsOpen
<1>1. IInv => ExaminedSourceIsOpen
  BY DEF IInv, ExaminedSourceIsOpen, RowLockKept, ViewCurrent, RowHolding,
         Open, Holding
<1>. QED
  BY <1>1, Invariance, PTL

-----------------------------------------------------------------------------
(* The profile relations: what becomes of them and of the snapshots.       *)

LEMMA DocsOnlyGrow ==
  ASSUME IInv, [Next]_vars
  PROVE  docs \subseteq docs' /\ \A s : DocsOf(s) \subseteq DocsOf(s)'
  BY HowDataGrows DEF IInv, Keeps, Cancels, Refers, DocsOf

LEMMA LastOnlySet ==
  ASSUME IInv, [Next]_vars, NEW s \in Source, row[s].last = 1
  PROVE  row'[s].last = 1
<1>1. ASSUME NEW d, Cancels(d) PROVE row'[s].last = 1
  BY <1>1 DEF Cancels, OpenRow, IInv, TypeOK
<1>2. ASSUME NEW t \in Source, Refers(t) PROVE row'[s].last = 1
  BY <1>2 DEF Refers, OpenRow, IInv, TypeOK
<1>. QED
  BY <1>1, <1>2, HowDataGrows DEF IInv, Keeps

LEMMA RelOnlyGrows ==
  ASSUME [Next]_vars
  PROVE  rel \subseteq rel'
<1>1. \A r \in Request : Step(r) => rel \subseteq rel'
  BY DEF Step, AcquireLock, LockTimeout, AnswerOnly, Examine, Reconcile,
         InsertHeader, DuplicateNumber, MarkSource, Commit, Respond, Rollback,
         db
<1>2. \A r \in Request : Receive(r) \/ Fail(r) \/ LoseReply(r) => rel' = rel
  BY DEF Receive, Fail, LoseReply, Rollback, db
<1>3. \A s \in Source : Environment(s) => rel' = rel
  BY DEF Environment, ErpCancel, ErpReference, TouchSource, db
<1>4. Tick \/ UNCHANGED vars => rel' = rel
  BY DEF Tick, vars, db
<1>. QED
  BY <1>1, <1>2, <1>3, <1>4 DEF Next

(* An open transaction keeps its call and what its snapshot shows. *)
LEMMA OpenKeepsView ==
  ASSUME IInv, [Next]_vars, NEW q \in Request, pc'[q] \in Open,
         ~Receive(q)
  PROVE  /\ pc[q] \in Open
         /\ call'[q] = call[q]
         /\ view'[q].docs = view[q].docs
         /\ view'[q].rel = view[q].rel
         /\ view'[q].row = view[q].row
<1>. USE DEF IInv, TypeOK, Open, Holding, Phase, db
<1>1. ASSUME NEW r \in Request, Receive(r) \/ Fail(r) \/ LoseReply(r), r # q
      PROVE  pc'[q] = pc[q] /\ call'[q] = call[q] /\ view'[q] = view[q]
  BY <1>1 DEF Receive, Fail, LoseReply, Rollback, EndTransaction
<1>2. ~Fail(q) /\ ~LoseReply(q)
  BY DEF Fail, LoseReply, Rollback
<1>3. ASSUME NEW r \in Request, Step(r), r # q
      PROVE  pc'[q] = pc[q] /\ call'[q] = call[q] /\ view'[q] = view[q]
  BY <1>3 DEF Step, AcquireLock, LockTimeout, AnswerOnly, Examine, Reconcile,
              InsertHeader, DuplicateNumber, MarkSource, Commit, Respond,
              Rollback, EndTransaction
<1>4. CASE AcquireLock(q) \/ InsertHeader(q)
  BY <1>4 DEF AcquireLock, InsertHeader
<1>5. CASE Examine(q)
  <2>1. view[q] \in View /\ view' = [view EXCEPT ![q].minute = clock]
    BY <1>5 DEF Examine
  <2>2. /\ view'[q].rel = view[q].rel
        /\ view'[q].docs = view[q].docs
        /\ view'[q].row = view[q].row
    BY <2>1 DEF View
  <2>. QED
    BY <1>5, <2>2 DEF Examine
<1>6. CASE MarkSource(q)
  BY <1>6 DEF MarkSource, Rollback
<1>7. ~LockTimeout(q) /\ ~AnswerOnly(q) /\ ~DuplicateNumber(q)
  BY DEF LockTimeout, AnswerOnly, DuplicateNumber, Rollback
<1>8. ~Reconcile(q) /\ ~Commit(q) /\ ~Respond(q)
  BY DEF Reconcile, Commit, Respond
<1>9. ASSUME NEW s \in Source, Environment(s)
      PROVE  pc' = pc /\ call' = call /\ view' = view
  BY <1>9 DEF Environment, ErpCancel, ErpReference, TouchSource
<1>10. CASE Tick \/ UNCHANGED vars
  BY <1>10 DEF Tick, vars
<1>. QED
  BY <1>1, <1>2, <1>3, <1>4, <1>5, <1>6, <1>7, <1>8, <1>9, <1>10
     DEF Next, Step

LEMMA PastStep ==
  ASSUME JInv, [Next]_vars
  PROVE  ViewOfThePast'
<1>. SUFFICES ASSUME NEW q \in Request, pc'[q] \in Open
              PROVE  /\ view'[q].docs \subseteq DocsOf(call[q].src)'
                     /\ view'[q].rel \subseteq rel'
                     /\ view'[q].row.last = 1 => row'[call'[q].src].last = 1
                     /\ \A d \in view'[q].docs :
                          d.hash # NoHash =>
                            \E x \in view'[q].rel :
                               x.kind = d.kind /\ x.no = d.no
  BY DEF ViewOfThePast, Open, Holding
<1>1. CASE Receive(q)
  <2>1. PICK c \in Calls : /\ call' = [call EXCEPT ![q] = c]
                           /\ view' = [view EXCEPT ![q] = Snapshot(c.src)]
    BY <1>1 DEF Receive
  <2>2. /\ view'[q].docs = DocsOf(c.src) /\ view'[q].rel = rel
        /\ call'[q] = c /\ view'[q].row = row[c.src]
    BY <2>1 DEF JInv, IInv, TypeOK, Snapshot
  <2>3. \A d \in DocsOf(c.src) :
          d.hash # NoHash => \E x \in rel : x.kind = d.kind /\ x.no = d.no
    BY DEF JInv, RelationsOnce, DocsOf
  <2>. QED
    BY <1>1, <2>2, <2>3 DEF Receive, DocsOf, db
<1>2. CASE ~Receive(q)
  <2>1. /\ pc[q] \in Open
        /\ call'[q] = call[q]
        /\ view'[q].docs = view[q].docs
        /\ view'[q].rel = view[q].rel
        /\ view'[q].row = view[q].row
    BY <1>2, OpenKeepsView DEF JInv
  <2>2. DocsOf(call[q].src) \subseteq {d \in docs' : d.src = call[q].src}
    BY DocsOnlyGrow DEF JInv, DocsOf
  <2>3. DocsOf(call[q].src)' = {d \in docs' : d.src = call[q].src}
    BY <2>1 DEF DocsOf
  <2>4. call[q].src \in Source
    BY CallType DEF JInv, IInv, TypeOK, Call
  <2>. QED
    BY <2>1, <2>2, <2>3, <2>4, RelOnlyGrows, LastOnlySet
       DEF JInv, ViewOfThePast
<1>. QED
  BY <1>1, <1>2

LEMMA PhaseStep ==
  ASSUME TypeOK, AnswersInPhase, [Next]_vars
  PROVE  AnswersInPhase'
<1>. USE DEF TypeOK, AnswersInPhase, db
<1>1. ASSUME NEW r \in Request, NEW a, Rollback(r, a) PROVE AnswersInPhase'
  BY <1>1 DEF Rollback
<1>2. ASSUME NEW r \in Request,
             \/ LockTimeout(r) \/ AnswerOnly(r) \/ DuplicateNumber(r) \/ Fail(r)
      PROVE  AnswersInPhase'
  BY <1>1, <1>2 DEF LockTimeout, AnswerOnly, DuplicateNumber, Fail
<1>3. ASSUME NEW r \in Request,
             \/ Receive(r) \/ AcquireLock(r) \/ Examine(r) \/ Reconcile(r)
             \/ InsertHeader(r) \/ Commit(r) \/ Respond(r) \/ LoseReply(r)
      PROVE  AnswersInPhase'
  BY <1>3 DEF Receive, AcquireLock, Examine, Reconcile, InsertHeader, Commit,
              Respond, LoseReply
<1>4. ASSUME NEW r \in Request, MarkSource(r) PROVE AnswersInPhase'
  BY <1>1, <1>4 DEF MarkSource
<1>5. ASSUME NEW s \in Source, Environment(s) PROVE AnswersInPhase'
  BY <1>5 DEF Environment, ErpCancel, ErpReference, TouchSource
<1>6. CASE Tick \/ UNCHANGED vars
  BY <1>6 DEF Tick, vars
<1>. QED
  BY <1>2, <1>3, <1>4, <1>5, <1>6 DEF Next, Step

(* The steps that commit a document or a relation, and all the others. *)
LEMMA HowRelGrows ==
  ASSUME JInv, [Next]_vars
  PROVE  \/ docs' = docs /\ rel' = rel
         \/ \E r \in Request : Commit(r)
         \/ \E s \in Source : ErpCancel(s)
<1>1. ASSUME NEW r \in Request,
             \/ AcquireLock(r) \/ LockTimeout(r) \/ AnswerOnly(r) \/ Examine(r)
             \/ InsertHeader(r) \/ DuplicateNumber(r) \/ MarkSource(r)
             \/ Respond(r) \/ LoseReply(r) \/ Fail(r) \/ Receive(r)
      PROVE  docs' = docs /\ rel' = rel
  BY <1>1 DEF AcquireLock, LockTimeout, AnswerOnly, Examine, InsertHeader,
              DuplicateNumber, MarkSource, Respond, LoseReply, Fail, Receive,
              Rollback, db
<1>2. ASSUME NEW r \in Request, Reconcile(r) PROVE docs' = docs /\ rel' = rel
  <2>1. PICK d \in view[r].docs : /\ OwnPayload(call[r], d)
                                 /\ rel' = rel \cup NewRelations(r, d.kind, d.no)
    BY <1>2 DEF Reconcile
  <2>2. HashAt(call[r], clock) \in Hash
    BY HashType DEF JInv, IInv, TypeOK
  <2>3. d.hash # NoHash
    BY <2>1, <2>2, NullAssumption DEF OwnPayload
  <2>4. \E x \in view[r].rel : x.kind = d.kind /\ x.no = d.no
    BY <1>2, <2>1, <2>3
       DEF JInv, ViewOfThePast, Reconcile, Open, Holding
  <2>5. NewRelations(r, d.kind, d.no) = {}
    BY <2>4 DEF NewRelations
  <2>. QED
    BY <1>2, <2>1, <2>5 DEF Reconcile
<1>3. ASSUME NEW s \in Source, ErpReference(s) \/ TouchSource(s)
      PROVE  docs' = docs /\ rel' = rel
  BY <1>3 DEF ErpReference, TouchSource, db
<1>4. CASE Tick \/ UNCHANGED vars
  BY <1>4 DEF Tick, vars, db
<1>. QED
  BY <1>1, <1>2, <1>3, <1>4 DEF Next, Step, Environment

LEMMA NewDocMarker ==
  ASSUME TypeOK, NEW r \in Request
  PROVE  NewDoc(r).hash # NoHash <=> call[r].profile
<1>1. HashAt(call[r], view[r].minute) \in Hash
  BY HashType DEF TypeOK, View
<1>2. call[r].profile \in BOOLEAN
  BY CallType DEF TypeOK, Call
<1>. QED
  BY <1>1, <1>2, NullAssumption DEF NewDoc

LEMMA MarkersStep ==
  ASSUME JInv, [Next]_vars
  PROVE  MarkersAreOurs'
<1>1. ASSUME NEW r \in Request, Commit(r) PROVE MarkersAreOurs'
  BY <1>1 DEF JInv, MarkersAreOurs, Commit, NewDoc
<1>2. ASSUME NEW s \in Source, ErpCancel(s) PROVE MarkersAreOurs'
  BY <1>2 DEF JInv, MarkersAreOurs, ErpCancel
<1>. QED
  BY <1>1, <1>2, HowRelGrows DEF JInv, MarkersAreOurs

Pending(r) == pc[r] \in {"inserted", "marked"}

LEMMA NumbersStep ==
  ASSUME JInv, [Next]_vars
  PROVE  NumbersOwned'
<1>. USE DEF Pending
<1>1. ASSUME NEW d, docs' = docs \cup {d}, ~NumberTaken(d.kind, d.no),
             call' = call,
             \A q \in Request :
               Pending(q)' => /\ Pending(q)
                             /\ <<call[q].kind, call[q].no>> # <<d.kind, d.no>>
      PROVE  NumbersOwned'
  BY <1>1 DEF JInv, NumbersOwned, NumberTaken
<1>2. ASSUME NEW r \in Request, Commit(r) PROVE NumbersOwned'
  <2>. DEFINE d == NewDoc(r)
  <2>1. d.kind = call[r].kind /\ d.no = call[r].no
    BY DEF NewDoc
  <2>2. ~NumberTaken(d.kind, d.no)
    BY <1>2, <2>1 DEF JInv, NumbersOwned, Commit
  <2>3. \A q \in Request : Pending(q)' => q # r /\ Pending(q)
    BY <1>2 DEF Commit, JInv, IInv, TypeOK
  <2>4. docs' = docs \cup {d} /\ call' = call /\ Pending(r)
    BY <1>2 DEF Commit
  <2>5. \A q \in Request :
          Pending(q)' => <<call[q].kind, call[q].no>> # <<d.kind, d.no>>
    BY <2>1, <2>3, <2>4 DEF JInv, NumbersOwned
  <2>. QED
    BY <1>1, <2>2, <2>3, <2>4, <2>5
<1>3. ASSUME NEW s \in Source, ErpCancel(s) PROVE NumbersOwned'
  <2>1. PICK k \in KindsOf(s), n \in DocNo :
          /\ ~NumberTaken(k, n)
          /\ ~NumberPending(k, n)
          /\ docs' = docs \cup {[kind |-> k, no |-> n, src |-> s,
                                 hash |-> NoHash, owner |-> "erp"]}
    BY <1>3 DEF ErpCancel
  <2>. DEFINE d == [kind |-> k, no |-> n, src |-> s,
                    hash |-> NoHash, owner |-> "erp"]
  <2>2. pc' = pc /\ call' = call
    BY <1>3 DEF ErpCancel
  <2>3. \A q \in Request :
          Pending(q)' => /\ Pending(q)
                        /\ <<call[q].kind, call[q].no>> # <<d.kind, d.no>>
    BY <2>1, <2>2 DEF NumberPending
  <2>. QED
    BY <1>1, <2>1, <2>2, <2>3
<1>4. ASSUME NEW r \in Request, InsertHeader(r) PROVE NumbersOwned'
  BY <1>4 DEF JInv, IInv, TypeOK, NumbersOwned, InsertHeader, NumberTaken,
              NumberPending, db
<1>5. ASSUME docs' = docs,
             \A q \in Request : Pending(q)' => Pending(q) /\ call'[q] = call[q]
      PROVE  NumbersOwned'
  BY <1>5 DEF JInv, NumbersOwned, NumberTaken
<1>6. ASSUME docs' = docs, NEW q \in Request, Pending(q)', ~InsertHeader(q)
      PROVE  Pending(q) /\ call'[q] = call[q]
  <2>1. pc'[q] \in Open /\ ~Receive(q)
    BY <1>6 DEF Open, Holding, Receive, JInv, IInv, TypeOK
  <2>2. call'[q] = call[q]
    BY <2>1, OpenKeepsView DEF JInv
  <2>. HIDE DEF Pending
  <2>3. ASSUME NEW r \in Request, Step(r) \/ Receive(r) \/ Fail(r) \/ LoseReply(r)
        PROVE  Pending(q)
    <3>. USE DEF Pending, JInv, IInv, TypeOK
    <3>1. CASE r # q
      BY <1>6, <2>3, <3>1
         DEF Step, AcquireLock, LockTimeout, AnswerOnly, Examine, Reconcile,
             InsertHeader, DuplicateNumber, MarkSource, Commit, Respond,
             Receive, Fail, LoseReply, Rollback
    <3>2. CASE r = q
      BY <1>6, <2>3, <3>2
         DEF Step, AcquireLock, LockTimeout, AnswerOnly, Examine, Reconcile,
             DuplicateNumber, MarkSource, Commit, Respond,
             Receive, Fail, LoseReply, Rollback
    <3>. QED BY <3>1, <3>2
  <2>4. CASE \/ \E s \in Source : Environment(s)
             \/ Tick \/ UNCHANGED vars
    BY <1>6, <2>4 DEF Environment, ErpCancel, ErpReference, TouchSource, Tick,
                      vars, Pending
  <2>. QED
    BY <2>2, <2>3, <2>4 DEF Next
<1>. QED
  BY <1>2, <1>3, <1>4, <1>5, <1>6, HowRelGrows

LEMMA RelationsStep ==
  ASSUME JInv, [Next]_vars
  PROVE  RelationsOnce'
<1>1. ASSUME docs' = docs, rel' = rel PROVE RelationsOnce'
  BY <1>1 DEF JInv, RelationsOnce, NumberTaken
<1>2. ASSUME NEW r \in Request, Commit(r) PROVE RelationsOnce'
  <2>. DEFINE d == NewDoc(r)
              x == [kind |-> call[r].kind, no |-> call[r].no, by |-> r]
  <2>1. d.kind = call[r].kind /\ d.no = call[r].no
    BY DEF NewDoc
  <2>2. ~NumberTaken(d.kind, d.no)
    BY <1>2, <2>1 DEF JInv, NumbersOwned, Commit
  <2>3. \A y \in rel : ~(y.kind = d.kind /\ y.no = d.no)
    BY <2>2 DEF JInv, RelationsOnce
  <2>4. NewRelations(r, call[r].kind, call[r].no) = {x}
    BY <1>2, <2>1, <2>3
       DEF JInv, ViewOfThePast, NewRelations, Commit, Open, Holding
  <2>5. docs' = docs \cup {d} /\ (d.hash # NoHash <=> call[r].profile)
    BY <1>2, NewDocMarker DEF Commit, JInv, IInv
  <2>6. CASE call[r].profile
    <3>1. rel' = rel \cup {x}
      BY <1>2, <2>4, <2>6 DEF Commit
    <3>2. x.kind = d.kind /\ x.no = d.no
      BY <2>1
    <3>3. \A y, z \in rel' : y.kind = z.kind /\ y.no = z.no => y = z
      BY <2>3, <3>1, <3>2 DEF JInv, RelationsOnce
    <3>4. \A e \in docs : ~(e.kind = x.kind /\ e.no = x.no)
      BY <2>2, <3>2 DEF NumberTaken
    <3>5. \A e \in docs' :
            e.hash # NoHash <=> \E y \in rel' : y.kind = e.kind /\ y.no = e.no
      <4>1. ASSUME NEW e \in docs
            PROVE  e.hash # NoHash <=> \E y \in rel' : y.kind = e.kind /\ y.no = e.no
        <5>1. e.hash # NoHash <=> \E y \in rel : y.kind = e.kind /\ y.no = e.no
          BY DEF JInv, RelationsOnce
        <5>. QED
          BY <3>1, <3>4, <5>1
      <4>2. d.hash # NoHash
        BY <2>5, <2>6
      <4>3. \E y \in rel' : y.kind = d.kind /\ y.no = d.no
        BY <3>1, <3>2
      <4>. HIDE DEF d, x
      <4>. QED
        BY <2>5, <4>1, <4>2, <4>3
    <3>6. \A y \in rel' : \E e \in docs' : e.kind = y.kind /\ e.no = y.no
      BY <2>5, <3>1, <3>2 DEF JInv, RelationsOnce, NumberTaken
    <3>. QED
      BY <3>3, <3>5, <3>6 DEF RelationsOnce, NumberTaken
  <2>7. CASE ~call[r].profile
    <3>1. rel' = rel
      BY <1>2, <2>7 DEF Commit
    <3>. QED
      BY <2>2, <2>3, <2>5, <2>7, <3>1 DEF JInv, RelationsOnce, NumberTaken
  <2>. QED BY <2>6, <2>7
<1>3. ASSUME NEW s \in Source, ErpCancel(s) PROVE RelationsOnce'
  BY <1>3 DEF JInv, RelationsOnce, NumberTaken, ErpCancel
<1>. QED
  BY <1>1, <1>2, <1>3, HowRelGrows

-----------------------------------------------------------------------------
(* An answer to r is true of the documents ds. *)
TrueOf(r, a, ds) ==
  /\ a = "created" =>
       \E d \in ds :
         /\ d.src = call[r].src
         /\ d.kind = call[r].kind /\ d.no = call[r].no /\ d.owner = "api"
         /\ (d.hash # NoHash) = call[r].profile
  /\ a = "already_exists" =>
       \E d \in ds :
         /\ d.src = call[r].src
         /\ d.kind = call[r].kind
         /\ call[r].profile => /\ d.owner = "api"
                               /\ d.hash.intent = call[r].intent

LEMMA TruthOfAnswers ==
  AnswersAreTrue <=> \A r \in Request : TrueOf(r, reply[r], docs)
  BY DEF AnswersAreTrue, TrueOf, DocsOf

(* "already_exists" is concluded from a document of the snapshot. *)
LEMMA VerdictIsTrue ==
  ASSUME JInv, NEW r \in Request, pc[r] = "locked"
  PROVE  TrueOf(r, VerdictOf(r), docs)
<1>. DEFINE c == call[r]
            v == view[r]
<1>1. VerdictOf(r) # "created"
  BY DEF VerdictOf, OrderVerdict, InvoiceVerdict, ExistingVerdict
<1>2. ASSUME VerdictOf(r) = "already_exists"
      PROVE  \E d \in Mine(c, v) : c.profile => OwnPayload(c, d)
  BY <1>2 DEF VerdictOf, OrderVerdict, InvoiceVerdict, ExistingVerdict
<1>3. ASSUME VerdictOf(r) = "already_exists"
      PROVE  \E d \in docs :
               /\ d.src = c.src
               /\ d.kind = c.kind
               /\ c.profile => d.owner = "api" /\ d.hash.intent = c.intent
  <2>1. PICK d \in Mine(c, v) : c.profile => OwnPayload(c, d)
    BY <1>2, <1>3
  <2>2. d \in docs /\ d.src = c.src /\ d.kind = c.kind
    BY <2>1 DEF Mine, JInv, ViewOfThePast, DocsOf, Open, Holding
  <2>3. c.profile => d.hash # NoHash /\ d.hash.intent = c.intent
    <3>1. HashAt(c, clock) \in Hash /\ HashAt(c, clock).intent = c.intent
      BY HashType DEF JInv, IInv, TypeOK, HashAt
    <3>. QED
      BY <2>1, <3>1, NullAssumption DEF OwnPayload
  <2>. QED
    BY <2>2, <2>3 DEF JInv, MarkersAreOurs
<1>. QED
  BY <1>1, <1>3 DEF TrueOf

LEMMA AnswersStep ==
  ASSUME JInv, [Next]_vars
  PROVE  AnswersAreTrue'
<1>. USE DEF JInv, IInv, TypeOK, db
<1>. SUFFICES ASSUME NEW q \in Request PROVE TrueOf(q, reply[q], docs)'
  BY DEF AnswersAreTrue, TrueOf, DocsOf
<1>0. docs \subseteq docs'
  BY DocsOnlyGrow
<1>1. TrueOf(q, reply[q], docs)
  BY TruthOfAnswers
<1>2. CASE reply'[q] \notin {"created", "already_exists"}
  BY <1>2 DEF TrueOf
<1>3. CASE call'[q] = call[q] /\ reply'[q] = reply[q]
  BY <1>0, <1>1, <1>3 DEF TrueOf
<1>4. ASSUME call'[q] = call[q], reply'[q] = VerdictOf(q), pc[q] = "locked"
      PROVE  TrueOf(q, reply[q], docs)'
  <2>1. TrueOf(q, VerdictOf(q), docs)
    BY <1>4, VerdictIsTrue
  <2>. QED
    BY <1>0, <1>4, <2>1 DEF TrueOf
<1>5. CASE AnswerOnly(q)
  BY <1>4, <1>5 DEF AnswerOnly, Rollback
<1>6. CASE Reconcile(q)
  BY <1>4, <1>6 DEF Reconcile
<1>7. CASE Commit(q)
  <2>1. /\ NewDoc(q).src = call[q].src /\ NewDoc(q).kind = call[q].kind
        /\ NewDoc(q).no = call[q].no /\ NewDoc(q).owner = "api"
    BY DEF NewDoc
  <2>2. call[q].profile \in BOOLEAN
    BY CallType DEF Call
  <2>3. (NewDoc(q).hash # NoHash) = call[q].profile
    BY <2>2, NewDocMarker
  <2>4. NewDoc(q) \in docs' /\ call' = call /\ reply'[q] = "created"
    BY <1>7 DEF Commit
  <2>. QED
    BY <2>1, <2>3, <2>4 DEF TrueOf
<1>8. CASE \E r \in Request \ {q} : Step(r) \/ Receive(r) \/ Fail(r) \/ LoseReply(r)
  BY <1>3, <1>8
     DEF Step, AcquireLock, LockTimeout, AnswerOnly, Examine, Reconcile,
         InsertHeader, DuplicateNumber, MarkSource, Commit, Respond,
         Receive, Fail, LoseReply, Rollback
<1>9. CASE Receive(q)
  <2>1. reply'[q] = "none"
    BY <1>9 DEF Receive, AnswersInPhase
  <2>. QED BY <1>2, <2>1
<1>10. CASE AcquireLock(q) \/ Examine(q) \/ InsertHeader(q) \/ Respond(q)
  BY <1>3, <1>10 DEF AcquireLock, Examine, InsertHeader, Respond
<1>11. CASE LockTimeout(q) \/ DuplicateNumber(q) \/ LoseReply(q) \/ Fail(q)
  BY <1>2, <1>11 DEF LockTimeout, DuplicateNumber, LoseReply, Fail, Rollback
<1>12. CASE MarkSource(q)
  BY <1>2, <1>3, <1>12 DEF MarkSource, Rollback
<1>13. CASE \E s \in Source : Environment(s)
  BY <1>3, <1>13 DEF Environment, ErpCancel, ErpReference, TouchSource
<1>14. CASE Tick \/ UNCHANGED vars
  BY <1>3, <1>14 DEF Tick, vars
<1>. QED
  BY <1>5, <1>6, <1>7, <1>8, <1>9, <1>10, <1>11, <1>12, <1>13, <1>14
     DEF Next, Step

LEMMA JInvInit == Init => JInv
<1>1. Init => /\ ViewOfThePast /\ NumbersOwned /\ AnswersInPhase
              /\ MarkersAreOurs /\ RelationsOnce /\ AnswersAreTrue
  BY DEF Init, ViewOfThePast, NumbersOwned, AnswersInPhase, MarkersAreOurs,
         RelationsOnce, AnswersAreTrue, Open, Holding
<1>. QED
  BY <1>1, IInvInit DEF JInv

LEMMA JInvStep == JInv /\ [Next]_vars => JInv'
<1>1. JInv /\ [Next]_vars => IInv'
  BY IInvStep DEF JInv
<1>2. JInv /\ [Next]_vars => AnswersInPhase'
  BY PhaseStep DEF JInv, IInv
<1>. QED
  BY <1>1, <1>2, PastStep, NumbersStep, MarkersStep, RelationsStep,
     AnswersStep DEF JInv

LEMMA JInvariance == Spec => []JInv
  BY JInvInit, JInvStep, PTL DEF Spec

(* However often a call is repeated, each profile document made here has   *)
(* its relations exactly once, and no other document has any.              *)
THEOREM RelationsWrittenOnce == Spec => []RelationsOnce
<1>1. JInv => RelationsOnce
  BY DEF JInv
<1>. QED
  BY <1>1, JInvariance, PTL

(* Nobody is told of a cancellation that is not there, or is another's. *)
THEOREM OnlyTrueAnswers == Spec => []AnswersAreTrue
<1>1. JInv => AnswersAreTrue
  BY DEF JInv
<1>. QED
  BY <1>1, JInvariance, PTL

-----------------------------------------------------------------------------
(* What one request does looks like one step of CancelOnce, or like none.  *)
LEMMA OnceStep ==
  ASSUME JInv, [Next]_vars
  PROVE  [Once!Next]_<<outcomeBar, answerBar>>
<1>. USE DEF JInv, IInv, TypeOK, db
<1>. DEFINE Same == UNCHANGED <<outcomeBar, answerBar>>
<1>0. \A r \in Request : call[r] \in Call /\ call[r].src \in Source
  BY CallType DEF Call
<1>1. ASSUME docs' = docs, reply' = reply PROVE Same
  BY <1>1 DEF outcomeBar, answerBar, DocsOf
<1>2. ASSUME NEW r \in Request, NEW a \in Refusal, docs' = docs,
             reply[r] = "none", reply' = [reply EXCEPT ![r] = a]
      PROVE  Once!Refuse(r)
  BY <1>2 DEF Once!Refuse, outcomeBar, answerBar, DocsOf, Refusal
<1>3. ASSUME NEW r \in Request, docs' = docs, reply[r] = "none",
             pc[r] = "locked", VerdictOf(r) = "already_exists",
             reply' = [reply EXCEPT ![r] = "already_exists"]
      PROVE  Once!Confirm(r, call[r].src)
  <2>1. \E d \in docs : d.src = call[r].src
    BY <1>3, VerdictIsTrue DEF TrueOf
  <2>2. outcomeBar[call[r].src] # {}
    BY <1>0, <2>1 DEF outcomeBar, DocsOf
  <2>. QED
    BY <1>3, <2>2 DEF Once!Confirm, outcomeBar, answerBar, DocsOf, Refusal
<1>4. ASSUME NEW d, Cancels(d) PROVE Once!Cancelled(d.src, d) /\ d \in Doc
  <2>1. d \in Doc /\ d.src \in Source /\ docs' = docs \cup {d}
    BY <1>4 DEF Cancels, Doc
  <2>2. DocsOf(d.src) = {} /\ DocsOf(d.src)' = {d}
    BY <1>4, <2>1 DEF Cancels, DocsOf
  <2>3. \A s \in Source : s # d.src => DocsOf(s)' = DocsOf(s)
    BY <2>1 DEF DocsOf
  <2>4. /\ outcomeBar = [s \in Source |-> DocsOf(s)]
        /\ outcomeBar' = [s \in Source |-> DocsOf(s)']
    BY DEF outcomeBar, DocsOf
  <2>. QED
    BY <2>1, <2>2, <2>3, <2>4 DEF Once!Cancelled
<1>5. ASSUME NEW r \in Request, Receive(r) PROVE Same
  BY <1>1, <1>5 DEF Receive
<1>6. ASSUME NEW r \in Request,
             \/ AcquireLock(r) \/ Examine(r) \/ InsertHeader(r) \/ Respond(r)
      PROVE  Same
  BY <1>1, <1>6 DEF AcquireLock, Examine, InsertHeader, Respond
<1>7. ASSUME NEW r \in Request,
             LockTimeout(r) \/ DuplicateNumber(r) \/ Fail(r)
      PROVE  Once!Refuse(r)
  BY <1>2, <1>7 DEF LockTimeout, DuplicateNumber, Fail, Rollback, Refusal,
                    Reply, AnswersInPhase, Open, Holding
<1>8. ASSUME NEW r \in Request, AnswerOnly(r) PROVE Once!Next
  <2>1. /\ docs' = docs /\ reply[r] = "none" /\ pc[r] = "locked"
        /\ reply' = [reply EXCEPT ![r] = VerdictOf(r)]
    BY <1>8 DEF AnswerOnly, Rollback, AnswersInPhase
  <2>2. VerdictOf(r) \in Refusal \cup {"already_exists"}
    BY DEF VerdictOf, OrderVerdict, InvoiceVerdict, ExistingVerdict, Refusal,
           Reply
  <2>. QED
    BY <1>0, <1>2, <1>3, <2>1, <2>2 DEF Once!Next
<1>9. ASSUME NEW r \in Request, Reconcile(r) PROVE Once!Next
  BY <1>0, <1>3, <1>9 DEF Reconcile, AnswersInPhase, Once!Next
<1>10. ASSUME NEW r \in Request, MarkSource(r) PROVE Same \/ Once!Refuse(r)
  <2>1. CASE reply' = reply /\ docs' = docs
    BY <1>1, <2>1
  <2>2. CASE \E a \in Refusal : Rollback(r, a)
    BY <1>2, <1>10, <2>2 DEF MarkSource, Rollback, AnswersInPhase
  <2>. QED
    BY <1>10, <2>1, <2>2 DEF MarkSource, Refusal, Reply
<1>11. ASSUME NEW r \in Request, Commit(r) PROVE Once!Next
  <2>1. /\ NewDoc(r).kind \in KindsOf(NewDoc(r).src)
        /\ NewDoc(r).kind = call[r].kind /\ NewDoc(r).src = call[r].src
    BY CallsAssumption DEF NewDoc
  <2>2. Cancels(NewDoc(r))
    BY <1>11, <2>1, NewDocType DEF Commit, Cancels, RowLockKept, RowHolding
  <2>3. /\ answerBar[r] = "none"
        /\ answerBar' = [answerBar EXCEPT ![r] = "created"]
    BY <1>11 DEF Commit, answerBar, AnswersInPhase, Refusal
  <2>4. Once!Create(r, call[r].src)
    BY <1>4, <2>1, <2>2, <2>3 DEF Once!Create
  <2>. QED
    BY <1>0, <2>4 DEF Once!Next
<1>12. ASSUME NEW r \in Request, LoseReply(r) PROVE Once!Lose(r)
  BY <1>12 DEF LoseReply, Once!Lose, AnswersInPhase, outcomeBar, answerBar,
               DocsOf, Refusal
<1>13. ASSUME NEW s \in Source, ErpCancel(s) PROVE Once!Elsewhere(s)
  <2>1. PICK k \in KindsOf(s), n \in DocNo :
          /\ docs' = docs \cup {[kind |-> k, no |-> n, src |-> s,
                                 hash |-> NoHash, owner |-> "erp"]}
          /\ row' = [row EXCEPT ![s] = Marked(k, @)]
    BY <1>13 DEF ErpCancel
  <2>. DEFINE d == [kind |-> k, no |-> n, src |-> s,
                    hash |-> NoHash, owner |-> "erp"]
  <2>2. d \in Doc /\ d.kind = k /\ d.src = s
    BY KindsOfType DEF Doc
  <2>3. Cancels(d)
    BY <1>13, <2>1, <2>2, NoDocOfOpenSource DEF ErpCancel, Cancels
  <2>4. Once!Cancelled(s, d) /\ d \in Doc
    BY <1>4, <2>2, <2>3
  <2>5. answerBar' = answerBar
    BY <1>13 DEF ErpCancel, answerBar
  <2>. QED
    BY <2>4, <2>5 DEF Once!Elsewhere
<1>14. ASSUME NEW s \in Source, ErpReference(s) \/ TouchSource(s) PROVE Same
  BY <1>1, <1>14 DEF ErpReference, TouchSource
<1>15. CASE Tick \/ UNCHANGED vars
  BY <1>1, <1>15 DEF Tick, vars
<1>. QED
  BY <1>5, <1>6, <1>7, <1>8, <1>9, <1>10, <1>11, <1>12, <1>13, <1>14, <1>15
     DEF Next, Step, Environment, Once!Next

(* The transactions implement the one-step promise: a source is cancelled  *)
(* by one document and for good, and the answers agree with it.            *)
THEOREM ImplementsCancelOnce == Spec => CancelledOnce
<1>1. Init => Once!Init
  BY DEF Init, Once!Init, outcomeBar, answerBar, DocsOf, Refusal
<1>. QED
  BY <1>1, OnceStep, JInvariance, PTL DEF Spec, CancelledOnce, Once!Spec

-----------------------------------------------------------------------------
(* The document a repeated call made decides its verdict, whatever has     *)
(* become of the source.                                                   *)
LEMMA RetryVerdict ==
  ASSUME JInv, NEW r \in Request, pc[r] = "locked",
         call[r].profile, call[r].timed,
         NEW d \in view[r].docs, d.kind = call[r].kind, d.no = call[r].no,
         d.hash = HashAt(call[r], 0)
  PROVE  VerdictOf(r) \in {"already_exists", "serialization_failure"}
<1>. DEFINE c == call[r]
            v == view[r]
<1>1. c \in Calls /\ c.src \in Source /\ c.kind \in KindsOf(c.src)
  BY CallsAssumption DEF JInv, IInv, TypeOK, Call
<1>2. HashAt(c, 0) = HashAt(c, clock) /\ HashAt(c, 0) # NoHash
  <2>1. 0 \in Minute
    BY ClockAssumption DEF Minute
  <2>2. HashAt(c, 0) \in Hash
    BY <1>1, <2>1, HashType
  <2>. QED
    BY <2>2, NullAssumption DEF HashAt
<1>3. v.docs = {d}
  BY DEF JInv, IInv, ViewOfThePast, AtMostOneCancellation, DocsOf, Open, Holding
<1>4. Mine(c, v) = {d} /\ OwnPayload(c, d)
  BY <1>2, <1>3 DEF Mine, OwnPayload
<1>5. \A conflict \in BOOLEAN :
        InvoiceVerdict(c, v, conflict)
          \in {"already_exists", "serialization_failure"}
  BY <1>2, <1>4 DEF InvoiceVerdict, ExistingVerdict
<1>6. CASE c.kind # "ssc"
  <2>1. (missed[r] /\ ~c.preview) \in BOOLEAN
    OBVIOUS
  <2>. QED
    BY <1>5, <1>6, <2>1 DEF VerdictOf
<1>7. CASE c.kind = "ssc"
  <2>1. v.row.last # 1
    <3>1. c.src \notin Invoice
      BY <1>1, <1>7 DEF KindsOf
    <3>2. row[c.src].last # 1
      BY <1>1, <3>1 DEF JInv, IInv, SourceMatchesDocument, KindsMatch, KindsOf,
                        DocsOf
    <3>. QED
      BY <3>2 DEF JInv, ViewOfThePast, Open, Holding
  <2>2. \A conflict \in BOOLEAN :
          OrderVerdict(c, v, conflict)
            \in {"already_exists", "serialization_failure"}
    BY <1>2, <1>4, <2>1 DEF OrderVerdict, ExistingVerdict
  <2>3. (missed[r] /\ ~c.preview) \in BOOLEAN
    OBVIOUS
  <2>. QED
    BY <1>7, <2>2, <2>3 DEF VerdictOf
<1>. QED
  BY <1>6, <1>7

(* A retry that names its date and time is recognised, for any number of   *)
(* requests and whatever the ERP does to the source in between.            *)
THEOREM RetriesRecognised == Spec => RetryRecognised
<1>. DEFINE Recognised ==
       \A r \in Request :
         /\ pc[r] = "locked" /\ pc'[r] \in {"examined", "committed", "done"}
         /\ call[r].profile /\ call[r].timed
         /\ \E d \in view[r].docs : /\ d.kind = call[r].kind
                                    /\ d.no = call[r].no
                                    /\ d.hash = HashAt(call[r], 0)
         => reply'[r] \in {"already_exists", "serialization_failure",
                           "internal_error"}
<1>1. JInv /\ [Next]_vars => [Recognised]_vars
  <2>. SUFFICES ASSUME JInv, Next,
                       NEW r \in Request,
                       pc[r] = "locked",
                       pc'[r] \in {"examined", "committed", "done"},
                       call[r].profile, call[r].timed,
                       NEW d \in view[r].docs,
                       d.kind = call[r].kind, d.no = call[r].no,
                       d.hash = HashAt(call[r], 0)
                PROVE  reply'[r] \in {"already_exists", "internal_error",
                                      "serialization_failure"}
    OBVIOUS
  <2>. USE DEF JInv, IInv, TypeOK
  <2>1. VerdictOf(r) \in {"already_exists", "serialization_failure"}
    BY RetryVerdict
  <2>2. AnswerOnly(r) \/ Examine(r) \/ Reconcile(r) \/ Fail(r)
    <3>1. ASSUME NEW q \in Request \ {r},
                 Step(q) \/ Receive(q) \/ Fail(q) \/ LoseReply(q)
          PROVE  FALSE
      BY <3>1 DEF Step, AcquireLock, LockTimeout, AnswerOnly, Examine,
                  Reconcile, InsertHeader, DuplicateNumber, MarkSource, Commit,
                  Respond, Receive, Fail, LoseReply, Rollback
    <3>2. ~\E s \in Source : Environment(s)
      BY DEF Environment, ErpCancel, ErpReference, TouchSource
    <3>3. ~Tick
      BY DEF Tick
    <3>. QED
      BY <3>1, <3>2, <3>3
         DEF Next, Step, AcquireLock, LockTimeout, InsertHeader,
             DuplicateNumber, MarkSource, Commit, Respond, Receive, LoseReply
  <2>3. CASE AnswerOnly(r)
    BY <2>1, <2>3 DEF AnswerOnly, Rollback
  <2>4. CASE Examine(r)
    BY <2>1, <2>4 DEF Examine
  <2>5. CASE Reconcile(r) \/ Fail(r)
    BY <2>5 DEF Reconcile, Fail, Rollback
  <2>. QED
    BY <2>2, <2>3, <2>4, <2>5
<1>. QED
  BY <1>1, JInvariance, PTL DEF Spec, RetryRecognised

(* No source is cancelled twice, and nobody acts on a stale view of it.    *)
THEOREM SourcesStaySafe == Spec => []SourcesAreSafe
BY NeverCancelledTwice, ChecksStillHold, PTL DEF SourcesAreSafe

-----------------------------------------------------------------------------
(* Who waits for whom.  A request waits for the advisory lock of its       *)
(* source, for the row of the source, or for the number of its document.   *)
WaitsFor(r, q) ==
  \/ pc[r] = "waiting" /\ lock[call[r].src] = q
  \/ /\ pc[r] = "locked" /\ q # r
     /\ pc[q] \in RowHolding /\ call[q].src = call[r].src
  \/ /\ pc[r] = "examined"
     /\ pc[q] \in {"inserted", "marked"}
     /\ call[q].kind = call[r].kind /\ call[q].no = call[r].no

(* Whoever is waited for waits for one other request at most, and that one *)
(* for nobody: there is no circle of requests that wait for one another,   *)
(* although one that holds the lock of a source waits for a number.        *)
NobodyWaitsInACircle ==
  \A r, p, q \in Request :
    WaitsFor(r, p) /\ WaitsFor(p, q) => \A o \in Request : ~WaitsFor(q, o)

(* The requests of one source never meet at its row: the advisory lock is  *)
(* taken before it, so FOR UPDATE waits for the ERP only.                  *)
NobodyWaitsForARow ==
  \A r, q \in Request :
    WaitsFor(r, q) => pc[r] # "locked"

(* Handlers that take two locks and a number never deadlock: the order is  *)
(* lock, row, number, and the last holder commits without waiting          *)
(* (cancel_invoice.go:81 and 538).                                         *)
THEOREM WaitsComeToAnEnd ==
  Spec => [](NobodyWaitsInACircle /\ NobodyWaitsForARow)
<1>1. ASSUME IInv
      PROVE  NobodyWaitsInACircle /\ NobodyWaitsForARow
  <2>1. TypeOK /\ LockOwned
    BY <1>1 DEF IInv
  <2>2. ASSUME NEW r \in Request, NEW q \in Request, WaitsFor(r, q)
        PROVE  /\ pc[r] \in {"waiting", "examined"}
               /\ pc[r] = "waiting" => pc[q] \in Holding
               /\ pc[r] = "examined" => pc[q] \in {"inserted", "marked"}
    <3>1. pc[r] # "locked"
      BY <2>1, <2>2, OneHolder DEF WaitsFor, Holding, RowHolding
    <3>2. call[r].src \in Source
      BY <2>1, CallType DEF TypeOK, Call
    <3>3. pc[r] = "waiting" => pc[q] \in Holding
      BY <2>1, <2>2, <3>2 DEF WaitsFor, LockOwned
    <3>. QED
      BY <2>2, <3>1, <3>3 DEF WaitsFor
  <2>3. NobodyWaitsForARow
    BY <2>2 DEF NobodyWaitsForARow
  <2>4. ASSUME NEW r \in Request, NEW p \in Request, NEW q \in Request,
               WaitsFor(r, p), WaitsFor(p, q), NEW o \in Request
        PROVE  ~WaitsFor(q, o)
    <3>1. pc[p] = "examined"
      BY <2>2, <2>4 DEF Holding
    <3>. QED
      BY <2>2, <2>4, <3>1
  <2>. QED
    BY <2>3, <2>4 DEF NobodyWaitsInACircle
<1>. QED
  BY <1>1, Invariance, PTL
=============================================================================
