--------------------------- MODULE ErpLog_proofs ---------------------------
(***************************************************************************)
(* Proofs about ErpLog, for any sets of calls, documents and payloads, and *)
(* about DetailDiff, for snapshots of any length.                          *)
(*                                                                         *)
(* The argument: a call that has decided what to write holds the advisory  *)
(* lock of its document, so nobody changes the rows it decided on before   *)
(* it commits (VerdictHolds); and a row is only added where there is none. *)
(* Hence a commit is the one step of LogOnce that its status tells of.     *)
(* No two lines of a snapshot have one key (KeysTellLinesApart), so        *)
(* without a difference each line has its like in the other snapshot.      *)
(***************************************************************************)
EXTENDS ErpLog, DetailDiff, FiniteSetTheorems, SequenceTheorems, TLAPS

(* A call between its lock and its commit owns the lock of its document. *)
LockHeld == \A r \in Request : stage[r] \in {"locked", "written"}
                                  => lock[KeyOf(r)] = r

(* What a call decided to do still fits the rows. *)
VerdictHolds == \A r \in Request : stage[r] = "written"
                   => status[r] = Verdict(job[r], logs[KeyOf(r)])

IInv == TypeOK /\ LockHeld /\ VerdictHolds /\ OneLogRow /\ StatusIsTrue

-----------------------------------------------------------------------------
(* Facts about one row and one sequence of rows. *)
Rows == {s \in Seq(LogRow) : Len(s) <= 1}

LEMMA AtMostOne ==
  ASSUME NEW s \in Rows
  PROVE  s = <<>> \/ (s # <<>> /\ Len(s) = 1 /\ DOMAIN s = {1} /\ Head(s) = s[1]
                      /\ s[1] \in LogRow)
BY DEF Rows

(* A call decides to add a row only where there is none, to fill one in    *)
(* only if it has no content, and to do nothing only if its row is there.  *)
LEMMA VerdictMeans ==
  ASSUME NEW j \in Job, NEW s \in Rows
  PROVE  /\ Verdict(j, s) \in {"created", "updated", "skipped"}
         /\ Verdict(j, s) = "created" => s = <<>>
         /\ Verdict(j, s) = "updated" => s # <<>> /\ ~HasData(s[1]) /\ j.profile
         /\ Verdict(j, s) = "skipped" => s # <<>> /\ (j.profile => HasData(s[1]))
BY AtMostOne DEF Verdict, Duplicate, Fillable, Job

(* What the commit of a decided call leaves. *)
LEMMA AfterMeans ==
  ASSUME TypeOK, NEW r \in Request, NEW s \in Rows, job[r] \in Job,
         status[r] = Verdict(job[r], s)
  PROVE  /\ After(r, s) \in Rows
         /\ After(r, s) # <<>>
         /\ job[r].profile => HasData(Head(After(r, s)))
         /\ status[r] = "created" => Head(After(r, s)).by = r
         /\ s # <<>> =>
              /\ After(r, s)[1].by = s[1].by
              /\ HasData(s[1]) => After(r, s)[1] = s[1]
<1>1. CASE status[r] = "created"
  <2>1. s = <<>>
    BY <1>1, VerdictMeans
  <2>2. DataOf(job[r]) \in Body \cup {NoBody}
    BY DEF DataOf, Job
  <2>3. After(r, s) = <<[by |-> r, data |-> DataOf(job[r])]>>
    BY <1>1, <2>1 DEF After
  <2> DEFINE row == [by |-> r, data |-> DataOf(job[r])]
  <2>4. row \in LogRow /\ row.by = r /\ row.data = DataOf(job[r])
    BY <2>2 DEF LogRow
  <2>5. job[r].profile => HasData(row)
    BY <2>4, NoneAssumption DEF HasData, DataOf, Job
  <2> HIDE DEF row
  <2>6. /\ <<row>> \in Seq(LogRow) /\ Len(<<row>>) = 1 /\ Head(<<row>>) = row
        /\ <<row>> # <<>>
    BY <2>4
  <2>7. After(r, s) = <<row>>
    BY <2>3 DEF row
  <2>8. After(r, s) \in Rows /\ After(r, s) # <<>> /\ Head(After(r, s)) = row
    BY <2>6, <2>7 DEF Rows
  <2> QED
    BY <2>1, <2>4, <2>5, <2>8
<1>2. CASE status[r] = "updated"
  <2>1. s # <<>> /\ ~HasData(s[1]) /\ job[r].profile
    BY <1>2, VerdictMeans
  <2>2. DOMAIN s = {1} /\ Len(s) = 1 /\ s[1] \in LogRow
    BY <2>1, AtMostOne
  <2>3. After(r, s) = [s EXCEPT ![1].data = job[r].body]
    BY <1>2 DEF After
  <2>4. job[r].body \in Body
    BY DEF Job
  <2> DEFINE row == [s[1] EXCEPT !.data = job[r].body]
  <2>a. row \in LogRow
    BY <2>2, <2>4 DEF LogRow
  <2> HIDE DEF row
  <2>b. After(r, s) = [s EXCEPT ![1] = row]
    BY <2>3 DEF row
  <2>d. s \in Seq(LogRow) /\ 1 \in 1..Len(s)
    BY <2>2 DEF Rows
  <2>c. [s EXCEPT ![1] = row] \in Seq(LogRow) /\ Len([s EXCEPT ![1] = row]) = 1
        /\ [s EXCEPT ![1] = row][1] = row
    BY <2>2, <2>a, <2>d, ExceptSeq
  <2>5. After(r, s) \in Seq(LogRow) /\ Len(After(r, s)) = 1
        /\ After(r, s)[1] = [s[1] EXCEPT !.data = job[r].body]
    BY <2>b, <2>c DEF row
  <2>6. Head(After(r, s)) = After(r, s)[1] /\ After(r, s) # <<>>
    BY <2>5
  <2> QED
    BY <1>2, <2>1, <2>2, <2>4, <2>5, <2>6, NoneAssumption DEF Rows, LogRow, HasData
<1>3. CASE status[r] = "skipped"
  <2>1. After(r, s) = s
    BY <1>3 DEF After
  <2> QED
    BY <1>3, <2>1, VerdictMeans, AtMostOne
<1> QED
  BY <1>1, <1>2, <1>3, VerdictMeans

-----------------------------------------------------------------------------
LEMMA InitInv == Init => IInv
<1> SUFFICES ASSUME Init PROVE IInv
  OBVIOUS
<1>1. (CHOOSE j \in Jobs : TRUE) \in Jobs
  BY JobsAssumption
<1>2. TypeOK
  BY <1>1 DEF Init, TypeOK, Stage, Status
<1> QED
  BY <1>2 DEF Init, IInv, LockHeld, VerdictHolds, OneLogRow, StatusIsTrue, Settled

(* The rows of every document, as the lemmas above need them. *)
LEMMA RowsOf ==
  ASSUME IInv, NEW k \in Key
  PROVE  logs[k] \in Rows
BY DEF IInv, TypeOK, OneLogRow, Rows

LEMMA JobsAreJobs ==
  ASSUME TypeOK, NEW r \in Request
  PROVE  job[r] \in Job /\ KeyOf(r) \in Key
BY JobsAssumption DEF TypeOK, Job, KeyOf

(* Both ways a commit can end: with its status, or with a warning. *)
Committed(r) ==
  /\ stage[r] = "written"
  /\ logs' = [logs EXCEPT ![KeyOf(r)] = After(r, @)]
  /\ stage' = [stage EXCEPT ![r] = "decided"]
  /\ status' \in {status, [status EXCEPT ![r] = "warning"]}
  /\ Release(r)
  /\ UNCHANGED <<job, cache>>

LEMMA CommitsCommit ==
  ASSUME TypeOK, NEW r \in Request, Commit(r) \/ CommitUnheard(r)
  PROVE  Committed(r)
BY DEF Commit, CommitUnheard, Committed, TypeOK

LEMMA CommittedInv ==
  ASSUME IInv, NEW r \in Request, Committed(r)
  PROVE  IInv'
<1> USE DEF Committed
<1>a. TypeOK /\ LockHeld /\ VerdictHolds /\ OneLogRow /\ StatusIsTrue
  BY DEF IInv
<1> DEFINE k == KeyOf(r)
           s == logs[k]
<1>1. job[r] \in Job /\ k \in Key /\ s \in Rows
  BY JobsAreJobs, RowsOf, <1>a
<1>2. status[r] = Verdict(job[r], s)
  BY <1>a DEF VerdictHolds
<1>3. /\ After(r, s) \in Rows
      /\ After(r, s) # <<>>
      /\ job[r].profile => HasData(Head(After(r, s)))
      /\ status[r] = "created" => Head(After(r, s)).by = r
      /\ s # <<>> => /\ After(r, s)[1].by = s[1].by
                     /\ HasData(s[1]) => After(r, s)[1] = s[1]
  BY <1>1, <1>2, <1>a, AfterMeans
<1>4. logs' = [logs EXCEPT ![k] = After(r, s)]
  BY <1>1, <1>a DEF TypeOK
<1> HIDE DEF k, s
<1>5. /\ logs'[k] = After(r, s)
      /\ \A q \in Key : q # k => logs'[q] = logs[q]
  BY <1>1, <1>4, <1>a DEF TypeOK
<1>6. TypeOK'
  <2>1. logs' \in [Key -> Seq(LogRow)]
    BY <1>1, <1>3, <1>4, <1>a DEF TypeOK, Rows
  <2>2. lock' \in [Key -> Request \cup {NoRequest}]
    BY <1>a DEF Release, TypeOK
  <2>3. stage' \in [Request -> Stage] /\ status' \in [Request -> Status]
    BY <1>a DEF TypeOK, Stage, Status
  <2> QED
    BY <2>1, <2>2, <2>3, <1>a DEF TypeOK
<1>7. \A q \in Request : stage[q] \in {"locked", "written"} /\ KeyOf(q) = k => q = r
  BY <1>1, <1>a DEF LockHeld, k
<1>8. LockHeld'
  BY <1>a, JobsAreJobs DEF LockHeld, Release, TypeOK, KeyOf
<1>9. VerdictHolds'
  <2> SUFFICES ASSUME NEW q \in Request, stage'[q] = "written"
               PROVE  status'[q] = Verdict(job'[q], logs'[KeyOf(q)'])
    BY DEF VerdictHolds
  <2>1. q # r /\ stage[q] = "written"
    BY <1>a DEF TypeOK
  <2>2. KeyOf(q) # k
    BY <2>1, <1>7
  <2>3. KeyOf(q)' = KeyOf(q) /\ KeyOf(q) \in Key /\ job'[q] = job[q]
    BY <1>a, JobsAreJobs DEF KeyOf
  <2>4. status'[q] = status[q]
    BY <2>1, <1>a DEF TypeOK
  <2> QED
    BY <2>1, <2>2, <2>3, <2>4, <1>5, <1>a DEF VerdictHolds
<1>10. OneLogRow'
  BY <1>3, <1>5, <1>a DEF OneLogRow, Rows
<1>11. StatusIsTrue'
  <2> SUFFICES ASSUME NEW q \in Request, Settled(q)'
               PROVE  /\ logs'[KeyOf(q)'] # <<>>
                      /\ job'[q].profile => HasData(Head(logs'[KeyOf(q)']))
                      /\ status'[q] = "created" => Head(logs'[KeyOf(q)']).by = q
    BY DEF StatusIsTrue, HasData
  <2>1. KeyOf(q)' = KeyOf(q) /\ KeyOf(q) \in Key /\ job'[q] = job[q]
    BY <1>a, JobsAreJobs DEF KeyOf
  <2>2. CASE q = r
    <3>1. status'[r] = status[r]
      BY <2>2, <1>a DEF Settled, TypeOK
    <3> QED
      BY <2>1, <2>2, <3>1, <1>3, <1>5 DEF k
  <2>3. CASE q # r
    <3>1. Settled(q) /\ status'[q] = status[q]
      BY <2>3, <1>a DEF Settled, TypeOK
    <3>2. /\ logs[KeyOf(q)] # <<>>
          /\ job[q].profile => HasData(Head(logs[KeyOf(q)]))
          /\ status[q] = "created" => Head(logs[KeyOf(q)]).by = q
      BY <3>1, <1>a DEF StatusIsTrue
    <3>3. CASE KeyOf(q) # k
      BY <2>1, <3>1, <3>2, <3>3, <1>5
    <3>4. CASE KeyOf(q) = k
      <4>1. s # <<>> /\ logs[KeyOf(q)] = s
        BY <3>2, <3>4 DEF s
      <4>2. Head(s) = s[1] /\ Head(After(r, s)) = After(r, s)[1]
        BY <4>1, <1>1, <1>3, AtMostOne
      <4> QED
        BY <2>1, <3>1, <3>2, <3>4, <4>1, <4>2, <1>3, <1>5
    <3> QED
      BY <3>3, <3>4
  <2> QED
    BY <2>2, <2>3
<1> QED
  BY <1>6, <1>8, <1>9, <1>10, <1>11 DEF IInv

-----------------------------------------------------------------------------
(* The steps of a call that leave the rows alone. *)
LEMMA QuietInv ==
  ASSUME IInv, NEW r \in Request,
         (\E j \in Jobs : Begin(r, j)) \/ Lock(r) \/ Write(r) \/ Fail(r)
           \/ Remember(r) \/ Forget
  PROVE  IInv'
<1>a. TypeOK /\ LockHeld /\ VerdictHolds /\ OneLogRow /\ StatusIsTrue
  BY DEF IInv
<1>b. \A q \in Request : job[q] \in Job /\ KeyOf(q) \in Key /\ logs[KeyOf(q)] \in Rows
  BY <1>a, JobsAreJobs, RowsOf
<1>1. CASE \E j \in Jobs : Begin(r, j)
  <2> PICK j \in Jobs : Begin(r, j)
    BY <1>1
  <2>1. TypeOK'
    BY <1>a DEF Begin, TypeOK, Stage, Status
  <2>2. \A q \in Request : stage'[q] \in {"locked", "written", "decided"} =>
          q # r /\ stage[q] = stage'[q] /\ job'[q] = job[q] /\ status'[q] = status[q]
    BY <1>a DEF Begin, TypeOK
  <2>3. \A q \in Request : Settled(q)' => Settled(q) /\ job'[q] = job[q]
                                             /\ status'[q] = status[q]
    BY <1>a DEF Begin, TypeOK, Settled
  <2>4. lock' = lock /\ logs' = logs
    BY DEF Begin
  <2> QED
    BY <2>1, <2>2, <2>3, <2>4, <1>a
    DEF IInv, LockHeld, VerdictHolds, OneLogRow, StatusIsTrue, KeyOf, HasData
<1>2. CASE Lock(r)
  <2>1. TypeOK'
    BY <1>2, <1>a, JobsAreJobs DEF Lock, TypeOK, Stage
  <2>2. LockHeld'
    BY <1>2, <1>a, <1>b, NoneAssumption DEF Lock, LockHeld, TypeOK, KeyOf
  <2>3. VerdictHolds' /\ OneLogRow' /\ StatusIsTrue'
    BY <1>2, <1>a
    DEF Lock, VerdictHolds, OneLogRow, StatusIsTrue, Settled, KeyOf, TypeOK, HasData
  <2> QED
    BY <2>1, <2>2, <2>3 DEF IInv
<1>3. CASE Write(r)
  <2>1. Verdict(job[r], logs[KeyOf(r)]) \in Status
    BY <1>b, VerdictMeans DEF Status
  <2>2. TypeOK'
    BY <1>3, <1>a, <2>1 DEF Write, TypeOK, Stage
  <2>3. LockHeld'
    BY <1>3, <1>a DEF Write, LockHeld, TypeOK, KeyOf
  <2>4. VerdictHolds'
    BY <1>3, <1>a DEF Write, VerdictHolds, TypeOK, KeyOf
  <2>5. OneLogRow' /\ StatusIsTrue'
    BY <1>3, <1>a DEF Write, OneLogRow, StatusIsTrue, Settled, KeyOf, TypeOK, HasData
  <2> QED
    BY <2>2, <2>3, <2>4, <2>5 DEF IInv
<1>4. CASE Fail(r)
  <2>1. TypeOK'
    BY <1>4, <1>a DEF Fail, Release, TypeOK, Stage, Status
  <2>2. LockHeld'
    BY <1>4, <1>a, <1>b DEF Fail, Release, LockHeld, TypeOK, KeyOf
  <2>3. VerdictHolds' /\ OneLogRow'
    BY <1>4, <1>a DEF Fail, VerdictHolds, OneLogRow, TypeOK, KeyOf
  <2>4. StatusIsTrue'
    BY <1>4, <1>a DEF Fail, StatusIsTrue, Settled, KeyOf, TypeOK, HasData
  <2> QED
    BY <2>1, <2>2, <2>3, <2>4 DEF IInv
<1>5. CASE Remember(r)
  <2>1. TypeOK'
    BY <1>5, <1>a DEF Remember, TypeOK, Stage
  <2>2. LockHeld' /\ VerdictHolds' /\ OneLogRow'
    BY <1>5, <1>a DEF Remember, LockHeld, VerdictHolds, OneLogRow, TypeOK, KeyOf
  <2>3. StatusIsTrue'
    BY <1>5, <1>a DEF Remember, StatusIsTrue, Settled, KeyOf, TypeOK, HasData
  <2> QED
    BY <2>1, <2>2, <2>3 DEF IInv
<1>6. CASE Forget
  BY <1>6, <1>a DEF Forget, IInv, TypeOK, LockHeld, VerdictHolds, OneLogRow,
                    StatusIsTrue, Settled, KeyOf, HasData
<1> QED
  BY <1>1, <1>2, <1>3, <1>4, <1>5, <1>6

LEMMA StutterInv == IInv /\ UNCHANGED vars => IInv'
BY DEF vars, IInv, TypeOK, LockHeld, VerdictHolds, OneLogRow, StatusIsTrue,
       Settled, KeyOf, HasData

LEMMA ForgetInv == IInv /\ Forget => IInv'
BY DEF Forget, IInv, TypeOK, LockHeld, VerdictHolds, OneLogRow, StatusIsTrue,
       Settled, KeyOf, HasData

LEMMA NextInv == IInv /\ [Next]_vars => IInv'
<1> SUFFICES ASSUME IInv, [Next]_vars PROVE IInv'
  OBVIOUS
<1>1. ASSUME NEW r \in Request, Commit(r) \/ CommitUnheard(r)
      PROVE  IInv'
  BY <1>1, CommitsCommit, CommittedInv DEF IInv
<1>2. ASSUME NEW r \in Request, (\E j \in Jobs : Begin(r, j)) \/ Lock(r)
                                \/ Write(r) \/ Fail(r) \/ Remember(r)
      PROVE  IInv'
  BY <1>2, QuietInv
<1>3. CASE Forget
  BY <1>3, ForgetInv
<1>4. CASE UNCHANGED vars
  BY <1>4, StutterInv
<1> QED
  BY <1>1, <1>2, <1>3, <1>4 DEF Next, Step

LEMMA Invariance == Spec => []IInv
<1>1. Init => IInv
  BY InitInv
<1>2. IInv /\ [Next]_vars => IInv'
  BY NextInv
<1> QED
  BY <1>1, <1>2, PTL DEF Spec

-----------------------------------------------------------------------------
(* Every variable stays within its type. *)
THEOREM LogTypes == Spec => []TypeOK
<1>1. IInv => TypeOK
  BY DEF IInv
<1> QED
  BY Invariance, <1>1, PTL

(* A document never gets a second row in the audit log, whatever number of *)
(* calls, with or without a profile, log it at once or again.              *)
THEOREM NeverLoggedTwice == Spec => []OneLogRow
<1>1. IInv => OneLogRow
  BY DEF IInv
<1> QED
  BY Invariance, <1>1, PTL

(* What writeERPLog answers is true: the row is there, and for a profile   *)
(* call it has content.                                                    *)
THEOREM StatusesAreTrue == Spec => []StatusIsTrue
<1>1. IInv => StatusIsTrue
  BY DEF IInv
<1> QED
  BY Invariance, <1>1, PTL

(* What a step may do to the rows of a document: nothing, or what the      *)
(* commit of one call adds to them.                                        *)
LEMMA StepKeeps ==
  ASSUME IInv, [Next]_vars, NEW k \in Key, NEW i \in DOMAIN logs[k]
  PROVE  /\ i \in DOMAIN logs'[k]
         /\ logs'[k][i].by = logs[k][i].by
         /\ HasData(logs[k][i]) => logs'[k][i] = logs[k][i]
<1>a. TypeOK /\ LockHeld /\ VerdictHolds
  BY DEF IInv
<1>b. logs[k] \in Rows /\ logs[k] # <<>> /\ i = 1
  BY RowsOf, AtMostOne
<1>1. CASE logs' = logs
  BY <1>1
<1>2. ASSUME NEW r \in Request, Commit(r) \/ CommitUnheard(r)
      PROVE  /\ i \in DOMAIN logs'[k]
             /\ logs'[k][i].by = logs[k][i].by
             /\ HasData(logs[k][i]) => logs'[k][i] = logs[k][i]
  <2>1. Committed(r)
    BY <1>2, <1>a, CommitsCommit
  <2>2. CASE KeyOf(r) # k
    BY <2>1, <2>2, <1>a DEF Committed, TypeOK
  <2>3. CASE KeyOf(r) = k
    <3>1. logs'[k] = After(r, logs[k])
      BY <2>1, <2>3, <1>a DEF Committed, TypeOK
    <3>2. status[r] = Verdict(job[r], logs[k]) /\ job[r] \in Job
      BY <2>1, <2>3, <1>a, JobsAreJobs DEF Committed, VerdictHolds
    <3>3. /\ After(r, logs[k]) \in Rows
          /\ After(r, logs[k]) # <<>>
          /\ After(r, logs[k])[1].by = logs[k][1].by
          /\ HasData(logs[k][1]) => After(r, logs[k])[1] = logs[k][1]
      BY <1>a, <1>b, <3>2, AfterMeans
    <3>4. DOMAIN After(r, logs[k]) = {1}
      BY <3>3, AtMostOne
    <3> QED
      BY <1>b, <3>1, <3>3, <3>4
  <2> QED
    BY <2>2, <2>3
<1>3. logs' = logs \/ \E r \in Request : Commit(r) \/ CommitUnheard(r)
  BY DEF Next, vars, Step, Begin, Lock, Write, Fail, Remember, Forget
<1> QED
  BY <1>1, <1>2, <1>3

(* Content that was logged stays, and no row is lost. *)
THEOREM NothingLoggedIsLost == Spec => LogIsKept
<1>1. IInv /\ [Next]_vars =>
        [\A k \in Key : \A i \in DOMAIN logs[k] :
           /\ i \in DOMAIN logs'[k]
           /\ logs'[k][i].by = logs[k][i].by
           /\ HasData(logs[k][i]) => logs'[k][i] = logs[k][i]]_vars
  BY StepKeeps
<1> QED
  BY Invariance, <1>1, PTL DEF Spec, LogIsKept

-----------------------------------------------------------------------------
(* The refinement.  The rows of a document, as a set.                      *)
LEMMA EntryOf ==
  ASSUME NEW s \in Rows
  PROVE  /\ s = <<>> => {s[i] : i \in DOMAIN s} = {}
         /\ s # <<>> => {s[i] : i \in DOMAIN s} = {s[1]}
<1>1. CASE s = <<>>
  <2>1. \A i \in DOMAIN s : FALSE
    BY <1>1
  <2>. QED
    BY <1>1, <2>1
<1>2. CASE s # <<>>
  BY <1>2, AtMostOne
<1>. QED
  BY <1>1, <1>2

(* What a decided call makes of the row, if it commits: it adds one, fills *)
(* it in or finds it, as its status says.                                  *)
LEMMA DecidedMeans ==
  ASSUME TypeOK, NEW r \in Request, NEW s \in Rows, job[r] \in Job,
         status[r] = Verdict(job[r], s)
  PROVE  \/ /\ status[r] = "created" /\ s = <<>>
            /\ After(r, s) = <<[by |-> r, data |-> DataOf(job[r])]>>
         \/ /\ status[r] = "updated" /\ s # <<>>
            /\ job[r].profile /\ s[1].data = NoBody
            /\ After(r, s) # <<>>
            /\ After(r, s)[1] = [s[1] EXCEPT !.data = job[r].body]
         \/ /\ status[r] = "skipped" /\ s # <<>>
            /\ job[r].profile => s[1].data # NoBody
            /\ After(r, s) = s
<1>1. CASE status[r] = "created"
  <2>1. s = <<>>
    BY <1>1, VerdictMeans
  <2>. QED
    BY <1>1, <2>1 DEF After
<1>2. CASE status[r] = "updated"
  <2>1. s # <<>> /\ s[1].data = NoBody /\ job[r].profile
    BY <1>2, VerdictMeans DEF HasData
  <2>2. DOMAIN s = {1} /\ s[1] \in LogRow
    BY <2>1, AtMostOne
  <2>3. After(r, s)[1] = [s[1] EXCEPT !.data = job[r].body]
    BY <1>2, <2>2 DEF After
  <2>4. After(r, s) # <<>>
    BY AfterMeans
  <2>. QED
    BY <1>2, <2>1, <2>3, <2>4
<1>3. CASE status[r] = "skipped"
  BY <1>3, VerdictMeans DEF After, HasData
<1>. QED
  BY <1>1, <1>2, <1>3, VerdictMeans

(* A commit is the step in which the caller of LogOnce is answered. *)
LEMMA CommitOnce ==
  ASSUME IInv, NEW r \in Request, Committed(r)
  PROVE  Once!Next
<1>. USE DEF Committed
<1>0. TypeOK /\ VerdictHolds
  BY DEF IInv
<1>. DEFINE k == KeyOf(r)
            s == logs[k]
            t == After(r, s)
<1>1. job[r] \in Job /\ k \in Key /\ k = job[r].key /\ s \in Rows
  BY <1>0, JobsAreJobs, RowsOf DEF KeyOf
<1>2. status[r] = Verdict(job[r], s)
  BY <1>0 DEF VerdictHolds
<1>3. t \in Rows
  BY <1>0, <1>1, <1>2, AfterMeans
<1>4. askBar' = askBar /\ askBar[r] = {job[r]} /\ answerBar[r] = "none"
  BY <1>0 DEF askBar, answerBar, TypeOK
<1>5. /\ answerBar' = [answerBar EXCEPT ![r] = status'[r]]
      /\ status'[r] \in {status[r], "warning"}
  BY <1>0 DEF answerBar, TypeOK
<1>6. entryBar' = [entryBar EXCEPT ![k] = {t[i] : i \in DOMAIN t}]
  <2>. DEFINE Entry(rows) == {rows[i] : i \in DOMAIN rows}
  <2>1. logs' = [logs EXCEPT ![k] = t]
    BY <1>0, <1>1 DEF TypeOK
  <2>2. /\ entryBar = [j \in Key |-> Entry(logs[j])]
        /\ entryBar' = [j \in Key |-> Entry(logs'[j])]
    BY DEF entryBar
  <2>3. entryBar' = [entryBar EXCEPT ![k] = Entry(t)]
    <3>. HIDE DEF k, t, Entry
    <3>. QED
      BY <1>0, <1>1, <2>1, <2>2 DEF TypeOK
  <2>. QED
    BY <2>3
<1>7. entryBar[k] = {s[i] : i \in DOMAIN s}
  BY <1>1 DEF entryBar
<1>8. CASE status[r] = "created"
  <2>. DEFINE row == [by |-> r, data |-> IF job[r].profile THEN job[r].body
                                                          ELSE NoBody]
  <2>1. s = <<>> /\ t = <<row>>
    BY <1>0, <1>1, <1>2, <1>8, DecidedMeans DEF DataOf
  <2>2. entryBar[k] = {}
    BY <1>1, <1>7, <2>1, EntryOf
  <2>3. t # <<>> /\ t[1] = row
    BY <2>1
  <2>4. {t[i] : i \in DOMAIN t} = {row}
    BY <1>3, <2>3, EntryOf
  <2>5. Once!Told(r, {"created", "warning"})
    BY <1>4, <1>5, <1>8 DEF Once!Told
  <2>6. Once!Add(r, job[r])
    BY <1>1, <1>4, <1>6, <2>2, <2>4, <2>5 DEF Once!Add
  <2>. QED
    BY <1>4, <2>6 DEF Once!Next
<1>9. CASE status[r] = "updated"
  <2>1. /\ s # <<>> /\ job[r].profile /\ s[1].data = NoBody
        /\ t # <<>> /\ t[1] = [s[1] EXCEPT !.data = job[r].body]
    BY <1>0, <1>1, <1>2, <1>9, DecidedMeans
  <2>2. entryBar[k] = {s[1]} /\ {t[i] : i \in DOMAIN t} = {t[1]}
    BY <1>1, <1>3, <1>7, <2>1, EntryOf
  <2>3. Once!Told(r, {"updated", "warning"})
    BY <1>4, <1>5, <1>9 DEF Once!Told
  <2>4. Once!Fill(r, job[r])
    BY <1>1, <1>4, <1>6, <2>1, <2>2, <2>3 DEF Once!Fill
  <2>. QED
    BY <1>4, <2>4 DEF Once!Next
<1>10. CASE status[r] = "skipped"
  <2>1. s # <<>> /\ t = s /\ (job[r].profile => s[1].data # NoBody)
    BY <1>0, <1>1, <1>2, <1>10, DecidedMeans
  <2>2. entryBar[k] = {s[1]}
    BY <1>1, <1>7, <2>1, EntryOf
  <2>3. entryBar' = entryBar
    BY <1>6, <1>7, <2>1 DEF entryBar
  <2>4. Once!Told(r, {"skipped", "warning"})
    BY <1>4, <1>5, <1>10 DEF Once!Told
  <2>5. Once!Find(r, job[r])
    BY <1>1, <1>4, <2>1, <2>2, <2>3, <2>4 DEF Once!Find
  <2>. QED
    BY <1>4, <2>5 DEF Once!Next
<1>. QED
  BY <1>0, <1>1, <1>2, <1>8, <1>9, <1>10, DecidedMeans

(* Every other step leaves the rows alone: a call comes, is on its way, or *)
(* is answered with a warning.                                             *)
LEMMA OnceStep ==
  ASSUME IInv, [Next]_vars
  PROVE  [Once!Next]_<<askBar, entryBar, answerBar>>
<1>. DEFINE Same == UNCHANGED <<askBar, entryBar, answerBar>>
<1>0. TypeOK
  BY DEF IInv
<1>1. logs' = logs => entryBar' = entryBar
  BY DEF entryBar
<1>2. ASSUME NEW r \in Request, NEW j \in Jobs, Begin(r, j) PROVE Once!Next
  <2>1. askBar[r] = {} /\ askBar' = [askBar EXCEPT ![r] = {j}]
    BY <1>0, <1>2 DEF Begin, askBar, TypeOK
  <2>2. entryBar' = entryBar
    BY <1>1, <1>2 DEF Begin
  <2>3. CASE CachedDown(j)
    <3>1. /\ answerBar[r] = "none"
          /\ answerBar' = [answerBar EXCEPT ![r] = "warning"]
      BY <1>0, <1>2, <2>3 DEF Begin, answerBar, TypeOK
    <3>. QED
      BY <2>1, <2>2, <3>1 DEF Once!Next, Once!Warn, Once!Told
  <2>4. CASE ~CachedDown(j)
    <3>1. answerBar' = answerBar
      BY <1>0, <1>2, <2>4 DEF Begin, answerBar, TypeOK
    <3>. QED
      BY <2>1, <2>2, <3>1 DEF Once!Next, Once!Ask
  <2>. QED
    BY <2>3, <2>4
<1>3. ASSUME NEW r \in Request, Lock(r) \/ Write(r) \/ Remember(r) PROVE Same
  BY <1>0, <1>1, <1>3 DEF Lock, Write, Remember, askBar, answerBar, TypeOK
<1>4. ASSUME NEW r \in Request, Fail(r) PROVE Once!Next
  <2>1. /\ askBar' = askBar /\ answerBar[r] = "none"
        /\ answerBar' = [answerBar EXCEPT ![r] = "warning"]
    BY <1>0, <1>4 DEF Fail, askBar, answerBar, TypeOK
  <2>. QED
    BY <1>1, <1>4, <2>1 DEF Fail, Once!Next, Once!Warn, Once!Told
<1>5. ASSUME NEW r \in Request, Commit(r) \/ CommitUnheard(r) PROVE Once!Next
  BY <1>0, <1>5, CommitsCommit, CommitOnce
<1>6. CASE Forget \/ UNCHANGED vars
  BY <1>1, <1>6 DEF Forget, vars, askBar, answerBar
<1>. QED
  BY <1>2, <1>3, <1>4, <1>5, <1>6 DEF Next, Step

(* The transactions of writeERPLog implement the one-step promise: calls   *)
(* for one document are answered as if each had logged it at once, also    *)
(* those that never hear of their own commit.                              *)
THEOREM ImplementsLogOnce == Spec => LoggedOnce
<1>1. Init => Once!Init
  BY DEF Init, Once!Init, askBar, entryBar, answerBar
<1>. QED
  BY <1>1, OnceStep, Invariance, PTL DEF Spec, LoggedOnce, Once!Spec

-----------------------------------------------------------------------------
(* DetailDiff: with unique identities, lines that say something have the   *)
(* same key in both snapshots.                                             *)

LEMMA KeyNames ==
  ASSUME NEW rows, NEW i
  PROVE  /\ KeyOfLine(rows, i).item = rows[i].item
         /\ KeyOfLine(rows, i).line = rows[i].line
BY DEF KeyOfLine

(* No two lines of a snapshot have the same key, whatever their            *)
(* identities: of those with one identity all but the first are told apart *)
(* by their place.                                                         *)
LEMMA KeysTellLinesApart ==
  ASSUME NEW rows \in Seq(DetailLine), NEW i \in DOMAIN rows, NEW j \in DOMAIN rows,
         KeyOfLine(rows, i) = KeyOfLine(rows, j)
  PROVE  i = j
<1>1. \A p, q \in DOMAIN rows : p < q => p \in 1 .. q - 1 /\ q # 0 /\ p # 0
  OBVIOUS
<1>2. ASSUME NEW p \in DOMAIN rows, NEW q \in DOMAIN rows, p < q,
             KeyOfLine(rows, p) = KeyOfLine(rows, q)
      PROVE  FALSE
  <2>1. SameIdentity(rows[p], rows[q])
    BY <1>2, KeyNames DEF SameIdentity
  <2>2. KeyOfLine(rows, q).at = q
    BY <1>1, <1>2, <2>1 DEF KeyOfLine
  <2>3. KeyOfLine(rows, p).at \in {p, 0}
    BY DEF KeyOfLine
  <2> QED
    BY <1>1, <1>2, <2>2, <2>3
<1>3. i \in Nat /\ j \in Nat
  OBVIOUS
<1> QED
  BY <1>2, <1>3

(* The line of a key is the one with that key.                             *)
LEMMA LineOfKey ==
  ASSUME NEW rows \in Seq(DetailLine), NEW i \in DOMAIN rows
  PROVE  LineOf(rows, KeyOfLine(rows, i)) = rows[i]
<1> DEFINE k == KeyOfLine(rows, i)
           isLast(j) == /\ KeyOfLine(rows, j) = k
                        /\ \A p \in DOMAIN rows : KeyOfLine(rows, p) = k => p <= j
<1>1. \A j \in DOMAIN rows : KeyOfLine(rows, j) = k => j = i
  BY KeysTellLinesApart
<1>2. i <= i
  OBVIOUS
<1>3. isLast(i)
  BY <1>1, <1>2
<1>4. \A j \in DOMAIN rows : isLast(j) => j = i
  BY <1>1
<1> HIDE DEF isLast
<1>5. (CHOOSE j \in DOMAIN rows : isLast(j)) = i
  BY <1>3, <1>4
<1> QED
  BY <1>5 DEF LineOf, isLast

LEMMA LineOfIs ==
  ASSUME NEW rows \in Seq(DetailLine), NEW k \in Keys(rows)
  PROVE  \E i \in DOMAIN rows : KeyOfLine(rows, i) = k /\ LineOf(rows, k) = rows[i]
BY LineOfKey DEF Keys

(* The key of an identified line holds nothing of its place.               *)
LEMMA KeyIsIdentity ==
  ASSUME NEW rows \in Seq(DetailLine), Identified(rows), NEW i \in DOMAIN rows,
         HasIdentity(rows[i])
  PROVE  KeyOfLine(rows, i) = [item |-> rows[i].item, line |-> rows[i].line, at |-> 0]
<1>1. \A j \in 1 .. i - 1 : j \in DOMAIN rows /\ i # j
  OBVIOUS
<1>2. \A j \in 1 .. i - 1 : ~SameIdentity(rows[j], rows[i])
  BY <1>1 DEF Identified, SameIdentity
<1> QED
  BY <1>2 DEF KeyOfLine

(* The test for a blank line passes over those that say nothing, and over  *)
(* no other.                                                               *)
LEMMA BlankSaysNothing ==
  ASSUME NEW rows \in Seq(DetailLine), NEW i \in DOMAIN rows
  PROVE  IsBlank(rows[i]) <=> ~Says(rows[i])
<1>1. rows[i] \in DetailLine
  OBVIOUS
<1>2. rows[i].content \in Content \cup Void
  BY <1>1 DEF DetailLine
<1> QED
  BY <1>2, DiffAssumption DEF IsBlank, Says

(* A line that says something is in both, under the same key.              *)
LEMMA SameLine ==
  ASSUME NEW rows \in Seq(DetailLine), NEW others \in Seq(DetailLine),
         Identified(rows), Identified(others), Written(rows) = Written(others),
         NEW i \in DOMAIN rows, Says(rows[i])
  PROVE  \E j \in DOMAIN others :
           others[j] = rows[i] /\ KeyOfLine(others, j) = KeyOfLine(rows, i)
<1>1. rows[i] \in Written(rows)
  BY DEF Written, ToSet
<1>2. PICK j \in DOMAIN others : others[j] = rows[i]
  BY <1>1 DEF Written, ToSet
<1>3. HasIdentity(rows[i]) /\ HasIdentity(others[j])
  BY <1>2 DEF Identified
<1> QED
  BY <1>2, <1>3, KeyIsIdentity

LEMMA NothingExtra ==
  ASSUME NEW rows \in Seq(DetailLine), NEW others \in Seq(DetailLine),
         Identified(rows), Identified(others), Written(rows) = Written(others)
  PROVE  Extra(rows, others) = {}
<1> SUFFICES ASSUME NEW k \in Keys(rows), k \notin Keys(others), ~IsBlank(LineOf(rows, k))
             PROVE  FALSE
  BY DEF Extra
<1>1. PICK i \in DOMAIN rows : KeyOfLine(rows, i) = k /\ LineOf(rows, k) = rows[i]
  BY LineOfIs
<1>2. Says(rows[i])
  BY <1>1, BlankSaysNothing
<1>3. PICK j \in DOMAIN others : KeyOfLine(others, j) = KeyOfLine(rows, i)
  BY <1>2, SameLine
<1> QED
  BY <1>1, <1>3 DEF Keys

(* The lines of one key, of which one says something, are one line.        *)
LEMMA OneKeyOneLine ==
  ASSUME NEW rows \in Seq(DetailLine), NEW others \in Seq(DetailLine),
         Identified(rows), Identified(others), Written(rows) = Written(others),
         NEW i \in DOMAIN rows, NEW j \in DOMAIN others,
         KeyOfLine(rows, i) = KeyOfLine(others, j), Says(rows[i])
  PROVE  others[j] = rows[i]
<1>1. PICK m \in DOMAIN others :
        others[m] = rows[i] /\ KeyOfLine(others, m) = KeyOfLine(rows, i)
  BY SameLine
<1>2. SameIdentity(others[m], others[j])
  BY <1>1, KeyNames DEF SameIdentity
<1>3. HasIdentity(others[m])
  BY <1>1 DEF Identified
<1>4. m = j
  BY <1>2, <1>3 DEF Identified
<1> QED
  BY <1>1, <1>4

(* Two lines of one key have one identity, and without one their place.    *)
LEMMA OneKeyOnePlace ==
  ASSUME NEW rows, NEW others, NEW i, NEW j,
         KeyOfLine(rows, i) = KeyOfLine(others, j)
  PROVE  /\ SameIdentity(rows[i], others[j])
         /\ HasIdentity(rows[i]) \/ i = j
<1>1. SameIdentity(rows[i], others[j])
  BY KeyNames DEF SameIdentity
<1>2. HasIdentity(rows[i]) <=> HasIdentity(others[j])
  BY <1>1 DEF SameIdentity, HasIdentity
<1>3. ASSUME ~HasIdentity(rows[i]) PROVE i = j
  BY <1>2, <1>3 DEF KeyOfLine
<1> QED
  BY <1>1, <1>3

LEMMA NothingEdited ==
  ASSUME NEW rows \in Seq(DetailLine), NEW others \in Seq(DetailLine),
         Identified(rows), Identified(others), Written(rows) = Written(others),
         BlanksStay(rows, others)
  PROVE  Edits(rows, others) = {}
<1> SUFFICES ASSUME NEW k \in Keys(rows), k \in Keys(others)
             PROVE  SameFields(LineOf(rows, k), LineOf(others, k))
  BY DEF Edits
<1>1. PICK i \in DOMAIN rows : KeyOfLine(rows, i) = k /\ LineOf(rows, k) = rows[i]
  BY LineOfIs
<1>2. PICK j \in DOMAIN others : KeyOfLine(others, j) = k /\ LineOf(others, k) = others[j]
  BY LineOfIs
<1>3. CASE Says(rows[i])
  <2>1. others[j] = rows[i]
    BY <1>1, <1>2, <1>3, OneKeyOneLine
  <2> QED
    BY <1>1, <1>2, <2>1 DEF SameFields
<1>4. CASE Says(others[j])
  <2>1. rows[i] = others[j]
    BY <1>1, <1>2, <1>4, OneKeyOneLine
  <2> QED
    BY <1>1, <1>2, <2>1 DEF SameFields
<1>5. CASE ~Says(rows[i]) /\ ~Says(others[j])
  <2>1. SameIdentity(rows[i], others[j]) /\ (HasIdentity(rows[i]) \/ i = j)
    BY <1>1, <1>2, OneKeyOnePlace
  <2>2. Alike(rows[i], others[j])
    BY <1>5, <2>1 DEF BlanksStay
  <2> QED
    BY <1>1, <1>2, <2>2 DEF Alike, SameFields
<1> QED
  BY <1>3, <1>4, <1>5

LEMMA SnapshotsAreLines ==
  DiffInit => lines \in Seq(DetailLine) /\ linesNow \in Seq(DetailLine)
<1>1. \A m \in 0 .. MaxLines : m \in Nat
  BY DiffAssumption
<1>2. ASSUME NEW m \in Nat PROVE [1 .. m -> Lines] \subseteq Seq(DetailLine)
  BY DiffAssumption
<1> QED
  BY <1>1, <1>2 DEF DiffInit, BoundedSeq, SeqOf

(* Snapshots whose lines were only moved, or padded with blank ones, do    *)
(* not differ, whatever their length, as long as identities are unique and *)
(* no blank line of both was touched (diffERPDetail in erp_log_diff.go).   *)
THEOREM SavesGiveNoDiff == DiffInit => SaveGivesNoDiff
<1> SUFFICES ASSUME DiffInit, Identified(lines), Identified(linesNow),
                    Written(lines) = Written(linesNow), BlanksStay(lines, linesNow)
             PROVE  diffERPDetail(lines, linesNow) = {}
  BY DEF SaveGivesNoDiff
<1>1. lines \in Seq(DetailLine) /\ linesNow \in Seq(DetailLine)
  BY SnapshotsAreLines
<1> QED
  BY <1>1, NothingExtra, NothingEdited DEF diffERPDetail

(* Without a difference each line that says something has its like.        *)
LEMMA NoFewerLines ==
  ASSUME NEW rows \in Seq(DetailLine), NEW others \in Seq(DetailLine), NEW r,
         Extra(rows, others) = {},
         \A k \in Keys(rows) \cap Keys(others) :
           SameFields(LineOf(rows, k), LineOf(others, k))
  PROVE  Count(rows, r) \in Nat /\ Count(rows, r) <= Count(others, r)
<1> DEFINE places == {i \in DOMAIN rows : Says(rows[i]) /\ Alike(rows[i], r)}
           likes == {i \in DOMAIN others : Says(others[i]) /\ Alike(others[i], r)}
           twin(i) == CHOOSE j \in likes : KeyOfLine(others, j) = KeyOfLine(rows, i)
           f == [i \in places |-> twin(i)]
<1>1. Count(rows, r) = Cardinality(places) /\ Count(others, r) = Cardinality(likes)
  BY DEF Count
<1>2. IsFiniteSet(places) /\ IsFiniteSet(likes)
  <2>1. Len(rows) \in Nat /\ DOMAIN rows = 1 .. Len(rows)
        /\ Len(others) \in Nat /\ DOMAIN others = 1 .. Len(others)
    OBVIOUS
  <2>2. IsFiniteSet(1 .. Len(rows)) /\ IsFiniteSet(1 .. Len(others))
    BY <2>1, FS_Interval
  <2>3. places \in SUBSET (1 .. Len(rows)) /\ likes \in SUBSET (1 .. Len(others))
    BY <2>1
  <2> HIDE DEF places, likes
  <2> QED
    BY <2>2, <2>3, FS_Subset
<1>3. ASSUME NEW i \in places
      PROVE  \E j \in likes : KeyOfLine(others, j) = KeyOfLine(rows, i)
  <2> DEFINE k == KeyOfLine(rows, i)
  <2>1. k \in Keys(rows) /\ LineOf(rows, k) = rows[i]
    BY LineOfKey DEF Keys
  <2>2. ~IsBlank(rows[i])
    BY BlankSaysNothing
  <2>3. k \in Keys(others)
    BY <2>1, <2>2 DEF Extra
  <2>4. PICK j \in DOMAIN others : KeyOfLine(others, j) = k
    BY <2>3 DEF Keys
  <2>5. LineOf(others, k) = others[j]
    BY <2>4, LineOfKey
  <2>6. others[j].content = rows[i].content /\ others[j].rest = rows[i].rest
    BY <2>1, <2>3, <2>5 DEF SameFields
  <2>7. others[j].item = rows[i].item
    BY <2>4, KeyNames
  <2>8. j \in likes
    BY <2>6, <2>7 DEF Says, Alike
  <2> QED
    BY <2>4, <2>8
<1> HIDE DEF places, likes
<1>4. \A i \in places : twin(i) \in likes /\ KeyOfLine(others, twin(i)) = KeyOfLine(rows, i)
  BY <1>3
<1> HIDE DEF twin
<1>5. f \in [places -> likes] /\ \A i \in places : f[i] = twin(i)
  BY <1>4
<1>6. \A i, j \in places : f[i] = f[j] => i = j
  <2>1. \A i \in places : i \in DOMAIN rows
    BY DEF places
  <2> QED
    BY <1>4, <1>5, <2>1, KeysTellLinesApart
<1> HIDE DEF f
<1>7. f \in Injection(places, likes)
  BY <1>5, <1>6 DEF Injection, IsInjective
<1>8. Cardinality(places) <= Cardinality(likes) /\ Cardinality(places) \in Nat
  BY <1>2, <1>7, FS_Injection, FS_CardinalityType
<1> QED
  BY <1>1, <1>8

(* If two snapshots do not differ, no line that says something was edited: *)
(* each is there as many times with the same fields, whatever identities   *)
(* the lines have, or how many have one and the same (erp_log_diff.go:38). *)
THEOREM NoDiffMeansNoEdit == DiffInit => EmptyDiffMeansNoEdit
<1> SUFFICES ASSUME DiffInit, diffERPDetail(lines, linesNow) = {}, NEW r \in Lines
             PROVE  Count(lines, r) = Count(linesNow, r)
  BY DEF EmptyDiffMeansNoEdit
<1>1. lines \in Seq(DetailLine) /\ linesNow \in Seq(DetailLine)
  BY SnapshotsAreLines
<1>2. Extra(lines, linesNow) = {} /\ Extra(linesNow, lines) = {}
      /\ Edits(lines, linesNow) = {}
  BY DEF diffERPDetail
<1>3. \A k \in Keys(lines) \cap Keys(linesNow) :
        SameFields(LineOf(lines, k), LineOf(linesNow, k))
  BY <1>2 DEF Edits
<1>4. \A k \in Keys(linesNow) \cap Keys(lines) :
        SameFields(LineOf(linesNow, k), LineOf(lines, k))
  BY <1>3 DEF SameFields
<1>5. Count(lines, r) \in Nat /\ Count(lines, r) <= Count(linesNow, r)
  BY <1>1, <1>2, <1>3, NoFewerLines
<1>6. Count(linesNow, r) \in Nat /\ Count(linesNow, r) <= Count(lines, r)
  BY <1>1, <1>2, <1>4, NoFewerLines
<1> QED
  BY <1>5, <1>6

(* The difference of two snapshots is right, in both directions.           *)
THEOREM DiffsAreRight == DiffInit => DiffIsRight
BY NoDiffMeansNoEdit, SavesGiveNoDiff DEF DiffIsRight
=============================================================================
