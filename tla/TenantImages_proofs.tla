------------------------- MODULE TenantImages_proofs -------------------------
(***************************************************************************)
(* Proofs about TenantImages, which makes the tables of the images, for    *)
(* any set of callers.                                                     *)
(*                                                                         *)
(* The argument: a table that lacks columns gets them, a complete one      *)
(* stays, so what a report says of either holds for good (TenantInv), and  *)
(* a provision that is alone, or one of those that meet, is always on its  *)
(* way to two complete tables (OnTheWayInv).                               *)
(***************************************************************************)
EXTENDS TenantImages, TLAPS

Doing == {"idle", "catalog", "inspect", "decide", "lookup", "create", "define_new",
          "commit_new", "load", "define", "commit", "over"}
Committing == {"commit", "commit_new"}

(* TenantTypeOK without the history. *)
CallerTypes ==
  /\ shape \in [Db -> Shape]
  /\ altering \in [Db -> Caller \cup {Nobody}]
  /\ task \in [Caller -> Task]
  /\ doing \in [Caller -> Doing]
  /\ on \in [Caller -> Db]
  /\ round \in [Caller -> {"first", "again", "last"}]
  /\ report \in [Caller -> [Db -> Shape \cup {"unread"}]]
  /\ told \in [Caller -> TenantAnswer]

HistoryTypes ==
  /\ before \in [Caller -> [Db -> Shape \cup {"unread"}]]
  /\ company \in [Caller -> {"alone", "among", "hurt"}]

OwnTable ==
  \A q \in Caller, d \in Db :
    (altering[d] = q) <=> (doing[q] \in Committing /\ on[q] = d)

HasColumns == {"lacking", "complete"}

ReportsHold ==
  \A q \in Caller, d \in Db :
    /\ report[q][d] = "complete" => shape[d] = "complete"
    /\ report[q][d] \in HasColumns => shape[d] \in HasColumns

PlanInv ==
  \A q \in Caller :
    /\ InPlan(q) => task[q] \in {"provision", "command"}
    /\ task[q] = "repair" /\ doing[q] \in {"load", "define", "commit"}
         => \A d \in Db : shape[d] \in HasColumns

TenantInv ==
  CallerTypes /\ HistoryTypes /\ OwnTable /\ ReportsHold /\ PlanInv /\ ReadyIsTrue

Grows ==
  \A d \in Db : /\ shape[d] = "complete" => shape'[d] = "complete"
                /\ shape[d] \in HasColumns => shape'[d] \in HasColumns

MoverTypes ==
  /\ doing \in [Caller -> Doing]
  /\ on \in [Caller -> Db]
  /\ round \in [Caller -> {"first", "again", "last"}]
  /\ report \in [Caller -> [Db -> Shape \cup {"unread"}]]
  /\ told \in [Caller -> TenantAnswer]

(* What the variables of a caller are after it goes on with one of some    *)
(* statements or ends, without having learned anything.                    *)
Moved(q, statements) ==
  /\ MoverTypes'
  /\ \A p \in Caller \ {q} : /\ doing'[p] = doing[p] /\ on'[p] = on[p]
                             /\ report'[p] = report[p] /\ told'[p] = told[p]
  /\ doing'[q] \in statements
  /\ \A d \in Db : report'[q][d] \in {report[q][d], "unread"}
  /\ told'[q] = "ready" => told[q] = "ready"

LEMMA GoMoves ==
  ASSUME CallerTypes, NEW q \in Caller, NEW w \in Doing, NEW d \in Db, Go(q, w, d),
         NEW t \in {"first", "again", "last"}, round' = [round EXCEPT ![q] = t],
         UNCHANGED <<report, told>>
  PROVE  Moved(q, {w}) /\ on'[q] = d
BY DEF CallerTypes, MoverTypes, Moved, Go

LEMMA GoesMoves ==
  ASSUME CallerTypes, NEW q \in Caller, NEW w \in Doing, NEW d \in Db, Go(q, w, d),
         UNCHANGED <<round, report, told>>
  PROVE  Moved(q, {w}) /\ on'[q] = d
BY DEF CallerTypes, MoverTypes, Moved, Go

LEMMA SayMoves ==
  ASSUME CallerTypes, NEW q \in Caller, NEW a \in TenantAnswer \ {"ready"}, Say(q, a),
         UNCHANGED round
  PROVE  Moved(q, {"over"})
BY DEF CallerTypes, MoverTypes, Moved, Say, Unread, Doing, TenantAnswer

LEMMA GivesUpMoves ==
  ASSUME CallerTypes, NEW q \in Caller, GivesUp(q)
  PROVE  Moved(q, {"catalog", "over"})
<1>1. CASE Go(q, "catalog", "image") /\ round' = [round EXCEPT ![q] = "again"]
           /\ UNCHANGED <<report, told>>
  <2>1. Moved(q, {"catalog"})
    BY <1>1, GoMoves DEF Doing, Db
  <2> QED
    BY <2>1 DEF Moved
<1>2. CASE \E a \in {"refused", "failed"} : Say(q, a) /\ UNCHANGED round
  <2>1. Moved(q, {"over"})
    BY <1>2, SayMoves DEF TenantAnswer
  <2> QED
    BY <2>1 DEF Moved
<1> QED
  BY <1>1, <1>2 DEF GivesUp

LEMMA NextMoves ==
  ASSUME CallerTypes, NEW q \in Caller, NextDatabase(q)
  PROVE  Moved(q, {"load", "catalog", "over"})
<1>1. CASE Go(q, "load", "image") /\ UNCHANGED <<round, report, told>>
  <2>1. Moved(q, {"load"})
    BY <1>1, GoesMoves DEF Doing, Db
  <2> QED
    BY <2>1 DEF Moved
<1>2. CASE Say(q, "plans") /\ UNCHANGED round
  <2>1. Moved(q, {"over"})
    BY <1>2, SayMoves DEF TenantAnswer
  <2> QED
    BY <2>1 DEF Moved
<1>3. CASE Go(q, "catalog", "image") /\ round' = [round EXCEPT ![q] = "last"]
           /\ UNCHANGED <<report, told>>
  <2>1. Moved(q, {"catalog"})
    BY <1>3, GoMoves DEF Doing, Db
  <2> QED
    BY <2>1 DEF Moved
<1> QED
  BY <1>1, <1>2, <1>3 DEF NextDatabase

LEMMA TenantInitInv == TenantInit => TenantInv
<1> SUFFICES ASSUME TenantInit PROVE TenantInv
  OBVIOUS
<1>1. CallerTypes /\ HistoryTypes
  BY DEF TenantInit, TenantStart, CallerTypes, HistoryTypes, Doing, Db, Task, Unread,
     TenantAnswer
<1>2. OwnTable /\ ReportsHold /\ PlanInv /\ ReadyIsTrue
  BY CallerAssumption DEF TenantInit, TenantStart, OwnTable, ReportsHold, PlanInv, ReadyIsTrue,
     Committing, InPlan, Unread, HasColumns
<1> QED
  BY <1>1, <1>2 DEF TenantInv

(* A step of q that leaves the databases alone keeps the invariant, if q    *)
(* does not commit, and loads or defines in a repair only what it may.     *)
LEMMA StillInDatabases ==
  ASSUME TenantInv, NEW q \in Caller, NEW statements \in SUBSET (Doing \ Committing),
         Moved(q, statements), doing[q] \notin Committing,
         UNCHANGED <<shape, altering, task, before>>,
         HistoryTypes',
         doing'[q] \in {"lookup", "create", "define_new"} => task[q] \in {"provision", "command"},
         doing'[q] \in {"load", "define"} /\ task[q] = "repair" =>
           \A d \in Db : shape[d] \in HasColumns
  PROVE  TenantInv'
<1>0. CallerTypes /\ OwnTable /\ ReportsHold /\ PlanInv /\ ReadyIsTrue
  BY DEF TenantInv
<1>1. CallerTypes'
  BY <1>0 DEF CallerTypes, Moved, MoverTypes
<1>2. doing'[q] \in Doing \ Committing
  BY DEF Moved
<1>3. OwnTable'
  BY <1>0, <1>2 DEF OwnTable, Moved
<1>4. ReportsHold'
  BY <1>0 DEF ReportsHold, HasColumns, Moved
<1>5. PlanInv'
  BY <1>0, <1>2 DEF PlanInv, InPlan, Committing, Moved
<1>6. ReadyIsTrue'
  BY <1>0 DEF ReadyIsTrue, Moved
<1> QED
  BY <1>1, <1>3, <1>4, <1>5, <1>6 DEF TenantInv

LEMMA ReadCatalogInv ==
  ASSUME TenantInv, NEW q \in Caller, ReadCatalog(q)
  PROVE  TenantInv'
<1>0. CallerTypes /\ HistoryTypes /\ OwnTable /\ ReportsHold /\ PlanInv /\ ReadyIsTrue
  BY DEF TenantInv
<1>1. CallerTypes' /\ HistoryTypes'
  BY <1>0 DEF ReadCatalog, Kept, Go, CallerTypes, HistoryTypes, Doing, Db, Shape
<1>2. /\ doing'[q] \in {"inspect", "decide"} /\ doing[q] = "catalog"
      /\ \A p \in Caller \ {q} : doing'[p] = doing[p] /\ on'[p] = on[p]
      /\ UNCHANGED <<shape, altering, task, told>>
  BY <1>0 DEF ReadCatalog, Kept, Go, CallerTypes
<1>3. OwnTable'
  BY <1>0, <1>2 DEF OwnTable, Committing
<1>4. PlanInv'
  BY <1>0, <1>2 DEF PlanInv, InPlan
<1>5. ReadyIsTrue'
  BY <1>0, <1>2 DEF ReadyIsTrue
<1>6. ReportsHold'
  BY <1>0 DEF ReadCatalog, Kept, CallerTypes, ReportsHold, HasColumns
<1> QED
  BY <1>1, <1>3, <1>4, <1>5, <1>6 DEF TenantInv

LEMMA InspectInv ==
  ASSUME TenantInv, NEW q \in Caller, Inspect(q)
  PROVE  TenantInv'
<1>0. CallerTypes /\ HistoryTypes /\ OwnTable /\ ReportsHold /\ PlanInv /\ ReadyIsTrue
  BY DEF TenantInv
<1>1. CallerTypes' /\ HistoryTypes'
  BY <1>0 DEF Inspect, Kept, Go, CallerTypes, HistoryTypes, Doing, Db, Shape
<1>2. OwnTable' /\ PlanInv' /\ ReadyIsTrue'
  BY <1>0 DEF Inspect, Kept, Go, CallerTypes, OwnTable, PlanInv, InPlan, ReadyIsTrue, Committing
<1>3. ReportsHold'
  BY <1>0 DEF Inspect, Kept, CallerTypes, ReportsHold, HasColumns
<1> QED
  BY <1>1, <1>2, <1>3 DEF TenantInv

LEMMA SayReadyInv ==
  ASSUME TenantInv, NEW q \in Caller, SayReady(q)
  PROVE  TenantInv'
<1>0. CallerTypes /\ HistoryTypes /\ OwnTable /\ ReportsHold /\ PlanInv /\ ReadyIsTrue
  BY DEF TenantInv
<1>1. CallerTypes' /\ HistoryTypes'
  BY <1>0 DEF SayReady, Kept, Say, CallerTypes, HistoryTypes, Doing, Unread, TenantAnswer
<1>2. OwnTable' /\ PlanInv' /\ ReportsHold'
  BY <1>0 DEF SayReady, Kept, Say, Unread, CallerTypes, OwnTable, PlanInv, InPlan, Committing,
     ReportsHold, HasColumns
<1>3. ReadyIsTrue'
  BY <1>0 DEF SayReady, Kept, Say, CallerTypes, ReadyIsTrue, ReportOK, ReportsHold
<1> QED
  BY <1>1, <1>2, <1>3 DEF TenantInv

(* Deciding and planning. *)
LEMMA PlansInv ==
  ASSUME TenantInv, NEW q \in Caller,
         SayNotReady(q) \/ Begin(q) \/ Lookup(q) \/ LoadSchema(q)
  PROVE  TenantInv'
<1>0. CallerTypes /\ HistoryTypes /\ ReportsHold /\ PlanInv
  BY DEF TenantInv
<1>1. UNCHANGED <<shape, altering, task, before, company>> /\ doing[q] \notin Committing
  BY DEF SayNotReady, Begin, Lookup, LoadSchema, Kept, Committing
<1>2. HistoryTypes'
  BY <1>0, <1>1 DEF HistoryTypes
<1>3. ASSUME NEW w \in {"load", "catalog", "over"}, Moved(q, {w}),
             w = "load" /\ task[q] = "repair" => \A d \in Db : shape[d] \in HasColumns
      PROVE  TenantInv'
  <2>1. {w} \in SUBSET (Doing \ Committing) /\ doing'[q] = w
    BY <1>3 DEF Doing, Committing, Moved
  <2> QED
    BY <1>1, <1>2, <1>3, <2>1, StillInDatabases
<1>4. ASSUME GivesUp(q) PROVE TenantInv'
  BY <1>3, <1>4, <1>0, GivesUpMoves DEF Moved
<1>5. CASE SayNotReady(q)
  <2>1. PICK a \in TenantAnswer \ {"ready"} : Say(q, a) /\ UNCHANGED round
    BY <1>5 DEF SayNotReady, TenantAnswer
  <2> QED
    BY <1>0, <1>3, <2>1, SayMoves
<1>6. CASE Begin(q)
  <2>1. CASE Go(q, "lookup", "image") /\ task[q] = "provision"
    <3>1. Moved(q, {"lookup"})
      BY <1>0, <1>6, <2>1, GoesMoves DEF Begin, Doing, Db
    <3>2. {"lookup"} \in SUBSET (Doing \ Committing) /\ doing'[q] = "lookup"
      BY <3>1 DEF Doing, Committing, Moved
    <3> QED
      BY <1>1, <1>2, <2>1, <3>1, <3>2, StillInDatabases
  <2>2. CASE Go(q, "load", "main")
    <3>1. Moved(q, {"load"})
      BY <1>0, <1>6, <2>2, GoesMoves DEF Begin, Doing, Db
    <3>2. task[q] = "repair" => \A d \in Db : shape[d] \in HasColumns
      BY <1>0, <1>6 DEF Begin, Refuses, tenantHasOnlyColumnMismatch, ReportsHold, HasColumns
    <3> QED
      BY <1>3, <3>1, <3>2
  <2> QED
    BY <1>6, <2>1, <2>2 DEF Begin
<1>7. CASE Lookup(q)
  <2>1. CASE Go(q, "create", "image") /\ UNCHANGED <<round, report, told>>
    <3>1. Moved(q, {"create"})
      BY <1>0, <2>1, GoesMoves DEF Doing, Db
    <3>2. {"create"} \in SUBSET (Doing \ Committing) /\ task[q] \in {"provision", "command"}
          /\ doing'[q] = "create"
      BY <1>0, <1>7, <3>1 DEF Lookup, PlanInv, InPlan, Doing, Committing, Moved
    <3> QED
      BY <1>1, <1>2, <3>1, <3>2, StillInDatabases
  <2> QED
    BY <1>4, <1>7, <2>1 DEF Lookup
<1>8. CASE LoadSchema(q)
  <2>0. task[q] = "repair" => \A d \in Db : shape[d] \in HasColumns
    BY <1>0, <1>8 DEF LoadSchema, PlanInv
  <2>1. CASE NextDatabase(q)
    BY <1>0, <1>3, <2>0, <2>1, NextMoves DEF Moved
  <2>2. CASE Go(q, "define", on[q]) /\ UNCHANGED <<round, report, told>>
    <3>1. Moved(q, {"define"})
      BY <1>0, <2>2, GoesMoves DEF CallerTypes, Doing
    <3>2. {"define"} \in SUBSET (Doing \ Committing) /\ doing'[q] = "define"
      BY <3>1 DEF Doing, Committing, Moved
    <3> QED
      BY <1>1, <1>2, <2>0, <3>1, <3>2, StillInDatabases
  <2> QED
    BY <1>4, <1>8, <2>1, <2>2 DEF LoadSchema
<1> QED
  BY <1>5, <1>6, <1>7, <1>8

LEMMA ArriveInv ==
  ASSUME TenantInv, NEW q \in Caller, NEW t \in Task, ArriveAt(q, t)
  PROVE  TenantInv'
<1>0. CallerTypes /\ HistoryTypes /\ OwnTable /\ ReportsHold /\ PlanInv /\ ReadyIsTrue
  BY DEF TenantInv
<1>1. /\ doing' = [doing EXCEPT ![q] = IF t = "command" THEN "lookup" ELSE "catalog"]
      /\ on' = [on EXCEPT ![q] = "image"] /\ task' = [task EXCEPT ![q] = t]
      /\ doing[q] = "idle" /\ UNCHANGED <<shape, altering, round, report, told>>
  BY DEF ArriveAt, Go
<1>2. CallerTypes'
  BY <1>0, <1>1 DEF CallerTypes, Doing, Db
<1>3. HistoryTypes'
  BY <1>0 DEF ArriveAt, CallerTypes, HistoryTypes
<1>4. OwnTable' /\ ReportsHold' /\ ReadyIsTrue'
  BY <1>0, <1>1 DEF CallerTypes, OwnTable, ReportsHold, HasColumns, ReadyIsTrue, Committing
<1>5. PlanInv'
  BY <1>0, <1>1 DEF CallerTypes, PlanInv, InPlan, HasColumns
<1> QED
  BY <1>2, <1>3, <1>4, <1>5 DEF TenantInv

(* A step of q that changes a database for the better, or the open         *)
(* transactions, and leaves no doubt about who has one.                    *)
LEMMA GrowsInv ==
  ASSUME TenantInv, NEW q \in Caller, NEW statements \in SUBSET Doing,
         Moved(q, statements), Grows,
         shape' \in [Db -> Shape], altering' \in [Db -> Caller \cup {Nobody}],
         UNCHANGED <<task, before>>, HistoryTypes',
         \A p \in Caller \ {q}, d \in Db : (altering'[d] = p) <=> (altering[d] = p),
         \A d \in Db :
           (altering'[d] = q) <=> (doing'[q] \in Committing /\ on'[q] = d),
         InPlan(q)' => task[q] \in {"provision", "command"},
         doing'[q] \in {"load", "define", "commit"} /\ task[q] = "repair" =>
           \A d \in Db : shape[d] \in HasColumns
  PROVE  TenantInv'
<1>0. CallerTypes /\ OwnTable /\ ReportsHold /\ PlanInv /\ ReadyIsTrue
  BY DEF TenantInv
<1>1. CallerTypes'
  BY <1>0 DEF CallerTypes, Moved, MoverTypes
<1>2. OwnTable'
  BY <1>0 DEF OwnTable, Moved
<1>3. ReportsHold'
  BY <1>0 DEF ReportsHold, HasColumns, Grows, Moved
<1>4. PlanInv'
  <2>1. \A p \in Caller \ {q} : InPlan(p)' => InPlan(p)
    BY DEF InPlan, Moved
  <2> QED
    BY <1>0, <2>1 DEF PlanInv, Grows, Moved
<1>5. ReadyIsTrue'
  BY <1>0 DEF ReadyIsTrue, Grows, Moved
<1> QED
  BY <1>1, <1>2, <1>3, <1>4, <1>5 DEF TenantInv

LEMMA CreateDatabaseInv ==
  ASSUME TenantInv, NEW q \in Caller, CreateDatabase(q)
  PROVE  TenantInv'
<1>0. CallerTypes /\ HistoryTypes /\ OwnTable /\ PlanInv /\ doing[q] = "create"
  BY DEF TenantInv, CreateDatabase
<1>1. HistoryTypes' /\ UNCHANGED <<altering, task, before>>
  BY <1>0 DEF HistoryTypes, CreateDatabase
<1>2. \A d \in Db : altering[d] # q
  BY <1>0 DEF OwnTable, Committing
<1>3. task[q] \in {"provision", "command"}
  BY <1>0 DEF PlanInv, InPlan
<1>4. shape' \in [Db -> Shape] /\ Grows
  BY <1>0 DEF CreateDatabase, CallerTypes, Grows, Exists, Shape, Db, HasColumns
<1>5. ASSUME NEW w \in SUBSET (Doing \ Committing), Moved(q, w) PROVE TenantInv'
  <2>1. doing'[q] \in Doing \ Committing
    BY <1>5 DEF Moved
  <2>2. altering' \in [Db -> Caller \cup {Nobody}] /\ w \in SUBSET Doing
    BY <1>0, <1>1, <1>5 DEF CallerTypes
  <2>3. \A d \in Db : (altering'[d] = q) <=> (doing'[q] \in Committing /\ on'[q] = d)
    BY <1>1, <1>2, <2>1
  <2>4. \A p \in Caller \ {q}, d \in Db : (altering'[d] = p) <=> (altering[d] = p)
    BY <1>1
  <2>5. task[q] # "repair"
    BY <1>3
  <2> QED
    BY <1>1, <1>3, <1>4, <1>5, <2>2, <2>3, <2>4, <2>5, GrowsInv
<1>6. CASE Exists("image")
  <2>1. Moved(q, {"catalog", "over"})
    BY <1>0, <1>6, GivesUpMoves DEF CreateDatabase
  <2>2. {"catalog", "over"} \in SUBSET (Doing \ Committing)
    BY DEF Doing, Committing
  <2> QED
    BY <1>5, <2>1, <2>2
<1>7. CASE ~Exists("image")
  <2>1. Moved(q, {"define_new"})
    BY <1>0, <1>7, GoesMoves DEF CreateDatabase, Doing, Db
  <2>2. {"define_new"} \in SUBSET (Doing \ Committing)
    BY DEF Doing, Committing
  <2> QED
    BY <1>5, <2>1, <2>2
<1> QED
  BY <1>6, <1>7

LEMMA DefineInv ==
  ASSUME TenantInv, NEW q \in Caller, Define(q)
  PROVE  TenantInv'
<1>0. /\ CallerTypes /\ HistoryTypes /\ OwnTable /\ PlanInv
      /\ doing[q] \in {"define", "define_new"} /\ altering[on[q]] = Nobody
  BY DEF TenantInv, Define
<1>1. HistoryTypes' /\ UNCHANGED <<shape, task, before, company>>
  BY <1>0 DEF HistoryTypes, Define
<1>2. \A d \in Db : altering[d] # q
  BY <1>0 DEF OwnTable, Committing
<1>3. CASE shape[on[q]] = Was(q)
  <2> DEFINE w == IF doing[q] = "define" THEN "commit" ELSE "commit_new"
  <2>1. /\ altering' = [altering EXCEPT ![on[q]] = q]
        /\ Go(q, w, on[q]) /\ UNCHANGED <<round, report, told>>
    BY <1>3 DEF Define
  <2>2. w \in Committing /\ on[q] \in Db /\ w \in Doing
    BY <1>0 DEF Committing, CallerTypes, Doing
  <2>3. Moved(q, {w}) /\ on'[q] = on[q]
    BY <1>0, <2>1, <2>2, GoesMoves
  <2>4. Grows /\ shape' \in [Db -> Shape] /\ altering' \in [Db -> Caller \cup {Nobody}]
    BY <1>0, <1>1, <2>1 DEF Grows, CallerTypes
  <2>5. \A p \in Caller \ {q}, d \in Db : (altering'[d] = p) <=> (altering[d] = p)
    BY <1>0, <2>1, <2>2, CallerAssumption DEF CallerTypes
  <2>6. doing'[q] = w
    BY <2>3 DEF Moved
  <2>7. \A d \in Db : (altering'[d] = q) <=> (doing'[q] \in Committing /\ on'[q] = d)
    BY <1>0, <1>2, <2>1, <2>2, <2>3, <2>6 DEF CallerTypes
  <2>8. InPlan(q)' => task[q] \in {"provision", "command"}
    BY <1>0, <2>6 DEF InPlan, PlanInv
  <2>9. task[q] = "repair" => \A d \in Db : shape[d] \in HasColumns
    BY <1>0 DEF PlanInv, InPlan
  <2> QED
    BY <1>1, <2>2, <2>3, <2>4, <2>5, <2>7, <2>8, <2>9, GrowsInv
<1>4. CASE shape[on[q]] # Was(q)
  <2>1. Moved(q, {"catalog", "over"}) /\ UNCHANGED altering
    BY <1>0, <1>4, GivesUpMoves DEF Define
  <2>2. {"catalog", "over"} \in SUBSET (Doing \ Committing) /\ doing[q] \notin Committing
    BY <1>0 DEF Doing, Committing
  <2>3. doing'[q] \in {"catalog", "over"}
    BY <2>1 DEF Moved
  <2> QED
    BY <1>1, <2>1, <2>2, <2>3, StillInDatabases
<1> QED
  BY <1>3, <1>4

(* The table that q commits had the columns or did not exist.              *)
LEMMA CommitSchemaInv ==
  ASSUME TenantInv, NEW q \in Caller, CommitSchema(q)
  PROVE  TenantInv'
<1>0. /\ CallerTypes /\ HistoryTypes /\ OwnTable /\ PlanInv
      /\ doing[q] \in Committing
      /\ shape' = [shape EXCEPT ![on[q]] = "complete"]
      /\ altering' = [altering EXCEPT ![on[q]] = Nobody]
      /\ UNCHANGED <<task, before, company>>
  BY DEF TenantInv, CommitSchema, Committing
<1>1. HistoryTypes'
  BY <1>0 DEF HistoryTypes
<1>2. /\ Grows /\ shape' \in [Db -> Shape]
      /\ altering' \in [Db -> Caller \cup {Nobody}]
  BY <1>0 DEF Grows, CallerTypes, HasColumns, Shape
<1>3. altering[on[q]] = q /\ \A d \in Db : altering'[d] # q
  BY <1>0, CallerAssumption DEF OwnTable, CallerTypes
<1>4. \A p \in Caller \ {q}, d \in Db : (altering'[d] = p) <=> (altering[d] = p)
  BY <1>0, <1>3, CallerAssumption DEF CallerTypes
<1>5. task[q] = "repair" => \A d \in Db : shape[d] \in HasColumns
  BY <1>0 DEF PlanInv, InPlan, Committing
<1>6. Moved(q, {"load", "catalog", "over"})
  <2>0. \/ NextDatabase(q)
        \/ Say(q, "plans") /\ UNCHANGED round
        \/ Go(q, "load", "main") /\ UNCHANGED <<round, report, told>>
    BY DEF CommitSchema
  <2>1. CASE NextDatabase(q)
    BY <1>0, <2>1, NextMoves
  <2>2. CASE Say(q, "plans") /\ UNCHANGED round
    <3>1. Moved(q, {"over"})
      BY <1>0, <2>2, SayMoves DEF TenantAnswer
    <3> QED
      BY <3>1 DEF Moved
  <2>3. CASE Go(q, "load", "main") /\ UNCHANGED <<round, report, told>>
    <3>1. Moved(q, {"load"})
      BY <1>0, <2>3, GoesMoves DEF Doing, Db
    <3> QED
      BY <3>1 DEF Moved
  <2> QED
    BY <2>0, <2>1, <2>2, <2>3
<1>7. {"load", "catalog", "over"} \in SUBSET Doing
  BY DEF Doing
<1>8. doing'[q] \in {"load", "catalog", "over"}
  BY <1>6 DEF Moved
<1>9. \A d \in Db : (altering'[d] = q) <=> (doing'[q] \in Committing /\ on'[q] = d)
  BY <1>3, <1>8 DEF Committing
<1>10. ~ InPlan(q)'
  BY <1>8 DEF InPlan
<1> QED
  BY <1>0, <1>1, <1>2, <1>4, <1>5, <1>6, <1>7, <1>9, <1>10, GrowsInv

(* Whatever a caller leaves behind, it has no transaction any more.        *)
LEMMA DroppedInv ==
  ASSUME TenantInv, NEW q \in Caller, Dropped(q), Moved(q, {"catalog", "over"}),
         HistoryTypes', UNCHANGED <<task, before>>
  PROVE  TenantInv'
<1>0. CallerTypes /\ OwnTable
  BY DEF TenantInv
<1>1. altering' = [d \in Db |-> IF altering[d] = q THEN Nobody ELSE altering[d]]
  BY DEF Dropped
<1>2. Grows /\ shape' \in [Db -> Shape]
  <2>1. CASE UNCHANGED shape
    BY <1>0, <2>1 DEF Grows, CallerTypes
  <2>2. CASE shape' = [shape EXCEPT ![on[q]] = "complete"]
    BY <1>0, <2>2 DEF Grows, CallerTypes, HasColumns, Shape
  <2>3. CASE ~Exists("image") /\ shape' = [shape EXCEPT !["image"] = "bare"]
    BY <1>0, <2>3 DEF Grows, CallerTypes, HasColumns, Shape, Exists
  <2> QED
    BY <2>1, <2>2, <2>3 DEF Dropped
<1>3. altering' \in [Db -> Caller \cup {Nobody}]
  BY <1>0, <1>1 DEF CallerTypes
<1>4. \A p \in Caller \ {q}, d \in Db : (altering'[d] = p) <=> (altering[d] = p)
  BY <1>1, CallerAssumption
<1>5. {"catalog", "over"} \in SUBSET Doing /\ doing'[q] \in {"catalog", "over"}
  BY DEF Doing, Moved
<1>6. \A d \in Db : (altering'[d] = q) <=> (doing'[q] \in Committing /\ on'[q] = d)
  BY <1>1, <1>5, CallerAssumption DEF Committing
<1>7. ~ InPlan(q)'
  BY <1>5 DEF InPlan
<1> QED
  BY <1>2, <1>3, <1>4, <1>5, <1>6, <1>7, GrowsInv

LEMMA FailTenantInv ==
  ASSUME TenantInv, NEW q \in Caller, FailTenant(q)
  PROVE  TenantInv'
<1>0. CallerTypes /\ HistoryTypes
  BY DEF TenantInv
<1>1. HistoryTypes'
  BY <1>0 DEF HistoryTypes, FailTenant
<1>2. Moved(q, {"catalog", "over"})
  <2>1. CASE \E a \in {"failed", "not_ready", "refused"} : Say(q, a) /\ UNCHANGED round
    <3>1. Moved(q, {"over"})
      BY <1>0, <2>1, SayMoves DEF TenantAnswer
    <3> QED
      BY <3>1 DEF Moved
  <2>2. CASE GivesUp(q)
    BY <1>0, <2>2, GivesUpMoves
  <2> QED
    BY <2>1, <2>2 DEF FailTenant
<1> QED
  BY <1>1, <1>2, DroppedInv DEF FailTenant

LEMMA AbandonInv ==
  ASSUME TenantInv, NEW q \in Caller, Abandon(q)
  PROVE  TenantInv'
<1>0. CallerTypes /\ HistoryTypes
  BY DEF TenantInv
<1>1. HistoryTypes'
  BY <1>0 DEF HistoryTypes, Abandon
<1>2. Moved(q, {"over"})
  BY <1>0, SayMoves DEF TenantAnswer, Abandon
<1>3. Moved(q, {"catalog", "over"})
  BY <1>2 DEF Moved
<1> QED
  BY <1>1, <1>3, DroppedInv DEF Abandon

LEMMA TenantInvariance == TenantSpec => []TenantInv
<1>1. TenantInv /\ [TenantNext]_tenantVars => TenantInv'
  <2> SUFFICES ASSUME TenantInv, [TenantNext]_tenantVars PROVE TenantInv'
    OBVIOUS
  <2>1. CASE UNCHANGED tenantVars
    BY <2>1 DEF tenantVars, callerVars, TenantInv, CallerTypes, HistoryTypes, OwnTable,
       ReportsHold, PlanInv, InPlan, ReadyIsTrue
  <2>2. CASE \E q \in Caller, t \in Task : ArriveAt(q, t)
    BY <2>2, ArriveInv
  <2>3. CASE \E q \in Caller : TenantStep(q)
    BY <2>3, ReadCatalogInv, InspectInv, SayReadyInv, PlansInv, CreateDatabaseInv, DefineInv,
       CommitSchemaInv DEF TenantStep
  <2>4. CASE \E q \in Caller : FailTenant(q) \/ Abandon(q)
    BY <2>4, FailTenantInv, AbandonInv
  <2> QED
    BY <2>1, <2>2, <2>3, <2>4 DEF TenantNext
<1> QED
  BY <1>1, TenantInitInv, PTL DEF TenantSpec

(* The variables have their types, and exactly who is about to commit has  *)
(* a transaction open: nobody leaves one (smltenant.go's Rollbacks).       *)
THEOREM TenantTypeCorrect == TenantSpec => []TenantTypeOK
<1>1. TenantInv => TenantTypeOK
  BY DEF TenantInv, TenantTypeOK, CallerTypes, HistoryTypes, OwnTable, Doing, Committing
<1> QED
  BY <1>1, TenantInvariance, PTL

(* However many callers repair, provision, fail and go away, who is told   *)
(* "ready" finds both tables complete (tenant_readiness.go:102, 131, 176). *)
THEOREM ReadyMeansReady == TenantSpec => []ReadyIsTrue
<1>1. TenantInv => ReadyIsTrue
  BY DEF TenantInv
<1> QED
  BY <1>1, TenantInvariance, PTL

(* A repair alters a table only while both lack columns at most, and that  *)
(* even if others change them after its report (tenant_readiness.go:184).  *)
THEOREM RepairsTouchColumnsOnly == TenantSpec => []RepairsColumnsOnly
<1>1. TenantInv => RepairsColumnsOnly
  BY DEF TenantInv, RepairsColumnsOnly, OwnTable, PlanInv, InPlan, Committing, HasColumns
<1> QED
  BY <1>1, TenantInvariance, PTL


(* A tenant is not called ready before it is, nor half repaired.           *)
THEOREM TenantsStaySafe == TenantSpec => []TenantIsSafe
BY ReadyMeansReady, RepairsTouchColumnsOnly, PTL DEF TenantIsSafe

-----------------------------------------------------------------------------
(* A provision that is alone is on its way, whatever others left behind,   *)
(* and of provisions that meet one is always on its way (OnTheWayInv).     *)

(* A table is where the service would have it, or can be brought there.    *)
AllComplete == \A d \in Db : shape[d] = "complete"

(* What is so of a caller whatever it and others did before.               *)
Tracked(q) ==
  /\ told[q] # "none" => doing[q] = "over"
  /\ doing[q] = "idle" => task[q] = "check" /\ before[q] = Unread
  /\ doing[q] \notin {"catalog", "inspect", "decide", "over"} => round[q] = "first"
  /\ doing[q] \in {"define_new", "commit_new"} => on[q] = "image"
  /\ doing[q] \in {"inspect", "define_new", "commit_new"} => Exists("image")
  /\ task[q] = "provision" /\ doing[q] \in {"load", "define", "commit"}
       => Exists("image") /\ (on[q] = "image" => shape["main"] = "complete")
  /\ doing[q] \in {"commit", "commit_new"} => shape[on[q]] = Was(q)
  /\ report[q]["image"] \in {"bare", "complete"} => Exists("image")
  /\ Provisionable(before[q]) => Provisionable(shape)

(* A provision that will not give up unless somebody else has done the     *)
(* table it is about to do.                                                *)
Carrier(q) ==
  /\ task[q] = "provision" /\ round[q] = "first"
  /\ \/ doing[q] \in {"catalog", "load"}
     \/ doing[q] = "inspect" /\ (on[q] = "image" => report[q]["main"] \in {"bare", "complete"})
     \/ /\ doing[q] = "decide"
        /\ \/ /\ report[q]["main"] = "unread" /\ report[q]["image"] = "missing"
              /\ ~Exists("image")
           \/ \A d \in Db : report[q][d] \in {"bare", "complete"}
     \/ doing[q] \in {"lookup", "create"} /\ ~Exists("image")
     \/ doing[q] \in {"define_new", "commit_new", "define", "commit"}
        /\ shape[on[q]] = "bare"

(* It has done both tables and looks at them for the last time.            *)
LastLook(q) ==
  /\ AllComplete /\ round[q] = "last"
  /\ \/ doing[q] = "catalog"
     \/ doing[q] = "inspect" /\ (on[q] = "image" => report[q]["main"] = "complete")
     \/ doing[q] = "decide" /\ ReportOK(q)

OnTrack(q) ==
  Carrier(q) \/ LastLook(q) \/ (doing[q] = "over" /\ told[q] \in {"ready", "lost"})

AloneInv ==
  \A q \in Caller : company[q] = "alone" =>
    /\ q \in About => About = {q}
    /\ task[q] = "provision" /\ Provisionable(before[q]) => OnTrack(q)

(* Nobody failed or went away, and nobody ran the command.                 *)
Clean == \A q \in Caller : /\ company[q] # "hurt" /\ told[q] # "lost"
                           /\ task[q] # "command"

CarrierInv ==
  (Clean /\ \E q \in Caller : task[q] = "provision" /\ Provisionable(before[q]))
    => AllComplete \/ \E q \in Caller : Carrier(q)

OnTheWayInv == (\A q \in Caller : Tracked(q)) /\ AloneInv /\ CarrierInv

-----------------------------------------------------------------------------
(* TenantGetsReady.  What a step of q leaves as it is: all that the others *)
(* know and are about to do.                                               *)
Stays(p) ==
  /\ doing'[p] = doing[p] /\ on'[p] = on[p] /\ round'[p] = round[p]
  /\ report'[p] = report[p] /\ told'[p] = told[p] /\ task'[p] = task[p]
  /\ before'[p] = before[p]

Works(q) == TenantStep(q) \/ FailTenant(q) \/ Abandon(q)

(* What a caller's variables are after it goes on, says something or       *)
(* begins another round.                                                   *)
LEMMA GoIs ==
  ASSUME CallerTypes, NEW q \in Caller, NEW w, NEW d, Go(q, w, d)
  PROVE  /\ doing'[q] = w /\ on'[q] = d
         /\ \A p \in Caller \ {q} : doing'[p] = doing[p] /\ on'[p] = on[p]
BY DEF CallerTypes, Go

LEMMA SayIs ==
  ASSUME CallerTypes, NEW q \in Caller, NEW a, Say(q, a)
  PROVE  /\ doing'[q] = "over" /\ told'[q] = a /\ report'[q] = Unread /\ on' = on
         /\ \A p \in Caller \ {q} : /\ doing'[p] = doing[p] /\ told'[p] = told[p]
                                    /\ report'[p] = report[p]
BY DEF CallerTypes, Say

LEMMA RoundIs ==
  ASSUME CallerTypes, NEW q \in Caller, NEW t, round' = [round EXCEPT ![q] = t]
  PROVE  round'[q] = t /\ \A p \in Caller \ {q} : round'[p] = round[p]
BY DEF CallerTypes

(* How a plan, a schema or an alteration ends that does not work out.      *)
LEMMA GivesUpIs ==
  ASSUME CallerTypes, NEW q \in Caller, GivesUp(q), UNCHANGED <<task, before>>
  PROVE  /\ \A p \in Caller \ {q} : Stays(p)
         /\ \/ /\ doing'[q] = "catalog" /\ told' = told /\ report' = report
               /\ round'[q] = "again"
            \/ /\ doing'[q] = "over" /\ report'[q] = Unread
               /\ told'[q] \in {"failed", "refused"}
<1>1. CASE InPlan(q) /\ task[q] = "provision"
  <2>1. Go(q, "catalog", "image") /\ round' = [round EXCEPT ![q] = "again"]
        /\ UNCHANGED <<report, told>>
    BY <1>1 DEF GivesUp
  <2> QED
    BY <2>1, GoIs, RoundIs DEF Stays
<1>2. CASE ~(InPlan(q) /\ task[q] = "provision")
  <2>1. PICK a \in {"failed", "refused"} : Say(q, a) /\ UNCHANGED round
    BY <1>2 DEF GivesUp
  <2> QED
    BY <2>1, SayIs DEF Stays
<1> QED
  BY <1>1, <1>2

(* After a database is done: the other one, the plans or the last look.    *)
LEMMA NextDatabaseIs ==
  ASSUME CallerTypes, NEW q \in Caller, NextDatabase(q), UNCHANGED <<task, before>>
  PROVE  /\ \A p \in Caller \ {q} : Stays(p)
         /\ \/ /\ on[q] = "main" /\ doing'[q] = "load" /\ on'[q] = "image"
               /\ round' = round /\ told' = told /\ report' = report
            \/ /\ on[q] # "main" /\ task[q] = "preview" /\ doing'[q] = "over"
               /\ report'[q] = Unread /\ told'[q] = "plans"
            \/ /\ on[q] # "main" /\ task[q] # "preview" /\ doing'[q] = "catalog"
               /\ round'[q] = "last" /\ told' = told /\ report' = report
<1>1. CASE on[q] = "main"
  BY <1>1, GoIs DEF NextDatabase, Stays
<1>2. CASE on[q] # "main" /\ task[q] = "preview"
  BY <1>2, SayIs DEF NextDatabase, Stays
<1>3. CASE on[q] # "main" /\ task[q] # "preview"
  <2>1. Go(q, "catalog", "image") /\ round' = [round EXCEPT ![q] = "last"]
        /\ UNCHANGED <<report, told>>
    BY <1>3 DEF NextDatabase
  <2> QED
    BY <1>3, <2>1, GoIs, RoundIs DEF Stays
<1> QED
  BY <1>1, <1>2, <1>3

(* A step of q is no step of another caller.                               *)
LEMMA OthersStay ==
  ASSUME CallerTypes, NEW q \in Caller, Works(q)
  PROVE  UNCHANGED <<task, before>> /\ \A p \in Caller \ {q} : Stays(p)
<1>1. UNCHANGED <<task, before>>
  BY DEF Works, TenantStep, Kept, ReadCatalog, Inspect, SayReady, SayNotReady, Begin, Lookup,
     CreateDatabase, LoadSchema, Define, CommitSchema, FailTenant, Abandon
<1>2. ASSUME NEW w, NEW d, Go(q, w, d), UNCHANGED <<round, told>>,
             \A p \in Caller \ {q} : report'[p] = report[p]
      PROVE  \A p \in Caller \ {q} : Stays(p)
  BY <1>1, <1>2, GoIs DEF Stays
<1>3. ASSUME NEW a, Say(q, a), UNCHANGED round
      PROVE  \A p \in Caller \ {q} : Stays(p)
  BY <1>1, <1>3, SayIs DEF Stays
<1>4. CASE ReadCatalog(q)
  <2>1. \A p \in Caller \ {q} : report'[p] = report[p]
    BY <1>4 DEF ReadCatalog, CallerTypes
  <2> QED
    BY <1>1, <1>2, <1>4, <2>1 DEF ReadCatalog
<1>5. CASE Inspect(q)
  <2>1. \A p \in Caller \ {q} : report'[p] = report[p]
    BY <1>5 DEF Inspect, CallerTypes
  <2> QED
    BY <1>1, <1>2, <1>5, <2>1 DEF Inspect
<1>6. CASE SayReady(q) \/ SayNotReady(q)
  BY <1>1, <1>3, <1>6 DEF SayReady, SayNotReady
<1>7. CASE Begin(q)
  BY <1>1, <1>2, <1>7 DEF Begin
<1>8. CASE Lookup(q)
  BY <1>1, <1>2, <1>8, GivesUpIs DEF Lookup
<1>9. CASE CreateDatabase(q)
  BY <1>1, <1>2, <1>9, GivesUpIs DEF CreateDatabase
<1>10. CASE LoadSchema(q)
  BY <1>1, <1>2, <1>10, GivesUpIs, NextDatabaseIs DEF LoadSchema
<1>11. CASE Define(q)
  BY <1>1, <1>2, <1>11, GivesUpIs DEF Define
<1>12. CASE CommitSchema(q)
  BY <1>1, <1>2, <1>3, <1>12, NextDatabaseIs DEF CommitSchema
<1>13. CASE FailTenant(q)
  BY <1>1, <1>3, <1>13, GivesUpIs DEF FailTenant
<1>14. CASE Abandon(q)
  BY <1>3, <1>14 DEF Abandon
<1> QED
  BY <1>1, <1>4, <1>5, <1>6, <1>7, <1>8, <1>9, <1>10, <1>11, <1>12, <1>13, <1>14
     DEF Works, TenantStep

-----------------------------------------------------------------------------
(* What a step of q can do to the databases.                               *)
ShapeMoves(q) ==
  \A d \in Db :
    \/ shape'[d] = shape[d]
    \/ d = "image" /\ shape[d] = "missing" /\ shape'[d] = "bare"
    \/ altering[d] = q /\ shape[d] = Was(q) /\ shape'[d] = "complete"

LEMMA ShapesMove ==
  ASSUME TenantInv, NEW q \in Caller, Tracked(q), Works(q)
  PROVE  ShapeMoves(q)
<1>0. CallerTypes /\ OwnTable
  BY DEF TenantInv
<1>1. CASE UNCHANGED shape
  BY <1>1 DEF ShapeMoves
<1>2. CASE doing[q] \in {"commit", "commit_new"} /\ shape' = [shape EXCEPT ![on[q]] = "complete"]
  <2>1. altering[on[q]] = q /\ shape[on[q]] = Was(q)
    BY <1>0, <1>2 DEF OwnTable, Committing, CallerTypes, Tracked
  <2>2. \A d \in Db : d # on[q] => shape'[d] = shape[d]
    BY <1>0, <1>2 DEF CallerTypes
  <2>3. on[q] \in Db /\ shape'[on[q]] = "complete"
    BY <1>0, <1>2 DEF CallerTypes
  <2> QED
    BY <2>1, <2>2, <2>3 DEF ShapeMoves
<1>3. CASE ~Exists("image") /\ shape' = [shape EXCEPT !["image"] = "bare"]
  <2>1. shape'["image"] = "bare" /\ shape["image"] = "missing"
        /\ \A d \in Db : d # "image" => shape'[d] = shape[d]
    BY <1>0, <1>3 DEF CallerTypes, Exists, Db
  <2> QED
    BY <2>1 DEF ShapeMoves
<1>4. \/ UNCHANGED shape
      \/ doing[q] \in {"commit", "commit_new"} /\ shape' = [shape EXCEPT ![on[q]] = "complete"]
      \/ ~Exists("image") /\ shape' = [shape EXCEPT !["image"] = "bare"]
  <2>1. CASE TenantStep(q)
    BY <2>1 DEF TenantStep, Kept, ReadCatalog, Inspect, SayReady, SayNotReady, Begin, Lookup,
       CreateDatabase, LoadSchema, Define, CommitSchema
  <2>2. CASE FailTenant(q) \/ Abandon(q)
    <3>1. Dropped(q)
      BY <2>2 DEF FailTenant, Abandon
    <3> QED
      BY <3>1 DEF Dropped
  <2> QED
    BY <2>1, <2>2 DEF Works
<1> QED
  BY <1>1, <1>2, <1>3, <1>4

(* What is made stays, and who commits finds his table as he left it.      *)
Improves ==
  /\ \A d \in Db : Exists(d) => Exists(d)'
  /\ \A d \in Db : shape[d] = "complete" => shape'[d] = "complete"
  /\ Provisionable(shape) => Provisionable(shape')

LEMMA ShapesImprove ==
  ASSUME TenantInv, NEW q \in Caller, ShapeMoves(q), \A p \in Caller : Tracked(p)
  PROVE  /\ Improves
         /\ \A p \in Caller \ {q} :
              doing[p] \in {"commit", "commit_new"} => shape'[on[p]] = shape[on[p]]
<1>0. CallerTypes /\ OwnTable
  BY DEF TenantInv
<1>1. Was(q) \in {"bare", "lacking"}
  BY DEF Was
<1>2. Improves
  BY <1>0, <1>1 DEF Improves, ShapeMoves, Exists, Provisionable, CallerTypes, Db
<1>3. ASSUME NEW p \in Caller \ {q}, doing[p] \in {"commit", "commit_new"},
             shape[on[p]] = Was(p)
      PROVE  shape'[on[p]] = shape[on[p]]
  <2>1. on[p] \in Db /\ altering[on[p]] = p
    BY <1>0, <1>3 DEF OwnTable, Committing, CallerTypes
  <2>2. shape[on[p]] # "missing"
    BY <1>3 DEF Was
  <2> QED
    BY <2>1, <2>2 DEF ShapeMoves
<1> QED
  BY <1>2, <1>3 DEF Tracked

-----------------------------------------------------------------------------
(* What a step of q makes of q.  When it ends, or looks again:             *)
LEMMA EndIsTracked ==
  ASSUME NEW q \in Caller, Tracked(q), Improves, before' = before, doing[q] # "over",
         doing'[q] \in {"catalog", "over"},
         doing'[q] = "catalog" => told'[q] = told[q],
         report'[q] \in {report[q], Unread}
  PROVE  Tracked(q)'
<1>1. report'[q]["image"] \in {"bare", "complete"} => report[q]["image"] \in {"bare", "complete"}
  BY DEF Unread, Db
<1>2. Exists("image") => Exists("image")'
  BY DEF Improves, Db
<1>3. Provisionable(before[q]) => Provisionable(shape')
  BY DEF Tracked, Improves
<1> QED
  BY <1>1, <1>2, <1>3 DEF Tracked

(* On the way to a table of a provision: what is kept from step to step.   *)
LEMMA OnItsWay ==
  ASSUME NEW q \in Caller, Tracked(q), Improves, UNCHANGED <<task, before, report>>,
         told'[q] = told[q], doing[q] \notin {"idle", "over"},
         doing'[q] \in {"decide", "lookup", "create", "define_new", "commit_new", "load",
                        "define", "commit"},
         round'[q] = "first",
         doing'[q] \in {"define_new", "commit_new"} => on'[q] = "image" /\ Exists("image")',
         task[q] = "provision" /\ doing'[q] \in {"load", "define", "commit"}
           => Exists("image")' /\ (on'[q] = "image" => shape'["main"] = "complete"),
         doing'[q] \in {"commit", "commit_new"} => shape'[on'[q]] = Was(q)
  PROVE  Tracked(q)'
<1>1. Exists("image") => Exists("image")'
  BY DEF Improves, Db
<1>2. Provisionable(before[q]) => Provisionable(shape')
  BY DEF Tracked, Improves
<1>3. Was(q)' = Was(q)
  BY DEF Was
<1> QED
  BY <1>1, <1>2, <1>3 DEF Tracked

Goes(q) ==
  /\ Tracked(q)'
  /\ Carrier(q) /\ Provisionable(shape) => OnTrack(q)'
  /\ LastLook(q) => OnTrack(q)'

LEMMA GivingUpGoes ==
  ASSUME TenantInv, NEW q \in Caller, Tracked(q), GivesUp(q), Improves,
         UNCHANGED <<task, before>>, doing[q] # "over",
         doing[q] \notin {"catalog", "inspect", "decide"}, ~Carrier(q)
  PROVE  Goes(q)
<1>0. CallerTypes
  BY DEF TenantInv
<1>1. Tracked(q)'
  BY <1>0, GivesUpIs, EndIsTracked
<1>2. ~LastLook(q)
  BY DEF LastLook
<1> QED
  BY <1>1, <1>2 DEF Goes

(* Statement by statement: a carrier stays one or goes on to its last      *)
(* look.                                                                   *)
LEMMA ReadCatalogGoes ==
  ASSUME TenantInv, NEW q \in Caller, Tracked(q), ReadCatalog(q)
  PROVE  Goes(q)
<1>0. CallerTypes
  BY DEF TenantInv
<1>1. /\ doing[q] = "catalog" /\ UNCHANGED <<shape, task, before, round, told>>
      /\ report'[q] = [d \in Db |-> IF Exists(d) THEN "unread" ELSE "missing"]
  BY <1>0 DEF ReadCatalog, Kept, CallerTypes
<1>2. /\ report'[q]["main"] = (IF Exists("main") THEN "unread" ELSE "missing")
      /\ report'[q]["image"] = (IF Exists("image") THEN "unread" ELSE "missing")
  BY <1>1 DEF Db
<1>3. IF Exists("main") /\ Exists("image")
        THEN doing'[q] = "inspect" /\ on'[q] = "main"
        ELSE doing'[q] = "decide"
  BY <1>0, GoIs DEF ReadCatalog, Db
<1>4. \A d \in Db : Exists(d)' <=> Exists(d)
  BY <1>1 DEF Exists
<1>5. Tracked(q)'
  BY <1>1, <1>2, <1>3, <1>4 DEF Tracked, Db
<1>6. Carrier(q) /\ Provisionable(shape) => Carrier(q)'
  BY <1>1, <1>2, <1>3, <1>4 DEF Carrier, Provisionable, Exists, Db
<1>7. LastLook(q) => LastLook(q)'
  BY <1>1, <1>2, <1>3 DEF LastLook, AllComplete, Exists, Db
<1> QED
  BY <1>5, <1>6, <1>7 DEF Goes, OnTrack

(* A table that can be provided is bare or complete when it is looked at.  *)
LEMMA InspectGoes ==
  ASSUME TenantInv, NEW q \in Caller, Tracked(q), Inspect(q)
  PROVE  Goes(q)
<1>0. CallerTypes /\ on[q] \in {"main", "image"}
  BY DEF TenantInv, CallerTypes, Db
<1>1. doing[q] = "inspect" /\ UNCHANGED <<shape, task, before, round, told>>
  BY DEF Inspect, Kept
<1>2. report'[q][on[q]] = shape[on[q]]
      /\ \A d \in Db : d # on[q] => report'[q][d] = report[q][d]
  BY <1>0 DEF Inspect, CallerTypes
<1>3. IF on[q] = "main" THEN doing'[q] = "inspect" /\ on'[q] = "image"
                        ELSE doing'[q] = "decide"
  BY <1>0, GoIs DEF Inspect
<1>4. \A d \in Db : Exists(d)' <=> Exists(d)
  BY <1>1 DEF Exists
<1>5. Tracked(q)'
  <2>1. report'[q]["image"] \in {"bare", "complete"} => Exists("image")'
    BY <1>1, <1>4 DEF Tracked, Db
  <2> QED
    BY <1>0, <1>1, <1>3, <1>4, <2>1 DEF Tracked, Db
<1>6. Exists("image")
  BY <1>1 DEF Tracked
<1>7. Carrier(q) /\ Provisionable(shape) => Carrier(q)'
  <2> SUFFICES ASSUME Carrier(q), Provisionable(shape) PROVE Carrier(q)'
    OBVIOUS
  <2>1. task'[q] = "provision" /\ round'[q] = "first"
    BY <1>1 DEF Carrier
  <2>2. CASE on[q] = "main"
    <3>1. report'[q]["main"] \in {"bare", "complete"}
      BY <1>2, <2>2 DEF Provisionable
    <3> QED
      BY <1>3, <2>1, <2>2, <3>1 DEF Carrier
  <2>3. CASE on[q] = "image"
    <3>1. report'[q]["main"] \in {"bare", "complete"}
      BY <1>1, <1>2, <2>3 DEF Carrier, Db
    <3>2. report'[q]["image"] \in {"bare", "complete"}
      BY <1>2, <1>6, <2>3 DEF Provisionable, Exists
    <3> QED
      BY <1>3, <2>1, <2>3, <3>1, <3>2 DEF Carrier, Db
  <2> QED
    BY <1>0, <2>2, <2>3
<1>8. LastLook(q) => LastLook(q)'
  <2> SUFFICES ASSUME LastLook(q) PROVE LastLook(q)'
    OBVIOUS
  <2>1. AllComplete' /\ round'[q] = "last"
    BY <1>1 DEF LastLook, AllComplete
  <2>2. CASE on[q] = "main"
    <3>1. report'[q]["main"] = "complete"
      BY <1>2, <2>2 DEF LastLook, AllComplete, Db
    <3> QED
      BY <1>3, <2>1, <2>2, <3>1 DEF LastLook
  <2>3. CASE on[q] = "image"
    <3>1. report'[q]["main"] = "complete"
      BY <1>1, <1>2, <2>3 DEF LastLook, Db
    <3>2. report'[q]["image"] = "complete"
      BY <1>2, <2>3 DEF LastLook, AllComplete, Db
    <3>3. ReportOK(q)'
      BY <3>1, <3>2 DEF ReportOK, Db
    <3> QED
      BY <1>3, <2>1, <2>3, <3>3 DEF LastLook
  <2> QED
    BY <1>0, <2>2, <2>3
<1> QED
  BY <1>5, <1>7, <1>8 DEF Goes, OnTrack

(* A carrier is not refused: something is missing, and all that is can be  *)
(* provided.                                                               *)
LEMMA CarrierDecides ==
  ASSUME NEW q \in Caller, Carrier(q), doing[q] = "decide"
  PROVE  /\ round[q] = "first" /\ task[q] = "provision"
         /\ ReportOK(q) \/ ~Refuses(q)
         /\ IF report[q]["image"] = "missing" THEN ~Exists("image")
            ELSE report[q]["image"] \in {"bare", "complete"}
<1>1. ~ReportOK(q) => tenantCanProvisionDocImages(report[q])
  BY DEF Carrier, ReportOK, tenantCanProvisionDocImages, Db
<1>2. task[q] = "provision" /\ round[q] = "first"
  BY DEF Carrier
<1>3. Refuses(q) <=> ~tenantCanProvisionDocImages(report[q])
  BY <1>2 DEF Refuses
<1>4. IF report[q]["image"] = "missing" THEN ~Exists("image")
      ELSE report[q]["image"] \in {"bare", "complete"}
  BY DEF Carrier, Db
<1> QED
  BY <1>1, <1>2, <1>3, <1>4

(* Whoever is told that the tenant is ready has arrived.                   *)
LEMMA SayReadyGoes ==
  ASSUME TenantInv, NEW q \in Caller, Tracked(q), SayReady(q)
  PROVE  Goes(q)
<1>0. CallerTypes
  BY DEF TenantInv
<1>1. /\ doing[q] = "decide" /\ doing'[q] = "over" /\ told'[q] = "ready"
      /\ report'[q] = Unread /\ UNCHANGED <<shape, task, before>>
  BY <1>0, SayIs DEF SayReady, Kept
<1>2. Improves
  BY <1>1 DEF Improves, Exists
<1>3. Tracked(q)'
  BY <1>1, <1>2, EndIsTracked
<1>4. OnTrack(q)'
  BY <1>1 DEF OnTrack
<1> QED
  BY <1>3, <1>4 DEF Goes

(* A carrier is not refused, and its last look is OK.                      *)
LEMMA SayNotReadyGoes ==
  ASSUME TenantInv, NEW q \in Caller, Tracked(q), SayNotReady(q)
  PROVE  Goes(q)
<1>0. CallerTypes
  BY DEF TenantInv
<1>1. PICK a : Say(q, a)
  BY DEF SayNotReady
<1>2. /\ doing[q] = "decide" /\ ~ReportOK(q) /\ doing'[q] = "over"
      /\ report'[q] = Unread /\ UNCHANGED <<shape, task, before>>
  BY <1>0, <1>1, SayIs DEF SayNotReady, Kept
<1>3. Improves
  BY <1>2 DEF Improves, Exists
<1>4. Tracked(q)'
  BY <1>2, <1>3, EndIsTracked
<1>5. ~LastLook(q)
  BY <1>2 DEF LastLook
<1>6. ~Carrier(q)
  <2> SUFFICES ASSUME Carrier(q) PROVE FALSE
    OBVIOUS
  <2>1. round[q] = "first" /\ ~Refuses(q)
    BY <1>2, CarrierDecides
  <2> QED
    BY <2>1 DEF SayNotReady
<1> QED
  BY <1>4, <1>5, <1>6 DEF Goes

(* A carrier creates the image database only if it is missing.             *)
LEMMA BeginGoes ==
  ASSUME TenantInv, NEW q \in Caller, Tracked(q), Begin(q)
  PROVE  Goes(q)
<1>0. CallerTypes
  BY DEF TenantInv
<1>1. /\ doing[q] = "decide" /\ ~ReportOK(q) /\ round[q] = "first" /\ ~Refuses(q)
      /\ UNCHANGED <<shape, task, before, round, report, told>>
  BY DEF Begin, Kept
<1>2. IF task[q] = "provision" /\ report[q]["image"] = "missing"
        THEN doing'[q] = "lookup"
        ELSE doing'[q] = "load" /\ on'[q] = "main"
  BY <1>0, GoIs DEF Begin
<1>3. \A d \in Db : Exists(d)' <=> Exists(d)
  BY <1>1 DEF Exists
<1>4. Improves
  BY <1>1, <1>3 DEF Improves
<1>5. task[q] = "provision" /\ report[q]["image"] # "missing" => Exists("image")
  <2> SUFFICES ASSUME task[q] = "provision", report[q]["image"] # "missing"
               PROVE  Exists("image")
    OBVIOUS
  <2>1. tenantCanProvisionDocImages(report[q])
    BY <1>1 DEF Refuses
  <2>2. report[q]["image"] \in {"bare", "complete"}
    BY <2>1 DEF tenantCanProvisionDocImages
  <2> QED
    BY <2>2 DEF Tracked
<1>6. Tracked(q)'
  <2>1. "image" \in Db
    BY DEF Db
  <2> QED
    BY <1>1, <1>2, <1>3, <1>4, <1>5, <2>1, OnItsWay
<1>7. Carrier(q) => Carrier(q)'
  <2>1. Carrier(q) /\ doing'[q] = "lookup" => ~Exists("image")'
    BY <1>1, <1>2, <1>3, CarrierDecides DEF Db
  <2> QED
    BY <1>1, <1>2, <2>1 DEF Carrier
<1>8. ~LastLook(q)
  BY <1>1 DEF LastLook
<1> QED
  BY <1>6, <1>7, <1>8 DEF Goes, OnTrack

(* It still is when it is looked for, or somebody else has created it.     *)
LEMMA LookupGoes ==
  ASSUME TenantInv, NEW q \in Caller, Tracked(q), Lookup(q)
  PROVE  Goes(q)
<1>0. CallerTypes
  BY DEF TenantInv
<1>1. doing[q] = "lookup" /\ UNCHANGED <<shape, task, before>>
  BY DEF Lookup, Kept
<1>2. \A d \in Db : Exists(d)' <=> Exists(d)
  BY <1>1 DEF Exists
<1>3. Improves
  BY <1>1, <1>2 DEF Improves
<1>4. ~LastLook(q)
  BY <1>1 DEF LastLook
<1>5. CASE Exists("main") /\ ~Exists("image")
  <2>1. doing'[q] = "create" /\ UNCHANGED <<round, report, told>>
    BY <1>0, <1>5, GoIs DEF Lookup
  <2>2. round[q] = "first"
    BY <1>1 DEF Tracked
  <2>3. Tracked(q)'
    BY <1>1, <1>3, <2>1, <2>2, OnItsWay
  <2>4. Carrier(q) => Carrier(q)'
    BY <1>1, <1>2, <1>5, <2>1 DEF Carrier, Db
  <2> QED
    BY <1>4, <2>3, <2>4 DEF Goes, OnTrack
<1>6. CASE ~(Exists("main") /\ ~Exists("image"))
  <2>1. GivesUp(q)
    BY <1>6 DEF Lookup
  <2>2. ~(Carrier(q) /\ Provisionable(shape))
    BY <1>1, <1>6 DEF Carrier, Provisionable, Exists
  <2>3. Tracked(q)'
    BY <1>0, <1>1, <1>3, <2>1, GivesUpIs, EndIsTracked
  <2> QED
    BY <1>4, <2>2, <2>3 DEF Goes
<1> QED
  BY <1>5, <1>6

(* CREATE DATABASE succeeds if the database is still missing.              *)
LEMMA CreateDatabaseGoes ==
  ASSUME TenantInv, NEW q \in Caller, Tracked(q), Improves, CreateDatabase(q)
  PROVE  Goes(q)
<1>0. CallerTypes
  BY DEF TenantInv
<1>1. doing[q] = "create" /\ UNCHANGED <<task, before>>
  BY DEF CreateDatabase
<1>2. CASE Exists("image")
  <2>1. GivesUp(q)
    BY <1>2 DEF CreateDatabase
  <2>2. ~Carrier(q)
    BY <1>1, <1>2 DEF Carrier
  <2> QED
    BY <1>1, <2>1, <2>2, GivingUpGoes
<1>3. CASE ~Exists("image")
  <2>1. /\ doing'[q] = "define_new" /\ on'[q] = "image" /\ shape'["image"] = "bare"
        /\ UNCHANGED <<round, report, told>>
    BY <1>0, <1>3, GoIs DEF CreateDatabase, CallerTypes, Db
  <2>2. round[q] = "first" /\ Exists("image")'
    BY <1>1, <2>1 DEF Tracked, Exists
  <2>3. Tracked(q)'
    BY <1>1, <2>1, <2>2, OnItsWay
  <2>4. Carrier(q) => Carrier(q)'
    BY <1>1, <2>1 DEF Carrier
  <2>5. ~LastLook(q)
    BY <1>1 DEF LastLook
  <2> QED
    BY <2>3, <2>4, <2>5 DEF Goes, OnTrack
<1> QED
  BY <1>2, <1>3

(* A provision is done with the image database last.                       *)
LEMMA NextDatabaseGoes ==
  ASSUME TenantInv, NEW q \in Caller, Tracked(q), Improves, NextDatabase(q),
         UNCHANGED <<task, before>>, doing[q] \in {"load", "commit"},
         task[q] = "provision" => shape'[on[q]] = "complete"
  PROVE  Goes(q)
<1>0. CallerTypes /\ on[q] \in {"main", "image"}
  BY DEF TenantInv, CallerTypes, Db
<1>1. ~LastLook(q) /\ round[q] = "first"
  BY DEF LastLook, Tracked
<1>2. task[q] = "provision" => Exists("image")'
  BY DEF Tracked, Improves, Db
<1>3. CASE on[q] = "main"
  <2>1. /\ doing'[q] = "load" /\ on'[q] = "image"
        /\ round' = round /\ told' = told /\ report' = report
    BY <1>0, <1>3, NextDatabaseIs
  <2>2. Tracked(q)'
    BY <1>1, <1>2, <1>3, <2>1, OnItsWay
  <2>3. Carrier(q) => Carrier(q)'
    BY <2>1 DEF Carrier
  <2> QED
    BY <1>1, <2>2, <2>3 DEF Goes, OnTrack
<1>4. CASE on[q] = "image"
  <2>1. Tracked(q)'
    BY <1>0, <1>4, NextDatabaseIs, EndIsTracked
  <2>2. task[q] = "provision" => LastLook(q)'
    <3> SUFFICES ASSUME task[q] = "provision" PROVE LastLook(q)'
      OBVIOUS
    <3>1. doing'[q] = "catalog" /\ round'[q] = "last"
      BY <1>0, <1>4, NextDatabaseIs
    <3>2. shape["main"] = "complete"
      BY <1>4 DEF Tracked
    <3>3. AllComplete'
      BY <1>4, <3>2 DEF AllComplete, Improves, Db
    <3> QED
      BY <3>1, <3>3 DEF LastLook
  <2>3. Carrier(q) => task[q] = "provision"
    BY DEF Carrier
  <2> QED
    BY <1>1, <2>1, <2>2, <2>3 DEF Goes, OnTrack
<1> QED
  BY <1>0, <1>3, <1>4

(* A table that can be provided is complete, or bare and gets defined.     *)
LEMMA LoadSchemaGoes ==
  ASSUME TenantInv, NEW q \in Caller, Tracked(q), LoadSchema(q)
  PROVE  Goes(q)
<1>0. CallerTypes /\ on[q] \in Db
  BY DEF TenantInv, CallerTypes
<1>1. doing[q] = "load" /\ UNCHANGED <<shape, task, before>>
  BY DEF LoadSchema, Kept
<1>2. \A d \in Db : Exists(d)' <=> Exists(d)
  BY <1>1 DEF Exists
<1>3. Improves
  BY <1>1, <1>2 DEF Improves
<1>4. ~LastLook(q) /\ round[q] = "first"
  BY <1>1 DEF LastLook, Tracked
<1>5. CASE NextDatabase(q) /\ (task[q] = "provision" => shape[on[q]] = "complete")
  BY <1>1, <1>3, <1>5, NextDatabaseGoes
<1>6. CASE /\ Go(q, "define", on[q]) /\ UNCHANGED <<round, report, told>>
           /\ task[q] = "provision" => shape[on[q]] = "bare"
  <2>1. doing'[q] = "define" /\ on'[q] = on[q] /\ UNCHANGED <<round, report, told>>
    BY <1>0, <1>6, GoIs
  <2>2. task[q] = "provision" => Exists("image") /\ (on[q] = "image" => shape["main"] = "complete")
    BY <1>1 DEF Tracked
  <2>3. "image" \in Db
    BY DEF Db
  <2>4. Tracked(q)'
    BY <1>1, <1>2, <1>3, <1>4, <2>1, <2>2, <2>3, OnItsWay
  <2>5. Carrier(q) => Carrier(q)'
    BY <1>1, <1>6, <2>1 DEF Carrier
  <2> QED
    BY <1>4, <2>4, <2>5 DEF Goes, OnTrack
<1>7. CASE /\ GivesUp(q)
           /\ task[q] = "provision" => shape[on[q]] \notin {"bare", "complete"}
  <2>1. ~(Carrier(q) /\ Provisionable(shape))
    <3> SUFFICES ASSUME Carrier(q), Provisionable(shape) PROVE FALSE
      OBVIOUS
    <3>1. task[q] = "provision"
      BY DEF Carrier
    <3>2. Exists("image")
      BY <1>1, <3>1 DEF Tracked
    <3> QED
      BY <1>0, <1>7, <3>1, <3>2 DEF Provisionable, Exists, Db
  <2>2. Tracked(q)'
    BY <1>0, <1>1, <1>3, <1>7, GivesUpIs, EndIsTracked
  <2> QED
    BY <1>4, <2>1, <2>2 DEF Goes
<1>8. CASE task[q] = "provision"
  BY <1>5, <1>6, <1>7, <1>8 DEF LoadSchema
<1>9. CASE task[q] # "provision"
  BY <1>5, <1>6, <1>7, <1>9 DEF LoadSchema
<1> QED
  BY <1>8, <1>9

(* CREATE TABLE succeeds on a table that is bare when nobody alters it.    *)
LEMMA DefineGoes ==
  ASSUME TenantInv, NEW q \in Caller, Tracked(q), Define(q)
  PROVE  Goes(q)
<1>0. CallerTypes /\ on[q] \in Db
  BY DEF TenantInv, CallerTypes
<1>1. doing[q] \in {"define", "define_new"} /\ UNCHANGED <<shape, task, before>>
  BY DEF Define
<1>2. \A d \in Db : Exists(d)' <=> Exists(d)
  BY <1>1 DEF Exists
<1>3. Improves
  BY <1>1, <1>2 DEF Improves
<1>4. ~LastLook(q) /\ round[q] = "first"
  BY <1>1 DEF LastLook, Tracked
<1>5. CASE shape[on[q]] = Was(q)
  <2>1. /\ doing'[q] = IF doing[q] = "define" THEN "commit" ELSE "commit_new"
        /\ on'[q] = on[q] /\ UNCHANGED <<round, report, told>>
    BY <1>0, <1>5, GoIs DEF Define
  <2>2. doing'[q] = "commit_new" => doing[q] = "define_new"
    BY <1>1, <2>1
  <2>3. doing'[q] = "commit" => doing[q] = "define"
    BY <1>1, <2>1
  <2>4. doing[q] = "define_new" => on[q] = "image" /\ Exists("image")
    BY DEF Tracked
  <2>5. task[q] = "provision" /\ doing[q] = "define"
          => Exists("image") /\ (on[q] = "image" => shape["main"] = "complete")
    BY DEF Tracked
  <2>6. doing'[q] \in {"commit", "commit_new"} /\ "image" \in Db
    BY <2>1 DEF Db
  <2>7. Tracked(q)'
    BY <1>1, <1>2, <1>3, <1>4, <1>5, <2>1, <2>2, <2>3, <2>4, <2>5, <2>6, OnItsWay
  <2>8. Carrier(q) => Carrier(q)'
    BY <1>1, <2>1, <2>6 DEF Carrier
  <2> QED
    BY <1>4, <2>7, <2>8 DEF Goes, OnTrack
<1>6. CASE shape[on[q]] # Was(q)
  <2>1. GivesUp(q)
    BY <1>6 DEF Define
  <2>2. ~Carrier(q)
    BY <1>1, <1>6 DEF Carrier, Was
  <2> QED
    BY <1>1, <1>3, <2>1, <2>2, GivingUpGoes
<1> QED
  BY <1>5, <1>6

(* A commit completes the table, and the main one before the image one.    *)
LEMMA CommitSchemaGoes ==
  ASSUME TenantInv, NEW q \in Caller, Tracked(q), Improves, CommitSchema(q)
  PROVE  Goes(q)
<1>0. CallerTypes /\ on[q] \in Db
  BY DEF TenantInv, CallerTypes
<1>1. /\ doing[q] \in {"commit", "commit_new"} /\ UNCHANGED <<task, before>>
      /\ shape'[on[q]] = "complete"
  BY <1>0 DEF CommitSchema, CallerTypes
<1>2. ~LastLook(q) /\ round[q] = "first"
  BY <1>1 DEF LastLook, Tracked
<1>3. CASE doing[q] = "commit"
  <2>1. NextDatabase(q)
    BY <1>3 DEF CommitSchema
  <2> QED
    BY <1>1, <1>3, <2>1, NextDatabaseGoes
<1>4. CASE doing[q] = "commit_new" /\ task[q] = "command"
  <2>1. /\ doing'[q] = "over" /\ report'[q] = Unread
    BY <1>0, <1>4, SayIs DEF CommitSchema
  <2>2. Tracked(q)'
    BY <1>1, <1>4, <2>1, EndIsTracked
  <2>3. ~Carrier(q)
    BY <1>4 DEF Carrier
  <2> QED
    BY <1>2, <2>2, <2>3 DEF Goes
<1>5. CASE doing[q] = "commit_new" /\ task[q] # "command"
  <2>1. /\ doing'[q] = "load" /\ on'[q] = "main" /\ UNCHANGED <<round, report, told>>
    BY <1>0, <1>5, GoIs DEF CommitSchema
  <2>2. Exists("image")'
    BY <1>5 DEF Tracked, Improves, Db
  <2>3. Tracked(q)'
    BY <1>1, <1>2, <1>5, <2>1, <2>2, OnItsWay
  <2>4. Carrier(q) => Carrier(q)'
    BY <1>1, <2>1 DEF Carrier
  <2> QED
    BY <1>2, <2>3, <2>4 DEF Goes, OnTrack
<1> QED
  BY <1>1, <1>3, <1>4, <1>5

(* All statements together.                                                *)
LEMMA StepGoes ==
  ASSUME TenantInv, NEW q \in Caller, Tracked(q), Improves, TenantStep(q)
  PROVE  Goes(q)
BY ReadCatalogGoes, InspectGoes, SayReadyGoes, SayNotReadyGoes, BeginGoes, LookupGoes,
   CreateDatabaseGoes, LoadSchemaGoes, DefineGoes, CommitSchemaGoes DEF TenantStep

-----------------------------------------------------------------------------
(* A failure and a client that goes away, an arrival, and the others.      *)
LEMMA FailTenantTracked ==
  ASSUME TenantInv, NEW q \in Caller, Tracked(q), Improves, FailTenant(q)
  PROVE  Tracked(q)'
<1>0. CallerTypes
  BY DEF TenantInv
<1>1. doing[q] # "over" /\ UNCHANGED <<task, before>>
  BY DEF FailTenant
<1>2. CASE GivesUp(q)
  BY <1>0, <1>1, <1>2, GivesUpIs, EndIsTracked
<1>3. CASE \E a \in TenantAnswer : Say(q, a)
  <2>1. doing'[q] = "over" /\ report'[q] = Unread
    BY <1>0, <1>3, SayIs
  <2> QED
    BY <1>1, <2>1, EndIsTracked
<1> QED
  BY <1>2, <1>3 DEF FailTenant, TenantAnswer

(* And so does a client that goes away; it is lost.                        *)
LEMMA AbandonTracked ==
  ASSUME TenantInv, NEW q \in Caller, Tracked(q), Improves, Abandon(q)
  PROVE  Tracked(q)' /\ doing'[q] = "over" /\ told'[q] = "lost"
<1>0. CallerTypes
  BY DEF TenantInv
<1>1. doing[q] # "over" /\ UNCHANGED <<task, before>>
  BY DEF Abandon
<1>2. doing'[q] = "over" /\ report'[q] = Unread /\ told'[q] = "lost"
  BY <1>0, SayIs DEF Abandon
<1> QED
  BY <1>1, <1>2, EndIsTracked

(* Others are tracked on, since databases only get better.                 *)
LEMMA StayersTracked ==
  ASSUME NEW p \in Caller, Tracked(p), Stays(p), Improves,
         doing[p] \in {"commit", "commit_new"} => shape'[on[p]] = shape[on[p]]
  PROVE  Tracked(p)'
<1>1. Exists("image") => Exists("image")'
  BY DEF Improves, Db
<1>2. shape["main"] = "complete" => shape'["main"] = "complete"
  BY DEF Improves, Db
<1>3. Was(p)' = Was(p)
  BY DEF Was, Stays
<1>4. doing'[p] \in {"commit", "commit_new"} => shape'[on'[p]] = Was(p)'
  BY <1>3 DEF Tracked, Stays
<1>5. Provisionable(before'[p]) => Provisionable(shape')
  BY DEF Tracked, Stays, Improves
<1> QED
  BY <1>1, <1>2, <1>4, <1>5 DEF Tracked, Stays

(* An arrival changes the variables of one caller.                         *)
LEMMA ArrivalIs ==
  ASSUME TenantInv, NEW q \in Caller, NEW t \in Task, ArriveAt(q, t)
  PROVE  /\ doing[q] = "idle" /\ task'[q] = t /\ before'[q] = shape
         /\ doing'[q] = IF t = "command" THEN "lookup" ELSE "catalog"
         /\ UNCHANGED <<shape, altering, round, report, told>>
         /\ \A p \in Caller \ {q} : Stays(p)
<1>0. CallerTypes /\ HistoryTypes
  BY DEF TenantInv
<1>1. doing'[q] = IF t = "command" THEN "lookup" ELSE "catalog"
  BY <1>0, GoIs DEF ArriveAt
<1>2. \A p \in Caller \ {q} : doing'[p] = doing[p] /\ on'[p] = on[p]
  BY <1>0, GoIs DEF ArriveAt
<1>3. task'[q] = t /\ before'[q] = shape
  BY <1>0 DEF ArriveAt, CallerTypes, HistoryTypes
<1>4. \A p \in Caller \ {q} : task'[p] = task[p] /\ before'[p] = before[p]
  BY <1>0 DEF ArriveAt, CallerTypes, HistoryTypes
<1>5. doing[q] = "idle" /\ UNCHANGED <<shape, altering, round, report, told>>
  BY DEF ArriveAt
<1> QED
  BY <1>1, <1>2, <1>3, <1>4, <1>5 DEF Stays

(* Who arrives sees the databases as they are.                             *)
LEMMA ArriveTracked ==
  ASSUME TenantInv, NEW q \in Caller, NEW t \in Task, ArriveAt(q, t),
         \A p \in Caller : Tracked(p)
  PROVE  \A p \in Caller : Tracked(p)'
<1>1. UNCHANGED shape /\ doing[q] = "idle"
  BY ArrivalIs
<1>2. Improves
  BY <1>1 DEF Improves, Exists
<1>3. \A p \in Caller \ {q} : Tracked(p)'
  BY <1>1, <1>2, ArrivalIs, StayersTracked
<1>4. Tracked(q)'
  <2>1. /\ doing'[q] \in {"catalog", "lookup"} /\ before'[q] = shape
        /\ UNCHANGED <<shape, round, report, told>>
    BY ArrivalIs
  <2>2. Tracked(q) /\ doing[q] = "idle"
    BY <1>1
  <2>3. told'[q] = "none" /\ round'[q] = "first"
    BY <2>1, <2>2 DEF Tracked
  <2>4. Provisionable(before'[q]) => Provisionable(shape')
    BY <2>1
  <2>5. report'[q]["image"] \in {"bare", "complete"} => Exists("image")'
    BY <2>1, <2>2 DEF Tracked, Exists
  <2> QED
    BY <2>1, <2>3, <2>4, <2>5 DEF Tracked
<1> QED
  BY <1>3, <1>4

(* All steps of a caller keep all callers tracked.                         *)
LEMMA WorksTracked ==
  ASSUME TenantInv, NEW q \in Caller, Works(q), \A p \in Caller : Tracked(p)
  PROVE  Improves /\ \A p \in Caller : Tracked(p)'
<1>0. CallerTypes
  BY DEF TenantInv
<1>1. ShapeMoves(q)
  BY ShapesMove
<1>2. Improves
  BY <1>1, ShapesImprove
<1>3. \A p \in Caller \ {q} : Tracked(p)'
  <2> TAKE p \in Caller \ {q}
  <2>1. doing[p] \in {"commit", "commit_new"} => shape'[on[p]] = shape[on[p]]
    BY <1>1, ShapesImprove
  <2>2. Stays(p)
    BY <1>0, OthersStay
  <2> QED
    BY <1>2, <2>1, <2>2, StayersTracked
<1>4. Tracked(q)'
  BY <1>2, StepGoes, FailTenantTracked, AbandonTracked DEF Works, Goes
<1> QED
  BY <1>2, <1>3, <1>4

-----------------------------------------------------------------------------
(* Who is alone.                                                           *)
LEMMA WorksAreActive ==
  ASSUME NEW q \in Caller, Works(q)
  PROVE  doing[q] \notin {"idle", "over"} /\ q \in About
<1>1. doing[q] \notin {"idle", "over"}
  BY DEF Works, TenantStep, ReadCatalog, Inspect, SayReady, SayNotReady, Begin, Lookup,
     CreateDatabase, LoadSchema, Define, CommitSchema, FailTenant, Abandon
<1> QED
  BY <1>1 DEF About

(* Only a failure hurts, and only the one that fails.                      *)
LEMMA WorksInCompany ==
  ASSUME TenantInv, NEW q \in Caller, Works(q)
  PROVE  IF FailTenant(q) THEN company' = [company EXCEPT ![q] = "hurt"]
                          ELSE UNCHANGED company
BY DEF Works, TenantStep, Kept, ReadCatalog, Inspect, SayReady, SayNotReady, Begin, Lookup,
   CreateDatabase, LoadSchema, Define, CommitSchema, FailTenant, Abandon

(* Who has not come or is over is not the one that does something.         *)
LEMMA RestingOnTrack ==
  ASSUME NEW p \in Caller, Tracked(p), Stays(p), doing[p] \in {"idle", "over"},
         task[p] = "provision", OnTrack(p)
  PROVE  OnTrack(p)'
<1>1. doing[p] = "over"
  BY DEF Tracked
<1>2. told[p] \in {"ready", "lost"}
  BY <1>1 DEF OnTrack, Carrier, LastLook
<1> QED
  BY <1>1, <1>2 DEF OnTrack, Stays

(* Who is alone is on its way: nobody else takes a step meanwhile.         *)
LEMMA WorksAlone ==
  ASSUME TenantInv, NEW q \in Caller, Works(q), \A p \in Caller : Tracked(p), AloneInv
  PROVE  AloneInv'
<1>0. CallerTypes /\ HistoryTypes
  BY DEF TenantInv
<1>1. doing[q] \notin {"idle", "over"} /\ q \in About
  BY WorksAreActive
<1>2. UNCHANGED <<task, before>> /\ \A p \in Caller \ {q} : Stays(p)
  BY <1>0, OthersStay
<1>3. Improves
  BY WorksTracked
<1> SUFFICES ASSUME NEW p \in Caller, company'[p] = "alone"
             PROVE  /\ p \in About' => About' = {p}
                    /\ task'[p] = "provision" /\ Provisionable(before'[p]) => OnTrack(p)'
  BY DEF AloneInv
<1>4. company[p] = "alone" /\ (FailTenant(q) => p # q)
  BY <1>0, WorksInCompany DEF HistoryTypes
<1>5. About' \subseteq About
  BY <1>1, <1>2 DEF About, Stays
<1>6. p \in About => About = {p}
  BY <1>4 DEF AloneInv
<1>7. ASSUME task'[p] = "provision", Provisionable(before'[p])
      PROVE  OnTrack(p)'
  <2>1. OnTrack(p) /\ task[p] = "provision" /\ Provisionable(before[p])
    BY <1>2, <1>4, <1>7 DEF AloneInv
  <2>2. Provisionable(shape)
    BY <2>1 DEF Tracked
  <2>3. CASE p # q
    <3>1. p \notin About
      BY <1>1, <1>6, <2>3
    <3>2. doing[p] \in {"idle", "over"}
      BY <3>1 DEF About
    <3> QED
      BY <1>2, <2>1, <2>3, <3>2, RestingOnTrack
  <2>4. CASE p = q /\ TenantStep(q)
    <3>1. Goes(q)
      BY <1>3, <2>4, StepGoes
    <3>2. Carrier(q) \/ LastLook(q)
      BY <1>1, <2>1, <2>4 DEF OnTrack
    <3> QED
      BY <2>2, <2>4, <3>1, <3>2 DEF Goes
  <2>5. CASE p = q /\ Abandon(q)
    BY <1>3, <2>5, AbandonTracked DEF OnTrack
  <2> QED
    BY <1>4, <2>3, <2>4, <2>5 DEF Works
<1> QED
  BY <1>5, <1>6, <1>7

(* Who arrives alone sets out; those that are over have arrived.           *)
LEMMA ArriveAlone ==
  ASSUME TenantInv, NEW q \in Caller, NEW t \in Task, ArriveAt(q, t),
         \A p \in Caller : Tracked(p), AloneInv
  PROVE  AloneInv'
<1>0. CallerTypes /\ HistoryTypes
  BY DEF TenantInv
<1>1. /\ doing[q] = "idle" /\ task'[q] = t
      /\ doing'[q] = IF t = "command" THEN "lookup" ELSE "catalog"
      /\ UNCHANGED <<shape, round>>
      /\ \A p \in Caller \ {q} : Stays(p)
  BY ArrivalIs
<1> SUFFICES ASSUME NEW p \in Caller, company'[p] = "alone"
             PROVE  /\ p \in About' => About' = {p}
                    /\ task'[p] = "provision" /\ Provisionable(before'[p]) => OnTrack(p)'
  BY DEF AloneInv
<1>2. company[p] = "alone" /\ (About = {} \/ p \notin About \cup {q})
  BY DEF ArriveAt
<1>3. p \notin About
  BY <1>2
<1>4. doing[p] \in {"idle", "over"}
  BY <1>3 DEF About
<1>5. About' = About \cup {q}
  BY <1>1 DEF About, Stays
<1>6. CASE p = q
  <2>1. About' = {p}
    BY <1>2, <1>5, <1>6
  <2>2. round[q] = "first"
    BY <1>1 DEF Tracked
  <2>3. task'[q] = "provision" => Carrier(q)'
    BY <1>1, <2>2 DEF Carrier
  <2> QED
    BY <1>6, <2>1, <2>3 DEF OnTrack
<1>7. CASE p # q
  <2>1. p \notin About'
    BY <1>3, <1>5, <1>7
  <2>2. ASSUME task'[p] = "provision", Provisionable(before'[p])
        PROVE  OnTrack(p)'
    <3>1. Stays(p)
      BY <1>1, <1>7
    <3>2. task[p] = "provision" /\ Provisionable(before[p])
      BY <2>2, <3>1 DEF Stays
    <3>3. OnTrack(p)
      BY <1>2, <3>2 DEF AloneInv
    <3> QED
      BY <1>4, <3>1, <3>2, <3>3, RestingOnTrack
  <2> QED
    BY <2>1, <2>2
<1> QED
  BY <1>6, <1>7

-----------------------------------------------------------------------------
(* Who carries the work on: a step that changes a database is a carrier's, *)
(* if nobody runs the command and the tenant can be provided.              *)
LEMMA ChangesAreCarried ==
  ASSUME TenantInv, NEW q \in Caller, Tracked(q), TenantStep(q), shape' # shape,
         task[q] # "command", Provisionable(shape)
  PROVE  Carrier(q)
<1>0. CallerTypes /\ PlanInv /\ on[q] \in Db
  BY DEF TenantInv, CallerTypes
<1>1. CreateDatabase(q) \/ CommitSchema(q)
  BY DEF TenantStep, Kept, ReadCatalog, Inspect, SayReady, SayNotReady, Begin, Lookup,
     LoadSchema, Define
<1>2. CASE CreateDatabase(q)
  <2>1. doing[q] = "create" /\ ~Exists("image")
    BY <1>2 DEF CreateDatabase
  <2>2. task[q] = "provision" /\ round[q] = "first"
    BY <1>0, <2>1 DEF PlanInv, InPlan, Tracked
  <2> QED
    BY <2>1, <2>2 DEF Carrier
<1>3. CASE CommitSchema(q)
  <2>1. doing[q] \in {"commit", "commit_new"}
    BY <1>3 DEF CommitSchema
  <2>2. shape[on[q]] = Was(q) /\ round[q] = "first"
    BY <2>1 DEF Tracked
  <2>3. shape[on[q]] # "lacking"
    BY <1>0 DEF Provisionable, Db
  <2>4. task[q] = "provision" /\ shape[on[q]] = "bare"
    BY <2>2, <2>3 DEF Was
  <2> QED
    BY <2>1, <2>2, <2>4 DEF Carrier
<1> QED
  BY <1>1, <1>2, <1>3

(* A carrier stays one while nobody changes a database.                    *)
LEMMA CarrierStays ==
  ASSUME NEW p \in Caller, Carrier(p), Stays(p), UNCHANGED shape
  PROVE  Carrier(p)'
<1>1. \A d \in Db : Exists(d)' <=> Exists(d)
  BY DEF Exists
<1> QED
  BY <1>1 DEF Carrier, Stays, Db

(* If its own step ends the work of a carrier, both tables are complete; a *)
(* change by another makes that one the carrier.                           *)
LEMMA WorksCarried ==
  ASSUME TenantInv, TenantInv', NEW q \in Caller, Works(q),
         \A p \in Caller : Tracked(p), CarrierInv
  PROVE  CarrierInv'
<1>0. CallerTypes /\ HistoryTypes
  BY DEF TenantInv
<1>1. UNCHANGED <<task, before>> /\ \A p \in Caller \ {q} : Stays(p)
  BY <1>0, OthersStay
<1>2. Improves
  BY WorksTracked
<1> SUFFICES ASSUME Clean', NEW r \in Caller,
                    task'[r] = "provision", Provisionable(before'[r])
             PROVE  AllComplete' \/ \E c \in Caller : Carrier(c)'
  BY DEF CarrierInv
<1>3. ~FailTenant(q)
  <2> SUFFICES ASSUME FailTenant(q) PROVE FALSE
    OBVIOUS
  <2>1. company'[q] = "hurt"
    BY <1>0 DEF FailTenant, HistoryTypes
  <2> QED
    BY <2>1 DEF Clean
<1>4. TenantStep(q)
  BY <1>2, <1>3, AbandonTracked DEF Works, Clean
<1>5. Clean
  <2>1. UNCHANGED company
    BY <1>3, WorksInCompany
  <2>2. told[q] # "lost"
    BY WorksAreActive DEF Tracked
  <2> QED
    BY <1>1, <2>1, <2>2 DEF Clean, Stays
<1>6. Provisionable(shape)
  BY <1>1 DEF Tracked
<1>7. CASE AllComplete
  BY <1>2, <1>7 DEF AllComplete, Improves
<1>8. CASE Carrier(q)
  <2>1. OnTrack(q)'
    BY <1>2, <1>4, <1>6, <1>8, StepGoes DEF Goes
  <2>2. LastLook(q)' => AllComplete'
    BY DEF LastLook
  <2>3. told'[q] = "ready" => AllComplete'
    BY DEF TenantInv, ReadyIsTrue, AllComplete
  <2>4. told'[q] # "lost"
    BY DEF Clean
  <2> QED
    BY <2>1, <2>2, <2>3, <2>4 DEF OnTrack
<1>9. CASE ~AllComplete /\ ~Carrier(q)
  <2>1. PICK c \in Caller \ {q} : Carrier(c)
    BY <1>1, <1>5, <1>9 DEF CarrierInv
  <2>2. UNCHANGED shape
    BY <1>4, <1>5, <1>6, <1>9, ChangesAreCarried DEF Clean
  <2> QED
    BY <1>1, <2>1, <2>2, CarrierStays
<1> QED
  BY <1>7, <1>8, <1>9

(* Who arrives at a tenant that can be provided is a carrier.              *)
LEMMA ArriveCarried ==
  ASSUME TenantInv, NEW q \in Caller, NEW t \in Task, ArriveAt(q, t),
         \A p \in Caller : Tracked(p), CarrierInv
  PROVE  CarrierInv'
<1>0. HistoryTypes
  BY DEF TenantInv
<1>1. /\ doing[q] = "idle" /\ task'[q] = t
      /\ doing'[q] = IF t = "command" THEN "lookup" ELSE "catalog"
      /\ UNCHANGED <<shape, round, told>>
      /\ \A p \in Caller \ {q} : Stays(p)
  BY ArrivalIs
<1>2. round[q] = "first" /\ task[q] = "check"
  BY <1>1 DEF Tracked
<1> SUFFICES ASSUME Clean', NEW r \in Caller,
                    task'[r] = "provision", Provisionable(before'[r])
             PROVE  AllComplete' \/ \E c \in Caller : Carrier(c)'
  BY DEF CarrierInv
<1>3. CASE r = q
  <2>1. Carrier(q)'
    BY <1>1, <1>2, <1>3 DEF Carrier
  <2> QED
    BY <2>1
<1>4. CASE r # q
  <2>1. task[r] = "provision" /\ Provisionable(before[r])
    BY <1>1, <1>4 DEF Stays
  <2>2. Clean
    <3>1. \A p \in Caller : company'[p] # "hurt" => company[p] # "hurt"
      BY DEF ArriveAt
    <3> QED
      BY <1>1, <1>2, <3>1 DEF Clean, Stays
  <2>3. CASE AllComplete
    BY <1>1, <2>3 DEF AllComplete
  <2>4. CASE \E c \in Caller : Carrier(c)
    <3>1. PICK c \in Caller : Carrier(c)
      BY <2>4
    <3>2. c # q
      BY <1>1, <3>1 DEF Carrier
    <3> QED
      BY <1>1, <3>1, <3>2, CarrierStays
  <2> QED
    BY <2>1, <2>2, <2>3, <2>4 DEF CarrierInv
<1> QED
  BY <1>3, <1>4

(* At the start nobody has come.                                           *)
LEMMA ProgressInitially == TenantInit => OnTheWayInv
<1> SUFFICES ASSUME TenantInit PROVE OnTheWayInv
  OBVIOUS
<1>1. \A q \in Caller :
        /\ task[q] = "check" /\ doing[q] = "idle" /\ round[q] = "first"
        /\ report[q] = Unread /\ told[q] = "none" /\ before[q] = Unread
  BY DEF TenantInit, TenantStart
<1>2. Unread["image"] = "unread" /\ ~Provisionable(Unread)
  BY DEF Unread, Provisionable, Db
<1>3. \A q \in Caller : Tracked(q)
  BY <1>1, <1>2 DEF Tracked
<1>4. AloneInv /\ CarrierInv
  BY <1>1 DEF AloneInv, CarrierInv, About
<1> QED
  BY <1>3, <1>4 DEF OnTheWayInv

(* In every state, then, callers are tracked, and alone or carried.        *)
LEMMA ProgressInvariance == TenantSpec => []OnTheWayInv
<1>1. TenantInv /\ TenantInv' /\ OnTheWayInv /\ [TenantNext]_tenantVars => OnTheWayInv'
  <2> SUFFICES ASSUME TenantInv, TenantInv', OnTheWayInv, [TenantNext]_tenantVars
               PROVE  OnTheWayInv'
    OBVIOUS
  <2>0. (\A p \in Caller : Tracked(p)) /\ AloneInv /\ CarrierInv
    BY DEF OnTheWayInv
  <2>1. CASE UNCHANGED tenantVars
    <3>1. UNCHANGED <<shape, altering, task, doing, on, round, report, told, before, company>>
      BY <2>1 DEF tenantVars, callerVars
    <3>2. \A p \in Caller : /\ Tracked(p)' <=> Tracked(p)
                            /\ Carrier(p)' <=> Carrier(p)
                            /\ LastLook(p)' <=> LastLook(p)
      BY <3>1 DEF Tracked, Was, Carrier, LastLook, AllComplete, ReportOK, Exists
    <3>3. (\A p \in Caller : OnTrack(p)' <=> OnTrack(p)) /\ About' = About
      BY <3>1, <3>2 DEF OnTrack, About
    <3>4. AloneInv'
      BY <2>0, <3>1, <3>3 DEF AloneInv
    <3>5. CarrierInv'
      BY <2>0, <3>1, <3>2 DEF CarrierInv, Clean, AllComplete
    <3> QED
      BY <2>0, <3>2, <3>4, <3>5 DEF OnTheWayInv
  <2>2. CASE \E q \in Caller, t \in Task : ArriveAt(q, t)
    BY <2>0, <2>2, ArriveTracked, ArriveAlone, ArriveCarried DEF OnTheWayInv
  <2>3. CASE \E q \in Caller : Works(q)
    BY <2>0, <2>3, WorksTracked, WorksAlone, WorksCarried DEF OnTheWayInv
  <2> QED
    BY <2>1, <2>2, <2>3 DEF TenantNext, Works
<1> QED
  BY <1>1, TenantInvariance, ProgressInitially, PTL DEF TenantSpec

(* However many requests fail, are given up or meet: a provision of a      *)
(* tenant that can be provided is told "ready" if it is alone, and of      *)
(* those that meet and do not fail one does the work                       *)
(* (tenant_readiness.go:117).                                              *)
THEOREM TenantsGetReady == TenantSpec => []TenantGetsReady
<1>1. OnTheWayInv => RecoversAlone
  BY DEF OnTheWayInv, AloneInv, OnTrack, Carrier, LastLook, RecoversAlone
<1>2. OnTheWayInv => SomebodyGetsThrough
  <2> SUFFICES ASSUME OnTheWayInv, About = {}, Clean, NEW q \in Caller,
                      task[q] = "provision", Provisionable(before[q])
               PROVE  AllComplete
    BY DEF SomebodyGetsThrough, Clean, AllComplete
  <2>1. \A c \in Caller : ~Carrier(c)
    <3> SUFFICES ASSUME NEW c \in Caller, Carrier(c) PROVE FALSE
      OBVIOUS
    <3>1. doing[c] \notin {"idle", "over"}
      BY DEF Carrier
    <3> QED
      BY <3>1 DEF About
  <2> QED
    BY <2>1 DEF OnTheWayInv, CarrierInv
<1>3. OnTheWayInv => TenantGetsReady
  BY <1>1, <1>2 DEF TenantGetsReady
<1> QED
  BY <1>3, ProgressInvariance, PTL
=============================================================================
