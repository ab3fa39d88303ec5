---------------------------- MODULE TenantImages ----------------------------
(***************************************************************************)
(* Two databases of a tenant hold public.sml_doc_images: the main one and  *)
(* the image one.  Requests check both against a template                  *)
(* (internal/smltenant/smltenant.go), create what is missing or add        *)
(* missing columns (internal/handlers/tenant_readiness.go), and so does a  *)
(* command (cmd/provision-sml-image-db).  CREATE DATABASE stands at once;  *)
(* the statements of a table are one transaction.  Requests share nothing  *)
(* but the databases, and any of them may fail or be given up anywhere.    *)
(***************************************************************************)
EXTENDS Naturals

CONSTANTS
  Caller,  \* requests and commands about the tenant
  Nobody   \* no transaction has changed the table

ASSUME CallerAssumption == Nobody \notin Caller

Db == {"main", "image"}

(* What a database says of the table: there is no database, no table, it   *)
(* lacks columns, it is as in the template, it differs in another way.     *)
Shape == {"missing", "bare", "lacking", "complete", "alien"}

Task == {"check", "provision", "repair", "preview", "command"}

TenantAnswer ==
  {"none", "ready", "not_ready", "refused", "plans", "failed", "lost"}

VARIABLES
  shape,   \* of each database, as committed
  altering, \* who has changed its table and not committed
  task, doing, on, \* what a caller wants, its next statement, the database
  round,   \* which VerifyTenant: the first, the last, or after a failure
  report,  \* the last one: the shapes it saw
  told,
  before,  \* the shapes when the caller came (history)
  company  \* alone all the time, among others, hurt by a failure (history)

callerVars == <<task, doing, on, round, report, told, before, company>>
tenantVars == <<shape, altering, callerVars>>

Unread == [d \in Db |-> "unread"]
About == {q \in Caller : doing[q] \notin {"idle", "over"}}

TenantStart ==
  /\ altering = [d \in Db |-> Nobody]
  /\ task = [q \in Caller |-> "check"]
  /\ doing = [q \in Caller |-> "idle"]
  /\ on = [q \in Caller |-> "main"]
  /\ round = [q \in Caller |-> "first"]
  /\ report = [q \in Caller |-> Unread]
  /\ told = [q \in Caller |-> "none"]
  /\ before = [q \in Caller |-> Unread]
  /\ company = [q \in Caller |-> "alone"]

TenantInit == shape \in [Db -> Shape] /\ TenantStart

(* The next statement of q, and the database it is about.                  *)
Go(q, s, d) == doing' = [doing EXCEPT ![q] = s] /\ on' = [on EXCEPT ![q] = d]

Say(q, a) ==
  /\ told' = [told EXCEPT ![q] = a]
  /\ doing' = [doing EXCEPT ![q] = "over"]
  /\ report' = [report EXCEPT ![q] = Unread]
  /\ UNCHANGED on

ArriveAt(q, t) ==
  /\ doing[q] = "idle"
  /\ task' = [task EXCEPT ![q] = t]
  /\ Go(q, IF t = "command" THEN "lookup" ELSE "catalog", "image")
  /\ before' = [before EXCEPT ![q] = shape]
  /\ company' = [p \in Caller |->
       IF About # {} /\ p \in About \cup {q} /\ company[p] = "alone"
         THEN "among" ELSE company[p]]
  /\ UNCHANGED <<shape, altering, round, report, told>>

-----------------------------------------------------------------------------
(* VerifyTenant: the catalog, then one schema after the other.             *)

Kept == UNCHANGED <<shape, altering, task, before, company>>

Exists(d) == shape[d] # "missing"

ReadCatalog(q) ==
  /\ doing[q] = "catalog"
  /\ report' = [report EXCEPT ![q] =
       [d \in Db |-> IF Exists(d) THEN "unread" ELSE "missing"]]
  /\ IF \A d \in Db : Exists(d) THEN Go(q, "inspect", "main")
                                ELSE Go(q, "decide", "image")
  /\ Kept /\ UNCHANGED <<round, told>>

Inspect(q) ==
  /\ doing[q] = "inspect"
  /\ report' = [report EXCEPT ![q][on[q]] = shape[on[q]]]
  /\ IF on[q] = "main" THEN Go(q, "inspect", "image")
                       ELSE Go(q, "decide", "image")
  /\ Kept /\ UNCHANGED <<round, told>>

ReportOK(q) == \A d \in Db : report[q][d] = "complete"

(* The failing checks of a report; a database without the table fails one, *)
(* the others are not made.                                                *)
tenantCanProvisionDocImages(r) ==
  /\ r["main"] \in {"unread", "bare", "complete"}
  /\ r["image"] \in {"missing", "bare", "complete"}
  /\ \E d \in Db : r[d] \in {"missing", "bare"}

(* Not the code: it looks for something to repair, not for the rest.       *)
tenantHasColumnMismatch(r) == \E d \in Db : r[d] = "lacking"

tenantHasOnlyColumnMismatch(r) ==
  /\ \A d \in Db : r[d] \in {"lacking", "complete"}
  /\ \E d \in Db : r[d] = "lacking"

(* The report is OK: nothing to do, or all is done.                        *)
SayReady(q) ==
  /\ doing[q] = "decide" /\ ReportOK(q)
  /\ Say(q, "ready") /\ Kept /\ UNCHANGED round

Refuses(q) ==
  CASE task[q] = "check" -> TRUE
    [] task[q] = "provision" -> ~tenantCanProvisionDocImages(report[q])
    [] OTHER -> ~tenantHasOnlyColumnMismatch(report[q])

SayNotReady(q) ==
  /\ doing[q] = "decide" /\ ~ReportOK(q)
  /\ CASE round[q] = "again" -> Say(q, "failed")
       [] round[q] = "last" -> Say(q, "not_ready")
       [] OTHER -> /\ Refuses(q)
                   /\ Say(q, IF task[q] = "check" THEN "not_ready"
                                                  ELSE "refused")
  /\ Kept /\ UNCHANGED round

(* Not the code: it always makes a plan.                                   *)
BeginWithPlan(q) ==
  /\ doing[q] = "decide" /\ ~ReportOK(q)
  /\ round[q] = "first" /\ ~Refuses(q)
  /\ Go(q, IF task[q] = "provision" THEN "lookup" ELSE "load",
           IF task[q] = "provision" THEN "image" ELSE "main")
  /\ Kept /\ UNCHANGED <<round, report, told>>

(* An image database that is missing is created with its table, and then   *)
(* both are looked at; otherwise they are looked at.                       *)
Begin(q) ==
  /\ doing[q] = "decide" /\ ~ReportOK(q)
  /\ round[q] = "first" /\ ~Refuses(q)
  /\ IF task[q] = "provision" /\ report[q]["image"] = "missing"
       THEN Go(q, "lookup", "image")
       ELSE Go(q, "load", "main")
  /\ Kept /\ UNCHANGED <<round, report, told>>

-----------------------------------------------------------------------------
(* In BuildProvisionPlan.                                                  *)
InPlan(q) == doing[q] \in {"lookup", "create", "define_new", "commit_new"}

(* Not the code: if somebody else has created the database, all is well.   *)
GivesUpLeniently(q) ==
  IF InPlan(q) /\ task[q] = "provision" /\ Exists("image")
    THEN Say(q, "ready") /\ UNCHANGED round
    ELSE /\ Say(q, IF task[q] \in {"repair", "preview"} THEN "refused"
                                                        ELSE "failed")
         /\ UNCHANGED round

(* A plan, schema or alteration that does not work out.  In a provision    *)
(* BuildProvisionPlan is followed by another look, once.                   *)
GivesUp(q) ==
  IF InPlan(q) /\ task[q] = "provision"
    THEN /\ Go(q, "catalog", "image")
         /\ round' = [round EXCEPT ![q] = "again"]
         /\ UNCHANGED <<report, told>>
    ELSE /\ Say(q, IF task[q] \in {"repair", "preview"} THEN "refused"
                                                        ELSE "failed")
         /\ UNCHANGED round

(* The steps of BuildProvisionPlan before it creates anything.             *)
Lookup(q) ==
  /\ doing[q] = "lookup"
  /\ IF Exists("main") /\ ~Exists("image")
       THEN Go(q, "create", "image") /\ UNCHANGED <<round, report, told>>
       ELSE GivesUp(q)
  /\ Kept

CreateDatabase(q) ==
  /\ doing[q] = "create"
  /\ IF Exists("image")
       THEN GivesUp(q) /\ UNCHANGED shape
       ELSE /\ shape' = [shape EXCEPT !["image"] = "bare"]
            /\ Go(q, "define_new", "image")
            /\ UNCHANGED <<round, report, told>>
  /\ UNCHANGED <<altering, task, before, company>>

(* One database is done: the other, or the plans, or the last look.        *)
NextDatabase(q) ==
  IF on[q] = "main"
    THEN Go(q, "load", "image") /\ UNCHANGED <<round, report, told>>
    ELSE IF task[q] = "preview"
           THEN Say(q, "plans") /\ UNCHANGED round
           ELSE /\ Go(q, "catalog", "image")
                /\ round' = [round EXCEPT ![q] = "last"]
                /\ UNCHANGED <<report, told>>

MissingColumnsOnly(d) == shape[d] = "lacking"

(* EnsureDocImagesSchema and BuildAddMissingColumnsPlan read one table.     *)
LoadSchema(q) ==
  /\ doing[q] = "load"
  /\ IF task[q] = "provision"
       THEN CASE shape[on[q]] = "complete" -> NextDatabase(q)
              [] shape[on[q]] = "bare" -> /\ Go(q, "define", on[q])
                                          /\ UNCHANGED <<round, report, told>>
              [] OTHER -> GivesUp(q)
       ELSE IF ~MissingColumnsOnly(on[q]) THEN GivesUp(q)
            ELSE IF task[q] = "preview" THEN NextDatabase(q)
                 ELSE Go(q, "define", on[q]) /\ UNCHANGED <<round, report, told>>
  /\ Kept

(* CREATE SEQUENCE, CREATE TABLE or ALTER TABLE: it waits for whoever has  *)
(* done so and not committed, and fails if the thing is there then.        *)
Was(q) == IF task[q] \in {"provision", "command"} THEN "bare" ELSE "lacking"

Define(q) ==
  /\ doing[q] \in {"define", "define_new"} /\ altering[on[q]] = Nobody
  /\ IF shape[on[q]] = Was(q)
       THEN /\ altering' = [altering EXCEPT ![on[q]] = q]
            /\ Go(q, IF doing[q] = "define" THEN "commit" ELSE "commit_new", on[q])
            /\ UNCHANGED <<round, report, told>>
       ELSE GivesUp(q) /\ UNCHANGED altering
  /\ UNCHANGED <<shape, task, before, company>>

(* Not the code: the new image database is checked at once.                *)
CommitSchemaAndVerify(q) ==
  /\ doing[q] \in {"commit", "commit_new"}
  /\ shape' = [shape EXCEPT ![on[q]] = "complete"]
  /\ altering' = [altering EXCEPT ![on[q]] = Nobody]
  /\ CASE doing[q] = "commit" -> NextDatabase(q)
       [] doing[q] = "commit_new" /\ task[q] = "command" ->
            Say(q, "plans") /\ UNCHANGED round
       [] OTHER -> /\ Go(q, "catalog", "image")
                   /\ round' = [round EXCEPT ![q] = "last"]
                   /\ UNCHANGED <<report, told>>
  /\ UNCHANGED <<task, before, company>>

(* The table is there; then the other database, the caller, or both again. *)
CommitSchema(q) ==
  /\ doing[q] \in {"commit", "commit_new"}
  /\ shape' = [shape EXCEPT ![on[q]] = "complete"]
  /\ altering' = [altering EXCEPT ![on[q]] = Nobody]
  /\ CASE doing[q] = "commit" -> NextDatabase(q)
       [] doing[q] = "commit_new" /\ task[q] = "command" ->
            Say(q, "plans") /\ UNCHANGED round
       [] OTHER -> Go(q, "load", "main") /\ UNCHANGED <<round, report, told>>
  /\ UNCHANGED <<task, before, company>>

-----------------------------------------------------------------------------
(* Not the code: no deferred Rollback.                                     *)
DroppedOpen(q) == UNCHANGED <<altering, shape>>

(* What becomes of the databases when q stops in the middle of a           *)
(* statement: the transaction is rolled back, unless the COMMIT or the     *)
(* CREATE DATABASE was executed and only its answer was lost.              *)
Dropped(q) ==
  /\ altering' = [d \in Db |-> IF altering[d] = q THEN Nobody ELSE altering[d]]
  /\ \/ UNCHANGED shape
     \/ /\ doing[q] \in {"commit", "commit_new"}
        /\ shape' = [shape EXCEPT ![on[q]] = "complete"]
     \/ /\ doing[q] = "create" /\ ~Exists("image")
        /\ shape' = [shape EXCEPT !["image"] = "bare"]

(* A connection or a statement fails or times out.  In VerifyTenant that   *)
(* is one more failing check, which nothing can repair.                    *)
FailTenant(q) ==
  /\ doing[q] \notin {"idle", "decide", "over"}
  /\ Dropped(q)
  /\ IF doing[q] \in {"catalog", "inspect"}
       THEN /\ Say(q, CASE round[q] = "again" -> "failed"
                        [] round[q] = "last" -> "not_ready"
                        [] task[q] = "check" -> "not_ready"
                        [] OTHER -> "refused")
            /\ UNCHANGED round
       ELSE GivesUp(q)
  /\ company' = [company EXCEPT ![q] = "hurt"]
  /\ UNCHANGED <<task, before>>

(* The client goes away, or the process dies.                              *)
Abandon(q) ==
  /\ doing[q] \notin {"idle", "over"}
  /\ Dropped(q)
  /\ Say(q, "lost")
  /\ UNCHANGED <<round, task, before, company>>

TenantStep(q) ==
  \/ ReadCatalog(q) \/ Inspect(q) \/ SayReady(q) \/ SayNotReady(q) \/ Begin(q)
  \/ Lookup(q) \/ CreateDatabase(q) \/ LoadSchema(q) \/ Define(q)
  \/ CommitSchema(q)

TenantNext ==
  \E q \in Caller :
    \/ \E t \in Task : ArriveAt(q, t)
    \/ TenantStep(q) \/ FailTenant(q) \/ Abandon(q)

TenantSpec == TenantInit /\ [][TenantNext]_tenantVars

-----------------------------------------------------------------------------
(* The variables have their types, and exactly who is about to commit has  *)
(* an open transaction on the table: a failure or a client that goes away  *)
(* leaves none (the deferred Rollbacks of smltenant.go).                   *)
TenantTypeOK ==
  /\ shape \in [Db -> Shape]
  /\ altering \in [Db -> Caller \cup {Nobody}]
  /\ task \in [Caller -> Task]
  /\ doing \in [Caller -> {"idle", "catalog", "inspect", "decide", "lookup",
                       "create", "define_new", "commit_new", "load", "define",
                       "commit", "over"}]
  /\ on \in [Caller -> Db]
  /\ round \in [Caller -> {"first", "again", "last"}]
  /\ report \in [Caller -> [Db -> Shape \cup {"unread"}]]
  /\ told \in [Caller -> TenantAnswer]
  /\ before \in [Caller -> [Db -> Shape \cup {"unread"}]]
  /\ company \in [Caller -> {"alone", "among", "hurt"}]
  /\ \A q \in Caller, d \in Db :
       (altering[d] = q) <=> (doing[q] \in {"commit", "commit_new"} /\ on[q] = d)

(* Who is told that the tenant is ready finds both tables as the template  *)
(* has them, whichever of the three looks said so and whoever changed      *)
(* them meanwhile (tenant_readiness.go:102, 131, 176).                     *)
ReadyIsTrue ==
  \A q \in Caller : told[q] = "ready" => \A d \in Db : shape[d] = "complete"

Provisionable(s) ==
  s["main"] \in {"bare", "complete"} /\ s["image"] \in {"missing", "bare", "complete"}

(* Whatever earlier requests have left behind when they failed or were     *)
(* given up, an image database without its table included, a provision     *)
(* that is alone then makes the tenant ready (tenant_readiness.go:117).    *)
RecoversAlone ==
  \A q \in Caller :
    (/\ task[q] = "provision" /\ company[q] = "alone"
     /\ Provisionable(before[q]) /\ doing[q] = "over" /\ told[q] # "lost")
       => told[q] = "ready"

(* If nothing fails and nobody gives up, provisions that meet may be told  *)
(* that they failed, but not without one of them having done the work.     *)
(* (The command does the image database only, and a provision that meets   *)
(* it stops before the main one.)                                          *)
SomebodyGetsThrough ==
  (/\ About = {}
   /\ \A q \in Caller : /\ company[q] # "hurt" /\ told[q] # "lost"
                        /\ task[q] # "command"
   /\ \E q \in Caller : task[q] = "provision" /\ doing[q] = "over"
                        /\ Provisionable(before[q]))
     => \A d \in Db : shape[d] = "complete"

(* A repair touches no table of a tenant whose other database needs more   *)
(* than columns: such a report "is rejected entirely"                      *)
(* (tenant_readiness_test.go:198), even if others change things meanwhile. *)
RepairsColumnsOnly ==
  \A q \in Caller, d \in Db :
    (altering[d] = q /\ task[q] = "repair")
      => \A e \in Db : shape[e] \in {"lacking", "complete"}

(* A tenant is not called ready before it is, nor half repaired            *)
(* (tenant_readiness.go).                                                  *)
TenantIsSafe == ReadyIsTrue /\ RepairsColumnsOnly

(* Failed, abandoned and concurrent attempts stand in nobody's way for     *)
(* good (tenant_readiness.go:117).                                         *)
TenantGetsReady == RecoversAlone /\ SomebodyGetsThrough

(* RepairSchemaColumns "adds columns that [...] are missing from the       *)
(* tenant's main and/or image database" (tenant_readiness.go:184): a       *)
(* repair that is alone and finds nothing else to repair succeeds.  It     *)
(* does not if only one of the databases lacks columns.                    *)
RepairableIsRepaired ==
  \A q \in Caller :
    (/\ task[q] = "repair" /\ company[q] = "alone"
     /\ \A d \in Db : before[q][d] \in {"lacking", "complete"}
     /\ doing[q] = "over" /\ told[q] # "lost")
       => told[q] = "ready"
=============================================================================
