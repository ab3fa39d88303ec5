# Verification of sml-api-bybos

`sml-api-bybos` is a Go service that writes and reads the PostgreSQL databases
of the SML ERP for other programs (BillFlow, Nexflow, PaperLess). Each tenant
has a main database, `<tenant>`, one for images, `<tenant>_images`, and one for
the ERP's audit log, `<tenant>_logs`. The ERP desktop program works on the same
tables at the same time and takes none of this service's locks. Paths below
are relative to `src/`; `compat/` stands for `internal/handlers/compat/`.

## 1. Inventory

| Part | State it keeps | Operations | What must be right |
|---|---|---|---|
| Cancellation (`compat/cancel_invoice.go`, `cancel_sale_order.go`) | `ic_trans` rows of the source (`last_status`, `used_status`) and of the cancellation document, `gl_journal_vat_sale`, `ap_ar_trans_detail`, the profile marker in `logs`; advisory lock per source | preview and create a void (45), a credit note (48), a sale-order reversal (37) | one cancellation per source, whoever makes it; source and document change together; retries find their document and write nothing twice; replies are true |
| Document writing (`compat/write.go`, `document_profile.go`) | `ic_trans`, `ic_trans_detail`, profile relations and marker; `erp_logs` in the log database; an in-memory memory of the log database's availability | create a sale order, sale invoice, purchase order; reconcile a profile | an identical retry is recognised, a different body is refused, relations and log rows are written once, the reply's profile status is true |
| Purchase-order update (`compat/write.go`) | `ic_trans`, `ic_trans_detail`, `erp_logs` | change creditor or `doc_ref` | no lost update; header, details and log agree |
| Document lock (`lock.go`) | `is_lock_record` | lock a signed document | idempotent; who is told "locked" may rely on it |
| Product sets (`internal/setproducts`) | none | split the cents of a set line over its components | cents add up, each component gets its part |
| AR receipts (`internal/handlers/ar_receipt.go`) | `ap_ar_trans`, `ap_ar_trans_detail`, `cb_trans` | list candidates, create a receipt | an invoice is not paid twice; a number is given once |
| Document images (`document_image.go`) | images in `<tenant>_images`, their index in the main database | replace the images of a document | both databases agree after any failure and its retry |
| Stock (`stock_sync.go`, `stock.go`) | in-memory slots: 5 in all, 1 per tenant; flights | balances, demand evidence | slots are returned, flights are shared with the right requests |
| Tenant pools (`internal/db/pool.go`) | one pool per database | Get, Close | one pool per database, none leaks, nobody is stuck |
| Tenant image databases (`internal/smltenant`, `tenant_readiness.go`, `cmd/`) | schema of two databases | check, provision, repair columns, command | "ready" is true; failed attempts can be repeated |
| ERP log status (`erp_log_status.go`, `erp_log_diff.go`) | none | baseline, status, difference of two snapshots | nobody's edit is overlooked, nobody is blamed for a save |
| Stock transactions (`transaction.go`), numbers (`doc_no.go`, `doc_format.go`) | `ic_trans`, `ic_trans_detail` | next number, create, get, list | whole documents, true refusals, free numbers |
| Related documents (`related_document.go`, `document_candidate.go`, `marketplace_nextstep.go`) | none | bounded walk over references | connected, complete, in order |
| Master data, login, reads, wiring | rows or nothing | single statements | not modelled (section 7) |

How the parts meet: every handler gets its pool from the tenant pools. A
cancellation and a document write use the same profile relations and, after
their commit, the same log writer. The document lock and the purchase-order
update write rows that the cancellation reads. The ERP writes everything.

What is hard: requests for one document race each other and the ERP;
transactions are REPEATABLE READ, so everything a request reads after a wait may
be stale; replies are lost and calls repeated; the log database and the image
database commit apart from the main one; caches and slots are at their limit.
`PROJECT.json` lists these hazards at their lines.

## 2. How the project is laid out

| Modules | Composition | Promise they are shown to keep | Proofs |
|---|---|---|---|
| `SaleCancellation` | | `CancelOnce`, by refinement | `SaleCancellation_proofs` |
| `DocumentWrite`, `ErpLog` | `ProfileWrite` extends the first and instantiates the second | `WriteOnce`, `LogOnce`, by refinement | `DocumentWrite_proofs` (with `ProfileWrite`), `ErpLog_proofs` |
| `StockGate`, `TenantPools` | `StockService` | `StockSlots`, by refinement | `StockAndImages_proofs` |
| `PurchaseOrderUpdate`, `DocumentLock`, both over `OrderRow` | `SignedOrder` | | `SignedOrder_proofs` |
| `DocumentImages` | | | `StockAndImages_proofs` |
| `TenantImages` | | | `TenantImages_proofs` |
| `ArReceipt` | | | `ArReceipt_proofs` |
| `DetailDiff` | | | `ErpLog_proofs` |
| `SigningWatch`; `Transactions`; `SetAllocation`; `RelatedGraph` | | | `Parts_proofs` |

`MC…` modules give the constants values. Two of them, `MCParts` and
`MCStockAndImages`, hold several parts that share no state: a behaviour picks one
(`part`), which runs while the others rest, so the state spaces add up and do not
multiply. A property of such a run is about one of the parts, and a behaviour of the run
is one of each part (`EachRunsAlone`, `EachPartRunsAlone`), so what is proved of a part
holds in it. Definitions marked
"Not the code" or "Mutant" are the plausible errors with which `PROJECT.json` shows
that a property can fail; nothing else uses them.

## 3. The modules and the code

All protocols share a frame. A *request* is one HTTP request, served once;
a client's retry is another request that makes the same call. Each request has a
phase; the steps between two phases are what one SQL statement, or a run of
statements that nothing can observe in between, does. What a transaction reads
it reads from `view`, the snapshot PostgreSQL took at the first statement of the
REPEATABLE READ transaction; what it writes is added to the committed state in
its commit step. A failing statement, an expired deadline, a disconnected client
and a stopped process end a transaction without a trace (`Fail`), unless its COMMIT is
already on the way: then it may take effect although `tx.Commit` returns an error, or
nobody is left to hear it (`CommitUnheard` and its like; `LoseReply` in
`SaleCancellation`). A commit that takes effect only after its caller was told of the
failure is not a step of its own. A request that takes no further step is a process
that stopped.

### CancelOnce, SaleCancellation

`CancelOnce` has two variables, the cancellations of each source and the answer
to each request, and one-step actions.

| `SaleCancellation` | code |
|---|---|
| `call` | the normalised request; `kind` is the endpoint (void 45, credit note 48, reversal 37), `profile` the profile version, `intent` and `timed` what of the body reaches the payload hash |
| `view`, `missed` | the snapshot; whether the source row has been updated since, which makes `FOR UPDATE` and `UPDATE` fail with 40001 |
| `lock` | `pg_advisory_xact_lock` on the source (`beginSaleInvoiceCancelTx`) |
| `row`, `docs`, `rel` | `ic_trans` of the source, cancellation documents with their profile marker, rows of the profile relations with who inserted them |
| `clock` | `time.Now()`, when a body gives no date or time |
| `Receive`, `AcquireLock`, `LockTimeout` | begin, wait for the lock, 55P03 → 409 `document_busy` |
| `InvoiceVerdict`, `OrderVerdict`, `ExistingVerdict` | the early returns of the handlers, in their order; they differ between invoices and orders |
| `AnswerOnly`, `Examine`, `Reconcile` | a refusal or a preview; all checks passed and the row locked; the repair of a document's profile |
| `InsertHeader`, `DuplicateNumber`, `MarkSource`, `Commit` | the statements of the creation |
| `Respond`, `LoseReply` | the reply, or its loss |
| `ErpCancel`, `ErpReference`, `TouchSource` | the ERP's own cancellation and references; `lock.go`'s and other updates of the row |

### WriteOnce, LogOnce, DocumentWrite, ErpLog, ProfileWrite

`WriteOnce` is what a client of the write endpoints may rely on: a call is decided in
one step, by the document and its payloads as they are then (`Create`, `Confirm`,
`Refuse`, `Taken`), or fails. Who is told `internal_error` does not know whether the
call was carried out: `Create` and `Confirm` may say so too, in full and at once; any
other failure had no effect. `DocumentWrite` implements it: the document is `stored`, its payloads are those of the markers (`payloadsBar`), and a call
is asked when it leaves `idle` (`askBar`). Each decision is a step that compares
committed state with the call; snapshots, waits, second looks and retries are stutters.
`WriteOnce` promises one payload only of a document made with its profile
(`Sealed`): of another one the code may confirm two, as `write_two_payloads` shows.
`LogOnce` is the same for the log: a document has one row or none, and a call
adds it, fills it in or finds it in the step in which it is answered, or warns.
`ErpLog` implements it; its `Commit` is that step, and `status` shows as an
answer only from then on (`answerBar`).

| `DocumentWrite` | code |
|---|---|
| `Core`, `Header`, `Fine` | a body in three parts: what `existingDocumentMatches` compares for every call (customer, totals, lines), what it compares in addition for a profile call (dates, branch, remark), and what only the payload hash tells apart (shipment, cents) |
| `stored`, `rels`, `marks` | the header row with its maker, the rows of the VAT and shipment relations, the profile markers in `logs` |
| `fresh` | the request is in the second transaction of `insertDocument`, at READ COMMITTED: `Reads` gives the committed state, not the snapshot |
| `Receive`, `Reject` | `docExists` and the snapshot; validation of references and items |
| `InsertHeader`, `UniqueConflict`, `LookAgain` | the INSERT, which waits for a pending number; 23505, rollback, the second look, which does not see an inactive document |
| `Mismatch`, `LegacyExists`, `Match`, `SerializationFailure`, `Vanished` | `existingDocumentMatches` FOR UPDATE and `validateStoredProfileHash`; its row is locked to the end (`matched`), or its SELECT fails or finds nothing |
| `Stores`, `Reconciles` | what the transaction of a new document does, and `writeProfileRelations` for an existing one |
| `Commit`, `Reconcile`, `CommitUnheard` | either commits, and the request goes on to its log; or it commits and `tx.Commit` returns an error (`write.go:858`, `1056`, `1176`): the document, its relations and its marker stand, the answer is 500, and no log is begun |
| `ErpCreate`, `ErpEdit`, `Cancel` | the ERP; a cancellation made here is `Cancel`, seen from this module |

`ErpLog` is the transaction in `<tenant>_logs`: `Begin` (with the memory of an
unavailable log database), `Lock`, `Write` (the duplicate check and the UPDATE or
INSERT that follows, READ COMMITTED under the lock), `Commit`, `Fail`,
`CommitUnheard` (committed, but the answer missed the deadline), `Remember` and
`Forget` (the memory, written after the lock is gone). `data` of a row is the
payload or nothing, as `data_new` is for a legacy call.

`ProfileWrite` extends `DocumentWrite` and instantiates `ErpLog` (`L`) for the same
requests, and orders them as `createDocument` does: main database, log, reply.
Other requests run in between; `Complete` is `documentWriteResponse`'s
`profile_status`.

### DocumentImages

| `DocumentImages` | code |
|---|---|
| `call` | a request that `validateDocumentImagesRequest` accepts: distinct pages, at least one; image data do not occur, a row is a page and the request it comes from |
| `mainRows`, `imageRows` | `sml_doc_images` in `<tenant>` and in `<tenant>_images`, as `Replace` wrote them (rows that another program put there before are not modelled; the first replacement deletes them) |
| `mainLock`, `imageLock` | `acquireDocumentImageLock` in either database |
| `alive` | whether the server still has the main transaction, which is idle while the image database is written |
| `doomed` | the rows a DELETE found; the INSERTs become visible with the commit, so `Replaced` is one step |
| `Receive`, `LockMain`, `NotFound` | validation and Begin, the lock, `locateDocForLock` |
| `LockImage`, `DeleteImages`, `CommitImages` | `replaceDocumentImagesInPool`, a transaction of its own |
| `ReplaceMain`, `CommitMain` | the same in the main transaction, which has its lock already |
| `Fail`, `MainGone`, `…Unheard`, `LoseMain` | an error or a stop anywhere; the use of a lost main transaction; commits whose answer is lost; the server ending the main transaction |

Both transactions are READ COMMITTED (`pool.Begin`), unlike the others.

### ArReceipt

| `ArReceipt` | code |
|---|---|
| `call` | `doc_no` or `NoNumber`; for each distinct `order_sn` the `invoice_doc_no` of its line or `NoInvoice` |
| `receipts` | by number: `ap_ar_trans` with its details and `cb_trans`, written in one transaction; `open` is `last_status = 0` |
| `active`, `OrderOf` | sale invoices in `ic_trans` with `last_status = 0`, and their `doc_ref` |
| `known` | history: the numbers in use when a request came |
| `PickNumber` | `nextReceiptDocNo`, over receipts that are not cancelled |
| `Found`, `Received`, `Prepare` | `loadReceiptInvoices`: an invoice of the order (any, if there are several) or else the named one; a receipt that has the invoice or another invoice's order; the checks of each line |
| `InvoiceNotFound`, `AlreadyReceived`, `Reject`, `Duplicate` | the refusals; lines are a set, so any line may be the first that is refused |
| `CheckNumber`, `Insert`, `Commit` | the EXISTS, the header (which waits for a pending number), the rest |
| `ErpCreate`, `ErpCancel`, `CancelInvoice` | receipts of the ERP, cancellations |

The transaction is READ COMMITTED: a step reads what is committed when it is
taken. Invoices with an empty `doc_ref` are left out, and order and invoice
numbers, which share one map in the code, are taken to be distinct.

### OrderRow, PurchaseOrderUpdate, DocumentLock, SignedOrder

| Definition | code |
|---|---|
| `status`, `frozen`, `header`, `detail` | the rows with one number: a purchase order, another document of `ic_trans`, a bill; `is_lock_record`; creditor, reference and `remark_5` of the order, and what all its details repeat |
| `rowLock`, `LockRow` | `SELECT … FOR UPDATE` at READ COMMITTED: waits, then reads the row as it is |
| `NotPurchaseOrder`, `NotFound`, `Conflict`, `SupplierNotFound`, `DryRun`, `Unchanged` | the early returns of `UpdatePurchaseOrderCreditor` and `…DocRef` |
| `CommitUpdate`, `CommitUnheard`, `FailUpdate` | UPDATE of header and details and the commit, heard of or not |
| `LogUpdate`, `LogGivenUp`, `LogLate` | `updateERPLogCreditor` after the commit; given up at its deadline, executed by the server perhaps later |
| `Create`, `LogCreation` | the creation of the order or its retry, which logs the creditor it matched |
| `ProbeTrans`, `ProbeBills`, `Freeze`, `SignFail` | `lock.go`: two SELECTs and an UPDATE, each a transaction of its own |

### StockGate, TenantPools, StockService, StockSlots

| Definition | code |
|---|---|
| `globalUsed`, `tenantUsed` | the buffered channels `h.global` and of each tenant |
| `flight`, `joins`, `result` | `singleflight.Group`: who calculates for a key, who waits for it, and whose calculation a request is answered with |
| `Arrive`, `TakeGlobal`, `TakeTenant`, `GetPool`, `Release`, timeouts | `Do`, `acquire` and the deferred releases |
| `pools`, `opened`, `writer`, `visit` | `Manager.pools` and its mutex; pools with connections, registered or not |
| `Look`, `LookAgain`, `Register`, `Refuse`, `Close` | the two looks of `Get`, the ping under the write lock, its failure, the end of the server |
| `StockSlots` | the abstract specification: a tenant has one calculation at a time, all together at most `Limit` |

### TenantImages

A database has one of five shapes: missing, without the table, lacking columns,
as the template has it, or different in another way. `ReadCatalog`, `Inspect` are
`VerifyTenant`; `Refuses` is what `tenant_readiness.go` asks of its report; `Lookup`,
`CreateDatabase`, `Define`, `CommitSchema` are `BuildProvisionPlan`,
`EnsureDocImagesSchema` and `RepairSchemaColumns`, where `CREATE DATABASE` stands at
once and the statements of a table are one transaction. `GivesUp` is every error path.
`FailTenant` and `Abandon` end a caller at any statement.

### SigningWatch, DetailDiff

`SigningWatch`: `roworder` is given by the INSERT and seen at the commit, and the ERP
may have several rows open. `ReadBaseline`, `CheckStatus` (one query,
`loadERPLogStatus`) and `Accept` are the endpoints and what their caller does with
`CurrentRoworder`. `DetailDiff` is `diffERPDetail` over pairs of small snapshots,
after `normalizeERPValue`. A line has an item code, a number, a `content` (name,
quantity, price, amount) and the `rest` (discount, unit, warehouse, remark and so on).
`IsBlank` looks at the code and the content only, as `erpDetailRowIsBlank` does; in
content an empty number and a zero are two values of `Void`, alike for `IsBlank` and
different for the comparison of fields (`SameFields`).

### Transactions

`AskNext` is `nextDocNoFromExisting`; `InsertHeader`, `InsertLine`, `CommitCreate`,
`FailCreate` are `Create`'s transaction, where the unique number makes the INSERT wait
and a cancelled document keeps its number; `GetHeader`, `GetLines` are `Get`'s two
queries; `ErpFiles` and `ErpVoids` are the ERP.

### RelatedGraph, SetAllocation

`RelatedGraph` takes one document off the queue (`Expand`), reads the headers of its
neighbours (`ReadHeader`), and then sorts (`Place`, `EndSorting`) as
`sortRelatedNodesByFlow` does. `SetAllocation` is `AllocateCents` and its three uses in
`prepareDocumentItems`, over all small lines.

### What is assumed of the outside

PostgreSQL: a REPEATABLE READ snapshot is taken when the first query starts,
before that query waits; `FOR UPDATE` and `UPDATE` wait for the row and then fail
if it changed since the snapshot (at READ COMMITTED they read it again);
transaction-level advisory and row locks end with the transaction; `ic_trans` has a
unique index on `(trans_flag, doc_no)`, which the code relies on (it handles 23505)
but does not create; so has `ap_ar_trans`. The ERP cancels a source and writes its
cancellation in one transaction, updates the source row when it refers to it, and
does not delete rows. These are the definitions mapped as external or named `Erp…`.

Abstractions: the relations of a document (VAT, shipment, ledger) are written by
one function under one condition each, so they are one row per document;
the detail rows go with their header; amounts, names and formats do not occur
outside `SetAllocation` and `DetailDiff`.

## 4. The runs

| Run | Instance | Shows |
|---|---|---|
| `cancel_races` | 3 requests, 1 invoice, 6 calls, a clock of 2 minutes | one cancellation at most and no action on a stale view (`SourcesAreSafe`), true answers, a dated retry finds its document, `SaleCancellation` implements `CancelOnce` |
| `cancel_numbers` | 2 requests, 2 invoices, 1 order, 2 numbers | source and document change together; relations exactly once; requests are answered |
| `write_races` | 3 requests, 1 number, 3 calls | `DocumentWrite` implements `WriteOnce`, so every answer is decided in one step by the document as it is; a profile written once, identical retries accepted, calls answered |
| `log_rows` | 3 calls, 2 documents | one log row, true statuses, `ErpLog` implements `LogOnce`; calls end |
| `profile_complete` | 3 requests, 1 number, 2 payloads | a profile reported complete is complete in both databases; the log tells only what was committed |
| `stock_images` | stock: 3 requests, 2 tenants, 2 slots, 1 other caller, who wants one of the pools; images: 3 requests, 2 documents, 2 pages | slots, flights and pools are sound, `StockService` implements `StockSlots`; neither image database mixes pages and the two disagree only under a request that was not confirmed; requests are answered |
| `parts` | 2 writers and 1 signer of an order, 2 creditors, one of them in use; 2 callers of a tenant; 3 log rows; 4 documents, 3 references, asked for the first or the third; snapshots of 3 lines; sets of 4 components; 2 receipts, 2 orders, 2 invoices; 2 clients and 2 numbers | the parts that share nothing, each with its promise: `OrderAnswersHold`, `ReplacesWhatItReports`; `TenantIsSafe`, `TenantGetsReady`; `VerdictIsRight`; `AnswerIsRight`; `DiffIsRight`; `SplitIsFair`; `ReceiptsAreSound`; `DocumentsAreSound` |
| `cancel_lost_race`, `cancel_retry_clock`, `write_two_payloads`, `receipt_race`, `tenant_repair` | 2 or 3 requests; 1 caller | the divergences below |

*Bounds.* Two requests are a race; the third is the retry, or the winner's rival,
that meets what the race left behind. Every violation of the mutants in
`PROJECT.json` shows with these numbers. One source or number is enough where the
properties are about one; two numbers and two sources occur where requests for
different sources meet. The environment is unbounded: the ERP acts whenever its
guards allow. Its values are finite, so the only bounds are those named as
constants:

| Bound | Module | Why it is enough |
|---|---|---|
| `LastMinute` | `SaleCancellation` | two minutes tell a call from its retry a minute later |
| `LastNumber` = 2 | `ArReceipt` | a number that is taken and one that is free |
| `LastRow` = 3 | `SigningWatch` | one row before the baseline, one between two checks, one that is late; the theorem is for any |
| `LastSeq` = 2, `FirstLong` = 2, `LineCount` = 2 | `Transactions` | a number inside and one beyond the format's digits; a document with some of its lines; the theorems are for any |
| `LastDoc` = 4, `MaxDepth` = 2, `MaxNodes` = 3 | `RelatedGraph` | a document beyond the depth and one beyond the limit; up to three references, circles among them, seen from the first document and from an inner one; one step of the ERP for each walk |
| `MaxLines` = 3, nine `Lines` | `DetailDiff` | two lines with one identity and a third that is moved; among the lines some with one, both or none of code and number, blank ones with nothing and with a zero, and pairs that only the rest tells apart |
| `MaxComponents` = 4, `MaxNet` = 9, `MaxVat` = 3, weights 1 to 3 | `SetAllocation` | the last share becomes negative with four components; the amounts cover all remainders by the sums of weights that occur |

Requests are interchangeable, and every property of a safety run quantifies over
all of them, so they are a symmetry set there; the runs that check liveness use
none (in `stock_images` requests come in the order of their names instead). `CHECK_DEADLOCK FALSE` in all runs: requests are served once, and when all
have been, and the ERP has no more to do, the system rests.

*Divergences found* (runs that expect a violation):

- `cancel_lost_race`: `docs/openapi.json:5348` promises a 409 for a "state race". A
  request that waited for the lock while another cancelled its source has a
  snapshot from before its wait, so `FOR UPDATE` fails with 40001, and the handler
  answers 500. The check that would say `source_sale_state_changed` cannot be
  reached by a race.
- `cancel_retry_clock`: `docs/openapi.json:5301` says "Idempotent by source sale
  invoice"; date and time default to the clock and are part of the payload
  hash, so the same body is refused a minute later.
- `write_two_payloads`: a test says that a different payload hash must conflict.
  Two reconciliations of a document without a marker, in snapshots that do not
  see each other, both write theirs: the row lock of `existingDocumentMatches` makes
  the second wait, but the first does not update the row, so nothing fails.
- `receipt_race`: `docs/openapi.json:2995` promises a 409 for a "duplicate receipt or
  invoice already received". The check and the INSERT of a receipt are not atomic
  and lock nothing, so two requests for one invoice, with different numbers, both
  succeed. What does hold is `NotPaidAgain`: only requests that overlap pay twice.
- `tenant_repair`: `tenant_readiness.go:184` says that a repair "adds columns that […]
  are missing from the tenant's main and/or image database"; if only one of them
  lacks columns, the plan for the other is refused, after the first may have been
  altered, and the tenant is answered that nothing can be repaired.

*Other observations*, seen while modelling, that contradict no sentence of the
repository or are excluded by the properties:

- A second provision that meets the first after `CREATE DATABASE` and before its
  table is answered 502 although `docs/openapi.json:5072` says "Idempotent —
  re-verifies after a concurrent create": it re-verifies once, at once.
- If the image database is missing, it is created before a mismatch of the main one
  is found, and stays. The command cannot complete an image database that it left
  without its table; the endpoint can. A provision that meets the command leaves a
  bare main table to the next one.
- A log row that is committed after one with a higher `roworder` is never reported
  (`overtaken`): the baseline, or the last accepted check, is past it.
- Detail lines with one identity are told apart by position, so inserting a line
  above them is reported as more changes than were made; never as none.
- The test for a blank line looks at five fields (`erp_log_diff.go:366-378`): a line
  with only a discount, a unit, a warehouse, a shelf, a barcode or a remark comes and goes
  without a difference, so "an empty diff genuinely means nothing a user cares about
  changed" (line 38) is true of lines that say what was sold, and `EmptyDiffMeansNoEdit`
  is about those. On the other hand a blank line that stays and is saved with 0 where
  there was nothing is reported as changed (lines 240-242): `SaveGivesNoDiff` excludes
  it (`BlanksStay`).
- A document write whose commit was not heard answers 500 and does not log: the log row
  is missing until a call with a profile is repeated; a legacy retry does not log.
- The last component of a set may get a negative share of a few cents.
- The next number repeats that of a cancelled document, which is refused; the same
  is true of the automatic number of a receipt.
- `Get` of `transaction.go` looks for the number without its kind, so kinds that share a
  number are mixed. A retry of a `Create` whose commit was not heard of is told that
  the number exists.
- A retry of a creditor change whose log failed finds nothing changed and leaves the
  log as it is. A frozen order may still be changed here.
- A preview of a cancellation may be older than its wait for the lock; a retry of a
  cancellation loads detail rows in any state, its first call only active ones, which
  gives another hash if the ERP has inactive ones.
- A legacy retry of a document does not try to log it again.

## 5. Fairness

Liveness is checked under weak fairness of each request's own step
(`Step`, `Serve \/ Answer`, `StockStep`); of `DocumentImages`, including the discovery
that the main transaction is gone; of each caller's `PoolStep`. The code justifies it:
`net/http` runs each handler in a goroutine of its own, every statement runs under
a context with a deadline, the lock wait has `lock_timeout`, every wait at the gate has a
deadline, and no handler waits for a client. The mutex of the pools knows no
deadline, but whoever holds it pings under one and then gives it back. A step that
stays enabled is then taken; one that another request disables (the lock went to a
third) need not be. `Fail`, lost replies, the ERP and the end of the server have no
fairness. A process that stops is outside the liveness properties: its requests are
not answered, and its transactions are rolled back by the server (`Fail`), or their
COMMIT still takes effect (`CommitUnheard`).

## 6. Proofs

`tlapm` checks the theorems below for any sets of requests, sources, numbers,
bodies, tenants and calls and for any bounds; the named assumptions on the
constants are the only ones.

*`SaleCancellation_proofs`.* `AtMostOneCancellation` is not inductive: nothing in it
says why a stale snapshot does no harm. `IInv` adds that the lock belongs to the
request past the wait (`LockOwned`), that a snapshot which missed no update of
its row is current (`ViewCurrent`), and that between the checks and the commit
nobody else updates the row (`RowLockKept`). From it: `TypeCorrect`,
`NeverCancelledTwice`, `MarksMatchDocuments`, `ChecksStillHold`. `JInv` adds that a
snapshot is a past of what is committed (`ViewOfThePast`), that a number has one
owner (`NumbersOwned`), that answers come late enough (`AnswersInPhase`), and that
only this service writes markers: `RelationsWrittenOnce`, `OnlyTrueAnswers`,
`RetriesRecognised`. `ImplementsCancelOnce` shows that initial states map to initial
states of `CancelOnce`, and every step to one of its steps or to a stutter.
`WaitsComeToAnEnd` is the part of "no deadlock" that needs no fairness: locks are taken
in the order advisory lock, row, number, so whoever is waited for waits for one other
call at most, and that one for nobody; and since calls for one source queue at its
advisory lock, none of them ever waits for another at the row.

*`DocumentWrite_proofs`.* Rows are never removed and relations and markers only
added, so what a snapshot showed and matters stays so (`ViewInv`); what is not
stable is held by the row lock between the comparison and the commit (`PhaseInv`,
`LockInv`) or stopped by the serialization failure. `MakerInv` ties a document to
the request that made it and was told so, or was told that it failed; `RefusedInv` keeps the reason of a refusal:
`DocumentTypes`, `OutcomesStayTrue`, `ProfilesAreWrittenOnce`, `RetriesAreAccepted`.
For the refinement, `SeenInv` adds that what a request compares itself with is the
document as it is: the active one of its snapshot, whose row no update followed or
the read fails, and once matched a row that it has locked. What a transaction stores
or reconciles is the same whether its commit is heard or not (`CommitInv`,
`ReconcileInv`), and a step of `WriteOnce` either way. So each answer is a step of
`WriteOnce` (`OnceStep`): `ImplementsWriteOnce`.

*`ProfileWrite`, in the same module.* A step of the whole is a step of the document's
transaction or of the log (`L!…`) or the reply, so the invariant of `DocumentWrite`
carries over. What ties the two databases together is that a request logs only a
document that backs it (`LinkInv`), that a status which says "there is a row" stays
true because rows and their content are never removed (`StatusInv`), and that each
row tells of a request that is backed (`RowInv`). The advisory lock of the log database
is not needed for this, only for `OneLogRow`. `CompleteMeansComplete`,
`LogTellsTheTruth`. In the other direction, `WholeKeepsItsParts`: the whole is a behaviour
of `DocumentWrite` and one of `ErpLog`, so whatever is proved of either, the refinements
included, holds of a document write from its first statement to its reply.

*`ErpLog_proofs`.* Whoever is past the lock has it (`LockHeld`), so what a call
decided to do still fits the rows when it commits (`VerdictHolds`): `LogTypes`,
`NeverLoggedTwice`, `StatusesAreTrue`, `NothingLoggedIsLost`. As there is at most one row,
what the commit does to it is one step of `LogOnce`, the one its status names
(`CommitOnce`): `ImplementsLogOnce`.

*`DetailDiff`, in the same module.* A key tells the lines of one snapshot apart,
whatever identities they have: of those with one identity all but the first have
their place in it (`KeysTellLinesApart`). So if nothing differs, taking a line that
says something to the one with its key in the other snapshot is an injection, in
both directions, and every such line is there as often, with all its fields
(`NoDiffMeansNoEdit`). With unique
identities a key holds nothing of its line's place, so lines that say something are
found under one key in both (`SavesGiveNoDiff`). Together: `DiffsAreRight`.

*`ArReceipt_proofs`.* The check of a request holds nothing, but a receipt that was
there when the request came can only be cancelled, so what the check said of it
stays true (`PaidInv`, `KnownInv`); a number that is inserted is nobody else's
until the transaction ends (`InsertedInv`), so no receipt is replaced (`MakerInv`):
`ReceiptTypes`, `RetriesPayNothing`, `CreatedStaysStored`.

*`StockAndImages_proofs`.* A step of the service is one of the gate or leaves it alone, and
the same for the pools, so each half has an invariant. That of the gate relates who
joined a flight to who flies it (`CrewInv`, `FlightInv`): only then does the end of a
flight, which answers its whole crew at once, give everybody the balances asked
for. That of the pools says that the mutex has one holder, who is the one that opens
a pool (`HolderInv`). The refinement maps who has both slots to the abstract `busy`;
that at most `Limit` tenants are busy follows from an injection of busy tenants into
the holders of slots, counted by `SlotsAccounted`: `NoSlotLeaks`, `FlightsStaySound`,
`PoolsStaySound`, `GateImplementsSlots`.

*`DocumentImages`, in the same module.* Who replaces rows has the lock of that database, so what
its DELETE found is all there is (`LockInv`, `DoomedInv`, `MadeInv`). A request that lost
its main transaction may still commit its images, even after a later request
started: it is never told "ok" (`AuthorInv`, which also keeps for every live request
past its image commit that the images are of an unconfirmed request): `ImageTypes`,
`PagesNeverMix`, `DivergenceIsKnown`.

The run of both is a behaviour of each (`EachRunsAlone`), hence `BothKeepTheirTypes`.

*`TenantImages_proofs`.* Complete tables stay complete and tables with
columns keep them (`Grows`), so a report that says so is true for ever
(`ReportsHold`), and who is about to commit has the only open transaction
(`OwnTable`): `TenantTypeCorrect`, `TenantsStaySafe`. That a provision succeeds is about
a whole run of a caller, and becomes an invariant by saying at each of its statements
why the next one will not be in vain. A caller is *tracked*: what its report, the
database it works on and its round say of the shapes as they are now (`Tracked`). A
provision is a *carrier* while it will not give up unless somebody else does the
table that it is about to do (`Carrier`), and then has its last look at two complete
tables (`LastLook`). `AloneInv`: a provision that is alone, of a tenant that can be
provided, is one or the other until it is told "ready" or goes away; nobody else can
take a step, and what earlier ones left is among the shapes it copes with.
`CarrierInv`: if nobody failed, went away or ran the command, both tables are
complete or somebody is a carrier. A carrier loses that only to the step of another
which changes a shape, and who does that is a carrier before and after it, or has
completed the tables (`ChangesAreCarried`, `StepGoes`). When all are over nobody is a
carrier: `TenantsGetReady`.

*`SignedOrder_proofs`.* The row lock makes what a request has read true until it writes
(`SeenInv`); a request writes once, so what it wrote stands until somebody else
writes that field (`DoneInv`); a request that was the only one with something for
the log at its commit stays so while the order has its creditor (`LogInv`):
`AnswersHoldOn`, `NothingIsLost`.

*`Parts_proofs`.* A bounded non-empty set of numbers has a greatest element
(`GreatestExists`, by the well-foundedness of the proper-subset order on the subsets
of a finite set) and hence a least one, so what is so of 0, and of k if of k - 1, is so
up to n (`Upwards`: look at the least number of which it is not). This is induction
over a given set and needs no operator as a parameter, and by it a recursion has a
solution up to n (the lemma `Recursion`, which is about no program). On these rest the
sums and distances below.

- `SigningWatch`: without overtaking, what is committed after a look is beyond all it
  saw (`VerdictsAreRight`).
- `Transactions`: who inserts lines has its number to itself (`NumberIsHeld`), what is
  filed is whole (`FiledIsWhole`), an offer is beyond what stood (`OfferIsBeyond`):
  `DocumentsStaySound`.
- `SetAllocation`: the total of a sequence is the last of its partial sums, which are
  unique (`SumsAgree`), so the last share makes up for all others (`AllocateIs`). Each
  rounded share errs by at most half a cent, and the errors of the first k together by
  at most k halves (`ErrorsAddUp`, upwards in k): the last share errs by as much as all
  the others together. Three roundings of parts of one component are less than two
  cents apart (`RoundsTogether`): `SplitsAreFair`.
- `RelatedGraph`: `Around` is unfolded once (`AroundNext`), grows with the documents, the
  references and the distance, and so outlasts what the ERP adds. The invariant says
  that what waits in the queue is as near as its label (`NearInv`), that labels never
  fall and differ by one at most (`QueueInv`), as in any breadth-first walk, and that,
  if the ERP is still, all documents as near as the one looked at last are known, and
  all next to a known one that waits no more (`LevelInv`). At the end of the queue the
  answer is therefore closed under references, or the depth is reached. `SortInv` keeps
  that a document is placed once and after all it refers to: `GraphTypesHold`,
  `AnswerIsAlwaysRight`.

`Parts_proofs` extends the proofs of the other parts of that run, `SignedOrder_proofs`,
`TenantImages_proofs` and `ArReceipt_proofs`: the run is a behaviour of each part
(`EachPartRunsAlone`), hence `PartsKeepTheirTypes`.

Only model-checked: liveness (`Answered`, `CallsEnd`, `StockAnswered`), since fairness
and ENABLED are out of the prover's reach. Every invariant and action property of the
runs, and all four refinements, are theorems. The runs that expect a violation refute
what they check, and have no theorem.

## 7. Not modelled

A `CREATE DATABASE` that the server finishes after its caller gave up is not a step of
`TenantImages`, nor is any other statement that outlives its caller, but for the log of
an order update (`LogLate`).

`normalizeAndValidate`, set expansion and the reference checks of a document write
are one choice (`Reject`), since nothing they reject is stored. Texts and numbers of
the log (`normalizeERPValue`), the header sections of a difference, document formats
and VAT (`calcVat`, computed from the request alone) are data that no property here
tells apart. The balances and the demand evidence themselves, receipt candidates,
the log's history, lists, candidates and next steps of related documents, and
`document_image_read.go` are read-only queries whose correctness is their SQL text.
Master data (products, customers, suppliers) is read and inserted by single
statements that rest on the unique keys of the ERP's tables; login and signatures
are stateless; configuration, middleware, replies and logging keep no state that
changes. `docs/` holds a vendored script for showing the API description, which is no
part of the service.
