# OpsFlow: TLA+ models, checks and proofs

OpsFlow runs a garment factory's orders: a TypeScript monorepo with an Express
server (`src/packages/server`) over PostgreSQL through Prisma, a package of pure
calculations and permissions shared with the client (`src/packages/shared`) and
a React client. This directory models the parts of the server in which people,
retries and crashes meet: what it keeps in tables, in which transaction, under
which isolation, and what it reads before it writes.

Paths below are relative to `src/packages/server/src/`; `calc/...` is
`src/packages/shared/src/calc/...`. Bare `file.ts:n` names the line of a file
the same paragraph introduces.

## 1. The system's parts

| Part | Code | State it keeps | Operations | Model |
|---|---|---|---|---|
| Inventory | `services/inventory-service.ts`, `calc/inventory.ts`, `calc/num.ts` | `material_stock` (balance per location), `material_movements` (ledger), `material_reservations`, `bom_items.issuedQty`, `material_issues` | receive, adjust, write off, reserve, decide, release, issue, return, reserve a whole order, reconcile | `Inventory`, `StockPosition`, `StockAccount`, `OrderMaterials` |
| Bill-of-materials issue and correction | `routes/materials.ts`, `routes/inventory.ts` | the same lines and logs, a line's link to the catalogue | issue a line, type its figure, save a bill, add, remove and link lines | `BomIssue` |
| Workflow tasks | `services/workflow-service.ts`, `services/rules.ts`, `routes/tasks.ts` | `tasks`, the activity log's reopenings, notifications | complete, start, re-status, reopen, complete by itself, tell the next group | `Workflow` |
| Quality audits | `routes/quality.ts` | `quality_audits`, the corrective-action task of each failure | record, close the corrective action | `Workflow`, `Shipping` |
| Email queue | `services/email/email-queue.ts`, `backoff.ts`, `graph-mailer.ts` | `email_deliveries`: status, attempts, `nextAttemptAt` | enqueue, list, claim, send, record, back off, give up | `EmailQueue` |
| Packing lists | `routes/packing.ts`, `services/import/carton-ledger.ts` | lists, cartons, the PACKED ledger of `stage_quantities` | add, edit, remove cartons; approve, reopen; type the grid | `Packing` |
| Invoices | `routes/invoices.ts`, `services/invoice-service.ts` | invoices with their cartons | create, edit, rebuild, issue, void, delete | `Packing` |
| Production and shipments | `routes/production.ts`, `routes/packing.ts`, `services/rules.ts`, `services/order-service.ts` | production entries, shipments, the grid, `orders.cachedStatus` | record, correct, remove, ship, refresh the cache | `Shipping` |
| Change tracking | `middleware/audit-middleware.ts`, `request-context.ts`, `services/change-fold.ts`, `services/change-service.ts` | per request a collector; `audit_trail`, change events, notifications | read before, write, collect, audit, fold, announce after the response | `ChangeTracking` |
| Accounts | `services/user-service.ts`, `routes/admin.ts`, `middleware/auth.ts` | users: role, flag, active | create, disable, enable, change role, grant, revoke; the allowlist read at the start | `Accounts` |
| Alert sweep | `services/alerts/*` | `alert_state` | announce once per state | not modelled |
| Cut order and stock sync | `services/cut-order.ts`, `services/stock-sync.ts` | finished-goods cells | recompute under a row lock | not modelled |
| Backup and restore | `services/backup/*` | files, one promise in flight | dump, restore, prune | not modelled |
| Costing, import, web client | `calc/costing.ts`, `services/import/*`, `src/packages/web` | none that others rely on | arithmetic, extraction, display | not modelled |

How they interact. There are no messages between components: everything meets
in the database. The inventory's transactions share balance and reservation
rows. A bill-of-materials route calls the inventory and then writes lines of its
own. An invoice copies the cartons of packing lists. `refreshOrderCache` runs after
almost every write to an order and calls `autoCompleteTasks`, so status and workflow
move as a consequence of other writes. A failed audit creates a task, blocks the order's
status, and either the audit or the task may be closed first. Change tracking hangs
on the response and ends in the email queue, which hangs on a timer.

### What is hard in it

* **Isolation levels differ.** Reserve, decide, issue, return and wastage run
  Serializable with bounded retries, account changes Serializable with none; receipts,
  adjustments and saves run Read Committed; releases, production and shipments run in
  no transaction. What one may rely on depends on what the others run in.
* **Read, check, write by id.** Releasing a reservation, starting a task, reserving a
  whole order, saving a bill, shipping, reopening a list, changing a role and
  recording a failed email all read a row, decide, and write later, some with the
  condition in the write's WHERE and some without.
* **Two records of one fact.** Balance and ledger, a line's figure and its log, cartons
  and the packed ledger, an audit's flag and its task, an order's records and its
  cached status, a change and its announcement.
* **Writes that go past the observer.** The middleware that audits and announces sees the
  writes of one row; an `updateMany` it lets through unread. Both are used on the same
  tables, sometimes in the same request.
* **Half-done work.** Reserving an order is one transaction per line; a line's log is
  written after its movement; completing by the system is a statement at a time; a
  sent email is recorded after it was sent.
* **Retry and deadlock.** A transaction that keeps losing must be answered; one that is
  run again has collected its changes twice; the completion and the closing of a
  corrective action lock the same two rows in opposite order.

`PROJECT.json` lists every such hazard at its line, with the properties that cover
it or the reason none does.

### What makes each part correct

* *Inventory*: the balance is the replay of the ledger and not below zero; orders
  are not promised more than there is; a reservation is drawn within its quantity
  and its status says how far; what was given up stays given up; no more comes
  back than went out; a line's figure is the sum of its log; one open request per
  key; every request is answered.
* *Reserving a whole order*: no line is asked for more than it needs, to within the
  rounding of its units, but where somebody moved that very line since the position was read.
* *Bill of materials*: the log adds up to the figure; a line with a history is neither
  removed nor linked to something else.
* *Workflow and audits*: what follows a completion happens once; the next group is
  told when the group before is done; a corrective action is done only if its audit
  says so; nobody waits for ever.
* *Email queue*: one sender per reading; what is recorded is true; a message is sent
  twice only for a reason; in the end it is sent or recorded as failed.
* *Packing and invoices*: the ledger follows the cartons; no list is billed twice; an
  issued invoice says what was checked, for good.
* *Shipping*: nothing is shipped beyond production without a trace; the cached status
  is the derived one once everybody has refreshed.
* *Change tracking*: what is announced happened, once; what was updated is audited;
  what succeeded is announced, whatever fails beside it; and how far each of these goes for a
  record that is also written in bulk.
* *Accounts*: somebody can always manage accounts; the flag is on nobody who cannot
  use it, but for what an overtaken reading or a new allowlist leaves behind.

## 2. Modules

Components share few tables, so they are modelled apart. What a module needs of another
one stands in it as an environment action: `SetOrderDone` in `Inventory` for an order's
status, `ByOthers` and `Elsewhere` in `OrderMaterials` for the inventory and the bill, `SetHeld` and `General` in
`BomIssue` for reservations and other movements, `FailAudit` in `Workflow`. The composition
proper is refinement: `Inventory` implements `StockAccount`.

### `StockPosition`, `StockAccount`

`StockPosition` holds the pure part of `calc/inventory.ts`: what a reservation still
holds (`Outstanding`, `Held`), what is available, and the two loops
`planReservationDrawDown` and `planReservationRestore` over one fold, `Walk`.
`Poured(cap, rank, q, plan)` says declaratively what such a loop produces; `Inventory`
uses it in its actions and states, as `LoopsPour`, that the loops agree with it: over the
rows there are, in every order they may be walked in, for every quantity they can come to.

`StockAccount` is the abstract specification: `onHand`, `promised`, `lost`. A promise
is made, or free stock issued, only while the shelf covers all promises; only a
write-off lets promises exceed the shelf, and only by what was written off.

### `Inventory`

One material. State and code:

| Variable | Table or state |
|---|---|
| `stock`, `ledger` | `material_stock.quantity` per location; signed sum of its movements |
| `resv` | `material_reservations`, oldest first |
| `out` | per order, ISSUE less RETURN movements |
| `issued`, `issueLog` | `bom_items.issuedQty`; sum of the line's `material_issues` |
| `done` | the order is cancelled, shipped or completed (`ORDER_DONE`) |
| `lost` | history: written off beyond what reservations carried |
| `pc`, `work`, `tries`, `rel` | one request per person: what its transaction read and will write, how often it was refused, what a release has read |

| Action | Code |
|---|---|
| `ReceiveStock`, `AdjustStock` | `receiveStock`, `adjustStock` over `applyMovement` |
| `ReserveForOrder`, `DecideReservation` | the same names |
| `ReleaseRead`, `ReleaseWrite` | `releaseReservation`'s `findUnique` and its `update`, two steps |
| `IssueToProduction`, `ReturnFromProduction`, `RecordWastage` | the same names, with `activeReservationsFor`, the plans and `applyReservationChanges` |
| `Commit`, `Retry`, `Refuse` | `withSerializableRetry` |
| `SetOrderDone` | an order's status as the inventory reads it |

*Transactions.* A serializable transaction is two steps. Its body runs on the state
it sees and records what it read (rows, and the predicates rows were searched by)
and what it will write; its commit installs that. A commit by somebody else in
between dooms it if both write one row (PostgreSQL's first-updater-wins), or if a
read-write cycle arises between the two (its serializable snapshot isolation).
PostgreSQL refuses more than these pairs; whatever the model refuses, PostgreSQL
refuses, so a property that holds here does not lean on a conflict the database
would miss. Read Committed statements and releases commit in one step and take
part in row conflicts only.

*Abstractions.* Quantities are small naturals and a line's unit is the material's
unit. The ledger is its sums. Where rows are restored most recently updated first,
the order within the line's own and within the general rows is left open, which
covers the code's order. Every location has a balance row from the start.
`allowPartial` is the choice of a `q` that is free. What a refused request asked for
is not kept: its body run again may be any body. A Read Committed reader's torn
reads inside a body are not modelled.

*Bounds* (in guards, commented `bound`): `MaxRows` reservation rows ever, `MaxQty` per
quantity and for all stock, `MaxLost` written off, `Retries` per request (the code's
is larger; the control is the same).

### `OrderMaterials`

`reserveOrderMaterials`: the order's position is read once (`ReadPosition`), then each
line of the sequence `BomLines` is passed over (`SkipLine`), reserved in a transaction of
its own (`ReserveLine`), or found to have nothing free any more, which refuses the
whole run (`RefuseLine`); `Finish` when the lines are through. `Reservable` is recomputed
per line against what is free at that moment; the quantity asked comes from the position
read at the start.

*Units.* A line's need and what it was issued (`required`, `issued`) are in the line's unit,
its reservations, its request and free stock (`reserved`, `requested`, `free`) in the
material's. `toRequirementUnit` restates the latter in the line's unit for the position
(`InLineUnit`), and `reserveForOrder` converts what is asked back (`InStockUnit`). Both
round to the stored precision, halves up (`Rounded`, `Converted`): what is asked may exceed
the need by half a unit for each figure converted, which `Slack` adds up. `LineUnit` and `StockUnit` are what a unit counts in a common
base; one step of a quantity stands for the stored precision.

| Others' actions | Code |
|---|---|
| `ReserveByHand` | `reserveForOrder` for one line: refused beyond what is free, never compared with the need |
| `Accept`, `Withdraw` | `decideReservation`, and a pending request withdrawn or rejected |
| `Release` | `releaseReservation`; a write-off that draws a reservation down (`recordWastage`) |
| `IssueToLine`, `ReturnFromLine` | `issueToProduction`, `returnFromProduction`: stock from the line's reservations, from free stock or from the general allocation; the line's figure by as much, never below zero |
| `SaveLine` | PUT and PATCH of the bill, and the lines made from a lay plan: need and issued figure set |
| `Elsewhere` | other orders' reservations, receipts and write-offs: free stock only |

The history `moved` says which lines others have asked more of, issued or taken back on, or
lowered the need of, since a run's reading. Not in it: a request decided or withdrawn, stock released,
anything done elsewhere; the theorem shows none of these makes a run ask too much.
Left open: what the general allocation holds, and the check of a return against what is
out (any return is allowed). Left out: a line linked to another material or given another unit
in the middle of a run, and reservations kept under a material the line was linked to before.
`MaxQty` bounds a figure someone enters and free stock, `MaxDebt` how far reservations exceed
the shelf, `MaxMoves` what others do to the order's lines.

### `BomIssue`

The lines of one order's bill against one material of the catalogue.

| Variable | Table or state |
|---|---|
| `born`, `there` | `bom_items` rows ever written, and those there are |
| `linked` | lines whose `materialId` names the material |
| `figure` | `bom_items.issuedQty` |
| `log`, `logged` | `material_issues`: their sum per line, and the lines that have any |
| `held` | lines with a reservation or a request open |
| `out` | the order's ISSUE less RETURN movements |
| `step`, `job` | each person's request: the line, the figure as read, the difference, whether it read a link |
| `blamed` | history: lines whose log parted from their figure in a named way |

| Action | Code |
|---|---|
| `Issue`, `Correct` | POST `/bom/:id/issue`; `setIssuedQty`, from a save or from PATCH |
| `MoveStock` | `issueToProduction`, `returnFromProduction`, called to leave the log alone: figure and stock in their own transaction |
| `WriteLog` | the log row, and for a correction the settled figure, in a later transaction under the line's lock |
| `BookDirectly` | a line linked to nothing: figure and log move by the `Difference` in one transaction |
| `SaveRead`, `SaveWrite` | PUT `/:orderId/bom` on a line linked to nothing: the figure is read, then overwritten |
| `AddLine` | a new line, with a save (logged) or by POST `/bom` (not logged) |
| `ClaimCheck`, `RemoveWrite`, `DeleteWrite`, `LinkWrite` | `bomRemovalBlocker`, then the save's `deleteMany`, DELETE `/bom/:id`, or the link |
| `FromStock`, `BackToStock`, `General`, `SetHeld` | the Materials tab: movements and reservations made through the inventory |
| `GiveUp` | a refusal, a missing row, or the server stopping, at any step |

Lines are of small quantities (`MaxEntry`) and figures (`MaxFigure`); `MaxRequests` bounds
how many requests are ever begun. Lines made from a lay plan, item texts, sizes, units, colours, purchase
figures, the limit on over-issuing and the notification that all materials are
issued are left out. An inventory transaction is one step here: what its own
interleavings do is `Inventory`'s question.

The specification is `BomSpec`, with `BomInit`, `BomNext` and `BomTypeOK`, and its parameters are
`Item` and `Person`: no name is one of `OrderMaterials`, so that one module can extend both and
hold the proofs about both.

### `Workflow`

The tasks of one order and the audits their corrective actions come from.

| Variable | Meaning |
|---|---|
| `status` | `tasks.status`; OPEN stands for NOT_STARTED, IN_PROGRESS and WAITING, which nothing here tells apart; ABSENT before the audit that creates a task |
| `completions` | history: completions since the task was last open |
| `audit` | none, open or closed (`correctiveActionClosed`) |
| `told` | groups told it is their turn, since the group before was last open |
| `reopened` | tasks with TASK_REOPENED in the activity log |
| `lock`, `stage`, `request` | row locks, and each actor's place in its request and what it works from |

| Action | Code |
|---|---|
| `CompleteCheck` | `completeTask` before its transaction, with `assertTaskCompletable` |
| `CompleteLock`, `CompleteAudit`, `CompleteUnblock`, `CompleteNotify`, `CompleteCommit` | its transaction: `FOR UPDATE` and the second read, the audit, `unblockDependents`, `notifyNextGroup`, the commit that makes all of it visible |
| `SetStatusRead`, `SetStatusWrite` | `startTask`, and PATCH `/tasks/:id` |
| `Reopen`, `ReopenLog` | POST `/tasks/:id/reopen` |
| `AutoRead`, `AutoCheck`, `AutoWrite`, `AutoUnblock`, `AutoNotify` | `autoCompleteTasks`, each statement on its own |
| `FailAudit` | POST `/quality/:orderId` with a FAIL, with `createCorrectiveActionTask` |
| `CloseAudit`, `CloseTasks` | POST `/quality/audit/:id/close-corrective-action` |
| `Abort` | external: PostgreSQL's deadlock victim |

Transactions are Read Committed with row locks: a statement sees what is committed
and what its own transaction wrote. `autoCompleteTasks` may run at any moment,
because `refreshOrderCache` runs it after any write to the order. The count and
the update of `unblockDependents` are one step. Being told is recorded per group,
not per person. The data a task needs before completion (sizes entered, a
marker approved) is left open.

`SelfCompletingAssumption`: no task that completes itself is a corrective action. The system
completes tasks by their template's key (`services/workflow-service.ts:530`), and
`createCorrectiveActionTask` gives its task none (436-460). The specification is `TasksSpec`, and
its names are none of `Shipping`'s, for the same reason as `BomIssue`'s.

### `EmailQueue`

| Variable | Table or state |
|---|---|
| `status`, `attempts` | `email_deliveries` |
| `version`, `due` | `nextAttemptAt`: each value written is a new one, and whether it has come |
| `job` | per process and message the immediate attempt, per process the retry loop: where it is and what it read |
| `listed` | what a pass has listed and not come to |
| `configured` | the Microsoft Graph settings are there; they are read when a process starts |
| `accepted`, `failures`, `excuses`, `faults` | histories |

| Action | Code |
|---|---|
| `Enqueue` | `enqueueEmail`, which starts an attempt at once |
| `Drain`, `DrainNext` | `drainQueue`: the due messages, oldest first, `Limit` of them, one after another |
| `Read`, `Claim` | `attemptDelivery`: the row; the `updateMany` whose WHERE repeats what was read |
| `Accept`, `Fail` | external: Graph takes the message, or refuses it |
| `RecordSent`, `RecordFailure` | the outcome, by id; the back-off, or FAILED after `MAX_ATTEMPTS` |
| `LoseAnswer`, `LoseFailure`, `Crash` | a time-out after acceptance or SENT not written; the failure not written; a process stops and another takes its place |
| `BecomeDue`, `Configure` | time; a restart with the settings present |

A claim lasts ten minutes and an attempt at most two calls of thirty seconds, so a
message does not become due again while an attempt is at work on it; it may still be
*claimed* then, by an attempt that listed or read it earlier, since the claim does not
ask whether it is due. `MaxFaults` bounds stops and losses, `MaxWaits` how often a
message is put off while the settings are missing. The recipient allowlist, the off
switch and the templates are left out.

### `Packing`

| Variable | Table or state |
|---|---|
| `approved` | packing lists whose `approved` is set |
| `made`, `there`, `held` | cartons ever added, those there are, and their pieces per size |
| `packed` | `stage_quantities` of ledger PACKED, per order and size |
| `typed` | history: cells the quantity grid has set |
| `invoice` | status, the lists it was built from, the one it is filed under (`first`), its copied cartons (`manifest`) |
| `pc`, `job` | each person's request: a check, a lock, a write |

| Action | Code |
|---|---|
| `AddCheck`, `AddCommit` | POST of a carton: the checks, then carton and ledger in one transaction |
| `EditCheck`, `EditLock`, `EditCommit` | PUT of a carton's lines and DELETE of a carton: the checks; `FOR UPDATE` and both read again; the differences on the ledger with `floorPacked` |
| `SetMatrix` | the quantity grid sets a packed cell |
| `ApproveCheck/Write`, `ReopenCheck/Write` | approving and reopening a list |
| `CreateDraft`, `EditDraft`, `RebuildRead/Write`, `DeleteDraft`, `VoidInvoice` | the invoice routes; the later ones are conditional writes |
| `IssueCheck`, `IssueLock`, `IssueCommit` | POST `/invoices/:id/issue`: validated on the draft as loaded; the advisory lock and the search for a twin; the write that asks for DRAFT and the `updatedAt` it loaded |

Carton numbers, cartons read from a file, invoice numbers, lines and their arithmetic,
and the creation and removal of lists are left out.

### `Shipping`

One order; sewing only, the operation that counts as production.

| Variable | Table or state |
|---|---|
| `born`, `sewn` | production entries ever recorded, and those there are with their pieces |
| `shipment` | consignments: status, pieces, whether an override is on record |
| `grid` | totals of the IN_LINE and SHIPPED ledgers |
| `failing` | a failed inspection not answered |
| `cached` | `orders.cachedStatus` |
| `pc`, `job` | each person's request |
| `current`, `muddled` | histories: whose reading is still so; the cache was left wrong |

`ShipmentCheck/Write`, `EntryCheck/Write` and `DeleteCheck/Write` are the handlers of
`routes/packing.ts` and `routes/production.ts`: the rules of `services/rules.ts` on what
was read, then a write by id in a later statement. `SetMatrix` and `Inspect` are writes
that need no such check, and `OtherWrite` is any other write of the order (its tasks, its
details), from which the status is not derived. All of them go on to `refreshOrderCache`, which caches three columns
together: the status, a progress and a stage. The last two are not modelled, so
whether they moved is left open: the refresh either finds all three as they are (`RefreshNothing`), or reads
(`RefreshRead`) and writes its status, equal to the cached one or not (`RefreshWrite`). So a
refresh that was overtaken can put an old status over a newer one though it had no status to
change. `Crash` drops what is in flight. `Status` is `deriveOrderStatus` from shipping onwards; OPEN stands for every
earlier status, and BOOKED for every shipment that has not left.

### `ChangeTracking`

A record is one column of one row of a watched model.

| Variable | Meaning |
|---|---|
| `value`, `born` | what is committed; ids given out |
| `trail`, `events`, `mailed` | `audit_trail`; the change events of each request; how many were handed to the queue |
| `tx`, `op`, `drafts` | a request's uncommitted writes; the write in progress with the row read before it; its collector |
| `todo` | folded changes still to announce |
| `commits`, `undone`, `misread` | histories: what was committed over what; what was rolled back; rows read before that were not the ones replaced |
| `past`, `unaudited`, `untold` | histories: records a request wrote past the middleware; records whose audit row was lost; changes whose announcing a fault cut short |

| Action | Code |
|---|---|
| `Open`, `Commit`, `Rollback` | a transaction, perhaps run again |
| `CreateRecord`, `UpdateBefore`, `UpdateWrite` | the middleware around a write of one row: `findBefore` on the base client, the write, the collector, the audit row outside the transaction |
| `BulkWrite` | every other write (`updateMany`, `deleteMany`, `createMany`, `upsert`, nested): neither read, audited nor collected (`middleware/audit-middleware.ts:189-193`) |
| `Succeed`, `Fail` | the finish listener: `foldChanges`, or nothing for a failed response |
| `WriteEvent`, `Notify`, `Mail` | `recordChanges`, one change after another |
| `EventFails`, `RouteFails`, `Crash` | one event not written, and the loop goes on; looking up whom to tell fails, and the loop is left; the server stops |

A bulk write may come before, after and between single-row writes of the same record, as it does when a
task is started with a tracked update and then completed by `autoCompleteTasks`
(`services/workflow-service.ts:550`) in the same request. The flows modelled use one at
`services/workflow-service.ts:303`, 338 and 550, `routes/quality.ts:217`,
`routes/materials.ts:470` and `routes/packing.ts:715` and 757. For a record a request wrote both ways, neither the trail nor
the news is vouched for: the properties name `past` as an exception. The audit row of a creation or deletion is written for accounts
and roles only (`Lifecycle`), of an update for every record: here every record is both watched and announced.

`MaxTx` and `MaxWrites` bound each request, `MaxFaults` the faults. Who is told, the
wording, redacted and ignored columns and imports that suppress announcements
are left out.

### `Accounts`

An `account` has there, manages (its role grants account management), flag (super
administrator), active. A request (`Ask`) passes the gates of `middleware/auth.ts`, reads
its target and decides on it; a change that takes rights away then begins a
serializable transaction by asking who is left (`Guard`) and writes in it
(`GuardedWrite`); others only write (`PlainWrite`); `Refuse` is every error. `Overtaken` says
which open transactions a commit dooms: guarded ones, which read all the managers, and
those about the same account. There is no retry, as in the code.

`changeRole` takes any role but the present one. Only one role manages accounts, so `promote` is
to that role, and `demote` to any other: also from a role that does not manage, which a request that read the
account before somebody promoted it still believes it has. Such a request does not ask who
is left, since it saw no flag to take away.

The allowlist is parsed once, at boot. `Deploy` is a restart with another one, for a single
server: the requests in flight are lost, and an address struck off keeps its flag and
counts for nobody. The seed script, which takes such flags away when somebody runs it
(`prisma/seed.ts:117-126`), is not modelled.

| History | Meaning |
|---|---|
| `missed` | a role change that had not seen the flag took a manager away, and either nobody is left or a guarded request that may have counted on that manager goes on |
| `blind` | accounts left with the flag and without the role by a role change that had not seen the flag, or a grant that had seen the role |
| `struck` | accounts with the flag when their address was not on the new list |
| `deserted` | the new list left nobody who manages |

Each of them ends when what it excuses is over: `missed` once somebody manages and no such request is left,
`blind` and `struck` once the flag is gone or the role is back.

### Proof modules and instances

`InventoryProofs` (with `StockAccount`'s), `OrderMaterialsProofs`, `EmailQueueProofs`,
`PackingProofs`, `ShippingProofs`, `ChangeTrackingProofs` and `AccountsProofs` hold the
theorems, `SumTheorems` what five of them need of sums over finite sets and of least and greatest numbers; the `MC` modules
hold the instances for TLC.

## 3. What is checked

| Run | Instance | What it shows |
|---|---|---|
| `inventory_requests` | a decider and a requester, one order, 2 rows, quantities to 2, 1 lost | `BooksBalance`, `ReservationLifecycle`, `NoResurrection`, `LoopsPour`: the two loops do what the declarative pour says over every set of rows reached; `ImplementsAccount`: the inventory implements `StockAccount` |
| `inventory_line_race` | two requesters on one line, two locations, 2 rows, one retry, fair | `TypeOK`, `IssueLogAddsUp`, `OneOpenRequest`, `NoMoreComesBack`, `Answered` |
| `bom_issue` | two people, a line there is and one to come, quantities 1, figures to 2, 4 requests | `BomTypeOK` (no figure below zero), `LogIsExplained`, `HistoryKeepsItsLine` |
| `bulk_reserve` | a decider and a requester, three lines, two of them on one material, one of these in a unit of two thirds, quantities to 2, one action of others | `TypeOK`, `RunAsksWithinNeed` |
| `workflow_tasks` | two sessions, two groups, an audit, a task that completes itself, fair | `TasksTypeOK`, `CompletedOnce`, `AuditAnswered`, `Answered` |
| `email_delivery` | two processes, a message, two attempts, a fault, a wait, fair | `TypeOK`, `OneSenderPerReading`, `RecordsAreTrue`, `DuplicatesExplained`, `Settles` |
| `packing` | two people, a list, two cartons, one size, two invoices | `TypeOK` (no packed cell below zero), `LedgerFollowsCartons`, `BilledOnce`, `IssuedIsRecord`, `IssuedAsChecked` |
| `shipping` | two people, one of whom may override, an entry, two consignments, an order of one piece | `TypeOK`, `BeyondIsExplained`, `CacheIsExplained` |
| `change_tracking` | a request of two transactions and two writes against one of one, a record and a new id, a fault | `TypeOK`, `NewsIsTrue`, `ToldOnce`, `TrailIsComplete`, `AllAnnounced` |
| `accounts` | two founders, one who may join, one off the allowlist, two sessions, 5 requests, one restart with any other list | `SomebodyManages`, `FlagIsUsable` |

Each of these passes. For each property, `PROJECT.json` names a mutant, a plausible
mistake in the code's place (a missing conflict test, a dropped lock, a status not
read again, a figure not floored), that makes the run fail.

*The names ending in Explained.* Several rules are not kept outright by code that checks
first and writes later. Such a property says exactly how far they are kept: the
rule, or one of the causes it lists, each of them observable in the code. A bug that
breaks the rule in any other way is found. Where a doc or a comment claims the rule
outright, section "Disagreements" says so.

*Why these bounds are enough.* Two sessions meet in every race the code has: each
conflict is between two transactions. Two reservation rows let a top-up, a
second key, an accepted request beside an own reservation, and a plan that spans
rows occur. With quantities to two a row can be part drawn. One unit lost is what lets
promises exceed the shelf. A line there from the start can be issued to and removed at
once, and one to come can be added with a figure; four requests let a correction, a save
and a removal overlap an issue. Two groups make a next group, and one audit with
its task the lock cycle. Two attempts at a message let the first fail and the last be
lost; a fault then falls at every step. Two cartons keep a ledger cell apart from one
carton's pieces, and two invoices of one list are the twins. An order of one piece with
two consignments is the least that can ship more than it made. Two writes in two
transactions let a change be folded, rolled back and run again, and one of them go past the
middleware, and leave one change to announce when the event of the other fails. Two founders are the
least that can put each other out, and a third account makes a successor. In `bulk_reserve` two of the
material's unit are three of the line's, so that converting rounds both ways; one action of
others falls at any moment of two runs, and the theorem covers any number.

*What the bounds leave out.* `Packing`'s instance has one list, so an invoice of several
orders' lists is covered by the theorems only; the same goes for a second line on one
material in `Inventory` (`ClaimsAreKept`). `MaxRequests` cuts off longer histories in
`BomIssue` and `Accounts`, though a request may be given up and followed by others.
Deadlock is not checked where the instance really comes to a rest: messages settled, cartons
and ids used up, requests spent.

*Symmetry.* People are taken as symmetric in `bom_issue` and `packing`, cartons and invoices
in `packing`, consignments in `shipping`, founders and sessions in `accounts`. No run with
symmetry checks liveness or refinement.

### Disagreements with what the code says of itself

These are runs TLC finds violated; `PROJECT.json` quotes the lines.

* `workflow_turn`: the last two tasks of a group, completed at once, each count the
  other as outstanding, and the next group is never told.
* `shipped_covered`: an entry of one piece is recorded, the piece is shipped, the entry is
  removed, and the order has shipped more than it made with no override on record, which the comment of
  `services/rules.ts:102-106` says it may not. The function it describes is called by its
  test alone. Nobody types into the grid in this instance.

The others were met while modelling; the model does what the code does, and the
properties name them as causes or leave them free.

* Accepting a request beside the decider's own reservation leaves two active rows
  (`services/inventory-service.ts:745`) where reserving keeps one per key (577).
* With two lines of one material, the second line's refusal refuses the whole run
  after the first was reserved (1240, 1266). A line is asked for beyond its need when, since the position was
  read (1253), somebody else pressed Reserve too, reserved or requested for the line, issued to it or lowered
  its need; a reservation is never compared with the need.
* A bill's new line is given a figure with no log row (`routes/materials.ts:593-595`); a save overwrites a
  figure it read without a lock (503, 507), where the comment says it is the running account
  (499-501); a return floored at zero leaves the log below the figure. A save removes a line
  whose issue has moved stock and not been logged yet.
* The claim of an email asks whether the row is as it was read, not whether it is due
  (`services/email/email-queue.ts:126-135`): a row read after somebody's claim can be claimed while that
  attempt is at work.
* An issued invoice's second list can be changed: carton edits ask only for the list the
  invoice is filed under (`routes/packing.ts:47-62`), reopening asks for all of them (789-795).
* Only the action `update` is diffed: an `updateMany` on a watched model commits with no audit row and
  no news (`middleware/audit-middleware.ts:191`), where lines 9-11 say every update is diffed. `prisma/seed.ts:127` knows of
  it and writes its record by hand; `services/workflow-service.ts:164` leaves an activity line; the
  writes at 303, 338 and 550 say nothing. Without `past` among its exceptions `TrailIsComplete` fails.
* Looking up whom to tell is awaited outside every `try` (`services/change-service.ts:93`, 141,
  161), so if it fails the request's other changes are not announced, where line 21 says each step guards its own
  failure. `RouteFails` is this, and `AllAnnounced` says how far it goes.
* A withdrawal decided on a PENDING row lands by id after the row was accepted
  (`services/inventory-service.ts:666`), so stock that is held is given up without the right that releasing
  it needs, where 660-661 says what is withdrawn never held any.
* What a rolled-back transaction collected is announced if the request goes on and
  succeeds (`request-context.ts:117-120`).
* A role change decides on an earlier read whether anybody asks who is left
  (`services/user-service.ts:349`, 352), so it may take the last manager's role without asking, and may leave the
  flag on an account without the role, where 343-348 says demotion takes it along. A grant reads
  the role before and writes the flag by id (`setSuperAdmin`): the role may be gone by then.

## 4. Fairness

Safety runs assume none. `inventory_line_race` assumes that a request in flight goes
on (`WF` on a session's commit, its retry, its refusal or its body run again): the
server runs a handler to its end without being asked. It assumes no more than that.
No fairness is given to people asking, to receipts or adjustments.

`workflow_tasks` assumes strong fairness of a session's next server step. A statement
that waits for a row lock is enabled only while the row is free, and other
sessions may take it again and again; PostgreSQL queues waiters for a row in
order, so a waiter is not passed over for ever. `SF` says that and no more:
whether the rows come free at all is what `Answered` checks, with the deadlock victim
an action of the model.

`email_delivery` assumes that a process's timer fires and its pass goes on (`Drain`,
`DrainNext`), that an attempt begun is carried on to its record (`Step`, unless the process
stops), and that time passes (`BecomeDue`). Stops and losses are finite in number: a
process that stops for ever before each record settles nothing. Nothing is assumed of
Graph, which may refuse every time, nor of people.

## 5. What is proved

TLAPS checks these for every value of the constants: any number of people, orders,
lines, locations, messages, cartons, requests or accounts, and any bounds. The
theorems use the named assumptions of the modules on their constants and nothing else.
Two of these say that there are finitely many locations (`LocationAssumption`) and
cartons (`CartonAssumption`), without which a sum over them would mean nothing.

| Module | Inductive invariant | Theorems |
|---|---|---|
| `InventoryProofs` | `Safe` and `Settled` of every open transaction | `TypeCorrect`, `BooksAlwaysBalance`, `RowsStayWellDrawn`, `ReturnsAreBounded`, `IssueLogsAddUp`, `GivenUpForGood`, `ClaimsAreKept` |
| | and `Promises` | `PromisesHold`, `InventoryKeepsAccount` (the refinement), and with `AccountSafe` of the account itself `PromisesCovered` |
| | and `OneAsks` | `RequestsStaySingle` |
| | (`Safe` alone) | `LoopsAlwaysPour` |
| `OrderMaterialsProofs` | `TypeOK`, `LinesOnce`, `IdleDone`, `RunsFit` | `TypeCorrect`, `RunsAskWithinNeed` |
| | `BomInv` of `BomIssue`: `BooksOK`, `Fits`, `Explained` | `BomTypeCorrect`, `LogAddsUp`, `HistoryStays` |
| `EmailQueueProofs` | `Reading`, `Sending` of each attempt, `Recorded` of each message | `TypeCorrect`, `OneSenderEach`, `RecordsStayTrue`, `DuplicatesAreExplained` |
| `PackingProofs` | `OneIssues`, `NoTwin`, `FreshIsCurrent`; `Work` for the ledger | `TypeCorrect`, `NeverBilledTwice`, `IssuedStaysRecord`, `WhatIsIssuedWasChecked`, `LedgerIsTheSum` |
| `ShippingProofs` | `Shape`, `FreshIsTrue`; `JobsFit` for the types; `Weighed` for shipments | `TypeCorrect`, `CacheStaysExplained`, `BeyondStaysExplained` |
| | `TasksInv` of `Workflow`: `RequestsOK`, `Counted` and the property | `TasksTyped`, `TaskCompletedOnce`, `CorrectiveActionAnswersAudit` |
| `ChangeTrackingProofs` | `TypeInv`, `HandInv`, `OnceInv`, `TrailInv`; `TrueInv` for the news; `CollectedInv`, `TellInv` for all of it | `TypeCorrect`, `NewsOnce`, `UpdatesAreAudited`, `NewsStaysTrue`, `EverythingIsAnnounced` |
| `AccountsProofs` | `TypeOK`, `GuardHolds`, `GrantsAreAllowed`, `DesertedIsIdle` and the properties | `SomebodyIsLeft`, `FlagsAreUsable` |

*Inventory.* None of the invariants is inductive: `Commit` installs what a
transaction settled on an earlier state. `IInv` strengthens them (`Safe`) with
`Settled(work[p])` for every open transaction: the rows it writes still exist, have
not been given up and become well drawn; no balance it moves would go below zero;
what it returns is still out; a line's figure and its log still move together, and the
rows it writes for a line are that line's or general ones. It is kept because each
write that would spoil a settled claim touches a row the transaction also writes, or
forms the read-write pair, and so `Clashes` and loses the transaction. `SettledStays` says
that once for every committing step, `CommittedRows` does the rows, `RunKeeps` and the lemmas
named after the bodies show that a body settles what it should, and `NextSafe` puts one
step per action together. `GivenUp` rows in `RowsSettled` give `NoResurrection` at the commit,
and the scope of a line's rows gives `LineClaimsKept`.

*The stock account.* `Promises` says what every open transaction will do to the account
(`Accounted`): nothing, a promise, an issue, a return or a write-off. One that promises or
issues free stock read the whole position and writes a part of it (`ReadsPosition`), and
what it pledges is still covered (`Guarded`). Whatever shrinks the slack either clashes with
it, or is written off, which raises `lost` by as much. Each step then maps to a step of
`StockAccount` or to a stutter, where `promised` is the sum of what the rows hold:
`SumTheorems` says how the sum moves when some rows change.

*One open request.* `OneAsks`: a transaction about to ask found nobody asking, and both
read and wrote the predicate requests are searched by; whoever asks first dooms it.

*The loops.* `Course` says what is left after each row, and `WalkRuns` that the fold
takes that course. `CoursePours` shows the course pours; `OnePour` that only one plan
pours, for where two first differ (`NoPourFallsShort`) the lesser moves less in all. So
`Draw` and `Restore` move what every plan that pours moves.

*Sums and folds.* The library's induction theorems take an operator as a parameter, which the
provers cannot instantiate, so a fact about every finite set or every prefix of a sequence
is proved from its smallest counterexample: `SmallestSubset`, `LeastOne`, `GreatestOne`.

*Reserving an order.* `RunsFit`: what a run was told of a line it has not come to, put on top of what
the line holds, has asked for and was issued, stays within its need and the rounding of the two
figures read (`Room`), unless the line is in its `moved`. `OfferFits` shows it of the reading: a converted quantity is
within half a unit of the exact one (`ConvertedNear`), and the sum is taken in base units. Of the others' steps each either puts
the line into `moved`, leaves it alone, or eases it (`Eased`: it holds no more, and needs no
less), and `EasedRoom` says that easing spoils nothing. `ReserveFits` adds the half unit of converting back. It needs
`LinesOnce`, that a line comes only once in what is left of a run.

*A line and its log.* Between the stock and the log row a request owes the log its
difference. `Explained` is `LogIsExplained` with that debt named: `Owing(n)` is the sum, over the
requests that moved stock for the line and have not logged it, of what each moved. That sum has a
value because only finitely many requests are in flight (`Busy`; people themselves may be
infinitely many). `OwingStep` says that a step of one request changes it by that request's `Share`
alone, so a step is right when what a figure gains over its log is what its request's share
gains (`Balanced`, `StepSafe`); one lemma per action shows it. `BooksOK`: a line never written has no
books, and one without log rows has no log. With nothing owed and nothing blamed, a line
without log rows then has no figure (`Untraced`), which is why a save that asks again for log rows
and reservations (`StillFree`) needs no third question, but for the overtaken requests that
`HistoryKeepsItsLine` names.

*Tasks.* `RequestsOK`: a completion past its lock holds its task, which is still open, and the
blocked tasks it is about to free (`Holds`); a task that completes itself is nobody's corrective
action (`Fits`). `Counted`: a task that is open has been completed no time since. A step is `Careful`
if it completes only open tasks that nobody else holds, and closes the audit with the task;
`CarefulSafe` and `StepSafe` show that such a step spoils nothing and no other request. The
update of a task completing itself asks again (`AutoWrite`), the closing of an audit completes
only rows it finds free (`CloseTasks`), so both are careful. Starting a task is not the opposite: it makes a task open again,
and its count zero.

*Email.* `Reading`: an attempt's version is not ahead of the row's, and its count of attempts
is the row's own while the version is. `Sending`: who is at work has moved the version past
what it read, so that of two attempts of one reading the second finds its claim gone.
`Recorded` ties attempts to failures and statuses to what happened, and `AllCounted` (each
acceptance is recorded, excused, or in the hands of an attempt at work) gives
`DuplicatesExplained`.

*Packing.* `OneIssues` is the advisory lock. `NoTwin`: nobody who looked and found none has
got one since, because issuing needs the lock. `FreshIsCurrent`: a reading not touched
since is what the invoice says now. For the ledger, `Work`: a carton to be added is not
there yet, whoever holds a carton's lock read it as it is now, nobody else holds it, and a
removal takes all of it off. A sum that contains a carton is not below what the carton
holds, so the floor of `floorPacked` is never reached in a cell nobody typed over.

*Shipping.* `FreshIsTrue`: a refresher whose reading is current would write the derived
status. Every write of a record empties `current` and sends its writer to refresh.
`Weighed`: a shipment whose reading is still so and which is no override either does not
grow or comes, with the others, to no more than was made.

*Change tracking.* `TypeInv` includes the open transactions; `OnceInv` says that what is folded and what is
announced have distinct keys; `TrailInv` that a written row is locked (`Locked`), that a row
not misread was read as it was replaced (`ReadRight`), and that what is to be committed
has its audit row (`Pending`), each but for the records in `misread`, `unaudited` and `past`. A bulk write
puts its record into `past`, and so owes nothing; what it must keep is the lock on the row. `TrueInv` says that the drafts of a request match what it
committed and has open, record by record and in order (`DraftsTrue`), until a
transaction that wrote the record is rolled back or the record is written in bulk; folding them then gives the first
value replaced and the last written. `CollectedInv` says that what a request has done to a record, committed
or not, it has a draft of, and `TellInv` that what it did, once answered, has been told, is still to be
(`Coming`), or was silenced by a fault; the fold loses no draft (`FoldedAll`). The lemmas on `Folded` are proved of
the definition.

*Accounts.* `GuardHolds`: whoever passed the guard and is not doomed leaves a manager
besides its target. `GrantsAreAllowed`: a grant is on its way only to somebody on the
allowlist. A plain write takes no manager away (`PlainKeepsManagers`), unless it is a role change that had not
seen the flag, and then `missed` stays up for as long as a guarded request goes on. `DesertedIsIdle`: where a new list
left nobody, nobody can ask for anything, so nothing is in flight.

*Only model-checked*: liveness (`Answered` of `Inventory` and of `Workflow`, `Settles`), which the prover does not reach. Every other property of a passing run is the
property of a theorem.

## 6. Not modelled

* *Alert sweep*: one timer that reads, announces and records; it ends in the email queue.
* *Cut order and stock sync*: recalculations of one order's cells under its row lock;
  what matters there is arithmetic, tested by value.
* *Backup and restore*: file and process I/O around `pg_dump`, with one shared promise.
* *Costing and productivity*: arithmetic on one request's data.
* *Import*: text heuristics over spreadsheets and PDFs, then one transaction.
* *Web client*: it keeps no state the server relies on.
* Within the components modelled: reconciliation (a report over two reads) and catalogue
  editing; in `Inventory` and `BomIssue` unit conversion, which `OrderMaterials` has; creating an order's tasks, assigning and re-planning
  them; sampling arithmetic and re-inspection links; creating orders, their versions and
  the steps' forms, and the status before shipping; invoice numbers, lines and the
  letterhead; external operations; the seed script, sign-in, lockouts and password resets.

Most of the repository's lines are of these kinds (screens, extraction, arithmetic,
forms of one validated write), which have no state of their own for a checker to explore.

## 7. What is left

1. Sign-in: `computeLockout` and the attempt counter beside asynchronous password checks.
2. The composition of `Packing` and `Shipping` over the quantity grid, whose ledgers they
   share without reading each other's.
