# A verification project for lms-sls-go

lms-sls-go is the backend of a course and event platform: it creates invoices
at the acquirer Monobank, follows their payment through webhooks, grants the
features that were bought, takes registrations of an event's shop, collects
fiscal receipts and serves lectures. This directory holds TLA+ models of its
stateful parts, TLC configurations that check them on small instances, and
proofs that TLAPS checks for every instance.

Paths below are relative to the repository.

## 1. Inventory

The server keeps nearly all of its state in one Postgres database. There is no
lock, queue or transaction that spans a request: almost every handler makes a
sequence of single statements and calls of the bank, and everything that is
hard about the program is how such sequences interleave, stop half-way or are
repeated. Only two operations use a transaction (the deletion of a
registration's payment and the change of a lecture's video).

| Component | State | Operations | What is hard | What makes it correct |
|---|---|---|---|---|
| Payment statuses (`internal/payments/status.go`) | none | map, resolve and group statuses | two vocabularies, two columns | stored and shown status agree |
| Invoice store (`internal/invoicestore`) | `payments`: status, invoice_id, page_url, expires_at, provider_status, provider_modified_at | CreatePendingInvoice, CreateStoredMonobankInvoice, MarkInvoiceCreationFailed, MarkInvoiceCancelled, SyncMonobankPaymentStatus, lists | the bank may have created an invoice whose creation failed here; five writers of one row | paid stands for money; nothing overwrites a payment or what was reported of it |
| Webhook (`handlers/monobank_webhook.go`) | none (each webhook makes a client of its own, so the client's cached public key is not shared) | verify, SyncMonobankPaymentStatus, 200 or 500 | late, repeated, reordered and concurrent reports | newest report wins; every collected payment is recorded and granted |
| Admin invoices, user checkout (`handlers/monobank_invoice.go`, `user_checkout.go`, `monobank_invoices_pending.go`) | none of their own | create, cancel, refresh | the bank's call and the statement that records it are two steps | a cancelled invoice stays cancelled |
| External checkout (`handlers/external_checkout.go`, `internal/externalregistrations`) | `external_registrations` | idempotency lookup, duplicate check, two inserts, invoice | check-then-insert; a stop between two inserts; deletions meanwhile | one page for a reference; one active payment for a participant |
| Registration payments (`internal/registrationpayments`) | the same rows | list, delete, fiscal sync of one | a deletion races webhooks | no paid payment is deleted |
| Fiscal checks (`internal/fiscalchecksync`, `internal/fiscalchecks`, `cmd/backfill-fiscal-checks`) | `fiscal_checks` | worker, backfill, webhook and admin fetch and upsert | late answers, timeouts, failures, starvation in the batch | every receipt arrives, under its own payment, and stays |
| Expiry job (`supabase/migrations/20260408000000_expire_stale_invoices_cron.sql`) | the payments | expire what is past `expires_at` | it races webhooks | it never takes a payment away |
| Lectures (`internal/lectures`, `handlers/lectures_admin.go`) | `lectures`, among it video_id | insert, update, delete, set video, set notes | whoever replaces a video must clean up the old one | no id is lost, none in use is named |
| User features (`internal/userfeatures`, `handlers/internal_appusers.go`) | `user_features`, `app_users` | mirror a user, grant after payment, grant and revoke by an admin | repeated reports grant again; an answer is read after the statement it is about | a buyer has the feature until it is revoked; a purchase stays recorded |
| Monobank client (`internal/monobank`) | none that outlives a request | create, remove, status, checks, statement in chunks | chunk arithmetic | the whole range is fetched |
| Server, worker and pool (`main.go`, `internal/db`, `fiscalchecksync/worker.go`) | the pool, the mutex that guards it, the context of the signal | create the pool on first use, acquire and release, shut down, close | requests and the worker share a bounded pool, whose closing waits for its connections | no request meets a closed pool; the process ends |
| History and purchases (`handlers/payments_history.go`, `internal/userpurchases`) | none | two lists of the same payments | one shows the stored status, the other resolves two columns | both say the same |
| Products (`internal/products`, `handlers/products.go`) | `products` | create, partial update, delete; a checkout's read | prices change and products go while a checkout is under way | what is charged was on sale |
| Contact requests, authentication, mail, environment | one table | CRUD | little | - |

How they interact. The three checkouts insert a payment and share
`CreateStoredMonobankInvoice`. The bank answers through webhooks and status
queries, both of which end in `SyncMonobankPaymentStatus`, which updates the
payment, grants the feature and fetches the fiscal checks. The expiry job, the
cancellation and the deletion write the same rows. The fiscal worker reads the
paid payments of registrations. Everything is shared through tables, which the
requests and the worker reach through one pool of connections.

## 2. Modules

```
PaymentStatus          statuses, pure operators
  Payments             the row of a payment and its writers       <- the core
    MCPayments         instances for TLC
    PaymentsRaces      Payments with a history of overtaken synchronisations
      MCPaymentsRaces
    PaymentsProofs     invariants of the rows
      PaymentsLedgerProofs   the order of reports, the refinement (with PaymentsRaces)
  ExternalCheckout     requests of the shop, registrations
    MCExternalCheckout
    ExternalCheckoutProofs
PaymentLedger          what the payments promise: abstract, instantiated by Payments
PaymentLife            a payment as its checkout sees it: abstract, instantiated by
                       Payments and by ExternalCheckout
FiscalSync             the collection of receipts
  FiscalSyncProofs
LectureVideo           the videos of the lectures
  LectureVideoProofs
FeatureGrants          who has access to the lectures
  MCFeatureGrants
  FeatureGrantsProofs
Products               the catalogue and the checkouts that read it
  ProductsProofs
Server                 the process: requests, the worker, the pool, how they stop
  ServerProofs
```

### Payments

One action is one database statement, one call of the bank or one answer.
`row` holds the columns the code branches on; `page` stands for `page_url` and
`expires_at`, which only `UpdateCreatedInvoice` writes; amounts, texts and
payloads are left out. A time of 0 is NULL. The requests:

* *creation*: `create[p]` is the place of the request that creates `p`:
  `CreatePendingInvoice` -> `InvoiceAnswered` -> `StoreCreatedInvoice`, or
  `InvoiceNotAnswered` -> `MarkInvoiceCreationFailed`; `CreateAborts` is a
  failed statement or a stopped server.
* *synchronisation*: a record of `inflight` is a call of
  `SyncMonobankPaymentStatus`; its steps are the SELECT of
  provider_modified_at, the UPDATE, the grant and the fiscal checks. `Handlers`
  bounds how many run at a time. A report carries an invoice id, a reference or
  both, may lack its time, and may lack its status or have one the code does not know
  (`Unclear`; `BodiesOf` are the bodies in which the bank may send a report). The UPDATE
  takes from a report what it has and keeps the rest (`Coalesce`): one without a known
  status leaves `status` alone, and brings its invoice id, its time and the unknown word
  all the same.
* *cancellation* (`RemoveInvoice`, `MarkInvoiceCancelled`), *deletion*
  (`SelectForDelete` takes the row lock, `DeletePayment`, `RollbackDelete`) and
  the *expiry job*. An UPDATE of a locked row waits.
* *the bank*: `bank[p]` is Monobank's invoice; it may be created although the
  request saw an error; each change has a time and issues a report that may be
  delivered late, never, several times and in any order.

`ResolveMonobankPaymentStatus` (what most readers are shown) is translated in
`PaymentStatus` with the map and the groups. `Shown` is the status of the history and
of the pending list, `PurchaseStatus` the one of a customer's purchases.

### PaymentLedger

What the table promises whoever reads it, without requests, reports or times: an
`entry` per payment that is open, closed, collected, returned or gone, the `money` the
bank has moved for it, and what was `granted`. An entry is collected only after the
money was; it is then not closed, reopened or deleted, and can only be returned after
the money was; only a collected entry grants. Payments instantiates it
(`Ledger == INSTANCE PaymentLedger WITH ...`) with the refinement mapping `MoneyOf`
(the bank's status) and `EntryOf` (the row's), and `LedgerKept == Ledger!Spec` says
that every step of the rows is one of the ledger or none. As it stands it holds when
one report is applied at a time; PaymentsRaces says what is left of it when several are.

### PaymentsRaces

Two synchronisations at a time break three promises of Payments (`NewestWins`,
`PaidIsFinal`, `LedgerKept`). PaymentsRaces says by which steps, and that no other does
it. `overtaken` is a history variable, a function of the steps of Payments that guards
none of them: a call of SyncMonobankPaymentStatus is overtaken when another call's
UPDATE changes the row of its payment, until it makes a statement of its own.
`NewestUnlessOvertaken`, `PaidUnlessOvertaken` and `LedgerUnlessOvertaken` are the three
promises with the statements of overtaken calls excepted, and nothing else: neither
creation, cancellation, deletion or expiry, nor a call that overtakes another, nor a
call that reads after the newer report was written.

### PaymentLife

The seam between Payments and ExternalCheckout. Payments has every writer of one row and
no registrations; ExternalCheckout has the requests of many references and needs of a
row only its status, whether it has a page, and when either may change. PaymentLife is
that much: the place of the request that creates the payment (`stage`), which payments
have a row (`there`) and what is `seen` of it, for which the bank may have an invoice
(`invoiced`), and whose page was given out (`opened`). Reports, the expiry job and an
admin's cancellation are one action, `Changes`: any status a report can give, in any
order, but one that takes a customer (processing, paid, failed, reversed) only once the
page is out, and none before the bank has an invoice.

Both modules implement it: `LifeKept` (Payments) is where its freedom is justified,
because every statement of the store is one of its steps; `CheckoutLifeKept`
(ExternalCheckout) is where it is used, because the checkout's `StatusChanges` takes its
statuses from `Life!Reached` and its own requests keep to the rest. A change of the store
that lets a status reach a row in a way the checkout is not modelled with (a failed
creation that overwrites a report, a deletion of a paid row) breaks the first; one of the
checkout's requests, the second.

### ExternalCheckout

`handleExternalCheckout` for one mode and one product, one action per
statement. The invoice's creation and later life, detailed in Payments, are
reduced to what PaymentLife shows of them: the status and whether there is a page;
the customer pays only a page that was given out, and a late report makes a payment
active whose creation had failed or that had expired. `bank` holds the payments whose
invoice Monobank was asked for: after an error it may have one all the same, and its
report may come before the failure is marked (`InvoiceFails`, then
`MarkInvoiceCreationFailed`). `Outcomes` bounds the statuses that reports give. `Similar`
is the relation by which
`FindActiveDuplicate` matches (e-mail, name or phone), `SameUpToCase` the one by which
it takes a reference for the request's own (`lower(...)`), while the key and the unique
constraint compare exactly. The unique index on the idempotency key, the unique
constraint on (source, external_ref) and `on delete cascade` are `UniqueKey`,
`Registrable` and `Cascade`. `RequestAborts` is a crash or a failed statement,
`InvoiceFails` a failed or lost call of the bank. The variables of `history` are read by
no action: which requests overlapped after their search for a duplicate (`raced`), which
payments a late report made active (`revived`), which lost their request before their
registration was made (`orphaned`), which references were deleted (`forgotten`).

### FiscalSync

`recent` is the order of the batch (`updated_at desc`), `job` the loop of each
caller, a fetch and the upsert of its answer are two steps. The checks of a
payment are abstracted to the best one: none, one without a document, a usable
one. Payments that are reversed or deleted leave the system and are left out.

### LectureVideo

`SetVideoID` is a transaction: `SelectForUpdate`, then `Commit` or `Rollback`;
`Delete` is one statement that waits for the row. `named` is what the answers
told the clients to clean up. When the connection breaks at the commit
(`CommitUnanswered`) the caller is told of a failure although the video was set:
`unsure` holds these ids, `untold` those an answer would have named. A client that was
refused repeats its request, finds the video in the list, or cleans its upload up. The
host of the videos and the client are not in the repository; an upload gets an id of
its own.

### FeatureGrants

`feature[u]` is the user's row for the feature "lectures": whether it is there and
not revoked, and its payment_id. `GrantByAppUserID` is what Payments abstracts to
"granted": one upsert after a report of success, as often as Monobank repeats it.
An admin's request is three statements: `handleFeatureAction` (the admin is looked
up), `Grant` or `Revoke`, `SelectActiveFeatures` (the answer). `Grant` for a user who
is not mirrored inserts nothing and is answered like a success. `settled`, `revoked`
and the fields `alone` of the calls are there for the properties only: they record
which payments were granted, whom an admin revoked since, and whether another
statement for the same user came before the answer.

### Products

A row is its slug, the type, the two prices and whether it is active. `Insert` and
`Update` are one statement each and are refused by the unique slug and by
`products_fixed_prices_required` (`Stores`); a patch names each field or not. A
deletion is a lookup and a statement, which the foreign key of `payments.product_id`
refuses. A checkout reads the product (`SelectBySlug`) and inserts its payment
(`CreatePendingInvoice`) with another statement; what happens to the payment then is
Payments. `offers` records what was on sale at some time, for `SoldAsOffered` only.

### Server

A task is a request or the worker's goroutine; it makes statements one by one, and each
is: call `db.Pool`, which creates the pool under the package's mutex if there is none
(`Pool`, `NewWithConfig`, `PoolFails`); wait for a connection (`Acquire`, or
`AcquireFails` when the context is done); return it (`Release`), possibly to make a
second statement with the pool in hand, as `UpsertForPayment` does. `main` is served a
`Signal` or a failed listener (`ListenFails`), then goes through `Shutdown`,
`ShutdownReturns` or `ShutdownTimesOut` (15 seconds), `Close`, `CloseReturns` and
`Exit`. `main` waits for requests and not for the worker; `db.Close` holds the mutex
while pgxpool waits for the connections to come back. `cut` records who met a closed
pool.

## 3. What is checked

| Run | Instance | Shows |
|---|---|---|
| PaymentsConcurrent | one registration payment, two synchronisations at a time, distinct times, one fault (`RaceSpec`) | `TypeOK`, `PaidIsReal`, `UnpaidUntilStored`, `AnsweredHasInvoice`, `NoPaidDeleted`, `NewestUnlessOvertaken`, `PaidUnlessOvertaken`, `LedgerUnlessOvertaken`, `LifeKept` |
| PaymentsPartialReports | one registration payment, one synchronisation at a time, reports with one or both identifications, with or without a time, with a status that is known, unknown or missing, one fault | `PendingListAgrees`, `PurchasesAgree`, `PaidIsReal` |
| PaymentsOrdered | one lecture payment, one synchronisation at a time, distinct times, one fault, fairness | `AnsweredIsRecorded`, `NewestWins`, `PaidIsFinal`, `SuccessReachesTheRow`, `SuccessIsGranted`, `LedgerKept` |
| PaymentsRacingReports | two synchronisations at a time | `PaidNeverPending` is violated |
| PaymentsLateReport | one synchronisation at a time | `CancelledStays` is violated |
| CheckoutConcurrent | two requests, two similar references, three ids, one crash, failed statement or failed call, deletions, late reports | `SamePageOnRetry`, `RegistrationNeverRefused`, `StuckIsDeletable`, `OneActiveUnlessRaced`, `CheckoutLifeKept` |
| CheckoutRace | two requests at a time, nothing fails | `OneActivePerParticipant` is violated |
| FiscalSync | three payments, one without a receipt, one worker, one admin, a batch of two, one fault, fairness | `StoredWasIssued`, `ReceiptArrives` |
| LectureVideo | two lectures, two calls at a time, three videos, lost answers and repetitions | `InUseIsNotNamed`, `NoVideoIsLost` |
| FeatureGrants | one customer with two payments, an admin, two requests of the admin for either user | `PaidHasAccess`, `BoughtStaysBought`, `AnswerShowsTheWish` |
| Products | one product, two slugs, prices 0 and 1 in two currencies, one checkout, one deletion | `SoldAsOffered`, `PaymentsKeepTheirProduct` |
| Server | two requests and the worker, one connection, at most two statements each, fairness | `ConnectionsBounded`, `RequestsAreServed`, `ProcessEnds`, `RequestsEnd` |

Each property of a passing run is also checked to fail on a variant of the model
with a plausible bug; the variants stand before the operators they replace
(`UpdateUnlocked` before `Update`, `NeverStale` before `Stale`, ...).

### Bounds

*Payments.* No statement of the payment's life reads or writes two payments
together (the expiry job treats each row on its own), so one payment shows every
interleaving of its writers; the proofs cover any number. Two handlers suffice
for one to act between two statements of the other. `MaxMod` bounds the times of
the bank: 3 reaches created, a payment and its reversal or expiry, 4 also a hold.
Two changes with one time are in PaymentsPartialReports, with one handler, where
the order of arrival alone decides between them; with two handlers a newer report
is overtaken by an older one anyway, which PaymentsConcurrent includes.
Reports without a known status are in PaymentsPartialReports alone (`Unclear`); that
run's view leaves `acked` out, which no action of `Spec` and none of its invariants reads.
`MaxFaults` bounds faults per behaviour: one crash and its repair.

*Checkout.* Two references of similar participants and two requests are the least
with which both the key and the duplicate check can race; a third id lets a
deleted payment be followed by another (about 700 000 states). `Outcomes` has one status
of each kind the checkout tells apart: active (invoice_created), active and not to be
deleted (paid), not active (expired). No two references of
the instance differ in case alone: such a pair would be excused by the property, and
the proof covers it. With three references and two ids all properties hold as well
(ten million states; too long to keep as a run).

*FiscalSync.* A batch of two out of three payments makes the limit bite.
*LectureVideo.* Two lectures let an id turn up in the wrong one; three videos are one
for each of two calls and one for a replacement.
*FeatureGrants.* Two payments let one be granted after a revocation and repeated after
another; the requests of two calls may be for the same user or different ones.
*Products.* A price of 0 is allowed and not on sale, and 1 is; one product suffices,
because a checkout and a deletion each concern one, and products only meet in the
unique slug, which no property is about; so does one checkout, because payments for a
product only bar its deletion, which one does as well as two.
*Server.* With one connection every two tasks compete for it. Two requests and a worker
let one task hold the connection, one wait for it and one wait for the mutex.

Deadlock is checked in every run but Server: there the process ends, which is what
`ProcessEnds` asks for.

### Fairness

* PaymentsOrdered: a synchronisation that has begun goes on (Go runs the
  handler), a deletion ends, and Monobank repeats the report of an invoice's
  current status until it is answered with 200 (strong fairness of
  `Redelivers`; this is what the webhook's 500 on an error counts on). Nothing
  else is fair: customers, admins, the expiry job and crashes may or may not act.
* FiscalSync: the ticker of `StartWorker` starts the worker again and again, jobs
  go on, and Monobank issues receipts but for those of `NeverReady`. Fewer of
  these than the batch has places is an assumption of the run: `ListMissing`
  takes the most recently updated, and as many as the batch holds would starve
  the rest.
* Server: `main`'s steps and each task's are strongly fair. A goroutine that can run
  does; Go's mutex hands itself over to a waiter that has starved, pgxpool serves
  waiters in their order, and a statement ends, because Postgres answers it or its
  context is done. Requests, signals, a failing listener and contexts that end are not
  fair.

### What the violations show

1. *Racing reports* (`store.go:233`). `SyncMonobankPaymentStatus` reads
   provider_modified_at, then updates without a condition on it. With two
   synchronisations the one with the older report can read before and write
   after the other: a paid payment is shown as pending until another report comes.
   PaymentsOrdered shows that the check is right for one synchronisation at a time, and
   the three properties of PaymentsRaces that the UPDATE of such an overtaken call is
   all that is wrong with it for several.
2. *Late report after a cancellation* (`queries.go:438`).
   `UpdateInvoiceCancelled` leaves provider_modified_at alone, so a report from
   before the cancellation is not stale after it.
3. *Racing registrations* (`external_checkout.go:224`). The duplicate check and
   the inserts are separate statements. `OneActiveUnlessRaced` in CheckoutConcurrent
   says what else it takes: two active payments of one participant come from such an
   overlap, from a late report or from references that differ in case, and from no
   crash, failure, deletion, expiry or repetition.

## 4. What is proved

All theorems are for any sets and bounds; the assumptions on the constants that they
use are named in the modules (`PaymentKinds`, `Bounds`, `NoneIsNew`, ...). The theorems
of `PaymentsLedgerProofs` and `RowsLiveALife` have a hypothesis of their own, `Referenced`,
`FullReports`, `Serial`, `GrantsSucceed`, `Identified` or `BothIds`, where the program
promises something only of such reports.

### Payments (`PaymentsProofs`)

For every number of payments and handlers, and every combination of partial, repeated,
unordered and untimed reports, with a known status, an unknown one or none (`Unclear` is
any set of the last two), and faults:

* `TypeCorrect` and `PaidIsAlwaysReal` (`PaidIsReal`). That a report says "success"
  does not by itself say that the bank collected. The strengthening is
  `Real == TypeOK /\ ReportsReal /\ CallsReal /\ RowsReal`: every report that was
  sent with "success" belongs to an invoice that is collected (and collected is a
  status the bank never leaves, but for reversed, which counts as collected); every
  call under way carries such a report, and is past its UPDATE only with one; and a
  row whose status is "paid" or whose provider_status maps to "paid", a grant and a
  fiscal check belong to a collected invoice.
* `PendingListAlwaysAgrees` and `NoPaidIsDeleted`. The invariant `Agreeing` says of every
  row that its status is what its provider_status stands for, unless it has no invoice
  yet, its creation failed, or a report without a known status has put another word into
  provider_status or none, and of a row that is locked for deletion that it may be
  deleted. The lemma `RowStep` lists the statements that write a row (`Writes`), and
  `AgreedWrites` shows that each of them leaves both columns in agreement.
* `ReadersAlwaysAgree` (`PurchasesAgree`). A report by its reference alone can reach a row
  before its creation is recorded as failed, and one without a known status then bring
  its invoice: the row is shown as failed by one reader and by the provider's word by the
  other. `NeverOpened` says that nobody was given the page of such a payment, so that
  the word is one of created, expired and cancelled, and `Shown` makes a difference for
  the last two only: that is the exception the property names.
* `StoringOverwritesNothing` (`UnpaidUntilStored`). Until the request has stored the
  page, no customer can have opened it: the bank, the reports, the calls and the row
  are all *quiet* (created, expired or cancelled). `Unpaid` carries this along the whole
  way from the bank to the row.
* `RowsLiveALife` (`LifeKept`), the refinement of PaymentLife, for reports that carry the
  id of their invoice (`Identified`), which the body of every webhook and status answer
  of Monobank does, and for any status in them. Without it a report found by its reference alone leaves `invoice_id`
  null, and a failing request overwrites the status it brought. `LifeInv` adds `Asked` to
  `Unpaid` and `Agreeing`: a row has its invoice id as soon as its status is one of an
  invoice, and a report, a call, a cancellation and a stored invoice are each about an
  invoice the bank has. It follows that the failure of a creation is recorded of rows
  no report has reached, although the code tests another column than the one it writes.
  Where a report without a known status brought the invoice and left the status, the
  failing request leaves the row as it is, which is an end of the request without its
  record (`Life!Abort`).
* `AnsweredReportsLeaveAnInvoice` (`AnsweredHasInvoice`), for reports that carry both ids
  (`BothIds`), as Monobank's do: they find the row whatever is in it. `Attached` says that
  what a report has written of a row it has written with the invoice's id, and `HasInvoice`
  is kept by every statement, the one that records a failure included, because it tests
  the id in the statement that writes.

### The order of reports and the refinement (`PaymentsLedgerProofs`)

For any number of synchronisations, with repeated and reordered reports, crashes,
creation, cancellation, deletion and expiry, but for the statements of overtaken calls:

* `NewestLosesOnlyOvertaken` (`NewestUnlessOvertaken`) assumes `Referenced`: every
  report carries the reference, as Monobank's do because every invoice is created with
  one, so that SELECT and UPDATE find the same row. It needs no assumption about times:
  a report without one leaves the row's time alone. `Newer` says of a call between the
  two statements that its report is not older than the row, or the call was overtaken.
* `PaidIsLostOnlyToOvertaken` (`PaidUnlessOvertaken`) and `RowsAreALedgerUnlessOvertaken`
  (`LedgerUnlessOvertaken`) assume `FullReports`: both ids, a known status, a time, and no
  two changes of one invoice in one second. Two reports of one second, or one without a
  time, are ordered by nothing but their arrival, and one without a known status makes
  those before it stale and says nothing in their place.

`NewestReportWins`, `PaidStaysPaid` and `RowsAreALedger` (`LedgerKept`) are the same
without the exception, for `Serial`: `FullReports` and one synchronisation at a time.
PaymentsRacingReports shows that without that they are false. The invariant `LInv` holds
for any number of calls and adds to those above

* `History`: the bank's changes of an invoice have increasing times, after a success
  only a reversal follows, and an invoice that an admin removed stays removed;
* `Calls`: a handler has one call under way, and it carries a report the bank sent;
* `Recorded`: a row that is paid or reversed has the time of the report that said so.

`AnsweredReportsAreRecorded` (`AnsweredIsRecorded`) is the part of `SuccessReachesTheRow`
and `SuccessIsGranted` that is no liveness: a success that was answered with 200, which
Monobank does not repeat, is in its row and granted. It assumes `Serial` and
`GrantsSucceed` (a failed grant is logged and forgotten, see the hazards). `CaughtUp` says
that a row as new as a success is paid or reversed; so a success that is dropped as stale
is one of a payment that was reversed since (`StaleSuccess`), and one that is repeated
after a crash is not stale and goes through its grant again. `Kept` carries a call from
its UPDATE to its answer.

`Follows` says what a call that was not overtaken still knows of the row: its report is
no older, and the row it is to grant is paid. It is kept by every step but the UPDATE of
another call, which is what `overtaken` records. So what such a call writes into a paid
row is the same success again, or the reversal. For the refinement each action is shown
to be the ledger's action its mapping names, or to leave money, entries and grants alone.

### External checkout (`ExternalCheckoutProofs`)

`CheckoutTypeCorrect`, `OnePagePerReference` (`SamePageOnRetry`),
`RegistrationsAreAccepted` (`RegistrationNeverRefused`), `StuckReferencesCanBeFreed`
(`StuckIsDeletable`) and `OneActivePaymentUnlessRaced` (`OneActiveUnlessRaced`), for any
number of references, requests and ids, any relation of similar participants and of
references that differ in case, with crashes, failures, deletions and late reports. The
inductive invariant is `IInv == TypeOK /\ OneRow /\ Holding /\ Registered /\ Answered`:

* `OneRow`: no two rows have one reference (the unique index keeps it, but every
  action that rewrites a row must keep the row's reference);
* `Holding`: a request past its insert *knows* its payment: the row has the
  request's reference, or it was deleted and the reference is forgotten;
* `Registered`: each registration has a row with its reference (the cascade);
* `Answered`: each answer knows its payment, as a request does.

`Answered` gives the first property: two answers for a reference that was never
forgotten name two rows of it, and `OneRow` makes them one. The second follows
from `Holding` and `Registered`: a registration with the same reference belongs
to a row with that reference, which is the request's own. Neither is inductive
alone: the statements of a request are far from the lookup that justified them.

On it rest `Freed` (a request whose invoice is being created has a registration, as
long as its payment is there) and `Race`: of two requests that have both passed the
search the later one saw the other (`Overlap`), and a request that has passed meets no
active registration of its participant that is not excused (`Searched`), because when it
searched there was none. All five hold for every status PaymentLife lets a report give
(`Outcomes` is any set).

`CheckoutLivesALife` (`CheckoutLifeKept`) is the refinement of PaymentLife. The lemmas on
`Stage` follow a payment through its request: of the requests past their insert no two
have one id (`Holding`), so that a step of one moves the stage of its own payment alone.
`Told` says that a row with a page is one whose page was given out, that a request past
its registration has asked for its invoice, and that no invoice was asked for an id that
was not drawn.

### Fiscal checks (`FiscalSyncProofs`)

`StoredChecksWereIssued` (`StoredWasIssued`), for any payments, jobs, batches and faults.
A job holds an answer only for the payment at the head of its list and drops it when it
goes on (`AnswersIssued`), and Monobank takes no check back, so that an answer is good
for that payment however late it is stored.

### Videos of lectures (`LectureVideoProofs`)

`InUseIsNeverNamed` (`InUseIsNotNamed`) and `NoVideoIsEverLost` (`NoVideoIsLost`). The
strengthening says that a transaction that has locked a lecture holds the id the lecture
still has (this is what FOR UPDATE is for), that no two lectures share an id, that a
lecture and an upload under way share one only after an answer was lost, and only the
call's own lecture, and that every uploaded id is in use, in the hands of a call, or
named.

### User features (`FeatureGrantsProofs`)

`BuyersHaveAccess` (`PaidHasAccess`), `PurchasesAreKept` (`BoughtStaysBought`) and
`AnswersAreTrue` (`AnswerShowsTheWish`), for any sets of users, admins, payments and
calls. `AnswerShowsTheWish` is about the end of a request and not inductive; what
carries it is `AsLeft`: a call that has made its statement, and was not followed by
another for its user, finds the row as it left it. `Wishes` says which calls are a
grant or a revocation. The lemma `DisturbedCalls` says what the write of one row does
to the calls, `InvGrants` what an upsert does to the payments' part, and both are used
for the grant by a payment and by an admin.

### Products (`ProductsProofs`)

`CustomersPayWhatWasOffered` (`SoldAsOffered`) and `PaidProductsStay`
(`PaymentsKeepTheirProduct`). What a checkout has read was on sale then and stays in
`offers`; a partial update makes a row of its columns, and what the row then sells is on
sale from there on.

### Server (`ServerProofs`)

`ConnectionsAreBounded` and `AcceptedRequestsAreServed`. The first rests on there being
one pool at a time (`OnePool`): every pool but the current one is closed, one is created
only under the mutex and while there is none, and db.Close forgets the current one when
its connections are back, so that all connections there are belong to one pool. The
second rests on `Waited`: once main is past the requests, unless it gave up on them,
there are none, and none comes.

### Only model-checked

Liveness under fairness is beyond the prover: `SuccessReachesTheRow`,
`SuccessIsGranted`, `ReceiptArrives`, `ProcessEnds` and `RequestsEnd`. What makes the first
two safe is proved (`AnsweredIsRecorded`); that the repetitions come, and one of them goes
through, is checked. Every other property of a passing run is proved.

## 5. What is not modelled

* Authentication, mail, environment, HTTP plumbing, queries that only read (but for
  those named in section 2), contact requests: see `components` in `PROJECT.json`.
* The verification of webhooks and of the shop's token: every report and every
  request of the models was verified.
* The idempotency-key header of admins: `MonobankInvoiceCreate` looks a payment
  up by it and goes on to the insert when the payment has no invoice, where the
  unique index refuses it. The lookup and the index are those of ExternalCheckout.
* Reports without a known status in the runs PaymentsOrdered and PaymentsConcurrent and in
  the theorems with `FullReports`: such a report moves provider_modified_at, and a success
  of an earlier time that comes after it is dropped as stale and answered with 200. The
  code lets this happen (`store.go:216`, `store.go:237`). Where the models have them, they
  are other forms of the reports the bank issued, with the same time; a report about
  an invoice the bank has not created, or with a time of its own, is not sent.
* What the properties excuse, because the code lets it through and no text of the
  repository says that it should not (each is a hazard in `PROJECT.json` with its line):
  a reference whose request ended between its two inserts (`StuckIsDeletable`); two
  active payments by references that differ in case or by a late report
  (`OneActiveUnlessRaced`); a grant that fails (`SuccessIsGranted`, `AnsweredIsRecorded`:
  `EffectErrors` is off); an admin's answer with another statement in between
  (`AnswerShowsTheWish`); a revoked feature that a repeated report grants again
  (`PaidHasAccess`); a batch full of payments that never get a receipt (`ReceiptArrives`);
  the worker, and requests past the 15 seconds, that meet a closed pool
  (`RequestsAreServed`).
* Features other than "lectures" (each has a row of its own), the texts of products,
  the texts and notes of lectures.
* The range of the bank statement and its chunks: arithmetic without state or
  interaction.
* What becomes of a payment whose registration was deleted while its invoice was live
  at the bank: nothing in the repository says what should (see the hazards).

## 6. What could follow

A bound on how long a starved receipt waits in
FiscalSync; the worker's batch within Server.
