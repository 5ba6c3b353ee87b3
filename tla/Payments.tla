------------------------------ MODULE Payments ------------------------------
(***************************************************************************)
(* The life of the rows of the payments table: how an invoice is created   *)
(* at Monobank and stored, how the provider's reports reach the row, and   *)
(* the four other writers it has (an admin's cancellation, an admin's      *)
(* deletion, the expiry cron job and the grants that follow a payment).    *)
(*                                                                         *)
(* Every database statement and every call of the bank is one step, so     *)
(* that the requests interleave between them as they do in the server.     *)
(* The bank, the customer and the network are an environment.              *)
(***************************************************************************)
EXTENDS PaymentStatus, Naturals

CONSTANTS
  Payments,         \* the ids CreatePendingInvoice may draw
  External,         \* the payments of the external checkout: participation fee
  Lecture,          \* the payments for a product whose slug starts with "lecture"
  Handlers,         \* the requests that can be synchronising at one time
  Identifications,  \* which of invoiceId and reference a report carries
  Unclear,          \* what a report may say instead of a status that is known
  OmitStamp,        \* whether a report may come without a modifiedDate
  SameSecond,       \* whether two changes may carry one modifiedDate
  EffectErrors,     \* whether the grant that follows a payment may fail
  MaxMod,           \* bound: the largest modifiedDate
  MaxFaults         \* bound: crashes and failed statements of a behaviour

ASSUME PaymentKinds ==
  External \subseteq Payments /\ Lecture \subseteq Payments \ External
ASSUME KnownIdentifications ==
  Identifications \subseteq {"both", "invoice", "reference"}
ASSUME UnclearWords == Unclear \subseteq {Nil, Unknown}
ASSUME Flags == {OmitStamp, SameSecond, EffectErrors} \subseteq BOOLEAN
ASSUME Bounds == MaxMod \in Nat /\ MaxFaults \in Nat

VARIABLES
  live,      \* the payments that have a row
  row,       \* the columns of the rows
  create,    \* the request that creates the invoice of each payment
  cancel,    \* the payments whose removal at the bank awaits its statement
  locked,    \* the rows an admin's DELETE transaction holds FOR UPDATE
  inflight,  \* the SyncMonobankPaymentStatus calls under way
  granted,   \* the payments whose "lectures" feature was granted
  fiscal,    \* the payments whose fiscal checks were stored
  bank,      \* Monobank's invoice of each payment
  sent,      \* the status reports Monobank has issued
  acked,     \* the reports the webhook answered with 200
  open,      \* the payments whose payment page was handed to a customer
  faults     \* the faults so far

rowVars  == <<live, row, locked>>
bankVars == <<bank, sent>>
vars     == <<live, row, create, cancel, locked, inflight, granted, fiscal,
              bank, sent, acked, open, faults>>

-----------------------------------------------------------------------------
\* The columns.  Time 0 is NULL: the provider's times start at 1.  page stands
\* for page_url and for expires_at, which are only ever written together.
Rows == [status : StatusSet, invoice : BOOLEAN, page : BOOLEAN,
         provider : ProviderStatuses \cup {Nil} \cup Unclear, modified : Nat]

\* What insert into payments leaves in the columns.
PendingRow == [status |-> "creating_invoice", invoice |-> FALSE, page |-> FALSE,
               provider |-> Nil, modified |-> 0]

Invoices == [status : ProviderStatuses \cup {Nil}, modified : Nat]

\* What Monobank has to report of an invoice, and what it sends of it: a webhook's
\* body, or the answer to GET invoice/status.  A status may be missing from it, or
\* be a word the code does not know.
Reports == [payment : Payments, status : ProviderStatuses, modified : Nat]
Bodies  == [payment : Payments, status : ProviderStatuses \cup Unclear, modified : Nat]

BodiesOf(r) == [payment : {r.payment}, status : {r.status} \cup Unclear,
                modified : {r.modified}]

Syncs == [handler : Handlers, pc : {"select", "update", "grant", "fiscal"},
          report : Bodies, by : Identifications, stamped : BOOLEAN,
          hook : BOOLEAN]

\* The status the history of payments and the pending list show of a payment ...
Shown(p) == ResolveMonobankPaymentStatus(row[p].status, row[p].provider)

\* ... and the one the customer's purchases and the admin's invoices show.
PurchaseStatus(p) == row[p].status

\* SelectPaymentHistoryRows: the payments that have an invoice.
InHistory(p) == row[p].invoice

\* SelectPendingPaymentRows.
Listed(c) ==
  /\ c.invoice /\ ~IsTerminalStatus(c.status)
  /\ IsPendingStatus(c.status) \/ c.provider \in PendingMonobankProviderStatuses

Init ==
  /\ live = {} /\ locked = {} /\ cancel = {} /\ open = {}
  /\ granted = {} /\ fiscal = {}
  /\ row = [p \in Payments |-> PendingRow]
  /\ create = [p \in Payments |-> "none"]
  /\ bank = [p \in Payments |-> [status |-> Nil, modified |-> 0]]
  /\ inflight = {} /\ sent = {} /\ acked = {}
  /\ faults = 0

\* A variant of the next operator without row locks.
UpdateUnlocked(p, c) == row' = IF p \in live THEN [row EXCEPT ![p] = c] ELSE row

\* An UPDATE waits for the row lock of a deletion.  It writes columns c.
Update(p, c) ==
  /\ p \notin locked
  /\ row' = IF p \in live THEN [row EXCEPT ![p] = c] ELSE row

-----------------------------------------------------------------------------
(* The request that creates a payment: CreatePendingInvoice, then           *)
(* CreateStoredMonobankInvoice.                                             *)

CreatePendingInvoice(p) ==
  /\ create[p] = "none"
  /\ create' = [create EXCEPT ![p] = "calling"]
  /\ live' = live \cup {p}
  /\ row' = [row EXCEPT ![p] = PendingRow]
  /\ UNCHANGED <<cancel, locked, inflight, granted, fiscal, bankVars, acked,
                 open, faults>>

\* A variant that hands out the page before the row is updated.
InvoiceAnsweredOpen(p) ==
  /\ create[p] = "calling" /\ bank[p].status # Nil
  /\ create' = [create EXCEPT ![p] = "storing"]
  /\ open' = open \cup {p}
  /\ UNCHANGED <<rowVars, cancel, inflight, granted, fiscal, bankVars, acked, faults>>

\* client.CreateInvoice returns an invoice id and a page.
InvoiceAnswered(p) ==
  /\ create[p] = "calling" /\ bank[p].status # Nil
  /\ create' = [create EXCEPT ![p] = "storing"]
  /\ UNCHANGED <<rowVars, cancel, inflight, granted, fiscal, bankVars, acked,
                 open, faults>>

\* It returns an error, a timeout included, or an answer without id or page:
\* the bank may have created the invoice all the same.
InvoiceNotAnswered(p) ==
  /\ create[p] = "calling"
  /\ create' = [create EXCEPT ![p] = "failing"]
  /\ UNCHANGED <<rowVars, cancel, inflight, granted, fiscal, bankVars, acked,
                 open, faults>>

\* A variant that forgets whether the row has got its invoice meanwhile.
CreationFailedAlways(c) == [c EXCEPT !.status = "creation_failed"]

UpdateInvoiceCreationFailed(c) ==
  IF c.invoice THEN c ELSE [c EXCEPT !.status = "creation_failed"]

MarkInvoiceCreationFailed(p) ==
  /\ create[p] = "failing"
  /\ create' = [create EXCEPT ![p] = "done"]
  /\ Update(p, UpdateInvoiceCreationFailed(row[p]))
  /\ UNCHANGED <<live, cancel, locked, inflight, granted, fiscal, bankVars,
                 acked, open, faults>>

UpdateCreatedInvoice(c) ==
  [c EXCEPT !.status = "invoice_created", !.invoice = TRUE, !.page = TRUE,
            !.provider = "created"]

\* The answer, and every idempotent retry, hands out the page; no row to update
\* is no error.
StoreCreatedInvoice(p) ==
  /\ create[p] = "storing"
  /\ create' = [create EXCEPT ![p] = "done"]
  /\ Update(p, UpdateCreatedInvoice(row[p]))
  /\ open' = open \cup {p}
  /\ UNCHANGED <<live, cancel, locked, inflight, granted, fiscal, bankVars,
                 acked, faults>>

\* The statement that ends the request fails, or the server stops before it.
CreateAborts(p) ==
  /\ create[p] \in {"calling", "storing", "failing"}
  /\ faults < MaxFaults
  /\ faults' = faults + 1
  /\ create' = [create EXCEPT ![p] = "done"]
  /\ UNCHANGED <<rowVars, cancel, inflight, granted, fiscal, bankVars, acked,
                 open>>

-----------------------------------------------------------------------------
(* SyncMonobankPaymentStatus, called by the webhook, by the details of a     *)
(* pending invoice and by the cancellation of an expired one.                *)

Matches(x) ==
  /\ x.report.payment \in live
  /\ x.by = "invoice" => row[x.report.payment].invoice

Begin(h, report, stamped, hook) ==
  /\ \A x \in inflight : x.handler # h
  /\ \E by \in Identifications, body \in BodiesOf(report) :
       inflight' = inflight \cup
         {[handler |-> h, pc |-> "select", report |-> body, by |-> by,
           stamped |-> stamped, hook |-> hook]}
  /\ UNCHANGED <<rowVars, create, cancel, granted, fiscal, bankVars, acked,
                 open, faults>>

\* The webhook gets a report, for the first time or again.
Webhook(h, r) ==
  \E stamped \in IF OmitStamp THEN BOOLEAN ELSE {TRUE} : Begin(h, r, stamped, TRUE)

\* An admin opens an invoice, or cancels one the bank says is expired: the
\* bank's current status is fetched and synchronised.
FetchInvoiceStatus(h, p) ==
  /\ p \in live /\ row[p].invoice /\ bank[p].status # Nil
  /\ Begin(h, [payment |-> p, status |-> bank[p].status,
               modified |-> bank[p].modified], TRUE, FALSE)

Step(x, pc) == inflight' = (inflight \ {x}) \cup {[x EXCEPT !.pc = pc]}

\* The call returns nil, which the webhook answers with 200.
Finish(x) ==
  /\ inflight' = inflight \ {x}
  /\ acked' = IF x.hook THEN acked \cup {x.report} ELSE acked

\* Variants: every report is fresh; one with the stored time is stale.
NeverStale(x) == FALSE
StaleOrEqual(x) ==
  /\ x.stamped /\ Matches(x)
  /\ row[x.report.payment].modified # 0
  /\ x.report.modified <= row[x.report.payment].modified

\* providerModifiedAt is before what SelectLatestProviderState returns.
Stale(x) ==
  /\ x.stamped /\ Matches(x)
  /\ x.report.modified < row[x.report.payment].modified

SelectLatestProviderState(x) ==
  /\ x.pc = "select"
  /\ IF Stale(x) THEN Finish(x) ELSE Step(x, "update") /\ UNCHANGED acked
  /\ UNCHANGED <<rowVars, create, cancel, granted, fiscal, bankVars, open, faults>>

\* coalesce: what the report says, or what is there where it says nothing.
Coalesce(reported, stored) == IF reported = Nil THEN stored ELSE reported

\* A variant of the next operator that never takes paid out of a row.
ReportedUnlessPaid(c, x) ==
  [status   |-> IF c.status = "paid" THEN c.status
                ELSE Coalesce(NormalizeMonobankStatus(x.report.status), c.status),
   invoice  |-> c.invoice \/ x.by # "reference",
   page     |-> c.page,
   provider |-> Coalesce(x.report.status, c.provider),
   modified |-> IF x.stamped THEN x.report.modified ELSE c.modified]

\* The columns after a report.  One without a status, or with a word that is not
\* known, leaves the status and brings its invoice id and its time all the same.
Reported(c, x) ==
  [status   |-> Coalesce(NormalizeMonobankStatus(x.report.status), c.status),
   invoice  |-> c.invoice \/ x.by # "reference",
   page     |-> c.page,
   provider |-> Coalesce(x.report.status, c.provider),
   modified |-> IF x.stamped THEN x.report.modified ELSE c.modified]

\* A variant that grants as soon as the customer has begun to pay.
ReportsPendingOrPaid(x) ==
  NormalizeMonobankStatus(x.report.status) \in {"processing", "paid"}

ReportsPaid(x) == NormalizeMonobankStatus(x.report.status) = "paid"

UpdatePaymentProviderState(x) ==
  LET p == x.report.payment IN
  /\ x.pc = "update"
  /\ IF Matches(x)
     THEN Update(p, Reported(row[p], x))
     ELSE UNCHANGED row
  /\ IF ReportsPaid(x)
     THEN Step(x, "grant") /\ UNCHANGED acked
     ELSE Finish(x)
  /\ UNCHANGED <<live, create, cancel, locked, granted, fiscal, bankVars, open,
                 faults>>

\* The payment the effects look up: by invoice id when the report has one.
Found(x) ==
  /\ x.report.payment \in live
  /\ x.by # "reference" => row[x.report.payment].invoice

\* A failed grant is logged and forgotten.
maybeGrantProductFeatures(x) ==
  LET p == x.report.payment IN
  /\ x.pc = "grant"
  /\ p \notin locked
  /\ \E ok \in IF EffectErrors THEN BOOLEAN ELSE {TRUE} :
       granted' = IF ok /\ Found(x) /\ p \in Lecture
                  THEN granted \cup {p} ELSE granted
  /\ Step(x, "fiscal")
  /\ UNCHANGED <<rowVars, create, cancel, fiscal, bankVars, acked, open, faults>>

\* SyncPayment of this one payment; the bank may have no check yet.
maybeSyncFiscalChecks(x) ==
  LET p == x.report.payment IN
  /\ x.pc = "fiscal"
  /\ p \notin locked
  /\ \E ready \in BOOLEAN :
       fiscal' = IF ready /\ Found(x) /\ row[p].invoice /\ p \in External
                 THEN fiscal \cup {p} ELSE fiscal
  /\ Finish(x)
  /\ UNCHANGED <<rowVars, create, cancel, granted, bankVars, open, faults>>

\* A variant in which the webhook answers an error with 200.
SyncAbortsAcked(x) ==
  /\ faults < MaxFaults
  /\ faults' = faults + 1
  /\ Finish(x)
  /\ UNCHANGED <<rowVars, create, cancel, granted, fiscal, bankVars, open>>

\* A statement fails, which the webhook answers with 500, or the server stops.
SyncAborts(x) ==
  /\ faults < MaxFaults
  /\ faults' = faults + 1
  /\ inflight' = inflight \ {x}
  /\ UNCHANGED <<rowVars, create, cancel, granted, fiscal, bankVars, acked, open>>

-----------------------------------------------------------------------------
(* The other writers of the row.                                             *)

\* Monobank's invoice p becomes s, in a later second or in the same one, and
\* Monobank issues a report of it.
Becomes(p, s) ==
  \E m \in {bank[p].modified + 1} \cup
          (IF SameSecond /\ bank[p].status # Nil THEN {bank[p].modified} ELSE {}) :
    /\ m <= MaxMod
    /\ bank' = [bank EXCEPT ![p] = [status |-> s, modified |-> m]]
    /\ sent' = sent \cup {[payment |-> p, status |-> s, modified |-> m]}

\* MonobankInvoiceDelete, its first call: the bank removes an unpaid invoice.
RemoveInvoice(p) ==
  /\ p \in live /\ row[p].invoice
  /\ bank[p].status = "created"
  /\ Becomes(p, "cancelled")
  /\ cancel' = cancel \cup {p}
  /\ UNCHANGED <<rowVars, create, inflight, granted, fiscal, acked, open, faults>>

\* A variant that records the provider's status and leaves the payment's.
CancelledProviderOnly(c) == [c EXCEPT !.provider = "cancelled"]

UpdateInvoiceCancelled(c) ==
  [c EXCEPT !.status = "cancelled", !.provider = "cancelled"]

MarkInvoiceCancelled(p) ==
  /\ p \in cancel
  /\ cancel' = cancel \ {p}
  /\ Update(p, IF row[p].invoice THEN UpdateInvoiceCancelled(row[p]) ELSE row[p])
  /\ UNCHANGED <<live, create, locked, inflight, granted, fiscal, bankVars,
                 acked, open, faults>>

\* That statement fails, which is only logged, or the server stops before it.
CancelAborts(p) ==
  /\ p \in cancel
  /\ faults < MaxFaults
  /\ faults' = faults + 1
  /\ cancel' = cancel \ {p}
  /\ UNCHANGED <<rowVars, create, inflight, granted, fiscal, bankVars, acked, open>>

\* A registration's payment may be deleted unless it is paid or processing.
Deletable(c) == c.status \notin {"paid", "processing"}

\* externalregistrations.Delete: select ... for update, then the delete.
SelectForDelete(p) ==
  /\ p \in live \cap External /\ p \notin locked
  /\ Deletable(row[p])
  /\ locked' = locked \cup {p}
  /\ UNCHANGED <<live, row, create, cancel, inflight, granted, fiscal, bankVars,
                 acked, open, faults>>

DeletePayment(p) ==
  /\ p \in locked
  /\ locked' = locked \ {p}
  /\ live' = live \ {p}
  /\ row' = [row EXCEPT ![p] = PendingRow]
  /\ fiscal' = fiscal \ {p}
  /\ UNCHANGED <<create, cancel, inflight, granted, bankVars, acked, open, faults>>

RollbackDelete(p) ==
  /\ p \in locked
  /\ faults < MaxFaults
  /\ faults' = faults + 1
  /\ locked' = locked \ {p}
  /\ UNCHANGED <<live, row, create, cancel, inflight, granted, fiscal, bankVars,
                 acked, open>>

\* A variant of the job that expires every row past its time.
StaleInvoiceAny(c) == c.page

\* What the cron job expires, once expires_at has passed.
StaleInvoice(c) ==
  /\ c.page
  /\ c.status \in PendingStatuses
  /\ c.provider \in {Nil} \cup PendingMonobankProviderStatuses

ExpireStaleInvoices ==
  \E due \in (SUBSET {p \in live \ locked : StaleInvoice(row[p])}) \ {{}} :
    /\ row' = [p \in Payments |->
                 IF p \in due
                 THEN [row[p] EXCEPT !.status = "expired", !.provider = "expired"]
                 ELSE row[p]]
    /\ UNCHANGED <<live, create, cancel, locked, inflight, granted, fiscal,
                   bankVars, acked, open, faults>>

-----------------------------------------------------------------------------
(* The bank: it creates the invoice it is asked for, sooner or later or      *)
(* never, and the customer who has the page pays, fails to or does nothing.  *)

BankMoves(s, opened) ==
  CASE s = "created"    -> {"expired"} \cup
                           (IF opened THEN {"processing", "hold", "success", "failure"}
                            ELSE {})
    [] s = "processing" -> {"hold", "success", "failure"}
    [] s = "hold"       -> {"success", "reversed"}
    [] s = "success"    -> {"reversed"}
    [] OTHER            -> {}

BankCreates(p) ==
  /\ create[p] # "none" /\ bank[p].status = Nil
  /\ Becomes(p, "created")
  /\ UNCHANGED <<rowVars, create, cancel, inflight, granted, fiscal, acked, open,
                 faults>>

BankChanges(p) ==
  /\ \E s \in BankMoves(bank[p].status, p \in open) : Becomes(p, s)
  /\ UNCHANGED <<rowVars, create, cancel, inflight, granted, fiscal, acked, open,
                 faults>>

-----------------------------------------------------------------------------
Request(p) ==
  \/ CreatePendingInvoice(p) \/ InvoiceAnswered(p) \/ InvoiceNotAnswered(p)
  \/ MarkInvoiceCreationFailed(p) \/ StoreCreatedInvoice(p) \/ CreateAborts(p)

Sync(x) ==
  \/ SelectLatestProviderState(x) \/ UpdatePaymentProviderState(x)
  \/ maybeGrantProductFeatures(x) \/ maybeSyncFiscalChecks(x)

Admin(p) ==
  \/ RemoveInvoice(p) \/ MarkInvoiceCancelled(p) \/ CancelAborts(p)
  \/ SelectForDelete(p) \/ DeletePayment(p) \/ RollbackDelete(p)

Next ==
  \/ \E p \in Payments : Request(p) \/ Admin(p) \/ BankCreates(p) \/ BankChanges(p)
  \/ \E h \in Handlers : \/ \E r \in sent : Webhook(h, r)
                         \/ \E p \in Payments : FetchInvoiceStatus(h, p)
  \/ \E x \in inflight : Sync(x) \/ SyncAborts(x)
  \/ ExpireStaleInvoices

Spec == Init /\ [][Next]_vars

(* The fairness of the runs that check liveness: a request that has begun    *)
(* goes on, a deletion ends, and Monobank repeats the report of its current  *)
(* status until the webhook has answered it with 200.                        *)
Redelivers(p) ==
  LET latest == [payment |-> p, status |-> bank[p].status,
                 modified |-> bank[p].modified]
  IN  /\ latest \in sent \ acked
      /\ \E h \in Handlers : Webhook(h, latest)

Fairness ==
  /\ WF_vars(\E x \in inflight : Sync(x))
  /\ \A p \in Payments : SF_vars(Redelivers(p)) /\ WF_vars(DeletePayment(p))

FairSpec == Spec /\ Fairness

-----------------------------------------------------------------------------
(* Properties.                                                               *)

\* Every variable has its type: the columns, the bank's invoices, the reports
\* and the calls under way.
TypeOK ==
  /\ live \subseteq Payments /\ locked \subseteq Payments
  /\ cancel \subseteq Payments /\ open \subseteq Payments
  /\ granted \subseteq Payments /\ fiscal \subseteq Payments
  /\ row \in [Payments -> Rows]
  /\ create \in [Payments -> {"none", "calling", "storing", "failing", "done"}]
  /\ bank \in [Payments -> Invoices]
  /\ inflight \subseteq Syncs
  /\ sent \subseteq Reports /\ acked \subseteq Bodies
  /\ faults \in 0 .. MaxFaults

Collected(p) == bank[p].status \in {"success", "reversed"}

\* A row that is stored or shown as paid, a feature that was granted and a
\* fiscal check that was stored each stand for money the bank collected, in
\* whatever order creation, cancellation, expiry and reports took effect.
PaidIsReal ==
  \A p \in Payments :
    (p \in live /\ "paid" \in {row[p].status, Shown(p)}) \/ p \in granted \/ p \in fiscal
      => Collected(p)

\* StoreCreatedInvoice overwrites status unconditionally; whatever a webhook or
\* an admin did before it, the status it overwrites is never one of a payment
\* that was begun.
UnpaidUntilStored ==
  \A p \in Payments :
    create[p] \in {"calling", "storing"} =>
      row[p].status \notin {"processing", "paid", "failed", "reversed"}

\* The failure of a creation does not undo what was reported meanwhile: a payment
\* of which the webhook has answered a report with 200 has the invoice an admin can
\* cancel or refresh, and where Monobank's status is known, not the status of one
\* that has none, although its creation timed out here.
AnsweredHasInvoice ==
  \A r \in acked : r.payment \in live =>
    /\ row[r.payment].invoice
    /\ row[r.payment].provider \in ProviderStatuses =>
         row[r.payment].status \notin {"creating_invoice", "creation_failed"}

\* The list of pending invoices filters by the stored columns and shows the
\* resolved status: it lists exactly the invoices that are shown as pending,
\* because every writer moves status and provider_status together.
PendingListAgrees ==
  \A p \in live :
    Listed(row[p]) <=>
      row[p].invoice /\ IsPendingMonobankPayment(row[p].status, row[p].provider)

\* The customer's purchases show the stored status and the admin's history the
\* resolved one of both columns: of an invoice they tell one story, although six
\* statements of four requests and a job write the columns.  Where a reference alone,
\* and then an id without a known status, reached a failed creation, one says that it
\* failed and the other how its invoice ended: both that there is nothing to pay.
PurchasesAgree ==
  \A p \in live : InHistory(p) =>
    \/ PurchaseStatus(p) = Shown(p)
    \/ PurchaseStatus(p) = "creation_failed" /\ Shown(p) \in {"expired", "cancelled"}

\* A row that is being deleted was not paid or processing when its deletion
\* commits, although its webhooks arrive while the transaction is under way.
NoPaidDeleted ==
  [][\A p \in live \ live' : row[p].status \notin {"paid", "processing"}]_vars

\* A report never takes provider_modified_at back.
NewestWins ==
  [][\A p \in live \cap live' : row'[p].modified >= row[p].modified]_vars

\* A paid row stays, and goes to reversed only: neither the invoice's creation,
\* nor the expiry job, nor a cancellation, nor an old report takes it away.
PaidIsFinal ==
  [][\A p \in live : row[p].status = "paid" =>
       p \in live' /\ row'[p].status \in {"paid", "reversed"}]_vars

\* A payment shown as paid is never shown as pending again ("terminal local beats
\* stale pending provider", status_test.go), whatever two reports do at a time.
PaidNeverPending ==
  [][\A p \in live \cap live' :
       Shown(p) = "paid" =>
         ~IsPendingMonobankPayment(row'[p].status, row'[p].provider)]_vars

\* A payment shown as cancelled is never shown as pending again ("cancelled
\* local beats stale hold provider", status_test.go).
CancelledStays ==
  [][\A p \in live \cap live' :
       Shown(p) = "cancelled" =>
         ~IsPendingMonobankPayment(row'[p].status, row'[p].provider)]_vars

\* Monobank does not repeat what the webhook has answered with 200: by then a
\* success is in the row and a lecture's buyer has the feature, however often the
\* server stopped between the two, unless the payment was reversed since or deleted.
AnsweredIsRecorded ==
  \A r \in acked : r.status = "success" /\ r.payment \in live =>
    \/ row[r.payment].status = "reversed"
    \/ /\ row[r.payment].status = "paid"
       /\ r.payment \in Lecture => r.payment \in granted

\* A payment the bank reports as collected ends up as paid in its row, unless
\* it was reversed or its row deleted before.
SuccessReachesTheRow ==
  \A p \in Payments :
    bank[p].status = "success" ~>
      \/ p \notin live \/ row[p].status = "paid"
      \/ bank[p].status # "success"

\* The buyer of a lecture product ends up with the feature, even if the server
\* stops between the UPDATE that marks the row paid and the grant.
SuccessIsGranted ==
  \A p \in Lecture :
    bank[p].status = "success" ~> p \in granted \/ bank[p].status # "success"

-----------------------------------------------------------------------------
(* The ledger that the rows implement.                                       *)

MoneyOf(p) ==
  CASE bank[p].status = "success" -> "collected"
    [] bank[p].status = "reversed" -> "returned"
    [] OTHER -> "none"

\* What the entry of a payment is to a reader of its row.
EntryOf(p) ==
  CASE create[p] = "none" -> "none"
    [] create[p] # "none" /\ p \notin live -> "gone"
    [] p \in live /\ Shown(p) = "paid" -> "collected"
    [] p \in live /\ Shown(p) = "reversed" -> "returned"
    [] p \in live /\ Shown(p) \in {"creation_failed", "failed", "expired", "cancelled"}
         -> "closed"
    [] OTHER -> "open"

Ledger == INSTANCE PaymentLedger WITH
  money <- [p \in Payments |-> MoneyOf(p)], entry <- [p \in Payments |-> EntryOf(p)]

\* With one report at a time the rows are a ledger: an entry follows the money,
\* in whatever order creation, reports, cancellations, expiries and crashes come,
\* and only a collected entry grants.
LedgerKept == Ledger!Spec

\* The row of a payment as its checkout sees it.
SeenOf(p) ==
  IF p \in live THEN [status |-> row[p].status, page |-> row[p].page]
  ELSE [status |-> PendingRow.status, page |-> PendingRow.page]

Life == INSTANCE PaymentLife WITH
  stage <- create, there <- live, seen <- [p \in Payments |-> SeenOf(p)],
  invoiced <- {p \in Payments : bank[p].status # Nil}, opened <- open

\* Whatever reports, creation, expiry, cancellation and deletion do to a row at a
\* time, its checkout sees a life of PaymentLife: a status a customer has to act
\* for comes after the page was given out, a failure to create an invoice is
\* recorded of a row that no report has reached, and a paid one is not deleted.
LifeKept == Life!Spec
=============================================================================
