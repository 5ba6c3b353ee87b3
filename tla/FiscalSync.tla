----------------------------- MODULE FiscalSync -----------------------------
(***************************************************************************)
(* The synchronisation of fiscal checks.  For a paid registration Monobank *)
(* issues a fiscal check some time later; four callers fetch the checks of *)
(* an invoice and store them: the worker that runs every ten minutes and   *)
(* the backfill command take the payments that miss a usable check in      *)
(* batches, the webhook and an admin's button take one payment.  A payment  *)
(* that is reversed or deleted leaves the system and is left out.          *)
(*                                                                         *)
(* They share nothing but the tables: a fetch and the upsert of its answer *)
(* are two steps, and an answer may be stored after a later one.  The      *)
(* checks of one payment are abstracted to the best of them.               *)
(***************************************************************************)
EXTENDS Naturals, Sequences, SequencesExt

CONSTANTS
  Payments,   \* payments of registrations, each with an invoice
  NeverReady, \* those Monobank never issues a usable check for
  Workers,    \* the callers of SyncMissing: the worker and the backfills
  Singles,    \* the callers of SyncPayment: webhooks and admins
  Limit,      \* the size of a batch
  MaxFaults   \* bound: failed fetches, failed upserts and timeouts

ASSUME NeverReadyPayments == NeverReady \subseteq Payments
ASSUME LimitIsPositive == Limit \in Nat \ {0} /\ MaxFaults \in Nat

Jobs == Workers \cup Singles

VARIABLES
  recent,  \* the paid payments, most recently updated first
  check,   \* the stored check of each payment: "none", "pending" or "usable"
  issued,  \* Monobank's check of each payment
  job,     \* the payments each job has still to take, and the answer it holds
  faults

vars == <<recent, check, issued, job, faults>>

Checks == {"none", "pending", "usable"}
Idle == [todo |-> <<>>, answer |-> "none"]

Init ==
  /\ recent = <<>> /\ faults = 0
  /\ check = [p \in Payments |-> "none"]
  /\ issued = [p \in Payments |-> "none"]
  /\ job = [j \in Jobs |-> Idle]

-----------------------------------------------------------------------------
\* A variant that forgets one place of the batch.
FirstButOne(s) == SubSeq(s, 1, IF Len(s) < Limit THEN Len(s) ELSE Limit - 1)

FirstOf(s) == SubSeq(s, 1, IF Len(s) < Limit THEN Len(s) ELSE Limit)

\* The paid payments without a usable check, most recently updated first.
ListMissing == FirstOf(SelectSeq(recent, LAMBDA p : check[p] # "usable"))

\* A run of the worker or of the backfill.
SyncMissing(w) ==
  /\ job[w] = Idle
  /\ job' = [job EXCEPT ![w].todo = ListMissing]
  /\ UNCHANGED <<recent, check, issued, faults>>

\* The webhook of a success, or an admin who asks for the checks of a payment,
\* paid or not.
SyncPayment(s, p) ==
  /\ job[s] = Idle
  /\ job' = [job EXCEPT ![s].todo = <<p>>]
  /\ UNCHANGED <<recent, check, issued, faults>>

\* A variant of the next operator that carries the answer over.
SkipWithAnswer(j) == job' = [job EXCEPT ![j].todo = Tail(@)]

\* The job leaves the payment it is at: its check is stored, there is nothing to
\* store, or the call or the statement failed.
Skip(j) == job' = [job EXCEPT ![j] = [todo |-> Tail(@.todo), answer |-> "none"]]

FetchFiscalChecks(j) ==
  /\ job[j].todo # <<>> /\ job[j].answer = "none"
  /\ IF issued[Head(job[j].todo)] = "none"
     THEN Skip(j)
     ELSE job' = [job EXCEPT ![j].answer = issued[Head(job[j].todo)]]
  /\ UNCHANGED <<recent, check, issued, faults>>

\* A variant of the insert that leaves an existing check as it is.
KeepExisting(old, new) == IF old = "none" THEN new ELSE old

\* on conflict (check_id) do update: the answer replaces what is stored.
Overwrite(old, new) == new

UpsertForPayment(j) ==
  LET p == Head(job[j].todo) IN
  /\ job[j].todo # <<>> /\ job[j].answer # "none"
  /\ check' = [check EXCEPT ![p] = Overwrite(@, job[j].answer)]
  /\ Skip(j)
  /\ UNCHANGED <<recent, issued, faults>>

\* The job ends with payments left.
GiveUp(j) == job' = [job EXCEPT ![j] = Idle]

\* A fetch or an upsert fails; the loop goes on with the next payment.
Fails(j) ==
  /\ job[j].todo # <<>> /\ faults < MaxFaults
  /\ faults' = faults + 1
  /\ Skip(j)
  /\ UNCHANGED <<recent, check, issued>>

\* The context of the run ends, by its timeout or with the server: everything
\* that is left fails.
Timeout(j) ==
  /\ job[j].todo # <<>> /\ faults < MaxFaults
  /\ faults' = faults + 1
  /\ GiveUp(j)
  /\ UNCHANGED <<recent, check, issued>>

-----------------------------------------------------------------------------
\* A report marks a payment as paid, for the first time or again, which updates
\* its row.
IsPaid(p) ==
  /\ recent' = <<p>> \o SelectSeq(recent, LAMBDA q : q # p)
  /\ UNCHANGED <<check, issued, job, faults>>

\* Monobank issues a check for a collected payment, and later its document.
Issues(p) ==
  /\ Contains(recent, p)
  /\ \/ issued[p] = "none" /\ issued' = [issued EXCEPT ![p] = "pending"]
     \/ issued[p] # "usable" /\ p \notin NeverReady
          /\ issued' = [issued EXCEPT ![p] = "usable"]
  /\ UNCHANGED <<recent, check, job, faults>>

Work(j) == FetchFiscalChecks(j) \/ UpsertForPayment(j)

Next ==
  \/ \E w \in Workers : SyncMissing(w)
  \/ \E s \in Singles, p \in Payments : SyncPayment(s, p)
  \/ \E j \in Jobs : Work(j) \/ Fails(j) \/ Timeout(j)
  \/ \E p \in Payments : IsPaid(p) \/ Issues(p)

\* The ticker starts the worker again and again, a job that has begun goes on,
\* and Monobank issues the checks sooner or later, but for those of NeverReady.
Fairness ==
  /\ \A w \in Workers : WF_vars(SyncMissing(w))
  /\ \A j \in Jobs : WF_vars(Work(j))
  /\ \A p \in Payments \ NeverReady : WF_vars(Issues(p))

Spec == Init /\ [][Next]_vars /\ Fairness

-----------------------------------------------------------------------------
Rank(c) == CASE c = "none" -> 0 [] c = "pending" -> 1 [] c = "usable" -> 2

\* No job stores a check Monobank has not issued for that payment, although an
\* answer is stored after the batch has moved on to other payments.
StoredWasIssued == \A p \in Payments : Rank(check[p]) <= Rank(issued[p])

\* A usable check Monobank has issued is stored and stays stored, whatever late
\* answers of other jobs overwrite in between, and although payments that never
\* get one stay in front of it in every batch.
ReceiptArrives ==
  \A p \in Payments : issued[p] = "usable" ~> [](check[p] = "usable")
=============================================================================
