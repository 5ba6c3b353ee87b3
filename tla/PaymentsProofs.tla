--------------------------- MODULE PaymentsProofs ---------------------------
(***************************************************************************)
(* Proofs about Payments for every value of its constants: any number of   *)
(* payments and of requests that synchronise at a time, reports in any     *)
(* order, repeated, with or without a time, and any number of faults.      *)
(***************************************************************************)
EXTENDS Payments, TLAPS

-----------------------------------------------------------------------------
\* Every provider status stands for a status of the table.
LEMMA NormalizeType ==
  ASSUME NEW s \in ProviderStatuses
  PROVE  NormalizeMonobankStatus(s) \in StatusSet
BY DEF NormalizeMonobankStatus, monobankStatusMap, ProviderStatuses, StatusSet

\* A report says a status that is known, or nothing of it.
LEMMA UnclearMeansNothing ==
  ASSUME NEW s \in Unclear
  PROVE  s \notin ProviderStatuses /\ NormalizeMonobankStatus(s) = Nil
BY UnclearWords DEF NormalizeMonobankStatus, ProviderStatuses, Nil, Unknown

\* What Monobank sends of a report is about the same invoice and has its time, and
\* its status or an unclear one.
LEMMA BodyOf ==
  ASSUME NEW r \in Reports, NEW b \in BodiesOf(r)
  PROVE  /\ b \in Bodies
         /\ b.payment = r.payment /\ b.modified = r.modified
         /\ b.status = r.status \/ b.status \in Unclear
         /\ Unclear = {} => b = r
BY DEF Reports, Bodies, BodiesOf

\* Only the provider's success stands for a payment that is paid.
LEMMA OnlySuccessIsPaid ==
  ASSUME NEW s, NormalizeMonobankStatus(s) = "paid"
  PROVE  s = "success"
BY DEF NormalizeMonobankStatus, monobankStatusMap, ProviderStatuses, Nil

\* A reader who is shown a paid payment sees it in the status or in the
\* provider's status.
LEMMA ShownPaid ==
  ASSUME NEW p, Shown(p) = "paid"
  PROVE  row[p].status = "paid" \/ row[p].provider = "success"
BY OnlySuccessIsPaid DEF Shown, ResolveMonobankPaymentStatus, Nil

\* The statements that write a row write columns of the right types.
LEMMA ColumnTypes ==
  ASSUME NEW c \in Rows
  PROVE  /\ UpdateInvoiceCreationFailed(c) \in Rows
         /\ UpdateCreatedInvoice(c) \in Rows
         /\ UpdateInvoiceCancelled(c) \in Rows
         /\ PendingRow \in Rows
         /\ \A x \in Syncs : Reported(c, x) \in Rows
<1>1. /\ UpdateInvoiceCreationFailed(c) \in Rows
      /\ UpdateCreatedInvoice(c) \in Rows
      /\ UpdateInvoiceCancelled(c) \in Rows
      /\ PendingRow \in Rows
  BY DEF Rows, UpdateInvoiceCreationFailed, UpdateCreatedInvoice,
         UpdateInvoiceCancelled, PendingRow, StatusSet, ProviderStatuses, Nil
<1>2. ASSUME NEW x \in Syncs
      PROVE  Reported(c, x) \in Rows
  <2>1. /\ x.report.status \in ProviderStatuses \cup Unclear
        /\ x.report.modified \in Nat
    BY DEF Syncs, Bodies
  <2>2. NormalizeMonobankStatus(x.report.status) \in StatusSet \cup {Nil}
    BY <2>1, NormalizeType, UnclearMeansNothing
  <2> QED
    BY <2>1, <2>2 DEF Reported, Coalesce, Rows
<1> QED
  BY <1>1, <1>2

-----------------------------------------------------------------------------
(* The frame lemmas: what each kind of step leaves in the row, the bank, the *)
(* reports and the calls.                                                    *)

\* An UPDATE with well-typed columns keeps the type of the table.
LEMMA UpdateType ==
  ASSUME TypeOK, NEW p \in Payments, NEW c \in Rows, Update(p, c)
  PROVE  row' \in [Payments -> Rows]
BY DEF Update, TypeOK

\* Moving or ending a call keeps the types of the calls and of the answers.
LEMMA CallType ==
  ASSUME TypeOK, NEW x \in inflight,
         \/ \E pc \in {"select", "update", "grant", "fiscal"} :
              Step(x, pc) /\ UNCHANGED acked
         \/ Finish(x)
  PROVE  inflight' \subseteq Syncs /\ acked' \subseteq Bodies
<1>1. x \in Syncs /\ x.report \in Bodies
  BY DEF TypeOK, Syncs
<1>2. CASE Finish(x)
  BY <1>1, <1>2 DEF Finish, TypeOK
<1>3. CASE \E pc \in {"select", "update", "grant", "fiscal"} :
             Step(x, pc) /\ UNCHANGED acked
  <2>1. PICK pc \in {"select", "update", "grant", "fiscal"} :
          Step(x, pc) /\ UNCHANGED acked
    BY <1>3
  <2>2. [x EXCEPT !.pc = pc] \in Syncs
    BY <1>1 DEF Syncs
  <2> QED
    BY <2>1, <2>2 DEF Step, TypeOK
<1> QED
  BY <1>2, <1>3

\* A change at the bank keeps the types of its invoices and of its reports.
LEMMA BecomesType ==
  ASSUME TypeOK, NEW p \in Payments, NEW s \in ProviderStatuses, Becomes(p, s)
  PROVE  bank' \in [Payments -> Invoices] /\ sent' \subseteq Reports
<1>1. PICK m \in {bank[p].modified + 1} \cup
             (IF SameSecond /\ bank[p].status # Nil THEN {bank[p].modified} ELSE {}) :
        /\ bank' = [bank EXCEPT ![p] = [status |-> s, modified |-> m]]
        /\ sent' = sent \cup {[payment |-> p, status |-> s, modified |-> m]}
  BY DEF Becomes
<1>2. m \in Nat
  BY <1>1 DEF TypeOK, Invoices
<1>3. [status |-> s, modified |-> m] \in Invoices
  BY <1>2 DEF Invoices
<1>4. [payment |-> p, status |-> s, modified |-> m] \in Reports
  BY <1>2 DEF Reports
<1> QED
  BY <1>1, <1>3, <1>4 DEF TypeOK

\* A call that begins with a report has the type of a call.
LEMMA BeginType ==
  ASSUME TypeOK, NEW h \in Handlers, NEW r \in Reports, NEW stamped \in BOOLEAN,
         NEW hook \in BOOLEAN, Begin(h, r, stamped, hook)
  PROVE  inflight' \subseteq Syncs
BY BodyOf DEF Begin, TypeOK, Syncs

-----------------------------------------------------------------------------
\* The initial state has the types.
LEMMA TypeInit == Init => TypeOK
BY Bounds DEF Init, TypeOK, Rows, PendingRow, Invoices, StatusSet, Nil

\* A step of the request that creates an invoice keeps the types.
LEMMA TypeRequest ==
  ASSUME TypeOK, NEW p \in Payments, Request(p)
  PROVE  TypeOK'
<1>1. row[p] \in Rows
  BY DEF TypeOK
<1>2. CASE CreatePendingInvoice(p)
  BY <1>1, <1>2, ColumnTypes DEF CreatePendingInvoice, TypeOK, bankVars
<1>3. CASE InvoiceAnswered(p)
  BY <1>3 DEF InvoiceAnswered, TypeOK, rowVars, bankVars
<1>4. CASE InvoiceNotAnswered(p)
  BY <1>4 DEF InvoiceNotAnswered, TypeOK, rowVars, bankVars
<1>5. CASE MarkInvoiceCreationFailed(p)
  <2>1. row' \in [Payments -> Rows]
    BY <1>1, <1>5, ColumnTypes, UpdateType DEF MarkInvoiceCreationFailed
  <2> QED
    BY <1>5, <2>1 DEF MarkInvoiceCreationFailed, TypeOK, bankVars
<1>6. CASE StoreCreatedInvoice(p)
  <2>1. row' \in [Payments -> Rows]
    BY <1>1, <1>6, ColumnTypes, UpdateType DEF StoreCreatedInvoice
  <2> QED
    BY <1>6, <2>1 DEF StoreCreatedInvoice, TypeOK, bankVars
<1>7. CASE CreateAborts(p)
  BY <1>7, Bounds DEF CreateAborts, TypeOK, rowVars, bankVars
<1> QED
  BY <1>2, <1>3, <1>4, <1>5, <1>6, <1>7 DEF Request

\* A step of a synchronisation keeps the types.
LEMMA TypeSync ==
  ASSUME TypeOK, NEW x \in inflight, Sync(x) \/ SyncAborts(x)
  PROVE  TypeOK'
<1>1. x \in Syncs /\ x.report.payment \in Payments
  BY DEF TypeOK, Syncs, Bodies
<1>2. CASE SelectLatestProviderState(x)
  <2>1. inflight' \subseteq Syncs /\ acked' \subseteq Bodies
    BY <1>2, CallType DEF SelectLatestProviderState
  <2> QED
    BY <1>2, <2>1 DEF SelectLatestProviderState, TypeOK, rowVars, bankVars
<1>3. CASE UpdatePaymentProviderState(x)
  <2>1. inflight' \subseteq Syncs /\ acked' \subseteq Bodies
    BY <1>3, CallType DEF UpdatePaymentProviderState
  <2>2. row[x.report.payment] \in Rows
    BY <1>1 DEF TypeOK
  <2>3. row' \in [Payments -> Rows]
    <3>1. CASE Matches(x)
      BY <1>1, <1>3, <2>2, <3>1, ColumnTypes, UpdateType
      DEF UpdatePaymentProviderState
    <3>2. CASE ~Matches(x)
      BY <1>3, <3>2 DEF UpdatePaymentProviderState, TypeOK
    <3> QED
      BY <3>1, <3>2
  <2> QED
    BY <1>3, <2>1, <2>3 DEF UpdatePaymentProviderState, TypeOK, bankVars
<1>4. CASE maybeGrantProductFeatures(x)
  <2>1. inflight' \subseteq Syncs /\ acked' \subseteq Bodies
    BY <1>4, CallType DEF maybeGrantProductFeatures
  <2>2. granted' \subseteq Payments
    BY <1>1, <1>4 DEF maybeGrantProductFeatures, TypeOK
  <2> QED
    BY <1>4, <2>1, <2>2 DEF maybeGrantProductFeatures, TypeOK, rowVars, bankVars
<1>5. CASE maybeSyncFiscalChecks(x)
  <2>1. inflight' \subseteq Syncs /\ acked' \subseteq Bodies
    BY <1>5, CallType DEF maybeSyncFiscalChecks
  <2>2. fiscal' \subseteq Payments
    BY <1>1, <1>5 DEF maybeSyncFiscalChecks, TypeOK
  <2> QED
    BY <1>5, <2>1, <2>2 DEF maybeSyncFiscalChecks, TypeOK, rowVars, bankVars
<1>6. CASE SyncAborts(x)
  BY <1>6, Bounds DEF SyncAborts, TypeOK, rowVars, bankVars
<1> QED
  BY <1>2, <1>3, <1>4, <1>5, <1>6 DEF Sync

\* A step of an admin's cancellation or deletion keeps the types.
LEMMA TypeAdmin ==
  ASSUME TypeOK, NEW p \in Payments, Admin(p)
  PROVE  TypeOK'
<1>1. row[p] \in Rows
  BY DEF TypeOK
<1>2. CASE RemoveInvoice(p)
  <2>1. bank' \in [Payments -> Invoices] /\ sent' \subseteq Reports
    BY <1>2, BecomesType DEF RemoveInvoice, ProviderStatuses
  <2> QED
    BY <1>2, <2>1 DEF RemoveInvoice, TypeOK, rowVars
<1>3. CASE MarkInvoiceCancelled(p)
  <2>1. row' \in [Payments -> Rows]
    BY <1>1, <1>3, ColumnTypes, UpdateType DEF MarkInvoiceCancelled
  <2> QED
    BY <1>3, <2>1 DEF MarkInvoiceCancelled, TypeOK, bankVars
<1>4. CASE CancelAborts(p)
  BY <1>4, Bounds DEF CancelAborts, TypeOK, rowVars, bankVars
<1>5. CASE SelectForDelete(p)
  BY <1>5 DEF SelectForDelete, TypeOK, bankVars
<1>6. CASE DeletePayment(p)
  BY <1>1, <1>6, ColumnTypes DEF DeletePayment, TypeOK, bankVars
<1>7. CASE RollbackDelete(p)
  BY <1>7, Bounds DEF RollbackDelete, TypeOK, bankVars
<1> QED
  BY <1>2, <1>3, <1>4, <1>5, <1>6, <1>7 DEF Admin

\* A step of the bank keeps the types.
LEMMA TypeBank ==
  ASSUME TypeOK, NEW p \in Payments, BankCreates(p) \/ BankChanges(p)
  PROVE  TypeOK'
<1>1. PICK s \in ProviderStatuses : Becomes(p, s)
  BY DEF BankCreates, BankChanges, BankMoves, ProviderStatuses
<1>2. bank' \in [Payments -> Invoices] /\ sent' \subseteq Reports
  BY <1>1, BecomesType
<1> QED
  BY <1>2 DEF BankCreates, BankChanges, TypeOK, rowVars

\* A call that begins keeps the types.
LEMMA TypeBegin ==
  ASSUME TypeOK, NEW h \in Handlers,
         \/ \E r \in sent : Webhook(h, r)
         \/ \E p \in Payments : FetchInvoiceStatus(h, p)
  PROVE  TypeOK'
<1>1. PICK r \in Reports, stamped \in BOOLEAN, hook \in BOOLEAN :
        Begin(h, r, stamped, hook)
  <2>1. CASE \E r \in sent : Webhook(h, r)
    BY <2>1 DEF Webhook, TypeOK
  <2>2. CASE \E p \in Payments : FetchInvoiceStatus(h, p)
    BY <2>2 DEF FetchInvoiceStatus, TypeOK, Invoices, Reports
  <2> QED
    BY <2>1, <2>2
<1>2. inflight' \subseteq Syncs
  BY <1>1, BeginType
<1> QED
  BY <1>1, <1>2 DEF Begin, TypeOK, rowVars, bankVars

\* The expiry job keeps the types.
LEMMA TypeExpire ==
  ASSUME TypeOK, ExpireStaleInvoices
  PROVE  TypeOK'
<1>1. row' \in [Payments -> Rows]
  <2>1. \A p \in Payments :
          [row[p] EXCEPT !.status = "expired", !.provider = "expired"] \in Rows
    BY DEF TypeOK, Rows, StatusSet, ProviderStatuses
  <2> QED
    BY <2>1 DEF ExpireStaleInvoices, TypeOK
<1> QED
  BY <1>1 DEF ExpireStaleInvoices, TypeOK, bankVars

\* Every step keeps the types.
LEMMA TypeStep == TypeOK /\ [Next]_vars => TypeOK'
<1> SUFFICES ASSUME TypeOK, [Next]_vars
             PROVE  TypeOK'
  OBVIOUS
<1>1. CASE \E p \in Payments :
             Request(p) \/ Admin(p) \/ BankCreates(p) \/ BankChanges(p)
  BY <1>1, TypeRequest, TypeAdmin, TypeBank
<1>2. CASE \E h \in Handlers : \/ \E r \in sent : Webhook(h, r)
                              \/ \E p \in Payments : FetchInvoiceStatus(h, p)
  BY <1>2, TypeBegin
<1>3. CASE \E x \in inflight : Sync(x) \/ SyncAborts(x)
  BY <1>3, TypeSync
<1>4. CASE ExpireStaleInvoices
  BY <1>4, TypeExpire
<1>5. CASE UNCHANGED vars
  BY <1>5 DEF TypeOK, vars, rowVars, bankVars
<1> QED
  BY <1>1, <1>2, <1>3, <1>4, <1>5 DEF Next

\* In every behaviour of the payment rows every variable keeps its type.
THEOREM TypeCorrect == Spec => []TypeOK
BY TypeInit, TypeStep, PTL DEF Spec

-----------------------------------------------------------------------------
(* PaidIsReal.  A row becomes paid from a report that was read before, in a  *)
(* call that may wait for as long as it likes; so what the reports and the   *)
(* calls under way say must be true of the bank as well.                     *)

\* What the bank reported as a success was collected.
ReportsReal == \A r \in sent : r.status = "success" => Collected(r.payment)

\* So it is with what a call carries, and with what made it grant.
CallsReal ==
  \A x \in inflight :
    x.report.status = "success" \/ x.pc \in {"grant", "fiscal"} =>
      Collected(x.report.payment)

\* And with what the rows, the features and the checks say.
RowsReal ==
  \A p \in Payments :
    (row[p].status = "paid" \/ row[p].provider = "success"
       \/ p \in granted \/ p \in fiscal)
      => Collected(p)

Real == TypeOK /\ ReportsReal /\ CallsReal /\ RowsReal

\* The bank never takes back that it collected a payment.
LEMMA CollectedStays ==
  ASSUME TypeOK, [Next]_vars, NEW p \in Payments, Collected(p)
  PROVE  Collected(p)'
<1>1. CASE bank' = bank
  BY <1>1 DEF Collected
<1>2. ASSUME NEW q \in Payments, BankCreates(q) \/ BankChanges(q) \/ RemoveInvoice(q)
      PROVE  Collected(p)'
  <2>1. CASE q # p
    <3>1. bank'[p] = bank[p]
      BY <1>2, <2>1 DEF BankCreates, BankChanges, RemoveInvoice, Becomes, TypeOK
    <3> QED
      BY <3>1 DEF Collected
  <2>2. CASE q = p
    <3>1. bank'[p].status = "reversed"
      BY <1>2, <2>2 DEF BankCreates, BankChanges, BankMoves, RemoveInvoice,
                        Becomes, Collected, TypeOK, Nil
    <3> QED
      BY <3>1 DEF Collected
  <2> QED
    BY <2>1, <2>2
<1>3. \/ bank' = bank
      \/ \E q \in Payments : BankCreates(q) \/ BankChanges(q) \/ RemoveInvoice(q)
  BY DEF Next, vars, bankVars, rowVars, Request, Admin, Sync, Webhook,
         FetchInvoiceStatus, Begin, CreatePendingInvoice, InvoiceAnswered,
         InvoiceNotAnswered, MarkInvoiceCreationFailed, StoreCreatedInvoice,
         CreateAborts, SelectLatestProviderState, UpdatePaymentProviderState,
         maybeGrantProductFeatures, maybeSyncFiscalChecks, SyncAborts,
         MarkInvoiceCancelled, CancelAborts, SelectForDelete, DeletePayment,
         RollbackDelete, ExpireStaleInvoices
<1> QED
  BY <1>1, <1>2, <1>3

\* Before the first step nothing is reported, paid or under way.
LEMMA RealInit == Init => Real
BY TypeInit DEF Init, Real, ReportsReal, CallsReal, RowsReal, PendingRow, Nil

\* A step that changes no report, no call and no grant keeps Real if it leaves
\* every row that says paid as it was or unpaid.
LEMMA RealRows ==
  ASSUME Real, [Next]_vars, UNCHANGED <<sent, inflight, granted>>,
         fiscal' \subseteq fiscal,
         \A p \in Payments :
           \/ row'[p] = row[p]
           \/ row'[p].status # "paid" /\ row'[p].provider # "success"
           \/ /\ row'[p].status # "paid"
              /\ row'[p].provider = row[p].provider
  PROVE  Real'
<1>1. TypeOK /\ TypeOK'
  BY TypeStep DEF Real
<1>2. \A p \in Payments : Collected(p) => Collected(p)'
  BY <1>1, CollectedStays
<1>3. ReportsReal'
  <2> SUFFICES ASSUME NEW r \in sent', r.status = "success"
               PROVE  Collected(r.payment)'
    BY DEF ReportsReal
  <2>1. r.payment \in Payments /\ Collected(r.payment)
    BY DEF Real, ReportsReal, TypeOK, Reports
  <2> QED
    BY <1>2, <2>1
<1>4. CallsReal'
  <2> SUFFICES ASSUME NEW x \in inflight',
                      x.report.status = "success" \/ x.pc \in {"grant", "fiscal"}
               PROVE  Collected(x.report.payment)'
    BY DEF CallsReal
  <2>1. x.report.payment \in Payments /\ Collected(x.report.payment)
    BY DEF Real, CallsReal, TypeOK, Syncs, Bodies
  <2> QED
    BY <1>2, <2>1
<1>5. RowsReal'
  <2> SUFFICES ASSUME NEW p \in Payments,
                      \/ row'[p].status = "paid" \/ row'[p].provider = "success"
                      \/ p \in granted' \/ p \in fiscal'
               PROVE  Collected(p)'
    BY DEF RowsReal
  <2>1. Collected(p)
    BY DEF Real, RowsReal
  <2> QED
    BY <1>2, <2>1
<1> QED
  BY <1>1, <1>3, <1>4, <1>5 DEF Real

\* An UPDATE changes the columns of one payment to the new ones, or nothing.
LEMMA UpdateRow ==
  ASSUME TypeOK, NEW p \in Payments, NEW c, Update(p, c), NEW q \in Payments
  PROVE  row'[q] = row[q] \/ (q = p /\ row'[q] = c)
BY DEF Update, TypeOK

\* The request that creates an invoice never writes paid.
LEMMA RealRequest ==
  ASSUME Real, NEW p \in Payments, Request(p), [Next]_vars
  PROVE  Real'
<1> USE DEF Real
<1>1. row[p] \in Rows
  BY DEF TypeOK
<1>2. CASE CreatePendingInvoice(p)
  BY <1>2, RealRows DEF CreatePendingInvoice, PendingRow, bankVars, TypeOK, Nil
<1>3. CASE InvoiceAnswered(p) \/ InvoiceNotAnswered(p) \/ CreateAborts(p)
  BY <1>3, RealRows
  DEF InvoiceAnswered, InvoiceNotAnswered, CreateAborts, rowVars, bankVars
<1>4. CASE MarkInvoiceCreationFailed(p)
  <2>1. LET c == UpdateInvoiceCreationFailed(row[p])
        IN  c = row[p] \/ (c.status # "paid" /\ c.provider = row[p].provider)
    BY <1>1 DEF UpdateInvoiceCreationFailed, Rows
  <2> QED
    BY <1>4, <2>1, RealRows, UpdateRow DEF MarkInvoiceCreationFailed, bankVars
<1>5. CASE StoreCreatedInvoice(p)
  <2>1. LET c == UpdateCreatedInvoice(row[p])
        IN  c.status # "paid" /\ c.provider # "success"
    BY <1>1 DEF UpdateCreatedInvoice, Rows
  <2> QED
    BY <1>5, <2>1, RealRows, UpdateRow DEF StoreCreatedInvoice, bankVars
<1> QED
  BY <1>2, <1>3, <1>4, <1>5 DEF Request

\* The writers beside the reports never write paid: the cancellation, the
\* deletion and the expiry job.
LEMMA RealOthers ==
  ASSUME Real, [Next]_vars,
         \/ ExpireStaleInvoices
         \/ \E p \in Payments :
              \/ MarkInvoiceCancelled(p) \/ CancelAborts(p) \/ SelectForDelete(p)
              \/ DeletePayment(p) \/ RollbackDelete(p)
  PROVE  Real'
<1> USE DEF Real
<1>1. CASE ExpireStaleInvoices
  <2>1. \A p \in Payments :
          LET c == [row[p] EXCEPT !.status = "expired", !.provider = "expired"]
          IN  c.status # "paid" /\ c.provider # "success"
    BY DEF TypeOK, Rows
  <2> QED
    BY <1>1, <2>1, RealRows DEF ExpireStaleInvoices, bankVars
<1>2. ASSUME NEW p \in Payments, MarkInvoiceCancelled(p)
      PROVE  Real'
  <2>1. LET c == UpdateInvoiceCancelled(row[p])
        IN  c.status # "paid" /\ c.provider # "success"
    BY DEF UpdateInvoiceCancelled, TypeOK, Rows
  <2> QED
    BY <1>2, <2>1, RealRows, UpdateRow DEF MarkInvoiceCancelled, bankVars
<1>3. ASSUME NEW p \in Payments,
             CancelAborts(p) \/ SelectForDelete(p) \/ RollbackDelete(p)
      PROVE  Real'
  BY <1>3, RealRows
  DEF CancelAborts, SelectForDelete, RollbackDelete, rowVars, bankVars
<1>4. ASSUME NEW p \in Payments, DeletePayment(p)
      PROVE  Real'
  BY <1>4, RealRows DEF DeletePayment, PendingRow, TypeOK, bankVars, Nil
<1> QED
  BY <1>1, <1>2, <1>3, <1>4

\* A change at the bank is reported as what it is.
LEMMA RealBank ==
  ASSUME Real, [Next]_vars, NEW p \in Payments,
         BankCreates(p) \/ BankChanges(p) \/ RemoveInvoice(p)
  PROVE  Real'
<1>1. TypeOK /\ TypeOK'
  BY TypeStep DEF Real
<1>2. \A q \in Payments : Collected(q) => Collected(q)'
  BY <1>1, CollectedStays
<1>3. UNCHANGED <<row, inflight, granted, fiscal>>
  BY DEF BankCreates, BankChanges, RemoveInvoice, rowVars
<1>4. PICK s : Becomes(p, s)
  BY DEF BankCreates, BankChanges, RemoveInvoice
<1>5. ReportsReal'
  <2> SUFFICES ASSUME NEW r \in sent', r.status = "success"
               PROVE  Collected(r.payment)'
    BY DEF ReportsReal
  <2>1. CASE r \in sent
    <3>1. r.payment \in Payments /\ Collected(r.payment)
      BY <1>1, <2>1 DEF Real, ReportsReal, TypeOK, Reports
    <3> QED
      BY <1>2, <3>1
  <2>2. CASE r \notin sent
    <3>1. r.payment = p /\ bank'[p].status = "success"
      BY <1>1, <1>4, <2>2 DEF Becomes, TypeOK
    <3> QED
      BY <3>1 DEF Collected
  <2> QED
    BY <2>1, <2>2
<1>6. CallsReal' /\ RowsReal'
  <2>1. \A x \in inflight : x.report.payment \in Payments
    BY <1>1 DEF TypeOK, Syncs, Bodies
  <2>2. CallsReal /\ RowsReal
    BY DEF Real
  <2>3. CallsReal'
    BY <1>2, <1>3, <2>1, <2>2 DEF CallsReal
  <2>4. RowsReal'
    BY <1>2, <1>3, <2>2 DEF RowsReal
  <2> QED
    BY <2>3, <2>4
<1> QED
  BY <1>1, <1>5, <1>6 DEF Real

\* A call begins with a report the bank has issued or with its present status.
LEMMA RealBegin ==
  ASSUME Real, [Next]_vars, NEW h \in Handlers,
         \/ \E r \in sent : Webhook(h, r)
         \/ \E p \in Payments : FetchInvoiceStatus(h, p)
  PROVE  Real'
<1>1. TypeOK /\ TypeOK'
  BY TypeStep DEF Real
<1>2. PICK r \in Reports, stamped \in BOOLEAN, hook \in BOOLEAN :
        /\ Begin(h, r, stamped, hook)
        /\ r.status = "success" => Collected(r.payment)
  <2>1. CASE \E r \in sent : Webhook(h, r)
    BY <1>1, <2>1 DEF Webhook, TypeOK, Real, ReportsReal
  <2>2. CASE \E p \in Payments : FetchInvoiceStatus(h, p)
    <3>1. PICK p \in Payments : FetchInvoiceStatus(h, p)
      BY <2>2
    <3> DEFINE r == [payment |-> p, status |-> bank[p].status,
                     modified |-> bank[p].modified]
    <3>2. r \in Reports /\ (r.status = "success" => Collected(r.payment))
      BY <1>1, <3>1 DEF FetchInvoiceStatus, TypeOK, Invoices, Reports, Collected
    <3>3. Begin(h, r, TRUE, FALSE)
      BY <3>1 DEF FetchInvoiceStatus
    <3> QED
      BY <3>2, <3>3
  <2> QED
    BY <2>1, <2>2
<1>3. UNCHANGED <<row, granted, fiscal, bank, sent>>
  BY <1>2 DEF Begin, rowVars, bankVars
<1>4. ReportsReal' /\ RowsReal'
  BY <1>3 DEF Real, ReportsReal, RowsReal, Collected
<1>5. CallsReal'
  <2> SUFFICES ASSUME NEW x \in inflight',
                      x.report.status = "success" \/ x.pc \in {"grant", "fiscal"}
               PROVE  Collected(x.report.payment)'
    BY DEF CallsReal
  <2>1. CASE x \in inflight
    BY <1>3, <2>1 DEF Real, CallsReal, Collected
  <2>2. CASE x \notin inflight
    <3>1. x.report \in BodiesOf(r) /\ x.pc = "select"
      BY <1>2, <2>2 DEF Begin
    <3>2. x.report.status = "success" => r.status = "success"
      BY <3>1, BodyOf, UnclearMeansNothing DEF ProviderStatuses
    <3> QED
      BY <1>2, <1>3, <3>1, <3>2, BodyOf DEF Collected
  <2> QED
    BY <2>1, <2>2
<1> QED
  BY <1>1, <1>4, <1>5 DEF Real

\* Moving or ending a call leaves calls that say what they said; one that
\* begins to grant has to carry a success.
LEMMA CallStep ==
  ASSUME Real, UNCHANGED bank, NEW x \in inflight,
         \/ Finish(x)
         \/ Step(x, "update")
         \/ Step(x, "grant") /\ x.report.status = "success"
         \/ Step(x, "fiscal") /\ x.pc = "grant"
  PROVE  CallsReal'
<1> SUFFICES ASSUME NEW y \in inflight',
                    y.report.status = "success" \/ y.pc \in {"grant", "fiscal"}
             PROVE  Collected(y.report.payment)
  BY DEF CallsReal, Collected
<1>1. CallsReal
  BY DEF Real
<1>2. CASE y \in inflight
  BY <1>1, <1>2 DEF CallsReal
<1>3. CASE y \notin inflight
  <2>1. PICK pc \in {"update", "grant", "fiscal"} :
          /\ y = [x EXCEPT !.pc = pc]
          /\ pc = "grant" => x.report.status = "success"
          /\ pc = "fiscal" => x.pc = "grant"
    BY <1>3 DEF Finish, Step
  <2>2. x \in Syncs
    BY DEF Real, TypeOK
  <2>3. y.report = x.report /\ y.pc = pc
    BY <2>1, <2>2 DEF Syncs
  <2> QED
    BY <1>1, <2>1, <2>3 DEF CallsReal
<1> QED
  BY <1>2, <1>3

\* A synchronisation writes paid, grants and stores checks for reports of a
\* success only.
LEMMA RealSync ==
  ASSUME Real, [Next]_vars, NEW x \in inflight, Sync(x) \/ SyncAborts(x)
  PROVE  Real'
<1> DEFINE p == x.report.payment
<1>1. TypeOK /\ TypeOK' /\ ReportsReal /\ CallsReal /\ RowsReal
  BY TypeStep DEF Real
<1>2. x \in Syncs /\ p \in Payments
  BY <1>1 DEF TypeOK, Syncs, Bodies
<1>3. UNCHANGED <<bank, sent>>
  BY DEF Sync, SelectLatestProviderState, UpdatePaymentProviderState,
         maybeGrantProductFeatures, maybeSyncFiscalChecks, SyncAborts, bankVars
<1>4. ReportsReal'
  BY <1>1, <1>3 DEF ReportsReal, Collected
<1>5. CASE SyncAborts(x)
  BY <1>1, <1>3, <1>4, <1>5
  DEF SyncAborts, Real, CallsReal, RowsReal, Collected, rowVars
<1>6. CASE SelectLatestProviderState(x)
  <2>1. CallsReal'
    BY <1>3, <1>6, CallStep DEF SelectLatestProviderState
  <2>2. RowsReal'
    BY <1>1, <1>3, <1>6 DEF SelectLatestProviderState, RowsReal, Collected, rowVars
  <2> QED
    BY <1>1, <1>4, <2>1, <2>2 DEF Real
<1>7. CASE UpdatePaymentProviderState(x)
  <2>1. CallsReal'
    BY <1>3, <1>7, CallStep, OnlySuccessIsPaid
    DEF UpdatePaymentProviderState, ReportsPaid
  <2>2. Collected(p) \/ ( /\ Reported(row[p], x).status # "paid"
                         /\ Reported(row[p], x).provider # "success" )
    <3>1. CASE x.report.status = "success"
      BY <1>1, <3>1 DEF CallsReal
    <3>2. CASE x.report.status # "success"
      <4>1. NormalizeMonobankStatus(x.report.status) # "paid"
        BY <3>2, OnlySuccessIsPaid
      <4>2. /\ Reported(row[p], x).status # "paid" \/ row[p].status = "paid"
            /\ Reported(row[p], x).provider # "success" \/ row[p].provider = "success"
        BY <3>2, <4>1 DEF Reported, Coalesce
      <4> QED
        BY <1>1, <1>2, <4>2 DEF RowsReal
    <3> QED
      BY <3>1, <3>2
  <2>3. \A q \in Payments :
          row'[q] = row[q] \/ (q = p /\ row'[q] = Reported(row[p], x))
    BY <1>1, <1>2, <1>7, UpdateRow DEF UpdatePaymentProviderState
  <2>4. RowsReal'
    BY <1>1, <1>3, <1>7, <2>2, <2>3
    DEF UpdatePaymentProviderState, RowsReal, Collected
  <2> QED
    BY <1>1, <1>4, <2>1, <2>4 DEF Real
<1>8. CASE maybeGrantProductFeatures(x)
  <2>1. CallsReal'
    BY <1>3, <1>8, CallStep DEF maybeGrantProductFeatures
  <2>2. Collected(p) /\ granted' \subseteq granted \cup {p}
    BY <1>1, <1>8 DEF maybeGrantProductFeatures, CallsReal
  <2>3. RowsReal'
    BY <1>1, <1>3, <1>8, <2>2
    DEF maybeGrantProductFeatures, RowsReal, Collected, rowVars
  <2> QED
    BY <1>1, <1>4, <2>1, <2>3 DEF Real
<1>9. CASE maybeSyncFiscalChecks(x)
  <2>1. CallsReal'
    BY <1>3, <1>9, CallStep DEF maybeSyncFiscalChecks
  <2>2. Collected(p) /\ fiscal' \subseteq fiscal \cup {p}
    BY <1>1, <1>9 DEF maybeSyncFiscalChecks, CallsReal
  <2>3. RowsReal'
    BY <1>1, <1>3, <1>9, <2>2
    DEF maybeSyncFiscalChecks, RowsReal, Collected, rowVars
  <2> QED
    BY <1>1, <1>4, <2>1, <2>3 DEF Real
<1> QED
  BY <1>5, <1>6, <1>7, <1>8, <1>9 DEF Sync

\* Every step keeps Real.
LEMMA RealStep == Real /\ [Next]_vars => Real'
<1> SUFFICES ASSUME Real, [Next]_vars
             PROVE  Real'
  OBVIOUS
<1>1. ASSUME NEW p \in Payments,
             Request(p) \/ Admin(p) \/ BankCreates(p) \/ BankChanges(p)
      PROVE  Real'
  BY <1>1, RealRequest, RealOthers, RealBank DEF Admin
<1>2. CASE \E h \in Handlers : \/ \E r \in sent : Webhook(h, r)
                              \/ \E p \in Payments : FetchInvoiceStatus(h, p)
  BY <1>2, RealBegin
<1>3. CASE \E x \in inflight : Sync(x) \/ SyncAborts(x)
  BY <1>3, RealSync
<1>4. CASE ExpireStaleInvoices
  BY <1>4, RealOthers
<1>5. CASE UNCHANGED vars
  BY <1>5, RealRows DEF vars
<1> QED
  BY <1>1, <1>2, <1>3, <1>4, <1>5 DEF Next

\* The invariant says what it was strengthened for.
LEMMA RealImpliesPaidIsReal == Real => PaidIsReal
BY ShownPaid DEF Real, RowsReal, PaidIsReal

\* In every behaviour a payment that is stored or shown as paid, a granted
\* feature and a stored fiscal check stand for money the bank collected.
THEOREM PaidIsAlwaysReal == Spec => []PaidIsReal
BY RealInit, RealStep, RealImpliesPaidIsReal, PTL DEF Spec
-----------------------------------------------------------------------------
(* The rows one by one.  Whatever the step, a row is left alone or written   *)
(* by one of the statements; what all of them keep is an invariant.          *)

\* The statements that may write the row of payment q.
Writes(q) ==
  \/ row'[q] = PendingRow /\ (create[q] = "none" \/ q \notin live')
  \/ /\ q \notin locked
     /\ \/ /\ create[q] = "failing" /\ create'[q] = "done"
           /\ row'[q] = UpdateInvoiceCreationFailed(row[q])
        \/ row'[q] = UpdateCreatedInvoice(row[q]) /\ create[q] = "storing" /\ q \in open'
        \/ /\ q \in cancel /\ row[q].invoice
           /\ row'[q] = UpdateInvoiceCancelled(row[q])
        \/ /\ StaleInvoice(row[q])
           /\ row'[q] = [row[q] EXCEPT !.status = "expired", !.provider = "expired"]
        \/ \E x \in inflight : /\ UpdatePaymentProviderState(x) /\ x.pc = "update"
                               /\ x.report.payment = q /\ row'[q] = Reported(row[q], x)

\* A step leaves a row alone or is one of these statements.
LEMMA RowStep ==
  ASSUME TypeOK, [Next]_vars, NEW q \in Payments
  PROVE  row'[q] = row[q] \/ Writes(q)
<1>1. ASSUME NEW p \in Payments, NEW c, Update(p, c), row'[q] # row[q]
      PROVE  q = p /\ q \notin locked /\ row'[q] = c
  BY <1>1, UpdateRow DEF Update
<1>2. ASSUME NEW p \in Payments, Request(p)
      PROVE  row'[q] = row[q] \/ Writes(q)
  <2>1. CASE CreatePendingInvoice(p)
    BY <2>1 DEF CreatePendingInvoice, TypeOK, Writes
  <2>2. CASE MarkInvoiceCreationFailed(p)
    BY <1>1, <2>2 DEF MarkInvoiceCreationFailed, TypeOK, Writes
  <2>3. CASE StoreCreatedInvoice(p)
    BY <1>1, <2>3 DEF StoreCreatedInvoice, Writes
  <2>4. CASE InvoiceAnswered(p) \/ InvoiceNotAnswered(p) \/ CreateAborts(p)
    BY <2>4 DEF InvoiceAnswered, InvoiceNotAnswered, CreateAborts, rowVars
  <2> QED
    BY <1>2, <2>1, <2>2, <2>3, <2>4 DEF Request
<1>3. ASSUME NEW p \in Payments, Admin(p)
      PROVE  row'[q] = row[q] \/ Writes(q)
  <2>1. CASE MarkInvoiceCancelled(p)
    BY <1>1, <2>1 DEF MarkInvoiceCancelled, Writes
  <2>2. CASE DeletePayment(p)
    BY <2>2 DEF DeletePayment, TypeOK, Writes
  <2>3. CASE \/ RemoveInvoice(p) \/ CancelAborts(p)
             \/ SelectForDelete(p) \/ RollbackDelete(p)
    BY <2>3 DEF RemoveInvoice, CancelAborts, SelectForDelete, RollbackDelete, rowVars
  <2> QED
    BY <1>3, <2>1, <2>2, <2>3 DEF Admin
<1>4. ASSUME NEW x \in inflight, Sync(x) \/ SyncAborts(x)
      PROVE  row'[q] = row[q] \/ Writes(q)
  <2>1. CASE UpdatePaymentProviderState(x)
    <3>1. x.report.payment \in Payments
      BY DEF TypeOK, Syncs, Bodies
    <3> QED
      BY <1>1, <2>1, <3>1 DEF UpdatePaymentProviderState, Writes
  <2>2. CASE \/ SelectLatestProviderState(x) \/ maybeGrantProductFeatures(x)
             \/ maybeSyncFiscalChecks(x) \/ SyncAborts(x)
    BY <2>2 DEF SelectLatestProviderState, maybeGrantProductFeatures,
                maybeSyncFiscalChecks, SyncAborts, rowVars
  <2> QED
    BY <1>4, <2>1, <2>2 DEF Sync
<1>5. CASE ExpireStaleInvoices
  BY <1>5 DEF ExpireStaleInvoices, Writes
<1>6. CASE \/ UNCHANGED vars
           \/ \E p \in Payments : BankCreates(p) \/ BankChanges(p)
           \/ \E h \in Handlers : \/ \E r \in sent : Webhook(h, r)
                                  \/ \E p \in Payments : FetchInvoiceStatus(h, p)
  BY <1>6 DEF vars, BankCreates, BankChanges, Webhook, FetchInvoiceStatus, Begin,
              rowVars
<1> QED
  BY <1>2, <1>3, <1>4, <1>5, <1>6 DEF Next

\* The status of a row is what its provider's status stands for, but for a row
\* that has not got an invoice, or got it from a report without a known status.
Agreed(c) ==
  \/ c.status = "creating_invoice" /\ c.provider = Nil
  \/ c.status = "creation_failed" /\ (Unclear = {} => ~c.invoice)
  \/ c.provider \in ProviderStatuses /\ c.status = NormalizeMonobankStatus(c.provider)
  \/ c.provider \in Unclear \ {Nil}

\* A row that is locked for its deletion may be deleted.
RowsAgree ==
  \A p \in Payments : Agreed(row[p]) /\ (p \in locked => Deletable(row[p]))

Agreeing == TypeOK /\ RowsAgree

\* Each statement moves both statuses together.
LEMMA AgreedWrites ==
  ASSUME TypeOK, NEW q \in Payments, Agreed(row[q]), Writes(q)
  PROVE  Agreed(row'[q])
<1>1. row[q] \in Rows
  BY DEF TypeOK
<1>2. CASE row'[q] = PendingRow
  BY <1>2 DEF Agreed, PendingRow
<1>3. CASE row'[q] = UpdateInvoiceCreationFailed(row[q])
  BY <1>1, <1>3 DEF UpdateInvoiceCreationFailed, Agreed, Rows
<1>4. CASE row'[q] = UpdateCreatedInvoice(row[q])
  BY <1>1, <1>4 DEF UpdateCreatedInvoice, Agreed, Rows, NormalizeMonobankStatus,
                    monobankStatusMap, ProviderStatuses
<1>5. CASE row'[q] = UpdateInvoiceCancelled(row[q])
  BY <1>1, <1>5 DEF UpdateInvoiceCancelled, Agreed, Rows, NormalizeMonobankStatus,
                    monobankStatusMap, ProviderStatuses
<1>6. CASE row'[q] = [row[q] EXCEPT !.status = "expired", !.provider = "expired"]
  BY <1>1, <1>6 DEF Agreed, Rows, NormalizeMonobankStatus, monobankStatusMap,
                    ProviderStatuses
<1>7. ASSUME NEW x \in inflight, row'[q] = Reported(row[q], x)
      PROVE  Agreed(row'[q])
  <2>1. x.report.status \in ProviderStatuses \cup Unclear
    BY DEF TypeOK, Syncs, Bodies
  <2>2. CASE x.report.status \in ProviderStatuses
    <3>1. NormalizeMonobankStatus(x.report.status) # Nil /\ x.report.status # Nil
      BY <2>2, NormalizeType DEF StatusSet, ProviderStatuses, Nil
    <3> QED
      BY <1>7, <2>2, <3>1 DEF Reported, Coalesce, Agreed
  <2>3. CASE x.report.status \in Unclear
    <3>1. /\ row'[q].status = row[q].status
          /\ row'[q].provider = Coalesce(x.report.status, row[q].provider)
      BY <1>7, <2>3, UnclearMeansNothing DEF Reported, Coalesce
    <3> QED
      BY <2>3, <3>1 DEF Coalesce, Agreed
  <2> QED
    BY <2>1, <2>2, <2>3
<1> QED
  BY <1>2, <1>3, <1>4, <1>5, <1>6, <1>7 DEF Writes

\* Who locks a row for a deletion has read its status; who deletes it unlocks it.
LEMMA LockStep ==
  ASSUME TypeOK, [Next]_vars, NEW q \in Payments, q \in locked'
  PROVE  q \in locked \/ (row' = row /\ Deletable(row[q]))
BY DEF Next, vars, rowVars, Request, Admin, Sync, Webhook, FetchInvoiceStatus,
       Begin, CreatePendingInvoice, InvoiceAnswered, InvoiceNotAnswered,
       MarkInvoiceCreationFailed, StoreCreatedInvoice, CreateAborts,
       SelectLatestProviderState, UpdatePaymentProviderState,
       maybeGrantProductFeatures, maybeSyncFiscalChecks, SyncAborts, RemoveInvoice,
       MarkInvoiceCancelled, CancelAborts, SelectForDelete, DeletePayment,
       RollbackDelete, ExpireStaleInvoices, BankCreates, BankChanges

\* Only a deletion takes a row away, which has locked it.
LEMMA GoneStep ==
  ASSUME [Next]_vars, NEW p \in live \ live'
  PROVE  p \in locked
BY DEF Next, vars, rowVars, Request, Admin, Sync, Webhook, FetchInvoiceStatus,
       Begin, CreatePendingInvoice, InvoiceAnswered, InvoiceNotAnswered,
       MarkInvoiceCreationFailed, StoreCreatedInvoice, CreateAborts,
       SelectLatestProviderState, UpdatePaymentProviderState,
       maybeGrantProductFeatures, maybeSyncFiscalChecks, SyncAborts, RemoveInvoice,
       MarkInvoiceCancelled, CancelAborts, SelectForDelete, DeletePayment,
       RollbackDelete, ExpireStaleInvoices, BankCreates, BankChanges

\* No row is locked, and none has an invoice, at first.
LEMMA AgreeingInit == Init => Agreeing
BY TypeInit DEF Init, Agreeing, RowsAgree, Agreed, PendingRow

\* Every step keeps the rows in agreement.
LEMMA AgreeingStep == Agreeing /\ [Next]_vars => Agreeing'
<1> SUFFICES ASSUME Agreeing, [Next]_vars PROVE Agreeing'
  OBVIOUS
<1>1. TypeOK /\ TypeOK' /\ RowsAgree
  BY TypeStep DEF Agreeing
<1>2. ASSUME NEW q \in Payments
      PROVE  Agreed(row[q])'
  <2>1. row'[q] = row[q] \/ Agreed(row'[q])
    BY <1>1, RowStep, AgreedWrites DEF RowsAgree
  <2> QED
    BY <1>1, <2>1 DEF RowsAgree, Agreed
<1>3. ASSUME NEW q \in Payments, q \in locked'
      PROVE  Deletable(row[q])'
  <2>1. CASE q \in locked
    <3>1. row'[q] = row[q] \/ row'[q] = PendingRow
      BY <1>1, <2>1, RowStep DEF Writes
    <3> QED
      BY <1>1, <2>1, <3>1 DEF RowsAgree, Deletable, PendingRow
  <2>2. CASE q \notin locked
    BY <1>1, <1>3, <2>2, LockStep DEF Deletable
  <2> QED
    BY <2>1, <2>2
<1> QED
  BY <1>1, <1>2, <1>3 DEF Agreeing, RowsAgree

\* The list of pending invoices lists exactly what is shown as pending, whichever
\* of an invoice id and a reference the reports carry.
THEOREM PendingListAlwaysAgrees == Spec => []PendingListAgrees
<1>1. Agreeing => PendingListAgrees
  <2> SUFFICES ASSUME Agreeing, NEW p \in live
               PROVE  Listed(row[p]) <=>
                        row[p].invoice /\ IsPendingMonobankPayment(row[p].status,
                                                                   row[p].provider)
    BY DEF PendingListAgrees
  <2>1. /\ Agreed(row[p]) /\ row[p].invoice \in BOOLEAN
        /\ row[p].status \in StatusSet
    BY DEF Agreeing, RowsAgree, TypeOK, Rows
  <2>2. CASE row[p].status = "creating_invoice" /\ row[p].provider = Nil
    BY <2>2 DEF Listed, IsTerminalStatus, IsPendingStatus, PendingStatuses, Nil,
       PendingMonobankProviderStatuses, IsPendingMonobankPayment, StatusSet,
       ResolveMonobankPaymentStatus, NormalizeMonobankStatus, ProviderStatuses
  <2>3. CASE row[p].status = "creation_failed"
    BY <2>3 DEF Listed, IsTerminalStatus, TerminalStatuses, IsPendingStatus,
       PendingStatuses, IsPendingMonobankPayment, ResolveMonobankPaymentStatus,
       StatusSet, Nil
  <2>4. CASE /\ row[p].provider \in ProviderStatuses
             /\ row[p].status = NormalizeMonobankStatus(row[p].provider)
    <3>1. ResolveMonobankPaymentStatus(row[p].status, row[p].provider) = row[p].status
      BY <2>4, NormalizeType DEF ResolveMonobankPaymentStatus
    <3>2. IsPendingStatus(row[p].status) <=>
            row[p].provider \in PendingMonobankProviderStatuses
      BY <2>4 DEF IsPendingStatus, PendingStatuses, PendingMonobankProviderStatuses,
         NormalizeMonobankStatus, monobankStatusMap, ProviderStatuses
    <3>3. IsPendingStatus(row[p].status) => ~IsTerminalStatus(row[p].status)
      BY DEF IsPendingStatus, PendingStatuses, IsTerminalStatus, TerminalStatuses
    <3> QED
      BY <3>1, <3>2, <3>3 DEF Listed, IsPendingMonobankPayment
  <2>5. CASE row[p].provider \in Unclear
    <3>1. row[p].provider \notin PendingMonobankProviderStatuses
      BY <2>5, UnclearMeansNothing DEF PendingMonobankProviderStatuses, ProviderStatuses
    <3>2. ResolveMonobankPaymentStatus(row[p].status, row[p].provider) = row[p].status
      BY <2>1, <2>5, UnclearMeansNothing DEF ResolveMonobankPaymentStatus
    <3>3. IsPendingStatus(row[p].status) => ~IsTerminalStatus(row[p].status)
      BY DEF IsPendingStatus, PendingStatuses, IsTerminalStatus, TerminalStatuses
    <3> QED
      BY <3>1, <3>2, <3>3 DEF Listed, IsPendingMonobankPayment
  <2> QED
    BY <2>1, <2>2, <2>3, <2>4, <2>5 DEF Agreed
<1> QED
  BY AgreeingInit, AgreeingStep, <1>1, PTL DEF Spec

\* A row is deleted only when it is neither paid nor processing, whatever reports
\* arrive while the deletion is under way.
THEOREM NoPaidIsDeleted == Spec => NoPaidDeleted
<1>1. ASSUME Agreeing, [Next]_vars, NEW p \in live \ live'
      PROVE  row[p].status \notin {"paid", "processing"}
  <2>1. p \in locked
    BY <1>1, GoneStep
  <2> QED
    BY <1>1, <2>1 DEF Agreeing, RowsAgree, TypeOK, Deletable
<1>2. Agreeing /\ [Next]_vars =>
        [\A p \in live \ live' : row[p].status \notin {"paid", "processing"}]_vars
  BY <1>1
<1> QED
  BY AgreeingInit, AgreeingStep, <1>2, PTL DEF Spec, NoPaidDeleted
-----------------------------------------------------------------------------
(* UnpaidUntilStored.  Until its page is handed out nobody pays an invoice,  *)
(* so that neither the bank nor a report nor the row says otherwise.         *)

Quiet == {"created", "expired", "cancelled"}

\* What a step of the bank does, and leaves.
BankMove(p, s) ==
  /\ Becomes(p, s)
  /\ UNCHANGED <<rowVars, create, inflight, granted, open>>
  /\ \/ bank[p].status = Nil /\ s = "created" /\ create[p] # "none" /\ cancel' = cancel
     \/ s \in BankMoves(bank[p].status, p \in open) /\ cancel' = cancel
     \/ bank[p].status = "created" /\ s = "cancelled" /\ cancel' = cancel \cup {p}

\* A step leaves the bank and its reports alone or is one of these.
LEMMA BankStep ==
  ASSUME TypeOK, [Next]_vars
  PROVE  \/ UNCHANGED bankVars /\ cancel' \subseteq cancel
         \/ \E p \in Payments, s \in ProviderStatuses : BankMove(p, s)
<1>1. ASSUME NEW p \in Payments, BankCreates(p) \/ BankChanges(p) \/ RemoveInvoice(p)
      PROVE  \E s \in ProviderStatuses : BankMove(p, s)
  <2>1. CASE BankCreates(p)
    BY <2>1 DEF BankCreates, BankMove, ProviderStatuses, rowVars
  <2>2. CASE RemoveInvoice(p)
    BY <2>2 DEF RemoveInvoice, BankMove, ProviderStatuses, rowVars
  <2>3. CASE BankChanges(p)
    <3>1. BankMoves(bank[p].status, p \in open) \subseteq ProviderStatuses
      BY DEF BankMoves, ProviderStatuses
    <3> QED
      BY <2>3, <3>1 DEF BankChanges, BankMove, rowVars
  <2> QED
    BY <1>1, <2>1, <2>2, <2>3
<1>2. \/ UNCHANGED bankVars /\ cancel' \subseteq cancel
      \/ \E p \in Payments : BankCreates(p) \/ BankChanges(p) \/ RemoveInvoice(p)
  BY DEF Next, vars, bankVars, rowVars, Request, Admin, Sync, Webhook,
         FetchInvoiceStatus, Begin, CreatePendingInvoice, InvoiceAnswered,
         InvoiceNotAnswered, MarkInvoiceCreationFailed, StoreCreatedInvoice,
         CreateAborts, SelectLatestProviderState, UpdatePaymentProviderState,
         maybeGrantProductFeatures, maybeSyncFiscalChecks, SyncAborts,
         MarkInvoiceCancelled, CancelAborts, SelectForDelete, DeletePayment,
         RollbackDelete, ExpireStaleInvoices
<1> QED
  BY <1>1, <1>2

\* The status of the bank's invoice p, as a report.
Latest(p) == [payment |-> p, status |-> bank[p].status, modified |-> bank[p].modified]

\* How call y came about: it was there, has begun, or has gone on.
Called(y) ==
  \/ y \in inflight
  \/ /\ \A x \in inflight : x.handler # y.handler
     /\ inflight' = inflight \cup {y}
     /\ y.pc = "select" /\ (y.stamped \/ OmitStamp)
     /\ \E r \in Reports : y.report \in BodiesOf(r) /\ r \in sent \cup {Latest(r.payment)}
     /\ UNCHANGED rowVars
  \/ \E x \in inflight :
       /\ inflight' = (inflight \ {x}) \cup {y}
       /\ x.report = y.report /\ x.handler = y.handler
       /\ x.by = y.by /\ x.stamped = y.stamped
       /\ \/ x.pc = "select" /\ y.pc = "update" /\ ~Stale(x) /\ UNCHANGED rowVars
          \/ x.pc = "update" /\ y.pc = "grant" /\ UpdatePaymentProviderState(x)
          \/ x.pc = "grant" /\ y.pc = "fiscal" /\ UNCHANGED rowVars

\* Every call after a step came about in one of these ways.
LEMMA CallsStep ==
  ASSUME TypeOK, [Next]_vars, NEW y \in inflight'
  PROVE  Called(y)
<1>1. ASSUME NEW h \in Handlers, NEW r \in Reports, NEW stamped, NEW hook,
             Begin(h, r, stamped, hook), stamped \/ OmitStamp,
             r \in sent \cup {Latest(r.payment)}
      PROVE  Called(y)
  <2>1. PICK by \in Identifications, body \in BodiesOf(r) :
          inflight' = inflight \cup
            {[handler |-> h, pc |-> "select", report |-> body, by |-> by,
              stamped |-> stamped, hook |-> hook]}
    BY <1>1 DEF Begin
  <2> DEFINE c == [handler |-> h, pc |-> "select", report |-> body, by |-> by,
                   stamped |-> stamped, hook |-> hook]
  <2>2. /\ c.handler = h /\ c.pc = "select" /\ c.report = body /\ c.stamped = stamped
        /\ (\A x \in inflight : x.handler # h) /\ UNCHANGED rowVars
    BY <1>1 DEF Begin
  <2>3. y \in inflight \/ (y = c /\ inflight' = inflight \cup {c})
    BY <2>1
  <2> HIDE DEF c
  <2> QED
    BY <1>1, <2>2, <2>3 DEF Called
<1>2. ASSUME NEW h \in Handlers,
             \/ \E r \in sent : Webhook(h, r)
             \/ \E p \in Payments : FetchInvoiceStatus(h, p)
      PROVE  Called(y)
  <2>1. CASE \E r \in sent : Webhook(h, r)
    BY <1>1, <2>1 DEF Webhook, TypeOK
  <2>2. CASE \E p \in Payments : FetchInvoiceStatus(h, p)
    <3>1. PICK p \in Payments : FetchInvoiceStatus(h, p)
      BY <2>2
    <3>2. Begin(h, Latest(p), TRUE, FALSE) /\ Latest(p) \in Reports
      BY <3>1 DEF FetchInvoiceStatus, Latest, TypeOK, Invoices, Reports
    <3>3. Latest(p).payment = p
      BY DEF Latest
    <3> QED
      BY <1>1, <3>2, <3>3
  <2> QED
    BY <1>2, <2>1, <2>2
<1>3. ASSUME NEW x \in inflight, Sync(x) \/ SyncAborts(x)
      PROVE  Called(y)
  <2>1. x \in Syncs
    BY DEF TypeOK
  <2>2. ASSUME NEW pc, y = [x EXCEPT !.pc = pc]
        PROVE  /\ y.pc = pc /\ x.report = y.report /\ x.handler = y.handler
               /\ x.by = y.by /\ x.stamped = y.stamped
    BY <2>1, <2>2 DEF Syncs
  <2>3. CASE SelectLatestProviderState(x)
    BY <2>2, <2>3 DEF SelectLatestProviderState, Step, Finish, Called
  <2>4. CASE UpdatePaymentProviderState(x)
    <3>1. \/ y \in inflight
          \/ /\ y = [x EXCEPT !.pc = "grant"]
             /\ inflight' = (inflight \ {x}) \cup {y}
      BY <2>4 DEF UpdatePaymentProviderState, Step, Finish
    <3>2. x.pc = "update"
      BY <2>4 DEF UpdatePaymentProviderState
    <3> QED
      BY <2>2, <2>4, <3>1, <3>2 DEF Called
  <2>5. CASE maybeGrantProductFeatures(x)
    BY <2>2, <2>5 DEF maybeGrantProductFeatures, Step, Called
  <2>6. CASE maybeSyncFiscalChecks(x) \/ SyncAborts(x)
    BY <2>6 DEF maybeSyncFiscalChecks, SyncAborts, Finish, Called
  <2> QED
    BY <1>3, <2>3, <2>4, <2>5, <2>6 DEF Sync
<1>4. \/ inflight' = inflight
      \/ \E h \in Handlers : \/ \E r \in sent : Webhook(h, r)
                             \/ \E p \in Payments : FetchInvoiceStatus(h, p)
      \/ \E x \in inflight : Sync(x) \/ SyncAborts(x)
  BY DEF Next, vars, Request, Admin, CreatePendingInvoice, InvoiceAnswered,
         InvoiceNotAnswered, MarkInvoiceCreationFailed, StoreCreatedInvoice,
         CreateAborts, RemoveInvoice, MarkInvoiceCancelled, CancelAborts,
         SelectForDelete, DeletePayment, RollbackDelete, ExpireStaleInvoices,
         BankCreates, BankChanges
<1>5. CASE inflight' = inflight
  BY <1>5 DEF Called
<1> QED
  BY <1>2, <1>3, <1>4, <1>5

\* A report is answered when its call ends: stale, without a payment, or after the
\* effects of one.
LEMMA AckedStep ==
  ASSUME [Next]_vars, NEW r \in acked' \ acked
  PROVE  \E x \in inflight :
           /\ r = x.report
           /\ \/ SelectLatestProviderState(x) /\ Stale(x)
              \/ UpdatePaymentProviderState(x) /\ ~ReportsPaid(x)
              \/ maybeSyncFiscalChecks(x)
<1>1. ASSUME NEW x \in inflight, Sync(x)
      PROVE  /\ r = x.report
             /\ \/ SelectLatestProviderState(x) /\ Stale(x)
                \/ UpdatePaymentProviderState(x) /\ ~ReportsPaid(x)
                \/ maybeSyncFiscalChecks(x)
  BY <1>1 DEF Sync, SelectLatestProviderState, UpdatePaymentProviderState,
              maybeGrantProductFeatures, maybeSyncFiscalChecks, Finish, Step
<1>2. UNCHANGED acked \/ \E x \in inflight : Sync(x)
  BY DEF Next, vars, Request, Admin, Webhook, FetchInvoiceStatus, Begin,
         CreatePendingInvoice, InvoiceAnswered, InvoiceNotAnswered,
         MarkInvoiceCreationFailed, StoreCreatedInvoice, CreateAborts,
         SyncAborts, RemoveInvoice, MarkInvoiceCancelled,
         CancelAborts, SelectForDelete, DeletePayment, RollbackDelete,
         ExpireStaleInvoices, BankCreates, BankChanges
<1> QED
  BY <1>1, <1>2

\* The page is handed out by the statement that ends the creation.
LEMMA OpenStep ==
  ASSUME TypeOK, [Next]_vars, NEW p \in Payments
  PROVE  /\ p \in open => p \in open'
         /\ p \in open' => p \in open \/ (create[p] = "storing" /\ create'[p] = "done")
         /\ create[p] = "done" => create'[p] = "done"
         /\ create[p] # "none" => create'[p] # "none"
         /\ create'[p] = "storing" => create[p] \in {"calling", "storing"}
<1>1. ASSUME NEW q \in Payments, Request(q)
      PROVE  /\ p \in open => p \in open'
             /\ p \in open' => p \in open \/ (create[p] = "storing" /\ create'[p] = "done")
             /\ create[p] = "done" => create'[p] = "done"
             /\ create[p] # "none" => create'[p] # "none"
             /\ create'[p] = "storing" => create[p] \in {"calling", "storing"}
  BY <1>1 DEF TypeOK, Request, CreatePendingInvoice, InvoiceAnswered,
     InvoiceNotAnswered, MarkInvoiceCreationFailed, StoreCreatedInvoice, CreateAborts
<1>2. UNCHANGED <<open, create>> \/ \E q \in Payments : Request(q)
  BY DEF Next, vars, bankVars, rowVars, Admin, Sync, Webhook,
         FetchInvoiceStatus, Begin, SelectLatestProviderState,
         UpdatePaymentProviderState, maybeGrantProductFeatures,
         maybeSyncFiscalChecks, SyncAborts, RemoveInvoice, MarkInvoiceCancelled,
         CancelAborts, SelectForDelete, DeletePayment, RollbackDelete,
         ExpireStaleInvoices, BankCreates, BankChanges
<1> QED
  BY <1>1, <1>2

\* What a report may say of a payment whose page is not out.
Early == Quiet \cup Unclear

Unopened ==
  /\ \A p \in open : create[p] = "done"
  /\ \A p \in Payments \ open :
       /\ bank[p].status \in Quiet \cup {Nil}
       /\ row[p].status \notin {"processing", "paid", "failed", "reversed"}
       /\ row[p].provider \in Early \cup {Nil}
  /\ \A r \in sent : r.payment \notin open => r.status \in Quiet
  /\ \A x \in inflight : x.report.payment \notin open => x.report.status \in Early

\* The page of a payment whose creation has failed is never out.
NeverOpened ==
  \A p \in Payments : row[p].status = "creation_failed" =>
    create[p] = "done" /\ p \notin open

Unpaid == TypeOK /\ Unopened /\ NeverOpened

\* At first no page is out and nothing is reported.
LEMMA UnpaidInit == Init => Unpaid
BY TypeInit DEF Init, Unpaid, Unopened, NeverOpened, PendingRow

\* What the bank moves a payment to whose page is not out.
LEMMA BankQuiet ==
  ASSUME TypeOK, Unopened, [Next]_vars, NEW p \in Payments, p \notin open
  PROVE  /\ bank'[p].status \in Quiet \cup {Nil}
         /\ \A r \in sent' : r.payment = p => r.status \in Quiet
<1>1. /\ bank[p].status \in Quiet \cup {Nil}
      /\ \A r \in sent : r.payment = p => r.status \in Quiet
  BY DEF Unopened
<1>2. ASSUME NEW q \in Payments, NEW s \in ProviderStatuses, BankMove(q, s)
      PROVE  /\ bank'[p].status \in Quiet \cup {Nil}
             /\ \A r \in sent' : r.payment = p => r.status \in Quiet
  <2>1. q = p => s \in Quiet
    BY <1>1, <1>2 DEF BankMove, BankMoves, Quiet, Nil
  <2>2. /\ bank'[p].status = IF q = p THEN s ELSE bank[p].status
        /\ \A r \in sent' : r \in sent \/ (r.payment = q /\ r.status = s)
    BY <1>2 DEF BankMove, Becomes, TypeOK
  <2> QED
    BY <1>1, <2>1, <2>2
<1> QED
  BY <1>1, <1>2, BankStep DEF bankVars

\* What a call says of a payment whose page is not out.
LEMMA CallsQuiet ==
  ASSUME TypeOK, TypeOK', Unopened, [Next]_vars, NEW y \in inflight',
         y.report.payment \notin open
  PROVE  y.report.status \in Early
<1>1. CASE \E x \in inflight : x.report = y.report
  BY <1>1 DEF Unopened
<1>2. ASSUME NEW r \in Reports, y.report \in BodiesOf(r), r \in sent \cup {Latest(r.payment)}
      PROVE  y.report.status \in Early
  <2>1. /\ r.payment = y.report.payment /\ r.payment \in Payments
        /\ y.report.status = r.status \/ y.report.status \in Unclear
    BY <1>2, BodyOf DEF Reports
  <2>2. r = Latest(r.payment) => r.status = bank[r.payment].status
    BY DEF Latest
  <2>3. r.status \in Quiet
    <3>1. r.status # Nil
      BY DEF Reports, ProviderStatuses, Nil
    <3> QED
      BY <1>2, <2>1, <2>2, <3>1 DEF Unopened
  <2> QED
    BY <2>1, <2>3 DEF Early
<1> QED
  BY <1>1, <1>2, CallsStep DEF Called

\* What a statement writes of a payment whose page is not out.
LEMMA WritesQuiet ==
  ASSUME TypeOK, Unopened, NEW p \in Payments, p \notin open, p \notin open', Writes(p)
  PROVE  /\ row'[p].status \notin {"processing", "paid", "failed", "reversed"}
         /\ row'[p].provider \in Early \cup {Nil}
<1>1. /\ row[p] \in Rows
      /\ row[p].status \notin {"processing", "paid", "failed", "reversed"}
      /\ row[p].provider \in Early \cup {Nil}
  BY DEF TypeOK, Unopened
<1>2. ASSUME NEW x \in inflight, x.report.payment = p, row'[p] = Reported(row[p], x)
      PROVE  /\ row'[p].status \notin {"processing", "paid", "failed", "reversed"}
             /\ row'[p].provider \in Early \cup {Nil}
  <2>1. x.report.status \in Early
    BY <1>2 DEF Unopened
  <2>2. NormalizeMonobankStatus(x.report.status) \in
          {Nil, "invoice_created", "expired", "cancelled"}
    BY <2>1, UnclearMeansNothing
    DEF Early, Quiet, NormalizeMonobankStatus, monobankStatusMap, ProviderStatuses
  <2> QED
    BY <1>1, <1>2, <2>1, <2>2 DEF Reported, Coalesce
<1>3. CASE row'[p] = UpdateInvoiceCreationFailed(row[p])
  BY <1>1, <1>3 DEF UpdateInvoiceCreationFailed, Rows
<1>4. CASE row'[p] = UpdateInvoiceCancelled(row[p])
  BY <1>1, <1>4 DEF UpdateInvoiceCancelled, Rows, Early, Quiet
<1>5. CASE row'[p] = [row[p] EXCEPT !.status = "expired", !.provider = "expired"]
  BY <1>1, <1>5 DEF Rows, Early, Quiet
<1>6. CASE row'[p] = PendingRow
  BY <1>6 DEF PendingRow
<1> QED
  BY <1>2, <1>3, <1>4, <1>5, <1>6 DEF Writes

\* A creation that has failed is over, and its page is not out.
LEMMA NeverOpenedStep ==
  ASSUME Unpaid, [Next]_vars, NEW p \in Payments, row'[p].status = "creation_failed"
  PROVE  create'[p] = "done" /\ p \notin open'
<1>1. TypeOK /\ Unopened /\ NeverOpened /\ row[p] \in Rows
  BY DEF Unpaid, TypeOK
<1>2. CASE row[p].status = "creation_failed"
  BY <1>1, <1>2, OpenStep DEF NeverOpened
<1>3. CASE row[p].status # "creation_failed"
  <2>1. Writes(p)
    BY <1>1, <1>3, RowStep
  <2>2. row'[p] # PendingRow
    BY DEF PendingRow
  <2>3. row'[p] # UpdateCreatedInvoice(row[p]) /\ row'[p] # UpdateInvoiceCancelled(row[p])
    BY <1>1 DEF UpdateCreatedInvoice, UpdateInvoiceCancelled, Rows
  <2>4. row'[p] # [row[p] EXCEPT !.status = "expired", !.provider = "expired"]
    BY <1>1 DEF Rows
  <2>5. ASSUME NEW x \in inflight, row'[p] = Reported(row[p], x)
        PROVE  FALSE
    <3>1. x.report.status \in ProviderStatuses \cup Unclear
      BY <1>1 DEF TypeOK, Syncs, Bodies
    <3>2. NormalizeMonobankStatus(x.report.status) # "creation_failed"
      BY <3>1, UnclearMeansNothing
      DEF NormalizeMonobankStatus, monobankStatusMap, ProviderStatuses, Nil
    <3> QED
      BY <1>3, <2>5, <3>2 DEF Reported, Coalesce
  <2>6. create[p] = "failing" /\ create'[p] = "done"
    BY <2>1, <2>2, <2>3, <2>4, <2>5 DEF Writes
  <2>7. p \notin open'
    BY <1>1, <2>6, OpenStep DEF Unopened
  <2> QED
    BY <2>6, <2>7
<1> QED
  BY <1>2, <1>3

\* Every step keeps what is not open quiet.
LEMMA UnpaidStep == Unpaid /\ [Next]_vars => Unpaid'
<1> SUFFICES ASSUME Unpaid, [Next]_vars PROVE Unpaid'
  OBVIOUS
<1>1. TypeOK /\ TypeOK' /\ Unopened
  BY TypeStep DEF Unpaid
<1>2. \A p \in Payments : p \in open => p \in open'
  BY <1>1, OpenStep
<1>3. \A p \in open' : create'[p] = "done"
  BY <1>1, OpenStep DEF Unopened, TypeOK
<1>4. ASSUME NEW p \in Payments \ open'
      PROVE  /\ row'[p].status \notin {"processing", "paid", "failed", "reversed"}
             /\ row'[p].provider \in Early \cup {Nil}
  <2>1. p \notin open
    BY <1>2, <1>4
  <2> QED
    BY <1>1, <1>4, <2>1, RowStep, WritesQuiet DEF Unopened
<1>5. ASSUME NEW y \in inflight', y.report.payment \notin open'
      PROVE  y.report.status \in Early
  <2>1. y.report.payment \in Payments
    BY <1>1 DEF TypeOK, Syncs, Bodies
  <2> QED
    BY <1>1, <1>2, <1>5, <2>1, CallsQuiet
<1>6. ASSUME NEW r \in sent', r.payment \notin open'
      PROVE  r.status \in Quiet
  <2>1. r.payment \in Payments
    BY <1>1 DEF TypeOK, Reports
  <2> QED
    BY <1>1, <1>2, <1>6, <2>1, BankQuiet
<1>7. \A p \in Payments \ open' : bank'[p].status \in Quiet \cup {Nil}
  BY <1>1, <1>2, BankQuiet
<1>8. Unopened'
  BY <1>3, <1>4, <1>5, <1>6, <1>7 DEF Unopened, Early
<1>9. NeverOpened'
  BY NeverOpenedStep DEF NeverOpened
<1> QED
  BY <1>1, <1>8, <1>9 DEF Unpaid

\* Until the invoice is stored and its page handed out the row is never that of a
\* payment that was begun: the statement that stores it overwrites nothing.
THEOREM StoringOverwritesNothing == Spec => []UnpaidUntilStored
<1>1. Unpaid => UnpaidUntilStored
  BY DEF Unpaid, Unopened, UnpaidUntilStored
<1> QED
  BY UnpaidInit, UnpaidStep, <1>1, PTL DEF Spec

\* Of an invoice the customer's purchases and the admin's history say the same,
\* or one says that its creation failed and the other that it is over.
THEOREM ReadersAlwaysAgree == Spec => []PurchasesAgree
<1>1. Agreeing /\ Unpaid => PurchasesAgree
  <2> SUFFICES ASSUME Agreeing, Unpaid, NEW p \in live
               PROVE  \/ row[p].status = Shown(p)
                      \/ /\ row[p].status = "creation_failed"
                         /\ Shown(p) \in {"expired", "cancelled"}
    BY DEF PurchasesAgree, PurchaseStatus
  <2>1. Agreed(row[p]) /\ row[p].status \in StatusSet /\ p \in Payments
    BY DEF Agreeing, RowsAgree, TypeOK, Rows
  <2>2. CASE NormalizeMonobankStatus(row[p].provider) = Nil
    BY <2>1, <2>2 DEF Shown, ResolveMonobankPaymentStatus
  <2>3. CASE row[p].status = NormalizeMonobankStatus(row[p].provider)
    BY <2>1, <2>3 DEF Shown, ResolveMonobankPaymentStatus
  <2>4. CASE row[p].status = "creation_failed"
    <3>1. row[p].provider \in Quiet \cup Unclear \cup {Nil}
      BY <2>1, <2>4 DEF Unpaid, NeverOpened, Unopened, Early
    <3>2. CASE row[p].provider \in Quiet
      BY <2>1, <2>4, <3>2
      DEF Quiet, Shown, ResolveMonobankPaymentStatus, NormalizeMonobankStatus,
          monobankStatusMap, ProviderStatuses, IsTerminalStatus, TerminalStatuses,
          IsPendingStatus, PendingStatuses, Nil
    <3>3. CASE row[p].provider \in Unclear \cup {Nil}
      BY <2>2, <3>3, UnclearMeansNothing
      DEF NormalizeMonobankStatus, ProviderStatuses, Nil
    <3> QED
      BY <3>1, <3>2, <3>3
  <2>5. row[p].provider \in Unclear \cup {Nil} =>
          NormalizeMonobankStatus(row[p].provider) = Nil
    BY UnclearMeansNothing DEF NormalizeMonobankStatus, ProviderStatuses, Nil
  <2> QED
    BY <2>1, <2>2, <2>3, <2>4, <2>5 DEF Agreed
<1> QED
  BY AgreeingInit, AgreeingStep, UnpaidInit, UnpaidStep, <1>1, PTL DEF Spec

-----------------------------------------------------------------------------
(* LifeKept: what the statements do to a row is what its checkout may see,   *)
(* because whatever reaches a row is about an invoice the bank has, and      *)
(* whatever has reached it has left its invoice id.                          *)

\* Each report carries the id of its invoice, as Monobank's do.
Identified == "reference" \notin Identifications

\* A row that is live has been created, and a new one is of a payment that was not.
LEMMA LiveStep ==
  ASSUME TypeOK, [Next]_vars, NEW p \in live'
  PROVE  p \in live \/ (row'[p] = PendingRow /\ create'[p] # "none" /\ create[p] = "none")
<1>1. ASSUME NEW q \in Payments, CreatePendingInvoice(q)
      PROVE  p \in live \/ (row'[p] = PendingRow /\ create'[p] # "none" /\ create[p] = "none")
  BY <1>1 DEF CreatePendingInvoice, TypeOK
<1>2. live' \subseteq live \/ \E q \in Payments : CreatePendingInvoice(q)
  BY DEF Next, vars, rowVars, Request, Admin, Sync, Webhook, FetchInvoiceStatus,
       Begin, InvoiceAnswered, InvoiceNotAnswered,
       MarkInvoiceCreationFailed, StoreCreatedInvoice, CreateAborts,
       SelectLatestProviderState, UpdatePaymentProviderState,
       maybeGrantProductFeatures, maybeSyncFiscalChecks, SyncAborts, RemoveInvoice,
       MarkInvoiceCancelled, CancelAborts, SelectForDelete, DeletePayment,
       RollbackDelete, ExpireStaleInvoices, BankCreates, BankChanges
<1> QED
  BY <1>1, <1>2

\* A row has its invoice id as soon as its status is one of an invoice, and what
\* is under way for an invoice is about one the bank has.
Asked ==
  /\ \A p \in live : create[p] # "none"
  /\ \A p \in Payments :
       /\ row[p].status \notin {"creating_invoice", "creation_failed"} => row[p].invoice
       /\ row[p].page => row[p].invoice
       /\ bank[p].status = Nil =>
            create[p] # "storing" /\ ~row[p].invoice /\ p \notin cancel
  /\ \A r \in sent : bank[r.payment].status # Nil
  /\ \A x \in inflight : bank[x.report.payment].status # Nil

LifeInv == Agreeing /\ Unpaid /\ Asked

\* The status a report gives a row, if it gives it one.
LEMMA ReportedStatus ==
  ASSUME Unpaid, NEW x \in inflight
  PROVE  NormalizeMonobankStatus(x.report.status) \in
           {Nil} \cup Life!Reached(x.report.payment \in open)
<1>1. x.report.status \in ProviderStatuses \cup Unclear
  BY DEF Unpaid, TypeOK, Syncs, Bodies
<1>2. x.report.payment \notin open => x.report.status \in Quiet \cup Unclear
  BY DEF Unpaid, Unopened, Early
<1> QED
  BY <1>1, <1>2, UnclearMeansNothing
  DEF NormalizeMonobankStatus, monobankStatusMap, ProviderStatuses, Quiet, Life!Reached

\* The bank keeps the invoices it has.
LEMMA InvoicedStep ==
  ASSUME TypeOK, [Next]_vars, NEW p \in Payments, bank[p].status # Nil
  PROVE  bank'[p].status # Nil
<1>1. ASSUME NEW q \in Payments, NEW s \in ProviderStatuses, BankMove(q, s)
      PROVE  bank'[p].status # Nil
  BY <1>1 DEF BankMove, Becomes, TypeOK, ProviderStatuses, Nil
<1> QED
  BY <1>1, BankStep DEF bankVars

\* Who is to store an invoice has got it from the bank.
LEMMA StoringStep ==
  ASSUME TypeOK, [Next]_vars, NEW p \in Payments, create'[p] = "storing"
  PROVE  create[p] = "storing" \/ bank[p].status # Nil
<1>1. ASSUME NEW q \in Payments, Request(q)
      PROVE  create[p] = "storing" \/ bank[p].status # Nil
  BY <1>1 DEF TypeOK, Request, CreatePendingInvoice, InvoiceAnswered,
     InvoiceNotAnswered, MarkInvoiceCreationFailed, StoreCreatedInvoice, CreateAborts
<1>2. UNCHANGED create \/ \E q \in Payments : Request(q)
  BY DEF Next, vars, bankVars, rowVars, Admin, Sync, Webhook,
         FetchInvoiceStatus, Begin, SelectLatestProviderState,
         UpdatePaymentProviderState, maybeGrantProductFeatures,
         maybeSyncFiscalChecks, SyncAborts, RemoveInvoice, MarkInvoiceCancelled,
         CancelAborts, SelectForDelete, DeletePayment, RollbackDelete,
         ExpireStaleInvoices, BankCreates, BankChanges
<1> QED
  BY <1>1, <1>2

\* Each statement that gives a row an invoice's status gives it its id.
LEMMA AskedWrites ==
  ASSUME Identified, LifeInv, NEW q \in Payments, Writes(q)
  PROVE  /\ row'[q].status \notin {"creating_invoice", "creation_failed"} => row'[q].invoice
         /\ row'[q].page => row'[q].invoice
         /\ row'[q].invoice => bank[q].status # Nil
<1> DEFINE Goal ==
      /\ row'[q].status \notin {"creating_invoice", "creation_failed"} => row'[q].invoice
      /\ row'[q].page => row'[q].invoice
      /\ row'[q].invoice => bank[q].status # Nil
<1>1. /\ row[q] \in Rows
      /\ row[q].status \notin {"creating_invoice", "creation_failed"} => row[q].invoice
      /\ row[q].page => row[q].invoice
      /\ bank[q].status = Nil => create[q] # "storing" /\ ~row[q].invoice
  BY DEF LifeInv, Unpaid, TypeOK, Asked
<1>2. CASE row'[q] = PendingRow
  BY <1>2 DEF PendingRow
<1>3. CASE row'[q] = UpdateInvoiceCreationFailed(row[q])
  BY <1>1, <1>3 DEF UpdateInvoiceCreationFailed, Rows
<1>4. CASE row'[q] = UpdateCreatedInvoice(row[q]) /\ create[q] = "storing"
  BY <1>1, <1>4 DEF UpdateCreatedInvoice, Rows
<1>5. CASE row'[q] = UpdateInvoiceCancelled(row[q]) /\ row[q].invoice
  BY <1>1, <1>5 DEF UpdateInvoiceCancelled, Rows
<1>6. CASE /\ row'[q] = [row[q] EXCEPT !.status = "expired", !.provider = "expired"]
           /\ StaleInvoice(row[q])
  BY <1>1, <1>6 DEF StaleInvoice, PendingStatuses, Rows
<1>7. ASSUME NEW x \in inflight, x.report.payment = q, row'[q] = Reported(row[q], x)
      PROVE  Goal
  <2>1. x.by # "reference"
    BY DEF LifeInv, Unpaid, TypeOK, Syncs, Identified
  <2>4. bank[q].status # Nil
    BY <1>7 DEF LifeInv, Asked
  <2>5. row'[q].invoice
    <3>1. Reported(row[q], x).invoice
      BY <1>1, <2>1 DEF Reported, Rows
    <3> QED
      BY <1>7, <3>1
  <2>6. row'[q].page = row[q].page
    BY <1>7 DEF Reported
  <2> QED
    BY <1>1, <2>4, <2>5, <2>6
<1> QED
  BY <1>2, <1>3, <1>4, <1>5, <1>6, <1>7 DEF Writes

\* Every step keeps what is asked of the bank.
LEMMA LifeInvStep ==
  ASSUME Identified, LifeInv, [Next]_vars
  PROVE  LifeInv'
<1>1. /\ TypeOK /\ TypeOK' /\ Agreeing' /\ Unpaid'
      /\ Asked
  BY AgreeingStep, UnpaidStep DEF LifeInv, Unpaid
<1>2. \A p \in live' : create'[p] # "none"
  BY <1>1, LiveStep, OpenStep DEF Asked, TypeOK
<1>3. ASSUME NEW p \in Payments
      PROVE  /\ row'[p].status \notin {"creating_invoice", "creation_failed"} => row'[p].invoice
             /\ row'[p].page => row'[p].invoice
             /\ row'[p].invoice => bank'[p].status # Nil
  <2>1. row'[p].invoice => bank[p].status # Nil
    BY <1>1, RowStep, AskedWrites DEF Asked
  <2> QED
    BY <1>1, <2>1, RowStep, AskedWrites, InvoicedStep DEF Asked
<1>4. ASSUME NEW p \in Payments, bank'[p].status = Nil
      PROVE  create'[p] # "storing" /\ p \notin cancel'
  <2>1. bank[p].status = Nil
    BY <1>1, <1>4, InvoicedStep
  <2>2. create'[p] # "storing"
    BY <1>1, <2>1, StoringStep DEF Asked
  <2>3. ASSUME NEW q \in Payments, NEW s \in ProviderStatuses, BankMove(q, s)
        PROVE  p \notin cancel'
    BY <1>1, <1>4, <2>1, <2>3 DEF BankMove, Becomes, Asked, TypeOK, ProviderStatuses, Nil
  <2> QED
    BY <1>1, <2>1, <2>2, <2>3, BankStep DEF Asked
<1>5. ASSUME NEW r \in sent'
      PROVE  bank'[r.payment].status # Nil
  <2>1. r.payment \in Payments
    BY <1>1 DEF TypeOK, Reports
  <2>2. CASE r \in sent
    BY <1>1, <2>1, <2>2, InvoicedStep DEF Asked
  <2>3. ASSUME NEW q \in Payments, NEW s \in ProviderStatuses, BankMove(q, s), r \notin sent
        PROVE  bank'[r.payment].status # Nil
    BY <1>1, <2>3 DEF BankMove, Becomes, TypeOK, ProviderStatuses, Nil
  <2> QED
    BY <1>1, <2>2, <2>3, BankStep DEF bankVars
<1>6. ASSUME NEW y \in inflight'
      PROVE  bank'[y.report.payment].status # Nil
  <2>1. y.report.payment \in Payments
    BY <1>1 DEF TypeOK, Syncs, Bodies
  <2>2. bank[y.report.payment].status # Nil
    <3>1. CASE \E x \in inflight : x.report = y.report
      BY <1>1, <3>1 DEF Asked
    <3>2. ASSUME NEW r \in Reports, y.report \in BodiesOf(r),
                 r \in sent \cup {Latest(r.payment)}
          PROVE  bank[y.report.payment].status # Nil
      <4>1. y.report.payment = r.payment /\ r.status # Nil
        BY <3>2, BodyOf DEF Reports, ProviderStatuses, Nil
      <4>2. Latest(r.payment).status = bank[r.payment].status
        BY DEF Latest
      <4> QED
        BY <1>1, <3>2, <4>1, <4>2 DEF Asked
    <3> QED
      BY <1>1, <3>1, <3>2, CallsStep DEF Called
  <2> QED
    BY <1>1, <2>1, <2>2, InvoicedStep
<1>7. Asked'
  BY <1>2, <1>3, <1>4, <1>5, <1>6 DEF Asked
<1> QED
  BY <1>1, <1>7 DEF LifeInv
\* At first no payment has begun its life.
LEMMA LifeInit == Init => LifeInv /\ Life!Init
<1> SUFFICES ASSUME Init PROVE LifeInv /\ Life!Init
  OBVIOUS
<1>1. Agreeing /\ Unpaid
  BY AgreeingInit, UnpaidInit
<1>2. Asked
  BY DEF Init, Asked, PendingRow
<1>3. Life!Init
  BY DEF Init, Life!Init, Life!New, SeenOf, PendingRow
<1> QED
  BY <1>1, <1>2, <1>3 DEF LifeInv

\* What a checkout sees of a row that no statement writes, and of one that one does.
LEMMA SeenStays ==
  ASSUME UNCHANGED <<live, row>>
  PROVE  UNCHANGED [p \in Payments |-> SeenOf(p)]
BY DEF SeenOf

LEMMA SeenUpdate ==
  ASSUME TypeOK, UNCHANGED live, NEW p \in Payments, NEW c, Update(p, c)
  PROVE  Life!Shows(p, c.status, c.page)
<1>1. CASE p \notin live
  BY <1>1 DEF Update, SeenOf, Life!Shows
<1>2. CASE p \in live
  <2>1. /\ row' = [row EXCEPT ![p] = c] /\ row \in [Payments -> Rows]
    BY <1>2 DEF Update, TypeOK
  <2>2. /\ SeenOf(p)' = [status |-> c.status, page |-> c.page]
        /\ \A q \in Payments \ {p} : SeenOf(q)' = SeenOf(q)
    BY <1>2, <2>1 DEF SeenOf
  <2> QED
    BY <1>2, <2>2 DEF Life!Shows
<1> QED
  BY <1>1, <1>2

\* The bank's invoices are the same ones while the bank creates none.
LEMMA InvoicedStays ==
  ASSUME UNCHANGED bank
  PROVE  UNCHANGED {p \in Payments : bank[p].status # Nil}
OBVIOUS

\* Rows whose status alone changes for a checkout, to one that a report can give.
LEMMA LifeChanges ==
  ASSUME UNCHANGED <<create, live, open, bank>>,
         \A q \in Payments : row'[q] # row[q] =>
           /\ q \in live /\ bank[q].status # Nil
           /\ row'[q].status \in Life!Reached(q \in open) \cup {row[q].status}
           /\ row'[q].page = row[q].page
  PROVE  Life!Changes
<1>1. ASSUME NEW q \in Payments, SeenOf(q)' # SeenOf(q)
      PROVE  /\ q \in live \cap {p \in Payments : bank[p].status # Nil}
             /\ SeenOf(q)'.status \in Life!Reached(q \in open)
             /\ SeenOf(q)' = [status |-> SeenOf(q)'.status, page |-> SeenOf(q).page]
  <2>1. q \in live /\ row'[q] # row[q]
    BY <1>1 DEF SeenOf
  <2>2. /\ SeenOf(q) = [status |-> row[q].status, page |-> row[q].page]
        /\ SeenOf(q)' = [status |-> row'[q].status, page |-> row'[q].page]
    BY <2>1 DEF SeenOf
  <2>3. row'[q].status # row[q].status
    BY <1>1, <2>1, <2>2
  <2> QED
    BY <2>1, <2>2, <2>3
<1> QED
  BY <1>1, InvoicedStays DEF Life!Changes

\* The statements of a request are the steps of its payment's life.
LEMMA LifeRequest ==
  ASSUME LifeInv, NEW p \in Payments, Request(p)
  PROVE  Life!Next \/ UNCHANGED Life!lifeVars
<1>1. /\ TypeOK /\ Asked /\ row[p] \in Rows
  BY DEF LifeInv, Unpaid, TypeOK
<1>2. CASE CreatePendingInvoice(p)
  <2>1. p \notin live
    BY <1>1, <1>2 DEF CreatePendingInvoice, Asked
  <2>2. UNCHANGED [q \in Payments |-> SeenOf(q)]
    BY <1>1, <1>2, <2>1 DEF CreatePendingInvoice, SeenOf, TypeOK
  <2>3. Life!Insert(p)
    BY <1>2, <2>2, InvoicedStays
    DEF CreatePendingInvoice, bankVars, Life!Insert, Life!Goes
  <2> QED
    BY <2>3 DEF Life!Next
<1>3. CASE InvoiceAnswered(p)
  <2>1. Life!Answer(p)
    BY <1>3, SeenStays, InvoicedStays
    DEF InvoiceAnswered, rowVars, bankVars, Life!Answer, Life!Goes
  <2> QED
    BY <2>1 DEF Life!Next
<1>4. CASE InvoiceNotAnswered(p)
  <2>1. Life!Refuse(p)
    BY <1>4, SeenStays, InvoicedStays
    DEF InvoiceNotAnswered, rowVars, bankVars, Life!Refuse, Life!Goes
  <2> QED
    BY <2>1 DEF Life!Next
<1>5. CASE MarkInvoiceCreationFailed(p)
  <2>1. Life!Shows(p, UpdateInvoiceCreationFailed(row[p]).status,
                      UpdateInvoiceCreationFailed(row[p]).page)
    BY <1>1, <1>5, SeenUpdate DEF MarkInvoiceCreationFailed
  <2>2. CASE p \in live /\ row[p].status = "creating_invoice" /\ row[p].invoice
    <3>1. UpdateInvoiceCreationFailed(row[p]) = row[p]
      BY <2>2 DEF UpdateInvoiceCreationFailed
    <3>2. row' = row
      BY <1>1, <1>5, <3>1 DEF MarkInvoiceCreationFailed, Update, TypeOK
    <3>3. Life!Abort(p)
      BY <1>5, <3>2, SeenStays, InvoicedStays
      DEF MarkInvoiceCreationFailed, bankVars, Life!Abort, Life!Goes
    <3> QED
      BY <3>3 DEF Life!Next
  <2>3. CASE ~(p \in live /\ row[p].status = "creating_invoice" /\ row[p].invoice)
    <3>1. IF SeenOf(p).status = "creating_invoice"
          THEN Life!Shows(p, "creation_failed", SeenOf(p).page)
          ELSE UNCHANGED [q \in Payments |-> SeenOf(q)]
      <4>1. CASE p \notin live
        BY <2>1, <4>1 DEF Life!Shows, SeenOf, PendingRow
      <4>2. CASE p \in live
        <5>1. SeenOf(p) = [status |-> row[p].status, page |-> row[p].page]
          BY <4>2 DEF SeenOf
        <5>2. CASE row[p].status = "creating_invoice"
          <6>1. /\ UpdateInvoiceCreationFailed(row[p]).status = "creation_failed"
                /\ UpdateInvoiceCreationFailed(row[p]).page = row[p].page
            BY <1>1, <2>3, <4>2, <5>2 DEF UpdateInvoiceCreationFailed, Rows
          <6> QED
            BY <2>1, <5>1, <5>2, <6>1
        <5>3. CASE row[p].status # "creating_invoice"
          <6>1. row[p].invoice \/ row[p].status = "creation_failed"
            BY <1>1, <5>3 DEF Asked
          <6>2. /\ UpdateInvoiceCreationFailed(row[p]).status = row[p].status
                /\ UpdateInvoiceCreationFailed(row[p]).page = row[p].page
            BY <1>1, <6>1 DEF UpdateInvoiceCreationFailed, Rows
          <6>3. UNCHANGED [q \in Payments |-> SeenOf(q)]
            BY <2>1, <4>2, <5>1, <6>2 DEF Life!Shows
          <6> QED
            BY <5>1, <5>3, <6>3
        <5> QED
          BY <5>2, <5>3
      <4> QED
        BY <4>1, <4>2
    <3>2. Life!Fail(p)
      BY <1>5, <3>1, InvoicedStays
      DEF MarkInvoiceCreationFailed, bankVars, Life!Fail, Life!Goes
    <3> QED
      BY <3>2 DEF Life!Next
  <2> QED
    BY <2>2, <2>3
<1>6. CASE StoreCreatedInvoice(p)
  <2>1. Life!Shows(p, UpdateCreatedInvoice(row[p]).status, UpdateCreatedInvoice(row[p]).page)
    BY <1>1, <1>6, SeenUpdate DEF StoreCreatedInvoice
  <2>2. /\ UpdateCreatedInvoice(row[p]).status = "invoice_created"
        /\ UpdateCreatedInvoice(row[p]).page = TRUE
    BY <1>1 DEF UpdateCreatedInvoice, Rows
  <2>3. Life!Store(p)
    BY <1>6, <2>1, <2>2, InvoicedStays
    DEF StoreCreatedInvoice, bankVars, Life!Store, Life!Goes
  <2> QED
    BY <2>3 DEF Life!Next
<1>7. CASE CreateAborts(p)
  <2>1. Life!Abort(p)
    BY <1>7, SeenStays, InvoicedStays
    DEF CreateAborts, rowVars, bankVars, Life!Abort, Life!Goes
  <2> QED
    BY <2>1 DEF Life!Next
<1> QED
  BY <1>2, <1>3, <1>4, <1>5, <1>6, <1>7 DEF Request
\* Reports, cancellations and expiries change statuses, a deletion takes its row.
LEMMA LifeAdmin ==
  ASSUME LifeInv, NEW p \in Payments, Admin(p)
  PROVE  Life!Next \/ UNCHANGED Life!lifeVars
<1>1. /\ TypeOK /\ Asked /\ RowsAgree /\ row[p] \in Rows
  BY DEF LifeInv, Agreeing, Unpaid, TypeOK
<1>2. CASE MarkInvoiceCancelled(p)
  <2>1. UNCHANGED <<create, live, open, bank>>
    BY <1>2 DEF MarkInvoiceCancelled, bankVars
  <2>2. ASSUME NEW q \in Payments, row'[q] # row[q]
        PROVE  /\ q \in live /\ bank[q].status # Nil
               /\ row'[q].status \in Life!Reached(q \in open)
               /\ row'[q].page = row[q].page
    <3>1. q = p /\ p \in live /\ row[p].invoice /\ row'[p] = UpdateInvoiceCancelled(row[p])
      BY <1>1, <1>2, <2>2 DEF MarkInvoiceCancelled, Update, TypeOK
    <3>2. bank[p].status # Nil
      BY <1>1, <3>1 DEF Asked
    <3>3. row'[p].status = "cancelled" /\ row'[p].page = row[p].page
      BY <1>1, <3>1 DEF UpdateInvoiceCancelled, Rows
    <3> QED
      BY <3>1, <3>2, <3>3 DEF Life!Reached
  <2> QED
    BY <2>1, <2>2, LifeChanges DEF Life!Next
<1>3. CASE DeletePayment(p)
  <2>1. Deletable(row[p])
    BY <1>1, <1>3 DEF DeletePayment, RowsAgree
  <2>2. CASE p \in live
    <3>1. SeenOf(p).status \notin {"paid", "processing"}
      BY <2>1, <2>2 DEF Deletable, SeenOf
    <3>2. /\ SeenOf(p)' = Life!New
          /\ \A q \in Payments \ {p} : SeenOf(q)' = SeenOf(q)
      BY <1>1, <1>3 DEF DeletePayment, SeenOf, TypeOK, Life!New, PendingRow
    <3>3. Life!Delete(p)
      BY <1>3, <2>2, <3>1, <3>2, InvoicedStays DEF DeletePayment, bankVars, Life!Delete
    <3> QED
      BY <3>3 DEF Life!Next
  <2>3. CASE p \notin live
    <3>1. UNCHANGED <<live, create, open, bank>>
      BY <1>3, <2>3 DEF DeletePayment, bankVars
    <3>2. \A q \in Payments : SeenOf(q)' = SeenOf(q)
      BY <1>1, <1>3, <2>3 DEF DeletePayment, SeenOf, TypeOK
    <3> QED
      BY <3>1, <3>2, InvoicedStays DEF Life!lifeVars
  <2> QED
    BY <2>2, <2>3
<1>4. CASE RemoveInvoice(p)
  <2>1. \A q \in Payments : bank'[q].status # Nil <=> bank[q].status # Nil
    BY <1>1, <1>4 DEF RemoveInvoice, Becomes, TypeOK, Nil
  <2> QED
    BY <1>4, <2>1, SeenStays DEF RemoveInvoice, rowVars, Life!lifeVars
<1>5. CASE CancelAborts(p) \/ SelectForDelete(p) \/ RollbackDelete(p)
  <2>1. UNCHANGED <<live, row, create, open, bank>>
    BY <1>5 DEF CancelAborts, SelectForDelete, RollbackDelete, rowVars, bankVars
  <2> QED
    BY <2>1, SeenStays, InvoicedStays DEF Life!lifeVars
<1> QED
  BY <1>2, <1>3, <1>4, <1>5 DEF Admin

LEMMA LifeSync ==
  ASSUME LifeInv, NEW x \in inflight, Sync(x) \/ SyncAborts(x)
  PROVE  Life!Next \/ UNCHANGED Life!lifeVars
<1>1. /\ TypeOK /\ Asked /\ Unpaid
  BY DEF LifeInv, Unpaid
<1>2. CASE UpdatePaymentProviderState(x)
  <2>1. UNCHANGED <<create, live, open, bank>>
    BY <1>2 DEF UpdatePaymentProviderState, bankVars
  <2>2. ASSUME NEW q \in Payments, row'[q] # row[q]
        PROVE  /\ q \in live /\ bank[q].status # Nil
               /\ row'[q].status \in Life!Reached(q \in open) \cup {row[q].status}
               /\ row'[q].page = row[q].page
    <3>1. /\ q = x.report.payment /\ q \in live /\ row'[q] = Reported(row[q], x)
      BY <1>1, <1>2, <2>2 DEF UpdatePaymentProviderState, Matches, Update, TypeOK
    <3>2. NormalizeMonobankStatus(x.report.status) \in {Nil} \cup Life!Reached(q \in open)
      BY <1>1, <3>1, ReportedStatus
    <3>3. /\ row'[q].status = Coalesce(NormalizeMonobankStatus(x.report.status), row[q].status)
          /\ row'[q].page = row[q].page
      BY <3>1 DEF Reported
    <3>4. bank[q].status # Nil
      BY <1>1, <3>1 DEF Asked
    <3> QED
      BY <3>1, <3>2, <3>3, <3>4 DEF Coalesce
  <2> QED
    BY <2>1, <2>2, LifeChanges DEF Life!Next
<1>3. CASE \/ SelectLatestProviderState(x) \/ maybeGrantProductFeatures(x)
           \/ maybeSyncFiscalChecks(x) \/ SyncAborts(x)
  <2>1. UNCHANGED <<live, row, create, open, bank>>
    BY <1>3 DEF SelectLatestProviderState, maybeGrantProductFeatures,
                maybeSyncFiscalChecks, SyncAborts, rowVars, bankVars
  <2> QED
    BY <2>1, SeenStays, InvoicedStays DEF Life!lifeVars
<1> QED
  BY <1>2, <1>3 DEF Sync

\* The bank's invoices, the job and what no checkout sees.
LEMMA LifeStep ==
  ASSUME LifeInv, [Next]_vars
  PROVE  Life!Next \/ UNCHANGED Life!lifeVars
<1>1. TypeOK /\ Asked
  BY DEF LifeInv, Unpaid
<1>2. ASSUME NEW p \in Payments, BankCreates(p)
      PROVE  Life!Next
  <2>1. \A q \in Payments : bank'[q].status # Nil <=> q = p \/ bank[q].status # Nil
    BY <1>1, <1>2 DEF BankCreates, Becomes, TypeOK, Nil
  <2>2. Life!Invoice(p)
    BY <1>2, <2>1, SeenStays DEF BankCreates, rowVars, Life!Invoice
  <2> QED
    BY <2>2 DEF Life!Next
<1>3. ASSUME NEW p \in Payments, BankChanges(p)
      PROVE  UNCHANGED Life!lifeVars
  <2>1. PICK s \in BankMoves(bank[p].status, p \in open) : Becomes(p, s)
    BY <1>3 DEF BankChanges
  <2>2. bank[p].status # Nil /\ s # Nil
    BY <2>1 DEF BankMoves, Nil
  <2>3. \A q \in Payments : bank'[q].status # Nil <=> bank[q].status # Nil
    BY <1>1, <2>1, <2>2 DEF Becomes, TypeOK
  <2> QED
    BY <1>3, <2>3, SeenStays DEF BankChanges, rowVars, Life!lifeVars
<1>4. CASE ExpireStaleInvoices
  <2>1. PICK due \in SUBSET {p \in live \ locked : StaleInvoice(row[p])} :
          /\ row' = [p \in Payments |->
                       IF p \in due
                       THEN [row[p] EXCEPT !.status = "expired", !.provider = "expired"]
                       ELSE row[p]]
          /\ UNCHANGED <<create, live, open, bank>>
    BY <1>4 DEF ExpireStaleInvoices, bankVars
  <2>2. ASSUME NEW q \in Payments, row'[q] # row[q]
        PROVE  /\ q \in live /\ bank[q].status # Nil
               /\ row'[q].status \in Life!Reached(q \in open)
               /\ row'[q].page = row[q].page
    <3>1. q \in due
      BY <2>1, <2>2
    <3>2. q \in live /\ StaleInvoice(row[q]) /\ row[q] \in Rows
      BY <1>1, <3>1 DEF TypeOK
    <3>3. row'[q].status = "expired" /\ row'[q].page = row[q].page
      BY <2>1, <3>1, <3>2 DEF Rows
    <3>4. bank[q].status # Nil
      BY <1>1, <3>2 DEF StaleInvoice, Asked
    <3> QED
      BY <3>2, <3>3, <3>4 DEF Life!Reached
  <2> QED
    BY <2>1, <2>2, LifeChanges DEF Life!Next
<1>5. CASE \/ UNCHANGED vars
           \/ \E h \in Handlers : \/ \E r \in sent : Webhook(h, r)
                                  \/ \E p \in Payments : FetchInvoiceStatus(h, p)
  <2>1. UNCHANGED <<live, row, create, open, bank>>
    BY <1>5 DEF vars, Webhook, FetchInvoiceStatus, Begin, rowVars, bankVars
  <2> QED
    BY <2>1, SeenStays, InvoicedStays DEF Life!lifeVars
<1> QED
  BY <1>2, <1>3, <1>4, <1>5, LifeRequest, LifeAdmin, LifeSync DEF Next

\* Whatever reports, creation, expiry, cancellation and deletion do to the rows at
\* a time, every checkout sees the life that ExternalCheckout takes its changes
\* of a status from.
THEOREM RowsLiveALife ==
  ASSUME Identified
  PROVE  Spec => LifeKept
<1>1. Init => LifeInv /\ Life!Init
  BY LifeInit
<1>2. LifeInv /\ [Next]_vars => LifeInv'
  BY LifeInvStep
<1>3. LifeInv /\ [Next]_vars => [Life!Next]_(Life!lifeVars)
  BY LifeStep
<1> QED
  BY <1>1, <1>2, <1>3, PTL DEF Spec, LifeKept, Life!Spec

-----------------------------------------------------------------------------
(* AnsweredHasInvoice.  A report with both ids finds its row, if there is    *)
(* one, and brings it its invoice id, whether or not it says a status that   *)
(* is known; and nothing but the deletion of the row takes the id away.      *)

\* Each report carries the id of its invoice and the reference.
BothIds == Identifications \subseteq {"both"}

\* What a report has written of a row it has written with the invoice's id.
Attached(c) ==
  /\ c.provider \in ProviderStatuses \/ c.modified # 0 => c.invoice
  /\ c.provider \in ProviderStatuses =>
       c.status \notin {"creating_invoice", "creation_failed"}

\* A payment that was created, and has an invoice if it has a row.
HasInvoice(p) == create[p] # "none" /\ (p \in live => row[p].invoice)

Answered ==
  /\ \A p \in Payments : Attached(row[p]) /\ (bank[p].status # Nil => create[p] # "none")
  /\ \A r \in acked : HasInvoice(r.payment)
  /\ \A x \in inflight : x.pc \in {"grant", "fiscal"} => HasInvoice(x.report.payment)

AnswerInv == LifeInv /\ Answered

\* Each statement that writes something of an invoice keeps or brings its id.
LEMMA AttachedWrites ==
  ASSUME BothIds, LifeInv, NEW q \in Payments, Attached(row[q]), Writes(q)
  PROVE  Attached(row'[q]) /\ (row[q].invoice => row'[q].invoice \/ row'[q] = PendingRow)
<1>1. row[q] \in Rows /\ (row[q].page => row[q].invoice)
  BY DEF LifeInv, Unpaid, TypeOK, Asked
<1>2. CASE row'[q] = PendingRow
  BY <1>2 DEF Attached, PendingRow, ProviderStatuses, Nil
<1>3. CASE row'[q] = UpdateInvoiceCreationFailed(row[q])
  BY <1>1, <1>3 DEF Attached, UpdateInvoiceCreationFailed, Rows
<1>4. CASE row'[q] = UpdateCreatedInvoice(row[q])
  BY <1>1, <1>4 DEF Attached, UpdateCreatedInvoice, Rows
<1>5. CASE row[q].invoice /\ row'[q] = UpdateInvoiceCancelled(row[q])
  BY <1>1, <1>5 DEF Attached, UpdateInvoiceCancelled, Rows
<1>6. CASE /\ StaleInvoice(row[q])
           /\ row'[q] = [row[q] EXCEPT !.status = "expired", !.provider = "expired"]
  BY <1>1, <1>6 DEF Attached, StaleInvoice, Rows
<1>7. ASSUME NEW x \in inflight, row'[q] = Reported(row[q], x)
      PROVE  Attached(row'[q]) /\ row'[q].invoice
  <2>1. x.by = "both" /\ x.report.status \in ProviderStatuses \cup Unclear
    BY DEF LifeInv, Unpaid, TypeOK, Syncs, Bodies, BothIds
  <2>2. row'[q].invoice
    <3>1. Reported(row[q], x).invoice
      BY <1>1, <2>1 DEF Reported, Rows
    <3> QED
      BY <1>7, <3>1
  <2>3. CASE x.report.status \in ProviderStatuses
    <3>1. NormalizeMonobankStatus(x.report.status) \notin
            {Nil, "creating_invoice", "creation_failed"}
      BY <2>3 DEF NormalizeMonobankStatus, monobankStatusMap, ProviderStatuses, Nil
    <3>2. row'[q].status = NormalizeMonobankStatus(x.report.status)
      BY <1>7, <3>1 DEF Reported, Coalesce
    <3> QED
      BY <2>2, <3>1, <3>2 DEF Attached
  <2>4. CASE x.report.status \in Unclear
    <3>1. /\ row'[q].status = row[q].status
          /\ row'[q].provider = Coalesce(x.report.status, row[q].provider)
      BY <1>7, <2>4, UnclearMeansNothing DEF Reported, Coalesce
    <3>2. row'[q].provider \in ProviderStatuses => row[q].provider \in ProviderStatuses
      BY <2>4, <3>1, UnclearMeansNothing DEF Coalesce
    <3> QED
      BY <2>2, <3>1, <3>2 DEF Attached
  <2> QED
    BY <2>1, <2>2, <2>3, <2>4
<1> QED
  BY <1>2, <1>3, <1>4, <1>5, <1>6, <1>7 DEF Writes

\* Only the creation and a deletion leave a row without its invoice id.
LEMMA PendingWrite ==
  ASSUME TypeOK, NEW p \in Payments, p \in live', create[p] # "none", row[p].invoice
  PROVE  Writes(p) => row'[p] # PendingRow
<1>1. row[p] \in Rows
  BY DEF TypeOK
<1>2. UpdateInvoiceCreationFailed(row[p]).invoice
  BY <1>1 DEF UpdateInvoiceCreationFailed
<1>3. UpdateCreatedInvoice(row[p]).invoice /\ UpdateInvoiceCancelled(row[p]).invoice
  BY <1>1 DEF UpdateCreatedInvoice, UpdateInvoiceCancelled, Rows
<1>4. [row[p] EXCEPT !.status = "expired", !.provider = "expired"].invoice
  BY <1>1 DEF Rows
<1>5. \A x \in inflight : Reported(row[p], x).invoice
  BY <1>1 DEF Reported, Rows
<1>6. ~PendingRow.invoice
  BY DEF PendingRow
<1> QED
  BY <1>2, <1>3, <1>4, <1>5, <1>6 DEF Writes

\* A payment keeps the invoice it has.
LEMMA HasInvoiceStep ==
  ASSUME BothIds, AnswerInv, [Next]_vars, NEW p \in Payments, HasInvoice(p)
  PROVE  HasInvoice(p)'
<1>1. TypeOK /\ TypeOK' /\ Attached(row[p]) /\ create[p] # "none"
  BY TypeStep DEF AnswerInv, LifeInv, Unpaid, Answered, HasInvoice
<1>2. create'[p] # "none"
  BY <1>1, OpenStep
<1>3. ASSUME p \in live'
      PROVE  row'[p].invoice
  <2>1. p \in live /\ row[p].invoice
    BY <1>1, <1>3, LiveStep DEF HasInvoice
  <2>2. CASE row'[p] = PendingRow
    BY <1>1, <1>3, <2>1, <2>2, RowStep, PendingWrite
  <2>3. CASE row'[p] # PendingRow
    BY <1>1, <2>1, <2>3, RowStep, AttachedWrites DEF AnswerInv
  <2> QED
    BY <2>2, <2>3
<1> QED
  BY <1>2, <1>3 DEF HasInvoice

\* A report's UPDATE leaves the payment with an invoice.
LEMMA UpdateAttaches ==
  ASSUME BothIds, AnswerInv, NEW x \in inflight, UpdatePaymentProviderState(x)
  PROVE  HasInvoice(x.report.payment)'
<1> DEFINE p == x.report.payment
<1>1. TypeOK /\ p \in Payments /\ x.by = "both" /\ bank[p].status # Nil
  BY DEF AnswerInv, LifeInv, Unpaid, TypeOK, Asked, Syncs, Bodies, BothIds
<1>2. create'[p] # "none"
  BY <1>1 DEF UpdatePaymentProviderState, AnswerInv, Answered
<1>3. ASSUME p \in live'
      PROVE  row'[p].invoice
  <2>1. row'[p] = Reported(row[p], x)
    BY <1>1, <1>3 DEF UpdatePaymentProviderState, Matches, Update, TypeOK
  <2>2. Reported(row[p], x).invoice
    BY <1>1 DEF Reported, TypeOK, Rows
  <2> QED
    BY <2>1, <2>2
<1> QED
  BY <1>2, <1>3 DEF HasInvoice

\* Every step keeps what was answered.
LEMMA AnsweredStep ==
  ASSUME BothIds, AnswerInv, [Next]_vars
  PROVE  Answered'
<1>1. TypeOK /\ TypeOK' /\ Answered /\ LifeInv
  BY TypeStep DEF AnswerInv, LifeInv, Unpaid
<1>2. ASSUME NEW p \in Payments
      PROVE  Attached(row'[p]) /\ (bank'[p].status # Nil => create'[p] # "none")
  <2>1. Attached(row'[p])
    BY <1>1, RowStep, AttachedWrites DEF Answered
  <2>2. ASSUME NEW q \in Payments, NEW s \in ProviderStatuses, BankMove(q, s),
               bank'[p].status # Nil
        PROVE  create'[p] # "none"
    BY <1>1, <2>2 DEF BankMove, BankMoves, Becomes, TypeOK, Answered, Nil
  <2> QED
    BY <1>1, <2>1, <2>2, BankStep, OpenStep DEF Answered, bankVars
<1>3. ASSUME NEW r \in acked'
      PROVE  HasInvoice(r.payment)'
  <2>1. r.payment \in Payments
    BY <1>1 DEF TypeOK, Bodies
  <2>2. CASE r \in acked
    BY <1>1, <2>1, <2>2, HasInvoiceStep DEF Answered
  <2>3. CASE r \notin acked
    <3>1. PICK x \in inflight :
            /\ r = x.report
            /\ \/ SelectLatestProviderState(x) /\ Stale(x)
               \/ UpdatePaymentProviderState(x) /\ ~ReportsPaid(x)
               \/ maybeSyncFiscalChecks(x)
      BY <1>3, <2>3, AckedStep
    <3>2. CASE SelectLatestProviderState(x) /\ Stale(x)
      <4>1. r.modified < row[r.payment].modified /\ r.modified \in Nat
        BY <1>1, <3>1, <3>2 DEF Stale, TypeOK, Syncs, Bodies
      <4>2. bank[r.payment].status # Nil /\ row[r.payment].modified \in Nat
        BY <1>1, <2>1, <3>1 DEF LifeInv, Asked, TypeOK, Rows
      <4>3. HasInvoice(r.payment)
        BY <1>1, <2>1, <4>1, <4>2 DEF Answered, Attached, HasInvoice
      <4> QED
        BY <2>1, <4>3, HasInvoiceStep
    <3>3. CASE UpdatePaymentProviderState(x)
      BY <3>1, <3>3, UpdateAttaches
    <3>4. CASE maybeSyncFiscalChecks(x)
      <4>1. HasInvoice(r.payment)
        BY <1>1, <3>1, <3>4 DEF maybeSyncFiscalChecks, Answered
      <4> QED
        BY <2>1, <4>1, HasInvoiceStep
    <3> QED
      BY <3>1, <3>2, <3>3, <3>4
  <2> QED
    BY <2>2, <2>3
<1>4. ASSUME NEW y \in inflight', y.pc \in {"grant", "fiscal"}
      PROVE  HasInvoice(y.report.payment)'
  <2>1. y.report.payment \in Payments
    BY <1>1 DEF TypeOK, Syncs, Bodies
  <2>2. CASE y \in inflight
    BY <1>1, <1>4, <2>1, <2>2, HasInvoiceStep DEF Answered
  <2>3. CASE y \notin inflight
    <3>1. PICK x \in inflight :
            /\ x.report = y.report
            /\ UpdatePaymentProviderState(x) \/ x.pc = "grant"
      BY <1>1, <1>4, <2>3, CallsStep DEF Called
    <3>2. CASE UpdatePaymentProviderState(x)
      BY <3>1, <3>2, UpdateAttaches
    <3>3. CASE x.pc = "grant"
      BY <1>1, <2>1, <3>1, <3>3, HasInvoiceStep DEF Answered
    <3> QED
      BY <3>1, <3>2, <3>3
  <2> QED
    BY <2>2, <2>3
<1> QED
  BY <1>2, <1>3, <1>4 DEF Answered

\* Where every report carries both ids, a payment of which one was answered with 200
\* has its invoice, and a status of one once a known status was reported: whatever
\* its creation, another report or an admin did meanwhile.
THEOREM AnsweredReportsLeaveAnInvoice ==
  ASSUME BothIds
  PROVE  Spec => []AnsweredHasInvoice
<1>1. Identified
  BY DEF BothIds, Identified
<1>2. Init => AnswerInv
  <2>1. Init => Answered
    BY DEF Init, Answered, Attached, PendingRow, ProviderStatuses, Nil
  <2> QED
    BY <2>1, LifeInit DEF AnswerInv
<1>3. AnswerInv /\ [Next]_vars => AnswerInv'
  BY <1>1, LifeInvStep, AnsweredStep DEF AnswerInv
<1>4. AnswerInv => AnsweredHasInvoice
  BY DEF AnswerInv, LifeInv, Unpaid, TypeOK, Bodies, Answered, HasInvoice, Attached,
         AnsweredHasInvoice
<1> QED
  BY <1>2, <1>3, <1>4, PTL DEF Spec
=============================================================================
