------------------------ MODULE PaymentsLedgerProofs ------------------------
(***************************************************************************)
(* Proofs about the order of reports: the newest wins, a paid row stays    *)
(* paid, and the rows of Payments implement PaymentLedger, for any number  *)
(* of payments, of calls that synchronise them, of requests that create,   *)
(* cancel and delete them, of repeated and reordered reports and of        *)
(* faults; but for the statements of overtaken calls (PaymentsRaces).      *)
(* Where one report is synchronised at a time no call is overtaken, and    *)
(* the same holds without exception (Serial).                              *)
(*                                                                         *)
(* The argument is about time.  The bank's changes of an invoice have      *)
(* increasing times, and after a success only a reversal follows.  A row   *)
(* that is paid has the time of the success it was reported with, a call   *)
(* that goes on to write and was not overtaken has a report that is no     *)
(* older than the row, and so writes a success or a reversal again.        *)
(***************************************************************************)
EXTENDS PaymentsProofs, PaymentsRaces

\* Reports that carry both ids, a status that is known and a time of their own.
FullReports ==
  Identifications = {"both"} /\ Unclear = {} /\ ~OmitStamp /\ ~SameSecond

\* One call at a time, with such reports.
Serial == (\A h, k \in Handlers : h = k) /\ FullReports

-----------------------------------------------------------------------------
(* The bank's history.                                                       *)

\* Each change at the bank was reported, with the time it has.
Timed ==
  /\ \A p \in Payments :
       IF bank[p].status = Nil THEN bank[p].modified = 0
       ELSE Latest(p) \in sent /\ create[p] # "none"
  /\ \A r \in sent :
       /\ 1 <= r.modified /\ r.modified <= bank[r.payment].modified
       /\ r.status # "refunded"

\* What follows a success is a reversal, and nothing follows that.
Ordered ==
  \A r, s \in sent : r.payment = s.payment =>
    /\ r.modified = s.modified => r = s
    /\ r.modified < s.modified => /\ r.status # "reversed"
                                  /\ r.status = "success" => s.status = "reversed"

\* An invoice an admin removed stays removed.
Removed == \A p \in cancel : bank[p].status = "cancelled"

History == TypeOK /\ Timed /\ Ordered /\ Removed

\* At first the bank has no invoices.
LEMMA HistoryInit == Init => History
BY TypeInit DEF Init, History, Timed, Ordered, Removed

\* Every step keeps the history of the bank one.
LEMMA HistoryStep ==
  ASSUME FullReports, History, [Next]_vars
  PROVE  History'
<1>1. TypeOK /\ TypeOK' /\ Timed /\ Ordered /\ Removed
  BY TypeStep DEF History
<1>2. \A p \in Payments : create[p] # "none" => create'[p] # "none"
  BY <1>1, OpenStep
<1>3. CASE UNCHANGED bankVars /\ cancel' \subseteq cancel
  BY <1>1, <1>2, <1>3 DEF bankVars, History, Timed, Ordered, Removed, Latest
<1>4. ASSUME NEW p \in Payments, NEW s \in ProviderStatuses, BankMove(p, s)
      PROVE  History'
  <2> DEFINE n == bank[p].modified + 1
             new == [payment |-> p, status |-> s, modified |-> n]
  <2>1. /\ bank[p].modified \in Nat
        /\ \A r \in sent : r.modified \in Nat /\ r.payment \in Payments
    BY <1>1 DEF TypeOK, Invoices, Reports
  <2>2. /\ bank' = [bank EXCEPT ![p] = [status |-> s, modified |-> n]]
        /\ sent' = sent \cup {new} /\ UNCHANGED create
    BY <1>4 DEF BankMove, Becomes, FullReports
  <2>3. /\ bank'[p].status = s /\ bank'[p].modified = n
        /\ \A q \in Payments \ {p} : bank'[q] = bank[q]
    BY <1>1, <2>2 DEF TypeOK
  <2>4. s # "refunded" /\ bank[p].status \notin {"reversed", "cancelled"}
    BY <1>4 DEF BankMove, BankMoves, Nil
  <2>5. \A r \in sent : r.payment = p =>
          /\ r.modified <= bank[p].modified
          /\ r.modified = bank[p].modified => r.status = bank[p].status
          /\ r.status = "success" => bank[p].status = "success"
          /\ r.status # "reversed"
    <3> SUFFICES ASSUME NEW r \in sent, r.payment = p
                 PROVE  /\ r.modified <= bank[p].modified
                        /\ r.modified = bank[p].modified => r.status = bank[p].status
                        /\ r.status = "success" => bank[p].status = "success"
                        /\ r.status # "reversed"
      OBVIOUS
    <3>1. r.modified <= bank[p].modified /\ 1 <= r.modified
      BY <1>1 DEF Timed
    <3>2. Latest(p) \in sent
      BY <1>1, <2>1, <3>1 DEF Timed
    <3>3. /\ Latest(p).payment = p /\ Latest(p).status = bank[p].status
          /\ Latest(p).modified = bank[p].modified
      BY DEF Latest
    <3>4. r.modified = bank[p].modified => r.status = bank[p].status
      BY <1>1, <3>2, <3>3 DEF Ordered
    <3>5. r.modified < bank[p].modified =>
            r.status # "reversed" /\ r.status # "success"
      BY <1>1, <2>4, <3>2, <3>3 DEF Ordered
    <3> QED
      BY <2>1, <2>4, <3>1, <3>4, <3>5
  <2>6. bank[p].status = "success" => s = "reversed"
    BY <1>4 DEF BankMove, BankMoves, Nil
  <2>7. s # Nil /\ create[p] # "none"
    <3>1. bank[p].status # Nil => create[p] # "none"
      BY <1>1 DEF Timed
    <3> QED
      BY <1>4, <3>1 DEF BankMove, BankMoves, ProviderStatuses, Nil
  <2>8. Timed'
    <3>1. ASSUME NEW q \in Payments, bank'[q].status # Nil
          PROVE  Latest(q)' \in sent' /\ create'[q] # "none"
      BY <1>1, <2>2, <2>3, <2>7, <3>1 DEF Timed, Latest
    <3>2. ASSUME NEW q \in Payments, bank'[q].status = Nil
          PROVE  bank'[q].modified = 0
      BY <1>1, <2>3, <2>7, <3>2 DEF Timed
    <3>3. ASSUME NEW r \in sent'
          PROVE  /\ 1 <= r.modified /\ r.modified <= bank'[r.payment].modified
                 /\ r.status # "refunded"
      <4>1. CASE r \in sent
        BY <1>1, <2>1, <2>3, <2>5, <4>1 DEF Timed
      <4>2. CASE r = new
        BY <2>1, <2>3, <2>4, <4>2
      <4> QED
        BY <2>2, <3>3, <4>1, <4>2
    <3> QED
      BY <3>1, <3>2, <3>3 DEF Timed
  <2>9. Ordered'
    <3> SUFFICES ASSUME NEW r \in sent', NEW t \in sent', r.payment = t.payment
                 PROVE  /\ r.modified = t.modified => r = t
                        /\ r.modified < t.modified =>
                             /\ r.status # "reversed"
                             /\ r.status = "success" => t.status = "reversed"
      BY DEF Ordered
    <3>1. CASE r \in sent /\ t \in sent
      BY <1>1, <3>1 DEF Ordered
    <3>2. CASE r \in sent /\ t = new
      BY <2>1, <2>5, <2>6, <3>2
    <3>3. CASE r = new /\ t \in sent
      BY <2>1, <2>5, <3>3
    <3> QED
      BY <2>1, <2>2, <3>1, <3>2, <3>3
  <2>10. Removed'
    BY <1>1, <1>4, <2>3, <2>4 DEF Removed, BankMove, BankMoves, TypeOK
  <2> QED
    BY <1>1, <2>8, <2>9, <2>10 DEF History
<1> QED
  BY <1>1, <1>3, <1>4, BankStep
-----------------------------------------------------------------------------
(* The calls and the rows.                                                   *)

\* The calls under way have a handler each, and their reports are the bank's.
Calls ==
  /\ \A x, y \in inflight : x.handler = y.handler => x = y
  /\ \A x \in inflight : x.report \in sent /\ x.stamped /\ x.by = "both"

\* A call's report is no older than the row it was found to be fresh for, and the
\* row is paid once the call has made it so.
Follows(x) ==
  x.report.payment \in live =>
    /\ x.pc = "update" => row[x.report.payment].modified <= x.report.modified
    /\ x.pc = "grant" => row[x.report.payment].status = "paid"

\* A row has the columns of an invoice only with its invoice id, and the time of
\* the report that made it paid or reversed.
Recorded ==
  \A p \in Payments :
    /\ p \in live => create[p] # "none"
    /\ row[p].provider # Nil \/ row[p].page => row[p].invoice
    /\ row[p].provider # "refunded"
    /\ row[p].provider \in {"success", "reversed"} =>
         [payment |-> p, status |-> row[p].provider, modified |-> row[p].modified] \in sent

LInv == Unclear = {} /\ Real /\ Agreeing /\ Unpaid /\ History /\ Calls /\ Recorded

\* A row's status in words of the provider.
LEMMA StatusOf ==
  ASSUME Unclear = {}, NEW c, Agreed(c)
  PROVE  /\ c.status = "paid" => c.provider = "success"
         /\ c.status = "reversed" => c.provider \in {"reversed", "refunded"}
BY DEF Agreed, NormalizeMonobankStatus, monobankStatusMap, ProviderStatuses, Nil

\* What a row shows as paid or reversed the bank has collected, and holds or has
\* returned.
LEMMA RowIsReported ==
  ASSUME LInv, NEW p \in Payments, row[p].status \in {"paid", "reversed"}
  PROVE  /\ row[p].status = "paid" => row[p].provider = "success"
         /\ row[p].status = "reversed" => row[p].provider = "reversed"
         /\ [payment |-> p, status |-> row[p].provider, modified |-> row[p].modified]
              \in sent
         /\ Collected(p)
<1>1. Agreed(row[p]) /\ row[p].provider # "refunded"
  BY DEF LInv, Agreeing, RowsAgree, Recorded
<1>2. /\ row[p].status = "paid" => row[p].provider = "success"
      /\ row[p].status = "reversed" => row[p].provider = "reversed"
  BY <1>1, StatusOf DEF LInv
<1> DEFINE r == [payment |-> p, status |-> row[p].provider, modified |-> row[p].modified]
<1>3. r \in sent
  BY <1>2 DEF LInv, Recorded
<1>4. Collected(p)
  <2>1. CASE row[p].status = "paid"
    BY <1>2, <1>3, <2>1 DEF LInv, Real, ReportsReal
  <2>2. CASE row[p].status = "reversed"
    <3>1. /\ r.payment = p /\ r.status = "reversed" /\ r.modified \in Nat
          /\ 1 <= r.modified /\ r.modified <= bank[p].modified
          /\ bank[p].modified \in Nat
      BY <1>2, <1>3, <2>2 DEF LInv, History, Timed, TypeOK, Invoices, Reports
    <3>2. Latest(p) \in sent
      BY <3>1 DEF LInv, History, Timed
    <3>3. r = Latest(p)
      BY <1>3, <3>1, <3>2 DEF LInv, History, Ordered, Latest
    <3> QED
      BY <3>1, <3>3 DEF Latest, Collected
  <2> QED
    BY <2>1, <2>2
<1> QED
  BY <1>2, <1>3, <1>4

\* What a call writes over a row that is paid or reversed.
LEMMA NewerReport ==
  ASSUME LInv, NEW x \in inflight, Follows(x), x.pc = "update",
         x.report.payment \in live
  PROVE  LET p == x.report.payment
         IN  /\ row[p].status = "paid" => x.report.status \in {"success", "reversed"}
             /\ row[p].status = "reversed" => x.report.status = "reversed"
<1> DEFINE p == x.report.payment
           r == [payment |-> p, status |-> row[p].provider, modified |-> row[p].modified]
<1> SUFFICES ASSUME row[p].status \in {"paid", "reversed"}
             PROVE  /\ row[p].status = "paid" => x.report.status \in {"success", "reversed"}
                    /\ row[p].status = "reversed" => x.report.status = "reversed"
  OBVIOUS
<1>1. p \in Payments /\ row[p].modified <= x.report.modified /\ x.report \in sent
  BY DEF LInv, Calls, Follows, History, TypeOK, Syncs, Bodies
<1>2. /\ r \in sent
      /\ row[p].status = "paid" => r.status = "success"
      /\ row[p].status = "reversed" => r.status = "reversed"
  BY <1>1, RowIsReported
<1>3. /\ r.payment = x.report.payment /\ r.modified <= x.report.modified
      /\ r.modified \in Nat /\ x.report.modified \in Nat
  BY <1>1, <1>2 DEF LInv, History, TypeOK, Reports
<1>4. CASE r.modified = x.report.modified
  BY <1>1, <1>2, <1>3, <1>4 DEF LInv, History, Ordered
<1>5. CASE r.modified < x.report.modified
  BY <1>1, <1>2, <1>3, <1>5 DEF LInv, History, Ordered
<1> QED
  BY <1>3, <1>4, <1>5

\* Whoever else writes a row, it is not one that is paid or reversed.
LEMMA OthersSpare ==
  ASSUME LInv, NEW p \in Payments, p \in live \/ create[p] # "none",
         \/ create[p] = "storing"
         \/ p \in cancel
         \/ StaleInvoice(row[p])
         \/ create[p] = "none" \/ ~row[p].invoice
  PROVE  row[p].status \notin {"paid", "reversed"}
<1> SUFFICES ASSUME row[p].status \in {"paid", "reversed"}
             PROVE  FALSE
  OBVIOUS
<1>1. Collected(p) /\ row[p].provider # Nil
  BY RowIsReported DEF Nil
<1>2. p \in open
  BY <1>1 DEF LInv, Unpaid, Unopened, Collected, Quiet, Nil
<1>3. create[p] = "done"
  BY <1>2 DEF LInv, Unpaid, Unopened
<1>4. p \notin cancel
  BY <1>1 DEF LInv, History, Removed, Collected
<1>5. row[p].invoice
  BY <1>1 DEF LInv, Recorded
<1>6. ~StaleInvoice(row[p])
  BY DEF StaleInvoice, PendingStatuses
<1> QED
  BY <1>3, <1>4, <1>5, <1>6

\* A call that has written a success leaves a row that is paid, if there is one.
LEMMA GrantStep ==
  ASSUME LInv, NEW x \in inflight, UpdatePaymentProviderState(x),
         NEW y \in inflight' \ inflight, x.report = y.report, x.report.payment \in live
  PROVE  row'[x.report.payment].status = "paid"
<1> DEFINE p == x.report.payment
<1>1. TypeOK /\ p \in Payments /\ x.by = "both"
  BY DEF LInv, Real, Calls, TypeOK
<1>2. Matches(x)
  BY <1>1 DEF Matches
<1>3. row'[p] = Reported(row[p], x)
  BY <1>1, <1>2 DEF UpdatePaymentProviderState, Update, TypeOK
<1>4. ReportsPaid(x)
  BY DEF UpdatePaymentProviderState, Finish
<1> QED
  BY <1>3, <1>4 DEF ReportsPaid, Reported, Coalesce, Nil

\* A report stands for a payment that was created.
LEMMA ReportedIsCreated ==
  ASSUME History, NEW r \in sent
  PROVE  r.payment \in Payments /\ create[r.payment] # "none"
<1>1. /\ r.payment \in Payments /\ r.modified \in Nat
      /\ 1 <= r.modified /\ r.modified <= bank[r.payment].modified
  BY DEF History, TypeOK, Reports, Timed
<1>2. bank[r.payment].status # Nil
  BY <1>1 DEF History, Timed
<1> QED
  BY <1>1, <1>2 DEF History, Timed

\* The bank takes back no report.
LEMMA SentStep ==
  ASSUME TypeOK, [Next]_vars
  PROVE  sent \subseteq sent'
BY BankStep DEF bankVars, BankMove, Becomes

\* Every step keeps the rows recorded.
LEMMA RecordedStep ==
  ASSUME LInv, [Next]_vars
  PROVE  Recorded'
<1>1. TypeOK /\ TypeOK' /\ sent \subseteq sent' /\ Recorded
  BY TypeStep, SentStep DEF LInv, Real
<1>2. ASSUME NEW p \in Payments, p \in live'
      PROVE  create'[p] # "none"
  BY <1>1, <1>2, LiveStep, OpenStep DEF Recorded
<1>3. ASSUME NEW p \in Payments
      PROVE  /\ row'[p].provider # Nil \/ row'[p].page => row'[p].invoice
             /\ row'[p].provider # "refunded"
             /\ row'[p].provider \in {"success", "reversed"} =>
                  [payment |-> p, status |-> row'[p].provider,
                   modified |-> row'[p].modified] \in sent'
  <2>1. CASE row'[p] = row[p]
    BY <1>1, <2>1 DEF Recorded
  <2>2. row[p] \in Rows
    BY <1>1 DEF TypeOK
  <2>3. CASE row'[p] = PendingRow
    BY <2>3 DEF PendingRow, Nil
  <2>4. CASE row'[p] = UpdateInvoiceCreationFailed(row[p])
    <3>1. /\ row'[p].provider = row[p].provider /\ row'[p].page = row[p].page
          /\ row'[p].invoice = row[p].invoice /\ row'[p].modified = row[p].modified
      BY <2>2, <2>4 DEF UpdateInvoiceCreationFailed, Rows
    <3> QED
      BY <1>1, <3>1 DEF Recorded
  <2>5. CASE row'[p] = UpdateCreatedInvoice(row[p])
    BY <2>2, <2>5 DEF UpdateCreatedInvoice, Rows
  <2>6. CASE row[p].invoice /\ row'[p] = UpdateInvoiceCancelled(row[p])
    BY <2>2, <2>6 DEF UpdateInvoiceCancelled, Rows
  <2>7. CASE /\ StaleInvoice(row[p])
             /\ row'[p] = [row[p] EXCEPT !.status = "expired", !.provider = "expired"]
    BY <1>1, <2>2, <2>7 DEF StaleInvoice, Rows, Recorded
  <2>8. ASSUME NEW x \in inflight, x.report.payment = p, row'[p] = Reported(row[p], x)
        PROVE  /\ row'[p].provider # Nil \/ row'[p].page => row'[p].invoice
               /\ row'[p].provider # "refunded"
               /\ row'[p].provider \in {"success", "reversed"} =>
                    [payment |-> p, status |-> row'[p].provider,
                     modified |-> row'[p].modified] \in sent'
    <3>1. x.report \in sent /\ x.stamped /\ x.by = "both"
      BY DEF LInv, Calls
    <3>2. x.report \in Reports /\ x.report.status # "refunded"
      BY <1>1, <3>1 DEF TypeOK, LInv, History, Timed
    <3>3. x.report = [payment |-> p, status |-> x.report.status,
                      modified |-> x.report.modified]
      BY <2>8, <3>2 DEF Reports
    <3>4. /\ row'[p].provider = x.report.status
          /\ row'[p].modified = x.report.modified
      BY <2>8, <3>1, <3>2 DEF Reported, Coalesce, Reports, ProviderStatuses, Nil
    <3>5. Reported(row[p], x).invoice
      BY <2>2, <3>1 DEF Reported, Rows
    <3>6. row'[p].invoice
      BY <2>8, <3>5
    <3> QED
      BY <1>1, <3>1, <3>2, <3>3, <3>4, <3>6
  <2> QED
    BY <1>1, <2>1, <2>3, <2>4, <2>5, <2>6, <2>7, <2>8, RowStep DEF Writes
<1> QED
  BY <1>2, <1>3 DEF Recorded

\* Every step keeps the calls apart, with reports of the bank.
LEMMA CallsKept ==
  ASSUME FullReports, LInv, [Next]_vars
  PROVE  Calls'
<1>1. TypeOK /\ TypeOK' /\ sent \subseteq sent' /\ Calls /\ History
  BY TypeStep, SentStep DEF LInv, Real
<1>2. ASSUME NEW y \in inflight', NEW z \in inflight', y.handler = z.handler, y \notin inflight
      PROVE  y = z
  BY <1>1, <1>2, CallsStep DEF Called, Calls
<1>3. \A y, z \in inflight' : y.handler = z.handler => y = z
  BY <1>1, <1>2 DEF Calls
<1>4. ASSUME NEW y \in inflight'
      PROVE  y.report \in sent' /\ y.stamped /\ y.by = "both"
  <2>1. Called(y) /\ y.by = "both"
    BY <1>1, CallsStep DEF TypeOK, Syncs, FullReports
  <2>3. ASSUME NEW r \in Reports, y.report \in BodiesOf(r), r \in sent \cup {Latest(r.payment)}
        PROVE  y.report \in sent
    <3>1. y.report = r /\ r.payment \in Payments /\ r.status # Nil
      BY <2>3, BodyOf DEF FullReports, Reports, ProviderStatuses, Nil
    <3>2. Latest(r.payment).status = bank[r.payment].status
      BY DEF Latest
    <3> QED
      BY <1>1, <2>3, <3>1, <3>2 DEF History, Timed
  <2> QED
    BY <1>1, <2>1, <2>3 DEF Called, Calls, FullReports
<1> QED
  BY <1>3, <1>4 DEF Calls

\* The invariant holds at first.
LEMMA LInvInit ==
  ASSUME FullReports
  PROVE  Init => LInv
BY RealInit, AgreeingInit, UnpaidInit, HistoryInit
   DEF FullReports, Init, LInv, Calls, Recorded, PendingRow, Nil

\* Every step keeps it, with any number of calls.
LEMMA LInvStep ==
  ASSUME FullReports, LInv, [Next]_vars
  PROVE  LInv'
BY RealStep, AgreeingStep, UnpaidStep, HistoryStep, CallsKept, RecordedStep DEF LInv

-----------------------------------------------------------------------------
(* The time of a row and of the reports that are written to it.              *)

\* Each report names its payment by the reference, or by both ids.
Referenced == "invoice" \notin Identifications

\* A row that is live has been created.
Created == \A p \in live : create[p] # "none"

\* The report of a call that goes on to its UPDATE is no older than the row.
Newer(x) ==
  x.stamped /\ x.pc = "update" /\ x.report.payment \in live =>
    row[x.report.payment].modified <= x.report.modified

\* Every step keeps the rows created.
LEMMA CreatedStep ==
  ASSUME TypeOK, Created, [Next]_vars
  PROVE  Created'
BY LiveStep, OpenStep DEF Created, TypeOK

\* Only reports bring a time to a row.
LEMMA TimeStep ==
  ASSUME TypeOK, Created, [Next]_vars, NEW p \in Payments
  PROVE  \/ row'[p].modified = row[p].modified
         \/ row'[p].modified = 0 /\ (p \in live => p \notin live')
         \/ \E x \in inflight :
              /\ UpdatePaymentProviderState(x) /\ x.pc = "update"
              /\ x.report.payment = p /\ row'[p] = Reported(row[p], x)
<1>1. row[p] \in Rows
  BY DEF TypeOK
<1>2. /\ UpdateInvoiceCreationFailed(row[p]).modified = row[p].modified
      /\ UpdateCreatedInvoice(row[p]).modified = row[p].modified
      /\ UpdateInvoiceCancelled(row[p]).modified = row[p].modified
      /\ [row[p] EXCEPT !.status = "expired", !.provider = "expired"].modified
           = row[p].modified
  BY <1>1 DEF UpdateInvoiceCreationFailed, UpdateCreatedInvoice, UpdateInvoiceCancelled, Rows
<1>3. PendingRow.modified = 0
  BY DEF PendingRow
<1> QED
  BY <1>2, <1>3, RowStep DEF Writes, Created

\* The UPDATE of a report ends the call, or takes it on to its grant.
LEMMA UpdateLeaves ==
  ASSUME TypeOK, NEW x \in inflight, UpdatePaymentProviderState(x)
  PROVE  x \notin inflight'
<1>1. x.pc = "update" /\ [x EXCEPT !.pc = "grant"].pc = "grant"
  BY DEF UpdatePaymentProviderState, TypeOK, Syncs
<1> QED
  BY <1>1 DEF UpdatePaymentProviderState, Finish, Step

\* A call stays newer than the row unless another report is written to it.
LEMMA NewerStep ==
  ASSUME Referenced, TypeOK, Created, [Next]_vars, NEW y \in inflight',
         y \in inflight => Newer(y) /\ ~Overwrites(y.report.payment)
  PROVE  Newer(y)'
<1> DEFINE p == y.report.payment
<1> SUFFICES ASSUME y.stamped, y.pc = "update", p \in live'
             PROVE  row'[p].modified <= y.report.modified
  BY DEF Newer
<1>1. TypeOK' /\ p \in Payments /\ y.report.modified \in Nat
  BY TypeStep DEF TypeOK, Syncs, Bodies
<1>2. row[p].modified \in Nat /\ row'[p].modified \in Nat
  BY <1>1 DEF TypeOK, Rows
<1>3. CASE y \in inflight
  <2>1. CASE row'[p] = row[p] /\ p \in live
    BY <1>3, <2>1 DEF Newer
  <2>2. CASE row'[p].modified = 0
    BY <1>1, <2>2
  <2>3. CASE row'[p] # row[p]
    <3>1. ASSUME NEW x \in inflight, UpdatePaymentProviderState(x), x.pc = "update",
                 x.report.payment = p
          PROVE  FALSE
      BY <1>1, <1>3, <2>3, <3>1, UpdateLeaves DEF Overwrites
    <3>2. p \in live \/ row'[p].modified = 0
      BY LiveStep DEF PendingRow
    <3>3. row'[p].modified \in {row[p].modified, 0}
      BY <1>1, <3>1, TimeStep
    <3> QED
      BY <1>1, <1>3, <3>2, <3>3 DEF Newer
  <2> QED
    BY <2>1, <2>2, <2>3, LiveStep DEF PendingRow
<1>4. CASE y \notin inflight
  <2>1. PICK x \in inflight :
          /\ x.report = y.report /\ x.by = y.by /\ x.stamped = y.stamped
          /\ ~Stale(x) /\ UNCHANGED rowVars
    BY <1>4, CallsStep DEF Called
  <2>2. x.by # "invoice" /\ p \in live
    BY <2>1 DEF TypeOK, Syncs, Referenced, rowVars
  <2>3. ~(y.report.modified < row[p].modified)
    BY <2>1, <2>2 DEF Stale, Matches
  <2> QED
    BY <1>1, <1>2, <2>1, <2>3 DEF rowVars
<1> QED
  BY <1>3, <1>4

\* A row's time goes back only by the UPDATE of a call that is not newer.
LEMMA ModifiedStep ==
  ASSUME TypeOK, Created, [Next]_vars, NEW p \in live, p \in live',
         \A x \in inflight :
           UpdatePaymentProviderState(x) /\ x.report.payment = p => Newer(x)
  PROVE  row'[p].modified >= row[p].modified
<1>1. /\ p \in Payments /\ row[p].modified \in Nat
      /\ \A x \in inflight : x.report.modified \in Nat
  BY DEF TypeOK, Rows, Syncs, Bodies
<1>2. ASSUME NEW x \in inflight, x.report.payment = p, x.pc = "update",
             UpdatePaymentProviderState(x), row'[p] = Reported(row[p], x)
      PROVE  row'[p].modified >= row[p].modified
  <2>1. row'[p].modified = IF x.stamped THEN x.report.modified ELSE row[p].modified
    BY <1>2 DEF Reported
  <2>2. x.stamped => row[p].modified <= x.report.modified
    BY <1>2 DEF Newer
  <2> QED
    BY <1>1, <2>1, <2>2
<1> QED
  BY <1>1, <1>2, TimeStep

-----------------------------------------------------------------------------
(* The status of a row and the calls that write it.                          *)

\* While a call goes on and no other report is written, the row stays no newer than
\* its report, and paid once the call has made it so.
LEMMA FollowsStep ==
  ASSUME FullReports, LInv, [Next]_vars, NEW y \in inflight',
         y \in inflight => Follows(y) /\ ~Overwrites(y.report.payment)
  PROVE  Follows(y)'
<1> DEFINE p == y.report.payment
<1>1. /\ TypeOK /\ TypeOK' /\ Created /\ Referenced /\ p \in Payments
      /\ \A x \in inflight : x.report \in sent
  BY TypeStep
  DEF LInv, Real, Recorded, Created, FullReports, Referenced, Calls, TypeOK, Syncs, Bodies
<1>2. y \in inflight => Newer(y) /\ ~Overwrites(p)
  BY DEF Follows, Newer
<1>3. y.pc = "update" /\ p \in live' => row'[p].modified <= y.report.modified
  <2>1. Newer(y)'
    BY <1>1, <1>2, NewerStep
  <2>2. y.stamped
    BY CallsKept DEF Calls
  <2> QED
    BY <2>1, <2>2 DEF Newer
<1>4. ASSUME NEW x \in inflight, x.report = y.report, p \in live'
      PROVE  p \in live
  BY <1>1, <1>4, ReportedIsCreated, LiveStep DEF LInv
<1>5. ASSUME y.pc = "grant", p \in live'
      PROVE  row'[p].status = "paid"
  <2>1. CASE y \in inflight
    <3>1. p \in live /\ row[p].status = "paid" /\ create[p] # "none" /\ row[p] \in Rows
      BY <1>1, <1>4, <1>5, <2>1 DEF Follows, Created, TypeOK
    <3>2. /\ create[p] # "storing" /\ p \notin cancel
          /\ ~StaleInvoice(row[p]) /\ row[p].invoice
      BY <1>1, <3>1, OthersSpare
    <3>3. UpdateInvoiceCreationFailed(row[p]) = row[p]
      BY <3>2 DEF UpdateInvoiceCreationFailed
    <3>4. ASSUME NEW x \in inflight, UpdatePaymentProviderState(x), x.pc = "update",
                 x.report.payment = p, row'[p] # row[p]
          PROVE  FALSE
      BY <1>1, <2>1, <3>4, UpdateLeaves DEF Overwrites
    <3>5. row'[p] = row[p]
      BY <1>1, <1>5, <3>1, <3>2, <3>3, <3>4, RowStep DEF Writes
    <3> QED
      BY <3>1, <3>5
  <2>2. CASE y \notin inflight
    <3>1. PICK x \in inflight : x.report = y.report /\ UpdatePaymentProviderState(x)
      BY <1>1, <1>5, <2>2, CallsStep DEF Called
    <3> QED
      BY <1>4, <1>5, <2>2, <3>1, GrantStep
  <2> QED
    BY <2>1, <2>2
<1> QED
  BY <1>3, <1>5 DEF Follows

\* A row that is paid or reversed is written by reports alone, and by those of a
\* success or of a reversal if their call follows the row.
LEMMA StatusStep ==
  ASSUME LInv, [Next]_vars, NEW p \in live, p \in live',
         \A x \in inflight :
           UpdatePaymentProviderState(x) /\ x.report.payment = p => Follows(x)
  PROVE  \/ row'[p].status = row[p].status
         \/ /\ row[p].status \notin {"paid", "reversed"}
            /\ row'[p].status \notin {"paid", "reversed"}
         \/ row'[p].status = "paid" /\ row[p].status # "reversed"
         \/ row'[p].status = "reversed"
<1>1. TypeOK /\ p \in Payments /\ create[p] # "none" /\ row[p] \in Rows
  BY DEF LInv, Real, TypeOK, Recorded
<1>2. /\ UpdateInvoiceCreationFailed(row[p]).status \in {"creation_failed", row[p].status}
      /\ UpdateCreatedInvoice(row[p]).status = "invoice_created"
      /\ UpdateInvoiceCancelled(row[p]).status = "cancelled"
      /\ [row[p] EXCEPT !.status = "expired", !.provider = "expired"].status = "expired"
      /\ row[p].invoice => UpdateInvoiceCreationFailed(row[p]) = row[p]
  BY <1>1 DEF UpdateInvoiceCreationFailed, UpdateCreatedInvoice, UpdateInvoiceCancelled, Rows
<1>3. ASSUME NEW x \in inflight, x.report.payment = p, x.pc = "update",
             UpdatePaymentProviderState(x), row'[p] = Reported(row[p], x)
      PROVE  /\ row[p].status = "paid" => row'[p].status \in {"paid", "reversed"}
             /\ row[p].status = "reversed" => row'[p].status = "reversed"
  <2>1. /\ row[p].status = "paid" => x.report.status \in {"success", "reversed"}
        /\ row[p].status = "reversed" => x.report.status = "reversed"
    BY <1>3, NewerReport
  <2>2. /\ NormalizeMonobankStatus("success") = "paid"
        /\ NormalizeMonobankStatus("reversed") = "reversed"
    BY DEF NormalizeMonobankStatus, monobankStatusMap, ProviderStatuses
  <2> QED
    BY <1>3, <2>1, <2>2 DEF Reported, Coalesce, Nil
<1>4. row[p].status \in {"paid", "reversed"} =>
        /\ create[p] # "storing" /\ p \notin cancel
        /\ ~StaleInvoice(row[p]) /\ row[p].invoice
  BY <1>1, OthersSpare
<1>5. CASE Writes(p)
  BY <1>1, <1>2, <1>3, <1>4, <1>5 DEF Writes
<1> QED
  BY <1>1, <1>5, RowStep

\* A paid row stays, unless a call that does not follow it writes it.
LEMMA PaidStep ==
  ASSUME LInv, [Next]_vars, NEW p \in live, row[p].status = "paid",
         \A x \in inflight :
           UpdatePaymentProviderState(x) /\ x.report.payment = p => Follows(x)
  PROVE  p \in live' /\ row'[p].status \in {"paid", "reversed"}
<1>1. p \in Payments /\ (p \in locked => Deletable(row[p]))
  BY DEF LInv, Agreeing, TypeOK, RowsAgree
<1>2. p \in live'
  BY <1>1, GoneStep DEF Deletable
<1> QED
  BY <1>2, StatusStep

-----------------------------------------------------------------------------
(* The order of reports, with any number of calls and with one.              *)

\* A call that makes no statement in a step and was not overtaken at its end was
\* not overtaken before it, and no other report was written.
LEMMA Unovertaken ==
  ASSUME TypeOK, [RaceNext]_raceVars, NEW y \in inflight, y \in inflight',
         y.handler \notin overtaken'
  PROVE  y.handler \notin overtaken /\ ~Overwrites(y.report.payment)
<1>1. y.handler \in Handlers
  BY DEF TypeOK, Syncs
<1>2. CASE RaceNext
  BY <1>1, <1>2 DEF RaceNext, Overtakes
<1>3. CASE UNCHANGED raceVars
  BY <1>3 DEF raceVars, vars, Overwrites
<1> QED
  BY <1>2, <1>3

\* A step of the history is one of Payments.
LEMMA RaceStep == [RaceNext]_raceVars => [Next]_vars
BY DEF RaceNext, raceVars

\* The calls that were not overtaken are newer than their rows.
NewestInv ==
  /\ TypeOK /\ Created
  /\ \A x \in inflight : x.handler \in overtaken \/ Newer(x)

\* provider_modified_at goes back only by the UPDATE of an overtaken call, whatever
\* times the reports have and whether they have one, provided that they carry the
\* reference.
THEOREM NewestLosesOnlyOvertaken ==
  ASSUME Referenced
  PROVE  RaceSpec => NewestUnlessOvertaken
<1>1. RaceInit => NewestInv
  BY TypeInit DEF RaceInit, Init, NewestInv, Created
<1>2. ASSUME NewestInv, [RaceNext]_raceVars
      PROVE  NewestInv'
  <2>1. TypeOK /\ Created /\ [Next]_vars /\ TypeOK' /\ Created'
    BY <1>2, RaceStep, TypeStep, CreatedStep DEF NewestInv
  <2>2. ASSUME NEW y \in inflight', y.handler \notin overtaken'
        PROVE  Newer(y)'
    BY <1>2, <2>1, <2>2, Unovertaken, NewerStep DEF NewestInv
  <2> QED
    BY <2>1, <2>2 DEF NewestInv
<1>3. ASSUME NewestInv, [RaceNext]_raceVars, NEW p \in live, p \in live',
             ~OvertakenUpdates(p)
      PROVE  row'[p].modified >= row[p].modified
  BY <1>3, RaceStep, ModifiedStep DEF NewestInv, OvertakenUpdates
<1>4. NewestInv /\ [RaceNext]_raceVars =>
        [\A p \in live \cap live' :
           row'[p].modified >= row[p].modified \/ OvertakenUpdates(p)]_raceVars
  BY <1>3
<1> QED
  BY <1>1, <1>2, <1>4, PTL DEF RaceSpec, NewestUnlessOvertaken

\* The calls that were not overtaken follow their rows.
RaceInv == LInv /\ \A x \in inflight : x.handler \in overtaken \/ Follows(x)

\* It holds at first, and every step keeps it.
LEMMA RaceInvInit ==
  ASSUME FullReports
  PROVE  RaceInit => RaceInv
BY LInvInit DEF RaceInit, Init, RaceInv

LEMMA RaceInvStep ==
  ASSUME FullReports, RaceInv, [RaceNext]_raceVars
  PROVE  RaceInv'
<1>1. TypeOK /\ LInv /\ [Next]_vars /\ LInv'
  BY RaceStep, LInvStep DEF RaceInv, LInv, Real
<1>2. ASSUME NEW y \in inflight', y.handler \notin overtaken'
      PROVE  Follows(y)'
  BY <1>1, <1>2, Unovertaken, FollowsStep DEF RaceInv
<1> QED
  BY <1>1, <1>2 DEF RaceInv

\* A paid row is lost to the UPDATE of an overtaken call only.
THEOREM PaidIsLostOnlyToOvertaken ==
  ASSUME FullReports
  PROVE  RaceSpec => PaidUnlessOvertaken
<1>0. RaceInit => RaceInv
  BY RaceInvInit
<1>1. RaceInv /\ [RaceNext]_raceVars => RaceInv'
  BY RaceInvStep
<1>2. ASSUME RaceInv, [RaceNext]_raceVars, NEW p \in live, row[p].status = "paid",
             ~OvertakenUpdates(p)
      PROVE  p \in live' /\ row'[p].status \in {"paid", "reversed"}
  BY <1>2, RaceStep, PaidStep DEF RaceInv, OvertakenUpdates
<1>3. RaceInv /\ [RaceNext]_raceVars =>
        [\A p \in live : row[p].status = "paid" =>
           \/ p \in live' /\ row'[p].status \in {"paid", "reversed"}
           \/ OvertakenUpdates(p)]_raceVars
  BY <1>2
<1> QED
  BY <1>0, <1>1, <1>3, PTL DEF RaceSpec, PaidUnlessOvertaken

\* With one call at a time every call follows its row.
AloneInv == LInv /\ \A x \in inflight : Follows(x)

LEMMA AloneInvInit ==
  ASSUME Serial
  PROVE  Init => AloneInv
BY LInvInit DEF Serial, Init, AloneInv

\* No other call can overtake it.
LEMMA AloneInvStep ==
  ASSUME Serial, AloneInv, [Next]_vars
  PROVE  AloneInv'
<1>1. LInv /\ LInv' /\ FullReports
  BY LInvStep DEF AloneInv, Serial
<1>2. ASSUME NEW y \in inflight', y \in inflight
      PROVE  ~Overwrites(y.report.payment)
  BY <1>1, <1>2 DEF LInv, Real, TypeOK, Syncs, Calls, Serial, Overwrites
<1>3. ASSUME NEW y \in inflight'
      PROVE  Follows(y)'
  BY <1>1, <1>2, <1>3, FollowsStep DEF AloneInv
<1> QED
  BY <1>1, <1>3 DEF AloneInv

\* With one call at a time no row's time goes back.
LEMMA NewestStep ==
  ASSUME AloneInv, [Next]_vars, NEW p \in live, p \in live'
  PROVE  row'[p].modified >= row[p].modified
<1>1. TypeOK /\ Created /\ \A x \in inflight : Newer(x)
  BY DEF AloneInv, LInv, Real, Recorded, Created, TypeOK, Follows, Newer
<1> QED
  BY <1>1, ModifiedStep

\* With one call at a time the newest report wins, in whatever order the reports
\* arrive and however often.
THEOREM NewestReportWins ==
  ASSUME Serial
  PROVE  Spec => NewestWins
<1>0. Init => AloneInv
  BY AloneInvInit
<1>1. AloneInv /\ [Next]_vars => AloneInv'
  BY AloneInvStep
<1>2. AloneInv /\ [Next]_vars =>
        [\A p \in live \cap live' : row'[p].modified >= row[p].modified]_vars
  BY NewestStep
<1> QED
  BY <1>0, <1>1, <1>2, PTL DEF Spec, NewestWins

\* With one call at a time a paid row stays paid until it is reversed.
THEOREM PaidStaysPaid ==
  ASSUME Serial
  PROVE  Spec => PaidIsFinal
<1>0. Init => AloneInv
  BY AloneInvInit
<1>1. AloneInv /\ [Next]_vars => AloneInv'
  BY AloneInvStep
<1>2. AloneInv /\ [Next]_vars =>
        [\A p \in live : row[p].status = "paid" =>
           p \in live' /\ row'[p].status \in {"paid", "reversed"}]_vars
  BY PaidStep DEF AloneInv
<1> QED
  BY <1>0, <1>1, <1>2, PTL DEF Spec, PaidIsFinal
-----------------------------------------------------------------------------
(* The entries of the ledger.                                                *)

ClosedStatuses == {"creation_failed", "failed", "expired", "cancelled"}

\* The entry of a row with a status.
StatusEntry(s) ==
  CASE s = "paid" -> "collected"
    [] s = "reversed" -> "returned"
    [] s \in ClosedStatuses -> "closed"
    [] OTHER -> "open"

\* A row's reader is shown its status.
LEMMA ShownIsStatus ==
  ASSUME Unclear = {}, NEW c \in Rows, Agreed(c), c.provider # Nil => c.invoice
  PROVE  ResolveMonobankPaymentStatus(c.status, c.provider) = c.status
<1>1. c.status \in StatusSet
  BY DEF Rows
<1>2. CASE c.provider = Nil
  BY <1>1, <1>2 DEF ResolveMonobankPaymentStatus, NormalizeMonobankStatus,
                    ProviderStatuses, Nil
<1>3. CASE c.provider # Nil
  <2>1. c.status = NormalizeMonobankStatus(c.provider)
    BY <1>3 DEF Agreed
  <2> QED
    BY <1>1, <2>1 DEF ResolveMonobankPaymentStatus
<1> QED
  BY <1>2, <1>3

\* The entry of a payment before and after a step.
LEMMA Entries ==
  ASSUME LInv, NEW p \in Payments
  PROVE  EntryOf(p) = IF create[p] = "none" THEN "none"
                      ELSE IF p \notin live THEN "gone" ELSE StatusEntry(row[p].status)
<1>1. row[p] \in Rows /\ Agreed(row[p]) /\ (row[p].provider # Nil => row[p].invoice)
  BY DEF LInv, Real, TypeOK, Agreeing, RowsAgree, Recorded
<1>2. Shown(p) = row[p].status
  BY <1>1, ShownIsStatus DEF Shown, LInv
<1>3. p \in live => create[p] # "none"
  BY DEF LInv, Recorded
<1> QED
  BY <1>2, <1>3 DEF EntryOf, StatusEntry, ClosedStatuses

LEMMA NextEntries ==
  ASSUME LInv', NEW p \in Payments
  PROVE  EntryOf(p)' = IF create'[p] = "none" THEN "none"
                       ELSE IF p \notin live' THEN "gone"
                       ELSE StatusEntry(row'[p].status)
<1>1. row'[p] \in Rows /\ Agreed(row'[p]) /\ (row'[p].provider # Nil => row'[p].invoice)
  BY DEF LInv, Real, TypeOK, Agreeing, RowsAgree, Recorded, Agreed
<1>2. Shown(p)' = row'[p].status
  BY <1>1, ShownIsStatus DEF Shown, LInv
<1>3. p \in live' => create'[p] # "none"
  BY DEF LInv, Recorded
<1> QED
  BY <1>2, <1>3 DEF EntryOf, StatusEntry, ClosedStatuses

\* The changes of an entry from e to f that the ledger has actions for, when the
\* bank holds m.
Legal(e, f, m) ==
  \/ e = f
  \/ e = "none" /\ f = "open"
  \/ e = "open" /\ f = "closed"
  \/ e = "closed" /\ f = "open"
  \/ e \in {"open", "closed", "returned"} /\ f = "gone"
  \/ e \in {"open", "closed"} /\ f = "collected" /\ m # "none"
  \/ e \in {"open", "closed", "collected"} /\ f = "returned" /\ m = "returned"

\* A step that leaves the bank alone changes each entry in such a way.
LEMMA EntryStep ==
  ASSUME LInv, LInv', [Next]_vars, UNCHANGED bank, NEW p \in Payments,
         \A x \in inflight :
           UpdatePaymentProviderState(x) /\ x.report.payment = p => Follows(x)
  PROVE  Legal(EntryOf(p), EntryOf(p)', MoneyOf(p))
<1>1. TypeOK /\ (p \in live => create[p] # "none") /\ (p \in live' => create'[p] # "none")
  BY DEF LInv, Real, Recorded
<1>2. create[p] # "none" => create'[p] # "none"
  BY <1>1, OpenStep
<1>3. CASE p \notin live /\ p \notin live'
  <2>1. create[p] = "none" => create'[p] = "none"
    <3>1. ASSUME NEW q \in Payments, Request(q), create[p] = "none"
          PROVE  create'[p] = "none"
      BY <1>1, <1>3, <3>1
      DEF Request, CreatePendingInvoice, InvoiceAnswered, InvoiceNotAnswered,
          MarkInvoiceCreationFailed, StoreCreatedInvoice, CreateAborts, TypeOK
    <3>2. UNCHANGED create \/ \E q \in Payments : Request(q)
      BY DEF Next, vars, Admin, Sync, Webhook,
         FetchInvoiceStatus, Begin, SelectLatestProviderState,
         UpdatePaymentProviderState, maybeGrantProductFeatures,
         maybeSyncFiscalChecks, SyncAborts, RemoveInvoice, MarkInvoiceCancelled,
         CancelAborts, SelectForDelete, DeletePayment, RollbackDelete,
         ExpireStaleInvoices, BankCreates, BankChanges
    <3> QED
      BY <3>1, <3>2
  <2> QED
    BY <1>2, <1>3, <2>1, Entries, NextEntries DEF Legal
<1>4. CASE p \notin live /\ p \in live'
  <2>1. create[p] = "none" /\ row'[p].status = "creating_invoice"
    BY <1>1, <1>4, LiveStep DEF PendingRow
  <2>2. EntryOf(p) = "none"
    BY <2>1, Entries
  <2>3. EntryOf(p)' = "open"
    BY <1>1, <1>4, <2>1, NextEntries DEF StatusEntry, ClosedStatuses
  <2> QED
    BY <2>2, <2>3 DEF Legal
<1>5. CASE p \in live /\ p \notin live'
  <2>1. row[p].status # "paid"
    BY <1>5, GoneStep DEF LInv, Agreeing, RowsAgree, Deletable
  <2>2. EntryOf(p) \in {"open", "closed", "returned"}
    BY <1>1, <1>5, <2>1, Entries DEF StatusEntry
  <2>3. EntryOf(p)' = "gone"
    BY <1>1, <1>2, <1>5, NextEntries
  <2> QED
    BY <2>2, <2>3 DEF Legal
<1>6. CASE p \in live /\ p \in live'
  <2>1. /\ EntryOf(p) = StatusEntry(row[p].status)
        /\ EntryOf(p)' = StatusEntry(row'[p].status)
    BY <1>1, <1>6, Entries, NextEntries
  <2>2. row'[p].status = "paid" => MoneyOf(p) # "none"
    <3>1. row'[p].status = "paid" => Collected(p)'
      BY DEF LInv, Real, RowsReal
    <3> QED
      BY <3>1 DEF Collected, MoneyOf
  <2>3. row'[p].status = "reversed" => MoneyOf(p) = "returned"
    <3> SUFFICES ASSUME row'[p].status = "reversed" PROVE MoneyOf(p) = "returned"
      OBVIOUS
    <3>1. row'[p].provider = "reversed"
      <4>1. Agreed(row'[p]) /\ row'[p].provider # "refunded"
        BY DEF LInv, Agreeing, RowsAgree, Recorded, Agreed
      <4> QED
        BY <4>1, StatusOf DEF LInv
    <3> DEFINE r == [payment |-> p, status |-> "reversed", modified |-> row'[p].modified]
    <3>2. r \in sent'
      BY <3>1 DEF LInv, Recorded
    <3>3. /\ r.payment = p /\ r.status = "reversed" /\ r.modified \in Nat
          /\ 1 <= r.modified /\ r.modified <= bank'[p].modified
          /\ bank'[p].modified \in Nat
      BY <3>2 DEF LInv, History, Timed, TypeOK, Invoices, Reports
    <3>4. Latest(p)' \in sent'
      BY <3>3 DEF LInv, History, Timed
    <3>5. Latest(p)'.payment = p /\ Latest(p)'.modified = bank'[p].modified
          /\ Latest(p)'.status = bank'[p].status
      BY DEF Latest
    <3>6. bank'[p].status = "reversed"
      BY <3>2, <3>3, <3>4, <3>5 DEF LInv, History, Ordered
    <3> QED
      BY <3>6 DEF MoneyOf
  <2>4. \/ row'[p].status = row[p].status
        \/ /\ row[p].status \notin {"paid", "reversed"}
           /\ row'[p].status \notin {"paid", "reversed"}
        \/ row'[p].status = "paid" /\ row[p].status # "reversed"
        \/ row'[p].status = "reversed"
    BY <1>6, StatusStep
  <2>5. row[p].status \in StatusSet /\ row'[p].status \in StatusSet
    BY DEF LInv, Real, TypeOK, Rows
  <2>6. \A s \in StatusSet :
          /\ s = "paid" => StatusEntry(s) = "collected"
          /\ s = "reversed" => StatusEntry(s) = "returned"
          /\ s \notin {"paid", "reversed"} => StatusEntry(s) \in {"open", "closed"}
    BY DEF StatusEntry, StatusSet, ClosedStatuses
  <2> QED
    BY <2>1, <2>2, <2>3, <2>4, <2>5, <2>6 DEF Legal
<1> QED
  BY <1>3, <1>4, <1>5, <1>6
-----------------------------------------------------------------------------
(* Every step is one of the ledger's.                                        *)

\* A step leaves the row, the creation and the liveness of payment q alone.
Spares(q) == create'[q] = create[q] /\ row'[q] = row[q] /\ (q \in live' <=> q \in live)

\* A step is the job's or the bank's, grants, or concerns one payment alone.
LEMMA StepKinds ==
  ASSUME TypeOK, [Next]_vars
  PROVE  \/ ExpireStaleInvoices
         \/ \E p \in Payments, s \in ProviderStatuses : BankMove(p, s)
         \/ \E x \in inflight : maybeGrantProductFeatures(x)
         \/ UNCHANGED <<bank, granted, create, row, live>>
         \/ /\ UNCHANGED <<bank, granted>>
            /\ \E p \in Payments : \A q \in Payments \ {p} : Spares(q)
<1>1. ASSUME NEW p \in Payments, Request(p)
      PROVE  UNCHANGED <<bank, granted>> /\ \A q \in Payments \ {p} : Spares(q)
  <2>1. UNCHANGED <<bank, granted>> /\ \A q \in Payments \ {p} : create'[q] = create[q]
    BY <1>1 DEF TypeOK, Request, CreatePendingInvoice, InvoiceAnswered,
       InvoiceNotAnswered, MarkInvoiceCreationFailed, StoreCreatedInvoice,
       CreateAborts, bankVars
  <2>2. \A q \in Payments \ {p} : row'[q] = row[q] /\ (q \in live' <=> q \in live)
    BY <1>1 DEF TypeOK, Request, CreatePendingInvoice, InvoiceAnswered,
       InvoiceNotAnswered, MarkInvoiceCreationFailed, StoreCreatedInvoice,
       CreateAborts, rowVars, Update
  <2> QED
    BY <2>1, <2>2 DEF Spares
<1>2. ASSUME NEW p \in Payments, Admin(p), ~RemoveInvoice(p)
      PROVE  UNCHANGED <<bank, granted>> /\ \A q \in Payments \ {p} : Spares(q)
  BY <1>2 DEF Admin, MarkInvoiceCancelled, CancelAborts, SelectForDelete,
     DeletePayment, RollbackDelete, Spares, TypeOK, Update, rowVars, bankVars
<1>3. ASSUME NEW p \in Payments, BankCreates(p) \/ BankChanges(p) \/ RemoveInvoice(p)
      PROVE  \/ \E q \in Payments, s \in ProviderStatuses : BankMove(q, s)
             \/ UNCHANGED <<bank, granted, create, row, live>>
  <2>1. UNCHANGED <<granted, create, row, live>>
    BY <1>3 DEF BankCreates, BankChanges, RemoveInvoice, rowVars
  <2> QED
    BY <2>1, BankStep DEF bankVars
<1>4. ASSUME NEW x \in inflight, UpdatePaymentProviderState(x)
      PROVE  /\ UNCHANGED <<bank, granted>>
             /\ \A q \in Payments \ {x.report.payment} : Spares(q)
             /\ x.report.payment \in Payments
  BY <1>4 DEF UpdatePaymentProviderState, Update, Spares, TypeOK, Syncs, Bodies, bankVars
<1>5. ASSUME NEW x \in inflight,
             \/ SelectLatestProviderState(x) \/ maybeSyncFiscalChecks(x) \/ SyncAborts(x)
      PROVE  UNCHANGED <<bank, granted, create, row, live>>
  BY <1>5 DEF SelectLatestProviderState, maybeSyncFiscalChecks, SyncAborts, rowVars,
              bankVars
<1>6. ASSUME NEW h \in Handlers, \/ \E r \in sent : Webhook(h, r)
                                 \/ \E p \in Payments : FetchInvoiceStatus(h, p)
      PROVE  UNCHANGED <<bank, granted, create, row, live>>
  BY <1>6 DEF Webhook, FetchInvoiceStatus, Begin, rowVars, bankVars
<1>7. CASE UNCHANGED vars
  BY <1>7 DEF vars
<1> QED
  BY <1>1, <1>2, <1>3, <1>4, <1>5, <1>6, <1>7 DEF Next, Sync, Admin

\* What a step spares keeps its entry.
LEMMA SparedEntry ==
  ASSUME NEW q \in Payments, Spares(q)
  PROVE  EntryOf(q)' = EntryOf(q)
BY DEF Spares, EntryOf, Shown

\* A legal change of one entry is an action of the ledger.
LEMMA LedgerMove ==
  ASSUME NEW p \in Payments, UNCHANGED <<bank, granted>>,
         \A q \in Payments \ {p} : EntryOf(q)' = EntryOf(q),
         Legal(EntryOf(p), EntryOf(p)', MoneyOf(p))
  PROVE  [Ledger!Next]_(Ledger!ledgerVars)
<1> DEFINE entry == [q \in Payments |-> EntryOf(q)]
           money == [q \in Payments |-> MoneyOf(q)]
<1>1. UNCHANGED <<money, granted>>
  BY DEF MoneyOf
<1>2. entry[p] = EntryOf(p) /\ entry' = [entry EXCEPT ![p] = EntryOf(p)']
      /\ money[p] = MoneyOf(p)
  OBVIOUS
<1>3. ASSUME NEW from, entry[p] \in from
      PROVE  Ledger!Enters(p, from, EntryOf(p)')
  BY <1>1, <1>2, <1>3 DEF Ledger!Enters
<1>4. CASE EntryOf(p)' = EntryOf(p)
  <2>1. entry' = entry
    BY <1>4
  <2> QED
    BY <1>1, <2>1 DEF Ledger!ledgerVars
<1>5. CASE EntryOf(p) = "none" /\ EntryOf(p)' = "open"
  BY <1>2, <1>3, <1>5 DEF Ledger!Next, Ledger!Open
<1>6. CASE EntryOf(p) = "open" /\ EntryOf(p)' = "closed"
  BY <1>2, <1>3, <1>6 DEF Ledger!Next, Ledger!Close
<1>7. CASE EntryOf(p) = "closed" /\ EntryOf(p)' = "open"
  BY <1>2, <1>3, <1>7 DEF Ledger!Next, Ledger!Reopen
<1>8. CASE EntryOf(p) \in {"open", "closed", "returned"} /\ EntryOf(p)' = "gone"
  BY <1>2, <1>3, <1>8 DEF Ledger!Next, Ledger!Delete
<1>9. CASE /\ EntryOf(p) \in {"open", "closed"} /\ EntryOf(p)' = "collected"
           /\ MoneyOf(p) # "none"
  BY <1>2, <1>3, <1>9 DEF Ledger!Next, Ledger!Record
<1>10. CASE /\ EntryOf(p) \in {"open", "closed", "collected"} /\ EntryOf(p)' = "returned"
            /\ MoneyOf(p) = "returned"
  BY <1>2, <1>3, <1>10 DEF Ledger!Next, Ledger!RecordReturn
<1> QED
  BY <1>4, <1>5, <1>6, <1>7, <1>8, <1>9, <1>10 DEF Legal
\* The bank collects and returns.
LEMMA LedgerBank ==
  ASSUME TypeOK, NEW p \in Payments, NEW s \in ProviderStatuses, BankMove(p, s)
  PROVE  [Ledger!Next]_(Ledger!ledgerVars)
<1> DEFINE entry == [q \in Payments |-> EntryOf(q)]
           money == [q \in Payments |-> MoneyOf(q)]
<1>1. UNCHANGED <<entry, granted>>
  BY DEF BankMove, EntryOf, Shown, rowVars
<1>2. bank'[p].status = s /\ \A q \in Payments \ {p} : bank'[q] = bank[q]
  BY DEF BankMove, Becomes, TypeOK
<1>3. money' = [money EXCEPT ![p] = MoneyOf(p)'] /\ money[p] = MoneyOf(p)
  BY <1>2 DEF MoneyOf
<1>4. ASSUME NEW from, money[p] \in from
      PROVE  Ledger!Moves(p, from, MoneyOf(p)')
  BY <1>1, <1>3, <1>4 DEF Ledger!Moves
<1>5. CASE s = "success"
  <2>1. MoneyOf(p) = "none" /\ MoneyOf(p)' = "collected"
    BY <1>2, <1>5 DEF BankMove, BankMoves, MoneyOf, Nil
  <2> QED
    BY <1>3, <1>4, <2>1 DEF Ledger!Next, Ledger!Collect
<1>6. CASE s = "reversed"
  <2>1. MoneyOf(p) \in {"none", "collected"} /\ MoneyOf(p)' = "returned"
    BY <1>2, <1>6 DEF BankMove, BankMoves, MoneyOf, Nil
  <2> QED
    BY <1>3, <1>4, <2>1 DEF Ledger!Next, Ledger!Return
<1>7. CASE s \notin {"success", "reversed"}
  <2>1. MoneyOf(p) = "none" /\ MoneyOf(p)' = "none"
    BY <1>2, <1>7 DEF BankMove, BankMoves, MoneyOf, Nil
  <2>2. money' = money
    BY <1>3, <2>1
  <2> QED
    BY <1>1, <2>2 DEF Ledger!ledgerVars
<1> QED
  BY <1>5, <1>6, <1>7

\* A grant is made for a collected entry.
LEMMA LedgerGrant ==
  ASSUME LInv, NEW x \in inflight, Follows(x), maybeGrantProductFeatures(x)
  PROVE  [Ledger!Next]_(Ledger!ledgerVars)
<1> DEFINE entry == [q \in Payments |-> EntryOf(q)]
           money == [q \in Payments |-> MoneyOf(q)]
           p == x.report.payment
<1>1. UNCHANGED <<entry, money>>
  BY DEF maybeGrantProductFeatures, EntryOf, Shown, MoneyOf, rowVars, bankVars
<1>2. p \in Payments
  BY DEF LInv, Real, TypeOK, Syncs, Bodies
<1>3. CASE granted' = granted
  BY <1>1, <1>3 DEF Ledger!ledgerVars
<1>4. CASE granted' = granted \cup {p} /\ Found(x)
  <2>1. row[p].status = "paid" /\ p \in live /\ create[p] # "none"
    BY <1>2, <1>4 DEF maybeGrantProductFeatures, Found, LInv, Follows, Recorded
  <2>2. entry[p] = "collected"
    <3>1. EntryOf(p) = StatusEntry(row[p].status)
      BY <1>2, <2>1, Entries
    <3> QED
      BY <1>2, <2>1, <3>1 DEF StatusEntry, ClosedStatuses
  <2>3. Ledger!Grant(p)
    BY <1>1, <1>4, <2>2 DEF Ledger!Grant
  <2> QED
    BY <1>2, <2>3 DEF Ledger!Next
<1> QED
  BY <1>3, <1>4 DEF maybeGrantProductFeatures

\* The expiry job closes what is open.
LEMMA LedgerExpire ==
  ASSUME LInv, LInv', ExpireStaleInvoices
  PROVE  [Ledger!Next]_(Ledger!ledgerVars)
<1> DEFINE entry == [q \in Payments |-> EntryOf(q)]
           money == [q \in Payments |-> MoneyOf(q)]
<1>1. PICK due \in SUBSET {p \in live \ locked : StaleInvoice(row[p])} :
        /\ row' = [p \in Payments |->
                     IF p \in due
                     THEN [row[p] EXCEPT !.status = "expired", !.provider = "expired"]
                     ELSE row[p]]
        /\ UNCHANGED <<live, create, granted, bank>>
  BY DEF ExpireStaleInvoices, bankVars
<1>2. UNCHANGED <<money, granted>>
  BY <1>1 DEF MoneyOf
<1>3. ASSUME NEW p \in due
      PROVE  p \in Payments /\ EntryOf(p) = "open" /\ EntryOf(p)' = "closed"
  <2>1. /\ p \in Payments /\ p \in live /\ StaleInvoice(row[p]) /\ create[p] # "none"
        /\ row[p] \in Rows
    BY <1>1, <1>3 DEF LInv, Real, TypeOK, Recorded
  <2>2. row'[p].status = "expired" /\ row[p].status \in {"invoice_created", "processing"}
    BY <1>1, <1>3, <2>1 DEF Rows, StaleInvoice, PendingStatuses
  <2>3. EntryOf(p) = StatusEntry(row[p].status) /\ EntryOf(p)' = StatusEntry(row'[p].status)
    BY <1>1, <2>1, Entries, NextEntries
  <2> QED
    BY <2>1, <2>2, <2>3 DEF StatusEntry, ClosedStatuses
<1>4. ASSUME NEW p \in Payments, p \notin due
      PROVE  EntryOf(p)' = EntryOf(p)
  BY <1>1, <1>4 DEF EntryOf, Shown
<1>5. entry' = [p \in Payments |-> IF p \in due THEN "closed" ELSE entry[p]]
  BY <1>3, <1>4
<1>6. due \in SUBSET {p \in Payments : entry[p] = "open"}
  BY <1>3
<1>7. Ledger!Expire
  BY <1>2, <1>5, <1>6 DEF Ledger!Expire
<1> QED
  BY <1>7 DEF Ledger!Next

\* Every step of the rows is one of the ledger or none, but for the statements of
\* calls that do not follow their rows.
LEMMA LedgerStep ==
  ASSUME LInv, LInv', [Next]_vars,
         \A x \in inflight :
           UpdatePaymentProviderState(x) \/ maybeGrantProductFeatures(x) => Follows(x)
  PROVE  [Ledger!Next]_(Ledger!ledgerVars)
<1>1. TypeOK
  BY DEF LInv, Real
<1>2. CASE UNCHANGED <<bank, granted, create, row, live>>
  <2>1. UNCHANGED <<[q \in Payments |-> EntryOf(q)], [q \in Payments |-> MoneyOf(q)]>>
    BY <1>2 DEF EntryOf, Shown, MoneyOf
  <2> QED
    BY <1>2, <2>1 DEF Ledger!ledgerVars
<1>3. ASSUME NEW p \in Payments, \A q \in Payments \ {p} : Spares(q),
             UNCHANGED <<bank, granted>>
      PROVE  [Ledger!Next]_(Ledger!ledgerVars)
  BY <1>3, EntryStep, SparedEntry, LedgerMove
<1> QED
  BY <1>1, <1>2, <1>3, StepKinds, LedgerBank, LedgerGrant, LedgerExpire

\* At first there is no entry.
LEMMA LedgerInit == Init => Ledger!Init
BY DEF Init, Ledger!Init, MoneyOf, EntryOf, Nil

\* The rows of the payments table are a ledger but for the statements of overtaken
\* calls, with any number of calls: every other step, also after such a statement,
\* is one that the ledger has.
THEOREM RowsAreALedgerUnlessOvertaken ==
  ASSUME FullReports
  PROVE  RaceSpec => LedgerUnlessOvertaken
<1>0. RaceInit => RaceInv
  BY RaceInvInit
<1>1. RaceInv /\ [RaceNext]_raceVars => RaceInv'
  BY RaceInvStep
<1>2. ASSUME RaceInv, RaceInv', [RaceNext]_raceVars, ~OvertakenGrants,
             \A p \in Payments : ~OvertakenUpdates(p)
      PROVE  [Ledger!Next]_(Ledger!ledgerVars)
  <2>1. \A x \in inflight : x.report.payment \in Payments
    BY <1>2 DEF RaceInv, LInv, Real, TypeOK, Syncs, Bodies
  <2>2. \A x \in inflight :
          UpdatePaymentProviderState(x) \/ maybeGrantProductFeatures(x) => Follows(x)
    BY <1>2, <2>1 DEF RaceInv, OvertakenGrants, OvertakenUpdates
  <2> QED
    BY <1>2, <2>2, RaceStep, LedgerStep DEF RaceInv
<1>3. RaceInv /\ RaceInv' /\ [RaceNext]_raceVars =>
        [\/ Ledger!Next \/ OvertakenGrants
         \/ \E p \in Payments : OvertakenUpdates(p)]_(Ledger!ledgerVars)
  BY <1>2
<1>4. RaceInit => Ledger!Init
  BY LedgerInit DEF RaceInit
<1> QED
  BY <1>0, <1>1, <1>3, <1>4, PTL DEF RaceSpec, LedgerUnlessOvertaken

\* The rows of the payments table are a ledger: an entry is collected only after
\* the money was, then only returned, and granted while it is collected, for any
\* number of payments, faults and repetitions, with one report at a time.
THEOREM RowsAreALedger ==
  ASSUME Serial
  PROVE  Spec => LedgerKept
<1>0. Init => AloneInv
  BY AloneInvInit
<1>1. AloneInv /\ [Next]_vars => AloneInv'
  BY AloneInvStep
<1>2. AloneInv /\ AloneInv' /\ [Next]_vars => [Ledger!Next]_(Ledger!ledgerVars)
  BY LedgerStep DEF AloneInv
<1> QED
  BY <1>0, LedgerInit, <1>1, <1>2, PTL DEF Spec, LedgerKept, Ledger!Spec
-----------------------------------------------------------------------------
(* AnsweredIsRecorded: what the webhook answered with 200 is done.           *)

\* The logged failure of a grant aside, the effects of a payment succeed.
GrantsSucceed == ~EffectErrors

\* A report has reached its row, or a newer one has.
Noted(r) == r.payment \in live => r.modified <= row[r.payment].modified

\* The buyer of a lecture product has its feature, unless the payment was reversed.
Given(p) ==
  p \in live /\ p \in Lecture => row[p].status = "reversed" \/ p \in granted

\* A row is no newer than the bank, and paid or reversed from the success on.
CaughtUp ==
  /\ \A p \in Payments : row[p].modified <= bank[p].modified
  /\ \A r \in sent : r.status = "success" /\ r.payment \in live /\ Noted(r) =>
       row[r.payment].status \in {"paid", "reversed"}

\* What was answered is noted and given, and a call that has written a success knows
\* it to be noted, and after its grant to be given.
Kept ==
  /\ \A r \in acked : r \in sent
  /\ \A r \in acked : r.status = "success" => Noted(r) /\ Given(r.payment)
  /\ \A x \in inflight : x.pc \in {"grant", "fiscal"} =>
       Noted(x.report) /\ (x.pc = "fiscal" => Given(x.report.payment))

AnsweredInv == AloneInv /\ CaughtUp /\ Kept

\* A payment that was reported has its row from before, or none any more.
LEMMA ReportedIsLive ==
  ASSUME AloneInv, [Next]_vars, NEW r \in sent, r.payment \in live'
  PROVE  r.payment \in live /\ r.payment \in Payments
BY ReportedIsCreated, LiveStep DEF AloneInv, LInv, Real

\* No grant is taken back by a report.
LEMMA GrantedStep ==
  ASSUME [Next]_vars
  PROVE  granted \subseteq granted'
<1>1. ASSUME NEW x \in inflight, maybeGrantProductFeatures(x)
      PROVE  granted \subseteq granted'
  BY <1>1 DEF maybeGrantProductFeatures
<1>2. \/ UNCHANGED granted
      \/ \E x \in inflight : maybeGrantProductFeatures(x)
  BY DEF Next, vars, Request, Admin, Sync, Webhook, FetchInvoiceStatus, Begin,
         CreatePendingInvoice, InvoiceAnswered, InvoiceNotAnswered,
         MarkInvoiceCreationFailed, StoreCreatedInvoice, CreateAborts,
         SelectLatestProviderState, UpdatePaymentProviderState,
         maybeSyncFiscalChecks, SyncAborts, RemoveInvoice, MarkInvoiceCancelled,
         CancelAborts, SelectForDelete, DeletePayment, RollbackDelete,
         ExpireStaleInvoices, BankCreates, BankChanges
<1> QED
  BY <1>1, <1>2

\* What is noted and given stays so.
LEMMA NotedStep ==
  ASSUME AloneInv, [Next]_vars, NEW r \in sent, Noted(r)
  PROVE  Noted(r)'
<1> SUFFICES ASSUME r.payment \in live'
             PROVE  r.modified <= row'[r.payment].modified
  BY DEF Noted
<1>1. TypeOK /\ TypeOK'
  BY TypeStep DEF AloneInv, LInv, Real
<1>2. r.payment \in live /\ r.payment \in Payments
  BY ReportedIsLive
<1>3. /\ r.modified \in Nat /\ row[r.payment].modified \in Nat
      /\ row'[r.payment].modified \in Nat
  BY <1>1, <1>2 DEF TypeOK, Rows, Reports
<1> QED
  BY <1>2, <1>3, NewestStep DEF Noted

LEMMA GivenStep ==
  ASSUME AloneInv, [Next]_vars, NEW r \in sent, Given(r.payment)
  PROVE  Given(r.payment)'
<1> DEFINE p == r.payment
<1> SUFFICES ASSUME p \in live', p \in Lecture
             PROVE  row'[p].status = "reversed" \/ p \in granted'
  BY DEF Given
<1>1. p \in live /\ p \in Payments
  BY ReportedIsLive
<1>2. row[p].status = "reversed" => row'[p].status = "reversed"
  BY <1>1, StatusStep DEF AloneInv
<1> QED
  BY <1>1, <1>2, GrantedStep DEF Given

\* The bank's times grow, and a new report is of a new time.
LEMMA BankTime ==
  ASSUME FullReports, TypeOK, [Next]_vars
  PROVE  /\ \A p \in Payments : bank[p].modified <= bank'[p].modified
         /\ \A r \in sent' \ sent :
              /\ r.payment \in Payments /\ bank[r.payment].modified < r.modified
              /\ UNCHANGED <<row, live>>
<1>1. \A p \in Payments : bank[p].modified \in Nat
  BY DEF TypeOK, Invoices
<1>2. ASSUME NEW p \in Payments, NEW s \in ProviderStatuses, BankMove(p, s)
      PROVE  /\ \A q \in Payments : bank[q].modified <= bank'[q].modified
             /\ \A r \in sent' \ sent :
                  /\ r.payment \in Payments /\ bank[r.payment].modified < r.modified
                  /\ UNCHANGED <<row, live>>
  BY <1>1, <1>2 DEF BankMove, Becomes, FullReports, TypeOK, rowVars
<1> QED
  BY <1>1, <1>2, BankStep DEF bankVars

\* Every step keeps the rows caught up.
LEMMA CaughtUpStep ==
  ASSUME Serial, AloneInv, CaughtUp, [Next]_vars
  PROVE  CaughtUp'
<1>1. /\ TypeOK /\ TypeOK' /\ Created /\ FullReports /\ LInv
      /\ History /\ Calls
  <2>1. TypeOK /\ LInv /\ History /\ Calls /\ FullReports /\ Recorded
    BY DEF AloneInv, LInv, Real, Serial
  <2> QED
    BY <2>1, TypeStep DEF Recorded, Created, TypeOK
<1>2. \A p \in Payments : /\ row[p].modified \in Nat /\ row'[p].modified \in Nat
                          /\ bank[p].modified \in Nat /\ bank'[p].modified \in Nat
  BY <1>1 DEF TypeOK, Rows, Invoices
<1>3. ASSUME NEW p \in Payments, NEW x \in inflight, x.report.payment = p,
             row'[p] = Reported(row[p], x)
      PROVE  row'[p].modified = x.report.modified /\ x.report \in sent
  BY <1>1, <1>3 DEF Reported, Calls
<1>4. ASSUME NEW p \in Payments
      PROVE  row'[p].modified <= bank'[p].modified
  <2>1. bank[p].modified <= bank'[p].modified /\ row[p].modified <= bank[p].modified
    BY <1>1, BankTime DEF CaughtUp
  <2>2. ASSUME NEW x \in inflight, x.report.payment = p, row'[p] = Reported(row[p], x)
        PROVE  row'[p].modified <= bank[p].modified
    BY <1>1, <1>3, <2>2 DEF History, Timed
  <2> QED
    BY <1>1, <1>2, <2>1, <2>2, TimeStep
<1>5. ASSUME NEW r \in sent', r.status = "success", r.payment \in live', Noted(r)'
      PROVE  row'[r.payment].status \in {"paid", "reversed"}
  <2> DEFINE p == r.payment
  <2>1. r.modified <= row'[p].modified /\ r.modified \in Nat /\ p \in Payments
    BY <1>1, <1>5 DEF Noted, TypeOK, Reports
  <2>2. r \in sent
    BY <1>1, <1>2, <2>1, BankTime DEF CaughtUp
  <2>3. p \in live
    BY <2>2, <1>5, ReportedIsLive
  <2>4. CASE r.modified <= row[p].modified
    <3>1. row[p].status \in {"paid", "reversed"}
      BY <1>5, <2>2, <2>3, <2>4 DEF CaughtUp, Noted
    <3> QED
      BY <1>1, <1>5, <2>3, <3>1, StatusStep DEF AloneInv
  <2>5. CASE row[p].modified < r.modified
    <3>1. PICK x \in inflight : x.report.payment = p /\ row'[p] = Reported(row[p], x)
      BY <1>1, <1>2, <1>5, <2>1, <2>3, <2>5, TimeStep
    <3>2. row'[p].modified = x.report.modified /\ x.report \in sent
      BY <1>3, <2>1, <3>1
    <3>3. x.report.status \in {"success", "reversed"}
      BY <1>1, <1>2, <1>5, <2>1, <2>2, <3>1, <3>2 DEF History, Ordered
    <3>4. NormalizeMonobankStatus(x.report.status) \in {"paid", "reversed"}
      BY <3>3 DEF NormalizeMonobankStatus, monobankStatusMap, ProviderStatuses
    <3>5. row'[p].status = NormalizeMonobankStatus(x.report.status)
      BY <3>1, <3>4 DEF Reported, Coalesce, Nil
    <3> QED
      BY <3>4, <3>5
  <2> QED
    BY <1>2, <2>1, <2>4, <2>5
<1> QED
  BY <1>4, <1>5 DEF CaughtUp

\* A call that has come to its fiscal checks has made its grant.
LEMMA FiscalStep ==
  ASSUME TypeOK, [Next]_vars, NEW y \in inflight' \ inflight, y.pc = "fiscal"
  PROVE  \E x \in inflight : x.report = y.report /\ maybeGrantProductFeatures(x)
<1>1. ASSUME NEW x \in inflight, NEW pc, y = [x EXCEPT !.pc = pc]
      PROVE  y.pc = pc /\ x.report = y.report
  BY <1>1 DEF TypeOK, Syncs
<1>2. ASSUME NEW x \in inflight, Sync(x) \/ SyncAborts(x)
      PROVE  x.report = y.report /\ maybeGrantProductFeatures(x)
  <2>1. CASE \/ SelectLatestProviderState(x) \/ UpdatePaymentProviderState(x)
             \/ maybeSyncFiscalChecks(x) \/ SyncAborts(x)
    BY <1>1, <2>1 DEF SelectLatestProviderState, UpdatePaymentProviderState,
                      maybeSyncFiscalChecks, SyncAborts, Finish, Step
  <2>2. CASE maybeGrantProductFeatures(x)
    BY <1>1, <2>2 DEF maybeGrantProductFeatures, Step
  <2> QED
    BY <1>2, <2>1, <2>2 DEF Sync
<1>3. ASSUME NEW h, NEW report, NEW stamped, NEW hook, Begin(h, report, stamped, hook)
      PROVE  y.pc = "select"
  <2>1. PICK by, body, c : /\ c = [handler |-> h, pc |-> "select", report |-> body, by |-> by,
                             stamped |-> stamped, hook |-> hook]
                     /\ inflight' = inflight \cup {c}
    BY <1>3 DEF Begin
  <2> QED
    BY <2>1
<1>4. \/ UNCHANGED inflight
      \/ \E h \in Handlers : \/ \E r \in sent : Webhook(h, r)
                             \/ \E p \in Payments : FetchInvoiceStatus(h, p)
      \/ \E x \in inflight : Sync(x) \/ SyncAborts(x)
  BY DEF Next, vars, Request, Admin, CreatePendingInvoice, InvoiceAnswered,
         InvoiceNotAnswered, MarkInvoiceCreationFailed, StoreCreatedInvoice,
         CreateAborts, RemoveInvoice, MarkInvoiceCancelled, CancelAborts,
         SelectForDelete, DeletePayment, RollbackDelete, ExpireStaleInvoices,
         BankCreates, BankChanges
<1> QED
  BY <1>2, <1>3, <1>4 DEF Webhook, FetchInvoiceStatus

\* A stale success is one of a payment that was reversed, and so needs no grant.
LEMMA StaleSuccess ==
  ASSUME LInv, CaughtUp, NEW r \in sent, r.status = "success", r.payment \in live,
         r.modified < row[r.payment].modified
  PROVE  row[r.payment].status = "reversed"
<1> DEFINE p == r.payment
           s == [payment |-> p, status |-> row[p].provider, modified |-> row[p].modified]
<1>1. /\ p \in Payments /\ r.modified \in Nat /\ row[p].modified \in Nat
      /\ History
  BY DEF LInv, Real, TypeOK, Reports, Rows
<1>2. row[p].status \in {"paid", "reversed"}
  BY <1>1 DEF CaughtUp, Noted
<1>3. s \in sent /\ (row[p].status = "paid" => s.status = "success")
  BY <1>1, <1>2, RowIsReported
<1>4. s.payment = r.payment /\ r.modified < s.modified
  OBVIOUS
<1>5. s.status = "reversed"
  BY <1>1, <1>3, <1>4 DEF History, Ordered
<1> QED
  BY <1>2, <1>3, <1>5

\* A grant gives the feature.
LEMMA GrantGives ==
  ASSUME GrantsSucceed, AloneInv, NEW x \in inflight, maybeGrantProductFeatures(x)
  PROVE  Given(x.report.payment)'
<1> DEFINE p == x.report.payment
<1> SUFFICES ASSUME p \in live', p \in Lecture
             PROVE  p \in granted'
  BY DEF Given
<1>1. /\ x.pc = "grant" /\ p \in live /\ p \in Payments /\ x.by = "both"
  BY DEF maybeGrantProductFeatures, rowVars, AloneInv, LInv, Real, TypeOK, Calls, Syncs, Bodies
<1>2. row[p].status = "paid" /\ row[p].invoice
  <2>1. row[p].status = "paid"
    BY <1>1 DEF AloneInv, Follows
  <2>2. row[p].provider # Nil
    BY <1>1, <2>1, RowIsReported DEF AloneInv, Nil
  <2> QED
    BY <1>1, <2>1, <2>2 DEF AloneInv, LInv, Recorded
<1>3. Found(x)
  BY <1>1, <1>2 DEF Found
<1> QED
  BY <1>1, <1>3 DEF maybeGrantProductFeatures, GrantsSucceed

\* An UPDATE notes its report.
LEMMA UpdateNotes ==
  ASSUME AloneInv, NEW x \in inflight, UpdatePaymentProviderState(x)
  PROVE  Noted(x.report)'
<1> DEFINE p == x.report.payment
<1>1. /\ TypeOK /\ p \in Payments /\ x.by = "both" /\ x.stamped /\ live' = live
      /\ x.report.modified \in Nat
  BY DEF UpdatePaymentProviderState, AloneInv, LInv, Real, TypeOK, Calls, Syncs, Bodies
<1>2. CASE p \in live
  <2>1. row'[p] = Reported(row[p], x)
    BY <1>1, <1>2 DEF UpdatePaymentProviderState, Matches, Update, TypeOK
  <2>2. row'[p].modified = x.report.modified
    BY <1>1, <2>1 DEF Reported
  <2> QED
    BY <1>1, <2>2 DEF Noted
<1>3. CASE p \notin live
  BY <1>1, <1>3 DEF Noted
<1> QED
  BY <1>2, <1>3

\* Every step keeps what was answered.
LEMMA KeptStep ==
  ASSUME Serial, GrantsSucceed, AnsweredInv, [Next]_vars
  PROVE  Kept'
<1>1. /\ TypeOK /\ AloneInv /\ LInv /\ CaughtUp /\ Kept
      /\ sent \subseteq sent' /\ \A x \in inflight : x.report \in sent
  BY SentStep DEF AnsweredInv, AloneInv, LInv, Real, Calls
<1>2. ASSUME NEW r \in acked'
      PROVE  r \in sent' /\ (r.status = "success" => Noted(r)' /\ Given(r.payment)')
  <2>1. CASE r \in acked
    <3>1. r \in sent
      BY <1>1, <2>1 DEF Kept
    <3> QED
      BY <1>1, <2>1, <3>1, NotedStep, GivenStep DEF Kept
  <2>2. CASE r \notin acked
    <3>1. PICK x \in inflight :
            /\ r = x.report
            /\ \/ SelectLatestProviderState(x) /\ Stale(x)
               \/ UpdatePaymentProviderState(x) /\ ~ReportsPaid(x)
               \/ maybeSyncFiscalChecks(x)
      BY <1>2, <2>2, AckedStep
    <3>2. r \in sent
      BY <1>1, <3>1
    <3>3. CASE SelectLatestProviderState(x) /\ Stale(x)
      <4>1. /\ r.payment \in live /\ r.modified < row[r.payment].modified
            /\ r.payment \in Payments
        BY <1>1, <3>1, <3>2, <3>3 DEF Stale, Matches, TypeOK, Reports
      <4>2. Noted(r)
        BY <1>1, <3>2, <4>1 DEF Noted, TypeOK, Reports, Rows
      <4>3. r.status = "success" => Given(r.payment)
        BY <1>1, <3>2, <4>1, StaleSuccess DEF Given
      <4> QED
        BY <1>1, <3>2, <4>2, <4>3, NotedStep, GivenStep
    <3>4. CASE UpdatePaymentProviderState(x) /\ ~ReportsPaid(x)
      <4>1. r.status # "success"
        BY <3>1, <3>4
        DEF ReportsPaid, NormalizeMonobankStatus, monobankStatusMap, ProviderStatuses
      <4> QED
        BY <1>1, <3>2, <4>1
    <3>5. CASE maybeSyncFiscalChecks(x)
      <4>1. Noted(r) /\ Given(r.payment)
        BY <1>1, <3>1, <3>5 DEF maybeSyncFiscalChecks, Kept
      <4> QED
        BY <1>1, <3>2, <4>1, NotedStep, GivenStep
    <3> QED
      BY <3>1, <3>3, <3>4, <3>5
  <2> QED
    BY <2>1, <2>2
<1>3. ASSUME NEW y \in inflight', y.pc \in {"grant", "fiscal"}
      PROVE  Noted(y.report)' /\ (y.pc = "fiscal" => Given(y.report.payment)')
  <2>1. CASE y \in inflight
    BY <1>1, <1>3, <2>1, NotedStep, GivenStep DEF Kept
  <2>2. CASE y \notin inflight
    <3>1. PICK x \in inflight :
            /\ x.report = y.report
            /\ \/ UpdatePaymentProviderState(x)
               \/ x.pc = "grant" /\ y.pc = "fiscal"
      BY <1>1, <1>3, <2>2, CallsStep DEF Called
    <3>2. Noted(y.report)'
      <4>1. CASE UpdatePaymentProviderState(x)
        <5>1. Noted(x.report)'
          BY <1>1, <4>1, UpdateNotes
        <5> QED
          BY <3>1, <5>1 DEF Noted
      <4>2. CASE x.pc = "grant"
        BY <1>1, <3>1, <4>2, NotedStep DEF Kept
      <4> QED
        BY <3>1, <4>1, <4>2
    <3>3. ASSUME y.pc = "fiscal"
          PROVE  Given(y.report.payment)'
      <4>1. PICK z \in inflight : z.report = y.report /\ maybeGrantProductFeatures(z)
        BY <1>1, <2>2, <3>3, FiscalStep
      <4>2. Given(z.report.payment)'
        BY <1>1, <4>1, GrantGives
      <4> QED
        BY <4>1, <4>2 DEF Given
    <3> QED
      BY <3>2, <3>3
  <2> QED
    BY <2>1, <2>2
<1> QED
  BY <1>2, <1>3 DEF Kept

\* With one call at a time and grants that succeed, a success that was answered with
\* 200 is in its row and granted: what is lost to a crash is repeated by Monobank.
THEOREM AnsweredReportsAreRecorded ==
  ASSUME Serial, GrantsSucceed
  PROVE  Spec => []AnsweredIsRecorded
<1>1. Init => AnsweredInv
  <2>1. Init => CaughtUp /\ Kept
    BY DEF Init, CaughtUp, Kept, PendingRow
  <2> QED
    BY <2>1, AloneInvInit DEF AnsweredInv
<1>2. AnsweredInv /\ [Next]_vars => AnsweredInv'
  BY AloneInvStep, CaughtUpStep, KeptStep DEF AnsweredInv
<1>3. AnsweredInv => AnsweredIsRecorded
  BY DEF AnsweredInv, CaughtUp, Kept, Given, AnsweredIsRecorded
<1> QED
  BY <1>1, <1>2, <1>3, PTL DEF Spec
=============================================================================
