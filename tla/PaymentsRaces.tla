--------------------------- MODULE PaymentsRaces ---------------------------
(***************************************************************************)
(* Payments, with a history of which calls of SyncMonobankPaymentStatus    *)
(* were overtaken: another report was written to their payment's row after *)
(* their own last statement, so that what they read or wrote is no longer  *)
(* there.  SelectLatestProviderState takes no lock and                     *)
(* UpdatePaymentProviderState does not compare times again: an overtaken   *)
(* call writes, and grants, all the same.                                  *)
(*                                                                         *)
(* The history is a function of the steps of Payments and guards none of   *)
(* them.  The properties say that this is the only way in which the newest *)
(* report can lose, a payment can cease to be paid, or the rows can        *)
(* deviate from the ledger, however many calls are under way.              *)
(***************************************************************************)
EXTENDS Payments

VARIABLE overtaken   \* the handlers of the calls that were overtaken

raceVars == <<vars, overtaken>>

\* The step is the UPDATE of a report that changes the row of payment p.
Overwrites(p) ==
  \E x \in inflight \ inflight' :
    x.pc = "update" /\ x.report.payment = p /\ row'[p] # row[p]

\* A call that makes no statement of its own stays overtaken, or is now.
Overtakes ==
  overtaken' = {h \in Handlers :
                  \E x \in inflight \cap inflight' :
                    /\ x.handler = h
                    /\ h \in overtaken \/ Overwrites(x.report.payment)}

RaceInit == Init /\ overtaken = {}
RaceNext == Next /\ Overtakes

RaceSpec == RaceInit /\ [][RaceNext]_raceVars

\* The step is a statement of an overtaken call.
OvertakenUpdates(p) ==
  \E x \in inflight :
    /\ x.handler \in overtaken /\ x.report.payment = p
    /\ UpdatePaymentProviderState(x)

OvertakenGrants ==
  \E x \in inflight : x.handler \in overtaken /\ maybeGrantProductFeatures(x)

-----------------------------------------------------------------------------
(* Properties.                                                               *)

\* provider_modified_at goes back only by the UPDATE of a call for which another
\* report was written between its SELECT and its UPDATE.
NewestUnlessOvertaken ==
  [][\A p \in live \cap live' :
       row'[p].modified >= row[p].modified \/ OvertakenUpdates(p)]_raceVars

\* A paid row is lost to such an UPDATE only: no other interleaving of reports,
\* creation, cancellation, deletion and expiry takes it away.
PaidUnlessOvertaken ==
  [][\A p \in live : row[p].status = "paid" =>
       \/ p \in live' /\ row'[p].status \in {"paid", "reversed"}
       \/ OvertakenUpdates(p)]_raceVars

\* The rows are a ledger but for the statements of overtaken calls, and each of
\* these is followed by steps of the ledger again.
LedgerUnlessOvertaken ==
  /\ Ledger!Init
  /\ [][\/ Ledger!Next \/ OvertakenGrants
        \/ \E p \in Payments : OvertakenUpdates(p)]_(Ledger!ledgerVars)
=============================================================================
