---------------------------- MODULE PaymentLedger ----------------------------
(***************************************************************************)
(* What the payments table promises its readers: a ledger with one entry   *)
(* for each payment, and the money the bank has moved for it.              *)
(*                                                                         *)
(* An entry is collected only after the money was, and is then neither     *)
(* closed, reopened nor deleted: it can only be returned, after the money  *)
(* was.  What was bought is granted while the entry is collected.  An      *)
(* entry that is closed without money may be opened again: a late report   *)
(* does that.  Payments implements this where one report is applied at a   *)
(* time (LedgerKept); the proof is in PaymentsLedgerProofs.                *)
(***************************************************************************)
CONSTANT Payments

VARIABLES
  money,    \* what the bank holds: "none", "collected" or "returned"
  entry,    \* what a reader is shown
  granted   \* the payments whose feature was granted

ledgerVars == <<money, entry, granted>>

Entries == {"none", "open", "closed", "collected", "returned", "gone"}

Init ==
  /\ money = [p \in Payments |-> "none"]
  /\ entry = [p \in Payments |-> "none"]
  /\ granted = {}

Enters(p, from, to) ==
  /\ entry[p] \in from
  /\ entry' = [entry EXCEPT ![p] = to]
  /\ UNCHANGED <<money, granted>>

Moves(p, from, to) ==
  /\ money[p] \in from
  /\ money' = [money EXCEPT ![p] = to]
  /\ UNCHANGED <<entry, granted>>

\* The bank collects, and returns what it collected or had reserved.
Collect(p) == Moves(p, {"none"}, "collected")
Return(p)  == Moves(p, {"none", "collected"}, "returned")

\* A payment begins, is given up, is taken up again, and is deleted.
Open(p)   == Enters(p, {"none"}, "open")
Close(p)  == Enters(p, {"open"}, "closed")
Reopen(p) == Enters(p, {"closed"}, "open")
Delete(p) == Enters(p, {"open", "closed", "returned"}, "gone")

\* The ledger follows the bank.
Record(p)       == money[p] # "none" /\ Enters(p, {"open", "closed"}, "collected")
RecordReturn(p) ==
  money[p] = "returned" /\ Enters(p, {"open", "closed", "collected"}, "returned")

Grant(p) ==
  /\ entry[p] = "collected"
  /\ granted' = granted \cup {p}
  /\ UNCHANGED <<money, entry>>

\* The expiry of stale invoices closes many entries at once.
Expire ==
  \E due \in SUBSET {p \in Payments : entry[p] = "open"} :
    /\ entry' = [p \in Payments |-> IF p \in due THEN "closed" ELSE entry[p]]
    /\ UNCHANGED <<money, granted>>

Next ==
  \/ Expire
  \/ \E p \in Payments :
       \/ Collect(p) \/ Return(p) \/ Grant(p) \/ Record(p) \/ RecordReturn(p)
       \/ Open(p) \/ Close(p) \/ Reopen(p) \/ Delete(p)

Spec == Init /\ [][Next]_ledgerVars
=============================================================================
