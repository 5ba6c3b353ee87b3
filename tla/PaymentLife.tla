----------------------------- MODULE PaymentLife -----------------------------
(***************************************************************************)
(* The life of a payment as its checkout sees it: the request that creates *)
(* it, the two columns status and page_url of its row, the invoice that    *)
(* Monobank may have for it, and whether its page was given out.           *)
(*                                                                         *)
(* Reports, the expiry job and an admin's cancellation are one action,     *)
(* Changes: they write any status Monobank can have reported, in any       *)
(* order, but one that takes a customer only once a customer has got the   *)
(* page.  Payments implements this with their statements (LifeKept), the   *)
(* external checkout with its requests (CheckoutLifeKept), and takes its   *)
(* changes of a status from here.                                          *)
(***************************************************************************)
CONSTANT Payments

VARIABLES
  stage,     \* where the request is that creates the payment
  there,     \* the payments that have a row
  seen,      \* the two columns
  invoiced,  \* the payments Monobank may have an invoice for
  opened     \* the payments whose page was given out

lifeVars == <<stage, there, seen, invoiced, opened>>

New == [status |-> "creating_invoice", page |-> FALSE]

\* The statuses a payment can be changed to from outside its request.
Reached(isOpened) ==
  {"invoice_created", "expired", "cancelled"} \cup
    (IF isOpened THEN {"processing", "paid", "failed", "reversed"} ELSE {})

Init ==
  /\ stage = [p \in Payments |-> "none"] /\ seen = [p \in Payments |-> New]
  /\ there = {} /\ invoiced = {} /\ opened = {}

Goes(p, from, to) == stage[p] \in from /\ stage' = [stage EXCEPT ![p] = to]

\* A statement writes what it is to write, where there is a row.
Shows(p, status, page) ==
  seen' = IF p \in there THEN [seen EXCEPT ![p] = [status |-> status, page |-> page]]
          ELSE seen

Insert(p) ==
  /\ Goes(p, {"none"}, "calling") /\ there' = there \cup {p}
  /\ UNCHANGED <<seen, invoiced, opened>>

Invoice(p) ==
  /\ stage[p] # "none" /\ invoiced' = invoiced \cup {p}
  /\ UNCHANGED <<stage, there, seen, opened>>

\* The call of Monobank ends, and then the request.
Answer(p) ==
  /\ p \in invoiced /\ Goes(p, {"calling"}, "storing")
  /\ UNCHANGED <<there, seen, invoiced, opened>>

Refuse(p) ==
  /\ Goes(p, {"calling"}, "failing") /\ UNCHANGED <<there, seen, invoiced, opened>>

\* A row that a report has reached meanwhile is not marked as failed.
Fail(p) ==
  /\ Goes(p, {"failing"}, "done")
  /\ IF seen[p].status = "creating_invoice"
     THEN Shows(p, "creation_failed", seen[p].page)
     ELSE UNCHANGED seen
  /\ UNCHANGED <<there, invoiced, opened>>

Store(p) ==
  /\ Goes(p, {"storing"}, "done") /\ Shows(p, "invoice_created", TRUE)
  /\ opened' = opened \cup {p}
  /\ UNCHANGED <<there, invoiced>>

Abort(p) ==
  /\ Goes(p, {"calling", "storing", "failing"}, "done")
  /\ UNCHANGED <<there, seen, invoiced, opened>>

Delete(p) ==
  /\ p \in there /\ seen[p].status \notin {"paid", "processing"}
  /\ there' = there \ {p} /\ seen' = [seen EXCEPT ![p] = New]
  /\ UNCHANGED <<stage, invoiced, opened>>

\* Rows with an invoice change their status: the expiry job changes many at once.
Changes ==
  /\ seen' = [p \in Payments |-> seen'[p]]
  /\ \A p \in Payments : seen'[p] # seen[p] =>
       /\ p \in there \cap invoiced
       /\ seen'[p].status \in Reached(p \in opened)
       /\ seen'[p] = [status |-> seen'[p].status, page |-> seen[p].page]
  /\ UNCHANGED <<stage, there, invoiced, opened>>

Next ==
  \/ Changes
  \/ \E p \in Payments :
       \/ Insert(p) \/ Invoice(p) \/ Answer(p) \/ Refuse(p) \/ Fail(p) \/ Store(p)
       \/ Abort(p) \/ Delete(p)

Spec == Init /\ [][Next]_lifeVars
=============================================================================
