-------------------------- MODULE ExternalCheckout --------------------------
(***************************************************************************)
(* The external checkout: the shop of an event sends a signed registration *)
(* with a reference of its own, and gets a payment page for it.            *)
(*                                                                         *)
(* handleExternalCheckout makes one statement after the other without a    *)
(* transaction: the idempotency lookup, the search for a duplicate of the  *)
(* participant, the insert of the payment, the insert of the registration  *)
(* and the creation of the invoice.  Requests for one reference or for     *)
(* similar participants interleave, and an admin deletes registrations.    *)
(* The statements of the invoice's creation and of the reports are those   *)
(* of Payments; here they are one step each.  PaymentLife is what both     *)
(* have in common: a payment as its checkout sees it.                      *)
(*                                                                         *)
(* forgotten, raced, revived and orphaned are history: no action reads     *)
(* them, and the properties say with them what else has to happen before   *)
(* a promise of the checkout is broken.                                    *)
(***************************************************************************)
EXTENDS PaymentStatus, Naturals, FiniteSets

CONSTANTS
  Refs,         \* references, those of one mode (production or test)
  Similar,      \* pairs <<q, r>>: the registration of q has the e-mail, the
                \* name or the phone of the participant of a request for r
  SameUpToCase, \* pairs of references that differ in nothing but their case
  Requests,     \* the requests that can be under way at one time
  Ids,          \* the payment ids CreatePendingInvoice may draw
  Deletions,    \* whether admins delete registration payments
  Crashes,      \* whether the server may stop, or a statement fail, in a request
  LateReports,  \* whether a report may make a payment active that is not any more
  Outcomes,     \* bound: the statuses reports, expiry and admins give a payment
  MaxFaults,    \* bound: crashes, failed statements and failed calls
  None

ASSUME SimilarRefs == Similar \subseteq Refs \X Refs
ASSUME CaseRefs == \A r \in Refs : <<r, r>> \in SameUpToCase
ASSUME NoneIsNew == None \notin Refs \cup Ids
ASSUME NoneIsNoRow ==
  None \notin [ref : Refs, status : StatusSet, page : BOOLEAN]
ASSUME CheckoutFlags == {Deletions, Crashes, LateReports} \subseteq BOOLEAN
ASSUME FaultBound == MaxFaults \in Nat

VARIABLES
  payment,     \* the rows of payments, [ref, status, page] by id, or None
  registrations,  \* the rows of external_registrations: payment and reference
  request,     \* the requests: where they are, for which reference and payment
  bank,        \* the payments whose invoice Monobank was asked for
  drawn,       \* the payment ids drawn so far
  answers,     \* the pages the shop was given: pairs of reference and payment
  forgotten,   \* the references a payment was deleted of
  raced,       \* pairs <<r, s>>: a request for r passed the search for a
               \* duplicate while one for s had passed it and not ended
  revived,     \* the payments a late report made active again
  orphaned,    \* the payments whose request stopped before its registration
  faults

history == <<forgotten, raced, revived, orphaned>>
vars == <<payment, registrations, request, bank, drawn, answers, history, faults>>

ActiveStatuses == {"creating_invoice", "invoice_created", "processing", "paid"}

Rows == [ref : Refs, status : StatusSet, page : BOOLEAN]

Idle == [pc |-> "idle", ref |-> None, id |-> None]

Live == {id \in Ids : payment[id] # None}
Of(r) == {id \in Live : payment[id].ref = r}

Init ==
  /\ payment = [id \in Ids |-> None]
  /\ registrations = {} /\ bank = {} /\ drawn = {}
  /\ request = [q \in Requests |-> Idle]
  /\ answers = {} /\ forgotten = {} /\ raced = {} /\ revived = {} /\ orphaned = {}
  /\ faults = 0

Goto(q, pc) == request' = [request EXCEPT ![q].pc = pc]
Ends(q) == request' = [request EXCEPT ![q] = Idle]
Answers(q, id) == answers' = answers \cup {<<request[q].ref, id>>}

-----------------------------------------------------------------------------
\* A verified request for a reference; its product is on_request.
Begin(q, r) ==
  /\ request[q] = Idle
  /\ request' = [request EXCEPT ![q] = [pc |-> "lookup", ref |-> r, id |-> None]]
  /\ UNCHANGED <<payment, registrations, bank, drawn, answers, history, faults>>

\* An existing payment is answered with its page, or with a 409 if it has none.
FindPaymentByIdempotencyKey(q) ==
  /\ request[q].pc = "lookup"
  /\ \/ /\ Of(request[q].ref) = {}
        /\ Goto(q, "duplicate") /\ UNCHANGED answers
     \/ \E id \in Of(request[q].ref) :
          /\ Ends(q)
          /\ IF payment[id].page THEN Answers(q, id) ELSE UNCHANGED answers
  /\ UNCHANGED <<payment, registrations, bank, drawn, history, faults>>

\* A variant that does not count a payment whose invoice is being created.
ActiveWithInvoice(r) ==
  \E g \in registrations :
    /\ payment[g[1]] # None
    /\ <<g[2], r>> \in Similar \ SameUpToCase
    /\ payment[g[1]].status \in ActiveStatuses \ {"creating_invoice"}

\* FindActiveDuplicate finds an active payment of the participant under
\* another reference, by its registration.
ActiveDuplicate(r) ==
  \E g \in registrations :
    /\ payment[g[1]] # None
    /\ <<g[2], r>> \in Similar \ SameUpToCase
    /\ payment[g[1]].status \in ActiveStatuses

\* The requests that have passed the search and not ended.
Passed == {p \in Requests :
             request[p].pc \in {"insert", "register", "create", "fail", "store"}}

Passes(q) ==
  /\ Goto(q, "insert")
  /\ raced' = raced \cup {<<request[q].ref, request[p].ref>> : p \in Passed}
  /\ UNCHANGED <<forgotten, revived, orphaned>>

\* A variant that answers a duplicate with the page of the other registration.
AnswerActiveDuplicate(q) ==
  /\ request[q].pc = "duplicate"
  /\ IF ActiveDuplicate(request[q].ref)
     THEN /\ Ends(q) /\ UNCHANGED history
          /\ \E g \in registrations :
               IF payment[g[1]].page THEN Answers(q, g[1]) ELSE UNCHANGED answers
     ELSE Passes(q) /\ UNCHANGED answers
  /\ UNCHANGED <<payment, registrations, bank, drawn, faults>>

FindActiveDuplicate(q) ==
  /\ request[q].pc = "duplicate"
  /\ IF ActiveDuplicate(request[q].ref)
     THEN Ends(q) /\ UNCHANGED history
     ELSE Passes(q)
  /\ UNCHANGED <<payment, registrations, bank, drawn, answers, faults>>

\* A variant of the table without the unique index on idempotency_key.
NoUniqueKey(r) == TRUE

UniqueKey(r) == Of(r) = {}

\* A second payment with the key is refused by the index, and answered 500; a
\* request that would exceed the bound on Ids ends the same way.
CreatePendingInvoice(q) ==
  LET r == request[q].ref IN
  /\ request[q].pc = "insert"
  /\ IF UniqueKey(r) /\ Ids # drawn
     THEN \E id \in Ids \ drawn :
            /\ drawn' = drawn \cup {id}
            /\ payment' = [payment EXCEPT ![id] =
                 [ref |-> r, status |-> "creating_invoice", page |-> FALSE]]
            /\ request' = [request EXCEPT ![q] =
                 [pc |-> "register", ref |-> r, id |-> id]]
     ELSE Ends(q) /\ UNCHANGED <<payment, drawn>>
  /\ UNCHANGED <<registrations, bank, answers, history, faults>>

\* The insert needs the payment and a (source, external_ref) no other
\* registration has; otherwise it fails, and the request with it.
Registrable(r, id) ==
  /\ payment[id] # None
  /\ \A g \in registrations : g[2] = r => g[1] = id

Upsert(q) ==
  LET id == request[q].id IN
  /\ request[q].pc = "register"
  /\ IF Registrable(request[q].ref, id)
     THEN /\ registrations' = registrations \cup {<<id, request[q].ref>>}
          /\ bank' = bank \cup {id} /\ Goto(q, "create")
     ELSE Ends(q) /\ UNCHANGED <<registrations, bank>>
  /\ UNCHANGED <<payment, drawn, answers, history, faults>>

SetStatus(id, s) == payment' = [payment EXCEPT ![id].status = s]

\* CreateStoredMonobankInvoice: the bank answers with an invoice and a page ...
InvoiceAnswered(q) ==
  /\ request[q].pc = "create"
  /\ Goto(q, "store")
  /\ UNCHANGED <<payment, registrations, bank, drawn, answers, history, faults>>

\* ... or with an error, a timeout included: it may have an invoice all the same.
InvoiceFails(q) ==
  /\ request[q].pc = "create"
  /\ faults < MaxFaults
  /\ faults' = faults + 1
  /\ Goto(q, "fail")
  /\ UNCHANGED <<payment, registrations, bank, drawn, answers, history>>

\* A variant that forgets whether a report has reached the row meanwhile.
CreatedOrReported(c) == TRUE

\* The row has no invoice id: no report has reached it.
NotReported(c) == c.status = "creating_invoice"

MarkInvoiceCreationFailed(q) ==
  LET id == request[q].id IN
  /\ request[q].pc = "fail"
  /\ IF payment[id] # None /\ NotReported(payment[id])
     THEN SetStatus(id, "creation_failed")
     ELSE UNCHANGED payment
  /\ Ends(q)
  /\ UNCHANGED <<registrations, bank, drawn, answers, history, faults>>

\* The page is given out even if the payment is gone: no row updated is no error.
StoreCreatedInvoice(q) ==
  LET id == request[q].id IN
  /\ request[q].pc = "store"
  /\ payment' = IF payment[id] = None THEN payment
                ELSE [payment EXCEPT ![id].status = "invoice_created",
                                     ![id].page = TRUE]
  /\ Answers(q, id) /\ Ends(q)
  /\ UNCHANGED <<registrations, bank, drawn, history, faults>>

\* The server stops, or a statement of the request fails.
RequestAborts(q) ==
  /\ Crashes /\ request[q].pc \in {"register", "create", "fail", "store"}
  /\ faults < MaxFaults
  /\ faults' = faults + 1
  /\ Ends(q)
  /\ orphaned' = IF request[q].pc = "register" THEN orphaned \cup {request[q].id}
                 ELSE orphaned
  /\ UNCHANGED <<payment, registrations, bank, drawn, answers, forgotten, raced,
                 revived>>

-----------------------------------------------------------------------------
(* The rest of the system, as the checkout sees it.                          *)

\* Where the request is that creates payment id.
Stage(id) ==
  LET its == {q \in Requests : request[q].id = id} IN
  CASE id \notin drawn -> "none"
    [] \E q \in its : request[q].pc \in {"register", "create"} -> "calling"
    [] \E q \in its : request[q].pc = "fail" -> "failing"
    [] \E q \in its : request[q].pc = "store" -> "storing"
    [] OTHER -> "done"

GivenOut(id) == \E a \in answers : a[2] = id

SeenOf(id) ==
  [status |-> IF payment[id] = None THEN "creating_invoice" ELSE payment[id].status,
   page |-> IF payment[id] = None THEN FALSE ELSE payment[id].page]

Life == INSTANCE PaymentLife WITH
  Payments <- Ids, stage <- [id \in Ids |-> Stage(id)], there <- Live,
  seen <- [id \in Ids |-> SeenOf(id)], invoiced <- bank,
  opened <- {id \in Ids : GivenOut(id)}

\* The reports, the expiry job and the admin move a payment, as Payments does.
StatusChanges(id) ==
  /\ payment[id] # None /\ id \in bank
  /\ \E s \in Outcomes \cap Life!Reached(GivenOut(id)) :
       LET revives == payment[id].status \notin ActiveStatuses /\ s \in ActiveStatuses
       IN  /\ revives => LateReports
           /\ SetStatus(id, s)
           /\ revived' = IF revives THEN revived \cup {id} ELSE revived
  /\ UNCHANGED <<registrations, request, bank, drawn, answers, forgotten, raced,
                 orphaned, faults>>

\* A variant of the table whose registrations outlive their payment.
Orphans(id) == registrations

\* The rows on delete cascade leaves in external_registrations.
Cascade(id) == {g \in registrations : g[1] # id}

\* An admin deletes the payment of a registration that is not finalized.
Delete(id) ==
  /\ Deletions /\ payment[id] # None /\ \E g \in registrations : g[1] = id
  /\ payment[id].status \notin {"paid", "processing"}
  /\ payment' = [payment EXCEPT ![id] = None]
  /\ registrations' = Cascade(id)
  /\ forgotten' = forgotten \cup {payment[id].ref}
  /\ UNCHANGED <<request, bank, drawn, answers, raced, revived, orphaned, faults>>

Serve(q) ==
  \/ FindPaymentByIdempotencyKey(q) \/ FindActiveDuplicate(q)
  \/ CreatePendingInvoice(q) \/ Upsert(q) \/ InvoiceAnswered(q)
  \/ InvoiceFails(q) \/ MarkInvoiceCreationFailed(q) \/ StoreCreatedInvoice(q)
  \/ RequestAborts(q)

Next ==
  \/ \E q \in Requests : (\E r \in Refs : Begin(q, r)) \/ Serve(q)
  \/ \E id \in Ids : StatusChanges(id) \/ Delete(id)

Spec == Init /\ [][Next]_vars

-----------------------------------------------------------------------------
\* Every variable has its type.
TypeOK ==
  /\ payment \in [Ids -> Rows \cup {None}]
  /\ request \in [Requests ->
       [pc : {"idle", "lookup", "duplicate", "insert", "register", "create", "fail",
              "store"},
        ref : Refs \cup {None}, id : Ids \cup {None}]]
  /\ registrations \subseteq Ids \X Refs
  /\ bank \subseteq Ids /\ drawn \subseteq Ids
  /\ answers \subseteq Refs \X Ids /\ forgotten \subseteq Refs
  /\ raced \subseteq Refs \X Refs /\ revived \subseteq Ids /\ orphaned \subseteq Ids
  /\ faults \in 0 .. MaxFaults

\* Whatever requests for one reference do at a time, and however often they are
\* repeated, the shop is given one page, unless an admin deleted the payment.
SamePageOnRetry ==
  \A a, b \in answers : a[1] = b[1] /\ a[2] # b[2] => a[1] \in forgotten

\* A registration is never refused once its payment was inserted: by the time
\* it is made the payment is still there, and no other registration has the
\* reference, although the upsert only names a conflict on payment_id.
RegistrationNeverRefused ==
  \A q \in Requests :
    request[q].pc = "register" => Registrable(request[q].ref, request[q].id)

\* A reference that is answered with a 409 for want of an invoice can be freed:
\* once no request works on it, its payment has a registration to delete, unless
\* the request ended between the insert of the payment and of its registration: the
\* server stopped there, or the statement that makes the registration failed.
StuckIsDeletable ==
  \A id \in Live :
    \/ payment[id].page \/ id \in orphaned
    \/ \E q \in Requests : request[q].id = id
    \/ \E g \in registrations : g[1] = id

Active(id) == payment[id] # None /\ payment[id].status \in ActiveStatuses

\* Each of two registrations finds the other as a duplicate.
Alike(r, s) == {<<r, s>>, <<s, r>>} \subseteq Similar

\* A participant never has two active payments ("This participant already has an
\* active participation payment.", external_checkout.go).
OneActivePerParticipant ==
  \A g, k \in registrations :
    g # k /\ Alike(g[2], k[2]) => ~(Active(g[1]) /\ Active(k[1]))

\* Nothing but an overlap of two requests beyond their search for a duplicate, a
\* late report, or references that differ in their case gives a participant two
\* active payments: no crash, failed call, deletion, expiry or retry does.
OneActiveUnlessRaced ==
  \A g, k \in registrations :
    g # k /\ Alike(g[2], k[2]) /\ Active(g[1]) /\ Active(k[1]) =>
      \/ {<<g[2], k[2]>>, <<k[2], g[2]>>} \cap (raced \cup SameUpToCase) # {}
      \/ g[1] \in revived \/ k[1] \in revived

\* The requests, their crashes and the deletions are a life of PaymentLife for each
\* payment: what Payments implements statement by statement is all that the
\* checkout relies on.
CheckoutLifeKept == Life!Spec
=============================================================================
