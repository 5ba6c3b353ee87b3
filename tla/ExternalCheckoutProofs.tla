----------------------- MODULE ExternalCheckoutProofs -----------------------
(***************************************************************************)
(* Proofs about ExternalCheckout for any number of references, requests    *)
(* and payments, with crashes, failed calls and deletions: a reference has *)
(* one payment at a time, its registration is never refused, and a shop    *)
(* that repeats a request is given the same page.                          *)
(*                                                                         *)
(* The inductive invariant follows an id from the request that drew it:    *)
(* every request, every registration and every answer that knows an id     *)
(* knows the reference of its row, or the row was deleted, which only      *)
(* happens to a row with a registration.  On it rest two further           *)
(* invariants: a request that has registered keeps its payment deletable,  *)
(* and two requests for one participant have seen each other or overlap.   *)
(***************************************************************************)
EXTENDS ExternalCheckout, TLAPS

\* The history that only properties read.
HistoryType ==
  raced \subseteq Refs \X Refs /\ revived \subseteq Ids /\ orphaned \subseteq Ids

\* An id with the reference it was drawn for: its row has the reference, or the
\* row was deleted.
Knows(id, r) ==
  \/ id \in Live /\ payment[id].ref = r
  \/ id \in Ids \ Live /\ r \in forgotten

\* The index on idempotency_key: one row for a reference, by ids that were drawn.
OneRow ==
  /\ Live \subseteq drawn
  /\ \A i, j \in Live : payment[i].ref = payment[j].ref => i = j

\* What the requests hold: ids that were drawn, each by one request.
Holding ==
  \A q \in Requests :
    /\ request[q].pc # "idle" => request[q].ref \in Refs
    /\ request[q].id # None <=> request[q].pc \in {"register", "create", "fail", "store"}
    /\ request[q].id # None =>
         /\ request[q].id \in drawn /\ Knows(request[q].id, request[q].ref)
         /\ \A p \in Requests : request[p].id = request[q].id => p = q

\* The registrations belong to rows with their reference, and the row of a
\* request that has not registered yet is there and has none.
Registered ==
  /\ \A g \in registrations : g[1] \in Live /\ payment[g[1]].ref = g[2]
  /\ \A q \in Requests : request[q].pc = "register" =>
       /\ request[q].id \in Live
       /\ \A g \in registrations : g[1] # request[q].id

\* Every page that was given out was that of its reference's row.
Answered == \A a \in answers : a[2] \in drawn /\ Knows(a[2], a[1])

IInv == TypeOK /\ OneRow /\ Holding /\ Registered /\ Answered

-----------------------------------------------------------------------------
\* The empty tables satisfy the invariant.
LEMMA InvInit == Init => IInv
BY FaultBound DEF Init, IInv, TypeOK, OneRow, Holding, Registered, Answered, Idle,
                  Live, Rows

\* A request that ends, or whose statement changes no table, keeps the invariant:
\* it holds what it held, or nothing.
LEMMA InvMoves ==
  ASSUME IInv, NEW q \in Requests,
         \/ Ends(q)
         \/ Goto(q, "duplicate") /\ request[q].pc = "lookup"
         \/ Goto(q, "insert") /\ request[q].pc = "duplicate"
         \/ (Goto(q, "store") \/ Goto(q, "fail")) /\ request[q].pc = "create",
         UNCHANGED <<payment, registrations, drawn, answers, forgotten>>,
         bank' \subseteq Ids, faults' \in 0 .. MaxFaults, HistoryType'
  PROVE  IInv'
<1>1. request[q] \in [pc : {"idle", "lookup", "duplicate", "insert", "register",
                            "create", "fail", "store"},
                      ref : Refs \cup {None}, id : Ids \cup {None}]
  BY DEF IInv, TypeOK
<1>2. /\ \A p \in Requests : p # q => request'[p] = request[p]
      /\ \/ request'[q] = Idle
         \/ /\ request'[q].ref = request[q].ref /\ request'[q].id = request[q].id
            /\ request'[q].ref \in Refs
            /\ request'[q].pc \in {"lookup", "duplicate", "insert", "fail", "store"}
            /\ request'[q].pc \in {"fail", "store"} <=> request[q].pc = "create"
            /\ request'[q].pc \notin {"fail", "store"} =>
                 request[q].pc \notin {"register", "create", "fail", "store"}
  BY <1>1 DEF Ends, Goto, IInv, TypeOK, Holding
<1>3. TypeOK'
  BY <1>1 DEF Ends, Goto, Idle, IInv, TypeOK, HistoryType
<1>4. OneRow'
  BY DEF IInv, OneRow, Live
<1>5. Holding'
  BY <1>2 DEF IInv, Holding, Knows, Live, Idle
<1>6. Registered'
  BY <1>2 DEF IInv, Registered, Live, Idle
<1>7. Answered'
  BY DEF IInv, Answered, Knows, Live
<1> QED
  BY <1>3, <1>4, <1>5, <1>6, <1>7 DEF IInv

\* A new request holds a reference and no id.
LEMMA InvBegin ==
  ASSUME IInv, NEW q \in Requests, NEW r \in Refs, Begin(q, r)
  PROVE  IInv'
<1>1. /\ request' = [request EXCEPT ![q] = [pc |-> "lookup", ref |-> r, id |-> None]]
      /\ UNCHANGED <<payment, registrations, bank, drawn, answers, history, faults>>
  BY DEF Begin
<1>2. TypeOK'
  BY <1>1 DEF IInv, TypeOK, history
<1>3. Holding'
  BY <1>1 DEF IInv, TypeOK, Holding, Knows, Live, history
<1>4. Registered'
  BY <1>1 DEF IInv, TypeOK, Registered, Live
<1> QED
  BY <1>1, <1>2, <1>3, <1>4 DEF IInv, OneRow, Answered, Knows, Live, history

\* The lookup answers with the page of the reference's row.
LEMMA InvLookup ==
  ASSUME IInv, NEW q \in Requests, FindPaymentByIdempotencyKey(q)
  PROVE  IInv'
<1>1. UNCHANGED <<payment, registrations, bank, drawn, forgotten, raced, revived,
                  orphaned, faults>>
  BY DEF FindPaymentByIdempotencyKey, history
<1>2. bank' \subseteq Ids /\ faults' \in 0 .. MaxFaults /\ HistoryType'
  BY <1>1 DEF IInv, TypeOK, HistoryType
<1>3. CASE UNCHANGED answers
  BY <1>1, <1>2, <1>3, InvMoves DEF FindPaymentByIdempotencyKey
<1>4. CASE \E id \in Of(request[q].ref) : Ends(q) /\ Answers(q, id)
  <2>1. PICK id \in Of(request[q].ref) : Ends(q) /\ Answers(q, id)
    BY <1>4
  <2>2. /\ id \in Ids /\ id \in Live /\ id \in drawn
        /\ payment[id].ref = request[q].ref /\ request[q].ref \in Refs
        /\ request[q].pc = "lookup"
    BY DEF Of, Live, IInv, OneRow, Holding, FindPaymentByIdempotencyKey
  <2>3. TypeOK'
    BY <1>1, <2>1, <2>2 DEF Ends, Answers, Idle, IInv, TypeOK
  <2>4. Holding'
    BY <1>1, <2>1, <2>2 DEF Ends, Idle, IInv, TypeOK, Holding, Knows, Live
  <2>5. Registered'
    BY <1>1, <2>1, <2>2 DEF Ends, Idle, IInv, TypeOK, Registered, Live
  <2>6. Answered'
    BY <1>1, <2>1, <2>2 DEF Answers, IInv, Answered, Knows, Live
  <2> QED
    BY <1>1, <2>3, <2>4, <2>5, <2>6 DEF IInv, OneRow, Live
<1> QED
  BY <1>3, <1>4 DEF FindPaymentByIdempotencyKey

\* The insert draws a new id, for a reference that has no row.
LEMMA InvInsert ==
  ASSUME IInv, NEW q \in Requests, CreatePendingInvoice(q)
  PROVE  IInv'
<1> DEFINE r == request[q].ref
<1>1. UNCHANGED <<registrations, bank, answers, forgotten, raced, revived, orphaned,
                  faults>>
  BY DEF CreatePendingInvoice, history
<1>2. CASE Ends(q) /\ UNCHANGED <<payment, drawn>>
  <2>1. bank' \subseteq Ids /\ faults' \in 0 .. MaxFaults /\ HistoryType'
    BY <1>1 DEF IInv, TypeOK, HistoryType
  <2> QED
    BY <1>1, <1>2, <2>1, InvMoves
<1>3. CASE UniqueKey(r) /\ \E id \in Ids \ drawn :
             /\ drawn' = drawn \cup {id}
             /\ payment' = [payment EXCEPT ![id] =
                  [ref |-> r, status |-> "creating_invoice", page |-> FALSE]]
             /\ request' = [request EXCEPT ![q] =
                  [pc |-> "register", ref |-> r, id |-> id]]
  <2>1. PICK id \in Ids \ drawn :
             /\ drawn' = drawn \cup {id}
             /\ payment' = [payment EXCEPT ![id] =
                  [ref |-> r, status |-> "creating_invoice", page |-> FALSE]]
             /\ request' = [request EXCEPT ![q] =
                  [pc |-> "register", ref |-> r, id |-> id]]
    BY <1>3
  <2>2. r \in Refs /\ r # None /\ id # None
    BY NoneIsNew DEF IInv, Holding, CreatePendingInvoice
  <2>3. id \notin Live /\ \A i \in Live : payment[i].ref # r
    BY <1>3 DEF UniqueKey, Of, IInv, OneRow
  <2> HIDE DEF r
  <2>4. /\ Live' = Live \cup {id}
        /\ payment'[id].ref = r
        /\ \A i \in Live : payment'[i] = payment[i]
    <3> DEFINE c == [ref |-> r, status |-> "creating_invoice", page |-> FALSE]
    <3>1. c \in [ref : Refs, status : StatusSet, page : BOOLEAN]
      BY <2>2 DEF StatusSet
    <3>2. c # None
      BY <3>1, NoneIsNoRow
    <3> QED
      BY <2>1, <2>3, <3>2 DEF IInv, TypeOK, Live
  <2>5. TypeOK'
    BY <1>1, <2>1, <2>2 DEF IInv, TypeOK, Rows, StatusSet
  <2>6. OneRow'
    BY <2>1, <2>3, <2>4 DEF IInv, OneRow
  <2>7. \A i \in drawn : \A s : Knows(i, s) => Knows(i, s)'
    BY <1>1, <2>1, <2>4 DEF Knows
  <2>8. Holding'
    BY <1>1, <2>1, <2>2, <2>4, <2>7 DEF IInv, TypeOK, Holding, Knows
  <2>9. Registered'
    <3>1. \A g \in registrations : g[1] # id
      BY <2>3 DEF IInv, Registered
    <3> QED
      BY <1>1, <2>1, <2>4, <3>1 DEF IInv, TypeOK, Registered
  <2>10. Answered'
    BY <1>1, <2>1, <2>7 DEF IInv, Answered
  <2> QED
    BY <2>5, <2>6, <2>8, <2>9, <2>10 DEF IInv
<1> QED
  BY <1>2, <1>3 DEF CreatePendingInvoice

\* The registration is made: the row is there, and no registration has its
\* reference, because such a registration's row would be the same one.
LEMMA Unrefused == IInv => RegistrationNeverRefused
<1> SUFFICES ASSUME IInv, NEW q \in Requests, request[q].pc = "register"
             PROVE  Registrable(request[q].ref, request[q].id)
  BY DEF RegistrationNeverRefused
<1>1. /\ request[q].id \in Live /\ request[q].id \in Ids
      /\ payment[request[q].id] # None
      /\ payment[request[q].id].ref = request[q].ref
  BY DEF IInv, Registered, Holding, Knows, Live
<1>2. \A g \in registrations : g[2] = request[q].ref => g[1] = request[q].id
  BY <1>1 DEF IInv, Registered, OneRow
<1> QED
  BY <1>1, <1>2 DEF Registrable

LEMMA InvUpsert ==
  ASSUME IInv, NEW q \in Requests, Upsert(q)
  PROVE  IInv'
<1> DEFINE id == request[q].id
           r == request[q].ref
<1>1. /\ request[q].pc = "register"
      /\ registrations' = registrations \cup {<<id, r>>} /\ bank' = bank \cup {id}
      /\ request' = [request EXCEPT ![q].pc = "create"]
      /\ UNCHANGED <<payment, drawn, answers, forgotten, raced, revived, orphaned,
                     faults>>
  BY Unrefused DEF Upsert, RegistrationNeverRefused, Goto, history
<1>2. id \in Live /\ id \in Ids /\ payment[id].ref = r /\ r \in Refs
  BY <1>1 DEF IInv, Registered, Holding, Knows, Live
<1>3. \A p \in Requests : /\ request'[p].id = request[p].id
                          /\ request'[p].ref = request[p].ref
                          /\ p # q => request'[p] = request[p]
                          /\ p = q => request'[p].pc = "create"
  BY <1>1 DEF IInv, TypeOK
<1>4. \A p \in Requests : p # q => request[p].id # id \/ request[p].id = None
  BY <1>2 DEF IInv, Holding
<1>5. id # None
  BY <1>2, NoneIsNew
<1> HIDE DEF id, r
<1>6. TypeOK'
  BY <1>1, <1>2 DEF IInv, TypeOK
<1>7. Holding'
  BY <1>1, <1>3 DEF IInv, Holding, Knows, Live
<1>8. Registered'
  <2>1. \A g \in registrations' : g[1] \in Live' /\ payment'[g[1]].ref = g[2]
    BY <1>1, <1>2 DEF IInv, Registered, Live
  <2>2. ASSUME NEW p \in Requests, request'[p].pc = "register"
        PROVE  /\ request'[p].id \in Live'
               /\ \A g \in registrations' : g[1] # request'[p].id
    <3>1. p # q /\ request[p].pc = "register" /\ request'[p].id = request[p].id
      BY <1>3, <2>2
    <3>2. request[p].id # id
      BY <1>4, <1>5, <3>1
    <3> QED
      BY <1>1, <3>1, <3>2 DEF IInv, Registered, Live
  <2> QED
    BY <2>1, <2>2 DEF Registered
<1> QED
  BY <1>1, <1>6, <1>7, <1>8 DEF IInv, OneRow, Answered, Knows, Live

\* A statement that only writes the status or the page of a row.
LEMMA InvRow ==
  ASSUME IInv, NEW id \in Ids, NEW c \in Rows,
         payment[id] # None, c.ref = payment[id].ref,
         payment' = [payment EXCEPT ![id] = c]
  PROVE  /\ payment' \in [Ids -> Rows \cup {None}] /\ Live' = Live
         /\ \A i \in Live : payment'[i].ref = payment[i].ref
<1>1. c # None
  BY NoneIsNoRow DEF Rows
<1> QED
  BY <1>1 DEF IInv, TypeOK, Live

\* Such a statement, with a request that ends or stays and perhaps an answer of
\* what the request holds.
LEMMA InvRowStep ==
  ASSUME IInv, Live' = Live, payment' \in [Ids -> Rows \cup {None}],
         \A i \in Live : payment'[i].ref = payment[i].ref,
         UNCHANGED <<registrations, drawn, forgotten>>,
         bank' \subseteq Ids, faults' \in 0 .. MaxFaults, HistoryType',
         NEW q \in Requests,
         \/ UNCHANGED <<request, answers>>
         \/ Ends(q) /\ UNCHANGED answers
         \/ request[q].pc = "store" /\ Ends(q) /\ Answers(q, request[q].id)
  PROVE  IInv'
<1>1. \A i, s : Knows(i, s) => Knows(i, s)'
  BY DEF Knows
<1>2. /\ request' \in [Requests ->
           [pc : {"idle", "lookup", "duplicate", "insert", "register", "create", "fail", "store"},
            ref : Refs \cup {None}, id : Ids \cup {None}]]
      /\ \A p \in Requests : request'[p] = request[p] \/ request'[p] = Idle
  BY DEF Ends, Idle, IInv, TypeOK
<1>3. answers' \subseteq Refs \X Ids /\ Answered'
  <2>1. CASE UNCHANGED answers
    BY <1>1, <2>1 DEF IInv, TypeOK, Answered
  <2>2. CASE request[q].pc = "store" /\ Answers(q, request[q].id)
    <3>1. /\ request[q].id \in drawn /\ request[q].ref \in Refs
          /\ Knows(request[q].id, request[q].ref) /\ request[q].id \in Ids
      BY <2>2, NoneIsNew DEF IInv, TypeOK, Holding
    <3> QED
      BY <1>1, <2>2, <3>1 DEF Answers, IInv, TypeOK, Answered
  <2> QED
    BY <2>1, <2>2
<1>4. TypeOK'
  BY <1>2, <1>3 DEF IInv, TypeOK, HistoryType
<1>5. OneRow'
  BY DEF IInv, OneRow
<1>6. Holding'
  BY <1>1, <1>2 DEF IInv, Holding, Idle
<1>7. Registered'
  BY <1>2 DEF IInv, Registered, Idle
<1> QED
  BY <1>3, <1>4, <1>5, <1>6, <1>7 DEF IInv

\* The creation of the invoice, its failure and its storing.
LEMMA InvInvoice ==
  ASSUME IInv, NEW q \in Requests,
         \/ InvoiceAnswered(q) \/ InvoiceFails(q) \/ MarkInvoiceCreationFailed(q)
         \/ StoreCreatedInvoice(q) \/ RequestAborts(q) \/ FindActiveDuplicate(q)
  PROVE  IInv'
<1> DEFINE id == request[q].id
<1>1. /\ request[q].pc \in {"create", "fail", "store"} => id \in Ids
      /\ bank \subseteq Ids /\ faults \in 0 .. MaxFaults
      /\ payment \in [Ids -> Rows \cup {None}]
      /\ UNCHANGED history => HistoryType' /\ UNCHANGED forgotten
  BY DEF IInv, TypeOK, Holding, HistoryType, history
<1>2. faults < MaxFaults => faults + 1 \in 0 .. MaxFaults
  BY <1>1, FaultBound
<1>3. CASE InvoiceAnswered(q)
  BY <1>1, <1>3, InvMoves DEF InvoiceAnswered
<1>4. CASE RequestAborts(q)
  <2>1. HistoryType'
    BY <1>4 DEF RequestAborts, HistoryType, IInv, TypeOK, Holding
  <2> QED
    BY <1>1, <1>2, <1>4, <2>1, InvMoves DEF RequestAborts
<1>5. CASE FindActiveDuplicate(q)
  <2>1. CASE Ends(q) /\ UNCHANGED history
    BY <1>1, <1>5, <2>1, InvMoves DEF FindActiveDuplicate
  <2>2. CASE Passes(q)
    <3>1. HistoryType' /\ UNCHANGED forgotten
      BY <1>5, <2>2 DEF FindActiveDuplicate, Passes, Passed, HistoryType, IInv,
                        TypeOK, Holding
    <3> QED
      BY <1>1, <1>5, <2>2, <3>1, InvMoves DEF FindActiveDuplicate, Passes
  <2> QED
    BY <1>5, <2>1, <2>2 DEF FindActiveDuplicate
<1>6. CASE InvoiceFails(q)
  <2>1. faults' \in 0 .. MaxFaults /\ HistoryType' /\ UNCHANGED forgotten
    BY <1>1, <1>2, <1>6 DEF InvoiceFails
  <2> QED
    BY <1>1, <1>6, <2>1, InvMoves DEF InvoiceFails
<1>8. CASE MarkInvoiceCreationFailed(q)
  <2>1. /\ bank' \subseteq Ids /\ faults' \in 0 .. MaxFaults /\ Ends(q)
        /\ UNCHANGED <<registrations, drawn, answers, forgotten>> /\ HistoryType'
    BY <1>1, <1>8 DEF MarkInvoiceCreationFailed
  <2>2. CASE UNCHANGED payment
    BY <2>1, <2>2, InvMoves
  <2>3. CASE payment[id] # None /\ SetStatus(id, "creation_failed")
    <3>1. /\ id \in Ids
          /\ payment' = [payment EXCEPT ![id] =
                           [payment[id] EXCEPT !.status = "creation_failed"]]
          /\ [payment[id] EXCEPT !.status = "creation_failed"] \in Rows
          /\ [payment[id] EXCEPT !.status = "creation_failed"].ref = payment[id].ref
      BY <1>1, <1>8, <2>3 DEF MarkInvoiceCreationFailed, SetStatus, Rows, StatusSet
    <3> QED
      BY <2>1, <2>3, <3>1, InvRow, InvRowStep
  <2> QED
    BY <1>8, <2>2, <2>3 DEF MarkInvoiceCreationFailed
<1>7. CASE StoreCreatedInvoice(q)
  <2>1. /\ bank' \subseteq Ids /\ faults' \in 0 .. MaxFaults
        /\ request[q].pc = "store" /\ Ends(q) /\ Answers(q, id)
        /\ UNCHANGED <<registrations, drawn, forgotten>> /\ HistoryType'
    BY <1>1, <1>7 DEF StoreCreatedInvoice
  <2>2. CASE UNCHANGED payment
    BY <1>1, <2>1, <2>2, InvRowStep DEF Live
  <2>3. CASE /\ payment[id] # None
             /\ payment' = [payment EXCEPT ![id].status = "invoice_created",
                                            ![id].page = TRUE]
    <3> DEFINE c == [payment[id] EXCEPT !.status = "invoice_created", !.page = TRUE]
    <3>1. /\ id \in Ids /\ payment' = [payment EXCEPT ![id] = c]
          /\ c \in Rows /\ c.ref = payment[id].ref
      BY <1>1, <2>1, <2>3 DEF Rows, StatusSet
    <3> QED
      BY <2>1, <2>3, <3>1, InvRow, InvRowStep
  <2> QED
    BY <1>7, <2>2, <2>3 DEF StoreCreatedInvoice
<1> QED
  BY <1>3, <1>4, <1>5, <1>6, <1>7, <1>8

\* A change of status at the bank.
LEMMA InvStatus ==
  ASSUME IInv, NEW id \in Ids, StatusChanges(id)
  PROVE  IInv'
<1>1. PICK s \in StatusSet : SetStatus(id, s)
  BY DEF StatusChanges, Life!Reached, StatusSet
<1>2. /\ payment[id] # None
      /\ payment' = [payment EXCEPT ![id] = [payment[id] EXCEPT !.status = s]]
      /\ [payment[id] EXCEPT !.status = s] \in Rows
      /\ [payment[id] EXCEPT !.status = s].ref = payment[id].ref
      /\ UNCHANGED <<registrations, request, bank, drawn, answers, forgotten,
                     faults>>
      /\ HistoryType'
  <2>1. /\ payment[id] # None
        /\ UNCHANGED <<registrations, request, bank, drawn, answers, forgotten,
                       faults>>
        /\ HistoryType'
    BY DEF StatusChanges, IInv, TypeOK, HistoryType
  <2>2. payment[id] \in Rows /\ payment \in [Ids -> Rows \cup {None}]
    BY <2>1 DEF IInv, TypeOK
  <2>3. payment' = [payment EXCEPT ![id] = [payment[id] EXCEPT !.status = s]]
    BY <1>1 DEF SetStatus
  <2>4. /\ [payment[id] EXCEPT !.status = s] \in Rows
        /\ [payment[id] EXCEPT !.status = s].ref = payment[id].ref
    BY <2>2 DEF Rows
  <2> QED
    BY <2>1, <2>3, <2>4
<1>3. /\ payment' \in [Ids -> Rows \cup {None}] /\ Live' = Live
      /\ \A i \in Live : payment'[i].ref = payment[i].ref
  BY <1>2, InvRow
<1> QED
  BY <1>2, <1>3
  DEF IInv, TypeOK, HistoryType, OneRow, Holding, Registered, Answered, Knows

\* A deletion takes the row and its registration, and its reference is recorded
\* as forgotten for the requests and answers that still know its id.
LEMMA InvDelete ==
  ASSUME IInv, NEW id \in Ids, Delete(id)
  PROVE  IInv'
<1>1. /\ payment[id] # None
      /\ payment' = [payment EXCEPT ![id] = None]
      /\ registrations' = {g \in registrations : g[1] # id}
      /\ forgotten' = forgotten \cup {payment[id].ref}
      /\ UNCHANGED <<request, bank, drawn, answers, raced, revived, orphaned, faults>>
  BY DEF Delete, Cascade
<1>2. /\ Live' = Live \ {id} /\ id \in Live
      /\ \A i \in Live' : payment'[i] = payment[i]
  BY <1>1 DEF IInv, TypeOK, Live
<1>3. payment[id].ref \in Refs
  BY <1>1 DEF IInv, TypeOK, Rows
<1>4. \A i, s : Knows(i, s) => Knows(i, s)'
  BY <1>1, <1>2 DEF Knows
<1>5. TypeOK'
  BY <1>1, <1>3 DEF IInv, TypeOK
<1>6. OneRow'
  BY <1>1, <1>2 DEF IInv, OneRow
<1>7. Holding'
  BY <1>1, <1>4 DEF IInv, Holding
<1>8. Registered'
  <2>1. \E g \in registrations : g[1] = id
    BY DEF Delete
  <2>2. \A q \in Requests : request[q].pc = "register" => request[q].id # id
    BY <2>1 DEF IInv, Registered
  <2> QED
    BY <1>1, <1>2, <2>2 DEF IInv, Registered
<1>9. Answered'
  BY <1>1, <1>4 DEF IInv, Answered
<1> QED
  BY <1>5, <1>6, <1>7, <1>8, <1>9 DEF IInv

-----------------------------------------------------------------------------
\* Every step keeps the invariant.
LEMMA InvStep == IInv /\ [Next]_vars => IInv'
<1> SUFFICES ASSUME IInv, [Next]_vars
             PROVE  IInv'
  OBVIOUS
<1>1. CASE UNCHANGED vars
  BY <1>1
  DEF vars, history, IInv, TypeOK, OneRow, Holding, Registered, Answered, Knows, Live
<1>2. CASE \E q \in Requests : (\E r \in Refs : Begin(q, r)) \/ Serve(q)
  BY <1>2, InvBegin, InvLookup, InvInsert, InvUpsert, InvInvoice DEF Serve
<1>3. CASE \E id \in Ids : StatusChanges(id) \/ Delete(id)
  BY <1>3, InvStatus, InvDelete
<1> QED
  BY <1>1, <1>2, <1>3 DEF Next

LEMMA Invariance == Spec => []IInv
BY InvInit, InvStep, PTL DEF Spec

\* The variables of the checkout have their types in every state.
THEOREM CheckoutTypeCorrect == Spec => []TypeOK
<1>1. IInv => TypeOK
  BY DEF IInv
<1> QED
  BY <1>1, Invariance, PTL

\* However requests for a reference overlap, fail and are repeated, the shop is
\* given one page for it, unless an admin deleted the reference's payment.
THEOREM OnePagePerReference == Spec => []SamePageOnRetry
<1>1. IInv => SamePageOnRetry
  BY DEF IInv, OneRow, Answered, Knows, SamePageOnRetry
<1> QED
  BY <1>1, Invariance, PTL

\* No registration is refused after its payment was inserted.
THEOREM RegistrationsAreAccepted == Spec => []RegistrationNeverRefused
BY Unrefused, Invariance, PTL

-----------------------------------------------------------------------------
(* StuckIsDeletable: a request that is past its registration has one for as  *)
(* long as its payment is there, so that what it leaves behind is listed.    *)

HasRegistration(id) == \E g \in registrations : g[1] = id

\* A request whose invoice is being created has registered.
PastRegistration ==
  \A q \in Requests :
    request[q].pc \in {"create", "fail", "store"} /\ request[q].id \in Live =>
      HasRegistration(request[q].id)

Freed == PastRegistration /\ StuckIsDeletable

\* A step that leaves each row and its registration, or takes both, and each
\* request, or ends one that had registered, keeps Freed.
LEMMA FreedFrame ==
  ASSUME IInv, Freed, Live' \subseteq Live, orphaned \subseteq orphaned',
         \A id \in Live' : /\ payment[id].page => payment'[id].page
                           /\ HasRegistration(id) => HasRegistration(id)',
         \A q \in Requests :
           \/ request'[q].id = request[q].id
                /\ (request'[q].pc \in {"create", "fail", "store"} =>
                      request[q].pc \in {"create", "fail", "store"})
           \/ request'[q] = Idle /\
                (request[q].pc = "register" => request[q].id \in orphaned')
  PROVE  Freed'
<1>1. Holding /\ None \notin Live'
  BY NoneIsNew DEF IInv, Live
<1>2. PastRegistration'
  BY <1>1 DEF Freed, PastRegistration, Idle
<1>3. StuckIsDeletable'
  <2> SUFFICES ASSUME NEW id \in Live', ~HasRegistration(id)',
                      \A q \in Requests : request'[q].id # id
               PROVE  payment'[id].page \/ id \in orphaned'
    BY DEF StuckIsDeletable, HasRegistration
  <2>1. id \in Live /\ id # None /\ ~HasRegistration(id)
    BY <1>1
  <2>2. CASE payment[id].page \/ id \in orphaned
    BY <2>2
  <2>3. CASE \E q \in Requests : request[q].id = id
    <3>1. PICK q \in Requests : request[q].id = id
      BY <2>3
    <3>2. request'[q] = Idle /\ request[q].pc \in {"register", "create", "fail", "store"}
      BY <1>1, <2>1, <3>1 DEF Holding
    <3>3. request[q].pc \notin {"create", "fail", "store"}
      BY <2>1, <3>1 DEF Freed, PastRegistration
    <3> QED
      BY <3>1, <3>2, <3>3, <1>1 DEF Idle
  <2> QED
    BY <2>1, <2>2, <2>3 DEF Freed, StuckIsDeletable, HasRegistration
<1> QED
  BY <1>2, <1>3 DEF Freed

\* The steps of a request keep Freed.
LEMMA FreedServe ==
  ASSUME IInv, Freed, NEW q \in Requests, Serve(q)
  PROVE  Freed'
<1>1. /\ TypeOK /\ Holding
      /\ request[q] \in [pc : {"idle", "lookup", "duplicate", "insert", "register",
                               "create", "fail", "store"},
                         ref : Refs \cup {None}, id : Ids \cup {None}]
  BY DEF IInv, TypeOK
<1>2. ASSUME \/ Ends(q) /\ (request[q].pc = "register" => request[q].id \in orphaned')
             \/ Goto(q, "duplicate") \/ Goto(q, "insert")
             \/ (Goto(q, "store") \/ Goto(q, "fail")) /\ request[q].pc = "create",
             UNCHANGED <<payment, registrations>>, orphaned \subseteq orphaned'
      PROVE  Freed'
  <2>1. \A p \in Requests :
           \/ request'[p].id = request[p].id
                /\ (request'[p].pc \in {"create", "fail", "store"} =>
                      request[p].pc \in {"create", "fail", "store"})
           \/ request'[p] = Idle /\
                (request[p].pc = "register" => request[p].id \in orphaned')
    BY <1>1, <1>2 DEF Ends, Goto, TypeOK
  <2> QED
    BY <1>2, <2>1, FreedFrame DEF Live, HasRegistration
<1>3. CASE FindPaymentByIdempotencyKey(q)
  BY <1>2, <1>3 DEF FindPaymentByIdempotencyKey, history
<1>4. CASE FindActiveDuplicate(q)
  BY <1>2, <1>4 DEF FindActiveDuplicate, Passes, history
<1>5. CASE InvoiceAnswered(q) \/ InvoiceFails(q)
  BY <1>2, <1>5 DEF InvoiceAnswered, InvoiceFails, history
<1>6. CASE RequestAborts(q)
  BY <1>2, <1>6 DEF RequestAborts
<1>7. CASE CreatePendingInvoice(q)
  <2>1. CASE Ends(q) /\ UNCHANGED <<payment, drawn>>
    BY <1>2, <1>7, <2>1 DEF CreatePendingInvoice, history
  <2>2. CASE \E id \in Ids \ drawn :
               /\ payment' = [payment EXCEPT ![id] =
                    [ref |-> request[q].ref, status |-> "creating_invoice",
                     page |-> FALSE]]
               /\ request' = [request EXCEPT ![q] =
                    [pc |-> "register", ref |-> request[q].ref, id |-> id]]
    <3>1. PICK id \in Ids \ drawn :
               /\ payment' = [payment EXCEPT ![id] =
                    [ref |-> request[q].ref, status |-> "creating_invoice",
                     page |-> FALSE]]
               /\ request' = [request EXCEPT ![q] =
                    [pc |-> "register", ref |-> request[q].ref, id |-> id]]
      BY <2>2
    <3>2. /\ request[q].pc = "insert" /\ request[q].id = None
          /\ UNCHANGED <<registrations, orphaned>>
      BY <1>1, <1>7 DEF CreatePendingInvoice, history, Holding
    <3>3. \A i \in Live' : i # id => i \in Live /\ payment'[i] = payment[i]
      BY <3>1 DEF Live
    <3>4. \A p \in Requests : p # q => request'[p] = request[p]
      BY <3>1
    <3>5. request'[q].id = id /\ request'[q].pc = "register"
      BY <1>1, <3>1 DEF TypeOK
    <3>6. id \notin Live /\ \A p \in Requests : request[p].id # id
      <4>1. id \notin drawn /\ id # None
        BY NoneIsNew
      <4> QED
        BY <1>1, <4>1 DEF IInv, OneRow, Holding
    <3>7. PastRegistration'
      BY <3>2, <3>3, <3>4, <3>5, <3>6 DEF Freed, PastRegistration, HasRegistration
    <3>8. StuckIsDeletable'
      <4> SUFFICES ASSUME NEW i \in Live', i # id
                   PROVE  \/ payment'[i].page \/ i \in orphaned'
                          \/ \E p \in Requests : request'[p].id = i
                          \/ \E g \in registrations' : g[1] = i
        BY <3>5 DEF StuckIsDeletable
      <4>1. i \in Live /\ payment'[i] = payment[i] /\ i # None
        BY <3>3, NoneIsNew DEF Live
      <4> QED
        BY <3>2, <3>4, <4>1 DEF Freed, StuckIsDeletable
    <3> QED
      BY <3>7, <3>8 DEF Freed
  <2> QED
    BY <1>7, <2>1, <2>2 DEF CreatePendingInvoice
<1>8. CASE Upsert(q)
  <2>1. /\ registrations' = registrations \cup {<<request[q].id, request[q].ref>>}
        /\ Goto(q, "create") /\ UNCHANGED <<payment, orphaned>>
        /\ request[q].pc = "register"
    BY <1>8, Unrefused DEF Upsert, RegistrationNeverRefused, history
  <2>2. \A p \in Requests : /\ request'[p].id = request[p].id
                            /\ p # q => request'[p] = request[p]
    BY <1>1, <2>1 DEF Goto, TypeOK
  <2>3. \A i : HasRegistration(i) \/ i = request[q].id => HasRegistration(i)'
    <3> DEFINE new == <<request[q].id, request[q].ref>>
    <3>1. new \in registrations' /\ new[1] = request[q].id
      BY <2>1
    <3>2. \A g \in registrations : g \in registrations'
      BY <2>1
    <3> QED
      BY <3>1, <3>2 DEF HasRegistration
  <2>4. PastRegistration'
    BY <2>1, <2>2, <2>3 DEF Freed, PastRegistration, Live
  <2>5. StuckIsDeletable'
    <3> SUFFICES ASSUME NEW i \in Live'
                 PROVE  \/ payment'[i].page \/ i \in orphaned'
                        \/ \E p \in Requests : request'[p].id = i
                        \/ HasRegistration(i)'
      BY DEF StuckIsDeletable, HasRegistration
    <3> QED
      BY <2>1, <2>2, <2>3 DEF Freed, StuckIsDeletable, Live, HasRegistration
  <2> QED
    BY <2>4, <2>5 DEF Freed
<1>9. CASE MarkInvoiceCreationFailed(q) \/ StoreCreatedInvoice(q)
  <2>1. /\ request[q].pc \in {"create", "fail", "store"} /\ request[q].id \in Ids
        /\ Ends(q) /\ UNCHANGED <<registrations, orphaned>>
    BY <1>1, <1>9
    DEF MarkInvoiceCreationFailed, StoreCreatedInvoice, history, Holding, TypeOK
  <2>2. /\ Live' \subseteq Live
        /\ \A i \in Live : payment[i].page => payment'[i].page
    BY <1>1, <1>9, <2>1
    DEF MarkInvoiceCreationFailed, StoreCreatedInvoice, SetStatus, TypeOK, Live, Rows
  <2>3. \A p \in Requests :
           \/ request'[p] = request[p]
           \/ request'[p] = Idle /\ request[p].pc # "register"
    BY <1>1, <2>1 DEF Ends, TypeOK
  <2> QED
    BY <2>1, <2>2, <2>3, FreedFrame DEF HasRegistration
<1> QED
  BY <1>3, <1>4, <1>5, <1>6, <1>7, <1>8, <1>9 DEF Serve

\* So do the other steps: the cascade takes the registration with its row only.
LEMMA FreedStep == IInv /\ Freed /\ [Next]_vars => Freed'
<1> SUFFICES ASSUME IInv, Freed, [Next]_vars
             PROVE  Freed'
  OBVIOUS
<1>1. CASE UNCHANGED vars
  BY <1>1 DEF vars, history, Freed, PastRegistration, StuckIsDeletable, Live,
              HasRegistration
<1>2. ASSUME NEW q \in Requests, NEW r \in Refs, Begin(q, r)
      PROVE  Freed'
  <2>1. \A p \in Requests :
          /\ request'[p].id = request[p].id
          /\ request'[p].pc \in {"create", "fail", "store"} =>
               request[p].pc \in {"create", "fail", "store"}
    BY <1>2 DEF Begin, Idle, IInv, TypeOK
  <2> QED
    BY <1>2, <2>1, FreedFrame DEF Begin, history, Live, HasRegistration
<1>3. ASSUME NEW id \in Ids, StatusChanges(id)
      PROVE  Freed'
  <2>1. /\ Live' \subseteq Live
        /\ \A i \in Live : payment[i].page => payment'[i].page
    BY <1>3 DEF StatusChanges, SetStatus, IInv, TypeOK, Live, Rows
  <2> QED
    BY <1>3, <2>1, FreedFrame DEF StatusChanges, HasRegistration
<1>4. ASSUME NEW id \in Ids, Delete(id)
      PROVE  Freed'
  <2>1. /\ Live' = Live \ {id} /\ \A i \in Live' : payment'[i] = payment[i]
        /\ registrations' = {g \in registrations : g[1] # id}
        /\ UNCHANGED <<request, orphaned>>
    BY <1>4 DEF Delete, Cascade, IInv, TypeOK, Live
  <2> QED
    BY <2>1, FreedFrame DEF HasRegistration
<1> QED
  BY <1>1, <1>2, <1>3, <1>4, FreedServe DEF Next

\* A reference that is answered with a 409 can be freed by a deletion, unless its
\* request stopped between the inserts of the payment and of its registration.
THEOREM StuckReferencesCanBeFreed == Spec => []StuckIsDeletable
<1>1. Init => Freed
  BY DEF Init, Freed, PastRegistration, StuckIsDeletable, Live, Idle
<1>2. Freed => StuckIsDeletable
  BY DEF Freed
<1> QED
  BY <1>1, <1>2, FreedStep, Invariance, PTL DEF Spec

-----------------------------------------------------------------------------
(* OneActiveUnlessRaced: a request that has passed the search found no       *)
(* active registration of the participant, so one it meets later was made by *)
(* a request that had passed as well, or was made active by a late report.   *)

Excused(r, s) == {<<r, s>>, <<s, r>>} \cap (raced \cup SameUpToCase) # {}

\* Of two requests that have both passed, the later one saw the other.
Overlap ==
  \A p, q \in Passed : p # q => Excused(request[p].ref, request[q].ref)

\* A request that has passed meets no active registration of its participant
\* but its own, an excused and a revived one.
Searched ==
  \A g \in registrations, q \in Passed :
    /\ g[1] # request[q].id /\ Alike(g[2], request[q].ref) /\ Active(g[1])
    => Excused(g[2], request[q].ref) \/ g[1] \in revived

Race == Overlap /\ Searched /\ OneActiveUnlessRaced

\* The order of the two references does not matter.
LEMMA ExcusedBothWays ==
  ASSUME NEW r, NEW s
  PROVE  (Excused(r, s) <=> Excused(s, r)) /\ (Alike(r, s) <=> Alike(s, r))
<1>1. {<<r, s>>, <<s, r>>} = {<<s, r>>, <<r, s>>}
  OBVIOUS
<1> QED
  BY <1>1 DEF Excused, Alike

\* A step in which no request passes, no registration is made, and no payment
\* becomes active but by a late report.
LEMMA RaceFrame ==
  ASSUME Race, registrations' \subseteq registrations, Passed' \subseteq Passed,
         raced \subseteq raced', revived \subseteq revived',
         \A q \in Passed' :
           /\ request'[q].ref = request[q].ref
           /\ \/ request'[q].id = request[q].id
              \/ \A g \in registrations : g[1] # request[q].id,
         \A g \in registrations' : Active(g[1])' => Active(g[1]) \/ g[1] \in revived'
  PROVE  Race'
<1>1. \A r, s : Excused(r, s) => Excused(r, s)'
  BY DEF Excused
<1>2. Overlap'
  BY <1>1 DEF Race, Overlap
<1>3. Searched'
  <2> SUFFICES ASSUME NEW g \in registrations', NEW q \in Passed',
                      g[1] # request'[q].id, Alike(g[2], request'[q].ref),
                      Active(g[1])', g[1] \notin revived'
               PROVE  Excused(g[2], request[q].ref)'
    BY DEF Searched, Alike
  <2>1. g \in registrations /\ q \in Passed /\ Active(g[1]) /\ g[1] \notin revived
    OBVIOUS
  <2>2. g[1] # request[q].id /\ Alike(g[2], request[q].ref)
    BY <2>1
  <2>3. Excused(g[2], request[q].ref)
    BY <2>1, <2>2 DEF Race, Searched
  <2> QED
    BY <1>1, <2>3 DEF Excused
<1>4. OneActiveUnlessRaced'
  <2> SUFFICES ASSUME NEW g \in registrations', NEW k \in registrations',
                      g # k, Alike(g[2], k[2]), Active(g[1])', Active(k[1])',
                      g[1] \notin revived', k[1] \notin revived'
               PROVE  Excused(g[2], k[2])'
    BY DEF OneActiveUnlessRaced, Alike, Excused
  <2>1. /\ g \in registrations /\ k \in registrations /\ Active(g[1]) /\ Active(k[1])
        /\ g[1] \notin revived /\ k[1] \notin revived
    OBVIOUS
  <2>2. Excused(g[2], k[2])
    BY <2>1 DEF Race, OneActiveUnlessRaced, Excused
  <2> QED
    BY <1>1, <2>2 DEF Excused
<1> QED
  BY <1>2, <1>3, <1>4 DEF Race

\* A request passes: no registration it has to fear is active, and the requests
\* that passed before it are recorded.
LEMMA RacePasses ==
  ASSUME IInv, Race, NEW q \in Requests, FindActiveDuplicate(q), Passes(q)
  PROVE  Race'
<1>1. PICK r : r = request[q].ref
  OBVIOUS
<1>2. /\ request[q].pc = "duplicate" /\ Goto(q, "insert")
      /\ ~ActiveDuplicate(r) \/ Ends(q)
      /\ raced' = raced \cup {<<r, request[p].ref>> : p \in Passed}
      /\ UNCHANGED <<payment, registrations, revived>>
  BY <1>1 DEF FindActiveDuplicate, Passes
<1>3. /\ request'[q].pc = "insert" /\ request'[q].ref = r
      /\ \A p \in Requests : p # q => request'[p] = request[p]
  BY <1>1, <1>2 DEF Goto, IInv, TypeOK
<1>4. ~ActiveDuplicate(r)
  <2>1. ~Ends(q)
    BY <1>3 DEF Ends, Idle, IInv, TypeOK
  <2> QED
    BY <1>2, <2>1
<1>5. Passed' = Passed \cup {q} /\ q \notin Passed
  BY <1>2, <1>3 DEF Passed
<1>6. \A p \in Passed : request'[p] = request[p]
  BY <1>3, <1>5 DEF Passed
<1>7. ASSUME NEW p \in Passed
      PROVE  /\ {<<request'[p].ref, r>>, <<r, request'[p].ref>>} \cap raced' # {}
             /\ {<<r, request'[p].ref>>, <<request'[p].ref, r>>} \cap raced' # {}
  <2>1. <<r, request'[p].ref>> \in raced'
    BY <1>2, <1>6
  <2> QED
    BY <2>1
<1>8. Overlap'
  <2> SUFFICES ASSUME NEW p \in Passed', NEW u \in Passed', p # u
               PROVE  Excused(request[p].ref, request[u].ref)'
    BY DEF Overlap
  <2>1. CASE p \in Passed /\ u \in Passed
    <3>1. Excused(request[p].ref, request[u].ref)
      BY <2>1 DEF Race, Overlap
    <3> QED
      BY <1>2, <1>6, <2>1, <3>1 DEF Excused
  <2>2. CASE p = q \/ u = q
    BY <1>3, <1>5, <1>7, <2>2 DEF Excused
  <2> QED
    BY <1>5, <2>1, <2>2
<1>9. Searched'
  <2> SUFFICES ASSUME NEW g \in registrations, NEW p \in Passed',
                      g[1] # request'[p].id, Alike(g[2], request'[p].ref),
                      Active(g[1]), g[1] \notin revived
               PROVE  Excused(g[2], request[p].ref)'
    BY <1>2 DEF Searched, Alike, Active
  <2>1. CASE p = q
    <3>1. <<g[2], r>> \in Similar
      BY <1>3, <2>1 DEF Alike
    <3>2. <<g[2], r>> \in SameUpToCase
      BY <1>4, <3>1 DEF ActiveDuplicate, Active
    <3> QED
      BY <1>3, <2>1, <3>2 DEF Excused
  <2>2. CASE p # q
    <3>1. p \in Passed /\ request'[p] = request[p]
      BY <1>5, <1>6, <2>2
    <3>2. Excused(g[2], request[p].ref)
      BY <3>1 DEF Race, Searched
    <3> QED
      BY <1>2, <3>1, <3>2 DEF Excused
  <2> QED
    BY <2>1, <2>2
<1>10. OneActiveUnlessRaced'
  BY <1>2 DEF Race, OneActiveUnlessRaced, Active, Alike
<1> QED
  BY <1>8, <1>9, <1>10 DEF Race

\* A registration is made: the search of its request, and the overlaps with the
\* requests that have not ended, speak for it.
LEMMA RaceUpsert ==
  ASSUME IInv, Race, NEW q \in Requests, Upsert(q)
  PROVE  Race'
<1> DEFINE new == <<request[q].id, request[q].ref>>
<1>1. /\ request[q].pc = "register" /\ Goto(q, "create")
      /\ registrations' = registrations \cup {new}
      /\ UNCHANGED <<payment, raced, revived>>
  BY Unrefused DEF Upsert, RegistrationNeverRefused, history
<1>2. /\ \A p \in Requests : /\ request'[p].ref = request[p].ref
                             /\ request'[p].id = request[p].id
      /\ Passed' = Passed /\ q \in Passed
  BY <1>1 DEF Goto, IInv, TypeOK, Passed
<1>3. new[1] = request[q].id /\ new[2] = request[q].ref
  OBVIOUS
<1>4. \A g \in registrations : g[1] # new[1]
  BY <1>1, <1>3 DEF IInv, Registered
<1> HIDE DEF new
<1>5. \A g \in registrations : Alike(g[2], new[2]) /\ Active(g[1]) =>
        Excused(g[2], new[2]) \/ g[1] \in revived
  BY <1>2, <1>3, <1>4 DEF Race, Searched
<1>6. \A r, s : /\ Excused(r, s)' <=> Excused(r, s)
                /\ Alike(r, s)' <=> Alike(r, s)
                /\ Active(r)' <=> Active(r)
  BY <1>1 DEF Excused, Alike, Active
<1>7. Overlap'
  BY <1>2, <1>6 DEF Race, Overlap, Passed
<1>8. Searched'
  <2> SUFFICES ASSUME NEW g \in registrations', NEW p \in Passed,
                      g[1] # request[p].id, Alike(g[2], request[p].ref),
                      Active(g[1]), g[1] \notin revived
               PROVE  Excused(g[2], request[p].ref)
    BY <1>1, <1>2, <1>6 DEF Searched, Passed
  <2>1. CASE g \in registrations
    BY <2>1 DEF Race, Searched
  <2>2. CASE g = new
    BY <1>2, <1>3, <2>2 DEF Race, Overlap
  <2> QED
    BY <1>1, <2>1, <2>2
<1>9. OneActiveUnlessRaced'
  <2> SUFFICES ASSUME NEW g \in registrations', NEW k \in registrations', g # k,
                      Alike(g[2], k[2]), Active(g[1]), Active(k[1]),
                      g[1] \notin revived, k[1] \notin revived
               PROVE  Excused(g[2], k[2])
    BY <1>1, <1>6 DEF OneActiveUnlessRaced, Excused
  <2>1. CASE g \in registrations /\ k \in registrations
    BY <2>1 DEF Race, OneActiveUnlessRaced, Excused
  <2>2. CASE g \in registrations /\ k = new
    BY <1>5, <2>2
  <2>3. CASE g = new /\ k \in registrations
    <3>1. Alike(k[2], new[2])
      BY <2>3, ExcusedBothWays
    <3> QED
      BY <1>5, <2>3, <3>1, ExcusedBothWays
  <2> QED
    BY <1>1, <2>1, <2>2, <2>3
<1> QED
  BY <1>7, <1>8, <1>9 DEF Race

\* An invoice is stored: it makes the payment active whatever was done to it since
\* it was inserted, but its request had passed the search all the while.
LEMMA RaceStore ==
  ASSUME IInv, Race, NEW q \in Requests, StoreCreatedInvoice(q)
  PROVE  Race'
<1>1. PICK id, r : id = request[q].id /\ r = request[q].ref
  OBVIOUS
<1>2. /\ request[q].pc = "store" /\ request' = [request EXCEPT ![q] = Idle]
      /\ UNCHANGED <<registrations, raced, revived>>
      /\ \A i \in Ids : i # id => payment'[i] = payment[i]
  BY <1>1 DEF StoreCreatedInvoice, Ends, history, IInv, TypeOK
<1>3. /\ q \in Passed /\ Passed' = Passed \ {q}
      /\ \A p \in Passed' : request'[p] = request[p]
  BY <1>2 DEF Passed, Idle, IInv, TypeOK
<1>4. \A g \in registrations : /\ g[1] \in Ids
                               /\ g[1] = id => g[2] = r
                               /\ g[1] # id => (Active(g[1])' <=> Active(g[1]))
  <2> SUFFICES ASSUME NEW g \in registrations
               PROVE  /\ g[1] \in Ids
                      /\ g[1] = id => g[2] = r
                      /\ g[1] # id => (Active(g[1])' <=> Active(g[1]))
    OBVIOUS
  <2>1. g[1] \in Live /\ payment[g[1]].ref = g[2]
    BY DEF IInv, Registered
  <2>2. g[1] \in Ids
    BY <2>1 DEF Live
  <2>3. g[1] = id => payment[id].ref = r
    <3>1. id # None => Knows(id, r)
      BY <1>1 DEF IInv, Holding
    <3>2. g[1] # None
      BY <2>2, NoneIsNew
    <3> QED
      BY <2>1, <3>1, <3>2 DEF Knows
  <2>4. g[1] # id => payment'[g[1]] = payment[g[1]]
    BY <1>2, <2>2
  <2> QED
    BY <2>1, <2>2, <2>3, <2>4 DEF Active
<1>5. \A g, k \in registrations : g[1] = k[1] => g = k
  <2>1. \A g \in registrations : g = <<g[1], g[2]>>
    BY DEF IInv, TypeOK
  <2> QED
    BY <2>1 DEF IInv, Registered
<1>6. \A k \in registrations :
        k[1] # id /\ Alike(k[2], r) /\ Active(k[1]) =>
          Excused(k[2], r) \/ k[1] \in revived
  BY <1>1, <1>3 DEF Race, Searched
<1>7. \A s, t : Excused(s, t)' <=> Excused(s, t)
  BY <1>2 DEF Excused
<1>8. Overlap'
  BY <1>2, <1>3 DEF Race, Overlap, Excused
<1>9. Searched'
  <2> SUFFICES ASSUME NEW g \in registrations, NEW p \in Passed',
                      g[1] # request[p].id, Alike(g[2], request[p].ref),
                      Active(g[1])', g[1] \notin revived
               PROVE  Excused(g[2], request[p].ref)
    BY <1>2, <1>3 DEF Searched, Alike, Excused
  <2>1. CASE g[1] = id
    BY <1>1, <1>3, <1>4, <2>1 DEF Race, Overlap
  <2>2. CASE g[1] # id
    BY <1>3, <1>4, <2>2 DEF Race, Searched
  <2> QED
    BY <2>1, <2>2
<1>10. OneActiveUnlessRaced'
  <2> SUFFICES ASSUME NEW g \in registrations, NEW k \in registrations, g # k,
                      Alike(g[2], k[2]), Active(g[1])', Active(k[1])',
                      g[1] \notin revived, k[1] \notin revived
               PROVE  Excused(g[2], k[2])
    BY <1>2 DEF OneActiveUnlessRaced, Alike, Excused
  <2>1. CASE g[1] # id /\ k[1] # id
    BY <1>4, <2>1 DEF Race, OneActiveUnlessRaced, Excused
  <2>2. CASE g[1] = id
    <3>1. g[2] = r /\ k[1] # id /\ Active(k[1]) /\ Alike(k[2], r)
      BY <1>4, <1>5, <2>2, ExcusedBothWays
    <3> QED
      BY <1>6, <3>1, ExcusedBothWays
  <2>3. CASE k[1] = id
    <3>1. k[2] = r /\ g[1] # id /\ Active(g[1])
      BY <1>4, <1>5, <2>3
    <3> QED
      BY <1>6, <3>1
  <2> QED
    BY <2>1, <2>2, <2>3
<1> QED
  BY <1>8, <1>9, <1>10 DEF Race

\* The reports, the expiry and the admin make no payment active, but for a late
\* report, which is recorded.
LEMMA RaceStatus ==
  ASSUME IInv, Race, NEW id \in Ids, StatusChanges(id)
  PROVE  Race'
<1>1. PICK s : /\ SetStatus(id, s)
               /\ revived' = IF /\ payment[id].status \notin ActiveStatuses
                                /\ s \in ActiveStatuses
                             THEN revived \cup {id} ELSE revived
               /\ UNCHANGED <<registrations, request, raced>>
               /\ payment[id] # None
  BY DEF StatusChanges
<1>2. payment'[id].status = s /\ payment[id] \in Rows
  BY <1>1 DEF SetStatus, IInv, TypeOK, Rows
<1>3. \A i \in Ids : Active(i)' => Active(i) \/ i \in revived'
  <2> SUFFICES ASSUME NEW i \in Ids, Active(i)'
               PROVE  Active(i) \/ i \in revived'
    OBVIOUS
  <2>1. CASE i = id
    BY <1>1, <1>2, <2>1 DEF Active
  <2>2. CASE i # id
    BY <1>1, <2>2 DEF SetStatus, IInv, TypeOK, Active
  <2> QED
    BY <2>1, <2>2
<1>4. \A g \in registrations : g[1] \in Ids
  BY DEF IInv, Registered, Live
<1>5. Passed' = Passed
  BY <1>1 DEF Passed
<1> QED
  BY <1>1, <1>3, <1>4, <1>5, RaceFrame DEF Passed

\* A step of a request that makes no registration and no payment active.
LEMMA RaceQuiet ==
  ASSUME IInv, Race, NEW q \in Requests, UNCHANGED <<registrations, raced, revived>>,
         \/ request' = [request EXCEPT ![q] = Idle]
         \/ Goto(q, "duplicate") /\ request[q].pc = "lookup"
         \/ (Goto(q, "store") \/ Goto(q, "fail")) /\ request[q].pc = "create"
         \/ /\ request[q].pc = "insert"
            /\ \E id \in Ids : request' = [request EXCEPT ![q] =
                 [pc |-> "register", ref |-> request[q].ref, id |-> id]]
         \/ /\ request[q].pc = "idle"
            /\ \E r \in Refs : request' = [request EXCEPT ![q] =
                 [pc |-> "lookup", ref |-> r, id |-> None]],
         \A i \in Live : payment'[i] = payment[i] \/ ~Active(i)'
  PROVE  Race'
<1>1. /\ \A g \in registrations : g[1] \in Live /\ g[1] # None
      /\ Holding /\ request \in [Requests ->
           [pc : {"idle", "lookup", "duplicate", "insert", "register", "create",
                  "fail", "store"},
            ref : Refs \cup {None}, id : Ids \cup {None}]]
  BY NoneIsNew DEF IInv, TypeOK, Registered, Live
<1>2. /\ Passed' \subseteq Passed
      /\ \A p \in Passed' :
           /\ request'[p].ref = request[p].ref
           /\ request'[p].id = request[p].id \/ request[p].id = None
  BY <1>1 DEF Passed, Goto, Idle, Holding
<1>3. \A g \in registrations' : Active(g[1])' => Active(g[1]) \/ g[1] \in revived'
  BY <1>1 DEF Active
<1> QED
  BY <1>1, <1>2, <1>3, RaceFrame

\* Every step keeps Race.
LEMMA RaceStep == IInv /\ Race /\ [Next]_vars => Race'
<1> SUFFICES ASSUME IInv, Race, [Next]_vars
             PROVE  Race'
  OBVIOUS
<1>1. CASE UNCHANGED vars
  BY <1>1, RaceFrame DEF vars, history, Passed, Active
<1>2. ASSUME NEW q \in Requests, NEW r \in Refs, Begin(q, r)
      PROVE  Race'
  <2>1. request[q].pc = "idle" /\ UNCHANGED <<payment, registrations, raced, revived>>
    BY <1>2 DEF Begin, Idle, history
  <2>2. request' = [request EXCEPT ![q] = [pc |-> "lookup", ref |-> r, id |-> None]]
    BY <1>2 DEF Begin
  <2> QED
    BY <2>1, <2>2, RaceQuiet
<1>3. ASSUME NEW q \in Requests, Serve(q)
      PROVE  Race'
  <2>1. CASE FindPaymentByIdempotencyKey(q)
    BY <2>1, RaceQuiet DEF FindPaymentByIdempotencyKey, Ends, history
  <2>2. CASE FindActiveDuplicate(q)
    <3>1. CASE Passes(q)
      BY <2>2, <3>1, RacePasses
    <3>2. CASE Ends(q) /\ UNCHANGED history
      BY <2>2, <3>2, RaceQuiet DEF FindActiveDuplicate, Ends, history
    <3> QED
      BY <2>2, <3>1, <3>2 DEF FindActiveDuplicate
  <2>3. CASE CreatePendingInvoice(q)
    <3>1. /\ UNCHANGED <<registrations, raced, revived>>
          /\ request[q].pc = "insert"
          /\ \A i \in Live : payment'[i] = payment[i]
      BY <2>3 DEF CreatePendingInvoice, history, IInv, OneRow, Live, TypeOK
    <3>2. \/ request' = [request EXCEPT ![q] = Idle]
          \/ \E id \in Ids : request' = [request EXCEPT ![q] =
                 [pc |-> "register", ref |-> request[q].ref, id |-> id]]
      BY <2>3 DEF CreatePendingInvoice, Ends
    <3> QED
      BY <3>1, <3>2, RaceQuiet
  <2>4. CASE Upsert(q)
    BY <2>4, RaceUpsert
  <2>5. CASE InvoiceAnswered(q)
    BY <2>5, RaceQuiet DEF InvoiceAnswered, history
  <2>6. CASE InvoiceFails(q)
    BY <2>6, RaceQuiet DEF InvoiceFails, history
  <2>9. CASE MarkInvoiceCreationFailed(q)
    <3>1. \A i \in Live : payment'[i] = payment[i] \/ ~Active(i)'
      BY <2>9 DEF MarkInvoiceCreationFailed, SetStatus, Active, ActiveStatuses, IInv,
                  TypeOK, Live, Rows
    <3> QED
      BY <2>9, <3>1, RaceQuiet DEF MarkInvoiceCreationFailed, Ends, history
  <2>7. CASE StoreCreatedInvoice(q)
    BY <2>7, RaceStore
  <2>8. CASE RequestAborts(q)
    BY <2>8, RaceQuiet DEF RequestAborts, Ends
  <2> QED
    BY <1>3, <2>1, <2>2, <2>3, <2>4, <2>5, <2>6, <2>7, <2>8, <2>9 DEF Serve
<1>4. ASSUME NEW id \in Ids, Delete(id)
      PROVE  Race'
  <2>1. /\ registrations' = {g \in registrations : g[1] # id}
        /\ payment' = [payment EXCEPT ![id] = None]
        /\ UNCHANGED <<request, raced, revived>>
    BY <1>4 DEF Delete, Cascade
  <2>2. \A g \in registrations' : Active(g[1])' => Active(g[1])
    BY <2>1 DEF Active, IInv, TypeOK, Registered, Live
  <2> QED
    <3>1. /\ registrations' \subseteq registrations /\ Passed' = Passed
          /\ raced' = raced /\ revived' = revived
      BY <2>1 DEF Passed
    <3>2. \A q \in Passed' : request'[q].ref = request[q].ref
                            /\ request'[q].id = request[q].id
      BY <2>1
    <3> QED
      BY <2>2, <3>1, <3>2, RaceFrame
<1> QED
  BY <1>1, <1>2, <1>3, <1>4, RaceStatus DEF Next

\* A participant has two active payments only if two requests overlapped beyond
\* their search for a duplicate, a late report made one of them active again, or
\* their references differ in their case.
THEOREM OneActivePaymentUnlessRaced == Spec => []OneActiveUnlessRaced
<1>1. Init => Race
  BY DEF Init, Race, Overlap, Searched, OneActiveUnlessRaced, Passed, Idle
<1>2. Race => OneActiveUnlessRaced
  BY DEF Race
<1> QED
  BY <1>1, <1>2, RaceStep, Invariance, PTL DEF Spec

-----------------------------------------------------------------------------
(* CheckoutLifeKept: each statement of a request is the step of PaymentLife  *)
(* that its mapping names, for the payment the request holds, and each       *)
(* other step changes the status of rows or what no life shows.              *)

\* Where a request that holds a payment is in the payment's life.
Place(pc) == IF pc \in {"register", "create"} THEN "calling"
             ELSE IF pc = "fail" THEN "failing" ELSE "storing"

\* Rows with a page were given out, and an invoice was asked for by a request that
\* has registered.
Told ==
  /\ \A id \in Live : payment[id].page => GivenOut(id)
  /\ \A q \in Requests :
       request[q].pc \in {"create", "fail", "store"} => request[q].id \in bank
  /\ bank \subseteq drawn

\* What a payment's life shows before a step, and after it.
LEMMA StageIs ==
  ASSUME IInv, NEW id \in Ids
  PROVE  /\ id \notin drawn => Stage(id) = "none"
         /\ id \in drawn /\ (\A q \in Requests : request[q].id # id) => Stage(id) = "done"
         /\ \A q \in Requests : request[q].id = id =>
              id \in drawn /\ Stage(id) = Place(request[q].pc)
<1>1. Holding /\ id # None
  BY NoneIsNew DEF IInv
<1>2. ASSUME NEW q \in Requests, request[q].id = id
      PROVE  id \in drawn /\ Stage(id) = Place(request[q].pc)
  <2>1. /\ id \in drawn /\ request[q].pc \in {"register", "create", "fail", "store"}
        /\ {p \in Requests : request[p].id = id} = {q}
    BY <1>1, <1>2 DEF Holding
  <2> QED
    BY <2>1 DEF Stage, Place
<1> QED
  BY <1>2 DEF Stage

LEMMA StageBecomes ==
  ASSUME IInv', NEW id \in Ids
  PROVE  /\ id \notin drawn' => Stage(id)' = "none"
         /\ id \in drawn' /\ (\A q \in Requests : request'[q].id # id) =>
              Stage(id)' = "done"
         /\ \A q \in Requests : request'[q].id = id =>
              id \in drawn' /\ Stage(id)' = Place(request'[q].pc)
<1>1. Holding' /\ id # None
  BY NoneIsNew DEF IInv
<1>2. ASSUME NEW q \in Requests, request'[q].id = id
      PROVE  id \in drawn' /\ Stage(id)' = Place(request'[q].pc)
  <2>1. /\ id \in drawn' /\ request'[q].pc \in {"register", "create", "fail", "store"}
        /\ {p \in Requests : request'[p].id = id} = {q}
    BY <1>1, <1>2 DEF Holding
  <2> QED
    BY <2>1 DEF Stage, Place
<1> QED
  BY <1>2 DEF Stage

\* A request that goes on or ends moves the stage of the payment it holds.
LEMMA StageMoves ==
  ASSUME IInv, IInv', NEW q \in Requests, NEW id \in Ids, request[q].id = id,
         UNCHANGED drawn, \A p \in Requests : p # q => request'[p] = request[p],
         NEW pc, NEW to,
         request[q].pc = pc,
         \/ request'[q].id = id /\ to = Place(request'[q].pc)
         \/ request'[q] = Idle /\ to = "done"
  PROVE  Life!Goes(id, {Place(pc)}, to)
<1>1. Stage(id) = Place(pc)
  BY StageIs
<1>2. id # None /\ id \in drawn
  BY StageIs, NoneIsNew
<1>3. Stage(id)' = to
  <2>1. CASE request'[q].id = id /\ to = Place(request'[q].pc)
    BY <2>1, StageBecomes
  <2>2. CASE request'[q] = Idle /\ to = "done"
    <3>1. \A p \in Requests : request'[p].id # id
      BY <1>2, <2>2 DEF IInv, Holding, Idle
    <3> QED
      BY <1>2, <2>2, <3>1, StageBecomes
  <2> QED
    BY <2>1, <2>2
<1>4. ASSUME NEW j \in Ids, j # id
      PROVE  Stage(j)' = Stage(j)
  <2>1. \A p \in Requests : request[p].id = j <=> request'[p].id = j
    BY <1>4, NoneIsNew DEF Idle
  <2>2. CASE \E p \in Requests : request[p].id = j
    BY <1>4, <2>1, <2>2, StageIs, StageBecomes
  <2>3. CASE \A p \in Requests : request[p].id # j
    BY <2>1, <2>3, StageIs, StageBecomes
  <2> QED
    BY <2>2, <2>3
<1> QED
  BY <1>1, <1>3, <1>4 DEF Life!Goes

\* A step in which no request draws, leaves or moves a payment keeps all stages.
LEMMA StageStays ==
  ASSUME IInv, IInv', UNCHANGED drawn,
         \A p \in Requests : \/ request'[p] = request[p]
                              \/ /\ request[p].id = None
                                 /\ request'[p].id = None
                              \/ /\ request'[p].id = request[p].id
                                 /\ Place(request'[p].pc) = Place(request[p].pc)
  PROVE  UNCHANGED [id \in Ids |-> Stage(id)]
<1>1. ASSUME NEW j \in Ids
      PROVE  Stage(j)' = Stage(j)
  <2>1. \A p \in Requests : request'[p].id = request[p].id
    OBVIOUS
  <2>2. CASE \E p \in Requests : request[p].id = j
    BY <2>1, <2>2, StageIs, StageBecomes, NoneIsNew
  <2>3. CASE \A p \in Requests : request[p].id # j
    BY <2>1, <2>3, StageIs, StageBecomes
  <2> QED
    BY <2>2, <2>3
<1> QED
  BY <1>1

\* Tables that a step leaves alone show the same.
LEMMA SeenStays ==
  UNCHANGED payment => UNCHANGED <<Live, [id \in Ids |-> SeenOf(id)]>>
BY DEF Live, SeenOf

LEMMA GivenStays == UNCHANGED answers => UNCHANGED {id \in Ids : GivenOut(id)}
BY DEF GivenOut

\* A statement on a row that is there, and what it leaves of the other rows.
LEMMA SeenMoves ==
  ASSUME IInv, NEW id \in Live, NEW c \in Rows, c.ref = payment[id].ref,
         payment' = [payment EXCEPT ![id] = c]
  PROVE  /\ Live' = Live
         /\ SeenOf(id) = [status |-> payment[id].status, page |-> payment[id].page]
         /\ \A i \in Ids : SeenOf(i)' = IF i = id THEN [status |-> c.status, page |-> c.page]
                                      ELSE SeenOf(i)
<1>1. id \in Ids /\ payment[id] # None /\ c # None
  BY NoneIsNoRow DEF Live, Rows
<1>2. Live' = Live
  BY <1>1, InvRow
<1>3. /\ SeenOf(id) = [status |-> payment[id].status, page |-> payment[id].page]
      /\ SeenOf(id)' = [status |-> c.status, page |-> c.page]
      /\ \A i \in Ids : i # id => SeenOf(i)' = SeenOf(i)
  BY <1>1 DEF SeenOf, IInv, TypeOK
<1> QED
  BY <1>1, <1>2, <1>3

\* The steps of a request keep Told: it registers before it asks, and hands out
\* the page when it writes it.
LEMMA ToldStep ==
  ASSUME IInv, Told, [Next]_vars
  PROVE  Told'
<1>1. TypeOK /\ Holding /\ OneRow
  BY DEF IInv
<1>2. \A id : GivenOut(id) => GivenOut(id)'
  <2>1. answers \subseteq answers'
    BY DEF Next, vars, history, Begin, Serve, FindPaymentByIdempotencyKey,
           FindActiveDuplicate, CreatePendingInvoice, Upsert, InvoiceAnswered,
           InvoiceFails, MarkInvoiceCreationFailed, StoreCreatedInvoice,
           RequestAborts, StatusChanges, Delete, Answers
  <2> QED
    BY <2>1 DEF GivenOut
<1>3. ASSUME NEW q \in Requests, Serve(q)
      PROVE  Told'
  <2>1. CASE CreatePendingInvoice(q)
    <3>1. /\ bank' = bank /\ drawn \subseteq drawn'
          /\ \A p \in Requests : request'[p].pc \in {"create", "fail", "store"} =>
               request'[p] = request[p]
          /\ \A i \in Live' : /\ payment'[i].page => payment'[i] = payment[i]
                              /\ i \in Live \/ ~payment'[i].page
      BY <1>1, <2>1 DEF CreatePendingInvoice, Ends, Idle, TypeOK, Live, Rows
    <3> QED
      BY <1>2, <3>1 DEF Told
  <2>2. CASE Upsert(q)
    <3>1. /\ request[q].pc = "register" /\ request[q].id \in drawn
          /\ bank' = bank \cup {request[q].id} /\ Goto(q, "create")
          /\ UNCHANGED <<payment, drawn>>
      BY <1>1, <2>2, Unrefused DEF Upsert, RegistrationNeverRefused, Holding
    <3> QED
      BY <1>1, <1>2, <3>1 DEF Told, Goto, TypeOK, Live
  <2>3. CASE StoreCreatedInvoice(q)
    <3>1. /\ UNCHANGED <<bank, drawn>>
          /\ \A p \in Requests : request'[p].pc \in {"create", "fail", "store"} =>
               request'[p] = request[p]
          /\ \A i \in Live' : i # request[q].id => i \in Live /\ payment'[i] = payment[i]
      BY <1>1, <2>3 DEF StoreCreatedInvoice, Ends, Idle, TypeOK, Live
    <3>2. \A i : i = request[q].id => GivenOut(i)'
      <4> DEFINE new == <<request[q].ref, request[q].id>>
      <4>1. new \in answers' /\ new[2] = request[q].id
        BY <2>3 DEF StoreCreatedInvoice, Answers
      <4> HIDE DEF new
      <4> QED
        BY <4>1 DEF GivenOut
    <3> QED
      BY <1>2, <3>1, <3>2 DEF Told
  <2>4. CASE \/ FindPaymentByIdempotencyKey(q) \/ FindActiveDuplicate(q)
             \/ InvoiceAnswered(q) \/ InvoiceFails(q) \/ RequestAborts(q)
    <3>1. /\ UNCHANGED <<payment, bank, drawn>>
          /\ \A p \in Requests : request'[p].pc \in {"create", "fail", "store"} =>
               /\ request'[p].id = request[p].id
               /\ request[p].pc \in {"create", "fail", "store"}
      BY <1>1, <2>4
      DEF FindPaymentByIdempotencyKey, FindActiveDuplicate, Passes, InvoiceAnswered,
          InvoiceFails, RequestAborts, Ends, Goto, Idle, TypeOK
    <3> QED
      BY <1>2, <3>1 DEF Told, Live
  <2>5. CASE MarkInvoiceCreationFailed(q)
    <3>1. /\ UNCHANGED <<bank, drawn>>
          /\ \A p \in Requests : request'[p].pc \in {"create", "fail", "store"} =>
               request'[p] = request[p]
      BY <1>1, <2>5 DEF MarkInvoiceCreationFailed, Ends, Idle, TypeOK
    <3>2. \A i \in Live' : i \in Live /\ payment'[i].page = payment[i].page
      BY <1>1, <2>5 DEF MarkInvoiceCreationFailed, SetStatus, TypeOK, Live, Rows
    <3> QED
      BY <1>2, <3>1, <3>2 DEF Told
  <2> QED
    BY <1>3, <2>1, <2>2, <2>3, <2>4, <2>5 DEF Serve
<1>4. ASSUME NEW q \in Requests, NEW r \in Refs, Begin(q, r)
      PROVE  Told'
  <2>1. \A p \in Requests : request'[p].pc \in {"create", "fail", "store"} =>
          request'[p] = request[p]
    BY <1>1, <1>4 DEF Begin, TypeOK
  <2> QED
    BY <1>2, <1>4, <2>1 DEF Begin, Told, Live
<1>5. ASSUME NEW id \in Ids, StatusChanges(id) \/ Delete(id)
      PROVE  Told'
  <2>1. \A i \in Live' : i \in Live /\ payment'[i].page = payment[i].page
    BY <1>1, <1>5 DEF StatusChanges, Delete, SetStatus, TypeOK, Live, Rows
  <2> QED
    BY <1>2, <1>5, <2>1 DEF StatusChanges, Delete, Told
<1>6. CASE UNCHANGED vars
  BY <1>2, <1>6 DEF vars, Told, Live
<1> QED
  BY <1>3, <1>4, <1>5, <1>6 DEF Next

\* The statements of a request are the steps of its payment's life.
LEMMA LifeServe ==
  ASSUME IInv, IInv', Told, NEW q \in Requests, Serve(q)
  PROVE  Life!Next \/ UNCHANGED Life!lifeVars
<1> DEFINE id == request[q].id
<1>1. /\ TypeOK /\ Holding
      /\ request[q] \in [pc : {"idle", "lookup", "duplicate", "insert", "register",
                               "create", "fail", "store"},
                         ref : Refs \cup {None}, id : Ids \cup {None}]
      /\ request[q].pc \in {"register", "create", "fail", "store"} => id \in Ids
  BY DEF IInv, TypeOK, Holding
<1>2. ASSUME \/ Ends(q) /\ id = None
             \/ Goto(q, "duplicate") \/ Goto(q, "insert"),
             id = None, UNCHANGED <<payment, bank, drawn>>,
             UNCHANGED {i \in Ids : GivenOut(i)}
      PROVE  UNCHANGED Life!lifeVars
  <2>1. \A p \in Requests : \/ request'[p] = request[p]
                            \/ request[p].id = None /\ request'[p].id = None
    BY <1>1, <1>2 DEF Ends, Goto, Idle, TypeOK
  <2> QED
    BY <1>2, <2>1, StageStays, SeenStays DEF Life!lifeVars
<1>3. CASE FindPaymentByIdempotencyKey(q)
  <2>1. UNCHANGED {i \in Ids : GivenOut(i)}
    <3>1. CASE UNCHANGED answers
      BY <3>1, GivenStays
    <3>2. CASE \E i \in Of(request[q].ref) : payment[i].page /\ Answers(q, i)
      <4>1. PICK i \in Of(request[q].ref) : payment[i].page /\ Answers(q, i)
        BY <3>2
      <4>2. GivenOut(i)
        BY <4>1 DEF Told, Of
      <4> DEFINE new == <<request[q].ref, i>>
      <4>3. new[2] = i /\ answers' = answers \cup {new}
        BY <4>1 DEF Answers
      <4> HIDE DEF new
      <4> QED
        BY <4>2, <4>3 DEF GivenOut
    <3> QED
      BY <1>3, <3>1, <3>2 DEF FindPaymentByIdempotencyKey
  <2>2. id = None
    BY <1>1, <1>3 DEF FindPaymentByIdempotencyKey, Holding
  <2> QED
    BY <1>2, <1>3, <2>1, <2>2 DEF FindPaymentByIdempotencyKey
<1>4. CASE FindActiveDuplicate(q)
  <2>1. id = None
    BY <1>1, <1>4 DEF FindActiveDuplicate, Holding
  <2> QED
    BY <1>2, <1>4, <2>1, GivenStays DEF FindActiveDuplicate, Passes
<1>5. CASE CreatePendingInvoice(q)
  <2>0. id = None /\ UNCHANGED <<bank, answers>> /\ request[q].ref \in Refs
    BY <1>1, <1>5 DEF CreatePendingInvoice, Holding
  <2>1. CASE Ends(q) /\ UNCHANGED <<payment, drawn>>
    BY <1>2, <2>0, <2>1, GivenStays
  <2>2. CASE \E i \in Ids \ drawn :
               /\ drawn' = drawn \cup {i}
               /\ payment' = [payment EXCEPT ![i] =
                    [ref |-> request[q].ref, status |-> "creating_invoice",
                     page |-> FALSE]]
               /\ request' = [request EXCEPT ![q] =
                    [pc |-> "register", ref |-> request[q].ref, id |-> i]]
    <3>1. PICK i \in Ids \ drawn :
               /\ drawn' = drawn \cup {i}
               /\ payment' = [payment EXCEPT ![i] =
                    [ref |-> request[q].ref, status |-> "creating_invoice",
                     page |-> FALSE]]
               /\ request' = [request EXCEPT ![q] =
                    [pc |-> "register", ref |-> request[q].ref, id |-> i]]
      BY <2>2
    <3> DEFINE c == [ref |-> request[q].ref, status |-> "creating_invoice",
                     page |-> FALSE]
    <3>2. c \in Rows /\ c.status = "creating_invoice" /\ c.page = FALSE
      BY <2>0 DEF Rows, StatusSet
    <3> HIDE DEF c
    <3>3. c # None
      BY <3>2, NoneIsNoRow DEF Rows
    <3>4. i \notin Live
      BY DEF IInv, OneRow
    <3>5. /\ Live' = Live \cup {i}
          /\ \A j \in Ids : SeenOf(j)' = SeenOf(j)
      BY <1>1, <3>1, <3>2, <3>3, <3>4 DEF c, TypeOK, Live, SeenOf
    <3>6. /\ request'[q].id = i /\ request'[q].pc = "register"
          /\ \A p \in Requests : p # q => request'[p] = request[p]
      BY <1>1, <3>1 DEF TypeOK
    <3>7. Stage(i) = "none" /\ Stage(i)' = "calling"
      BY <3>6, StageIs, StageBecomes DEF Place
    <3>8. ASSUME NEW j \in Ids, j # i
          PROVE  Stage(j)' = Stage(j)
      <4>1. \A p \in Requests : request[p].id = j <=> request'[p].id = j
        BY <2>0, <3>6, <3>8, NoneIsNew
      <4>2. CASE \E p \in Requests : request[p].id = j
        <5>1. PICK p \in Requests : request[p].id = j
          BY <4>2
        <5>2. request'[p] = request[p]
          BY <2>0, <3>6, <5>1, NoneIsNew
        <5> QED
          BY <5>1, <5>2, StageIs, StageBecomes
      <4>3. CASE \A p \in Requests : request[p].id # j
        BY <3>1, <3>8, <4>1, <4>3, StageIs, StageBecomes
      <4> QED
        BY <4>2, <4>3
    <3>9. Life!Goes(i, {"none"}, "calling")
      BY <3>7, <3>8 DEF Life!Goes
    <3>10. UNCHANGED [j \in Ids |-> SeenOf(j)]
      BY <3>5
    <3> QED
      BY <2>0, <3>5, <3>9, <3>10, GivenStays DEF Life!Next, Life!Insert
  <2> QED
    BY <1>5, <2>1, <2>2 DEF CreatePendingInvoice
<1>6. CASE Upsert(q)
  <2>1. /\ request[q].pc = "register" /\ bank' = bank \cup {id} /\ Goto(q, "create")
        /\ UNCHANGED <<payment, drawn, answers>>
    BY <1>6, Unrefused DEF Upsert, RegistrationNeverRefused
  <2>2. \A p \in Requests : \/ request'[p] = request[p]
                            \/ /\ request'[p].id = request[p].id
                               /\ Place(request'[p].pc) = Place(request[p].pc)
    BY <1>1, <2>1 DEF Goto, TypeOK, Place
  <2>3. id \in Ids /\ Stage(id) # "none"
    BY <1>1, <2>1, StageIs DEF Place
  <2>4. UNCHANGED [i \in Ids |-> Stage(i)]
    BY <2>1, <2>2, StageStays
  <2> QED
    BY <2>1, <2>3, <2>4, SeenStays, GivenStays DEF Life!Next, Life!Invoice
<1>7. CASE InvoiceAnswered(q)
  <2>1. /\ request[q].pc = "create" /\ id \in bank /\ id \in Ids
        /\ UNCHANGED <<payment, bank, drawn, answers>>
        /\ \A p \in Requests : p # q => request'[p] = request[p]
        /\ request'[q].id = id /\ request'[q].pc = "store"
    BY <1>1, <1>7 DEF InvoiceAnswered, Goto, TypeOK, Told
  <2>2. Life!Goes(id, {"calling"}, "storing")
    BY <2>1, StageMoves DEF Place
  <2> QED
    BY <2>1, <2>2, SeenStays, GivenStays DEF Life!Next, Life!Answer
<1>8. CASE InvoiceFails(q)
  <2>1. /\ request[q].pc = "create" /\ id \in Ids
        /\ UNCHANGED <<payment, bank, drawn, answers>>
        /\ \A p \in Requests : p # q => request'[p] = request[p]
        /\ request'[q].id = id /\ request'[q].pc = "fail"
    BY <1>1, <1>8 DEF InvoiceFails, Goto, TypeOK
  <2>2. Life!Goes(id, {"calling"}, "failing")
    BY <2>1, StageMoves DEF Place
  <2> QED
    BY <2>1, <2>2, SeenStays, GivenStays DEF Life!Next, Life!Refuse
<1>9. ASSUME Ends(q), request[q].pc \in {"register", "create", "fail", "store"},
             UNCHANGED drawn
      PROVE  id \in Ids /\ Life!Goes(id, {Place(request[q].pc)}, "done")
  <2>1. \A p \in Requests : p # q => request'[p] = request[p]
    BY <1>9 DEF Ends
  <2>2. request'[q] = Idle /\ id \in Ids
    BY <1>1, <1>9 DEF Ends, TypeOK
  <2> QED
    BY <1>9, <2>1, <2>2, StageMoves
<1>10. CASE RequestAborts(q)
  <2>1. /\ request[q].pc \in {"register", "create", "fail", "store"} /\ Ends(q)
        /\ UNCHANGED <<payment, bank, drawn, answers>>
    BY <1>10 DEF RequestAborts
  <2>2. id \in Ids /\ Life!Goes(id, {"calling", "storing", "failing"}, "done")
    BY <1>9, <2>1 DEF Life!Goes, Place
  <2> QED
    BY <2>1, <2>2, SeenStays, GivenStays DEF Life!Next, Life!Abort
<1>11. CASE MarkInvoiceCreationFailed(q)
  <2>1. /\ request[q].pc = "fail" /\ Ends(q) /\ UNCHANGED <<bank, drawn, answers>>
    BY <1>11 DEF MarkInvoiceCreationFailed
  <2>2. id \in Ids /\ Life!Goes(id, {"failing"}, "done")
    BY <1>9, <2>1 DEF Place
  <2>3. CASE id \in Live /\ payment[id].status = "creating_invoice"
    <3>1. PICK i, c : i = id /\ c = [payment[id] EXCEPT !.status = "creation_failed"]
      OBVIOUS
    <3>2. i \in Live /\ payment' = [payment EXCEPT ![i] = c]
      BY <1>11, <2>3, <3>1 DEF MarkInvoiceCreationFailed, NotReported, SetStatus, Live
    <3>3. /\ c \in Rows /\ c.ref = payment[i].ref
          /\ c.status = "creation_failed" /\ c.page = payment[i].page
      BY <1>1, <2>3, <3>1 DEF TypeOK, Live, Rows, StatusSet
    <3>4. /\ Live' = Live
          /\ SeenOf(i) = [status |-> payment[i].status, page |-> payment[i].page]
          /\ \A j \in Ids :
               SeenOf(j)' = IF j = i THEN [status |-> c.status, page |-> c.page]
                            ELSE SeenOf(j)
      BY <3>2, <3>3, SeenMoves
    <3>5. SeenOf(i).status = "creating_invoice" /\ SeenOf(i).page = payment[i].page
      BY <2>3, <3>1, <3>4
    <3>6. Life!Fail(i)
      BY <2>1, <2>2, <3>1, <3>2, <3>3, <3>4, <3>5, GivenStays
      DEF Life!Fail, Life!Shows
    <3> QED
      BY <2>2, <3>1, <3>6 DEF Life!Next
  <2>4. CASE ~(id \in Live /\ payment[id].status = "creating_invoice")
    <3>1. UNCHANGED payment
      BY <1>11, <2>2, <2>4 DEF MarkInvoiceCreationFailed, NotReported, Live
    <3>2. /\ UNCHANGED <<Live, [i \in Ids |-> SeenOf(i)]>>
          /\ id \in Live => SeenOf(id).status # "creating_invoice"
      BY <2>4, <3>1, SeenStays DEF SeenOf, Live
    <3>3. Life!Fail(id)
      BY <2>1, <2>2, <3>2, GivenStays DEF Life!Fail, Life!Shows
    <3> QED
      BY <2>2, <3>3 DEF Life!Next
  <2> QED
    BY <2>3, <2>4
<1>12. CASE StoreCreatedInvoice(q)
  <2>1. /\ request[q].pc = "store" /\ Ends(q) /\ UNCHANGED <<bank, drawn>>
        /\ Answers(q, id)
    BY <1>12 DEF StoreCreatedInvoice
  <2>2. id \in Ids /\ Life!Goes(id, {"storing"}, "done")
    BY <1>9, <2>1 DEF Place
  <2>3. {i \in Ids : GivenOut(i)}' = {i \in Ids : GivenOut(i)} \cup {id}
    <3> DEFINE new == <<request[q].ref, id>>
    <3>1. new[2] = id /\ answers' = answers \cup {new}
      BY <2>1 DEF Answers
    <3> HIDE DEF new
    <3> QED
      BY <2>2, <3>1 DEF GivenOut
  <2>4. CASE id \in Live
    <3>1. PICK i, c : /\ i = id
                      /\ c = [payment[id] EXCEPT !.status = "invoice_created",
                                                 !.page = TRUE]
      OBVIOUS
    <3>2. i \in Live /\ payment' = [payment EXCEPT ![i] = c]
      BY <1>12, <2>4, <3>1 DEF StoreCreatedInvoice, Live
    <3>3. /\ c \in Rows /\ c.ref = payment[i].ref
          /\ c.status = "invoice_created" /\ c.page = TRUE
      BY <1>1, <2>4, <3>1 DEF TypeOK, Live, Rows, StatusSet
    <3>4. /\ Live' = Live
          /\ \A j \in Ids :
               SeenOf(j)' = IF j = i THEN [status |-> c.status, page |-> c.page]
                            ELSE SeenOf(j)
      BY <3>2, <3>3, SeenMoves
    <3>5. Life!Store(i)
      BY <2>1, <2>2, <2>3, <3>1, <3>2, <3>3, <3>4 DEF Life!Store, Life!Shows
    <3> QED
      BY <2>2, <3>1, <3>5 DEF Life!Next
  <2>5. CASE id \notin Live
    <3>1. UNCHANGED payment
      BY <1>12, <2>2, <2>5 DEF StoreCreatedInvoice, Live
    <3>2. Life!Store(id)
      BY <2>1, <2>2, <2>3, <2>5, <3>1, SeenStays DEF Life!Store, Life!Shows
    <3> QED
      BY <2>2, <3>2 DEF Life!Next
  <2> QED
    BY <2>4, <2>5
<1> QED
  BY <1>3, <1>4, <1>5, <1>6, <1>7, <1>8, <1>10, <1>11, <1>12 DEF Serve

\* Reports, deletions and what no life shows.
LEMMA LifeStep ==
  ASSUME IInv, Told, [Next]_vars
  PROVE  Life!Next \/ UNCHANGED Life!lifeVars
<1>1. TypeOK /\ IInv'
  BY InvStep DEF IInv
<1>2. ASSUME NEW id \in Ids, StatusChanges(id)
      PROVE  Life!Next
  <2>1. PICK s \in Life!Reached(GivenOut(id)) : SetStatus(id, s)
    BY <1>2 DEF StatusChanges
  <2>2. /\ id \in Live /\ id \in bank /\ UNCHANGED <<request, bank, drawn, answers>>
        /\ s \in StatusSet
    BY <1>2, <2>1 DEF StatusChanges, Live, Life!Reached, StatusSet
  <2>3. PICK c : c = [payment[id] EXCEPT !.status = s]
    OBVIOUS
  <2>4. payment' = [payment EXCEPT ![id] = c]
    BY <2>1, <2>3 DEF SetStatus
  <2>5. /\ c \in Rows /\ c.ref = payment[id].ref
        /\ c.status = s /\ c.page = payment[id].page
    BY <1>1, <2>2, <2>3 DEF TypeOK, Live, Rows
  <2>6. /\ Live' = Live
        /\ SeenOf(id) = [status |-> payment[id].status, page |-> payment[id].page]
        /\ \A i \in Ids : SeenOf(i)' = IF i = id THEN [status |-> c.status, page |-> c.page]
                                     ELSE SeenOf(i)
    BY <2>2, <2>4, <2>5, SeenMoves
  <2>7. UNCHANGED [i \in Ids |-> Stage(i)]
    BY <1>1, <2>2, StageStays
  <2>8. ASSUME NEW i \in Ids, SeenOf(i)' # SeenOf(i)
        PROVE  /\ i \in Live \cap bank
               /\ SeenOf(i)'.status \in Life!Reached(i \in {j \in Ids : GivenOut(j)})
               /\ SeenOf(i)' = [status |-> SeenOf(i)'.status, page |-> SeenOf(i).page]
    <3>1. i = id
      BY <2>6, <2>8
    <3>2. SeenOf(i)' = [status |-> s, page |-> payment[id].page]
      BY <2>5, <2>6, <3>1
    <3>3. i \in {j \in Ids : GivenOut(j)} <=> GivenOut(id)
      BY <3>1
    <3>4. s \in Life!Reached(i \in {j \in Ids : GivenOut(j)})
      BY <2>1, <3>3 DEF Life!Reached
    <3> QED
      BY <2>2, <2>6, <3>1, <3>2, <3>4
  <2>9. Life!Changes
    BY <2>2, <2>6, <2>7, <2>8, GivenStays DEF Life!Changes
  <2> QED
    BY <2>9 DEF Life!Next
<1>3. ASSUME NEW id \in Ids, Delete(id)
      PROVE  Life!Next
  <2>1. /\ id \in Live /\ payment[id].status \notin {"paid", "processing"}
        /\ payment' = [payment EXCEPT ![id] = None]
        /\ UNCHANGED <<request, bank, drawn, answers>>
    BY <1>3 DEF Delete, Live
  <2>2. /\ Live' = Live \ {id} /\ SeenOf(id).status = payment[id].status
        /\ \A i \in Ids : SeenOf(i)' = IF i = id THEN Life!New ELSE SeenOf(i)
    BY <1>1, <2>1 DEF TypeOK, Live, SeenOf, Life!New
  <2>3. UNCHANGED [i \in Ids |-> Stage(i)]
    BY <1>1, <2>1, StageStays
  <2>4. Life!Delete(id)
    BY <2>1, <2>2, <2>3, GivenStays DEF Life!Delete
  <2> QED
    BY <2>4 DEF Life!Next
<1>4. ASSUME NEW q \in Requests, NEW r \in Refs, Begin(q, r)
      PROVE  UNCHANGED Life!lifeVars
  <2>1. \A p \in Requests : \/ request'[p] = request[p]
                            \/ request[p].id = None /\ request'[p].id = None
    BY <1>1, <1>4 DEF Begin, Idle, TypeOK
  <2> QED
    BY <1>1, <1>4, <2>1, StageStays, SeenStays, GivenStays DEF Begin, Life!lifeVars
<1>5. CASE UNCHANGED vars
  BY <1>1, <1>5, StageStays, SeenStays, GivenStays DEF vars, Life!lifeVars
<1> QED
  BY <1>1, <1>2, <1>3, <1>4, <1>5, LifeServe DEF Next

\* The empty tables show no life.
LEMMA LifeInit == Init => Life!Init /\ Told
<1> SUFFICES ASSUME Init
             PROVE  Life!Init /\ Told
  OBVIOUS
<1>1. IInv /\ Live = {} /\ drawn = {} /\ answers = {} /\ bank = {}
  BY InvInit DEF Init, Live
<1>2. \A id \in Ids : Stage(id) = "none" /\ SeenOf(id) = Life!New
  BY <1>1, StageIs DEF Init, SeenOf, Life!New
<1>3. {id \in Ids : GivenOut(id)} = {}
  BY <1>1 DEF GivenOut
<1>4. Told
  BY <1>1 DEF Told, Init, Idle
<1> QED
  BY <1>1, <1>2, <1>3, <1>4 DEF Life!Init

\* Whatever requests overlap, stop or are repeated, each payment of the checkout
\* lives a life of PaymentLife, which is what Payments implements.
THEOREM CheckoutLivesALife == Spec => CheckoutLifeKept
<1>1. IInv /\ Told /\ [Next]_vars => [Life!Next]_(Life!lifeVars)
  BY LifeStep
<1>2. Init => IInv /\ Told /\ Life!Init
  BY InvInit, LifeInit
<1>3. IInv /\ Told /\ [Next]_vars => IInv' /\ Told'
  BY InvStep, ToldStep
<1> QED
  BY <1>1, <1>2, <1>3, PTL DEF Spec, CheckoutLifeKept, Life!Spec
=============================================================================
