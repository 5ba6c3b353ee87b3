------------------------------ MODULE Products ------------------------------
(***************************************************************************)
(* The products, which admins create, update and delete, and the checkout  *)
(* that sells them.                                                        *)
(*                                                                         *)
(* An update is one statement that sets the fields its request names.  A   *)
(* deletion looks the product up and then deletes it, which the payments   *)
(* that refer to it prevent.  A checkout reads the product and inserts its *)
(* payment with another statement, whatever admins do in between.          *)
(***************************************************************************)
EXTENDS Integers

CONSTANTS
  Ids,        \* the ids the database draws, each once
  Slugs,
  Prices,     \* amounts in minor units
  Checkouts,  \* the checkouts under way at one time
  Admins,     \* the requests to delete under way at one time
  None,       \* NULL, and no product
  Absent      \* a field a request does not name

ASSUME PricesAreAmounts == Prices \subseteq Nat
ASSUME NoneIsNoPrice == None \notin Prices /\ Absent \notin Prices \cup Slugs \cup {None}

VARIABLES
  product,   \* the rows of products by id
  drawn,     \* the ids drawn so far
  payments,  \* the payments for products: what was sold at which amount
  checkout,  \* what a checkout has read and is to insert, or None
  deleting,  \* the product a deletion has found, or None
  offers     \* everything that was on sale at some time

vars == <<product, drawn, payments, checkout, deleting, offers>>

Rows == [slug : Slugs, type : {"fixed", "on_request"},
         uah : Prices \cup {None}, usd : Prices \cup {None}, active : BOOLEAN]
Patches == [slug : Slugs \cup {Absent}, type : {"fixed", "on_request", Absent},
            uah : Prices \cup {None, Absent}, usd : Prices \cup {None, Absent},
            active : BOOLEAN \cup {Absent}]
Sales == [product : Ids, slug : Slugs, currency : {"UAH", "USD"}, amount : Prices]

ASSUME NoneIsNoRow == None \notin Rows

Live == {id \in Ids : product[id] # None}

Init ==
  /\ product = [id \in Ids |-> None] /\ drawn = {} /\ payments = {}
  /\ checkout = [k \in Checkouts |-> None]
  /\ deleting = [a \in Admins |-> None]
  /\ offers = {}

\* What is on sale: active products of a fixed price, at a price above 0.
OnSale(rows) ==
  {s \in Sales : /\ rows[s.product] # None /\ s.amount > 0
                 /\ rows[s.product].active /\ rows[s.product].type = "fixed"
                 /\ rows[s.product].slug = s.slug
                 /\ s.amount = IF s.currency = "UAH" THEN rows[s.product].uah
                               ELSE rows[s.product].usd}

\* A row is stored, if its slug is new and a fixed price is one in both currencies.
PricesRequired(row) == row.type = "fixed" => row.uah # None /\ row.usd # None

Stores(id, row) ==
  /\ \A i \in Live \ {id} : product[i].slug # row.slug
  /\ PricesRequired(row)
  /\ product' = [product EXCEPT ![id] = row]
  /\ offers' = offers \cup OnSale(product')

-----------------------------------------------------------------------------
\* ProductsAdminCreate of a request that parses, that is not refused.
Insert(id, row) ==
  /\ id \notin drawn
  /\ Stores(id, row)
  /\ drawn' = drawn \cup {id}
  /\ UNCHANGED <<payments, checkout, deleting>>

\* What the update makes of a row: the fields it names, and the others as they are.
Patched(row, patch) ==
  [f \in DOMAIN row |-> IF patch[f] = Absent THEN row[f] ELSE patch[f]]

\* ProductsAdminUpdate of a request that parses, that is not refused.
Update(id, patch) ==
  /\ id \in Live
  /\ Stores(id, Patched(product[id], patch))
  /\ UNCHANGED <<drawn, payments, checkout, deleting>>

\* ProductsAdminDelete finds the product ...
SelectByID(a, id) ==
  /\ deleting[a] = None /\ id \in Live
  /\ deleting' = [deleting EXCEPT ![a] = id]
  /\ UNCHANGED <<product, drawn, payments, checkout, offers>>

\* A request for a product that is not there is answered with 404.
NotFound(id) == id \notin Live /\ UNCHANGED vars

\* A variant of the schema without a foreign key from payments.
NotReferenced(id) == FALSE

Referenced(id) == \E s \in payments : s.product = id

\* ... and deletes it, which payments refuse and another deletion may have done.
Delete(a) ==
  /\ deleting[a] # None
  /\ deleting' = [deleting EXCEPT ![a] = None]
  /\ product' = IF Referenced(deleting[a]) THEN product
                ELSE [product EXCEPT ![deleting[a]] = None]
  /\ UNCHANGED <<drawn, payments, checkout, offers>>

\* A variant of the checkout that sells products without a fixed price.
ForSaleIfPriced(row) == row.active

ForSale(row) == row.active /\ row.type = "fixed"

\* UserCheckout of a product it finds by its slug, on sale in the currency.
SelectBySlug(k, id, currency) ==
  LET amount == IF currency = "UAH" THEN product[id].uah ELSE product[id].usd IN
  /\ checkout[k] = None /\ id \in Live
  /\ ForSale(product[id])
  /\ amount # None /\ amount > 0
  /\ checkout' = [checkout EXCEPT ![k] =
       [product |-> id, slug |-> product[id].slug, currency |-> currency,
        amount |-> amount]]
  /\ UNCHANGED <<product, drawn, payments, deleting, offers>>

\* The payment is inserted, unless its product was deleted.
CreatePendingInvoice(k) ==
  /\ checkout[k] # None
  /\ checkout' = [checkout EXCEPT ![k] = None]
  /\ payments' = IF checkout[k].product \in Live
                 THEN payments \cup {checkout[k]} ELSE payments
  /\ UNCHANGED <<product, drawn, deleting, offers>>

Next ==
  \/ \E id \in Ids : \/ \E row \in Rows : Insert(id, row)
                     \/ \E patch \in Patches : Update(id, patch)
                     \/ \E a \in Admins : SelectByID(a, id)
                     \/ NotFound(id)
                     \/ \E k \in Checkouts, c \in {"UAH", "USD"} : SelectBySlug(k, id, c)
  \/ \E a \in Admins : Delete(a)
  \/ \E k \in Checkouts : CreatePendingInvoice(k)

Spec == Init /\ [][Next]_vars

-----------------------------------------------------------------------------
\* The variables have their types.
TypeOK ==
  /\ product \in [Ids -> Rows \cup {None}] /\ drawn \subseteq Ids
  /\ payments \subseteq Sales /\ offers \subseteq Sales
  /\ checkout \in [Checkouts -> Sales \cup {None}]
  /\ deleting \in [Admins -> Ids \cup {None}]

\* A customer is charged what was on sale: the slug, by which features are granted,
\* the currency and the amount of a payment were those of the product together,
\* while it was active and had a fixed price.
SoldAsOffered == payments \subseteq offers

\* The product of a payment is there, whichever of a deletion and a checkout found
\* it first and wrote last.
PaymentsKeepTheirProduct == \A s \in payments : s.product \in Live
=============================================================================
