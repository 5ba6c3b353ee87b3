--------------------------- MODULE ProductsProofs ---------------------------
(***************************************************************************)
(* Proofs about Products, for any products, prices, checkouts and admins   *)
(* at a time.                                                              *)
(*                                                                         *)
(* What a checkout is to insert was on sale when it read the product; and  *)
(* nothing that is or was on sale is forgotten.                            *)
(***************************************************************************)
EXTENDS Products, TLAPS

\* What was sold, or is to be sold, was on sale.
Offered ==
  /\ OnSale(product) \subseteq offers
  /\ \A k \in Checkouts : checkout[k] # None => checkout[k] \in offers
  /\ SoldAsOffered

IInv == TypeOK /\ Offered /\ PaymentsKeepTheirProduct

\* The fields an update names have values of their types, and so has the row.
LEMMA PatchedType ==
  ASSUME NEW row \in Rows, NEW patch \in Patches
  PROVE  Patched(row, patch) \in Rows
BY NoneIsNoPrice DEF Patched, Rows, Patches

\* At first there are neither products nor payments.
LEMMA InvInit == Init => IInv
<1> SUFFICES ASSUME Init PROVE IInv
  OBVIOUS
<1>1. OnSale(product) = {}
  <2>1. \A s \in Sales : s.product \in Ids
    BY DEF Sales
  <2> QED
    BY <2>1 DEF OnSale, Init
<1>2. TypeOK
  BY DEF Init, TypeOK
<1>3. Offered
  BY <1>1 DEF Init, Offered, SoldAsOffered
<1>4. PaymentsKeepTheirProduct
  BY DEF Init, PaymentsKeepTheirProduct
<1> QED
  BY <1>2, <1>3, <1>4 DEF IInv

\* A row that is inserted or updated stays or becomes the product of its id, and
\* what it puts on sale is an offer.
LEMMA StoresStep ==
  ASSUME IInv, NEW id \in Ids, NEW row \in Rows, Stores(id, row),
         drawn' \subseteq Ids, UNCHANGED <<payments, checkout, deleting>>
  PROVE  IInv'
<1>1. product' = [product EXCEPT ![id] = row] /\ offers' = offers \cup OnSale(product')
  BY DEF Stores
<1>2. OnSale(product') \subseteq Sales
  BY DEF OnSale
<1>3. TypeOK'
  BY <1>1, <1>2 DEF IInv, TypeOK
<1>4. Offered'
  BY <1>1 DEF IInv, Offered, SoldAsOffered
<1>5. PaymentsKeepTheirProduct'
  BY <1>1, NoneIsNoRow DEF IInv, TypeOK, PaymentsKeepTheirProduct, Live
<1> QED
  BY <1>3, <1>4, <1>5 DEF IInv

\* What a checkout reads is on sale.
LEMMA SelectStep ==
  ASSUME IInv, NEW k \in Checkouts, NEW id \in Ids, NEW c \in {"UAH", "USD"},
         SelectBySlug(k, id, c)
  PROVE  IInv'
<1> DEFINE amount == IF c = "UAH" THEN product[id].uah ELSE product[id].usd
           s == [product |-> id, slug |-> product[id].slug, currency |-> c,
                 amount |-> amount]
<1>1. product[id] \in Rows /\ product[id] # None
  BY DEF SelectBySlug, Live, IInv, TypeOK
<1>2. amount \in Prices /\ amount > 0
  BY <1>1 DEF SelectBySlug, Rows
<1>3. s \in Sales
  BY <1>1, <1>2 DEF Sales, Rows
<1>4. s \in OnSale(product)
  BY <1>1, <1>2, <1>3 DEF SelectBySlug, ForSale, OnSale
<1>5. checkout' = [checkout EXCEPT ![k] = s]
  BY DEF SelectBySlug
<1> HIDE DEF s, amount
<1>6. TypeOK'
  BY <1>3, <1>5 DEF SelectBySlug, IInv, TypeOK
<1>7. Offered'
  BY <1>4, <1>5 DEF SelectBySlug, IInv, TypeOK, Offered, SoldAsOffered
<1>8. PaymentsKeepTheirProduct'
  BY DEF SelectBySlug, IInv, PaymentsKeepTheirProduct, Live
<1> QED
  BY <1>6, <1>7, <1>8 DEF IInv

\* A product that is deleted has no payments, and takes its offers off sale only.
LEMMA DeleteStep ==
  ASSUME IInv, NEW a \in Admins, Delete(a)
  PROVE  IInv'
<1> DEFINE id == deleting[a]
<1>1. id \in Ids
  BY DEF Delete, IInv, TypeOK
<1>2. TypeOK'
  BY <1>1 DEF Delete, IInv, TypeOK
<1>3. /\ UNCHANGED <<payments, checkout, offers>>
      /\ \A i \in Ids : product'[i] = product[i] \/ product'[i] = None
      /\ \A i \in Ids : Referenced(i) => product'[i] = product[i]
  BY <1>1 DEF Delete, IInv, TypeOK
<1>4. OnSale(product') \subseteq OnSale(product)
  <2>1. \A s \in Sales : s.product \in Ids
    BY DEF Sales
  <2> QED
    BY <1>3, <2>1 DEF OnSale
<1>5. Offered'
  BY <1>3, <1>4 DEF IInv, Offered, SoldAsOffered
<1>6. PaymentsKeepTheirProduct'
  BY <1>3 DEF IInv, PaymentsKeepTheirProduct, Live, Referenced
<1> QED
  BY <1>2, <1>5, <1>6 DEF IInv

\* A payment is inserted for a product that is there, as it was offered.
LEMMA InsertPaymentStep ==
  ASSUME IInv, NEW k \in Checkouts, CreatePendingInvoice(k)
  PROVE  IInv'
<1>1. checkout[k] \in Sales /\ checkout[k] \in offers
  BY DEF CreatePendingInvoice, IInv, TypeOK, Offered
<1>2. TypeOK' /\ Offered'
  BY <1>1 DEF CreatePendingInvoice, IInv, TypeOK, Offered, SoldAsOffered
<1>3. PaymentsKeepTheirProduct'
  BY DEF CreatePendingInvoice, IInv, PaymentsKeepTheirProduct, Live
<1> QED
  BY <1>2, <1>3 DEF IInv

\* Every step keeps the invariant.
LEMMA InvNext == IInv /\ [Next]_vars => IInv'
<1> SUFFICES ASSUME IInv, [Next]_vars PROVE IInv'
  OBVIOUS
<1>1. ASSUME NEW id \in Ids, NEW row \in Rows, Insert(id, row)
      PROVE  IInv'
  <2>1. drawn' \subseteq Ids
    BY <1>1 DEF Insert, IInv, TypeOK
  <2> QED
    BY <1>1, <2>1, StoresStep DEF Insert
<1>2. ASSUME NEW id \in Ids, NEW patch \in Patches, Update(id, patch)
      PROVE  IInv'
  <2>1. product[id] \in Rows /\ drawn' \subseteq Ids
    BY <1>2 DEF Update, Live, IInv, TypeOK
  <2> QED
    BY <1>2, <2>1, PatchedType, StoresStep DEF Update
<1>3. ASSUME NEW id \in Ids, NEW a \in Admins, SelectByID(a, id)
      PROVE  IInv'
  BY <1>3 DEF SelectByID, IInv, TypeOK, Offered, SoldAsOffered,
              PaymentsKeepTheirProduct, Live
<1>4. CASE UNCHANGED vars
  BY <1>4 DEF vars, IInv, TypeOK, Offered, SoldAsOffered, PaymentsKeepTheirProduct, Live
<1> QED
  BY <1>1, <1>2, <1>3, <1>4, SelectStep, DeleteStep, InsertPaymentStep DEF Next, NotFound

\* Whatever admins change between a checkout's read of a product and the insert of
\* its payment, the customer is charged what was on sale at one time.
THEOREM CustomersPayWhatWasOffered == Spec => []SoldAsOffered
<1>1. IInv => SoldAsOffered
  BY DEF IInv, Offered
<1> QED
  BY InvInit, InvNext, <1>1, PTL DEF Spec

\* No deletion takes the product of a payment, whatever else is inserted between
\* its two statements.
THEOREM PaidProductsStay == Spec => []PaymentsKeepTheirProduct
<1>1. IInv => PaymentsKeepTheirProduct
  BY DEF IInv
<1> QED
  BY InvInit, InvNext, <1>1, PTL DEF Spec
=============================================================================
