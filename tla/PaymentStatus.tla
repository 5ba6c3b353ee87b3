--------------------------- MODULE PaymentStatus ---------------------------
(***************************************************************************)
(* The vocabulary of a payment and the status algebra of                   *)
(* internal/payments/status.go: the statuses the payments table stores,    *)
(* the statuses Monobank reports, the map from the second to the first and *)
(* the rule by which a reader of a row combines both.                      *)
(*                                                                         *)
(* Texts are abstracted to the canonical lower-case words.  Nil stands for *)
(* a NULL column, a missing field and the (_, false) result of the code's  *)
(* functions.                                                              *)
(***************************************************************************)

Nil == "nil"

StatusSet == {"draft", "creating_invoice", "creation_failed", "invoice_created",
              "processing", "paid", "failed", "expired", "cancelled", "reversed"}

PendingStatuses == {"invoice_created", "processing"}

TerminalStatuses == {"creation_failed", "paid", "failed", "expired",
                     "cancelled", "reversed"}

ProviderStatuses == {"created", "processing", "hold", "success", "failure",
                     "expired", "cancelled", "reversed", "refunded"}

\* Any other text, which the code has no name for.
Unknown == "unknown"

PendingMonobankProviderStatuses == {"created", "processing", "hold"}

\* A variant of the next map that takes a hold for a payment.
HoldIsPaid ==
  [s \in ProviderStatuses |->
     IF s = "created" THEN "invoice_created"
     ELSE IF s = "processing" THEN "processing"
     ELSE IF s \in {"reversed", "refunded"} THEN "reversed"
     ELSE IF s \in {"hold", "success"} THEN "paid"
     ELSE IF s = "failure" THEN "failed"
     ELSE s]

\* expired and cancelled keep their names.
monobankStatusMap ==
  [s \in ProviderStatuses |->
     IF s = "created" THEN "invoice_created"
     ELSE IF s \in {"hold", "processing"} THEN "processing"
     ELSE IF s \in {"reversed", "refunded"} THEN "reversed"
     ELSE IF s = "success" THEN "paid"
     ELSE IF s = "failure" THEN "failed"
     ELSE s]

\* A variant of the next operator that takes the provider's word itself.
ProviderWord(provider) == provider

\* The status the provider's word stands for; Nil for a word that is not known.
NormalizeMonobankStatus(provider) ==
  IF provider \in ProviderStatuses THEN monobankStatusMap[provider] ELSE Nil

IsPendingStatus(status) == status \in PendingStatuses

IsTerminalStatus(status) == status \in TerminalStatuses

\* What a reader is shown: the provider's status, except that a pending one
\* never replaces a stored terminal one.
ResolveMonobankPaymentStatus(status, provider) ==
  LET mapped == NormalizeMonobankStatus(provider)
      stored == IF status \in StatusSet THEN status ELSE Nil
  IN  IF mapped = Nil \/ (IsTerminalStatus(stored) /\ IsPendingStatus(mapped))
      THEN stored
      ELSE mapped

IsPendingMonobankPayment(status, provider) ==
  IsPendingStatus(ResolveMonobankPaymentStatus(status, provider))
=============================================================================
