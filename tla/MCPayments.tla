----------------------------- MODULE MCPayments -----------------------------
(***************************************************************************)
(* The instances of Payments that TLC checks.  The constants are in the    *)
(* .cfg files.                                                             *)
(***************************************************************************)
EXTENDS Payments, TLC

\* Requests differ in nothing but their names.
HandlerSymmetry == Permutations(Handlers)

\* What the webhook has answered is a history that no action of Spec reads: states
\* that differ in it alone are one to an invariant that does not mention it.
Unanswered == <<live, row, create, cancel, locked, inflight, granted, fiscal,
                bank, sent, open, faults>>
=============================================================================
