-------------------------- MODULE MCPaymentsRaces --------------------------
(***************************************************************************)
(* The instance of PaymentsRaces that TLC checks.  The constants are in    *)
(* the .cfg file.                                                          *)
(***************************************************************************)
EXTENDS PaymentsRaces, TLC

\* Requests differ in nothing but their names.
HandlerSymmetry == Permutations(Handlers)
=============================================================================
