------------------------ MODULE MCExternalCheckout ------------------------
(***************************************************************************)
(* The instances of ExternalCheckout that TLC checks: two references of    *)
(* participants that are alike.                                            *)
(***************************************************************************)
EXTENDS ExternalCheckout, TLC

CONSTANTS r1, r2

MCRefs == {r1, r2}
MCSimilar == {<<r1, r2>>, <<r2, r1>>}
MCSameUpToCase == {<<r1, r1>>, <<r2, r2>>}

\* Requests and ids differ in nothing but their names.
CheckoutSymmetry == Permutations(Requests) \cup Permutations(Ids)
=============================================================================
