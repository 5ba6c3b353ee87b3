--------------------------- MODULE MCFeatureGrants ---------------------------
(***************************************************************************)
(* The instance of FeatureGrants that TLC checks: a user with two payments *)
(* and an admin, who may also be the user of a request.                    *)
(***************************************************************************)
EXTENDS FeatureGrants, TLC

CONSTANTS user, admin, c1, c2, p1, p2

MCOwner == [p \in {p1, p2} |-> user]

\* Requests differ in nothing but their names, and so do the payments.
GrantSymmetry == Permutations(Calls) \cup Permutations(Payments)
=============================================================================
