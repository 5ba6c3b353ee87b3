---------------------------- MODULE FeatureGrants ----------------------------
(***************************************************************************)
(* Who has the feature "lectures": the row of user_features of a user,     *)
(* which a payment's success grants and admins grant and revoke.           *)
(*                                                                         *)
(* A grant is one upsert and a revocation one update.  An admin's request  *)
(* looks the admin up, makes its statement and then reads the user's       *)
(* features for its answer, with others in between.  Monobank repeats the  *)
(* reports of success, and each of them grants again.                      *)
(***************************************************************************)
CONSTANTS
  Users,       \* the users of the auth service, admins among them
  Admins,
  Payments,    \* payments for lecture products
  Owner,       \* the user of each payment
  Calls,       \* the requests of admins that can be under way at one time
  None

ASSUME AdminsAreUsers == Admins \subseteq Users
ASSUME PaymentsHaveOwners == Owner \in [Payments -> Users]
ASSUME NoneIsNoPayment == None \notin Payments

VARIABLES
  mirrored,  \* the users who have a row of app_users
  feature,   \* the row of user_features by user: is there one, is it active,
             \* and the payment it refers to
  paid,      \* the payments Monobank reports as success
  call,      \* the requests: the step, what is asked for which user, whether the
             \* statement found its user and was not followed by another's, and
             \* the answer
  settled,   \* the payments whose success was granted
  revoked    \* the users an admin revoked the feature of after the last grant

vars == <<mirrored, feature, paid, call, settled, revoked>>

NoRow == [exists |-> FALSE, active |-> FALSE, payment |-> None]
Idle  == [pc |-> "idle", action |-> "none", user |-> None, alone |-> FALSE,
          shown |-> FALSE]

Init ==
  /\ mirrored = {} /\ paid = {} /\ settled = {} /\ revoked = {}
  /\ feature = [u \in Users |-> NoRow]
  /\ call = [c \in Calls |-> Idle]

\* The calls after the row of u was written by another: what those that made
\* their statement will read is no longer theirs.
Disturbed(u) ==
  [d \in Calls |-> IF call[d].pc = "select" /\ call[d].user = u
                   THEN [call[d] EXCEPT !.alone = FALSE] ELSE call[d]]

\* What the lectures' pages ask, and what an admin's answer lists.
HasActiveFeature(u) == feature[u].active

-----------------------------------------------------------------------------
\* handleUpsert: the auth service mirrors a user.
MirrorAuthUser(u) ==
  /\ mirrored' = mirrored \cup {u}
  /\ UNCHANGED <<feature, paid, call, settled, revoked>>

\* A variant whose conflict clause leaves revoked_at alone.
UpsertKeepsRevoked(row, p) ==
  [exists |-> TRUE, active |-> IF row.exists THEN row.active ELSE TRUE,
   payment |-> IF p = None THEN row.payment ELSE p]

\* A variant whose conflict clause takes the new payment_id, null or not.
UpsertPayment(row, p) == [exists |-> TRUE, active |-> TRUE, payment |-> p]

\* insert ... on conflict: active again, and a payment is only replaced by another.
Upsert(row, p) ==
  [exists |-> TRUE, active |-> TRUE, payment |-> IF p = None THEN row.payment ELSE p]

\* The customer of a checkout, who has to be mirrored, pays.
Pays(p) ==
  /\ Owner[p] \in mirrored
  /\ paid' = paid \cup {p}
  /\ UNCHANGED <<mirrored, feature, call, settled, revoked>>

\* maybeGrantProductFeatures after a report of success, the first or a repeated.
GrantByAppUserID(p) ==
  LET u == Owner[p] IN
  /\ p \in paid
  /\ feature' = [feature EXCEPT ![u] = Upsert(@, p)]
  /\ settled' = settled \cup {p} /\ revoked' = revoked \ {u}
  /\ call' = Disturbed(u)
  /\ UNCHANGED <<mirrored, paid>>

\* handleFeatureAction: an admin who is not mirrored is answered with 500.
handleFeatureAction(c, a, action, u) ==
  /\ call[c].pc \in {"idle", "answered"}
  /\ a \in mirrored
  /\ call' = [call EXCEPT ![c] =
       [pc |-> "exec", action |-> action, user |-> u, alone |-> FALSE,
        shown |-> FALSE]]
  /\ UNCHANGED <<mirrored, feature, paid, settled, revoked>>

\* The call c has made its statement for its user.
Executed(c) ==
  LET u == call[c].user IN
  call' = [Disturbed(u) EXCEPT ![c] =
             [call[c] EXCEPT !.pc = "select", !.alone = u \in mirrored]]

\* Grant inserts nothing for a user who has no row of app_users.
Grant(c) ==
  LET u == call[c].user IN
  /\ call[c].pc = "exec" /\ call[c].action = "grant"
  /\ IF u \in mirrored
     THEN /\ feature' = [feature EXCEPT ![u] = Upsert(@, None)]
          /\ revoked' = revoked \ {u}
     ELSE UNCHANGED <<feature, revoked>>
  /\ Executed(c)
  /\ UNCHANGED <<mirrored, paid, settled>>

\* A variant that only revokes what was not bought.
RevocableUnbought(row) == row.active /\ row.payment = None

Revocable(row) == row.active

Revoke(c) ==
  LET u == call[c].user IN
  /\ call[c].pc = "exec" /\ call[c].action = "revoke"
  /\ IF Revocable(feature[u])
     THEN /\ feature' = [feature EXCEPT ![u].active = FALSE]
          /\ revoked' = revoked \cup {u}
     ELSE UNCHANGED <<feature, revoked>>
  /\ Executed(c)
  /\ UNCHANGED <<mirrored, paid, settled>>

\* The answer lists the features of the user that are active now.
SelectActiveFeatures(c) ==
  /\ call[c].pc = "select"
  /\ call' = [call EXCEPT ![c].pc = "answered",
                          ![c].shown = HasActiveFeature(call[c].user)]
  /\ UNCHANGED <<mirrored, feature, paid, settled, revoked>>

\* A statement fails, and the request is answered with 500, or the server stops.
Aborts(c) ==
  /\ call[c].pc \in {"exec", "select"}
  /\ call' = [call EXCEPT ![c] = Idle]
  /\ UNCHANGED <<mirrored, feature, paid, settled, revoked>>

Next ==
  \/ \E u \in Users : MirrorAuthUser(u)
  \/ \E p \in Payments : Pays(p) \/ GrantByAppUserID(p)
  \/ \E c \in Calls :
       \/ \E a \in Admins, action \in {"grant", "revoke"}, u \in Users :
            handleFeatureAction(c, a, action, u)
       \/ Grant(c) \/ Revoke(c) \/ SelectActiveFeatures(c) \/ Aborts(c)

Spec == Init /\ [][Next]_vars

-----------------------------------------------------------------------------
\* The variables have their types.
TypeOK ==
  /\ mirrored \subseteq Users /\ revoked \subseteq Users
  /\ paid \subseteq Payments /\ settled \subseteq Payments
  /\ feature \in [Users -> [exists : BOOLEAN, active : BOOLEAN,
                            payment : Payments \cup {None}]]
  /\ call \in [Calls -> [pc : {"idle", "exec", "select", "answered"},
                         action : {"none", "grant", "revoke"},
                         user : Users \cup {None}, alone : BOOLEAN,
                         shown : BOOLEAN]]

\* Who has paid has access, unless an admin has revoked it since: a payment
\* after a revocation restores it, and no other user's affairs touch it.
PaidHasAccess ==
  \A p \in settled : HasActiveFeature(Owner[p]) \/ Owner[p] \in revoked

\* A feature that was bought refers for ever to a payment of its own user that
\* was paid, however often admins grant and revoke it afterwards.
BoughtStaysBought ==
  /\ \A p \in settled : feature[Owner[p]].payment # None
  /\ \A u \in Users : feature[u].payment # None =>
       feature[u].payment \in paid /\ Owner[feature[u].payment] = u

\* The features an admin's request answers with show what it asked for, if its
\* statement found the user and no other statement came before the answer.
AnswerShowsTheWish ==
  \A c \in Calls : call[c].pc = "answered" /\ call[c].alone =>
    (call[c].shown <=> call[c].action = "grant")
=============================================================================
