------------------------- MODULE FeatureGrantsProofs -------------------------
(***************************************************************************)
(* Proofs about FeatureGrants, for any users, payments and requests.       *)
(*                                                                         *)
(* The inductive invariant says what a request that made its statement     *)
(* knows: while no other statement came after it, the row is as it left    *)
(* it.                                                                     *)
(***************************************************************************)
EXTENDS FeatureGrants, TLAPS

\* A request that is under way has a user and a wish.
Wishes ==
  \A c \in Calls : call[c].pc # "idle" =>
    call[c].user \in Users /\ call[c].action \in {"grant", "revoke"}

\* The row is as the last statement left it.
AsLeft ==
  \A c \in Calls : call[c].pc = "select" /\ call[c].alone =>
    (feature[call[c].user].active <=> call[c].action = "grant")

IInv == TypeOK /\ Wishes /\ AsLeft /\ AnswerShowsTheWish
          /\ PaidHasAccess /\ BoughtStaysBought

-----------------------------------------------------------------------------
\* No one has the feature at first.
LEMMA InvInit == Init => IInv
BY PaymentsHaveOwners DEF Init, IInv, TypeOK, Wishes, AsLeft, AnswerShowsTheWish,
   PaidHasAccess, BoughtStaysBought, HasActiveFeature, NoRow, Idle

\* What a statement that writes the row of a user leaves of the calls: the others
\* are where they were, and those that will read the row know it is not theirs.
LEMMA DisturbedCalls ==
  ASSUME TypeOK, NEW u \in Users
  PROVE  /\ Disturbed(u) \in [Calls -> [pc : {"idle", "exec", "select", "answered"},
                                        action : {"none", "grant", "revoke"},
                                        user : Users \cup {None}, alone : BOOLEAN,
                                        shown : BOOLEAN]]
         /\ \A d \in Calls :
              /\ Disturbed(u)[d].pc = call[d].pc
              /\ Disturbed(u)[d].user = call[d].user
              /\ Disturbed(u)[d].action = call[d].action
              /\ Disturbed(u)[d].shown = call[d].shown
              /\ Disturbed(u)[d].alone => call[d].alone
              /\ call[d].pc = "answered" => Disturbed(u)[d] = call[d]
              /\ call[d].pc = "select" /\ Disturbed(u)[d].alone => call[d].user # u
<1>1. ASSUME NEW d \in Calls
      PROVE  [call[d] EXCEPT !.alone = FALSE] \in
               [pc : {"idle", "exec", "select", "answered"},
                action : {"none", "grant", "revoke"},
                user : Users \cup {None}, alone : BOOLEAN, shown : BOOLEAN]
  BY DEF TypeOK
<1> QED
  BY <1>1 DEF TypeOK, Disturbed

\* The payments' part of the invariant, when one row is granted.
LEMMA InvGrants ==
  ASSUME IInv, NEW u \in Users, NEW p \in Payments \cup {None},
         p # None => p \in paid /\ Owner[p] = u,
         feature' = [feature EXCEPT ![u] = Upsert(feature[u], p)],
         settled' = settled \cup ({p} \ {None}), revoked' = revoked \ {u},
         UNCHANGED <<mirrored, paid>>
  PROVE  /\ PaidHasAccess' /\ BoughtStaysBought'
         /\ feature' \in [Users -> [exists : BOOLEAN, active : BOOLEAN,
                                    payment : Payments \cup {None}]]
         /\ feature'[u].active
         /\ \A v \in Users \ {u} : feature'[v] = feature[v]
<1> USE PaymentsHaveOwners, NoneIsNoPayment
<1>1. /\ feature'[u] = Upsert(feature[u], p)
      /\ \A v \in Users \ {u} : feature'[v] = feature[v]
      /\ Upsert(feature[u], p).active
      /\ Upsert(feature[u], p) \in [exists : BOOLEAN, active : BOOLEAN,
                                    payment : Payments \cup {None}]
      /\ Upsert(feature[u], p).payment = IF p = None THEN feature[u].payment ELSE p
  BY DEF IInv, TypeOK, Upsert
<1>2. PaidHasAccess'
  BY <1>1 DEF IInv, TypeOK, PaidHasAccess, HasActiveFeature
<1>3. \A q \in settled' : feature'[Owner[q]].payment # None
  <2> TAKE q \in settled'
  <2>1. q \in Payments /\ Owner[q] \in Users /\ (q # p => q \in settled)
    BY DEF IInv, TypeOK
  <2>2. CASE q = p
    BY <1>1, <2>1, <2>2
  <2>3. CASE q # p
    BY <1>1, <2>1, <2>3 DEF IInv, BoughtStaysBought
  <2> QED
    BY <2>2, <2>3
<1>4. ASSUME NEW v \in Users, feature'[v].payment # None
      PROVE  feature'[v].payment \in paid' /\ Owner[feature'[v].payment] = v
  BY <1>1, <1>4 DEF IInv, TypeOK, BoughtStaysBought
<1>5. feature' \in [Users -> [exists : BOOLEAN, active : BOOLEAN,
                              payment : Payments \cup {None}]]
  BY <1>1 DEF IInv, TypeOK
<1> QED
  BY <1>1, <1>2, <1>3, <1>4, <1>5 DEF BoughtStaysBought

\* A report of success grants the feature, once more or again.
LEMMA InvReport ==
  ASSUME IInv, NEW p \in Payments, GrantByAppUserID(p)
  PROVE  IInv'
<1> DEFINE u == Owner[p]
<1>1. /\ p \in paid /\ u \in Users /\ p # None
      /\ feature' = [feature EXCEPT ![u] = Upsert(feature[u], p)]
      /\ settled' = settled \cup {p} /\ revoked' = revoked \ {u}
      /\ call' = Disturbed(u) /\ UNCHANGED <<mirrored, paid>>
  BY PaymentsHaveOwners, NoneIsNoPayment DEF GrantByAppUserID
<1> HIDE DEF u
<1>2. /\ PaidHasAccess' /\ BoughtStaysBought'
      /\ feature' \in [Users -> [exists : BOOLEAN, active : BOOLEAN,
                                 payment : Payments \cup {None}]]
      /\ \A v \in Users \ {u} : feature'[v] = feature[v]
  <2>1. settled' = settled \cup ({p} \ {None}) /\ Owner[p] = u
    BY <1>1 DEF u
  <2> QED
    BY <1>1, <2>1, InvGrants
<1>3. TypeOK'
  BY <1>1, <1>2, DisturbedCalls DEF IInv, TypeOK
<1>4. Wishes'
  BY <1>1, DisturbedCalls DEF IInv, Wishes
<1>5. AsLeft'
  BY <1>1, <1>2, DisturbedCalls DEF IInv, Wishes, AsLeft
<1>6. AnswerShowsTheWish'
  BY <1>1, DisturbedCalls DEF IInv, AnswerShowsTheWish
<1> QED
  BY <1>2, <1>3, <1>4, <1>5, <1>6 DEF IInv

\* The calls' part of the invariant, when a call makes its statement.
LEMMA InvExecuted ==
  ASSUME IInv, NEW c \in Calls, call[c].pc = "exec", Executed(c),
         \A v \in Users \ {call[c].user} : feature'[v] = feature[v],
         call[c].user \in mirrored =>
           (feature'[call[c].user].active <=> call[c].action = "grant")
  PROVE  /\ call' \in [Calls -> [pc : {"idle", "exec", "select", "answered"},
                                 action : {"none", "grant", "revoke"},
                                 user : Users \cup {None}, alone : BOOLEAN,
                                 shown : BOOLEAN]]
         /\ Wishes' /\ AsLeft' /\ AnswerShowsTheWish'
<1> DEFINE u == call[c].user
           e == [call[c] EXCEPT !.pc = "select", !.alone = u \in mirrored]
<1>1. u \in Users /\ call[c].action \in {"grant", "revoke"} /\ TypeOK
  BY DEF IInv, Wishes
<1>2. call' = [Disturbed(u) EXCEPT ![c] = e]
  BY DEF Executed
<1>3. /\ e.pc = "select" /\ e.user = u /\ e.action = call[c].action
      /\ e.alone <=> u \in mirrored
      /\ e \in [pc : {"idle", "exec", "select", "answered"},
                action : {"none", "grant", "revoke"},
                user : Users \cup {None}, alone : BOOLEAN, shown : BOOLEAN]
  <2>1. call[c] \in [pc : {"idle", "exec", "select", "answered"},
                     action : {"none", "grant", "revoke"},
                     user : Users \cup {None}, alone : BOOLEAN, shown : BOOLEAN]
    BY <1>1 DEF TypeOK
  <2> DEFINE m == u \in mirrored
  <2>2. m \in BOOLEAN /\ e = [call[c] EXCEPT !.pc = "select", !.alone = m]
    OBVIOUS
  <2> HIDE DEF m, e
  <2>3. e \in [pc : {"idle", "exec", "select", "answered"},
               action : {"none", "grant", "revoke"},
               user : Users \cup {None}, alone : BOOLEAN, shown : BOOLEAN]
    BY <2>1, <2>2
  <2>4. e.pc = "select" /\ e.user = call[c].user /\ e.action = call[c].action
        /\ e.alone = m
    BY <2>1, <2>2
  <2> QED
    BY <2>3, <2>4 DEF m
<1> HIDE DEF e, u
<1>4. call'[c] = e /\ \A d \in Calls \ {c} : call'[d] = Disturbed(u)[d]
  BY <1>1, <1>2, DisturbedCalls
<1>5. call' \in [Calls -> [pc : {"idle", "exec", "select", "answered"},
                           action : {"none", "grant", "revoke"},
                           user : Users \cup {None}, alone : BOOLEAN,
                           shown : BOOLEAN]]
  BY <1>1, <1>2, <1>3, DisturbedCalls
<1>6. Wishes'
  BY <1>1, <1>3, <1>4, DisturbedCalls DEF IInv, Wishes
<1>7. AsLeft'
  <2> SUFFICES ASSUME NEW d \in Calls, call'[d].pc = "select", call'[d].alone
               PROVE  feature'[call'[d].user].active <=> call'[d].action = "grant"
    BY DEF AsLeft
  <2>1. CASE d = c
    BY <1>3, <1>4, <2>1 DEF u
  <2>2. CASE d # c
    <3>1. /\ call[d].pc = "select" /\ call[d].alone /\ call[d].user # u
          /\ call[d].user \in Users /\ call'[d].user = call[d].user
          /\ call'[d].action = call[d].action
      BY <1>1, <1>4, <2>2, DisturbedCalls DEF IInv, Wishes
    <3>2. feature'[call[d].user] = feature[call[d].user]
      BY <3>1 DEF u
    <3> QED
      BY <3>1, <3>2 DEF IInv, AsLeft
  <2> QED
    BY <2>1, <2>2
<1>8. AnswerShowsTheWish'
  BY <1>1, <1>3, <1>4, DisturbedCalls DEF IInv, AnswerShowsTheWish
<1> QED
  BY <1>5, <1>6, <1>7, <1>8

\* An admin's grant.
LEMMA InvGrant ==
  ASSUME IInv, NEW c \in Calls, Grant(c)
  PROVE  IInv'
<1> DEFINE u == call[c].user
<1>1. /\ call[c].pc = "exec" /\ call[c].action = "grant" /\ Executed(c)
      /\ u \in Users /\ UNCHANGED <<mirrored, paid, settled>>
  BY DEF Grant, IInv, Wishes
<1>2. CASE u \in mirrored
  <2>1. /\ feature' = [feature EXCEPT ![u] = Upsert(feature[u], None)]
        /\ revoked' = revoked \ {u} /\ settled' = settled \cup ({None} \ {None})
    BY <1>1, <1>2 DEF Grant
  <2>2. /\ PaidHasAccess' /\ BoughtStaysBought'
        /\ feature' \in [Users -> [exists : BOOLEAN, active : BOOLEAN,
                                   payment : Payments \cup {None}]]
        /\ feature'[u].active
        /\ \A v \in Users \ {u} : feature'[v] = feature[v]
    BY <1>1, <2>1, InvGrants
  <2> QED
    BY <1>1, <2>1, <2>2, InvExecuted DEF IInv, TypeOK
<1>3. CASE u \notin mirrored
  <2>1. UNCHANGED <<feature, revoked>>
    BY <1>3 DEF Grant
  <2>2. PaidHasAccess' /\ BoughtStaysBought'
    BY <1>1, <2>1 DEF IInv, PaidHasAccess, BoughtStaysBought, HasActiveFeature
  <2> QED
    BY <1>1, <1>3, <2>1, <2>2, InvExecuted DEF IInv, TypeOK
<1> QED
  BY <1>2, <1>3

\* An admin's revocation.
LEMMA InvRevoke ==
  ASSUME IInv, NEW c \in Calls, Revoke(c)
  PROVE  IInv'
<1> DEFINE u == call[c].user
<1>1. /\ call[c].pc = "exec" /\ call[c].action = "revoke" /\ Executed(c)
      /\ u \in Users /\ UNCHANGED <<mirrored, paid, settled>>
  BY DEF Revoke, IInv, Wishes
<1>2. CASE feature[u].active
  <2> DEFINE r == [feature[u] EXCEPT !.active = FALSE]
  <2>1. /\ feature' = [feature EXCEPT ![u] = r] /\ revoked' = revoked \cup {u}
    BY <1>1, <1>2 DEF Revoke, Revocable
  <2>2. /\ ~r.active /\ r.payment = feature[u].payment
        /\ r \in [exists : BOOLEAN, active : BOOLEAN, payment : Payments \cup {None}]
    <3>1. feature[u] \in [exists : BOOLEAN, active : BOOLEAN,
                          payment : Payments \cup {None}]
      BY <1>1 DEF IInv, TypeOK
    <3> QED
      BY <3>1
  <2> HIDE DEF r
  <2>3. /\ feature'[u] = r /\ \A v \in Users \ {u} : feature'[v] = feature[v]
        /\ feature' \in [Users -> [exists : BOOLEAN, active : BOOLEAN,
                                   payment : Payments \cup {None}]]
    BY <1>1, <2>1, <2>2 DEF IInv, TypeOK
  <2>4. PaidHasAccess'
    BY <1>1, <2>1, <2>2, <2>3, PaymentsHaveOwners
       DEF IInv, TypeOK, PaidHasAccess, HasActiveFeature
  <2>5. \A v \in Users : feature'[v].payment = feature[v].payment
    BY <2>2, <2>3
  <2>6. BoughtStaysBought'
    BY <1>1, <2>5, PaymentsHaveOwners DEF IInv, TypeOK, BoughtStaysBought
  <2> QED
    BY <1>1, <2>1, <2>2, <2>3, <2>4, <2>6, InvExecuted DEF IInv, TypeOK
<1>3. CASE ~feature[u].active
  <2>1. UNCHANGED <<feature, revoked>>
    BY <1>3 DEF Revoke, Revocable
  <2>2. PaidHasAccess' /\ BoughtStaysBought'
    BY <1>1, <2>1 DEF IInv, PaidHasAccess, BoughtStaysBought, HasActiveFeature
  <2> QED
    BY <1>1, <1>3, <2>1, <2>2, InvExecuted DEF IInv, TypeOK
<1> QED
  BY <1>2, <1>3

\* A step of a call that writes no row: it begins, answers or stops.
LEMMA InvCall ==
  ASSUME IInv, NEW c \in Calls, NEW k,
         call' = [call EXCEPT ![c] = k],
         UNCHANGED <<mirrored, feature, paid, settled, revoked>>,
         k \in [pc : {"idle", "exec", "answered"},
                action : {"none", "grant", "revoke"},
                user : Users \cup {None}, alone : BOOLEAN, shown : BOOLEAN],
         k.pc # "idle" => k.user \in Users /\ k.action \in {"grant", "revoke"},
         k.pc = "answered" /\ k.alone => (k.shown <=> k.action = "grant")
  PROVE  IInv'
<1>1. call'[c] = k /\ \A d \in Calls \ {c} : call'[d] = call[d]
  BY DEF IInv, TypeOK
<1>2. TypeOK'
  BY DEF IInv, TypeOK
<1>3. Wishes'
  BY <1>1 DEF IInv, Wishes
<1>4. AsLeft'
  BY <1>1 DEF IInv, AsLeft
<1>5. AnswerShowsTheWish'
  BY <1>1 DEF IInv, AnswerShowsTheWish
<1>6. PaidHasAccess' /\ BoughtStaysBought'
  BY DEF IInv, PaidHasAccess, BoughtStaysBought, HasActiveFeature
<1> QED
  BY <1>2, <1>3, <1>4, <1>5, <1>6 DEF IInv

\* The invariant holds throughout.
LEMMA Invariance == Spec => []IInv
<1>1. Init => IInv
  BY InvInit
<1>2. IInv /\ [Next]_vars => IInv'
  <2> SUFFICES ASSUME IInv, [Next]_vars
               PROVE  IInv'
    OBVIOUS
  <2>1. CASE UNCHANGED vars
    BY <2>1 DEF vars, IInv, TypeOK, Wishes, AsLeft, AnswerShowsTheWish,
                PaidHasAccess, BoughtStaysBought, HasActiveFeature
  <2>2. ASSUME NEW u \in Users, MirrorAuthUser(u)
        PROVE  IInv'
    BY <2>2 DEF MirrorAuthUser, IInv, TypeOK, Wishes, AsLeft, AnswerShowsTheWish,
                PaidHasAccess, BoughtStaysBought, HasActiveFeature
  <2>3. ASSUME NEW p \in Payments, Pays(p)
        PROVE  IInv'
    BY <2>3 DEF Pays, IInv, TypeOK, Wishes, AsLeft, AnswerShowsTheWish,
                PaidHasAccess, BoughtStaysBought, HasActiveFeature
  <2>4. ASSUME NEW c \in Calls, NEW a \in Admins, NEW action \in {"grant", "revoke"},
               NEW u \in Users, handleFeatureAction(c, a, action, u)
        PROVE  IInv'
    <3> DEFINE k == [pc |-> "exec", action |-> action, user |-> u, alone |-> FALSE,
                     shown |-> FALSE]
    <3>1. /\ call' = [call EXCEPT ![c] = k]
          /\ UNCHANGED <<mirrored, feature, paid, settled, revoked>>
      BY <2>4 DEF handleFeatureAction
    <3>2. /\ k \in [pc : {"idle", "exec", "answered"},
                    action : {"none", "grant", "revoke"},
                    user : Users \cup {None}, alone : BOOLEAN, shown : BOOLEAN]
          /\ k.pc = "exec" /\ k.user = u /\ k.action = action
      OBVIOUS
    <3> HIDE DEF k
    <3> QED
      BY <3>1, <3>2, InvCall
  <2>5. ASSUME NEW c \in Calls, SelectActiveFeatures(c)
        PROVE  IInv'
    <3> DEFINE k == [call[c] EXCEPT !.pc = "answered",
                                    !.shown = HasActiveFeature(call[c].user)]
    <3>1. /\ call[c].pc = "select" /\ call' = [call EXCEPT ![c] = k]
          /\ UNCHANGED <<mirrored, feature, paid, settled, revoked>>
      BY <2>5 DEF SelectActiveFeatures
    <3>2. /\ call[c].user \in Users /\ call[c].action \in {"grant", "revoke"}
          /\ HasActiveFeature(call[c].user) \in BOOLEAN
      BY <3>1 DEF IInv, TypeOK, Wishes, HasActiveFeature
    <3>3. /\ k \in [pc : {"idle", "exec", "answered"},
                    action : {"none", "grant", "revoke"},
                    user : Users \cup {None}, alone : BOOLEAN, shown : BOOLEAN]
          /\ k.pc = "answered" /\ k.user = call[c].user /\ k.action = call[c].action
          /\ k.alone = call[c].alone /\ k.shown = HasActiveFeature(call[c].user)
      BY <3>2 DEF IInv, TypeOK
    <3>4. k.alone => (k.shown <=> k.action = "grant")
      BY <3>1, <3>3 DEF IInv, AsLeft, HasActiveFeature
    <3> HIDE DEF k
    <3> QED
      BY <3>1, <3>2, <3>3, <3>4, InvCall
  <2>6. ASSUME NEW c \in Calls, Aborts(c)
        PROVE  IInv'
    BY <2>6, InvCall DEF Aborts, Idle
  <2> QED
    BY <2>1, <2>2, <2>3, <2>4, <2>5, <2>6, InvReport, InvGrant, InvRevoke DEF Next
<1> QED
  BY <1>1, <1>2, PTL DEF Spec

\* Whoever has paid has access, unless an admin has revoked it since.
THEOREM BuyersHaveAccess == Spec => []PaidHasAccess
<1>1. IInv => PaidHasAccess
  BY DEF IInv
<1> QED
  BY <1>1, Invariance, PTL

\* A bought feature refers for ever to a payment of its own user that was paid.
THEOREM PurchasesAreKept == Spec => []BoughtStaysBought
<1>1. IInv => BoughtStaysBought
  BY DEF IInv
<1> QED
  BY <1>1, Invariance, PTL

\* An admin's answer shows what was asked for, unless another statement came before.
THEOREM AnswersAreTrue == Spec => []AnswerShowsTheWish
<1>1. IInv => AnswerShowsTheWish
  BY DEF IInv
<1> QED
  BY <1>1, Invariance, PTL
=============================================================================
