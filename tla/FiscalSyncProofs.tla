-------------------------- MODULE FiscalSyncProofs --------------------------
(***************************************************************************)
(* Proof about FiscalSync, for any payments, jobs, size of the batch and   *)
(* number of faults.                                                       *)
(*                                                                         *)
(* A job holds the answer for the payment it is at and loses it when it    *)
(* goes on, and Monobank never takes back a check; so an answer is good    *)
(* for that payment however late it is stored.                             *)
(***************************************************************************)
EXTENDS FiscalSync, TLAPS

\* What is stored and what Monobank issued is a check for each payment; what a job
\* has is what it has still to take and an answer.
Shape ==
  /\ check \in [Payments -> Checks] /\ issued \in [Payments -> Checks]
  /\ DOMAIN job = Jobs
  /\ job = [j \in Jobs |-> [todo |-> job[j].todo, answer |-> job[j].answer]]

\* An answer was issued for the payment the job is at.
AnswersIssued ==
  \A j \in Jobs :
    job[j].answer # "none" /\ Head(job[j].todo) \in Payments =>
      /\ job[j].answer \in Checks
      /\ Rank(job[j].answer) <= Rank(issued[Head(job[j].todo)])

IInv == Shape /\ AnswersIssued /\ StoredWasIssued

\* The checks are ordered by what Monobank may issue later.
LEMMA RankType == \A c \in Checks : Rank(c) \in 0 .. 2 /\ (Rank(c) = 0 <=> c = "none")
                                    /\ (Rank(c) = 2 <=> c = "usable")
BY DEF Rank, Checks

\* At first there are neither checks nor answers.
LEMMA InvInit == Init => IInv
<1> SUFFICES ASSUME Init PROVE IInv
  OBVIOUS
<1>1. Shape
  BY DEF Init, Shape, Idle, Checks
<1>2. AnswersIssued
  BY DEF Init, AnswersIssued, Idle
<1>3. StoredWasIssued
  BY RankType DEF Init, StoredWasIssued, Checks
<1> QED
  BY <1>1, <1>2, <1>3 DEF IInv

\* A job that drops its answer, takes a batch, or takes an answer that was issued,
\* keeps the answers issued.
LEMMA JobStep ==
  ASSUME IInv, NEW j \in Jobs, NEW todo, NEW answer, UNCHANGED issued,
         job' = [job EXCEPT ![j] = [todo |-> todo, answer |-> answer]],
         answer # "none" /\ Head(todo) \in Payments =>
           answer \in Checks /\ Rank(answer) <= Rank(issued[Head(todo)]),
         check' \in [Payments -> Checks], StoredWasIssued'
  PROVE  IInv'
<1>1. /\ DOMAIN job' = Jobs /\ job'[j] = [todo |-> todo, answer |-> answer]
      /\ \A k \in Jobs \ {j} : job'[k] = job[k]
  BY DEF IInv, Shape
<1>2. \A k \in Jobs : job'[k] = [todo |-> job'[k].todo, answer |-> job'[k].answer]
  BY <1>1 DEF IInv, Shape
<1>3. Shape'
  BY <1>1, <1>2 DEF IInv, Shape
<1>4. AnswersIssued'
  BY <1>1 DEF IInv, AnswersIssued
<1> QED
  BY <1>3, <1>4 DEF IInv

\* A job with its payments and its answer.
LEMMA JobShape ==
  ASSUME IInv, NEW j \in Jobs
  PROVE  /\ job[j] = [todo |-> job[j].todo, answer |-> job[j].answer]
         /\ \A s : [job EXCEPT ![j].todo = s] =
                     [job EXCEPT ![j] = [todo |-> s, answer |-> job[j].answer]]
         /\ \A a : [job EXCEPT ![j].answer = a] =
                     [job EXCEPT ![j] = [todo |-> job[j].todo, answer |-> a]]
<1>1. job[j] = [todo |-> job[j].todo, answer |-> job[j].answer]
  BY DEF IInv, Shape
<1> QED
  BY <1>1

\* The jobs keep the invariant.
LEMMA InvJobs ==
  ASSUME IInv, NEW j \in Jobs,
         \/ SyncMissing(j) \/ (\E p \in Payments : SyncPayment(j, p))
         \/ Work(j) \/ Fails(j) \/ Timeout(j)
  PROVE  IInv'
<1>1. UNCHANGED issued /\ check \in [Payments -> Checks] /\ StoredWasIssued
  BY DEF IInv, Shape, SyncMissing, SyncPayment, Work, FetchFiscalChecks,
         UpsertForPayment, Fails, Timeout
<1>2. CASE UNCHANGED check
  <2>1. StoredWasIssued'
    BY <1>1, <1>2 DEF StoredWasIssued
  <2>2. CASE \E s : job' = [job EXCEPT ![j].todo = s] /\ job[j] = Idle
    <3>1. PICK s : job' = [job EXCEPT ![j].todo = s] /\ job[j] = Idle
      BY <2>2
    <3>2. [job EXCEPT ![j].todo = s] =
            [job EXCEPT ![j] = [todo |-> s, answer |-> job[j].answer]]
      BY JobShape
    <3>3. job[j].answer = "none"
      BY <3>1 DEF Idle
    <3>4. job' = [job EXCEPT ![j] = [todo |-> s, answer |-> "none"]]
      BY <3>1, <3>2, <3>3
    <3> QED
      BY <1>1, <1>2, <2>1, <3>4, JobStep
  <2>3. CASE Skip(j) \/ GiveUp(j)
    <3>1. \/ job' = [job EXCEPT ![j] = [todo |-> Tail(job[j].todo), answer |-> "none"]]
          \/ job' = [job EXCEPT ![j] = [todo |-> <<>>, answer |-> "none"]]
      BY <2>3 DEF Skip, GiveUp, Idle
    <3> QED
      BY <1>1, <1>2, <2>1, <3>1, JobStep
  <2>4. CASE job' = [job EXCEPT ![j].answer = issued[Head(job[j].todo)]]
    <3> DEFINE todo == job[j].todo
               answer == issued[Head(todo)]
    <3>1. job' = [job EXCEPT ![j] = [todo |-> todo, answer |-> answer]]
      BY <2>4, JobShape
    <3>2. Head(todo) \in Payments => answer \in Checks
      BY DEF IInv, Shape
    <3>3. Head(todo) \in Payments => Rank(answer) <= Rank(issued[Head(todo)])
      BY <3>2, RankType
    <3> HIDE DEF todo, answer
    <3> QED
      BY <1>1, <1>2, <2>1, <3>1, <3>2, <3>3, JobStep
  <2>5. \/ \E s : job' = [job EXCEPT ![j].todo = s] /\ job[j] = Idle
        \/ Skip(j) \/ GiveUp(j)
        \/ job' = [job EXCEPT ![j].answer = issued[Head(job[j].todo)]]
        \/ UpsertForPayment(j)
    BY DEF SyncMissing, SyncPayment, Work, FetchFiscalChecks, Fails, Timeout
  <2> QED
    BY <2>2, <2>3, <2>4, <2>5 DEF UpsertForPayment
<1>3. CASE UpsertForPayment(j)
  <2> DEFINE p == Head(job[j].todo)
  <2>1. check' = [check EXCEPT ![p] = job[j].answer] /\ job[j].answer # "none"
    BY <1>3 DEF UpsertForPayment, Overwrite
  <2>2. p \in Payments =>
          job[j].answer \in Checks /\ Rank(job[j].answer) <= Rank(issued[p])
    BY <2>1 DEF IInv, AnswersIssued
  <2>3. check' \in [Payments -> Checks]
    BY <1>1, <2>1, <2>2
  <2>4. StoredWasIssued'
    BY <1>1, <2>1, <2>2 DEF StoredWasIssued
  <2>5. job' = [job EXCEPT ![j] = [todo |-> Tail(job[j].todo), answer |-> "none"]]
    BY <1>3 DEF UpsertForPayment, Skip
  <2> QED
    BY <1>1, <2>3, <2>4, <2>5, JobStep
<1> QED
  BY <1>2, <1>3 DEF SyncMissing, SyncPayment, Work, FetchFiscalChecks, Fails, Timeout

\* What Monobank issues it does not take back.
LEMMA InvIssues ==
  ASSUME IInv, NEW p \in Payments, Issues(p)
  PROVE  IInv'
<1>1. issued' \in [Payments -> Checks] /\ UNCHANGED <<check, job>>
  BY DEF Issues, IInv, Shape, Checks
<1>2. \A q \in Payments : Rank(issued[q]) <= Rank(issued'[q])
  <2>1. \A q \in Payments :
          \/ issued'[q] = issued[q]
          \/ issued[q] = "none"
          \/ issued'[q] = "usable"
    BY DEF Issues, IInv, Shape
  <2>2. \A q \in Payments : issued[q] \in Checks /\ issued'[q] \in Checks
    BY <1>1 DEF IInv, Shape
  <2>3. \A q \in Payments : /\ Rank(issued[q]) \in 0 .. 2 /\ Rank(issued'[q]) \in 0 .. 2
                            /\ issued[q] = "none" => Rank(issued[q]) = 0
                            /\ issued'[q] = "usable" => Rank(issued'[q]) = 2
    BY <2>2, RankType
  <2> QED
    BY <2>1, <2>3
<1>3. \A q \in Payments : /\ Rank(issued[q]) \in Nat /\ Rank(issued'[q]) \in Nat
                          /\ Rank(check[q]) \in Nat
  BY <1>1, RankType DEF IInv, Shape
<1>4. \A c \in Checks : Rank(c) \in Nat
  BY RankType
<1>5. StoredWasIssued'
  BY <1>1, <1>2, <1>3 DEF IInv, StoredWasIssued
<1>6. AnswersIssued'
  BY <1>1, <1>2, <1>3, <1>4 DEF IInv, AnswersIssued
<1>7. Shape'
  BY <1>1 DEF IInv, Shape
<1> QED
  BY <1>5, <1>6, <1>7 DEF IInv

\* Every step keeps the invariant.
LEMMA InvNext == IInv /\ [Next]_vars => IInv'
<1> SUFFICES ASSUME IInv, [Next]_vars PROVE IInv'
  OBVIOUS
<1>1. CASE UNCHANGED <<check, issued, job>>
  BY <1>1 DEF IInv, Shape, AnswersIssued, StoredWasIssued
<1> QED
  BY <1>1, InvJobs, InvIssues DEF Next, vars, Jobs, IsPaid

\* No job stores a check that Monobank has not issued for that payment, whatever
\* fails, and however many jobs work on one payment at a time.
THEOREM StoredChecksWereIssued == Spec => []StoredWasIssued
<1>1. IInv => StoredWasIssued
  BY DEF IInv
<1> QED
  BY InvInit, InvNext, <1>1, PTL DEF Spec
=============================================================================
