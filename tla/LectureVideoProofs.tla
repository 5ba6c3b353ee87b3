------------------------- MODULE LectureVideoProofs -------------------------
(***************************************************************************)
(* Proofs about LectureVideo: for any number of lectures, videos and       *)
(* concurrent calls, the answers name every video that went out of use and *)
(* none that is in use.                                                    *)
(*                                                                         *)
(* The inductive invariant says where a video is: each id that was set is  *)
(* in one of three places, the row that uses it, the call that is to set   *)
(* it, or an answer, and in one only unless its caller was told that it    *)
(* was not set; and the row lock makes what a transaction has read the     *)
(* row's video until it commits.                                           *)
(***************************************************************************)
EXTENDS LectureVideo, TLAPS

\* The variables have their types.
TypeOK ==
  /\ row \in [Lectures -> {"unborn", "live", "deleted"}]
  /\ video \in [Lectures -> Videos \cup {None}]
  /\ lock \in [Lectures -> Calls \cup {None}]
  /\ call \in [Calls -> [pc : {"idle", "select", "update", "refused"},
                         lecture : Lectures \cup {None},
                         new : Videos \cup {None}, previous : Videos \cup {None}]]
  /\ uploaded \subseteq Videos /\ named \subseteq uploaded
  /\ unsure \subseteq uploaded /\ untold \subseteq uploaded

\* Between its select and its commit a call holds its row and has read its video.
HeldRow ==
  \A c \in Calls :
    /\ call[c].pc = "idle" => call[c].new = None
    /\ call[c].pc # "idle" => call[c].lecture \in Lectures
    /\ call[c].pc = "update" =>
         /\ call[c].lecture \in Live /\ lock[call[c].lecture] = c
         /\ call[c].previous = video[call[c].lecture]

\* A video in use was uploaded, is used by one live lecture, and was not named
\* unless its caller was left unsure.
UsedOnce ==
  \A l \in Lectures : video[l] # None =>
    /\ row[l] = "live" /\ video[l] \in uploaded
    /\ video[l] \in named => video[l] \in unsure
    /\ \A k \in Lectures : video[k] = video[l] => k = l

\* A video that is still to be set is with one call only, and nowhere else unless
\* the caller was left unsure: then its lecture may have it.
SetOnce ==
  \A c \in Calls : call[c].new # None =>
    /\ call[c].new \in uploaded
    /\ call[c].new \in named => call[c].new \in unsure
    /\ \A d \in Calls : call[d].new = call[c].new => d = c
    /\ \A l \in Lectures : video[l] = call[c].new =>
         l = call[c].lecture /\ call[c].new \in unsure

IInv == TypeOK /\ HeldRow /\ UsedOnce /\ SetOnce /\ NoVideoIsLost

-----------------------------------------------------------------------------
\* The invariant holds before the first upload.
LEMMA InvInit == Init => IInv
BY NoneIsNew DEF Init, IInv, TypeOK, HeldRow, UsedOnce, SetOnce, NoVideoIsLost,
                 Idle, Live, InUse, InHand

\* Taking a video into hand, for a new call.
LEMMA InvBegin ==
  ASSUME IInv, NEW c \in Calls, NEW l \in Lectures, setLectureVideo(c, l)
  PROVE  IInv'
<1>1. PICK v \in (Videos \ uploaded) \cup {None} :
        /\ call' = [call EXCEPT ![c] =
             [pc |-> "select", lecture |-> l, new |-> v, previous |-> None]]
        /\ uploaded' = uploaded \cup ({v} \ {None})
  BY DEF setLectureVideo
<1>2. UNCHANGED <<row, video, lock, named, unsure, untold>> /\ call[c] = Idle
  BY DEF setLectureVideo, answers
<1>3. TypeOK'
  BY <1>1, <1>2 DEF IInv, TypeOK
<1>4. HeldRow'
  BY <1>1, <1>2 DEF IInv, TypeOK, HeldRow, Live
<1>5. UsedOnce'
  BY <1>1, <1>2 DEF IInv, TypeOK, UsedOnce
<1>6. SetOnce'
  BY <1>1, <1>2 DEF IInv, TypeOK, UsedOnce, SetOnce
<1>7. NoVideoIsLost'
  <2>1. c \in Calls /\ call'[c].new = v
    BY <1>1 DEF IInv, TypeOK
  <2>2. InHand \subseteq InHand' /\ {v} \ {None} \subseteq InHand'
    BY <1>1, <1>2, <2>1 DEF InHand, Idle, IInv, TypeOK
  <2> QED
    BY <1>1, <1>2, <2>2 DEF IInv, NoVideoIsLost, InUse, Live
<1> QED
  BY <1>3, <1>4, <1>5, <1>6, <1>7 DEF IInv

\* Locking the row, being refused, rolling back and asking again move no video.
LEMMA InvStay ==
  ASSUME IInv, NEW c \in Calls,
         SelectForUpdate(c) \/ NotFound(c) \/ Rollback(c) \/ Repeats(c)
  PROVE  IInv'
<1>1. UNCHANGED <<row, video, uploaded, named, unsure, untold>>
  BY DEF SelectForUpdate, NotFound, Rollback, Repeats, answers
<1>2. /\ \A d \in Calls : call'[d].new = call[d].new
      /\ \A d \in Calls : call'[d].lecture = call[d].lecture
      /\ \A d \in Calls : d # c => call'[d] = call[d]
  BY DEF SelectForUpdate, NotFound, Rollback, Repeats, Reads, Refused, IInv, TypeOK
<1>3. TypeOK'
  BY <1>1 DEF SelectForUpdate, NotFound, Rollback, Repeats, Reads, Refused, IInv,
              TypeOK, Live
<1>4. HeldRow'
  <2>1. CASE SelectForUpdate(c)
    <3>1. /\ call[c].lecture \in Live /\ lock[call[c].lecture] = None
          /\ lock' = [lock EXCEPT ![call[c].lecture] = c]
          /\ call'[c].pc = "update" /\ call'[c].lecture = call[c].lecture
          /\ call'[c].previous = video[call[c].lecture]
      BY <2>1 DEF SelectForUpdate, Reads, IInv, TypeOK
    <3>2. \A d \in Calls : call[d].pc = "update" => call[d].lecture # call[c].lecture
      BY <3>1, NoneIsNew DEF IInv, HeldRow
    <3> QED
      BY <1>1, <1>2, <3>1, <3>2 DEF IInv, TypeOK, HeldRow, Live
  <2>2. CASE NotFound(c)
    BY <1>1, <2>2 DEF NotFound, Refused, IInv, TypeOK, HeldRow, Live
  <2>3. CASE Rollback(c)
    BY <1>1, <2>3 DEF Rollback, Refused, IInv, TypeOK, HeldRow, Live
  <2>4. CASE Repeats(c)
    BY <1>1, <1>2, <2>4 DEF Repeats, IInv, TypeOK, HeldRow, Live
  <2> QED
    BY <2>1, <2>2, <2>3, <2>4
<1>5. UsedOnce'
  BY <1>1 DEF IInv, UsedOnce
<1>6. SetOnce'
  BY <1>1, <1>2 DEF IInv, SetOnce
<1>7. NoVideoIsLost'
  <2>1. InHand' = InHand
    BY <1>2 DEF InHand
  <2> QED
    BY <1>1, <2>1 DEF IInv, NoVideoIsLost, InUse, Live
<1> QED
  BY <1>3, <1>4, <1>5, <1>6, <1>7 DEF IInv

\* A commit moves the new video into the row and the previous one into an answer,
\* which names it unless it is lost.
LEMMA InvCommit ==
  ASSUME IInv, NEW c \in Calls, Commit(c) \/ CommitUnanswered(c)
  PROVE  IInv'
<1> DEFINE l == call[c].lecture
           old == video[l]
           v == call[c].new
<1>1. /\ l \in Lectures /\ row[l] = "live" /\ lock[l] = c
      /\ call[c].pc = "update" /\ call[c].previous = old
  BY DEF Commit, CommitUnanswered, Commits, IInv, HeldRow, Live
<1>2. /\ lock' = [lock EXCEPT ![l] = None]
      /\ video' = [video EXCEPT ![l] = v]
      /\ UNCHANGED <<row, uploaded>>
  BY DEF Commit, CommitUnanswered, Commits
<1>3. /\ v \in Videos \cup {None} /\ old \in Videos \cup {None}
      /\ old # None => old \in uploaded
  BY <1>1 DEF IInv, TypeOK, UsedOnce
<1>4. /\ call' \in [Calls -> [pc : {"idle", "select", "update", "refused"},
                             lecture : Lectures \cup {None},
                             new : Videos \cup {None}, previous : Videos \cup {None}]]
      /\ \A d \in Calls \ {c} : call'[d] = call[d]
      /\ \/ call'[c].pc = "idle" /\ call'[c].new = None
         \/ /\ call'[c].pc = "refused" /\ call'[c].new = v /\ call'[c].lecture = l
            /\ v # None => v \in unsure'
  BY DEF Commit, CommitUnanswered, Refused, Idle, IInv, TypeOK
<1>5. /\ named \subseteq named' /\ named' \subseteq named \cup ({old} \ {None})
      /\ unsure \subseteq unsure' /\ unsure' \subseteq unsure \cup ({v} \ {None})
      /\ untold \subseteq untold' /\ untold' \subseteq untold \cup ({old} \ {None})
      /\ {old} \ {None} \subseteq named' \cup untold'
  BY <1>1 DEF Commit, CommitUnanswered, NamedPrevious
<1>6. v # None => /\ v \in uploaded /\ (v \in named => v \in unsure)
                  /\ \A k \in Lectures : video[k] = v => k = l /\ v \in unsure
                  /\ \A d \in Calls : call[d].new = v => d = c
  BY DEF IInv, SetOnce
<1>7. old # None => /\ \A k \in Lectures : video[k] = old => k = l
                    /\ \A d \in Calls : call[d].new = old => old \in unsure
  BY <1>1 DEF IInv, UsedOnce, SetOnce
<1> HIDE DEF l, old, v
<1>8. TypeOK'
  BY <1>1, <1>2, <1>3, <1>4, <1>5, <1>6 DEF IInv, TypeOK
<1>9. HeldRow'
  <2> SUFFICES ASSUME NEW d \in Calls
               PROVE  /\ call'[d].pc = "idle" => call'[d].new = None
                      /\ call'[d].pc # "idle" => call'[d].lecture \in Lectures
                      /\ call'[d].pc = "update" =>
                           /\ call'[d].lecture \in Live'
                           /\ lock'[call'[d].lecture] = d
                           /\ call'[d].previous = video'[call'[d].lecture]
    BY DEF HeldRow
  <2>1. CASE d = c
    BY <1>1, <1>4, <2>1
  <2>2. CASE d # c
    <3>1. call'[d] = call[d]
      BY <1>4, <2>2
    <3>2. call[d].pc = "update" => call[d].lecture # l
      BY <1>1, <2>2 DEF IInv, HeldRow
    <3> QED
      BY <1>2, <3>1, <3>2 DEF IInv, TypeOK, HeldRow, Live
  <2> QED
    BY <2>1, <2>2
<1>10. video'[l] = v /\ \A k \in Lectures \ {l} : video'[k] = video[k]
  BY <1>1, <1>2 DEF IInv, TypeOK
<1>11. UsedOnce'
  <2> SUFFICES ASSUME NEW k \in Lectures, video'[k] # None
               PROVE  /\ row'[k] = "live" /\ video'[k] \in uploaded'
                      /\ video'[k] \in named' => video'[k] \in unsure'
                      /\ \A m \in Lectures : video'[m] = video'[k] => m = k
    BY DEF UsedOnce
  <2>1. CASE k = l
    BY <1>1, <1>2, <1>5, <1>6, <1>7, <1>10, <2>1 DEF old
  <2>2. CASE k # l
    BY <1>1, <1>2, <1>5, <1>6, <1>7, <1>10, <2>2 DEF IInv, UsedOnce
  <2> QED
    BY <2>1, <2>2
<1>12. SetOnce'
  <2> SUFFICES ASSUME NEW d \in Calls, call'[d].new # None
               PROVE  /\ call'[d].new \in uploaded'
                      /\ call'[d].new \in named' => call'[d].new \in unsure'
                      /\ \A e \in Calls : call'[e].new = call'[d].new => e = d
                      /\ \A k \in Lectures : video'[k] = call'[d].new =>
                           k = call'[d].lecture /\ call'[d].new \in unsure'
    BY DEF SetOnce
  <2>1. CASE d = c
    BY <1>2, <1>4, <1>6, <1>10, <2>1
  <2>2. CASE d # c
    <3>1. call'[d] = call[d] /\ call[d].new # v
      BY <1>4, <1>6, <2>2
    <3>2. /\ call[d].new \in uploaded
          /\ call[d].new \in named => call[d].new \in unsure
          /\ \A e \in Calls : call[e].new = call[d].new => e = d
          /\ \A k \in Lectures : video[k] = call[d].new =>
               k = call[d].lecture /\ call[d].new \in unsure
      BY <3>1 DEF IInv, SetOnce
    <3>3. call'[c].new # call'[d].new
      BY <1>4, <3>1
    <3> QED
      BY <1>2, <1>4, <1>5, <1>7, <1>10, <3>1, <3>2, <3>3
  <2> QED
    BY <2>1, <2>2
<1>13. NoVideoIsLost'
  <2>1. ASSUME NEW w \in InUse
        PROVE  w \in InUse' \cup named' \cup untold'
    <3>1. PICK k \in Live : w = video[k] /\ w # None
      BY DEF InUse
    <3>2. CASE k = l
      BY <1>5, <3>1, <3>2 DEF old
    <3>3. CASE k # l
      BY <1>2, <1>10, <3>1, <3>3 DEF InUse, Live
    <3> QED
      BY <3>2, <3>3
  <2>2. ASSUME NEW w \in InHand
        PROVE  w \in InUse' \cup InHand'
    <3>1. PICK d \in Calls : call[d].new = w /\ w # None
      BY DEF InHand
    <3>2. CASE d = c
      <4>1. l \in Live' /\ video'[l] = w
        BY <1>1, <1>2, <1>10, <3>1, <3>2 DEF Live, v
      <4> QED
        BY <3>1, <4>1 DEF InUse
    <3>3. CASE d # c
      BY <1>4, <3>1, <3>3 DEF InHand
    <3> QED
      BY <3>2, <3>3
  <2> QED
    BY <1>2, <1>5, <2>1, <2>2 DEF IInv, NoVideoIsLost
<1> QED
  BY <1>8, <1>9, <1>11, <1>12, <1>13 DEF IInv

\* The caller who was refused finds its video in use, or moves it into an answer.
LEMMA InvRefused ==
  ASSUME IInv, NEW c \in Calls, SelectAllAdmin(c) \/ CleansUp(c)
  PROVE  IInv'
<1> DEFINE v == call[c].new
<1>1. /\ call[c].pc = "refused"
      /\ call' = [call EXCEPT ![c] = Idle]
      /\ named \subseteq named' /\ named' \subseteq named \cup ({v} \ {None})
      /\ UNCHANGED <<row, video, lock, uploaded, unsure, untold>>
  BY DEF SelectAllAdmin, CleansUp, answers
<1>2. v # None => /\ v \in uploaded
                  /\ \A l \in Lectures : video[l] = v => v \in unsure
                  /\ \A d \in Calls : call[d].new = v => d = c
  BY DEF IInv, SetOnce
<1>3. v # None => v \in InUse \cup named'
  <2>1. CASE SelectAllAdmin(c)
    <3>1. call[c].lecture \in Lectures /\ video[call[c].lecture] = v
      BY <1>1, <2>1 DEF SelectAllAdmin, IInv, HeldRow
    <3> QED
      BY <3>1 DEF IInv, UsedOnce, InUse, Live
  <2>2. CASE CleansUp(c)
    BY <2>2 DEF CleansUp
  <2> QED
    BY <2>1, <2>2
<1>4. call'[c] = Idle /\ \A d \in Calls \ {c} : call'[d] = call[d]
  BY <1>1 DEF IInv, TypeOK
<1>5. TypeOK'
  BY <1>1, <1>2 DEF IInv, TypeOK, Idle
<1>6. HeldRow'
  BY <1>1, <1>4 DEF IInv, TypeOK, HeldRow, Idle, Live
<1> HIDE DEF v
<1>7. UsedOnce'
  BY <1>1, <1>2 DEF IInv, UsedOnce
<1>8. SetOnce'
  <2> SUFFICES ASSUME NEW d \in Calls, call'[d].new # None
               PROVE  /\ call'[d].new \in uploaded'
                      /\ call'[d].new \in named' => call'[d].new \in unsure'
                      /\ \A e \in Calls : call'[e].new = call'[d].new => e = d
                      /\ \A k \in Lectures : video'[k] = call'[d].new =>
                           k = call'[d].lecture /\ call'[d].new \in unsure'
    BY DEF SetOnce
  <2>1. d # c /\ call'[d] = call[d]
    BY <1>4 DEF Idle
  <2>2. call[d].new # v
    BY <1>2, <2>1
  <2> QED
    BY <1>1, <1>4, <2>1, <2>2 DEF IInv, SetOnce, Idle
<1>9. NoVideoIsLost'
  <2>1. InHand \subseteq InHand' \cup ({v} \ {None})
    BY <1>4 DEF InHand, v
  <2>2. InUse' = InUse
    BY <1>1 DEF InUse, Live
  <2> QED
    BY <1>1, <1>3, <2>1, <2>2 DEF IInv, NoVideoIsLost
<1> QED
  BY <1>5, <1>6, <1>7, <1>8, <1>9 DEF IInv

\* A lecture comes without a video, and leaves its video to the answer.
LEMMA InvLecture ==
  ASSUME IInv, NEW l \in Lectures, Insert(l) \/ Delete(l)
  PROVE  IInv'
<1>1. CASE Insert(l)
  <2>1. video[l] = None /\ UNCHANGED <<video, lock, call, uploaded, named, unsure, untold>>
    BY <1>1 DEF Insert, answers, IInv, TypeOK, UsedOnce
  <2>2. TypeOK' /\ HeldRow' /\ UsedOnce' /\ SetOnce'
    BY <1>1, <2>1 DEF Insert, IInv, TypeOK, HeldRow, UsedOnce, SetOnce, Live
  <2>3. InUse \subseteq InUse' /\ InHand' = InHand
    BY <1>1, <2>1 DEF Insert, IInv, TypeOK, InUse, InHand, Live
  <2> QED
    BY <2>1, <2>2, <2>3 DEF IInv, NoVideoIsLost
<1>2. CASE Delete(l)
  <2>1. /\ row[l] = "live" /\ lock[l] = None
        /\ row' = [row EXCEPT ![l] = "deleted"]
        /\ video' = [video EXCEPT ![l] = None]
        /\ named \subseteq named' /\ named' \subseteq named \cup ({video[l]} \ {None})
        /\ untold \subseteq untold' /\ untold' \subseteq untold \cup ({video[l]} \ {None})
        /\ {video[l]} \ {None} \subseteq named' \cup untold'
        /\ UNCHANGED <<lock, call, uploaded, unsure>>
    BY <1>2 DEF Delete, DeletedVideo, Live
  <2>2. TypeOK'
    BY <2>1 DEF IInv, TypeOK, UsedOnce
  <2>3. HeldRow'
    <3>1. \A c \in Calls : call[c].pc = "update" => call[c].lecture # l
      BY <2>1, NoneIsNew DEF IInv, HeldRow
    <3> QED
      BY <2>1, <3>1 DEF IInv, TypeOK, HeldRow, Live
  <2>4. UsedOnce'
    BY <2>1 DEF IInv, TypeOK, UsedOnce
  <2>5. SetOnce'
    BY <2>1 DEF IInv, TypeOK, SetOnce
  <2>6. InUse \subseteq InUse' \cup named' \cup untold' /\ InHand' = InHand
    BY <2>1 DEF IInv, TypeOK, InUse, InHand, Live
  <2> QED
    BY <2>1, <2>2, <2>3, <2>4, <2>5, <2>6 DEF IInv, NoVideoIsLost
<1> QED
  BY <1>1, <1>2

-----------------------------------------------------------------------------
\* The places of the videos are kept apart by every step.
LEMMA Invariance == Spec => []IInv
<1>1. Init => IInv
  BY InvInit
<1>2. IInv /\ [Next]_vars => IInv'
  <2> SUFFICES ASSUME IInv, [Next]_vars
               PROVE  IInv'
    OBVIOUS
  <2>1. CASE Next
    BY <2>1, InvBegin, InvStay, InvCommit, InvRefused, InvLecture DEF Next
  <2>2. CASE UNCHANGED vars
    BY <2>2 DEF vars, answers, IInv, TypeOK, HeldRow, UsedOnce, SetOnce, NoVideoIsLost,
                InUse, InHand, Live
  <2> QED
    BY <2>1, <2>2
<1> QED
  BY <1>1, <1>2, PTL DEF Spec

\* No answer names a video that a lecture uses, whatever calls, repetitions and
\* deletions run at a time, but for one that was set while its caller was told
\* otherwise: the promise of SetVideoID's row lock.
THEOREM InUseIsNeverNamed == Spec => []InUseIsNotNamed
<1>1. IInv => InUseIsNotNamed
  BY DEF IInv, UsedOnce, InUseIsNotNamed, InUse, Live
<1> QED
  BY <1>1, Invariance, PTL

\* Every video that was set is in use, in the hands of a call, or named by an answer.
THEOREM NoVideoIsEverLost == Spec => []NoVideoIsLost
<1>1. IInv => NoVideoIsLost
  BY DEF IInv
<1> QED
  BY <1>1, Invariance, PTL
=============================================================================
