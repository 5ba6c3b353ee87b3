---------------------------- MODULE LectureVideo ----------------------------
(***************************************************************************)
(* The videos of the lectures.  The files are kept by a host outside the   *)
(* system; a row of lectures names one.  Whoever replaces a video or       *)
(* deletes the lecture is told the id that went out of use, and that is    *)
(* all there is to clean up the host with: an id that no answer names is   *)
(* lost, an id that is named while it is in use is deleted by mistake.     *)
(* An answer can get lost itself: then the caller takes for refused what   *)
(* was done, and may ask for it again.                                     *)
(*                                                                         *)
(* SetVideoID is a transaction of two statements, the others are one       *)
(* statement each.  The other columns of a lecture (its texts, its notes)  *)
(* are left out: Update and SetNotes do not touch the video.               *)
(***************************************************************************)
EXTENDS Naturals, FiniteSets

CONSTANTS
  Lectures,  \* the ids of lectures; one is drawn for each insert
  Calls,     \* the requests that can be under way at one time
  Videos,    \* the ids uploads get, each from one upload
  None

ASSUME NoneIsNew == None \notin Lectures \cup Calls \cup Videos

VARIABLES
  row,       \* of each lecture: "unborn", "live" or "deleted"
  video,     \* its video_id, or None
  lock,      \* the transaction that holds its row, or None
  call,      \* the calls: where they are, their lecture, the id they set, the
             \* id they read
  uploaded,  \* the ids that were set
  named,     \* the ids that answers named as out of use
  unsure,    \* the ids that were set although the caller was told otherwise
  untold     \* the ids that would have been named by an answer that was lost

answers == <<named, unsure, untold>>
vars == <<row, video, lock, call, uploaded, answers>>

Live == {l \in Lectures : row[l] = "live"}

Idle == [pc |-> "idle", lecture |-> None, new |-> None, previous |-> None]

Init ==
  /\ row = [l \in Lectures |-> "unborn"]
  /\ video = [l \in Lectures |-> None]
  /\ lock = [l \in Lectures |-> None]
  /\ call = [c \in Calls |-> Idle]
  /\ uploaded = {} /\ named = {} /\ unsure = {} /\ untold = {}

Insert(l) ==
  /\ row[l] = "unborn"
  /\ row' = [row EXCEPT ![l] = "live"]
  /\ UNCHANGED <<video, lock, call, uploaded, answers>>

\* setLectureVideo: an admin sets a video that was just uploaded, or clears it.
setLectureVideo(c, l) ==
  /\ call[c] = Idle /\ row[l] # "unborn"
  /\ \E v \in (Videos \ uploaded) \cup {None} :
       /\ call' = [call EXCEPT ![c] =
            [pc |-> "select", lecture |-> l, new |-> v, previous |-> None]]
       /\ uploaded' = uploaded \cup ({v} \ {None})
  /\ UNCHANGED <<row, video, lock, answers>>

Reads(c) == call' = [call EXCEPT ![c].pc = "update",
                                ![c].previous = video[call[c].lecture]]

\* A variant of the select without "for update".
SelectUnlocked(c) ==
  /\ call[c].pc = "select" /\ call[c].lecture \in Live
  /\ Reads(c)
  /\ UNCHANGED <<row, video, lock, uploaded, answers>>

\* select video_id ... for update.
SelectForUpdate(c) ==
  LET l == call[c].lecture IN
  /\ call[c].pc = "select" /\ l \in Live /\ lock[l] = None
  /\ lock' = [lock EXCEPT ![l] = c]
  /\ Reads(c)
  /\ UNCHANGED <<row, video, uploaded, answers>>

\* The caller is refused, with the new id in hand.
Refused(c) == call' = [call EXCEPT ![c].pc = "refused", ![c].previous = None]

\* No row is selected, or none is updated: 404.
NotFound(c) ==
  /\ call[c].pc \in {"select", "update"} /\ call[c].lecture \notin Live
  /\ Refused(c)
  /\ UNCHANGED <<row, video, lock, uploaded, answers>>

\* A variant that names the video it has set.
NamedNew(c) == {call[c].new} \ {None}

NamedPrevious(c) == {call[c].previous} \ {None}

\* update lectures set video_id, and the commit, which frees the row and is answered.
Commits(c) ==
  LET l == call[c].lecture IN
  /\ call[c].pc = "update" /\ l \in Live /\ lock[l] \in {c, None}
  /\ lock' = [lock EXCEPT ![l] = None]
  /\ video' = [video EXCEPT ![l] = call[c].new]
  /\ UNCHANGED <<row, uploaded>>

Commit(c) ==
  /\ Commits(c)
  /\ call' = [call EXCEPT ![c] = Idle]
  /\ named' = named \cup NamedPrevious(c)
  /\ UNCHANGED <<unsure, untold>>

\* The connection breaks after the commit, and it is answered like a failure.
CommitUnanswered(c) ==
  /\ Commits(c)
  /\ Refused(c)
  /\ unsure' = unsure \cup ({call[c].new} \ {None})
  /\ untold' = untold \cup NamedPrevious(c)
  /\ UNCHANGED named

\* A statement of the transaction fails: it is rolled back.
Rollback(c) ==
  /\ call[c].pc \in {"select", "update"}
  /\ lock' = [l \in Lectures |-> IF lock[l] = c THEN None ELSE lock[l]]
  /\ Refused(c)
  /\ UNCHANGED <<row, video, uploaded, answers>>

\* The caller who was refused asks again, ...
Repeats(c) ==
  /\ call[c].pc = "refused"
  /\ call' = [call EXCEPT ![c].pc = "select"]
  /\ UNCHANGED <<row, video, lock, uploaded, answers>>

\* ... or finds the video in the list of lectures, ...
SelectAllAdmin(c) ==
  /\ call[c].pc = "refused" /\ video[call[c].lecture] = call[c].new
  /\ call' = [call EXCEPT ![c] = Idle]
  /\ UNCHANGED <<row, video, lock, uploaded, answers>>

\* ... or cleans the new id up.
CleansUp(c) ==
  /\ call[c].pc = "refused"
  /\ call' = [call EXCEPT ![c] = Idle]
  /\ named' = named \cup ({call[c].new} \ {None})
  /\ UNCHANGED <<row, video, lock, uploaded, unsure, untold>>

\* A variant of the delete that returns nothing.
NothingReturned(l) == {}

\* ... returning video_id.
DeletedVideo(l) == {video[l]} \ {None}

\* delete from lectures waits for the row; its answer may get lost, too.
Delete(l) ==
  /\ l \in Live /\ lock[l] = None
  /\ row' = [row EXCEPT ![l] = "deleted"]
  /\ video' = [video EXCEPT ![l] = None]
  /\ \/ named' = named \cup DeletedVideo(l) /\ UNCHANGED untold
     \/ untold' = untold \cup DeletedVideo(l) /\ UNCHANGED named
  /\ UNCHANGED <<lock, call, uploaded, unsure>>

Next ==
  \/ \E c \in Calls : \/ \E l \in Lectures : setLectureVideo(c, l)
                      \/ SelectForUpdate(c) \/ NotFound(c)
                      \/ Commit(c) \/ CommitUnanswered(c) \/ Rollback(c)
                      \/ Repeats(c) \/ SelectAllAdmin(c) \/ CleansUp(c)
  \/ \E l \in Lectures : Insert(l) \/ Delete(l)

Spec == Init /\ [][Next]_vars

-----------------------------------------------------------------------------
InUse == {video[l] : l \in Live} \ {None}
InHand == {call[c].new : c \in Calls} \ {None}

\* SetVideoID names the previous id ("The row lock keeps the previous value
\* correct under concurrent calls."): no id that a lecture uses was ever named,
\* but for one whose caller was told that it had not been set.
InUseIsNotNamed == InUse \cap named \subseteq unsure

\* No id is lost, whatever replacements, deletions and repetitions ran at a time:
\* an id that was set is in use, or still with the call that sets it, or some
\* answer named it, if only by one that did not arrive.
NoVideoIsLost == uploaded \subseteq InUse \cup InHand \cup named \cup untold
=============================================================================
