---------------------------- MODULE SearchIndex ----------------------------
(***************************************************************************)
(* The search index (Meilisearch), kept up to date by the search group:    *)
(* ConsumerGroup composed with searchHandler (cmd/worker/main.go).  Events *)
(* carry no text: the handler reads the note from MySQL and then sends the *)
(* document, or its deletion, to the index.                                *)
(*                                                                         *)
(* The text of a note is the number of its edits.  Meilisearch carries out *)
(* tasks in the order it got them; index is what it holds when it is done  *)
(* with all of them.  Events are on the stream when their transaction      *)
(* commits: the time the relay takes is part of the time the group takes.  *)
(***************************************************************************)
EXTENDS Naturals, Sequences

CONSTANTS Note,
          Recovery,    \* TRUE: the recover loop of the group runs
          Moderation,  \* TRUE: moderators delete notes and users
          MaxMsg,      \* bound: events in a run
          BatchSize, ClaimCount, MaxFaults   \* of ConsumerGroup

ASSUME SearchAssumption ==
  /\ Recovery \in BOOLEAN /\ Moderation \in BOOLEAN
  /\ MaxMsg \in Nat /\ BatchSize \in Nat \ {0} /\ ClaimCount \in Nat \ {0} /\ MaxFaults \in Nat

VARIABLES length, last, pel, ripe, thread, handled, faults,  \* the search group
          note,     \* notes: status and text
          evts,     \* what entry m of the stream says
          index,    \* the documents of the index
          read,     \* what a thread has read from notes
          disturbed \* history: a moderator has deleted, a DELETE has matched no
                    \* row of a note that is there or comes yet, or the two
                    \* loops have been at work on one note at the same time

groupVars == <<length, last, pel, ripe, thread, handled, faults>>
vars == <<groupVars, note, evts, index, read, disturbed>>

Group == INSTANCE ConsumerGroup WITH Poison <- {}

Thread == {"read", "recover"}

Text == 0..MaxMsg

NoRow == [status |-> "none", text |-> 0]

Row == [status: {"none", "published", "deleted", "gone"}, text: Text]

NoDocument == {}

Document == {NoDocument} \cup {{x} : x \in Text}

Nothing == [status |-> "nothing"]

\* The document a row should have.
DocumentOf(row) ==
  IF row.status = "published" THEN {row.text} ELSE NoDocument

TypeOK ==
  /\ Group!TypeOK
  /\ note \in [Note -> Row]
  /\ evts \in Seq([type: {"written", "deleted"}, note: Note])
  /\ Len(evts) = length
  /\ index \in [Note -> Document]
  /\ read \in [Thread -> {Nothing} \cup Row]
  /\ disturbed \in BOOLEAN

Init ==
  /\ Group!Init /\ length = 0
  /\ note = [n \in Note |-> NoRow]
  /\ evts = <<>>
  /\ index = [n \in Note |-> NoDocument]
  /\ read = [t \in Thread |-> Nothing]
  /\ disturbed = FALSE
-----------------------------------------------------------------------------
(***************************************************************************)
(* Business transactions.  note.created and note.updated are handled       *)
(* alike: both are "written".                                              *)
(***************************************************************************)
\* Mutant: the event row is written and never gets to the stream.
EmitUnsent(type, n) ==
  /\ length < MaxMsg
  /\ UNCHANGED groupVars
  /\ evts' = Append(evts, [type |-> type, note |-> n])

Emit(type, n) ==
  /\ Group!Publish
  /\ evts' = Append(evts, [type |-> type, note |-> n])

\* Mutant: an edit writes no event.
CreateOrSilentUpdate(n) ==
  /\ note[n].status \in {"none", "published"} /\ note[n].text < MaxMsg
  /\ note' = [note EXCEPT ![n] = [status |-> "published", text |-> @.text + 1]]
  /\ IF note[n].status = "none" THEN Emit("written", n) ELSE UNCHANGED <<groupVars, evts>>
  /\ UNCHANGED <<index, read, disturbed>>

\* Create of a new note, UpdataByAuthorID of a published one.
CreateOrUpdate(n) ==
  /\ note[n].status \in {"none", "published"}
  /\ note' = [note EXCEPT ![n] = [status |-> "published", text |-> @.text + 1]]
  /\ Emit("written", n)
  /\ UNCHANGED <<index, read, disturbed>>

DeleteByID(n) ==
  /\ note[n].status = "published"
  /\ note' = [note EXCEPT ![n].status = "deleted"]
  /\ Emit("deleted", n)
  /\ UNCHANGED <<index, read, disturbed>>

\* The DELETE of another user than the author, or of a note that is not there
\* (any more): no row matches, and the event is written all the same.  Nobody
\* asks who the author is before.
DeleteMatchless(n) ==
  /\ Emit("deleted", n)
  /\ disturbed' = (disturbed \/ note[n].status \in {"none", "published"})
  /\ UNCHANGED <<note, index, read>>

\* A moderator deletes the note, or its author with all rows.  No event.
DeleteByModerator(n) ==
  /\ Moderation
  /\ note[n].status = "published"
  /\ \E status \in {"deleted", "gone"} : note' = [note EXCEPT ![n].status = status]
  /\ disturbed' = TRUE
  /\ UNCHANGED <<groupVars, evts, index, read>>
-----------------------------------------------------------------------------
(***************************************************************************)
(* searchHandler in a thread of the group.                                 *)
(***************************************************************************)
Handles(t, e) ==
  \E m \in thread[t].batch \ thread[t].done :
    /\ thread[t].busy
    /\ \A k \in thread[t].batch \ thread[t].done : m <= k
    /\ e = evts[m]

\* The other loop has read the row of n and not sent its document yet.
Overlaps(t, n) ==
  \E s \in Thread \ {t} : read[s] # Nothing /\ Handles(s, [type |-> "written", note |-> n])

GetByID(t, n) ==
  /\ read[t] = Nothing
  /\ Handles(t, [type |-> "written", note |-> n])
  /\ read' = [read EXCEPT ![t] = note[n]]
  /\ UNCHANGED <<groupVars, note, evts, index, disturbed>>

\* Index a published note, Delete the document of any other.
Index(t, n) ==
  /\ read[t] # Nothing
  /\ Handles(t, [type |-> "written", note |-> n])
  /\ index' = [index EXCEPT ![n] = DocumentOf(read[t])]
  /\ read' = [read EXCEPT ![t] = Nothing]
  /\ Group!HandleOk(t)
  /\ disturbed' = (disturbed \/ Overlaps(t, n))
  /\ UNCHANGED <<note, evts>>

Delete(t, n) ==
  /\ Handles(t, [type |-> "deleted", note |-> n])
  /\ index' = [index EXCEPT ![n] = NoDocument]
  /\ Group!HandleOk(t)
  /\ disturbed' = (disturbed \/ Overlaps(t, n))
  /\ UNCHANGED <<note, evts, read>>

\* MySQL or Meilisearch fails: the event stays pending.
HandleFail(t) ==
  /\ Group!HandleFail(t)
  /\ read' = [read EXCEPT ![t] = Nothing]
  /\ UNCHANGED <<note, evts, index, disturbed>>

Crash ==
  /\ Group!Crash
  /\ read' = [t \in Thread |-> Nothing]
  /\ UNCHANGED <<note, evts, index, disturbed>>

Aside == UNCHANGED <<note, evts, index, read, disturbed>>

GroupRead == (Group!ReadGroup \/ Group!ReadNothing) /\ Aside

\* Mutant: an event that was not acked is not claimed.
GroupClaimNothing == FALSE

GroupClaim == Recovery /\ Group!AutoClaim /\ Aside

GroupRipen(m) == Recovery /\ (\E c \in pel : m \in c /\ Group!Ripen(c)) /\ Aside

GroupAck(t) == Group!AckBatch(t) /\ Aside

GroupAckFail(t) == Group!AckFail(t) /\ read[t] = Nothing /\ Aside
-----------------------------------------------------------------------------
HandlerStep(t) == \E n \in Note : GetByID(t, n) \/ Index(t, n) \/ Delete(t, n)

Next ==
  \/ \E n \in Note :
       CreateOrUpdate(n) \/ DeleteByID(n) \/ DeleteMatchless(n) \/ DeleteByModerator(n)
  \/ \E t \in Thread :
       HandlerStep(t) \/ GroupAck(t) \/ GroupAckFail(t) \/ HandleFail(t)
  \/ GroupRead \/ GroupClaim \/ Crash
  \/ \E m \in 1..MaxMsg : GroupRipen(m)

Spec == Init /\ [][Next]_vars

\* Both loops of the group run.
Fairness ==
  /\ WF_vars(GroupRead)
  /\ WF_vars(GroupClaim)
  /\ \A m \in 1..MaxMsg : WF_vars(GroupRipen(m))
  /\ \A t \in Thread : WF_vars(HandlerStep(t) \/ GroupAck(t))

FairSpec == Spec /\ Fairness
-----------------------------------------------------------------------------
Settled(n) == \A m \in Group!Due : evts[m].note # n

(***************************************************************************)
(* "The worker reads back from MySQL, the source of truth, which           *)
(* guarantees that the index always agrees with the table"                 *)
(* (main.go:165-166): once the events of a note are handled, its document  *)
(* is what the table says.  The code does not keep this promise: whoever   *)
(* asks to delete a note he did not write changes no row, and the handler  *)
(* of the event deletes the document without looking at the table          *)
(* (note_repo.go:98-109, main.go:191-192).                                 *)
(***************************************************************************)
IndexAgrees ==
  \A n \in Note : Settled(n) => index[n] = DocumentOf(note[n])

(***************************************************************************)
(* What is left of it: the documents agree with the table whatever fails,  *)
(* is redelivered or retried, and although edits and deletions come        *)
(* between reading the row and sending the document, as long as            *)
(*   - one loop does not send a document or a deletion while the other has *)
(*     read the row of the same note,                                      *)
(*   - no request to delete a note that is there, or comes yet, matches no *)
(*     row, and                                                            *)
(*   - no moderator deletes.                                               *)
(***************************************************************************)
IndexConsistent == ~disturbed => IndexAgrees

(***************************************************************************)
(* Each event of a written note puts it into the index, unless it is       *)
(* deleted, through failures of MySQL, Meilisearch and the worker and      *)
(* whoever else asks to delete it: no event can block the search group,    *)
(* since a note that is gone counts as handled (main.go:167-197).          *)
(***************************************************************************)
Awaited(n) == \E m \in Group!Due \ handled : evts[m] = [type |-> "written", note |-> n]

NoteIndexed ==
  \A n \in Note : (note[n].status = "published" /\ Awaited(n)) ~>
                    (index[n] # NoDocument \/ note[n].status # "published")
=============================================================================
