----------------------------- MODULE FeedEngine -----------------------------
(***************************************************************************)
(* The ZSET of base scores the feed is served from (feed:engine:v1:0),     *)
(* kept up to date by the feed group: ConsumerGroup composed with          *)
(* feedHandler (cmd/worker/main.go) and UpsertNoteScore.  Beside the group *)
(* the counter flusher rescores single notes, the rescorer the recent ones *)
(* after comparing ZSET and table, and the API rebuilds a missing ZSET     *)
(* when somebody reads the feed (internal/service/feed_service.go).        *)
(*                                                                         *)
(* A score is not modelled, only who is a member; Redis drops an empty     *)
(* ZSET, so a ZSET without members is one that does not exist.  Events are *)
(* on the stream when their transaction commits: the time the relay takes  *)
(* is part of the time the group takes.  Page caches live 10 s and are     *)
(* left out.                                                               *)
(***************************************************************************)
EXTENDS Naturals, Sequences, FiniteSets

CONSTANTS Note,
          Recent,      \* notes published within DecayFreezeHours
          Beside,      \* loops that run beside the read loop of the group
          Tolerance,   \* mismatch ReconcileFeedEngine puts up with, 50
          Matchless,   \* TRUE: delete requests may match no row
          MaxMsg,      \* bound: events in a run
          BatchSize, ClaimCount, MaxFaults   \* of ConsumerGroup

Loop == {"recover", "flusher", "rescorer", "api"}

ASSUME FeedAssumption ==
  /\ Recent \subseteq Note
  /\ Beside \subseteq Loop
  /\ Tolerance \in Nat
  /\ Matchless \in BOOLEAN
  /\ MaxMsg \in Nat /\ MaxFaults \in Nat
  /\ BatchSize \in Nat \ {0} /\ ClaimCount \in Nat \ {0}

VARIABLES length, last, pel, ripe, thread, handled, faults,  \* the feed group
          note,     \* notes.status
          evts,     \* what entry m of the stream says
          zset,     \* members of feed:engine:v1:0
          work,     \* what each actor is doing to the ZSET
          ran,      \* loops that have done something so far (a history)
          stray     \* TRUE once a delete matched no row (a history)

groupVars == <<length, last, pel, ripe, thread, handled, faults>>
history == <<ran, stray>>
elsewhere == <<note, evts, zset, work, history>>
vars == <<groupVars, elsewhere>>

Group == INSTANCE ConsumerGroup WITH Poison <- {}

Thread == {"read", "recover"}

Actor == {"read"} \cup Loop

\* for: notes it is going to score; list: what a rebuild has read, or the
\* members ZCARD has counted.
Work == [pc: {"idle", "list", "add", "score", "zadd",
              "count", "drop", "ensure", "recent", "rescore"},
         for: SUBSET Note,
         list: SUBSET Note]

Rest == [pc |-> "idle", for |-> {}, list |-> {}]

Published == {n \in Note : note[n] = "published"}

TypeOK ==
  /\ Group!TypeOK
  /\ note \in [Note -> {"none", "published", "deleted"}]
  /\ evts \in Seq([type: {"created", "updated", "deleted"}, note: Note])
  /\ Len(evts) = length
  /\ zset \subseteq Note
  /\ work \in [Actor -> Work]
  /\ ran \subseteq Loop
  /\ stray \in BOOLEAN

\* Notes that are older than the group are in the ZSET, or it is missing.
Init ==
  /\ Group!Init /\ length = 0
  /\ note \in [Note -> {"none", "published"}]
  /\ evts = <<>>
  /\ zset \in {{}, Published}
  /\ work = [a \in Actor |-> Rest]
  /\ ran = {}
  /\ stray = FALSE
-----------------------------------------------------------------------------
(***************************************************************************)
(* Business transactions and their events.                                 *)
(***************************************************************************)
\* Mutant: the event row is written and never gets to the stream.
EmitUnsent(type, n) ==
  /\ length < MaxMsg
  /\ UNCHANGED groupVars
  /\ evts' = Append(evts, [type |-> type, note |-> n])

Emit(type, n) ==
  /\ Group!Publish
  /\ evts' = Append(evts, [type |-> type, note |-> n])

Create(n) ==
  /\ note[n] = "none"
  /\ note' = [note EXCEPT ![n] = "published"]
  /\ Emit("created", n)
  /\ UNCHANGED <<zset, work, history>>

Updata(n) ==
  /\ note[n] = "published"
  /\ Emit("updated", n)
  /\ UNCHANGED <<note, zset, work, history>>

DeleteByID(n) ==
  /\ note[n] = "published"
  /\ note' = [note EXCEPT ![n] = "deleted"]
  /\ Emit("deleted", n)
  /\ UNCHANGED <<zset, work, history>>

\* The UPDATE of DeleteByID matches no row: the note is somebody else's or
\* is deleted already.  RowsAffected is not looked at.
DeleteMatchless(n) ==
  /\ Matchless
  /\ note[n] # "none"
  /\ Emit("deleted", n)
  /\ UNCHANGED <<note, zset, work, ran>>
  /\ stray' = TRUE

\* A moderator's delete writes no event.
DeleteNoteByID(n) ==
  /\ note[n] = "published"
  /\ note' = [note EXCEPT ![n] = "deleted"]
  /\ UNCHANGED <<groupVars, evts, zset, work, history>>
-----------------------------------------------------------------------------
(***************************************************************************)
(* ensureFeedEngine and buildFeedEngine.  The lock is one of the process:  *)
(* the worker's actors keep each other out, the API does not see it.       *)
(***************************************************************************)
LockFree(a) ==
  \A b \in Actor \ {a} : work[b].pc = "add" => (a = "api") # (b = "api")

\* Mutant: the ZSET is taken to exist.
EnsureNothing(a, for, pc) ==
  work' = [work EXCEPT ![a] = [pc |-> pc, for |-> for, list |-> {}]]

\* First look: rebuild, or go on with pc.
Ensure(a, for, pc) ==
  work' = [work EXCEPT ![a] =
             [pc |-> IF zset = {} THEN "list" ELSE pc, for |-> for, list |-> {}]]

\* Where an actor goes on once the ZSET exists.
AfterEnsure(a) == CASE a = "api" -> "idle" [] a = "rescorer" -> "recent" [] OTHER -> "score"

\* Mutant: the rebuild reads notes whatever their status.
ListAll(a) ==
  /\ work[a].pc = "list"
  /\ LockFree(a)
  /\ work' = IF zset = {}
             THEN [work EXCEPT ![a].pc = "add",
                               ![a].list = {n \in Note : note[n] # "none"}]
             ELSE [work EXCEPT ![a].pc = AfterEnsure(a)]
  /\ UNCHANGED <<groupVars, note, evts, zset, history>>

\* Second look, with the lock; then every published note is read.
ListAllPublished(a) ==
  /\ work[a].pc = "list"
  /\ LockFree(a)
  /\ work' = IF zset = {}
             THEN [work EXCEPT ![a].pc = "add", ![a].list = Published]
             ELSE [work EXCEPT ![a].pc = AfterEnsure(a)]
  /\ UNCHANGED <<groupVars, note, evts, zset, history>>

\* ZAddFeed adds to whatever the ZSET holds by now.
ZAddFeed(a) ==
  /\ work[a].pc = "add"
  /\ zset' = zset \cup work[a].list
  /\ work' = [work EXCEPT ![a].pc = AfterEnsure(a), ![a].list = {}]
  /\ UNCHANGED <<groupVars, note, evts, history>>
-----------------------------------------------------------------------------
(***************************************************************************)
(* feedHandler in a thread of the group, and UpsertNoteScore.              *)
(***************************************************************************)

\* The event thread t has to handle next is e.
Handles(t, e) ==
  \E m \in thread[t].batch \ thread[t].done :
    /\ thread[t].busy
    /\ \A k \in thread[t].batch \ thread[t].done : m <= k
    /\ e = evts[m]

UpsertNoteScore(t) ==
  /\ work[t] = Rest
  /\ \E n \in Note, type \in {"created", "updated"} :
       /\ Handles(t, [type |-> type, note |-> n])
       /\ Ensure(t, {n}, "score")
  /\ UNCHANGED <<groupVars, note, evts, zset, history>>

\* The flusher rescores a note whose counters it has written.
UpsertFlushed(n) ==
  /\ "flusher" \in Beside
  /\ work["flusher"] = Rest
  /\ note[n] # "none"
  /\ Ensure("flusher", {n}, "score")
  /\ UNCHANGED <<groupVars, note, evts, zset, stray>>
  /\ ran' = ran \cup {"flusher"}

GetScoringFields(a) ==
  /\ work[a].pc = "score"
  /\ work[a].for \subseteq Published
  /\ work' = [work EXCEPT ![a].pc = "zadd"]
  /\ UNCHANGED <<groupVars, note, evts, zset, history>>

\* The note is deleted: ErrRecordNotFound.  A thread of the group leaves the
\* event and those behind it pending, the flusher does not care.
ScoringFieldsNotFound(a) ==
  /\ work[a].pc = "score"
  /\ ~ work[a].for \subseteq Published
  /\ work' = [work EXCEPT ![a] = Rest]
  /\ IF a \in Thread THEN Group!AckDone(a) /\ UNCHANGED faults
                     ELSE UNCHANGED groupVars
  /\ UNCHANGED <<note, evts, zset, history>>

\* Mutant: ZADD XX, which only changes the scores of members.
ZAddMember(a) ==
  /\ work[a].pc = "zadd"
  /\ UNCHANGED zset
  /\ work' = [work EXCEPT ![a] = Rest]
  /\ IF a \in Thread THEN Group!HandleOk(a) ELSE UNCHANGED groupVars
  /\ UNCHANGED <<note, evts, history>>

ZAddNote(a) ==
  /\ work[a].pc = "zadd"
  /\ zset' = zset \cup work[a].for
  /\ work' = [work EXCEPT ![a] = Rest]
  /\ IF a \in Thread THEN Group!HandleOk(a) ELSE UNCHANGED groupVars
  /\ UNCHANGED <<note, evts, history>>

RemoveNoteScore(t) ==
  /\ \E n \in Note :
       /\ Handles(t, [type |-> "deleted", note |-> n])
       /\ zset' = zset \ {n}
  /\ Group!HandleOk(t)
  /\ UNCHANGED <<note, evts, work, history>>

\* Redis or MySQL fails, before the ZSET is changed or after it (clearing
\* the page caches is part of the handler).
HandleFail(t) ==
  /\ Group!HandleFail(t)
  /\ \/ zset' = zset
     \/ work[t].pc = "zadd" /\ zset' = zset \cup work[t].for
     \/ \E n \in Note : Handles(t, [type |-> "deleted", note |-> n]) /\ zset' = zset \ {n}
  /\ work' = [work EXCEPT ![t] = Rest]
  /\ UNCHANGED <<note, evts, history>>

\* What the group does without touching the ZSET.
GroupStep ==
  /\ \/ Group!ReadGroup \/ Group!ReadNothing
     \/ "recover" \in Beside /\ \E c \in pel : Group!Ripen(c)
     \/ \E t \in Thread : Group!AckBatch(t) \/ (Group!AckFail(t) /\ work[t] = Rest)
  /\ UNCHANGED elsewhere

RecoverStep ==
  /\ "recover" \in Beside
  /\ Group!AutoClaim
  /\ ran' = ran \cup {"recover"}
  /\ UNCHANGED <<note, evts, zset, work, stray>>

\* The worker dies and is restarted.
Crash ==
  /\ Group!Crash
  /\ work' = [a \in Actor |-> IF a = "api" THEN work[a] ELSE Rest]
  /\ UNCHANGED <<note, evts, zset, history>>
-----------------------------------------------------------------------------
(***************************************************************************)
(* The rescorer, every five minutes: ReconcileFeedEngine, then             *)
(* RescoreRecentNotes, which does not look whether the ZSET exists.        *)
(***************************************************************************)
Mismatch(zsN) ==
  LET dbN == Cardinality(Published)
      diff == IF zsN < dbN THEN dbN - zsN ELSE zsN - dbN
  IN  dbN # 0 /\ diff > Tolerance /\ diff > dbN \div 10

ZCard ==
  /\ "rescorer" \in Beside
  /\ work["rescorer"] = Rest
  /\ work' = [work EXCEPT !["rescorer"].pc = "count", !["rescorer"].list = zset]
  /\ UNCHANGED <<groupVars, note, evts, zset, stray>>
  /\ ran' = ran \cup {"rescorer"}

\* Compares the notes of the table with the members the ZSET had before.
CountPublished ==
  /\ work["rescorer"].pc = "count"
  /\ LET zsN == Cardinality(work["rescorer"].list)
     IN  work' = [work EXCEPT !["rescorer"].pc = IF Mismatch(zsN) THEN "drop" ELSE "recent",
                              !["rescorer"].list = {}]
  /\ UNCHANGED <<groupVars, note, evts, zset, history>>

DeleteEngine ==
  /\ work["rescorer"].pc = "drop"
  /\ zset' = {}
  /\ work' = [work EXCEPT !["rescorer"].pc = "ensure"]
  /\ UNCHANGED <<groupVars, note, evts, history>>

EnsureDeleted ==
  /\ work["rescorer"].pc = "ensure"
  /\ Ensure("rescorer", {}, "recent")
  /\ UNCHANGED <<groupVars, note, evts, zset, history>>

ListSince ==
  /\ work["rescorer"].pc = "recent"
  /\ work' = [work EXCEPT !["rescorer"] =
                [pc |-> IF Published \cap Recent = {} THEN "idle" ELSE "rescore",
                 for |-> Published \cap Recent,
                 list |-> {}]]
  /\ UNCHANGED <<groupVars, note, evts, zset, history>>

\* One ZADD after the other.
RescoreNote(n) ==
  /\ work["rescorer"].pc = "rescore"
  /\ n \in work["rescorer"].for
  /\ zset' = zset \cup {n}
  /\ work' = [work EXCEPT !["rescorer"].for = @ \ {n},
                          !["rescorer"].pc =
                             IF work["rescorer"].for = {n} THEN "idle" ELSE "rescore"]
  /\ UNCHANGED <<groupVars, note, evts, history>>

\* Somebody reads the feed and there is no ZSET (getFeedPage).
GetFeedPage ==
  /\ "api" \in Beside
  /\ work["api"] = Rest
  /\ zset = {}
  /\ Ensure("api", {}, "idle")
  /\ UNCHANGED <<groupVars, note, evts, zset, stray>>
  /\ ran' = ran \cup {"api"}
-----------------------------------------------------------------------------
Transaction ==
  \E n \in Note :
    \/ Create(n) \/ Updata(n) \/ DeleteByID(n) \/ DeleteMatchless(n)
    \/ DeleteNoteByID(n)

EngineStep(a) ==
  \/ ListAllPublished(a) \/ ZAddFeed(a)
  \/ GetScoringFields(a) \/ ScoringFieldsNotFound(a) \/ ZAddNote(a)

FeedHandlerStep(t) == UpsertNoteScore(t) \/ EngineStep(t) \/ RemoveNoteScore(t)

Next ==
  \/ Transaction
  \/ \E t \in Thread : UpsertNoteScore(t) \/ RemoveNoteScore(t) \/ HandleFail(t)
  \/ \E a \in Actor : EngineStep(a)
  \/ \E n \in Note : UpsertFlushed(n) \/ RescoreNote(n)
  \/ ZCard \/ CountPublished \/ DeleteEngine \/ EnsureDeleted \/ ListSince
  \/ GetFeedPage
  \/ GroupStep \/ RecoverStep
  \/ Crash

Spec == Init /\ [][Next]_vars

ReadStep == Group!ReadGroup /\ UNCHANGED elsewhere

RipenStep(m) ==
  /\ "recover" \in Beside
  /\ \E c \in pel : m \in c /\ Group!Ripen(c)
  /\ UNCHANGED elsewhere

ThreadStep(t) == FeedHandlerStep(t) \/ (Group!AckBatch(t) /\ UNCHANGED elsewhere)

\* The loops of the group run, an actor that started a rebuild goes on.
Fairness ==
  /\ WF_vars(ReadStep)
  /\ WF_vars(RecoverStep)
  /\ \A m \in 1..MaxMsg : WF_vars(RipenStep(m))
  /\ \A t \in Thread : WF_vars(ThreadStep(t))
  /\ \A a \in Loop \ Thread : WF_vars(EngineStep(a))

FairSpec == Spec /\ Fairness
-----------------------------------------------------------------------------
Due == Group!Due

Scores(e) == e.type \in {"created", "updated"}

\* Some actor is about to add n.
OnItsWay(n) ==
  \/ \E m \in Due : evts[m].note = n /\ Scores(evts[m])
  \/ \E a \in Actor : work[a].pc = "add" /\ n \in work[a].list
  \/ work["rescorer"].pc = "rescore" /\ n \in work["rescorer"].for

(***************************************************************************)
(* "All published notes have their base score in the shared ZSET"          *)
(* (README.md:46): a published note is a member, or an event or an actor   *)
(* is about to make it one, or the ZSET is missing and will be rebuilt.    *)
(* Checking that the ZSET exists before a single ZADD is meant to ensure   *)
(* this (feed_service.go:623).  It does beside the flusher and readers     *)
(* that rebuild; the rescorer drops the ZSET after others have checked,    *)
(* and the event of a delete that matched no row takes out a note that may *)
(* still be published.                                                     *)
(***************************************************************************)
NoneForgotten ==
  "rescorer" \notin ran /\ ~stray =>
    zset = {} \/ \A n \in Published : n \in zset \/ OnItsWay(n)

(***************************************************************************)
(* The ZSET loses a deleted note when the deletion is handled, and does    *)
(* not get it back (feedHandler, main.go:145-149, README.md:54), as long   *)
(* as the read loop of the group is alone: the others work on what they    *)
(* have read before.                                                       *)
(***************************************************************************)
RemovedStaysOut ==
  ran = {} /\ ~stray =>
    \A m \in handled : evts[m].type = "deleted" /\ note[evts[m].note] = "deleted"
                         => evts[m].note \notin zset

\* n is published and the group has not handled all that says so.
Announced(n) == note[n] = "published" /\ \E m \in Due : evts[m].note = n /\ Scores(evts[m])

\* A due event the handler can only fail on.
Blocked == \E m \in Due : Scores(evts[m]) /\ note[evts[m].note] = "deleted"
=============================================================================
