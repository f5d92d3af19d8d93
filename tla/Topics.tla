-------------------------------- MODULE Topics --------------------------------
(***************************************************************************)
(* The topics of notes, how many notes each has, and the cached list of    *)
(* the hottest (internal/service/topic_service.go, internal/repo/          *)
(* topic_repo.go, and their calls in note_service.go).                     *)
(*                                                                         *)
(* Counting, attaching and detaching are statements of their own, outside  *)
(* any transaction, and an error in one of them is logged and dropped by   *)
(* the request on the note.  A topic is found by its name under the        *)
(* collation of MySQL, so two names a note gives may be one topic.         *)
(* Restoring a version replaces topics as an edit does.                    *)
(***************************************************************************)
EXTENDS Naturals, FiniteSets, SequencesExt

CONSTANTS Note, Name, Topic,
          TopicOf,    \* the topic a name stands for
          Request,    \* API requests in progress at the same time
          MaxWrites,  \* bound: requests that write
          MaxFaults   \* bound: statements that fail

VARIABLES note,     \* status of the notes
          attached, \* rows of note_topics: <<note, topic>>
          count,    \* note_count of the topics; 0 too where there is no row yet
          hot,      \* topics:hot: "missing", "fresh" (as the table) or "stale"
          request,  \* requests in progress
          drift,    \* history: a statement failed, or a note gave a topic twice
          crossed,  \* history: two requests worked on one note at the same time
          overtaken,\* history: the list was read while a request wrote on a note
          lowered,  \* history: counts went down since the list was last cleared
          writes, faults

bounds == <<writes, faults>>
overlaps == <<crossed, overtaken>>
histories == <<drift, lowered, overlaps>>
vars == <<note, attached, count, hot, request, histories, bounds>>

Calls ==
  [create |-> <<"insertNote">>,
   update |-> <<"updateNote", "pluck">>,
   delete |-> <<"deleteNote", "pluck">>,
   hot    |-> <<"getHot">>]

Step == (UNION {ToSet(Calls[op]) : op \in DOMAIN Calls})
          \cup {"deleteRows", "decrement", "upsert", "selectId", "insertRows", "bumpHot",
                "readHot", "setHot"}

NoRequest == [op |-> "none"]
Active == {q \in Request : request[q] # NoRequest}
Writers == {q \in Active : request[q].op # "hot"}

TypeOK ==
  /\ note \in [Note -> {"none", "published", "deleted"}]
  /\ attached \subseteq {n \in Note : note[n] # "none"} \X Topic
  /\ count \in [Topic -> Nat]
  /\ hot \in {"missing", "fresh", "stale"}
  /\ \A q \in Active :
       /\ request[q].op \in DOMAIN Calls /\ request[q].todo # <<>>
       /\ ToSet(request[q].todo) \subseteq Step
       /\ request[q].note \in Note
       /\ request[q].names \subseteq Name /\ request[q].ids \subseteq Topic
       /\ request[q].current \in BOOLEAN
  /\ drift \in BOOLEAN /\ crossed \in BOOLEAN /\ overtaken \in BOOLEAN /\ lowered \in BOOLEAN
  /\ writes \in 0..MaxWrites /\ faults \in 0..MaxFaults

Init ==
  /\ note = [n \in Note |-> "none"]
  /\ attached = {}
  /\ count = [t \in Topic |-> 0]
  /\ hot = "missing"
  /\ request = [q \in Request |-> NoRequest]
  /\ drift = FALSE /\ crossed = FALSE /\ overtaken = FALSE /\ lowered = FALSE
  /\ writes = 0 /\ faults = 0
-----------------------------------------------------------------------------
At(q, call) == q \in Active /\ Head(request[q].todo) = call

\* Request q goes on with r, or is over.
Become(q, r) == request' = [request EXCEPT ![q] = IF r.todo = <<>> THEN NoRequest ELSE r]

GoOn(q, todo) == Become(q, [request[q] EXCEPT !.todo = todo])
Proceed(q) == GoOn(q, Tail(request[q].todo))
Stop(q) == GoOn(q, <<>>)

\* names: what ExtractTopics makes of the note.
Start(q, op, n, names) ==
  /\ request[q] = NoRequest
  /\ op # "hot" => writes < MaxWrites
  /\ writes' = IF op = "hot" THEN writes ELSE writes + 1
  /\ request' = [request EXCEPT ![q] = [op |-> op, note |-> n, names |-> names, ids |-> {},
                                        current |-> TRUE, todo |-> Calls[op]]]
  /\ crossed' = (crossed \/ \E s \in Writers : op # "hot" /\ request[s].note = n)
  /\ overtaken' = (overtaken \/ IF op = "hot" THEN Writers # {} ELSE Active # Writers)
  /\ UNCHANGED <<note, attached, count, hot, drift, lowered, faults>>

\* AttachToNote counts one name after the other.
Attach(names) == IF names = {} THEN <<>> ELSE <<"upsert">>

\* Does a note give one topic under two names?
Twice(names) == \E a, b \in names : a # b /\ TopicOf[a] = TopicOf[b]

InsertNote(q) ==
  /\ At(q, "insertNote")
  /\ LET r == request[q]
     IN  /\ note[r.note] = "none" /\ note' = [note EXCEPT ![r.note] = "published"]
         /\ drift' = (drift \/ Twice(r.names))
         /\ GoOn(q, Attach(r.names))
  /\ UNCHANGED <<attached, count, hot, lowered, overlaps, bounds>>

\* Only a published note of the author can be edited.
UpdateNote(q) ==
  /\ At(q, "updateNote")
  /\ IF note[request[q].note] = "published"
     THEN Proceed(q) /\ drift' = (drift \/ Twice(request[q].names))
     ELSE Stop(q) /\ UNCHANGED drift
  /\ UNCHANGED <<note, attached, count, hot, lowered, overlaps, bounds>>

\* own: the user is the author.  If he is not, the UPDATE matches no row, which
\* is not an error: the topics are detached all the same.
DeleteNote(q) ==
  /\ At(q, "deleteNote")
  /\ \E own \in BOOLEAN :
       note' = IF own /\ note[request[q].note] = "published"
               THEN [note EXCEPT ![request[q].note] = "deleted"] ELSE note
  /\ Proceed(q)
  /\ UNCHANGED <<attached, count, hot, histories, bounds>>

TopicsOf(n) == {t \in Topic : <<n, t>> \in attached}

\* DetachNoteTopics reads the rows and deletes them, unless there are none.
Pluck(q) ==
  /\ At(q, "pluck")
  /\ LET r == request[q]
         ids == TopicsOf(r.note)
         rest == IF r.op = "update" THEN Attach(r.names) ELSE <<>>
     IN  Become(q, [r EXCEPT !.ids = ids,
                             !.todo = IF ids = {} THEN rest ELSE <<"deleteRows", "decrement">> \o rest])
  /\ UNCHANGED <<note, attached, count, hot, histories, bounds>>

DeleteRows(q) ==
  /\ At(q, "deleteRows")
  /\ attached' = {row \in attached : row[1] # request[q].note}
  /\ Proceed(q)
  /\ UNCHANGED <<note, count, hot, histories, bounds>>

\* What changes a count makes the cached list an old one, and what a reader of
\* the table holds as well; rest is what request q goes on with.
Recount(q, new, rest) ==
  /\ count' = new
  /\ hot' = IF hot = "fresh" /\ new # count THEN "stale" ELSE hot
  /\ request' = [s \in Request |->
                   IF s = q THEN IF rest.todo = <<>> THEN NoRequest ELSE rest
                   ELSE IF s \in Active /\ new # count THEN [request[s] EXCEPT !.current = FALSE]
                   ELSE request[s]]

\* Mutant: the counts of a note's topics stay when it loses them.
KeepCounts(q) ==
  /\ At(q, "decrement")
  /\ Proceed(q)
  /\ UNCHANGED <<note, attached, count, hot, histories, bounds>>

DecrementCounts(q) ==
  /\ At(q, "decrement")
  /\ LET r == request[q]
     IN  Recount(q, [t \in Topic |-> IF t \in r.ids /\ count[t] > 0 THEN count[t] - 1 ELSE count[t]],
                 [r EXCEPT !.ids = {}, !.todo = Tail(@)])
  /\ lowered' = TRUE
  /\ UNCHANGED <<note, attached, drift, overlaps, bounds>>

\* INSERT ... ON DUPLICATE KEY UPDATE note_count = note_count + 1
UpsertByName(q) ==
  /\ At(q, "upsert")
  /\ \E name \in request[q].names :
       Recount(q, [count EXCEPT ![TopicOf[name]] = @ + 1],
               [request[q] EXCEPT !.names = @ \ {name}, !.ids = @ \cup {TopicOf[name]},
                                  !.todo = <<"selectId">>])
  /\ UNCHANGED <<note, attached, histories, bounds>>

\* The id of the row; then the next name, or the rows of note_topics.
SelectId(q) ==
  /\ At(q, "selectId")
  /\ GoOn(q, IF request[q].names # {} THEN <<"upsert">> ELSE <<"insertRows", "bumpHot">>)
  /\ UNCHANGED <<note, attached, count, hot, histories, bounds>>

AttachNoteTopics(q) ==
  /\ At(q, "insertRows")
  /\ attached' = attached \cup ({request[q].note} \X request[q].ids)
  /\ Proceed(q)
  /\ UNCHANGED <<note, count, hot, histories, bounds>>

BumpHot(q) ==
  /\ At(q, "bumpHot")
  /\ hot' = "missing" /\ lowered' = FALSE
  /\ Proceed(q)
  /\ UNCHANGED <<note, attached, count, drift, overlaps, bounds>>
-----------------------------------------------------------------------------
\* Hot answers from the cached list, whatever limit it is asked for.
GetHot(q) ==
  /\ At(q, "getHot")
  /\ IF hot = "missing" THEN GoOn(q, <<"readHot">>) ELSE Stop(q)
  /\ UNCHANGED <<note, attached, count, hot, histories, bounds>>

\* An empty list is not cached.
ReadHot(q) ==
  /\ At(q, "readHot")
  /\ Become(q, [request[q] EXCEPT !.current = TRUE,
                  !.todo = IF \A t \in Topic : count[t] = 0 THEN <<>> ELSE <<"setHot">>])
  /\ UNCHANGED <<note, attached, count, hot, histories, bounds>>

SetHot(q) ==
  /\ At(q, "setHot")
  /\ hot' = IF request[q].current THEN "fresh" ELSE "stale"
  /\ Stop(q)
  /\ UNCHANGED <<note, attached, count, histories, bounds>>

\* 5 minutes.
ExpireHot ==
  /\ hot # "missing" /\ hot' = "missing"
  /\ UNCHANGED <<note, attached, count, request, histories, bounds>>

\* A moderator leaves the topics of a note alone.
DeleteNoteByID(n) ==
  /\ note[n] = "published" /\ note' = [note EXCEPT ![n] = "deleted"]
  /\ UNCHANGED <<attached, count, hot, request, histories, bounds>>

\* Everything after a failed statement is skipped, except that clearing the list
\* drops its error and that Redis may fail to give the list.
Fail(q) ==
  /\ faults < MaxFaults /\ faults' = faults + 1
  /\ q \in Active /\ ~At(q, "insertNote") /\ ~At(q, "updateNote") /\ ~At(q, "deleteNote")
  /\ IF At(q, "getHot") THEN GoOn(q, <<"readHot">>) ELSE Stop(q)
  /\ drift' = TRUE
  /\ UNCHANGED <<note, attached, count, hot, lowered, overlaps, writes>>

Next ==
  \/ \E q \in Request :
       \/ \E n \in Note, names \in SUBSET Name :
            \/ /\ note[n] = "none" /\ \A s \in Writers : request[s].note # n   \* its own id
               /\ Start(q, "create", n, names)
            \/ note[n] # "none" /\ Start(q, "update", n, names)
       \/ \E n \in Note :
            \/ note[n] # "none" /\ Start(q, "delete", n, {})
            \/ Start(q, "hot", n, {})
       \/ InsertNote(q) \/ UpdateNote(q) \/ DeleteNote(q)
       \/ Pluck(q) \/ DeleteRows(q) \/ DecrementCounts(q)
       \/ UpsertByName(q) \/ SelectId(q) \/ AttachNoteTopics(q) \/ BumpHot(q)
       \/ GetHot(q) \/ ReadHot(q) \/ SetHot(q)
       \/ Fail(q)
  \/ \E n \in Note : DeleteNoteByID(n)
  \/ ExpireHot

Spec == Init /\ [][Next]_vars
-----------------------------------------------------------------------------
Rows(t) == Cardinality({row \in attached : row[2] = t})

(***************************************************************************)
(* Until two requests work on one note at a time, a topic never counts     *)
(* fewer notes than it has, whatever fails in between; and when the        *)
(* requests are over and nothing failed it counts exactly those            *)
(* (topic_service.go:58-96).                                               *)
(***************************************************************************)
CountsCover == ~crossed => \A t \in Topic : count[t] >= Rows(t)
CountsExact == Active = {} /\ ~crossed /\ ~drift => \A t \in Topic : count[t] = Rows(t)

(***************************************************************************)
(* Until something fails, or somebody reads the list while a note is       *)
(* written, it is an old one only because notes have lost topics since it  *)
(* was cleared, which does not clear it (topic_service.go:77-96, 128-135). *)
(***************************************************************************)
HotStaleByDetach == Active = {} /\ ~overtaken /\ ~drift /\ hot = "stale" => lowered
=============================================================================
