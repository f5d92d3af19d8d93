------------------------------ MODULE NoteCache ------------------------------
(***************************************************************************)
(* One note: its row in MySQL, its copies in Redis, its edit history, and  *)
(* the requests that read and change them (internal/service/               *)
(* note_service.go, feed_service.go, internal/handler/note_handler.go,     *)
(* flushCounters of cmd/worker/main.go).                                   *)
(*                                                                         *)
(* A request is a sequence of calls to MySQL and Redis; each call is a     *)
(* step, requests interleave between them.  The keys:                      *)
(*   note  NoteKey, the row                                     10 minutes *)
(*   raw   NoteDetailRawKey, the answer to an anonymous reader  30 seconds *)
(*   feed  FeedNoteKey, what the feed shows                     10 minutes *)
(*   list  UserNotesKey of limit 10 and 20, in the author's list 5 minutes *)
(*   wide  UserNotesKey of another limit                         5 minutes *)
(* A text is the number of the edit that wrote it, count stands for the    *)
(* three counters.                                                         *)
(***************************************************************************)
EXTENDS Naturals, SequencesExt

CONSTANTS Request,   \* requests in progress at the same time
          Keep,      \* versions TrimNoteVersions leaves, 50
          MaxWrites, \* bound: requests that change the row
          MaxFaults  \* bound: calls that fail

ASSUME NoteCacheAssumption ==
  Keep \in Nat \ {0} /\ MaxWrites \in Nat /\ MaxFaults \in Nat

VARIABLES row,       \* notes
          versions,  \* note_versions: the texts, oldest first
          cached,    \* the keys
          request,   \* requests in progress
          writes, faults,
          disturbed  \* history: a request that changes the note ran beside
                     \* another one, a call of it failed, or a moderator
                     \* changed the row

db == <<row, versions>>
bounds == <<writes, faults, disturbed>>
vars == <<db, cached, request, bounds>>

Key == {"note", "raw", "feed", "list", "wide"}

Text == 0..MaxWrites

\* No row yet, one that readers see, a deleted one, and one that is no longer
\* in the table.
Row == [status: {"none", "published", "deleted", "removed"}, text: Text, count: Nat]

NoRow == [status |-> "none", text |-> 0, count |-> 0]

\* A list without the note, as opposed to Missing: no list.
Missing == [status |-> "missing"]

(***************************************************************************)
(* The calls a request makes when it finds its key missing in Redis and    *)
(* none fails.  What interact (like, favorite, comment and their undoing)  *)
(* writes is not here; when it fails, nothing is dropped either.           *)
(***************************************************************************)
Calls ==
  [create   |-> <<"insert", "dropNew", "dropLists">>,
   update   |-> <<"getNote", "insertVersion", "trimVersions", "writeRow",
                  "dropNote", "dropRaw", "dropNoteLists">>,
   restore  |-> <<"getNote", "pickVersion", "getNote", "insertVersion", "writeRow",
                  "dropNote", "dropRaw", "dropLists">>,
   delete   |-> <<"erase", "dropNote", "dropNoteLists">>,
   flush    |-> <<"addCounters", "dropAll">>,
   interact |-> <<"getNote", "dropAll">>,
   detail   |-> <<"getRaw", "getNote", "setRaw">>,
   viewed   |-> <<"getNote">>,
   feed     |-> <<"getFeed", "loadFeed", "setFeed">>,
   list     |-> <<"getList", "loadList", "setList">>,
   wide     |-> <<"getWide", "loadList", "setWide">>]

Op == DOMAIN Calls

Changes == {"create", "update", "restore", "delete", "flush"}

Call == (UNION {ToSet(Calls[op]) : op \in Op}) \cup {"loadNote", "setNote"}

NoRequest == [op |-> "none"]

Active == {q \in Request : request[q] # NoRequest}

Changing == \E q \in Active : request[q].op \in Changes

\* A change writes the text to; got is what the request has read.
TypeOK ==
  /\ row \in Row
  /\ versions \in Seq(Text)
  /\ \A v \in ToSet(versions) : v <= writes
  /\ cached \in [Key -> Row \cup {Missing}]
  /\ DOMAIN request = Request
  /\ \A q \in Active : \E todo \in {request[q].todo} :
       /\ request[q] \in [op: Op, todo: {todo}, got: Row \cup {Missing}, to: Text]
       /\ todo \in Seq(Call) /\ todo # <<>>
  \* A missing row is never cached, an empty list may be.
  /\ \A k \in Key : cached[k].status # "removed"
  /\ \A k \in {"note", "raw", "feed"} : cached[k].status # "none"
  /\ cached["feed"].status # "deleted"
  /\ writes \in 0..MaxWrites /\ faults \in 0..MaxFaults
  /\ disturbed \in BOOLEAN

Init ==
  /\ row = NoRow
  /\ versions = <<>>
  /\ cached = [k \in Key |-> Missing]
  /\ request = [q \in Request |-> NoRequest]
  /\ writes = 0 /\ faults = 0 /\ disturbed = FALSE
-----------------------------------------------------------------------------
\* A note can only be asked for once it exists; lists always can.
Start(q, op) ==
  /\ request[q] = NoRequest
  /\ op \in Changes => writes < MaxWrites
  /\ CASE op = "create" -> row = NoRow
       [] op \in {"list", "wide"} -> TRUE
       [] OTHER -> row # NoRow
  /\ writes' = IF op \in Changes THEN writes + 1 ELSE writes
  /\ disturbed' = (disturbed \/ Changing \/ (op \in Changes /\ Active # {}))
  /\ request' = [request EXCEPT ![q] =
                   [op |-> op, todo |-> Calls[op], got |-> Missing,
                    to |-> IF op = "update" THEN writes' ELSE 0]]
  /\ UNCHANGED <<db, cached, faults>>

At(q, call) == q \in Active /\ Head(request[q].todo) = call

Remaining(q) == Tail(request[q].todo)

\* Request q goes on with the calls todo, or is over.
GoOn(q, todo) ==
  request' = [request EXCEPT ![q] = IF todo = <<>> THEN NoRequest ELSE [@ EXCEPT !.todo = todo]]

Proceed(q) == GoOn(q, Remaining(q))

Stop(q) == GoOn(q, <<>>)

\* Request q has read r.
Learn(q, r) ==
  request' = [request EXCEPT ![q] = IF Remaining(q) = <<>> THEN NoRequest
                                    ELSE [@ EXCEPT !.todo = Remaining(q), !.got = r]]
-----------------------------------------------------------------------------
(***************************************************************************)
(* Reading.  GetByID looks at NoteKey, then reads the row whatever its     *)
(* status and fills NoteKey.                                               *)
(***************************************************************************)
GetNote(q) ==
  /\ At(q, "getNote")
  /\ IF cached["note"] = Missing
     THEN GoOn(q, <<"loadNote", "setNote">> \o Remaining(q))
     ELSE Learn(q, cached["note"])
  /\ UNCHANGED <<db, cached, bounds>>

\* Calls whose error ends the request.  The note an edit or a restore wants
\* to save may be missing, versionsCheck of a restore may not.
EndsRequest(q) ==
  \/ \E call \in {"insert", "pickVersion", "writeRow", "erase", "addCounters",
                  "loadFeed", "loadList"} : At(q, call)
  \/ At(q, "loadNote") /\ (request[q].op \in {"interact", "detail", "viewed"}
                             \/ "pickVersion" \in ToSet(request[q].todo))

\* A row that is not there is an error.
LoadNote(q) ==
  /\ At(q, "loadNote")
  /\ IF row.status # "removed" THEN Learn(q, row)
     ELSE IF EndsRequest(q) THEN Stop(q)
     ELSE GoOn(q, Tail(Remaining(q)))
  /\ UNCHANGED <<db, cached, bounds>>

KeyOf(call) == CASE call \in {"getRaw", "setRaw"}   -> "raw"
                 [] call \in {"getFeed", "setFeed"} -> "feed"
                 [] call \in {"getList", "setList"} -> "list"
                 [] call \in {"getWide", "setWide"} -> "wide"
                 [] call = "setNote"                -> "note"

\* The other readers: what is in Redis is the answer.
Get(q) ==
  /\ \E call \in {"getRaw", "getFeed", "getList", "getWide"} :
       /\ At(q, call)
       /\ IF cached[KeyOf(call)] = Missing THEN Proceed(q) ELSE Stop(q)
  /\ UNCHANGED <<db, cached, bounds>>

\* Mutant: the feed reads notes whatever their status.
LoadFeedOfAny(q) ==
  /\ At(q, "loadFeed")
  /\ Learn(q, [row EXCEPT !.count = 0])
  /\ UNCHANGED <<db, cached, bounds>>

\* getNotesByIDs reads published notes only and without their counters; it
\* caches none it has not found.
LoadFeed(q) ==
  /\ At(q, "loadFeed")
  /\ IF row.status = "published" THEN Learn(q, [row EXCEPT !.count = 0]) ELSE Stop(q)
  /\ UNCHANGED <<db, cached, bounds>>

\* ListByAuthorID caches the empty list too.
LoadList(q) ==
  /\ At(q, "loadList")
  /\ Learn(q, IF row.status = "published" THEN row ELSE NoRow)
  /\ UNCHANGED <<db, cached, bounds>>

Set(q) ==
  /\ \E call \in {"setNote", "setRaw", "setFeed", "setList", "setWide"} :
       /\ At(q, call)
       /\ cached' = [cached EXCEPT ![KeyOf(call)] = request[q].got]
  /\ Proceed(q)
  /\ UNCHANGED <<db, bounds>>
-----------------------------------------------------------------------------
(***************************************************************************)
(* Changing.                                                               *)
(***************************************************************************)
Insert(q) ==
  /\ At(q, "insert")
  /\ row = NoRow
  /\ row' = [NoRow EXCEPT !.status = "published"]
  /\ Proceed(q)
  /\ UNCHANGED <<versions, cached, bounds>>

\* Mutant: an edit saves the text it is about to write.
InsertNewVersion(q) ==
  /\ At(q, "insertVersion")
  /\ versions' = IF request[q].got = Missing THEN versions
                 ELSE Append(versions, request[q].to)
  /\ Proceed(q)
  /\ UNCHANGED <<row, cached, bounds>>

\* The text read before, if it could be read.
InsertVersion(q) ==
  /\ At(q, "insertVersion")
  /\ versions' = IF request[q].got = Missing THEN versions
                 ELSE Append(versions, request[q].got.text)
  /\ Proceed(q)
  /\ UNCHANGED <<row, cached, bounds>>

\* Only Updata trims.
TrimVersions(q) ==
  /\ At(q, "trimVersions")
  /\ versions' = IF request[q].got = Missing \/ Len(versions) <= Keep THEN versions
                 ELSE SubSeq(versions, Len(versions) - Keep + 1, Len(versions))
  /\ Proceed(q)
  /\ UNCHANGED <<row, cached, bounds>>

\* RestoreVersion reads the version it is asked for, which may be gone.
PickVersion(q) ==
  /\ At(q, "pickVersion")
  /\ \/ Stop(q)
     \/ \E v \in ToSet(versions) :
          request' = [request EXCEPT ![q].todo = Remaining(q),
                                     ![q].got = Missing,
                                     ![q].to = v]
  /\ UNCHANGED <<db, cached, bounds>>

\* UpdataByAuthorID: only of a published note.
WriteRow(q) ==
  /\ At(q, "writeRow")
  /\ IF row.status = "published"
     THEN row' = [row EXCEPT !.text = request[q].to] /\ Proceed(q)
     ELSE row' = row /\ Stop(q)
  /\ UNCHANGED <<versions, cached, bounds>>

\* DeleteByID does not care whether it matches, nor does a flush.
Erase(q) ==
  /\ At(q, "erase")
  /\ row' = [row EXCEPT !.status = IF @ = "published" THEN "deleted" ELSE @]
  /\ Proceed(q)
  /\ UNCHANGED <<versions, cached, bounds>>

AddCounters(q) ==
  /\ At(q, "addCounters")
  /\ row' = [row EXCEPT !.count = IF row.status = "removed" THEN @ ELSE @ + 1]
  /\ Proceed(q)
  /\ UNCHANGED <<versions, cached, bounds>>

\* Mutant: edits leave the answer to anonymous readers alone.
DropsNotRaw ==
  [dropNew |-> {"note", "raw"}, dropNote |-> {"note"}, dropRaw |-> {},
   dropLists |-> {"list"}, dropNoteLists |-> {"note", "list"},
   dropAll |-> {"note", "raw", "feed"}]

\* The keys each DEL names.
Drops ==
  [dropNew |-> {"note", "raw"}, dropNote |-> {"note"}, dropRaw |-> {"raw"},
   dropLists |-> {"list"}, dropNoteLists |-> {"note", "list"},
   dropAll |-> {"note", "raw", "feed"}]

Drop(q) ==
  /\ \E call \in DOMAIN Drops :
       /\ At(q, call)
       /\ cached' = [k \in Key |-> IF k \in Drops[call] THEN Missing ELSE cached[k]]
  /\ Proceed(q)
  /\ UNCHANGED <<db, bounds>>
-----------------------------------------------------------------------------
\* A call fails.  A key that cannot be read counts as missing, other errors
\* are dropped.
Fail(q) ==
  /\ faults < MaxFaults /\ faults' = faults + 1
  /\ q \in Active
  /\ IF EndsRequest(q) THEN Stop(q)
     ELSE IF At(q, "getNote") THEN GoOn(q, <<"loadNote", "setNote">> \o Remaining(q))
     ELSE IF At(q, "loadNote") THEN GoOn(q, Tail(Remaining(q)))
     ELSE Proceed(q)
  /\ disturbed' = (disturbed \/ request[q].op \in Changes)
  /\ UNCHANGED <<db, cached, writes>>

(***************************************************************************)
(* Moderators change the row in one statement and drop no key: DeleteUser  *)
(* takes the rows of an author out of the table, DeleteNoteByID marks one  *)
(* as deleted, DeleteCommentByID lowers its comment_count.                 *)
(***************************************************************************)
Moderate(r) ==
  /\ row.status \in {"published", "deleted"}
  /\ writes < MaxWrites /\ writes' = writes + 1
  /\ row' = r
  /\ disturbed' = TRUE
  /\ UNCHANGED <<versions, cached, request, faults>>

DeleteUser == Moderate([row EXCEPT !.status = "removed"])

DeleteNoteByID == Moderate([row EXCEPT !.status = "deleted"])

DeleteCommentByID == Moderate([row EXCEPT !.count = IF @ = 0 THEN 0 ELSE @ - 1])

\* Mutant: the feed's copies never expire.
ExpireUnlessFeed(k) ==
  /\ k # "feed"
  /\ cached[k] # Missing
  /\ cached' = [cached EXCEPT ![k] = Missing]
  /\ UNCHANGED <<db, request, bounds>>

\* Its time to live is over.
Expire(k) ==
  /\ cached[k] # Missing
  /\ cached' = [cached EXCEPT ![k] = Missing]
  /\ UNCHANGED <<db, request, bounds>>
-----------------------------------------------------------------------------
Step(q) ==
  \/ GetNote(q) \/ LoadNote(q) \/ Get(q) \/ LoadFeed(q) \/ LoadList(q) \/ Set(q)
  \/ Insert(q) \/ InsertVersion(q) \/ TrimVersions(q) \/ PickVersion(q)
  \/ WriteRow(q) \/ Erase(q) \/ AddCounters(q) \/ Drop(q)

Next ==
  \/ \E q \in Request, op \in Op : Start(q, op)
  \/ \E q \in Request : Step(q) \/ Fail(q)
  \/ DeleteUser \/ DeleteNoteByID \/ DeleteCommentByID
  \/ \E k \in Key : Expire(k)

Spec == Init /\ [][Next]_vars

\* Requests end, keys expire.
Fairness ==
  /\ \A q \in Request : WF_vars(Step(q))
  /\ \A k \in Key : WF_vars(Expire(k))
-----------------------------------------------------------------------------
\* A copy says what the row says.  The lists and the feed do not show the
\* counters, neither shows a note that is not published.
Agrees(k) ==
  LET shown == IF row.status = "published" THEN row ELSE NoRow
  IN  IF k \in {"note", "raw"} THEN cached[k] = row
      ELSE cached[k].status = shown.status /\ cached[k].text = shown.text

Fresh(k) == cached[k] = Missing \/ Agrees(k)

(***************************************************************************)
(* As long as requests that change the note run alone, none of their calls *)
(* fails and no moderator changes it: when no change is under way, the     *)
(* caches an edit, a restore or a flush is meant to clear agree with the   *)
(* row, that of the anonymous while the note is published, whatever        *)
(* readers fill meanwhile and whichever of their calls fail                *)
(* (invalidateNoteFeed and the Delete calls at note_service.go:133-137,    *)
(* 187-192, 424-430, 517-521).  FeedNoteKey and lists of other limits are  *)
(* not cleared; a moderator's change (admin_repo.go:71-106) clears no key  *)
(* at all and leaves every copy old until it expires.                      *)
(***************************************************************************)
ClearedFresh ==
  ~disturbed /\ ~Changing =>
    /\ Fresh("note") /\ Fresh("list")
    /\ row.status = "published" => Fresh("raw")

(***************************************************************************)
(* Under the same condition, what an edit or a restore overwrites is the   *)
(* newest version of the history (note_service.go:397-410, 489-505):       *)
(* nothing an author wrote is lost at the moment it is replaced.           *)
(***************************************************************************)
Overwrites == row.status = "published" /\ row'.text # row.text

HistoryKept ==
  [][~disturbed /\ Overwrites => versions # <<>> /\ Last(versions) = row.text]_vars

(***************************************************************************)
(* Whatever requests run at the same time, whatever fails and whatever     *)
(* moderators do to the row, once it has stopped changing every copy of it *)
(* becomes and stays up to date: no stale copy outlives its time to live   *)
(* for good (note_service.go:59-60, feed_service.go:858,                   *)
(* note_handler.go:222).                                                   *)
(***************************************************************************)
EventuallyFresh == \A k \in Key : <>[]Fresh(k)
=============================================================================
