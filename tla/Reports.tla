-------------------------------- MODULE Reports --------------------------------
(***************************************************************************)
(* Reports and what moderators do about them: filing and filing again,     *)
(* approving and rejecting, bans and removal of users                      *)
(* (internal/service/report_service.go, admin_service.go and their         *)
(* repositories).                                                          *)
(*                                                                         *)
(* A request is a sequence of statements and nothing locks a report: what  *)
(* a request does rests on what it read before.  Filing a decided report   *)
(* again makes it pending again; rev counts the filings of a report, and   *)
(* with it the snapshots a moderator can have looked at.  Reasons,         *)
(* descriptions and snapshots themselves are left out.                     *)
(***************************************************************************)
EXTENDS Naturals, FiniteSets, SequencesExt

CONSTANTS Reporter,
          Target,    \* what is reported, named after its type: a subset of TargetType
          Request,   \* API requests in progress at the same time
          MaxDaily,  \* reports a reporter may file on one day
          MaxFilings, \* bound: filings of one report
          MaxWork,   \* bound: requests of moderators, and days
          MaxFaults  \* bound: statements that fail

VARIABLES target,   \* "up", "down" (deleted, banned) or "missing" (no row)
          reports,  \* the table, by reporter and target; NoReport where there is none
          today,    \* the rows created today
          request,  \* requests in progress
          protected, \* the reported user ranks as high as the moderators
          disposed, \* history: <<reporter, target, rev>> a moderator acted on
          crossed,  \* history: two filings of one reporter have overlapped,
                    \* or two requests that handle one report
          work, faults

bounds == <<work, faults>>
vars == <<target, reports, today, request, protected, disposed, crossed, bounds>>

TargetType == {"note", "comment", "user", "message"}
Key == Reporter \X Target

NoReport == [status |-> "none"]
\* by: the filing the decision was made on.
Row == [status: {"pending", "approved", "rejected"}, rev: 1..MaxFilings, by: 0..MaxFilings]

\* Mutant: a report is marked before anything is done about it.
MarkFirst(approve) == IF approve THEN <<"mark", "dispose">> ELSE <<"mark">>

\* Handle: "only after disposing has succeeded is the status changed".
HandleCalls(approve) == IF approve THEN <<"dispose", "mark">> ELSE <<"mark">>

Calls ==
  [report |-> <<"snapshot", "count", "create">>,
   handle |-> <<"getReport">>,
   ban    |-> <<"getUser", "setStatus">>,
   delete |-> <<"getUser", "deleteUser">>]

Step == {"getExisting", "reset", "dispose", "mark"}
          \cup UNION {ToSet(Calls[op]) : op \in DOMAIN Calls}

NoRequest == [op |-> "none"]
Active == {q \in Request : request[q] # NoRequest}

TypeOK ==
  /\ target \in [Target -> {"up", "down", "missing"}]
  /\ \A k \in Key : reports[k] = NoReport \/ reports[k] \in Row
  /\ today \subseteq {k \in Key : reports[k] # NoReport}
  /\ \A q \in Active :
       /\ request[q].op \in DOMAIN Calls /\ request[q].todo # <<>>
       /\ ToSet(request[q].todo) \subseteq Step
       /\ request[q].key \in Key
       /\ request[q].rev \in 0..MaxFilings /\ request[q].approve \in BOOLEAN
       /\ request[q].banned \in BOOLEAN
  /\ protected \in BOOLEAN
  /\ disposed \subseteq Key \X (1..MaxFilings)
  /\ crossed \in BOOLEAN
  /\ work \in 0..MaxWork /\ faults \in 0..MaxFaults

Init ==
  /\ target = [t \in Target |-> "up"]
  /\ reports = [k \in Key |-> NoReport]
  /\ today = {}
  /\ request = [q \in Request |-> NoRequest]
  /\ protected \in BOOLEAN
  /\ disposed = {} /\ crossed = FALSE
  /\ work = 0 /\ faults = 0
-----------------------------------------------------------------------------
At(q, call) == q \in Active /\ Head(request[q].todo) = call

GoOn(q, todo) ==
  request' = [request EXCEPT ![q] = IF todo = <<>> THEN NoRequest ELSE [@ EXCEPT !.todo = todo]]

Proceed(q) == GoOn(q, Tail(request[q].todo))
Stop(q) == GoOn(q, <<>>)

Start(q, op, k, approve) ==
  /\ request[q] = NoRequest
  /\ request' = [request EXCEPT ![q] = [op |-> op, key |-> k, approve |-> approve, rev |-> 0,
                                        banned |-> FALSE, todo |-> Calls[op]]]
  /\ crossed' = (crossed \/ \E s \in Active :
                               /\ request[s].op = op
                               /\ \/ op = "report" /\ request[s].key[1] = k[1]
                                  \/ op = "handle" /\ request[s].key = k)

Filings(k) == IF reports[k] = NoReport THEN 0 ELSE reports[k].rev

Report(q, k) ==
  /\ Start(q, "report", k, FALSE)
  /\ Filings(k) < MaxFilings
  /\ UNCHANGED <<target, reports, today, protected, disposed, bounds>>

\* The rows of deleted notes, comments and messages and of banned users are
\* still there.
BuildSnapshot(q) ==
  /\ At(q, "snapshot")
  /\ IF target[request[q].key[2]] = "missing" THEN Stop(q) ELSE Proceed(q)
  /\ UNCHANGED <<target, reports, today, protected, disposed, crossed, bounds>>

CountTodayByReporter(r) == Cardinality({k \in today : k[1] = r})

CountToday(q) ==
  /\ At(q, "count")
  /\ IF CountTodayByReporter(request[q].key[1]) >= MaxDaily THEN Stop(q) ELSE Proceed(q)
  /\ UNCHANGED <<target, reports, today, protected, disposed, crossed, bounds>>

\* The unique index lets one row of a reporter and a target in.
Create(q) ==
  /\ At(q, "create")
  /\ LET k == request[q].key
     IN  IF reports[k] = NoReport
         THEN /\ reports' = [reports EXCEPT ![k] = [status |-> "pending", rev |-> 1, by |-> 0]]
              /\ today' = today \cup {k}
              /\ Stop(q)
         ELSE GoOn(q, <<"getExisting">>) /\ UNCHANGED <<reports, today>>
  /\ UNCHANGED <<target, protected, disposed, crossed, bounds>>

GetByReporterTarget(q) ==
  /\ At(q, "getExisting")
  /\ IF reports[request[q].key].status = "pending" THEN Stop(q) ELSE GoOn(q, <<"reset">>)
  /\ UNCHANGED <<target, reports, today, protected, disposed, crossed, bounds>>

\* By id, whatever has become of the report meanwhile.  The row stays one of
\* the day it was created on.
ResetForReporter(q) ==
  /\ At(q, "reset")
  /\ LET k == request[q].key
     IN  /\ reports[k].rev < MaxFilings
         /\ reports' = [reports EXCEPT ![k] = [status |-> "pending", rev |-> @.rev + 1, by |-> 0]]
  /\ Stop(q)
  /\ UNCHANGED <<target, today, protected, disposed, crossed, bounds>>
-----------------------------------------------------------------------------
Moderate(q, op, k, approve) ==
  /\ work < MaxWork /\ work' = work + 1
  /\ Start(q, op, k, approve)
  /\ UNCHANGED <<target, reports, today, protected, disposed, faults>>

Handle(q, k, approve) == reports[k] # NoReport /\ Moderate(q, "handle", k, approve)

GetReport(q) ==
  /\ At(q, "getReport")
  /\ LET r == request[q]
         row == reports[r.key]
     IN  IF row.status # "pending" THEN Stop(q)
         ELSE request' = [request EXCEPT ![q].rev = row.rev, ![q].todo = HandleCalls(r.approve)]
  /\ UNCHANGED <<target, reports, today, protected, disposed, crossed, bounds>>

\* A comment that is not published is an error, a note, user or message that
\* is gone is not.  The rank of a reported user is not looked at.
Dispose(q) ==
  /\ At(q, "dispose")
  /\ LET r == request[q]
         t == r.key[2]
     IN  IF t = "comment" /\ target[t] # "up"
         THEN Stop(q) /\ UNCHANGED <<target, disposed>>
         ELSE /\ target' = [target EXCEPT ![t] = IF @ = "up" THEN "down" ELSE @]
              /\ disposed' = disposed \cup {<<r.key, r.rev>>}
              /\ Proceed(q)
  /\ UNCHANGED <<reports, today, protected, crossed, bounds>>

\* By id, whatever has become of the report meanwhile.
UpdateStatus(q) ==
  /\ At(q, "mark")
  /\ LET r == request[q]
     IN  reports' = [reports EXCEPT ![r.key].status = IF r.approve THEN "approved" ELSE "rejected",
                                    ![r.key].by = r.rev]
  /\ Proceed(q)
  /\ UNCHANGED <<target, today, protected, disposed, crossed, bounds>>

\* The reported user is banned, or let in again, or removed.
Act(q, op) == \E k \in Key : k[2] = "user" /\ Moderate(q, op, k, FALSE)

GetUserByID(q) ==
  /\ At(q, "getUser")
  /\ IF target["user"] = "missing" \/ protected THEN Stop(q)
     ELSE request' = [request EXCEPT ![q].banned = target["user"] = "down", ![q].todo = Tail(@)]
  /\ UNCHANGED <<target, reports, today, protected, disposed, crossed, bounds>>

\* The opposite of the status that was read.
UpdateUserStatus(q) ==
  /\ At(q, "setStatus")
  /\ target' = [target EXCEPT !["user"] = IF @ = "missing" THEN @
                                          ELSE IF request[q].banned THEN "up" ELSE "down"]
  /\ Stop(q)
  /\ UNCHANGED <<reports, today, protected, disposed, crossed, bounds>>

\* With his follows, blocks, likes, favorites, comments and notes; the
\* reported note and comment are somebody else's.
DeleteUser(q) ==
  /\ At(q, "deleteUser")
  /\ target' = [target EXCEPT !["user"] = "missing"]
  /\ Stop(q)
  /\ UNCHANGED <<reports, today, protected, disposed, crossed, bounds>>

\* An author deletes his note or comment; users delete a message.
OwnDelete(t) ==
  /\ t # "user" /\ target[t] = "up"
  /\ target' = [target EXCEPT ![t] = "down"]
  /\ UNCHANGED <<reports, today, request, protected, disposed, crossed, bounds>>

NewDay ==
  /\ today # {} /\ work < MaxWork /\ work' = work + 1
  /\ today' = {}
  /\ UNCHANGED <<target, reports, request, protected, disposed, crossed, faults>>

\* A failed count is a count of 0, any other failure ends the request.
Fail(q) ==
  /\ faults < MaxFaults /\ faults' = faults + 1
  /\ q \in Active
  /\ IF At(q, "count") THEN Proceed(q) ELSE Stop(q)
  /\ UNCHANGED <<target, reports, today, protected, disposed, crossed, work>>

Next ==
  \/ \E q \in Request :
       \/ \E k \in Key : Report(q, k) \/ \E approve \in BOOLEAN : Handle(q, k, approve)
       \/ "user" \in Target /\ (Act(q, "ban") \/ Act(q, "delete"))
       \/ BuildSnapshot(q) \/ CountToday(q) \/ Create(q)
       \/ GetByReporterTarget(q) \/ ResetForReporter(q)
       \/ GetReport(q) \/ Dispose(q) \/ UpdateStatus(q)
       \/ GetUserByID(q) \/ UpdateUserStatus(q) \/ DeleteUser(q)
       \/ Fail(q)
  \/ \E t \in Target : OwnDelete(t)
  \/ NewDay

Spec == Init /\ [][Next]_vars
-----------------------------------------------------------------------------
(***************************************************************************)
(* Until two requests handle one report at a time or one reporter files    *)
(* two: a decision is one about the filing the row shows, never about an   *)
(* older snapshot; an approved report has been acted on, whatever failed,  *)
(* and a rejected one has not (report_service.go:121-152: "only after      *)
(* disposing has succeeded is the status changed").                        *)
(***************************************************************************)
DecidedOnCurrent ==
  ~crossed =>
    \A k \in Key :
      LET row == reports[k]
      IN  /\ row.status \in {"approved", "rejected"} => row.by = row.rev
          /\ row.status = "approved" => <<k, row.rev>> \in disposed
          /\ row.status = "rejected" /\ faults = 0 => <<k, row.rev>> \notin disposed

\* Under the same condition no reporter has more new reports on a day than
\* he may (report_service.go:80).
QuotaKept == ~crossed /\ faults = 0 => \A r \in Reporter : CountTodayByReporter(r) <= MaxDaily

\* A user of the moderators' own rank is banned by an approved report only
\* (admin_service.go:59, 74; report_service.go:144).
RankRespected ==
  protected /\ "user" \in Target /\ target["user"] # "up" =>
    \E d \in disposed : d[1][2] = "user"
=============================================================================
