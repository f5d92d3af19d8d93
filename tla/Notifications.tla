---------------------------- MODULE Notifications ----------------------------
(***************************************************************************)
(* Notifications: BatchConsumer composed with notifyBatchHandler           *)
(* (cmd/worker/main.go) and NotificationService.BatchCreate, beside the    *)
(* API requests that mark notifications as read and count the unread ones  *)
(* (internal/service/notification_service.go); one user may have several   *)
(* at a time.                                                              *)
(*                                                                         *)
(* notif:unread:<user> is a number that lives for five minutes when        *)
(* UnreadCount has set it, and for ever when an INCRBY has created it.     *)
(* The relay is taken at its word: an event may be on the stream more than *)
(* once, under one event id.                                               *)
(***************************************************************************)
EXTENDS Naturals, Sequences, FiniteSets

CONSTANTS User,
          Nobody,    \* reply_to_user_id of a comment that is no reply
          Blocked,   \* pairs of users one of whom has blocked the other
          Reader,    \* API requests
          MaxMsg,    \* bound: entries in a run
          BatchSize, MaxFaults   \* of BatchConsumer

ASSUME NotificationsAssumption ==
  /\ IsFiniteSet(User)
  /\ MaxMsg \in Nat /\ BatchSize \in Nat \ {0} /\ MaxFaults \in Nat

VARIABLES length, last, pending, batch, done, handled, faults,  \* the notify group
          evts,      \* the entries of the stream: event id and what it says
          notifs,    \* rows of notifications, but their is_read
          read,      \* <<event_id, user_id>> of the rows that are read
          worker,    \* the call of notifyBatchHandler in progress
          unread,    \* notif:unread:<user>
          reader,    \* where each API request is
          unchecked, \* history: <<event id, user>> whose check for a block failed
          disturbed  \* history: a row was inserted or read and the number was not
                     \* corrected for it once

groupVars == <<length, last, pending, batch, done, handled, faults>>
vars == <<groupVars, evts, notifs, read, worker, unread, reader, unchecked, disturbed>>

Group == INSTANCE BatchConsumer

Event == [type: {"liked", "followed"}, actor: User, author: User,
          replyTo: {Nobody}, mentions: {{}}]
           \cup
         [type: {"commented"}, actor: User, author: User,
          replyTo: User \cup {Nobody}, mentions: SUBSET User]

\* A row; event and user are unique together.  A row that is about to be
\* inserted also knows the entry it was built from.
NotifType == {"liked", "followed", "commented", "replied", "mentioned"}

Notification == [event: 1..MaxMsg, user: User, type: NotifType]

Row(r) == [event |-> r.event, user |-> r.user, type |-> r.type]

NoKey == [n |-> 0, ttl |-> "missing"]

Key == [n: Nat, ttl: {"missing", "minutes", "forever"}]

Resting == [pc |-> "idle", new |-> {}]

NoRequest == [pc |-> "idle", user |-> Nobody, n |-> 0]

Request == [pc: {"marked", "count", "set"}, user: User, n: Nat]

Unread(u) == Cardinality({r \in notifs : r.user = u /\ <<r.event, u>> \notin read})

TypeOK ==
  /\ Group!TypeOK
  /\ evts \in Seq([id: 1..MaxMsg, what: Event]) /\ Len(evts) = length
  /\ notifs \subseteq Notification
  /\ \A r, s \in notifs : r.event = s.event /\ r.user = s.user => r = s
  /\ read \subseteq {<<r.event, r.user>> : r \in notifs}
  /\ worker \in [pc: {"idle", "exists", "insert", "incr"}, new: SUBSET [entry: 1..MaxMsg, event: 1..MaxMsg, user: User, type: NotifType]]
  /\ unread \in [User -> Key]
  /\ reader \in [Reader -> Request \cup {NoRequest}]
  /\ unchecked \subseteq (1..MaxMsg) \X User
  /\ disturbed \in BOOLEAN

Init ==
  /\ Group!Init /\ length = 0
  /\ evts = <<>>
  /\ notifs = {} /\ read = {}
  /\ worker = Resting
  /\ unread = [u \in User |-> NoKey]
  /\ reader = [q \in Reader |-> NoRequest]
  /\ unchecked = {}
  /\ disturbed = FALSE
-----------------------------------------------------------------------------
\* A transaction commits and its event is published.
Emit(e) ==
  /\ Group!Publish
  /\ evts' = Append(evts, [id |-> length', what |-> e])
  /\ UNCHANGED <<notifs, read, worker, unread, reader, unchecked, disturbed>>

\* The relay publishes an entry again.
Republish(m) ==
  /\ Group!Publish
  /\ evts' = Append(evts, evts[m])
  /\ UNCHANGED <<notifs, read, worker, unread, reader, unchecked, disturbed>>
-----------------------------------------------------------------------------
(***************************************************************************)
(* notifyBatchHandler: the rows of a batch.                                *)
(***************************************************************************)
\* Users the event itself is about; a reply is told to the one replied to
\* and, if that is somebody else, to the author of the note.
Direct(e) ==
  IF e.type = "commented" /\ e.replyTo # Nobody
  THEN {<<e.replyTo, "replied">>}
         \cup {<<u, "commented">> : u \in {e.author} \ {e.replyTo}}
  ELSE {<<e.author, e.type>>}

\* Whom it mentions across a block, and whom it mentions besides.
Shielded(e) == {u \in e.mentions : {e.actor, u} \in Blocked}

Mentioned(S) == {<<u, "mentioned">> : u \in S}

\* Mutant: users are notified of what they did themselves.
RowsOfAll(m, told) ==
  {[entry |-> m, event |-> evts[m].id, user |-> t[1], type |-> t[2]] : t \in told}

\* addNotif: nobody is notified of what he did himself.
RowsOf(m, told) ==
  {[entry |-> m, event |-> evts[m].id, user |-> t[1], type |-> t[2]] :
     t \in {x \in told : x[1] # evts[m].what.actor}}

DirectRows(m) == RowsOf(m, Direct(evts[m].what))

MentionRows(m) ==
  RowsOf(m, Mentioned(evts[m].what.mentions \ Shielded(evts[m].what)))

ShieldedRows(m) == RowsOf(m, Mentioned(Shielded(evts[m].what)))

Built(R) == worker' = [pc |-> "exists", new |-> R]

\* The names are looked up with one query for the batch.  When it fails the
\* batch goes on without its mentions.  Then every mention is checked for a
\* block with a query of its own; one that fails says there is none.
BuildRows ==
  /\ batch # {} /\ ~done
  /\ worker = Resting
  /\ LET direct == UNION {DirectRows(m) : m \in batch}
         mentions == UNION {MentionRows(m) : m \in batch}
         shielded == UNION {ShieldedRows(m) : m \in batch}
     IN  \/ Built(direct \cup mentions) /\ UNCHANGED <<faults, unchecked>>
         \/ /\ \E m \in batch : evts[m].what.mentions # {}
            /\ Group!Fault
            /\ Built(direct) /\ UNCHANGED unchecked
         \/ \E F \in SUBSET shielded :
              /\ F # {}
              /\ Group!Fault
              /\ Built(direct \cup mentions \cup F)
              /\ unchecked' = unchecked \cup {<<r.event, r.user>> : r \in F}
  /\ UNCHANGED <<length, last, pending, batch, done, handled,
                 evts, notifs, read, unread, reader, disturbed>>

\* Mutant: a batch is skipped as soon as one of its rows exists.
ExistsAny ==
  /\ worker.pc = "exists"
  /\ worker' = IF \E r \in worker.new, s \in notifs : s.event = r.event /\ s.user = r.user
               THEN [pc |-> "incr", new |-> {}]
               ELSE [worker EXCEPT !.pc = "insert"]
  /\ UNCHANGED <<groupVars, evts, notifs, read, unread, reader, unchecked, disturbed>>

\* Rows whose (event, user) is there already are left out.
ExistsPairs ==
  /\ worker.pc = "exists"
  /\ LET new == {r \in worker.new : \A s \in notifs : s.event # r.event \/ s.user # r.user}
     IN  worker' = [pc |-> IF new = {} THEN "incr" ELSE "insert", new |-> new]
  /\ UNCHANGED <<groupVars, evts, notifs, read, unread, reader, unchecked, disturbed>>

\* Mutant: event and user are not unique together.
InsertedAll(new) == {Row(r) : r \in new}

\* One INSERT; of rows with the same (event, user) the first stays, and a
\* direct row comes before a mention.
Inserted(new) ==
  LET direct(r) == \E s \in new : s.type # "mentioned" /\ s.event = r.event /\ s.user = r.user
  IN  {Row(r) : r \in {x \in new : x.type = "mentioned" => ~direct(x)}}

\* One user is told of one event by two of the rows: he is replied to and
\* mentioned, or the event is in the batch twice.
Twice == \E r, s \in worker.new : r # s /\ r.event = s.event /\ r.user = s.user

\* A request of u has counted his rows and not set the number yet.
SetsNumber(u) == \E q \in Reader : reader[q].pc = "set" /\ reader[q].user = u

BulkCreate ==
  /\ worker.pc = "insert"
  /\ notifs' = notifs \cup Inserted(worker.new)
  /\ worker' = [worker EXCEPT !.pc = "incr"]
  /\ disturbed' = (disturbed \/ Twice \/ \E r \in worker.new : SetsNumber(r.user))
  /\ UNCHANGED <<groupVars, evts, read, unread, reader, unchecked>>

\* Adds what was built, not what was inserted.
Incremented(K) ==
  [u \in User |->
     LET added == Cardinality({r \in worker.new : r.user = u})
     IN  IF added = 0 \/ u \notin K THEN unread[u]
         ELSE [n |-> unread[u].n + added,
               ttl |-> IF unread[u] = NoKey THEN "forever" ELSE unread[u].ttl]]

\* The errors of the INCRBYs are dropped.  The handler returns nil.
IncrByMany ==
  /\ worker.pc = "incr"
  /\ unread' = Incremented(User)
  /\ worker' = Resting
  /\ Group!HandleOk
  /\ UNCHANGED <<evts, notifs, read, reader, unchecked, disturbed>>

IncrByManyFail ==
  /\ worker.pc = "incr" /\ worker.new # {}
  /\ \E K \in SUBSET User : unread' = Incremented(K)
  /\ worker' = Resting
  /\ Group!Fault
  /\ done' = TRUE /\ handled' = handled \cup batch
  /\ disturbed' = TRUE
  /\ UNCHANGED <<length, last, pending, batch, evts, notifs, read, reader, unchecked>>

\* MySQL fails, or the answer to the INSERT is lost: the batch stays pending.
HandleFail ==
  /\ Group!HandleFail
  /\ worker.pc \in {"exists", "insert"}
  /\ \/ notifs' = notifs /\ disturbed' = disturbed
     \/ /\ worker.pc = "insert"
        /\ notifs' = notifs \cup Inserted(worker.new)
        /\ disturbed' = TRUE
  /\ worker' = Resting
  /\ UNCHANGED <<evts, read, unread, reader, unchecked>>

Crash ==
  /\ Group!Crash
  /\ worker' = Resting
  /\ disturbed' = (disturbed \/ (worker.pc = "incr" /\ worker.new # {}))
  /\ UNCHANGED <<evts, notifs, read, unread, reader, unchecked>>

Aside == UNCHANGED <<evts, notifs, read, worker, unread, reader, unchecked, disturbed>>

GroupRead == (Group!ReadGroup \/ Group!ReadNothing) /\ Aside

GroupAck == Group!AckBatch /\ Aside

GroupAckFail == Group!AckFail /\ Aside
-----------------------------------------------------------------------------
(***************************************************************************)
(* Request q of a user.                                                    *)
(***************************************************************************)
Turn(q, pc, u, n) == reader' = [reader EXCEPT ![q] = [pc |-> pc, user |-> u, n |-> n]]

End(q) == reader' = [reader EXCEPT ![q] = NoRequest]

\* MarkRead of one row, MarkAllRead of all.
MarkRead(q, u) ==
  /\ reader[q] = NoRequest
  /\ LET mine == {<<r.event, u>> : r \in {x \in notifs : x.user = u}}
     IN  \E S \in {{x} : x \in mine} \cup {mine} : read' = read \cup S
  /\ Turn(q, "marked", u, 0)
  /\ disturbed' = (disturbed \/ SetsNumber(u))
  /\ UNCHANGED <<groupVars, evts, notifs, worker, unread, unchecked>>

\* Mutant: the cached number survives.
KeepUnread(q) ==
  /\ reader[q].pc = "marked"
  /\ End(q)
  /\ UNCHANGED <<groupVars, evts, notifs, read, worker, unread, unchecked, disturbed>>

DeleteUnread(q) ==
  /\ reader[q].pc = "marked"
  /\ unread' = [unread EXCEPT ![reader[q].user] = NoKey]
  /\ End(q)
  /\ UNCHANGED <<groupVars, evts, notifs, read, worker, unchecked, disturbed>>

GroupButFaults == <<length, last, pending, batch, done, handled>>

\* The answer to the UPDATE is lost, or the DEL fails: its error is dropped.
DeleteUnreadFail(q) ==
  /\ reader[q].pc = "marked"
  /\ Group!Fault
  /\ disturbed' = TRUE
  /\ End(q)
  /\ UNCHANGED <<GroupButFaults, evts, notifs, read, worker, unread, unchecked>>

\* UnreadCount finds no number in Redis, or cannot read the one there is.
UnreadMiss(q, u) ==
  /\ reader[q] = NoRequest
  /\ IF unread[u] = NoKey THEN UNCHANGED faults ELSE Group!Fault
  /\ Turn(q, "count", u, 0)
  /\ UNCHANGED <<GroupButFaults, evts, notifs, read, worker, unread, unchecked, disturbed>>

CountUnread(q) ==
  /\ reader[q].pc = "count"
  /\ LET u == reader[q].user
     IN  /\ Turn(q, "set", u, Unread(u))
         /\ disturbed' = (disturbed \/ (worker.pc = "incr" /\ \E r \in worker.new : r.user = u))
  /\ UNCHANGED <<groupVars, evts, notifs, read, worker, unread, unchecked>>

SetUnread(q) ==
  /\ reader[q].pc = "set"
  /\ unread' = [unread EXCEPT ![reader[q].user] = [n |-> reader[q].n, ttl |-> "minutes"]]
  /\ End(q)
  /\ UNCHANGED <<groupVars, evts, notifs, read, worker, unchecked, disturbed>>

\* The COUNT fails, or the SET does and its error is dropped.
UnreadFail(q) ==
  /\ reader[q].pc \in {"count", "set"}
  /\ Group!Fault
  /\ End(q)
  /\ UNCHANGED <<GroupButFaults, evts, notifs, read, worker, unread, unchecked, disturbed>>

ExpireUnread(u) ==
  /\ unread[u].ttl = "minutes"
  /\ unread' = [unread EXCEPT ![u] = NoKey]
  /\ UNCHANGED <<groupVars, evts, notifs, read, worker, reader, unchecked, disturbed>>
-----------------------------------------------------------------------------
ReaderStep(q) ==
  \/ \E u \in User : MarkRead(q, u) \/ UnreadMiss(q, u)
  \/ DeleteUnread(q) \/ DeleteUnreadFail(q)
  \/ CountUnread(q) \/ SetUnread(q) \/ UnreadFail(q)

HandlerStep == BuildRows \/ ExistsPairs \/ BulkCreate \/ IncrByMany

Next ==
  \/ \E e \in Event : Emit(e)
  \/ \E m \in DOMAIN evts : Republish(m)
  \/ HandlerStep \/ IncrByManyFail \/ HandleFail \/ Crash
  \/ GroupRead \/ GroupAck \/ GroupAckFail
  \/ \E u \in User : ExpireUnread(u)
  \/ \E q \in Reader : ReaderStep(q)

Spec == Init /\ [][Next]_vars

Fairness == WF_vars(GroupRead) /\ WF_vars(HandlerStep \/ GroupAck)
-----------------------------------------------------------------------------
Has(u, m) == \E r \in notifs : r.event = evts[m].id /\ r.user = u

Users(R) == {r.user : r \in R}

Told(m) == m \in DOMAIN evts /\ \A u \in Users(DirectRows(m)) : Has(u, m)

(***************************************************************************)
(* Once the group counts an entry as handled, everybody the event is about *)
(* has a notification of it, and so has, when nothing failed, everybody it *)
(* mentions; through redelivery, half-done batches and restarts            *)
(* (notifyBatchHandler, main.go:416-474).                                  *)
(***************************************************************************)
AllNotified ==
  \A m \in handled :
    /\ Told(m)
    /\ faults = 0 => \A u \in Users(MentionRows(m)) : Has(u, m)

(***************************************************************************)
(* Nobody gets a notification nobody caused: every row goes back to an     *)
(* event that names its user, who is not the one that acted, and a mention *)
(* goes across a block only when the check for the block failed, whose     *)
(* error is dropped (addNotif, main.go:396-405, 464).                      *)
(***************************************************************************)
NoSpurious ==
  \A r \in notifs :
    \E m \in DOMAIN evts :
      /\ \/ \E x \in DirectRows(m) \cup MentionRows(m) : r = Row(x)
         \/ <<r.event, r.user>> \in unchecked /\ \E x \in ShieldedRows(m) : r = Row(x)
      /\ r.user # evts[m].what.actor

(***************************************************************************)
(* The group these handlers are composed with still acks nothing its       *)
(* handler has not handled (streams.go:197-242).                           *)
(***************************************************************************)
ImplementsDelivery == Group!ImplementsDelivery

Quiet == worker = Resting /\ batch = {} /\ \A q \in Reader : reader[q] = NoRequest

(***************************************************************************)
(* The number of unread notifications, as UnreadCount has set it, is right *)
(* between requests and batches (notification_service.go:113-151,          *)
(* 153-192), however many requests a user has at a time, unless            *)
(*   - a batch failed or crashed after its INSERT or in an INCRBY, or told *)
(*     a user twice of one event,                                          *)
(*   - rows of a user were inserted, or marked as read, while an           *)
(*     UnreadCount of his had counted and not yet set the number, or       *)
(*     counted while they were inserted and not yet added to it, or        *)
(*   - rows were marked as read and the number was not deleted after it.   *)
(* Rows that are marked as read at any other moment, keys that expire or   *)
(* cannot be read and batches that fail before the INSERT do no harm.      *)
(***************************************************************************)
CountedRight ==
  Quiet /\ ~disturbed =>
    \A u \in User : unread[u].ttl = "minutes" => unread[u].n = Unread(u)

(***************************************************************************)
(* Without failures everybody an event is about is notified of it in the   *)
(* end (main.go:416-474 on streams.go:197-242).                            *)
(***************************************************************************)
EventuallyNotified ==
  \A m \in 1..MaxMsg :
    (m \in DOMAIN evts) ~> (faults > 0 \/ Told(m))
=============================================================================
