# XFeedSystem in TLA+

XFeedSystem is a note-sharing service: an API process (gin handlers, services,
repositories over MySQL, caches in Redis) and a worker process that carries
events from an outbox table over a Redis stream to four consumer groups, and
counts from Redis to MySQL. This directory holds TLA+ modules of both, the TLC
configurations that check them, and TLAPS proofs about the outbox, the consumer
groups, the notifications, the counters, the read statistics, the feed engine,
the search index, follows and blocks, reports, messages, accounts, topics, and
notes with their cached copies and their history.
Paths below are relative to the repository root.

## 1. Inventory

| Component | State it keeps | Operations | Talks to | What is hard |
|---|---|---|---|---|
| Outbox and relay (`internal/outbox/outbox.go`) | table `outbox_events`, batch in memory | `EnqueueTx` in every business transaction, `Relay.Run`: claim, publish, mark | stream | several relays, half-done pipelines, lost marks, crashes |
| Stream consumers (`internal/queue/streams.go`) | group position, pending list | `Run` + `recoverLoop`, `RunBatch` | handlers | two loops on one group, partial acks, restarts, retries |
| Counter pipeline (`cmd/worker/main.go:158-365`, `note_repo.go`) | dedup keys, counters in Redis, `notes.*_count` | like/comment transactions, counter handler, flusher, rollback | stream, Redis, MySQL | non-atomic steps over two stores |
| Feed score engine (`feed_service.go:338-377,621-717`) | ZSET `feed:engine:v1:0` | upsert, remove, rebuild, rescore, reconcile | feed group, flusher, API | four writers of one key, check-then-act |
| Feed pages (`feed_service.go:80-336,719-819`, `feed_diversity.go`, `feed_scorer.go`) | ranking, raw pages and hidden set per user | list, hide, undo | engine, MySQL | pages over a ranking that expires, copies of what was hidden since |
| Search index (`search_repo.go`, `main.go:165-197`) | documents | index, delete | search group, MySQL | read-then-send against edits |
| Follows and blocks (`user_service.go`, `block_service.go`) | `follows`, `blocks`, following and blocked sets in Redis | follow, unfollow, block, unblock, `checkBlocked` | MySQL, Redis | requests of several calls interleave, caches outlive rows |
| Notes, caches, versions (`note_service.go`, `note_repo.go`) | `notes`, `note_versions`, five kinds of cached copies | create, edit, restore, delete, read | MySQL, Redis, flusher | stale copies, lost history |
| Notifications (`notification_service.go`, `main.go:396-474`) | `notifications`, unread number in Redis | batch handler, mark read, count | notify group | duplicates, partial batches, racing numbers |
| Read statistics (`stats_service.go`) | counters in Redis, `note_stats` | record, flush | MySQL | GET and DEL apart |
| Reports, moderation (`report_service.go`, `admin_service.go`) | reports, user status | file and file again, approve, reject, ban, delete | notes, comments, users | two moderators, partial disposal, a report filed again while it is decided |
| Messages (`message_service.go`) | messages | send, mark, delete | blocks | idempotent resend |
| Topics (`topic_service.go`) | topics, their counts, cached hot list | attach, replace, detach, hot list | notes | counts over several statements |
| Users (`user_service.go`, `user_handler.go`) | `users`, two cached copies of a profile | register, login, profile, update | feed, admin | one name twice, stale copies |
| HTTP layer, uploads, configuration | none; files; settings | parsing, cursors; storing | all services | little shared state |

What makes each modelled component correct:

- Outbox: an event on the stream was committed; a row marked published is on the stream; every committed event gets there; one relay keeps the order per business row.
- Consumers: no ack before the handler succeeded; what was delivered is handled in the end.
- Counters: the rows equal the count in MySQL plus what is on its way; nothing counts twice; counts are exact in the end.
- Feed engine: a published note whose event is handled is in the ZSET, a deleted one is not, a new one appears.
- Search index: once the events of a note are handled, its document is what the table says (the code breaks this for one kind of request, see section 3).
- Follows and blocks: the sets follow the rows; nobody follows across a block; a block in force is enforced where it is asked for, and only between the two.
- Notes: copies that are meant to be cleared agree with the row, the others catch up; an overwritten text is in the history.
- Notifications: everybody concerned is told, once, for a reason; the unread number is right.
- Feed pages: what a user hid does not come back; a walk over an order that stays gets each note once; the order is the one promised.
- Lists: a walk by cursor gets each row that stays, none twice.
- Read statistics: only what comes between GET and DEL is lost, and what is counted twice is bounded by the failures.
- Reports: a decision is about the report as filed last and an approved report was acted on; quotas and ranks hold.
- Messages: a draft sent several times is one message; badge, conversations and lists agree.
- Topics: a count covers the notes of the topic, and is exact when nothing failed.
- Users: a name is one account; a changed profile is seen.

`PROJECT.json` lists the components, the lines each definition stands for, and
the hazards with the properties that watch them.

## 2. Modules

    AtLeastOnce      abstract: a log of committed events, each delivered at least once
      Outbox         table, relays, stream      -> implements AtLeastOnce
    GroupDelivery    abstract: no ack before handling
      ConsumerGroup  Consumer.Run + recoverLoop -> implements GroupDelivery
        FeedEngine   = ConsumerGroup + feedHandler + flusher + rescorer + readers
        SearchIndex  = ConsumerGroup + searchHandler + writers of notes
      BatchConsumer  Consumer.RunBatch          -> implements GroupDelivery
        Notifications = BatchConsumer + notifyBatchHandler + readers
    CounterPipeline  requests, stream, counter group, Redis, flusher
    StatsFlush       impressions and reads, their flusher
    Topics           topics of notes, counts, the hot list
    SocialGraph      requests that follow, block and interact
    Reports          filing, deciding, bans, removal
    NoteCache        requests that read and change one note
    Accounts         requests that read and change profiles
    Messages         direct messages
    FeedPages        ranking, pages and hidden notes of one user
    DiverseRank      the order of that ranking
    Lists            every list that is read page by page
    *_proofs         Outbox, ConsumerGroup, FeedEngine,
                     SearchIndex with FeedPages and Lists,
                     CounterPipeline with StatsFlush and Topics,
                     Notifications with BatchConsumer and Messages,
                     SocialGraph with Reports, NoteCache with Accounts

The modules that share no state are checked side by side. An MC module
instantiates the smaller ones, and its variable `setup` chooses which of them
moves; in a behaviour only one does, so each run is the union of the behaviours
of its modules, and not of their product:

| MC module | Its own component | Hosts |
|---|---|---|
| `CounterPipelineMC` | `CounterPipeline` | `StatsFlush`, `Topics` |
| `SearchIndexMC` | `SearchIndex` | `FeedPages`, `Lists`, `DiverseRank` |
| `SocialGraphMC` | `SocialGraph` | `Reports` |
| `NoteCacheMC` | `NoteCache` | `Accounts` |
| `NotificationsMC` | `Notifications` | `Messages` |

A composed module extends or instantiates its group; a step of the group that
calls the handler is joined with the step of the handler, and the rest of the
state is unchanged in the group's own steps.

### Outbox
`row[e]` is the life of row `e`: `absent`, `open` (its transaction has inserted
it), `pending`, `published`, `rolledback`. `relay[r]` is a relay with its batch, what it has sent
and where it is in the loop of `Relay.Run`. `ClaimLock` is the SELECT ... FOR
UPDATE SKIP LOCKED, `ClaimCommit` the end of its transaction, which ends the
locks; `XAdd` is one command of the pipeline; `PublishOk`/`PublishFail` its
result; `MarkPublishedBatch`/`MarkFail` the update. Transactions on one business
row do not overlap, since MySQL locks the row. `active` is a history: the relays
that have claimed something so far. `SingleRelay` says that there was at most one
of them, which is how the worker is deployed; the order per row and the absence of
duplicates are promised under it.

### ConsumerGroup, BatchConsumer
The stream is its length, the group a position and a set of pending entries.
`ConsumerGroup` has two threads, "read" and "recover": each holds the entries
of its call and those already handled, acks them, or stops at the first
failure (`process`, `streams.go:119-129`). `Ripen` is the 30 s after which an
entry may be claimed again. An entry of `Poison` always fails. In
`BatchConsumer` a call is handled and acked as a whole and there is no second
loop. A crash forgets the calls in progress and keeps the pending list; the
new process has another consumer name (host and pid).

### CounterPipeline
Rows of likes and comments, events with their ids, the stream with
duplicates, dedup keys, counters in Redis, the flusher's drained amounts and
`count`, the columns of `notes`. Each call of the handlers to Redis or MySQL is
a step with its own failure. Favorites are the likes of another kind
(`Kind`). `Fault` names the failures a run allows; `faults` remembers those
that happened. The 24 h life of a dedup key is taken to be longer than a run.
`irregular` is a history: a comment was deleted by a moderator or a second time.
`Conserved` is promised until then.

### FeedEngine
`note[n]` is the status of a row, `zset` the members of the ZSET (empty means no
key), `work[a]` the call of `UpsertNoteScore`, reconcile or rebuild that an
actor is in the middle of. The flusher, the rescorer and readers of the feed
are loops beside the group. Scores are not modelled: a member is in the set or not.
Rebuilding holds the mutex of `engineLockFor`, which covers API and worker of
one process only. The reconciliation counts the members (`ZCard`) and the rows
(`CountPublished`) in two steps, and drops the ZSET in a third. Two histories say when a property is promised: `ran` is who
has moved beside the read loop (the recover loop, the flusher, readers, the
rescorer), `stray` says that a delete has matched no row and sent its event all
the same.

### SearchIndex
Rows with a text number, documents, the group's two threads with the row
each has read (`read`) and whose document it is about to send. `DeleteByID` is the
delete of an author, `DeleteMatchless` the one whose UPDATE matches no row (a note of
somebody else, or deleted already) and which sends `note.deleted` all the same.
`IndexAgrees` is what `main.go:165-166` promises. `disturbed` is a
history: a moderator has deleted, which sends no event; a delete matched no row
although the note is there, or comes yet; or one loop sent a document
or a deletion while the other had read the row of the same note, which then
may be sent last. `IndexConsistent` says that the index agrees until then.

### SocialGraph, NoteCache
A request is the list of calls it still has to make (`Calls`); every call to
MySQL or Redis is one step, any other request may come between two of them, and
`Fail` makes one call fail the way the code treats its error: it is
dropped, ends the request, or counts as "not blocked" or "not cached".
`SocialGraph` has the rows, the sets `follow:following:*` and `block:blocked:*`
and the flag that says the latter may be used; its history `disturbed` says that two
requests wrote on the same two users at the same time, that a call of one that
writes failed, or that a moderator deleted a user (`DeleteUser`), whose rows go and whose
sets stay. What is said of a pair of users is said while nobody is writing on it.
`Isfollow` and the following feed are look-ups (`Lookup`): one that Redis does not answer
asks MySQL (`ExistsFollow`, `ReadFollows`), adds what it read to the set (`SAddFollows`)
and gives it 30 minutes (`SetExpiry`). `expiring` are the sets with a time to live,
`endless` those whose EXPIRE failed after a look-up had filled them, `lapsed` the follows that went with a
set that expired and have not been put back. An `interact` is a like or a favourite; a
`comment` asks for no block, since every comment of the API is `CreateReply`
(`note_handler.go:556`) and `CreateComment`, which would ask, has no caller.

`NoteCache` has one note, its versions, and its copies under `NoteKey`, `NoteDetailRawKey`, `FeedNoteKey` and two
`UserNotesKey`s: of a limit that changes clear, and of one they do not. Its
`disturbed` says that a request that changes the note ran beside another, that a
call of one failed, or that a moderator changed the row (`DeleteUser`, `DeleteNoteByID`,
`DeleteCommentByID` of `admin_repo.go:71-106`), which clears no copy; readers may
overlap and fail as they please.

### Notifications
The notify group and the steps of `notifyBatchHandler` (build the rows, look
for existing ones, insert, increment), the rows, the unread number of each
user with its time to live, and the requests that count or mark, of which a user may
have several at a time. `Blocked` are the pairs of users separated by a block; it does
not change, but the check for it may fail (`BuildRows`), which lets the mention through
and is remembered in `unchecked`. `disturbed` is a
history: a row that was inserted or read was counted twice or not at all. That happens
when a batch fails or crashes between INSERT and INCRBY, when an event tells a
user twice, when rows are inserted or marked as read between the COUNT and the
SET of a request, when a COUNT comes between INSERT and INCRBY, and when the DEL after
marking fails, whose error is dropped.

### StatsFlush
`redis[c]` and `stats[c]` are the counters of a note for impressions and reads
in the two stores; the flusher goes through SCAN, GET, UPDATE and DEL, with the
keys it listed in `keys`, how often each is still to be read in `todo` (SCAN may
list a key twice), the key it has read and not yet added in `current` with its
number in `val`. `recorded` and `lost` are histories for the account. A fault happens at
most once of each kind; `Repeated` is what a key listed twice, a failed DEL or a crash
may have added once more.

### Topics, Reports, Messages, Accounts
As in `SocialGraph`, a request carries the statements it still has to make, and
other requests come between them. `Topics` finds a topic by its name under the
collation of MySQL (`TopicOf`), so that two names of one note may be one topic;
`drift` says that a statement failed or that a note gave one topic twice, `lowered`
that a note lost a topic since the hot list was cached, `crossed` that two requests
worked on one note at a time, `overtaken` that the hot list was read while a note
was written. `Reports` keeps of each report how often it was filed (`rev`), which
is what a moderator has looked at, and of each target whether it is there; its `crossed`
says that two requests handled one report, or one reporter filed two, at a time.
`Messages` has the drafts of the clients, each with its key, the rows they
become, and what the senders were told; a client sends a draft again until it
has an answer that it takes for one. `Accounts` has rows and, per user, the copies under
`UserKey` and `UserProfileRawKey`; a profile is the number of the change that wrote it;
its `crossed` says that a user was looked at while he changed his profile, `kept[k]`
how often the DEL of a key of that kind has failed.

### FeedPages, DiverseRank, Lists
`FeedPages` follows one user: the order the notes would have, the cached
ranking, the raw pages, the hidden set, and clients that walk. The keys may go
at any moment, since others delete them. `quiet` are the
clients during whose walk nothing but the keys has changed; `amiss` says that a
call that changes something failed, or that a note was hidden or shown again
beside another request of the user. `DiverseRank` is `personalizedScore` and
`diverseRank` over notes with an author, topics, a type and a score; the order
is written as the code computes it and the property says declaratively what it is. `Lists` describes
each list by what it sorts by, what it compares with its cursor and which row the
next cursor is; rows come and go between the pages.

## 3. Runs

A model-checking module may add a variable that is chosen once (`running`,
`setup`) and says who takes part. One run thus covers the behaviours in which a
property is promised and those in which all actors, faults and moderators run
together. Where a property is promised under a condition, the condition is a
history variable of the module and part of the property (`SingleRelay`,
`irregular`, `ran` and `stray`, `disturbed`, `crossed`, `overtaken`, `kept`,
`amiss` and `quiet`), so
that the run checks the very formula the theorem states; a liveness property with
a prefix (`Recover`, `Concurrent`, `Regular`) is that of the component restricted
to the behaviours named. `TypeOK` is the type invariant of the module
the run is about, `TypesOK` that of all modules of the run.

| Run | Shows | Bounds |
|---|---|---|
| `outbox` | `PublishedOnStream`, `ImplementsAtLeastOnce` and `EventuallyDelivered` for one and two relays; `EntityOrder`, `NoDuplicateEntry` while one of them is at work | 3 events on 2 business rows, batches of 2, one failure or crash |
| `consumer_group` | `ImplementsDelivery`, `EventuallyHandled` of `Run` with its recover loop | 4 entries, batches of 3, claims of 2, two faults |
| `counter` | `Conserved`, `NoDoubleCount`, `RegularEventuallyExact` | one note, one like, one comment, 3 events, one duplicate, batches of 2, one fault of any of 7 kinds |
| | `Accounted` of the read statistics | 2 notes, 3 requests, one fault of any of 6 kinds |
| | `TopicsCounted` | 2 notes, 3 names of 2 topics, 3 writes, one fault; one request at a time, or two without moderators |
| `feed` | `NoneForgotten`, `RemovedStaysOut`, `RecoverAppears` | 2 notes and 2 or 3 events, or 1 note with every loop but the recover loop; one fault |
| `search` | `IndexConsistent` with both loops, `RecoverNoteIndexed` | 2 notes and 4 events, or 3 and one fault; 1 note, 2 events and one fault with moderators and deletes that match no row |
| | `HiddenStaysOut` and `WalksExact` of the feed | 3 notes, pages of 2; one client with 2 changes and a fault, or two clients and one hide of any note but the first |
| | `WalksExact` of the lists | at most 4 rows, pages of 2 |
| | `RankedRight` | 4 notes, of them 3 candidates, at most 2 per author |
| `social` | `FollowsRight`, `BlockEnforced` | 2 users, 2 requests at a time, 4 writing requests in a row beside one that interacts; 2 at the same time, or one and a failing call, or 2 in a row and a failing call of one that interacts, or one and a deleted user; with a third user 3 writing requests in a row beside a look-up, of which 2 calls fail |
| | `ReportsRight` | one reporter, a comment and a user as targets, quota 1, 2 filings, 2 works of moderators, one fault; two requests at a time |
| `note_cache` | `ClearedFresh`, `HistoryKept`, `ConcurrentEventuallyFresh` | 5 changes in a row, or 2 of requests and moderators with two requests at a time and a failing call; history of 2 instead of 50 |
| | `AccountsRight`, `ConcurrentEventuallyFresh` of profiles | 2 accounts, one name; 2 changes one after another with a failing call, or two requests about one user with 2 changes, or one change and a failing call |
| `notifications` | `AllNotified`, `NoSpurious`, `ImplementsDelivery`, `EventuallyNotified` and `CountedRight`, with and without requests | 3 users, two of them separated by a block, a reply that also mentions, a comment that mentions a blocked user, a like; 3 entries (2 with requests in between, two at a time of one user), one fault |
| | `MessagesRight` | 3 drafts between two users, 2 deletions with one request at a time; 2 drafts and one deletion with two; one fault |
| `batch_retry` | violated: `PendingRetried` | 3 entries, one fault |
| `counter_double` | violated: `EventuallyExact` | 2 comments, 2 requests, no fault |
| `search_stranger` | violated: `IndexAgrees` | 1 note, 2 events, no fault, no moderator |
| `social_unrelated` | violated: `OnlyBlockedRefused` | 3 users, one request at a time |

What the conditions say:

- `RankedRight` is about ids below `feedScoreMult`; `foldScore` misorders larger ones.
- `HiddenStaysOut` is promised to any number of tabs until a note is hidden, or shown again, beside another request of the user, or a call that changes something fails (`amiss`); it excepts the notes whose hidden set has expired since: a missing set reads as an empty one.
- `WalksExact` is about walks of the feed during which nothing changes but the keys, up to a page with nothing to show. In the lists by cursor rows come and go; excepted are feeds that end where every note of a page is dropped, and follows of the second in which a page ends. A row that was there from the start and keeps its place counts, so a conversation that moves does not.
- `NoneForgotten` holds until the rescorer runs or a delete matches no row; `RemovedStaysOut` is about the read loop alone, since the flusher does bring removed notes back; `RecoverAppears` excepts the time during which an event of a deleted note is in the way.
- `IndexConsistent` holds until a moderator deletes, a delete matches no row, or both loops are at work on one note.
- `FollowsRight` and `BlockEnforced` hold until two requests write on the same two users at a time, a call of one that writes fails or a moderator deletes a user; look-ups and interactions may overlap with everything and fail. `FollowsRight` allows a cached set to lack what expired with it (and has not been followed anew or looked up since), and to hold more than the rows as long as a look-up without Redis has filled it. `BlockEnforced` is about likes and favourites.
- `Accounted`: what is lost is promised while nothing but SCAN fails; that nothing is counted twice while only SCAN, GET and UPDATE fail; and always that each failed DEL, key listed twice or crash adds what there is once more at most.
- `Conserved` and `RegularEventuallyExact` exclude moderators, comments deleted twice and the faults the code admits to lose counts by.
- `ClearedFresh` and `HistoryKept` hold as long as requests that change a note run alone, none of their calls fails and no moderator changes the row; readers may fill the caches meanwhile.
- `NoSpurious` allows a mention across a block if the check for that block failed; `AllNotified` promises mentions while nothing has failed, and the rest always.
- `CountedRight` is about numbers that `UnreadCount` has set, while nobody is in the middle of anything and until a row was not counted once (`disturbed` of `Notifications`).
- `ReportsRight`: `DecidedOnCurrent` and `QuotaKept` hold until two requests handle one report or one reporter files two at a time; `RankRespected` always.
- `TopicsCounted`: the counts are promised until two requests work on one note at a time, and are exact where no statement failed and no note gave a topic twice; the hot list is promised until a statement fails (`drift`) or it is read while a note is written.
- `AccountsRight` has `NamesUnique` always, since the index of the table guarantees it, and `ProfilesFresh` until a DEL of `UserKey` or both DELs of the other key fail, or a user is looked at while he changes his profile.

Why the bounds are enough: each property relates at most two events or changes
of one row, two actors and one fault. The bounds admit a batch that is cut by a fault
with an event before and one behind it, a duplicate beside a first delivery, a
flush between two increments, and a reader in the middle of each writer. Two
faults matter where one hits the repair of the other, which is why
`consumer_group` has two. Symmetry is used in `social`, whose properties are
invariants and whose first two users are alike; the other runs check liveness or have
actors that differ.

Fairness: the relay's ticker (that one of the relays goes on is enough), the read and recover loops and the flusher run
for as long as the process does (`outbox.go:93-145`, `streams.go:81-142`,
`main.go:199-214`), so their steps are weakly fair; in `note_cache` the calls of
requests (of notes and of profiles) end and keys expire. Users, moderators, faults and redelivery are never fair.
Deadlock is checked in
every run: the blocking reads and polls that find nothing are steps.

### What the violated properties say about the code

- `batch_retry`: `streams.go:234` promises that a failed batch is retried. `RunBatch` only reads new entries and nothing claims old ones, so a batch that failed once (notifications, counts) is lost.
- `counter_double`: `docs/Xenflow_第五轮压测报告.md:16` promises counts without loss. `DeleteComment` (`note_repo.go:312-327`) reads without a lock and updates without a condition on the status; two concurrent deletions subtract twice.
- `search_stranger`: `main.go:165-166` guarantees that the index agrees with the table. `DeleteByID` (`note_repo.go:98-109`) enqueues `note.deleted` whether or not a row matched, nobody checks whose note it is, and the search handler deletes the document without reading the table: one request of another user takes a published note out of the search for good, or until it is edited.
- `social_unrelated`: `docs/api-summary.md:254` makes a block a matter between two users. `GetBlockedIDs` (`block_repo.go:50-56`) has no WHERE and returns what anybody has blocked.

### Other disagreements met while modelling

The models contain these behaviours; no run is kept for them.

- `outbox.go:55` says SKIP LOCKED keeps relays from colliding. The locks end before the batch is published, so two relays can hold one event (`ClaimsDisjoint` fails in `Outbox` with two relays). Delivery at least once is not affected, the order per row is.
- `streams.go:109` says failed messages and those behind them are retried; an entry that always fails starves those behind it (`FollowersRetried` with a non-empty `Poison`).
- `main.go:259` says no count is lost when a flush fails: true when the rollback succeeds (`Conserved`), not when its INCRBY fails, nor when the worker dies between drain and update or between SETNX and INCRBY.
- A moderator's deletion decrements `comment_count` at once, clamped at 0, while the +1 may still be on its way (`admin_repo.go:91-106`).
- `main.go:143` wants new notes on everybody's page as soon as possible. `note.created` of a note that is deleted by then fails for ever (`feed_service.go:628`), and the recover loop stops at it each time (`streams.go:164`), so that the events claimed behind it starve; the note then gets into the ZSET by the rescorer or a flush only.
- `feed_service.go:623` says the check of the ZSET prevents a ZSET of one member: the reconciliation may delete it between check and ZADD. `RescoreRecentNotes` does not check at all. The flusher's upsert can bring a deleted note back. A delete that matches no row emits `note.deleted` all the same (`note_repo.go:98-109`).
- `main.go:165-166` again: with both loops running, an older document can arrive last, and notes deleted by moderators leave their documents behind.
- `Updata`, `RestoreVersion` and `Delete` leave `FeedNoteKey` to expire, for up to 10 minutes, although `feed_service.go:318` relies on the published condition of `GetByIDs`, which a cached copy bypasses.
- `docs/api-summary.md:254` says that after a block the two cannot interact. A comment across a block is allowed: `CreateReply` does not ask (`note_service.go:298-337`; the op `comment` of `SocialGraph`).
- A look-up Redis does not answer gives the following set, which otherwise never expires, a life of 30 minutes; after that `Isfollow` and the following feed take the missing set for an empty one, and the user follows nobody for them until a look-up without Redis fills it again. A look-up that read before an unfollow puts the author back, for 30 minutes or, when its EXPIRE fails, for good.
- Moderators' changes of a note (`admin_repo.go:71-106`) clear no cached copy: a removed note stays readable until its copies expire, and `comment_count` stays old.
- `main.go:464` and `notification_service.go:117-129` drop errors: a mention crosses a block when its check fails, and the unread number keeps counting rows that are read when the DEL does. Two requests of one user that overlap, or a worker between them, leave a wrong number for up to five minutes.
- `DeleteUser` takes the follows and blocks of a user out of the tables and leaves the sets in Redis, which the others go on reading.
- A follow and a block of the same pair that overlap can leave a follow across the block, and two overlapping writes can leave the cached sets wrong until the next write; hence `disturbed`.
- `INCRBY` on a missing unread number creates one without time to live that counts the new rows only (`redis.go:466-476`), and an event that tells a user twice in a batch is counted twice and inserted once; hence `disturbed` of `Notifications` and the restriction to numbers set by `UnreadCount`. `README.md:40` names a key `notify:dedup:{event_id}`; the code looks for existing rows instead (`notification_service.go:153-192`).

Feed and lists:

- `README.md:51` describes a greedy MMR that replaces the limit per author. `feed_diversity.go:84-91` still applies the limit, and the penalties use the numbers of the whole pool, so a note that is alone of its author, topic or type is penalised too (against the comment at 11-13).
- `README.md:52` and `feed_service.go:126` promise pages without repetition or omission. A ranking that is rebuilt from other scores between two pages breaks that, and a page on which nothing may be shown ends the walk.
- `README.md:53`: the hidden set expires after 30 minutes and hidden notes come back. The counts of hides double when two readers fill them, miss what was hidden before when `Hide` increments a missing hash, and count a note hidden again twice.
- `README.md:65`: the boost for followed topics is never applied, since their set is filled only when Redis cannot be asked for it (`feed_service.go:485-501`); the blocked authors `getFeedPage` computes do not filter its pool.
- `GetByIDs` (`feed_repo.go:93-101`) does not select the content format and the video, which the items of the For You feed then lack. Raw pages served from Redis count no impressions.
- `follows.created_at` is in seconds: follows of one second are skipped at the end of a page. A conversation that gets a message during a walk is skipped too.

Topics, reports, messages, users:

- The hot list ignores its limit once cached and is not cleared when notes lose topics (`topic_service.go:102`); `Delete` by one who is not the author detaches the topics all the same; the cached page of a topic is shared by users whom blocks should separate (`topic_handler.go:53`, `docs/api-summary.md:254`); two names of one topic count it twice; `topicNameMaxLen` counts bytes.
- A report on a comment that is deleted can never be approved; approving takes no notice of ranks; filing again does not count towards the quota.
- A repeated send after a block is answered with 403 although the message is stored. Deleting a message of others is answered with 500, since two errors of the same meaning differ (`message_repo.go`, `message_service.go`).
- `DeleteUser` drops errors and leaves counters, the ZSET and the copies of the profile. `BanUser` toggles the status it read: two bans that overlap leave the user as he was.
- The loser of two registrations of one name gets the error of the unique index and not "name taken".

## 4. Proofs

Every theorem holds for all values of the constants under the assumption named.

`Outbox_proofs` (`OutboxAssumption`: the kinds of the constants):

- `TypeCorrect`: `Spec => []TypeOK`.
- `PublishedOnStreamHolds`: `Spec => []PublishedOnStream`. Not inductive alone: `DeliveryInv` adds that what a relay has sent is on the stream, that a relay that is marking has sent its whole batch, and that batches and stream hold committed events only.
- `OutboxImplementsAtLeastOnce`: `Spec => ImplementsAtLeastOnce`. From `DeliveryInv`, each step is a commit, a delivery or a retirement of `AtLeastOnce`, or a stutter.
- `EntityOrderHolds`: `Spec => []EntityOrder`; the property speaks of a single relay (`SingleRelay`). Three more facts make it inductive: relays other than the single one hold nothing (`OthersIdle`), the transactions of a business row end in the order of their ids (`EarlierEnded`), and a relay that holds an event holds every earlier committed event of that row that is not on the stream yet (`BatchClosed`). The last comes from `FirstOfClosed`, a lemma on ORDER BY ... LIMIT: what `Claim` takes is closed downwards in what it could take.
- `NoDuplicateEntryHolds`: `Spec => []NoDuplicateEntry`, while nothing went wrong with the only relay. What is on the stream is published, or was sent by a relay that has not marked it yet (`StreamAccounted`), and a batch in hand is unpublished (`BatchUnpublished`): so an event is never sent again.

`ConsumerGroup_proofs` (`ConsumerAssumption`):

- `TypeCorrect`, with the fact that the group delivers only what is on the stream.
- `GroupImplementsDelivery`: `Spec => ImplementsDelivery`, for any number of entries, batch and claim sizes, poisonous entries and faults. The inductive `GroupInv` says that what is pending, or in the hands of a loop, was delivered (`PendingDelivered`, `TakenDelivered`) and that what a loop is done with is handled (`DoneIsHandled`). The last is what lets `Ack` remove entries: the other loop may have acked, claimed or handled any of them meanwhile. The pending list is a set of cohorts, and lemmas say what XACK and XAUTOCLAIM leave of it (`UnionWithout`, `ClaimKeepsPending`, `AckLeavesRest`).

`CounterPipeline_proofs` (`CounterAssumption`):

- `TypeCorrect`: with what the steps rely on, the requests that are known (`RequestsKnown`), what the flusher holds at rest (`FlusherRests`) and what the handler has in hand (`HandlerSound`).
- `ConservedHolds`: `Spec => []Conserved`. A count is how many events of a set add minus how many take away, so the proof is about cardinalities of disjoint sets of events: each step moves events from one place a count can be in to the next (`Balanced`). Rows and events agree while the counter of a note never falls below zero (`RowsInv`: `EventsMatchRows`, `NeverNegative`). The GREATEST(0, ...) of the flush is the hard part: it cuts nothing off only because what has been counted at any time is a beginning of the events of a note, in the order of their transactions (`OrderInv`, `FlushNotBelowZero`).
- `NoDoubleCountHolds`: `Spec => []NoDoubleCount`. Whatever goes wrong, what Redis, the flusher and the database hold in one direction is backed by as many events that are marked as seen and not in hand (`Backed`).

The same module has the theorems about `StatsFlush` and `Topics`, which `CounterPipelineMC` instantiates:

- `StatsTyped` (no assumption), with `StatsListed`: no key is listed before SCAN.
- `AccountedHolds`: `Stats!Spec => []Accounted`. The account of a counter has a term for what the flusher holds, which moves with its position; hence `StatsHeld` (it holds a count only between GET and UPDATE) and `StatsOnce` (unless SCAN lists a key twice, what it holds has been read for the last time, so that a second GET cannot add it again). One lemma per step says where the step moves the count. `RepeatsInv`, always: the table, what the flusher has in hand and what a later flush will read together are at most what was recorded plus what each fault may repeat; a fault of each kind happens at most once, so that the bound is a sum of three.
- `TopicsCountedHolds`: `Topic!Spec => []TopicsCounted` (`TopicsAssumption`: every name stands for a topic, the bounds are counts). A topic is counted before its row is inserted and its row is deleted before it is counted down, so what a count says is the number of its rows and of those on their way in or out: `Tagging(t)` has both, and `Covered(t)` says that the count is at least its size, and equal to it while nothing has drifted. Every statement of a request moves one element of it at most, or none (`CoveredMore`, `CoveredLess`, `CoveredSame`), because a request counts topics only for a note that has none then (`Emptied`), because the names it still has to count stand for topics of their own (`Distinct`), and because nobody else works on that note (`WritersApart`). The hot list (`HotCalm`): whoever reads it reads it alone, and whoever has counted a topic up is still to clear it.

`Notifications_proofs` (`NotificationsAssumption`: the bounds are counts, the users finitely many):

- `AllNotifiedHolds` and `NoSpuriousHolds`: `Spec => []AllNotified`, `Spec => []NoSpurious`. A row in hand or in the table is of a user its event names, or of one whose check for a block failed (`Allowed`, `Caused`). `AllNotified` speaks of handled entries only, so `NotifyInv` follows a batch through its handler: rows are built from the entries of the stream (`BuiltFromEntries`); what an entry of the batch owes a user is a row in hand until `ExistsPairs` is over, a row in hand or in the table until the INSERT is over, and a row in the table afterwards (`BatchCovered`); and the batch stays undone while the handler works on it (`WorkerOnBatch`), so that nothing counts as handled earlier.
- `BatchImplementsDelivery`: `Group!Spec => Group!ImplementsDelivery`, which is about `BatchConsumer` and so about `RunBatch` with any handler. `BatchInv`: a batch the handler is done with is handled.
- `NotifyImplementsDelivery`: `Spec => ImplementsDelivery`, from the same lemmas with this handler.
- `CountedRightHolds`: `Spec => []CountedRight`, which is about `disturbed` and so about every interleaving of any number of requests of a user with the batch and with each other. `CountInv`: a number with a time to live is that of the unread rows but those which are inserted and not yet added to it, unless a request is between its UPDATE and its DEL (`NumberRight`, `Marked`), and what a request has counted and not yet set is the number of unread rows (`ReaderRight`). `InsertedNumber` says that the INSERT adds to a user's unread rows exactly the rows in hand for him.
- `MessagesRightHolds`: `Talk!Spec => []MessagesRight` for `Messages` (`DraftAssumption`: finitely many drafts; nobody writes to himself, which `message_service.go:47` refuses; the key a client makes up is that of one draft of its sender). The unique index of sender and key leaves one row per draft (`KeysUnique`), whose message every answer names (`AnswersRight`), and what is gone from a conversation is what its owner or a moderator has chosen (`ChoicesKnown`; a deletion in progress knows its side, `SideFound`). `BadgeAddsUp` follows in every state: the unread numbers of the conversations count disjoint sets of messages.
- `TypeCorrect`: the table has one row per event and user (`OneRowEach`). The unique index makes it so: INSERT ... ON CONFLICT leaves out what is there, and the rows in hand are of different pairs (`NewNotThere` once they are about to be written).

`FeedEngine_proofs` (`FeedAssumption`). The properties carry their own conditions: `Regular`
says that no rescorer has run and that no delete matched no row, `Undisturbed` that nothing
ran beside the read loop.

- `NoneForgottenHolds`: `Spec => []NoneForgotten` with the two loops of the group, the flusher and the readers that rebuild the ZSET. `FeedInv` has two cases. `Kept`: every published note is a member or has an event that is due. `Missing`: the ZSET does not exist, nobody has passed the check that it does, and whoever is about to add a list adds every published note without a due event. An event stops being due when it is handled; then its note is a member (`HandledIn`), because a thread that writes has that event in hand (`WorkOnEvent`). A removal takes only what is deleted in the table (`EventsTrue`). The rescorer is excluded because it drops the ZSET after others have found that it exists, and adds single notes without looking whether it does. A delete that matches no row is excluded because its event takes out a note that may still be published.
- `RemovedStaysOutHolds`: `Spec => []RemovedStaysOut` for the read loop alone. `AloneInv`: the other threads rest (`OthersRest`), entries are handled in their order (`InOrder`), a deletion is the last event of its note (`DeletedLast`), and a note whose deletion was handled is neither a member nor in a list that is about to be added (`RemovedOut`).
- `TypeCorrect`: `Spec => []TypeOK`.

`SearchIndex_proofs` (`SearchAssumption`: the bounds are counts):

- `IndexConsistentHolds`: `Spec => []IndexConsistent`, with both loops, failures, lost acks, crashes and redelivery. Events are handled in any order and more than once, so the proof speaks of the events not handled yet (`Open`): a note without one has its document (`ClosedRight`), and what a loop has read is what the table says or there is another open event of that note (`ReadCurrent`), which will read again. The deletion of a note leaves it deleted for good (`DeletedGone`), so that handling an old `note.deleted` once more takes out nothing that should be there; a delete that matches no row would break that, and is in `disturbed`. All this holds while `~disturbed`: a loop that sends a document leaves the other loop without a row of that note in hand.
- `TypeCorrect`: `Spec => []TypeOK`. The text of a note is at most the number of events (`TextsCounted`).

The same module has the theorems about the two modules that `SearchIndexMC` instantiates,
`FeedPages` (`PagesAssumption`: finitely many notes, an order has a note once, it may be that none
is dropped, a page has room for one) and `Lists` (`ListsAssumption`: the bounds are counts and a page
has room for a row):

- `HiddenStaysOutHolds`: `Pages!Spec => []HiddenStaysOut`, for any number of tabs, orders and hides. What is hidden and not forgotten is in the set of Redis but for the hide that has still to add it (`HidesKept`), and it is in no cached page, no ranking and no list a reader has in hand but for what its hide has still to delete (`HidesOut`). A reader that rebuilds the ranking has the note in the set it took out (`OutOf`). It needs `ChangesAlone`: a reader that took the set before the note was added would cache the note after the hide has deleted the pages.
- `WalksExactHolds`: `Pages!Spec /\ Page!Spec => []WalksExact`. For the feed (`WalksRight`): as long as nothing changes there is one sequence `Full`, the order without what is hidden; ranking, cached pages and all that readers have in hand are cut from it, and a walk that goes on at position `k` has shown `Upto(k)`, the notes before it that are not dropped. For the lists (`ListsInv`): what was shown is not below the cursor (`ShownAhead`), and a row that is there from the start was shown once if the cursor has passed it, unless it was skipped (`StableRight`), which happens only where the cursor compares the second alone (`Exceptions`).
- The lemmas under them: `Pages!Without` is a recursive function, and what it keeps is shown by the well-founded order of the numbers, with the set of counterexamples in place of an induction scheme (`UpToAll`, `WithoutOf`, `WithoutConcat`); `RankingBack` says that scores written from a sequence and read back by counting give that sequence.

`SocialGraph_proofs` (`SocialGraphAssumption`: the bounds are counts):

- `TypeCorrect`: what is left of a request is always a rest of the calls of its operation (`Typed`), so that the next call alone says how far it is.
- `FollowsRightHolds`: `Spec => []FollowsRight`, as long as requests that write on the same two users come one after the other, no call of them fails and no user is deleted (`~disturbed`), with any number of look-ups (`Filling`) and expiries. `PairsInv`: one request at most is writing on two users (`OneWriter`); where none is, each set agrees with the rows but for what expired with it or what a look-up filled it with, and no follow crosses a block (`Calm`); a set a look-up has added to stays known as filled until it expires or is empty (`FilledStays`, `FillingKeeps`); where one is, what is already done and what is not is determined by its next call (`Staged`, with one line per call that leaves something half done).
- `BlockEnforcedHolds`: `Spec => []BlockEnforced`, with any number of readers that fill the cached sets at the same time. `MustInv` says what an interaction that has to be refused knows after each of its calls (`Warned`): the other user is in what it has read, or the block is on record and in the cached set it is going to read. Nobody lifts that block meanwhile (`Unlifted`), look-ups do not touch these sets, and a reader in the middle of filling the set cannot take it out again (`SettledStays`).

- `ReportsRightHolds`: `Case!Spec => []ReportsRight` for `Reports` (`ReportsAssumption`: the targets are of the kinds there are, the bounds are counts). Always: nobody of the moderators' rank is about to be banned or removed by request (`Allowed`), and what was acted on is a snapshot of the report (`ActedOn`). Until requests cross (`CaseCalm`): each works on its report, or on the reports of its reporter, alone (`Alone`), so that while a moderator is at work the report stays as he saw it (`Pending`), a reporter files within his quota or again what has been decided (`Open`), and what was acted on and is not yet marked is about to be (`AboutToMark`).

`NoteCache_proofs` (`NoteCacheAssumption`: the bounds are counts):

- `TypeCorrect`: `Spec => []TypeOK`. What is left of a request is always a rest of what its operation does (`Left`), and the next two calls say which (`Coming`).
- `ClearedCorrect`: `Spec => []ClearedFresh` with any number of readers that fill the copies, until a moderator changes the row. `NoteInv` (while `~disturbed`): a request that changes the note is alone (`Alone`), what a request has read, saved or done is what the row says (`Grasps`), and a copy that changes clear is right unless such a request is still before its DEL (`UpToDate`, `Behind`).
- `HistoryCorrect`: `Spec => HistoryKept`, an action property, from the same invariant: at its UPDATE an edit or a restore has saved the text it replaces.
- `AccountsRightHolds`: `Users!Spec => []AccountsRight` for `Accounts` (`AccountsAssumption`: finitely many requests, the bounds are counts). `UsersSafe`: a copy, and what a reader holds, is of a row there was (`CopiesOfRows`), and the unique index keeps names apart. `UsersCalm`, until somebody is looked at while he changes his profile (`UsersApart`) or too many DELs fail (`UsersQuiet`): an old copy is about to be dropped (`OldOnesGo`) and what a reader holds is what the row says (`HoldsRight`).

TLC checks the same statements on the instances of the runs `outbox`,
`consumer_group`, `notifications`, `feed`, `search`, `counter`, `social` and
`note_cache`, and those runs also checked the inductive invariants before they
were proved. Every safety property of a run is proved but those listed next.

Only model-checked: every liveness property (ENABLED and fairness are beyond the
proof system), the four runs that show a violation, and of the run `search`:

- `RankedRight`, about `DiverseRank`: the ranking is built note by note with a fold, and its order compares products of powers, so a proof would need induction over what the fold has seen together with arithmetic that is not linear.
- `TypesOK` as a whole, since it names the types of `DiverseRank` and bounds the ranks by the number of notes. Its part about the index is `TypeCorrect`; the proofs about `FeedPages` and `Lists` have their own typed invariants, `PagesTyped` and `RowsTyped` with `WalkTyped`.

## 5. Plan

What is left, in this order:

1. A stream whose first events are older than the group (`streams.go:71`).
2. Blocks that change while a batch of notifications is built.
3. A proof of `RankedRight`, for which the order has to be stated without products.

## 6. Not modelled

- Login, search by name and tokens: they read and change nothing that is shared. `UpdateUserRole` is one statement.
- The HTTP layer: parsing and status codes. Its cursors are in `Lists`, its caches in the module of what they copy.
- Following topics and suggesting them: single statements without a property of their own.
- Mentions in `note.created`, which the notify handler skips (`main.go:453`), and blocks that change while it works.
- Hide counts per type: they move the order of the feed, which `FeedPages` lets change as it pleases.
- Products above 2^53 in the float64 of a folded score; `RankedRight` has smaller ones.
- Uploads, sanitising, configuration (pure functions and I/O), the event monitor (logging), and the order of shutdown.
