-------------------------- MODULE CounterPipeline --------------------------
(***************************************************************************)
(* The like, favorite and comment counts of a note, end to end: the        *)
(* business transaction (internal/repo/note_repo.go) writes a row and an   *)
(* event, the relay puts the event on the stream, the counter group        *)
(* (counterBatchHandler of cmd/worker/main.go) adds it to a counter in     *)
(* Redis, and the flusher moves the counters to notes.*_count.             *)
(*                                                                         *)
(* The relay is taken at its word (modules Outbox and AtLeastOnce): events *)
(* first appear in commit order, and any of them may appear again.  The    *)
(* group is BatchConsumer: a batch whose handler fails is not retried.     *)
(* Clearing note caches and rescoring after a flush are not part of this   *)
(* module.                                                                 *)
(***************************************************************************)
EXTENDS Integers, Sequences, FiniteSets, Functions

CONSTANTS Note,
          User,
          Kind,        \* subset of {"like", "favorite"}
          Comment,     \* comment ids
          Request,     \* concurrent requests that delete a comment
          Admin,       \* TRUE: moderators delete comments too
          MaxEvent,    \* bound: events in a run
          MaxDup,      \* bound: entries beyond the first of each event
          BatchSize,   \* event.consumer.batch_size
          Fault,       \* the faults that may happen
          MaxFaults    \* bound: faults in a run, each of another kind

ASSUME CounterAssumption ==
  /\ Kind \subseteq {"like", "favorite"}
  /\ Admin \in BOOLEAN
  /\ Fault \subseteq {"crash", "dedupErr", "incrErr", "drainErr",
                      "flushErr", "flushLost", "rollbackErr"}
  /\ MaxEvent \in Nat /\ MaxDup \in Nat /\ MaxFaults \in Nat
  /\ BatchSize \in Nat \ {0}

VARIABLES rows,      \* note_likes and note_favorites: <<kind, user, note>>
          comment,   \* note_comments
          request,   \* DeleteComment transactions between their two statements
          evts,      \* outbox events in commit order
          stream,    \* ids of events, in stream order
          last,      \* last entry delivered to the counter group
          handler,   \* the call of counterBatchHandler in progress
          dedup,     \* cntdedup:<event id> keys (24 h; none expires here)
          redis,     \* counter:<kind>:<note>
          flusher,   \* what flushCounters has drained and not yet written
          count,     \* notes.like_count, favorite_count, comment_count
          faults,    \* the kinds of faults that have happened
          irregular  \* history: a moderator has deleted a comment, or a
                     \* request one that was deleted already

dbVars == <<rows, comment, request, evts>>
streamVars == <<stream, last>>
vars == <<dbVars, streamVars, handler, dedup, redis, flusher, count, faults, irregular>>

Counter == (Kind \cup {"comment"}) \X Note

Zero == [c \in Counter |-> 0]

Plus(f, g) == [c \in Counter |-> f[c] + g[c]]

NoComment == [state |-> "none"]

CommentRow == {NoComment} \cup [state: {"live", "deleted"}, note: Note, top: BOOLEAN]

TypeOK ==
  /\ rows \subseteq Kind \X User \X Note
  /\ comment \in [Comment -> CommentRow]
  /\ request \in [Request -> {<<>>} \cup ({"user", "admin"} \X Comment)]
  /\ evts \in Seq([counter: Counter, delta: -1..1]) /\ Len(evts) <= MaxEvent
  /\ stream \in Seq(DOMAIN evts) /\ last \in 0..Len(stream)
  /\ handler \in [pc: {"idle", "dedup", "incr"}, ids: SUBSET DOMAIN evts]
  /\ dedup \subseteq DOMAIN evts
  /\ redis \in [Counter -> Int]
  /\ flusher \in [busy: BOOLEAN, drained: [Counter -> Int]]
  /\ count \in [Counter -> Int]
  /\ \A n \in Note : count[<<"comment", n>>] >= 0
  /\ faults \subseteq Fault /\ Cardinality(faults) <= MaxFaults
  /\ irregular \in BOOLEAN

Init ==
  /\ rows = {}
  /\ comment = [c \in Comment |-> NoComment]
  /\ request = [q \in Request |-> <<>>]
  /\ evts = <<>>
  /\ stream = <<>>
  /\ last = 0
  /\ handler = [pc |-> "idle", ids |-> {}]
  /\ dedup = {}
  /\ redis = Zero
  /\ flusher = [busy |-> FALSE, drained |-> Zero]
  /\ count = Zero
  /\ faults = {}
  /\ irregular = FALSE

\* A fault of each kind at most once.
Fails(f) ==
  /\ f \in Fault \ faults /\ Cardinality(faults) < MaxFaults
  /\ faults' = faults \cup {f}

\* The event goes into the transaction that changes the row.
Enqueue(counter, delta) ==
  /\ Len(evts) < MaxEvent
  /\ evts' = Append(evts, [counter |-> counter, delta |-> delta])
-----------------------------------------------------------------------------
(***************************************************************************)
(* Business transactions.  A like that exists already (and an unlike of    *)
(* none) changes no row and writes no event.                               *)
(***************************************************************************)
Like(k, u, n) ==
  /\ <<k, u, n>> \notin rows
  /\ rows' = rows \cup {<<k, u, n>>}
  /\ Enqueue(<<k, n>>, 1)
  /\ UNCHANGED <<comment, request, streamVars, handler, dedup, redis, flusher, count, faults, irregular>>

Unlike(k, u, n) ==
  /\ <<k, u, n>> \in rows
  /\ rows' = rows \ {<<k, u, n>>}
  /\ Enqueue(<<k, n>>, -1)
  /\ UNCHANGED <<comment, request, streamVars, handler, dedup, redis, flusher, count, faults, irregular>>

\* Mutant: replies count like comments.
WeightOne(top) == 1

\* Replies carry their parent and do not count.
Weight(top) == IF top THEN 1 ELSE 0

CreateComment(c, n, top) ==
  /\ comment[c] = NoComment
  /\ comment' = [comment EXCEPT ![c] = [state |-> "live", note |-> n, top |-> top]]
  /\ Enqueue(<<"comment", n>>, Weight(top))
  /\ UNCHANGED <<rows, request, streamVars, handler, dedup, redis, flusher, count, faults, irregular>>

\* First statement of DeleteComment, of its author or of a moderator: a
\* plain SELECT of the live row.  Nothing is locked.
SelectComment(q, who, c) ==
  /\ request[q] = <<>>
  /\ comment[c].state = "live"
  /\ who = "admin" => Admin
  /\ request' = [request EXCEPT ![q] = <<who, c>>]
  /\ UNCHANGED <<rows, comment, evts, streamVars, handler, dedup, redis, flusher, count, faults, irregular>>

\* The rest of the author's transaction: UPDATE by id, whatever the status
\* is by now, and the event.
DeleteComment(q) ==
  /\ request[q] # <<>> /\ request[q][1] = "user"
  /\ LET c == request[q][2]
     IN  /\ comment' = [comment EXCEPT ![c].state = "deleted"]
         /\ Enqueue(<<"comment", comment[c].note>>, -Weight(comment[c].top))
  /\ request' = [request EXCEPT ![q] = <<>>]
  /\ irregular' = (irregular \/ comment[request[q][2]].state = "deleted")
  /\ UNCHANGED <<rows, streamVars, handler, dedup, redis, flusher, count, faults>>

\* Mutant: no GREATEST.
AsIs(i) == i

AtLeastZero(i) == IF i < 0 THEN 0 ELSE i

\* The rest of the moderator's transaction: no event, comment_count is
\* decremented in place, not below 0.
DeleteCommentByID(q) ==
  /\ request[q] # <<>> /\ request[q][1] = "admin"
  /\ LET c == request[q][2]
     IN  /\ comment' = [comment EXCEPT ![c].state = "deleted"]
         /\ count' = [count EXCEPT ![<<"comment", comment[c].note>>] =
                        AtLeastZero(@ - Weight(comment[c].top))]
  /\ request' = [request EXCEPT ![q] = <<>>]
  /\ irregular' = TRUE
  /\ UNCHANGED <<rows, evts, streamVars, handler, dedup, redis, flusher, faults>>
-----------------------------------------------------------------------------
(***************************************************************************)
(* The relay, as Outbox and AtLeastOnce describe it.                       *)
(***************************************************************************)
Published == Range(stream)

Publish ==
  /\ \E e \in DOMAIN evts \ Published :
       /\ \A d \in 1..(e - 1) : d \in Published
       /\ stream' = Append(stream, e)
  /\ UNCHANGED <<dbVars, last, handler, dedup, redis, flusher, count, faults, irregular>>

Republish ==
  /\ Len(stream) - Cardinality(Published) < MaxDup
  /\ \E e \in Published : stream' = Append(stream, e)
  /\ UNCHANGED <<dbVars, last, handler, dedup, redis, flusher, count, faults, irregular>>
-----------------------------------------------------------------------------
(***************************************************************************)
(* counterBatchHandler: SETNX of a key per event, then one INCRBY per      *)
(* counter for the events whose key was new.                               *)
(***************************************************************************)
Idle == [pc |-> "idle", ids |-> {}]

ReadGroup ==
  /\ handler.pc = "idle"
  /\ last < Len(stream)
  /\ LET to == IF Len(stream) - last < BatchSize THEN Len(stream) ELSE last + BatchSize
     IN  /\ last' = to
         /\ handler' = [pc |-> "dedup", ids |-> {stream[i] : i \in (last + 1)..to}]
  /\ UNCHANGED <<dbVars, stream, dedup, redis, flusher, count, faults, irregular>>

\* Mutant: the keys are set and the answer is not looked at.
SetNXManyIgnored ==
  /\ handler.pc = "dedup"
  /\ handler' = [handler EXCEPT !.pc = "incr"]
  /\ dedup' = dedup \cup handler.ids
  /\ UNCHANGED <<dbVars, streamVars, redis, flusher, count, faults, irregular>>

SetNXMany ==
  /\ handler.pc = "dedup"
  /\ handler' = [pc |-> "incr", ids |-> handler.ids \ dedup]
  /\ dedup' = dedup \cup handler.ids
  /\ UNCHANGED <<dbVars, streamVars, redis, flusher, count, faults, irregular>>

\* Those of the events S that change counter c by d.
Changing(S, c, d) == {e \in S : evts[e] = [counter |-> c, delta |-> d]}

\* Sum of the deltas of the events S for each counter; a delta is -1, 0 or 1.
Deltas(S) ==
  [c \in Counter |-> Cardinality(Changing(S, c, 1)) - Cardinality(Changing(S, c, -1))]

\* The batch is acked.
IncrByMany ==
  /\ handler.pc = "incr"
  /\ redis' = Plus(redis, Deltas(handler.ids))
  /\ handler' = Idle
  /\ UNCHANGED <<dbVars, streamVars, dedup, flusher, count, faults, irregular>>

\* Either pipeline returns an error with some of its commands executed: the
\* batch is not acked and never comes back.
SetNXManyFail ==
  /\ handler.pc = "dedup"
  /\ Fails("dedupErr")
  /\ \E S \in SUBSET handler.ids : dedup' = dedup \cup S
  /\ handler' = Idle
  /\ UNCHANGED <<dbVars, streamVars, redis, flusher, count, irregular>>

IncrByManyFail ==
  /\ handler.pc = "incr"
  /\ Fails("incrErr")
  /\ \E S \in SUBSET Counter :
       redis' = [c \in Counter |->
                   redis[c] + IF c \in S THEN Deltas(handler.ids)[c] ELSE 0]
  /\ handler' = Idle
  /\ UNCHANGED <<dbVars, streamVars, dedup, flusher, count, irregular>>
-----------------------------------------------------------------------------
(***************************************************************************)
(* flushCounters: one atomic script reads a chunk of counters and resets   *)
(* them, one UPDATE adds what it read to the notes.  K is the chunk; SCAN  *)
(* may miss counters.                                                      *)
(***************************************************************************)
NotFlushing == [busy |-> FALSE, drained |-> Zero]

Drained(K) == [c \in Counter |-> IF c \in K THEN redis[c] ELSE 0]

\* Mutant: the script does not reset what it has read.
NoReset(K) == UNCHANGED redis

Reset(K) == redis' = [c \in Counter |-> IF c \in K THEN 0 ELSE redis[c]]

DrainCounters(K) ==
  /\ ~flusher.busy
  /\ \E c \in K : redis[c] # 0
  /\ flusher' = [busy |-> TRUE, drained |-> Drained(K)]
  /\ Reset(K)
  /\ UNCHANGED <<dbVars, streamVars, handler, dedup, count, faults, irregular>>

\* A round that finds nothing to write.
DrainNothing ==
  /\ ~flusher.busy
  /\ redis = Zero
  /\ UNCHANGED vars

\* The script ran and its reply is lost.
DrainCountersFail(K) ==
  /\ ~flusher.busy
  /\ \E c \in K : redis[c] # 0
  /\ Reset(K)
  /\ Fails("drainErr")
  /\ UNCHANGED <<dbVars, streamVars, handler, dedup, flusher, count, irregular>>

\* The UPDATE: comment_count alone is kept from going below 0.
Added ==
  [c \in Counter |->
     IF c[1] = "comment" THEN AtLeastZero(count[c] + flusher.drained[c])
                         ELSE count[c] + flusher.drained[c]]

BatchAddCounters ==
  /\ flusher.busy
  /\ count' = Added
  /\ flusher' = NotFlushing
  /\ UNCHANGED <<dbVars, streamVars, handler, dedup, redis, faults, irregular>>

\* Mutant: no rollback.
BatchAddCountersDrop ==
  /\ flusher.busy
  /\ Fails("flushErr")
  /\ flusher' = NotFlushing
  /\ UNCHANGED <<dbVars, streamVars, handler, dedup, redis, count, irregular>>

\* The UPDATE fails: rollbackCounters adds what was drained back.
BatchAddCountersFail ==
  /\ flusher.busy
  /\ Fails("flushErr")
  /\ redis' = Plus(redis, flusher.drained)
  /\ flusher' = NotFlushing
  /\ UNCHANGED <<dbVars, streamVars, handler, dedup, count, irregular>>

\* The UPDATE is committed, the connection breaks before the answer.
BatchAddCountersLost ==
  /\ flusher.busy
  /\ Fails("flushLost")
  /\ count' = Added
  /\ redis' = Plus(redis, flusher.drained)
  /\ flusher' = NotFlushing
  /\ UNCHANGED <<dbVars, streamVars, handler, dedup, irregular>>

\* The UPDATE fails and so do some INCRBYs of the rollback; their errors
\* are discarded.
RollbackFail ==
  /\ flusher.busy
  /\ Fails("rollbackErr")
  /\ \E S \in SUBSET Counter :
       redis' = [c \in Counter |->
                   redis[c] + IF c \in S THEN flusher.drained[c] ELSE 0]
  /\ flusher' = NotFlushing
  /\ UNCHANGED <<dbVars, streamVars, handler, dedup, count, irregular>>

\* The worker dies and is restarted: what the handler and the flusher held
\* is gone.
Crash ==
  /\ handler.pc # "idle" \/ flusher.busy
  /\ Fails("crash")
  /\ handler' = Idle
  /\ flusher' = NotFlushing
  /\ UNCHANGED <<dbVars, streamVars, dedup, redis, count, irregular>>
-----------------------------------------------------------------------------
Api ==
  \/ \E k \in Kind, u \in User, n \in Note : Like(k, u, n) \/ Unlike(k, u, n)
  \/ \E c \in Comment, n \in Note, top \in BOOLEAN : CreateComment(c, n, top)
  \/ \E q \in Request, c \in Comment, who \in {"user", "admin"} : SelectComment(q, who, c)
  \/ \E q \in Request : DeleteComment(q) \/ DeleteCommentByID(q)

Drain == \E K \in SUBSET Counter : DrainCounters(K)

HandlerStep == ReadGroup \/ SetNXMany \/ IncrByMany

WorkerFault ==
  \/ SetNXManyFail \/ IncrByManyFail
  \/ \E K \in SUBSET Counter : DrainCountersFail(K)
  \/ BatchAddCountersFail \/ BatchAddCountersLost \/ RollbackFail
  \/ Crash

Next ==
  \/ Api
  \/ Publish \/ Republish
  \/ HandlerStep
  \/ Drain \/ DrainNothing \/ BatchAddCounters
  \/ WorkerFault

Spec == Init /\ [][Next]_vars

\* Every counter is scanned again and again, the loops of the worker run.
Fairness ==
  /\ WF_vars(Publish)
  /\ WF_vars(HandlerStep)
  /\ WF_vars(BatchAddCounters)
  /\ WF_vars(DrainCounters(Counter))

FairSpec == Spec /\ Fairness
-----------------------------------------------------------------------------
\* What counter c counts.
Counted(c) ==
  IF c[1] = "comment"
  THEN {x \in Comment : /\ comment[x].state = "live"
                        /\ comment[x].top
                        /\ comment[x].note = c[2]}
  ELSE {u \in User : <<c[1], u, c[2]>> \in rows}

Rows(c) == Cardinality(Counted(c))

\* Events the handler is about to add to Redis.
Held == IF handler.pc = "incr" THEN handler.ids ELSE {}

\* Events on their way to Redis.
Uncounted == (DOMAIN evts \ dedup) \cup Held

InRedisOrBeyond(c) == count[c] + redis[c] + flusher.drained[c]

\* At worst a flush has failed and was rolled back.
NothingAmiss == ~irregular /\ faults \subseteq {"flushErr"}

(***************************************************************************)
(* Nothing is lost and nothing is counted twice on the way: the rows of a  *)
(* note are its count in MySQL, plus what waits in Redis or in the         *)
(* flusher, plus the events that have not got there.  In particular a      *)
(* failed flush gives back what it drained ("no count is lost", comment at *)
(* cmd/worker/main.go:259), and redelivered events do not count again.     *)
(* This holds as long as no comment is deleted twice or by a moderator and *)
(* nothing but a flush fails.                                              *)
(***************************************************************************)
Conserved ==
  NothingAmiss => \A c \in Counter : Rows(c) = InRedisOrBeyond(c) + Deltas(Uncounted)[c]

(***************************************************************************)
(* Whatever fails short of a flush whose outcome is unknown, and whoever   *)
(* deletes what, no event is counted more than once: redelivery,           *)
(* half-executed pipelines and crashes only ever lose counts               *)
(* (counterBatchHandler, main.go:300-365).                                 *)
(***************************************************************************)
NoDoubleCount ==
  "flushLost" \notin faults =>
    \A c \in Counter :
      LET seen(d) == Cardinality(Changing(dedup, c, d))
      IN  InRedisOrBeyond(c) \in -seen(-1)..seen(1)

(***************************************************************************)
(* Once users stop, every count in MySQL becomes and stays what the rows   *)
(* say ("counts are eventually consistent, nothing lost, nothing           *)
(* duplicated", docs of the load tests; main.go:199-271).                  *)
(***************************************************************************)
EventuallyExact == \A c \in Counter : <>[](count[c] = Rows(c))
=============================================================================
