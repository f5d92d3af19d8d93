------------------------------- MODULE Outbox -------------------------------
(***************************************************************************)
(* The transactional outbox and its relay (internal/outbox/outbox.go,      *)
(* PublishBatch of internal/queue/streams.go).  A business transaction     *)
(* inserts a row of outbox_events; relay instances poll the table, XADD    *)
(* what they find to the Redis stream and mark the rows published.         *)
(*                                                                         *)
(* An event is its AUTO_INCREMENT id.  Its entity is the business row the  *)
(* same transaction locks (a like, a note, a comment): transactions on one *)
(* entity run one after another, so their ids are in commit order;         *)
(* transactions on different entities commit in any order.                 *)
(*                                                                         *)
(* The attempts column is written and never read by the program: it is     *)
(* left out.  Rows with a payload that does not parse cannot come from     *)
(* EnqueueTx and are left out too.                                         *)
(***************************************************************************)
EXTENDS Naturals, Sequences, FiniteSets, Functions

CONSTANTS MaxEvent,    \* bound: events inserted in a run
          Entity,      \* business rows
          Relay,       \* relay instances (one per worker process)
          BatchSize,   \* event.relay.batch_size
          MaxFaults    \* bound: failed publishes, failed marks and crashes

ASSUME OutboxAssumption ==
  /\ MaxEvent \in Nat
  /\ BatchSize \in Nat \ {0}
  /\ MaxFaults \in Nat

Event == 1..MaxEvent

VARIABLES row,      \* row[e]: state of the outbox row with id e
          entity,   \* entity[e]: business row the transaction of e locks
          stream,   \* the Redis stream xfeed:events, oldest entry first
          relay,    \* relay[r]: control state, claimed batch, events sent
          active,   \* relays that have claimed rows so far (a history)
          faults    \* faults so far

vars == <<row, entity, stream, relay, active, faults>>

RowState == {"absent", "open", "rolledback", "pending", "published"}

RelayState == [pc: {"idle", "locked", "publishing", "marking"},
               batch: SUBSET Event,
               sent: SUBSET Event]

Idle == [pc |-> "idle", batch |-> {}, sent |-> {}]

Least(e, S) == e \in S /\ \A d \in S : e <= d

TypeOK ==
  /\ row \in [Event -> RowState]
  /\ entity \in [Event -> Entity]
  /\ stream \in Seq(Event)
  /\ relay \in [Relay -> RelayState]
  /\ active \subseteq Relay
  /\ faults \in 0..MaxFaults

Init ==
  /\ row = [e \in Event |-> "absent"]
  /\ entity \in [Event -> Entity]
  /\ stream = <<>>
  /\ relay = [r \in Relay |-> Idle]
  /\ active = {}
  /\ faults = 0

Committed == {e \in Event : row[e] \in {"pending", "published"}}

InStream == Range(stream)
-----------------------------------------------------------------------------
(***************************************************************************)
(* Business transactions (EnqueueTx inside db.Transaction).  The insert    *)
(* takes the next id; the row lock on the entity is held until the         *)
(* transaction ends.                                                       *)
(***************************************************************************)
EnqueueTx(e) ==
  /\ row[e] = "absent"
  /\ \A d \in Event : d < e => row[d] # "absent"
  /\ \A d \in Event : entity[d] = entity[e] => row[d] # "open"
  /\ row' = [row EXCEPT ![e] = "open"]
  /\ UNCHANGED <<entity, stream, relay, active, faults>>

CommitTx(e) ==
  /\ row[e] = "open"
  /\ row' = [row EXCEPT ![e] = "pending"]
  /\ UNCHANGED <<entity, stream, relay, active, faults>>

RollbackTx(e) ==
  /\ row[e] = "open"
  /\ row' = [row EXCEPT ![e] = "rolledback"]
  /\ UNCHANGED <<entity, stream, relay, active, faults>>
-----------------------------------------------------------------------------
(***************************************************************************)
(* The relay.  Claim locks the first BatchSize pending rows nobody has     *)
(* locked (SKIP LOCKED); its transaction ends before anything is           *)
(* published, and that releases the locks.                                 *)
(***************************************************************************)
LockedRows == UNION {relay[r].batch : r \in {q \in Relay : relay[q].pc = "locked"}}

\* Mutant: the claim reads rows of transactions that have not ended.
ClaimableDirty == {e \in Event : row[e] \in {"open", "pending"}} \ LockedRows

Claimable == {e \in Event : row[e] = "pending"} \ LockedRows

\* Mutant: ORDER BY id DESC.
FirstOfDescending(S) == {e \in S : Cardinality({d \in S : d > e}) < BatchSize}

\* ORDER BY id LIMIT BatchSize.
FirstOf(S) == {e \in S : Cardinality({d \in S : d < e}) < BatchSize}

\* Mutant: the claim itself marks the rows, before they are on the stream.
ClaimAndMark(r) ==
  /\ relay[r].pc = "idle"
  /\ Claimable # {}
  /\ relay' = [relay EXCEPT ![r] =
                 [pc |-> "locked", batch |-> FirstOf(Claimable), sent |-> {}]]
  /\ row' = [e \in Event |-> IF e \in FirstOf(Claimable) THEN "published" ELSE row[e]]
  /\ active' = active \cup {r}
  /\ UNCHANGED <<entity, stream, faults>>

ClaimLock(r) ==
  /\ relay[r].pc = "idle"
  /\ Claimable # {}
  /\ relay' = [relay EXCEPT ![r] =
                 [pc |-> "locked", batch |-> FirstOf(Claimable), sent |-> {}]]
  /\ active' = active \cup {r}
  /\ UNCHANGED <<row, entity, stream, faults>>

\* A tick that finds no row.
ClaimNothing(r) ==
  /\ relay[r].pc = "idle"
  /\ Claimable = {}
  /\ UNCHANGED vars

ClaimCommit(r) ==
  /\ relay[r].pc = "locked"
  /\ relay' = [relay EXCEPT ![r].pc = "publishing"]
  /\ UNCHANGED <<row, entity, stream, active, faults>>

\* PublishBatch is a pipeline, not a transaction: Redis runs its XADDs one
\* by one, those of another relay in between.
XAdd(r) ==
  /\ relay[r].pc = "publishing"
  /\ \E e \in Event :
       /\ Least(e, relay[r].batch \ relay[r].sent)
       /\ stream' = Append(stream, e)
       /\ relay' = [relay EXCEPT ![r].sent = @ \cup {e}]
  /\ UNCHANGED <<row, entity, active, faults>>

PublishOk(r) ==
  /\ relay[r].pc = "publishing"
  /\ relay[r].batch = relay[r].sent
  /\ relay' = [relay EXCEPT ![r].pc = "marking"]
  /\ UNCHANGED <<row, entity, stream, active, faults>>

Fault == faults < MaxFaults /\ faults' = faults + 1

\* Mutant: no continue after a failed publish.
PublishFailGoesOn(r) ==
  /\ relay[r].pc = "publishing"
  /\ relay' = [relay EXCEPT ![r].pc = "marking"]
  /\ Fault
  /\ UNCHANGED <<row, entity, stream, active>>

\* Exec returns an error with any prefix of the pipeline executed, all of it
\* included (the reply is lost): the whole batch stays pending.
PublishFail(r) ==
  /\ relay[r].pc = "publishing"
  /\ relay' = [relay EXCEPT ![r] = Idle]
  /\ Fault
  /\ UNCHANGED <<row, entity, stream, active>>

\* Mutant: the loop over the batch stops one event short.
MarkAllButLast(r) ==
  /\ relay[r].pc = "marking"
  /\ row' = [e \in Event |->
               IF \E d \in relay[r].batch : e \in relay[r].batch /\ e < d
               THEN "published" ELSE row[e]]
  /\ relay' = [relay EXCEPT ![r] = Idle]
  /\ UNCHANGED <<entity, stream, active, faults>>

\* Mutant: the UPDATE writes a status the table does not have.
MarkWrongStatus(r) ==
  /\ relay[r].pc = "marking"
  /\ row' = [e \in Event |-> IF e \in relay[r].batch THEN "claimed" ELSE row[e]]
  /\ relay' = [relay EXCEPT ![r] = Idle]
  /\ UNCHANGED <<entity, stream, active, faults>>

\* The UPDATE waits for rows a claiming transaction has locked.
MarkPublishedBatch(r) ==
  /\ relay[r].pc = "marking"
  /\ relay[r].batch \cap LockedRows = {}
  /\ row' = [e \in Event |-> IF e \in relay[r].batch THEN "published" ELSE row[e]]
  /\ relay' = [relay EXCEPT ![r] = Idle]
  /\ UNCHANGED <<entity, stream, active, faults>>

\* The error of the UPDATE is discarded.
MarkFail(r) ==
  /\ relay[r].pc = "marking"
  /\ relay' = [relay EXCEPT ![r] = Idle]
  /\ Fault
  /\ UNCHANGED <<row, entity, stream, active>>

\* The process dies and is restarted: batch and locks are gone, table and
\* stream remain.
Crash(r) ==
  /\ relay[r].pc # "idle"
  /\ relay' = [relay EXCEPT ![r] = Idle]
  /\ Fault
  /\ UNCHANGED <<row, entity, stream, active>>
-----------------------------------------------------------------------------
Tx(e) == EnqueueTx(e) \/ CommitTx(e) \/ RollbackTx(e)

RelayStep(r) ==
  \/ ClaimLock(r) \/ ClaimNothing(r) \/ ClaimCommit(r)
  \/ XAdd(r) \/ PublishOk(r) \/ MarkPublishedBatch(r)

RelayFault(r) == PublishFail(r) \/ MarkFail(r) \/ Crash(r)

Next ==
  \/ \E e \in Event : Tx(e)
  \/ \E r \in Relay : RelayStep(r) \/ RelayFault(r)

Spec == Init /\ [][Next]_vars

\* The ticker keeps a relay running; users need not do anything.
FairSpec == Spec /\ WF_vars(\E r \in Relay : RelayStep(r))
-----------------------------------------------------------------------------
ALO == INSTANCE AtLeastOnce
         WITH committed <- Committed,
              log <- stream,
              retired <- {e \in Event : row[e] = "published"}

(***************************************************************************)
(* The outbox and its relays implement the at-least-once log: whatever     *)
(* batch fails halfway, only committed events are on the stream, and a row *)
(* is marked published only after its XADD (outbox.go:119-142).            *)
(***************************************************************************)
ImplementsAtLeastOnce == ALO!AbsSafety

(***************************************************************************)
(* Every committed event reaches the stream, as long as the faults stop    *)
(* and the relays keep polling (Relay.Run, outbox.go:93-145).              *)
(***************************************************************************)
EventuallyDelivered == ALO!EventuallyDelivered

(***************************************************************************)
(* A row the relay will not look at again is on the stream: a failed       *)
(* publish, a lost reply or a crash between XADD and UPDATE never loses an *)
(* event (Relay.Run, outbox.go:119-142).                                   *)
(***************************************************************************)
PublishedOnStream == \A e \in Event : row[e] = "published" => e \in InStream

\* One relay, at most, has worked so far.
SingleRelay == \A r, q \in active : r = q

(***************************************************************************)
(* The first entry of an event comes after an entry of every earlier       *)
(* committed event on the same business row: unlike after like, deleted    *)
(* after created.  The handlers behind the stream rely on it.  It is the   *)
(* ORDER BY of Claim (outbox.go:56-66) and the retry of whole batches that *)
(* make it so, and it needs a single relay: a second one that skips locked *)
(* rows publishes ahead of the first.                                      *)
(***************************************************************************)
EntityOrder ==
  SingleRelay =>
    \A i \in DOMAIN stream : \A d \in Committed :
      /\ d < stream[i]
      /\ entity[d] = entity[stream[i]]
      => \E j \in DOMAIN stream : j < i /\ stream[j] = d

(***************************************************************************)
(* As long as nothing fails, a single relay puts no event on the stream    *)
(* twice: what it claims again it has marked published before              *)
(* (outbox.go:93-145).                                                     *)
(***************************************************************************)
NoDuplicateEntry ==
  SingleRelay /\ faults = 0 =>
    \A i, j \in DOMAIN stream : stream[i] = stream[j] => i = j

(***************************************************************************)
(* "SKIP LOCKED lets several relay instances claim concurrently without    *)
(* conflict" (comment on Claim, outbox.go:55): no two relays work on one   *)
(* event at the same time.                                                 *)
(***************************************************************************)
ClaimsDisjoint ==
  \A r, q \in Relay : r # q => relay[r].batch \cap relay[q].batch = {}
=============================================================================
