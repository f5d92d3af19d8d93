---------------------------- MODULE Outbox_proofs ----------------------------
(***************************************************************************)
(* Proofs about the outbox and its relays, for every number of events,     *)
(* entities and relays, every batch size and every number of faults.       *)
(***************************************************************************)
EXTENDS Outbox, FiniteSetTheorems, TLAPS

(***************************************************************************)
(* The inductive invariants.  A relay has sent only events that are on the *)
(* stream, it marks a batch only when it has sent all of it, and it claims *)
(* only what was committed.                                                *)
(***************************************************************************)
SentOnStream == \A r \in Relay : relay[r].sent \subseteq InStream

MarksWhatItSent ==
  \A r \in Relay : relay[r].pc = "marking" => relay[r].batch = relay[r].sent

BatchCommitted == \A r \in Relay : relay[r].batch \subseteq Committed

OnlyCommittedOnStream == InStream \subseteq Committed

DeliveryInv ==
  /\ SentOnStream
  /\ MarksWhatItSent
  /\ BatchCommitted
  /\ OnlyCommittedOnStream
  /\ PublishedOnStream

(***************************************************************************)
(* For EntityOrder: the transactions of an entity end in the order of      *)
(* their ids, and a relay that holds an event holds every earlier event of *)
(* the entity that is not on the stream yet.                               *)
(***************************************************************************)
EarlierEnded ==
  \A d, e \in Event :
    d < e /\ entity[d] = entity[e] /\ row[e] # "absent"
      => row[d] \in {"rolledback", "pending", "published"}

BatchClosed ==
  \A r \in Relay : \A e \in relay[r].batch : \A d \in Committed :
    d < e /\ entity[d] = entity[e] => d \in relay[r].batch \cup InStream

\* A relay that is between two batches, or has claimed nothing yet, holds
\* nothing.
OthersIdle ==
  \A r \in Relay : r \notin active \/ relay[r].pc = "idle" => relay[r] = Idle

(***************************************************************************)
(* For NoDuplicateEntry: what is on the stream is published or was sent by *)
(* a relay that has not marked it yet, and a batch in hand is not          *)
(* published.                                                              *)
(***************************************************************************)
StreamAccounted ==
  \A e \in InStream : row[e] = "published" \/ \E r \in Relay : e \in relay[r].sent

BatchUnpublished == \A r \in Relay : \A e \in relay[r].batch : row[e] # "published"

SentOfBatch == \A r \in Relay : relay[r].sent \subseteq relay[r].batch

NoEntryTwice == \A i, j \in DOMAIN stream : stream[i] = stream[j] => i = j
-----------------------------------------------------------------------------
(***************************************************************************)
(* Helper facts.                                                           *)
(***************************************************************************)

\* Appending an entry (XADD) adds exactly that entry to the stream.
LEMMA RangeAppend ==
  ASSUME NEW S, NEW s \in Seq(S), NEW e \in S
  PROVE  /\ Append(s, e) \in Seq(S)
         /\ Range(Append(s, e)) = Range(s) \cup {e}
         /\ DOMAIN Append(s, e) = DOMAIN s \cup {Len(s) + 1}
         /\ Append(s, e)[Len(s) + 1] = e
         /\ \A i \in DOMAIN s : Append(s, e)[i] = s[i] /\ i < Len(s) + 1
  <1>1. DOMAIN Append(s, e) = DOMAIN s \cup {Len(s) + 1}  OBVIOUS
  <1>2. \A i \in DOMAIN s : Append(s, e)[i] = s[i]  OBVIOUS
  <1>3. Append(s, e)[Len(s) + 1] = e  OBVIOUS
  <1>4. Range(Append(s, e)) = Range(s) \cup {e}
    BY <1>1, <1>2, <1>3 DEF Range
  <1> QED BY <1>1, <1>2, <1>3, <1>4

\* A claimed batch is part of what could be claimed, and it leaves out no
\* event that comes before one it holds.
LEMMA FirstOfClosed ==
  ASSUME NEW S \in SUBSET Event
  PROVE  /\ FirstOf(S) \subseteq S
         /\ \A e \in FirstOf(S) : \A d \in S : d < e => d \in FirstOf(S)
  <1>1. FirstOf(S) \subseteq S  BY DEF FirstOf
  <1>2. ASSUME NEW e \in FirstOf(S), NEW d \in S, d < e
        PROVE  d \in FirstOf(S)
    <2> DEFINE Before(n) == {x \in S : x < n}
    <2>1. IsFiniteSet(Before(e)) /\ IsFiniteSet(Before(d))
      <3>1. S \subseteq 1..MaxEvent  BY DEF Event
      <3>2. IsFiniteSet(1..MaxEvent)
        <4>1. 1 \in Int /\ MaxEvent \in Int  BY OutboxAssumption
        <4> QED BY <4>1, FS_Interval
      <3>3. IsFiniteSet(S)
        BY <3>1, <3>2, FS_Subset
      <3> QED BY <3>3, FS_Subset
    <2>2. Before(d) \subseteq Before(e)
      <3>1. \A x \in S : x < d => x < e
        <4>1. \A n \in Event : n \in Nat  BY OutboxAssumption DEF Event
        <4>2. e \in S  BY <1>1
        <4> QED BY <1>2, <4>1, <4>2
      <3> QED BY <3>1
    <2>3. Cardinality(Before(d)) <= Cardinality(Before(e))
      BY <2>1, <2>2, FS_Subset
    <2>4. Cardinality(Before(e)) < BatchSize
      BY <1>2 DEF FirstOf
    <2>5. Cardinality(Before(d)) \in Nat /\ Cardinality(Before(e)) \in Nat
      BY <2>1, FS_CardinalityType
    <2>6. Cardinality(Before(d)) < BatchSize
      BY <2>3, <2>4, <2>5, OutboxAssumption
    <2> QED BY <2>6, <1>2 DEF FirstOf
  <1> QED BY <1>1, <1>2
-----------------------------------------------------------------------------
(***************************************************************************)
(* Type correctness.                                                       *)
(***************************************************************************)

\* Every reachable state is well typed, however many relays and events.
THEOREM TypeCorrect == Spec => []TypeOK
  <1>1. Init => TypeOK
    BY OutboxAssumption DEF Init, TypeOK, RowState, RelayState, Idle
  <1>2. TypeOK /\ [Next]_vars => TypeOK'
    <2> SUFFICES ASSUME TypeOK, [Next]_vars  PROVE TypeOK'
      OBVIOUS
    <2> USE DEF TypeOK, RowState, RelayState
    <2>1. ASSUME NEW e \in Event, EnqueueTx(e) PROVE TypeOK'
      BY <2>1 DEF EnqueueTx
    <2>2. ASSUME NEW e \in Event, CommitTx(e) PROVE TypeOK'
      BY <2>2 DEF CommitTx
    <2>3. ASSUME NEW e \in Event, RollbackTx(e) PROVE TypeOK'
      BY <2>3 DEF RollbackTx
    <2>4. ASSUME NEW r \in Relay, ClaimLock(r) PROVE TypeOK'
      <3>1. FirstOf(Claimable) \subseteq Event
        BY FirstOfClosed DEF Claimable
      <3> QED BY <2>4, <3>1 DEF ClaimLock
    <2>5. ASSUME NEW r \in Relay, ClaimCommit(r) PROVE TypeOK'
      BY <2>5 DEF ClaimCommit
    <2>6. ASSUME NEW r \in Relay, XAdd(r) PROVE TypeOK'
      <3>1. PICK e \in Event :
              /\ stream' = Append(stream, e)
              /\ relay' = [relay EXCEPT ![r].sent = @ \cup {e}]
        BY <2>6 DEF XAdd
      <3>2. stream' \in Seq(Event)  BY <3>1, RangeAppend
      <3> QED BY <2>6, <3>1, <3>2 DEF XAdd
    <2>7. ASSUME NEW r \in Relay, PublishOk(r) PROVE TypeOK'
      BY <2>7 DEF PublishOk
    <2>8. ASSUME NEW r \in Relay, MarkPublishedBatch(r) PROVE TypeOK'
      BY <2>8 DEF MarkPublishedBatch, Idle
    <2>9. ASSUME NEW r \in Relay, RelayFault(r) PROVE TypeOK'
      BY <2>9, OutboxAssumption
         DEF RelayFault, PublishFail, MarkFail, Crash, Fault, Idle
    <2>10. CASE UNCHANGED vars
      BY <2>10 DEF vars
    <2> QED
      BY <2>1, <2>2, <2>3, <2>4, <2>5, <2>6, <2>7, <2>8, <2>9, <2>10
         DEF Next, Tx, RelayStep, ClaimNothing
  <1> QED BY <1>1, <1>2, PTL DEF Spec
-----------------------------------------------------------------------------
(***************************************************************************)
(* Nothing is lost between the table and the stream, and nothing else gets *)
(* on it.                                                                  *)
(***************************************************************************)
LEMMA DeliveryStep == TypeOK /\ DeliveryInv /\ [Next]_vars => DeliveryInv'
  <1> SUFFICES ASSUME TypeOK, DeliveryInv, [Next]_vars  PROVE DeliveryInv'
    OBVIOUS
  <1> USE DEF DeliveryInv, SentOnStream, MarksWhatItSent, BatchCommitted,
              OnlyCommittedOnStream, PublishedOnStream, TypeOK, RelayState
  <1>1. ASSUME NEW e \in Event, Tx(e) PROVE DeliveryInv'
    <2>1. UNCHANGED <<stream, relay>> /\ Committed \subseteq Committed'
      BY <1>1 DEF Tx, EnqueueTx, CommitTx, RollbackTx, Committed
    <2>2. \A d \in Event : row'[d] = "published" => row[d] = "published"
      BY <1>1 DEF Tx, EnqueueTx, CommitTx, RollbackTx
    <2> QED BY <2>1, <2>2 DEF InStream
  <1>2. ASSUME NEW r \in Relay, ClaimLock(r) PROVE DeliveryInv'
    <2>1. FirstOf(Claimable) \subseteq Committed
      BY FirstOfClosed DEF Claimable, Committed
    <2> QED BY <1>2, <2>1 DEF ClaimLock, Committed, InStream
  <1>3. ASSUME NEW r \in Relay, ClaimCommit(r) PROVE DeliveryInv'
    BY <1>3 DEF ClaimCommit, Committed, InStream
  <1>4. ASSUME NEW r \in Relay, XAdd(r) PROVE DeliveryInv'
    <2>1. PICK e \in Event :
            /\ e \in relay[r].batch
            /\ stream' = Append(stream, e)
            /\ relay' = [relay EXCEPT ![r].sent = @ \cup {e}]
      BY <1>4 DEF XAdd, Least
    <2>2. InStream' = InStream \cup {e}
      BY <2>1, RangeAppend DEF InStream
    <2>3. Committed' = Committed /\ row' = row
      BY <1>4 DEF XAdd, Committed
    <2>4. relay[r].pc = "publishing"
      BY <1>4 DEF XAdd
    <2> QED BY <2>1, <2>2, <2>3, <2>4
  <1>5. ASSUME NEW r \in Relay, PublishOk(r) PROVE DeliveryInv'
    BY <1>5 DEF PublishOk, Committed, InStream
  <1>6. ASSUME NEW r \in Relay, MarkPublishedBatch(r) PROVE DeliveryInv'
    <2>1. relay[r].batch \subseteq InStream
      BY <1>6 DEF MarkPublishedBatch
    <2>2. Committed' = Committed /\ InStream' = InStream
      BY <1>6 DEF MarkPublishedBatch, Committed, InStream
    <2> QED BY <1>6, <2>1, <2>2 DEF MarkPublishedBatch, Idle
  <1>7. ASSUME NEW r \in Relay, RelayFault(r) PROVE DeliveryInv'
    <2>1. relay' = [relay EXCEPT ![r] = Idle] /\ UNCHANGED <<row, stream>>
      BY <1>7 DEF RelayFault, PublishFail, MarkFail, Crash
    <2>2. Committed' = Committed /\ InStream' = InStream
      BY <2>1 DEF Committed, InStream
    <2> QED BY <2>1, <2>2 DEF Idle
  <1>8. CASE UNCHANGED vars
    BY <1>8 DEF vars, Committed, InStream
  <1> QED
    BY <1>1, <1>2, <1>3, <1>4, <1>5, <1>6, <1>7, <1>8
       DEF Next, RelayStep, ClaimNothing

LEMMA DeliveryInvariant == Spec => []DeliveryInv
  <1>1. Init => DeliveryInv
    BY DEF Init, DeliveryInv, SentOnStream, MarksWhatItSent, BatchCommitted,
           OnlyCommittedOnStream, PublishedOnStream, InStream, Committed, Range, Idle
  <1> QED BY <1>1, DeliveryStep, TypeCorrect, PTL DEF Spec

(***************************************************************************)
(* An event is marked published only once it is on the stream, whatever    *)
(* publishes, updates and processes fail (outbox.go:119-142).              *)
(***************************************************************************)
THEOREM PublishedOnStreamHolds == Spec => []PublishedOnStream
  <1>1. DeliveryInv => PublishedOnStream  BY DEF DeliveryInv
  <1> QED BY <1>1, DeliveryInvariant, PTL
-----------------------------------------------------------------------------
(***************************************************************************)
(* The outbox implements the at-least-once log: every initial state and    *)
(* every step of it maps to one of AtLeastOnce.                            *)
(***************************************************************************)
LEMMA StepRefines ==
  ASSUME TypeOK, DeliveryInv, [Next]_vars
  PROVE  [ALO!AbsNext]_(ALO!absvars)
  <1> DEFINE Retired == {e \in Event : row[e] = "published"}
  <1> USE DEF TypeOK, RelayState, RowState
  <1>1. ASSUME NEW e \in Event, EnqueueTx(e) \/ RollbackTx(e)
        PROVE  UNCHANGED <<Committed, stream, Retired>>
    BY <1>1 DEF EnqueueTx, RollbackTx, Committed
  <1>2. ASSUME NEW e \in Event, CommitTx(e)
        PROVE  ALO!CommitEvent(e)
    <2>1. e \notin Committed /\ Committed' = Committed \cup {e}
      BY <1>2 DEF CommitTx, Committed
    <2>2. UNCHANGED <<stream, Retired>>
      BY <1>2 DEF CommitTx
    <2> QED BY <2>1, <2>2 DEF ALO!CommitEvent
  <1>3. ASSUME NEW r \in Relay,
               ClaimLock(r) \/ ClaimCommit(r) \/ PublishOk(r) \/ RelayFault(r)
        PROVE  UNCHANGED <<Committed, stream, Retired>>
    <2>1. UNCHANGED <<row, stream>>
      BY <1>3 DEF ClaimLock, ClaimCommit, PublishOk, RelayFault, PublishFail,
                  MarkFail, Crash
    <2> QED BY <2>1 DEF Committed
  <1>4. ASSUME NEW r \in Relay, XAdd(r)
        PROVE  \E e \in Event : ALO!Deliver(e)
    <2>1. PICK e \in Event : e \in relay[r].batch /\ stream' = Append(stream, e)
      BY <1>4 DEF XAdd, Least
    <2>2. e \in Committed  BY <2>1 DEF DeliveryInv, BatchCommitted
    <2>3. UNCHANGED <<Committed, Retired>>
      BY <1>4 DEF XAdd, Committed
    <2> QED BY <2>1, <2>2, <2>3 DEF ALO!Deliver
  <1>5. ASSUME NEW r \in Relay, MarkPublishedBatch(r)
        PROVE  \E S \in SUBSET Event : ALO!Retire(S)
    <2> DEFINE B == relay[r].batch
    <2>1. B \subseteq Committed /\ B \subseteq InStream
      BY <1>5 DEF MarkPublishedBatch, DeliveryInv, BatchCommitted,
                  MarksWhatItSent, SentOnStream
    <2>2. Committed' = Committed
      BY <1>5, <2>1 DEF MarkPublishedBatch, Committed
    <2>3. Retired' = Retired \cup B
      BY <1>5 DEF MarkPublishedBatch
    <2>4. stream' = stream  BY <1>5 DEF MarkPublishedBatch
    <2>5. B \in SUBSET Event  OBVIOUS
    <2>6. ALO!Delivered = InStream
      BY DEF ALO!Delivered, ALO!Range, InStream, Range
    <2> HIDE DEF B, Retired
    <2> QED
      BY <2>1, <2>2, <2>3, <2>4, <2>5, <2>6 DEF ALO!Retire, Retired
  <1>6. CASE UNCHANGED vars
    BY <1>6 DEF vars, Committed, ALO!absvars
  <1> QED
    BY <1>1, <1>2, <1>3, <1>4, <1>5, <1>6
       DEF Next, Tx, RelayStep, ClaimNothing, ALO!AbsNext, ALO!absvars

(***************************************************************************)
(* Whatever the relays do and however they fail, only committed events are *)
(* on the stream and only events on the stream are retired                 *)
(* (outbox.go:93-145): the implementation of AtLeastOnce that the runs     *)
(* check, for any number of events and relays.                             *)
(***************************************************************************)
THEOREM OutboxImplementsAtLeastOnce == Spec => ImplementsAtLeastOnce
  <1>1. Init => ALO!AbsInit
    BY DEF Init, Committed, ALO!AbsInit
  <1>2. TypeOK /\ DeliveryInv /\ [Next]_vars => [ALO!AbsNext]_(ALO!absvars)
    BY StepRefines
  <1> QED
    BY <1>1, <1>2, TypeCorrect, DeliveryInvariant, PTL
       DEF Spec, ImplementsAtLeastOnce, ALO!AbsSafety
-----------------------------------------------------------------------------
(***************************************************************************)
(* The order of the entries of one entity, with a single relay.            *)
(***************************************************************************)
LEMMA EarlierEndedInvariant == Spec => []EarlierEnded
  <1>1. Init => EarlierEnded
    BY DEF Init, EarlierEnded
  <1>2. TypeOK /\ DeliveryInv /\ EarlierEnded /\ [Next]_vars => EarlierEnded'
    <2> SUFFICES ASSUME TypeOK, DeliveryInv, EarlierEnded, [Next]_vars
                 PROVE  EarlierEnded'
      OBVIOUS
    <2> USE DEF TypeOK, EarlierEnded, RowState
    <2>1. ASSUME NEW e \in Event, EnqueueTx(e) PROVE EarlierEnded'
      BY <2>1 DEF EnqueueTx
    <2>2. ASSUME NEW e \in Event, CommitTx(e) \/ RollbackTx(e) PROVE EarlierEnded'
      BY <2>2 DEF CommitTx, RollbackTx
    <2>3. ASSUME NEW r \in Relay, MarkPublishedBatch(r) PROVE EarlierEnded'
      <3>1. relay[r].batch \subseteq Committed
        BY DEF DeliveryInv, BatchCommitted
      <3>2. \A e \in Event : row[e] = "absent" => row'[e] = "absent"
        BY <2>3, <3>1 DEF MarkPublishedBatch, Committed
      <3>3. \A e \in Event : row'[e] = "absent" => row[e] = "absent"
        BY <2>3 DEF MarkPublishedBatch
      <3>4. \A e \in Event : row[e] # row'[e] => row'[e] = "published"
        BY <2>3 DEF MarkPublishedBatch
      <3>5. entity' = entity  BY <2>3 DEF MarkPublishedBatch
      <3> QED BY <3>2, <3>3, <3>4, <3>5
    <2>4. CASE UNCHANGED <<row, entity>>
      BY <2>4
    <2> QED
      BY <2>1, <2>2, <2>3, <2>4
         DEF Next, Tx, RelayStep, RelayFault, ClaimLock, ClaimNothing, ClaimCommit,
             XAdd, PublishOk, PublishFail, MarkFail, Crash, vars
  <1> QED BY <1>1, <1>2, TypeCorrect, DeliveryInvariant, PTL DEF Spec

OrderInv == SingleRelay => BatchClosed /\ EntityOrder

LEMMA OthersIdleInvariant == Spec => []OthersIdle
  <1>1. Init => OthersIdle
    BY DEF Init, OthersIdle
  <1>2. TypeOK /\ OthersIdle /\ [Next]_vars => OthersIdle'
    <2> SUFFICES ASSUME TypeOK, OthersIdle, [Next]_vars PROVE OthersIdle'
      OBVIOUS
    <2> USE DEF TypeOK, RelayState, OthersIdle
    <2>1. ASSUME NEW e \in Event, Tx(e) PROVE OthersIdle'
      BY <2>1 DEF Tx, EnqueueTx, CommitTx, RollbackTx
    <2>2. ASSUME NEW r \in Relay, ClaimLock(r) PROVE OthersIdle'
      BY <2>2 DEF ClaimLock
    <2>3. ASSUME NEW r \in Relay, ClaimCommit(r) \/ PublishOk(r) \/ XAdd(r) PROVE OthersIdle'
      <3>1. /\ relay[r].pc # "idle" /\ relay'[r].pc # "idle" /\ active' = active
            /\ \A q \in Relay \ {r} : relay'[q] = relay[q]
        BY <2>3 DEF ClaimCommit, PublishOk, XAdd
      <3>2. r \in active
        BY <3>1 DEF Idle
      <3> QED BY <3>1, <3>2
    <2>4. ASSUME NEW r \in Relay, MarkPublishedBatch(r) \/ RelayFault(r) PROVE OthersIdle'
      BY <2>4 DEF MarkPublishedBatch, RelayFault, PublishFail, MarkFail, Crash
    <2>5. CASE UNCHANGED vars
      BY <2>5 DEF vars
    <2> QED
      BY <2>1, <2>2, <2>3, <2>4, <2>5 DEF Next, RelayStep, ClaimNothing
  <1> QED BY <1>1, <1>2, TypeCorrect, PTL DEF Spec

\* A relay that steps while only one has worked is that one.
LEMMA OnlyOneHolds ==
  ASSUME TypeOK, OthersIdle, NEW r \in Relay, r \in active', active' = active \cup {r}, SingleRelay'
  PROVE  SingleRelay /\ \A q \in Relay \ {r} : relay[q] = Idle
  BY DEF SingleRelay, OthersIdle

\* No transaction step commits an event that comes before one already
\* committed on the same entity.
LEMMA TxKeepsOrder ==
  ASSUME TypeOK, DeliveryInv, EarlierEnded, OrderInv, NEW e \in Event, Tx(e)
  PROVE  OrderInv'
  <1> USE DEF TypeOK, RowState
  <1>1. UNCHANGED <<stream, relay, entity, active>>
    BY DEF Tx, EnqueueTx, CommitTx, RollbackTx
  <1> SUFFICES ASSUME SingleRelay PROVE BatchClosed' /\ EntityOrder'
    BY <1>1 DEF OrderInv, SingleRelay
  <1>2. \A d \in Committed' : d \in Committed \/ (d = e /\ row[d] = "open")
    BY DEF Tx, EnqueueTx, CommitTx, RollbackTx, Committed
  <1>3. \A d, c \in Event :
          /\ d \in Committed'
          /\ c \in Committed
          /\ d < c /\ entity[d] = entity[c]
          => d \in Committed
    BY <1>2 DEF EarlierEnded, Committed
  <1>4. BatchClosed'
    <2>1. \A r \in Relay : relay[r].batch \subseteq Committed
      BY DEF DeliveryInv, BatchCommitted
    <2>2. Committed' \subseteq Event /\ Committed \subseteq Event
      BY DEF Committed
    <2> QED BY <1>1, <1>3, <2>1, <2>2 DEF OrderInv, BatchClosed, InStream
  <1>5. EntityOrder'
    <2>1. \A i \in DOMAIN stream : stream[i] \in Committed
      BY DEF DeliveryInv, OnlyCommittedOnStream, InStream, Range
    <2>2. Committed' \subseteq Event /\ Committed \subseteq Event
      BY DEF Committed
    <2> QED BY <1>1, <1>3, <2>1, <2>2 DEF OrderInv, EntityOrder
  <1> QED BY <1>4, <1>5

\* The one relay claims the earliest rows of all that are pending.
LEMMA ClaimKeepsOrder ==
  ASSUME TypeOK, DeliveryInv, OthersIdle, OrderInv, NEW r \in Relay, ClaimLock(r)
  PROVE  OrderInv'
  <1> USE DEF TypeOK
  <1> SUFFICES ASSUME SingleRelay' PROVE BatchClosed' /\ EntityOrder'
    BY DEF OrderInv
  <1>1. UNCHANGED <<row, entity, stream>>  BY DEF ClaimLock
  <1>2. Committed' = Committed /\ InStream' = InStream
    BY <1>1 DEF Committed, InStream
  <1>3. SingleRelay /\ \A q \in Relay \ {r} : relay[q] = Idle
    BY OnlyOneHolds DEF ClaimLock
  <1>4. EntityOrder'
    BY <1>1, <1>2, <1>3 DEF OrderInv, EntityOrder
  <1>5. LockedRows = {}
    <2>1. {q \in Relay : relay[q].pc = "locked"} = {}
      BY <1>3 DEF ClaimLock, Idle
    <2> QED BY <2>1 DEF LockedRows
  <1>6. Claimable = {d \in Event : row[d] = "pending"}
    BY <1>5 DEF Claimable
  <1>7. \A d \in Committed : d \in Claimable \/ d \in InStream
    BY <1>6 DEF Committed, DeliveryInv, PublishedOnStream
  <1>8. /\ relay'[r].batch = FirstOf(Claimable)
        /\ \A q \in Relay \ {r} : relay'[q].batch = {}
    BY <1>3 DEF ClaimLock, Idle
  <1>9. Claimable \in SUBSET Event  BY <1>6
  <1>10. \A e \in FirstOf(Claimable) : \A d \in Claimable :
          d < e => d \in FirstOf(Claimable)
    BY <1>9, FirstOfClosed
  <1>11. BatchClosed'
    BY <1>1, <1>2, <1>7, <1>8, <1>10 DEF BatchClosed
  <1> QED BY <1>4, <1>11

\* The pipeline runs in the order of the ids.
LEMMA XAddKeepsOrder ==
  ASSUME TypeOK, DeliveryInv, OrderInv, NEW r \in Relay, XAdd(r)
  PROVE  OrderInv'
  <1> USE DEF TypeOK, RelayState
  <1> SUFFICES ASSUME SingleRelay PROVE BatchClosed' /\ EntityOrder'
    BY DEF OrderInv, SingleRelay, XAdd
  <1>1. PICK e \in Event :
          /\ Least(e, relay[r].batch \ relay[r].sent)
          /\ stream' = Append(stream, e)
          /\ relay' = [relay EXCEPT ![r].sent = @ \cup {e}]
    BY DEF XAdd
  <1>2. UNCHANGED <<row, entity>> /\ Committed' = Committed
    BY DEF XAdd, Committed
  <1>3. InStream' = InStream \cup {e}
    BY <1>1, RangeAppend DEF InStream
  <1>4. \A q \in Relay : relay'[q].batch = relay[q].batch
    BY <1>1
  <1>5. BatchClosed'
    BY <1>2, <1>3, <1>4 DEF OrderInv, BatchClosed
  <1>6. \A d \in Committed : d < e /\ entity[d] = entity[e] => d \in InStream
    <2> SUFFICES ASSUME NEW d \in Committed, d < e, entity[d] = entity[e],
                        d \notin InStream
                 PROVE  FALSE
      OBVIOUS
    <2>1. d \in relay[r].batch
      BY <1>1 DEF OrderInv, BatchClosed, Least
    <2>2. d \notin relay[r].sent
      BY DEF DeliveryInv, SentOnStream
    <2>3. d \in Event /\ d \in Nat /\ e \in Nat
      BY OutboxAssumption DEF Committed, Event
    <2> QED BY <1>1, <2>1, <2>2, <2>3 DEF Least
  <1>7. EntityOrder'
    <2> SUFFICES ASSUME NEW i \in DOMAIN stream', NEW d \in Committed',
                        d < stream'[i], entity'[d] = entity'[stream'[i]]
                 PROVE  \E j \in DOMAIN stream' : j < i /\ stream'[j] = d
      BY DEF EntityOrder
    <2>1. /\ DOMAIN stream' = DOMAIN stream \cup {Len(stream) + 1}
          /\ stream'[Len(stream) + 1] = e
          /\ \A j \in DOMAIN stream : stream'[j] = stream[j] /\ j < Len(stream) + 1
      BY <1>1, RangeAppend
    <2>2. CASE i \in DOMAIN stream
      BY <2>1, <2>2, <1>2 DEF OrderInv, EntityOrder
    <2>3. CASE i = Len(stream) + 1
      <3>1. d \in InStream
        BY <2>1, <2>3, <1>2, <1>6
      <3>2. PICK j \in DOMAIN stream : stream[j] = d
        BY <3>1 DEF InStream, Range
      <3> QED BY <3>2, <2>1, <2>3
    <2> QED BY <2>1, <2>2, <2>3
  <1> QED BY <1>5, <1>7

\* The other steps of a relay leave table order and stream as they are.
LEMMA RelayLeaves ==
  ASSUME TypeOK, DeliveryInv, NEW r \in Relay,
         ClaimCommit(r) \/ PublishOk(r) \/ MarkPublishedBatch(r) \/ RelayFault(r)
  PROVE  /\ UNCHANGED <<entity, stream, active, Committed, InStream>>
         /\ \A q \in Relay : relay'[q].batch \in {relay[q].batch, {}}
  <1>1. \A q \in Relay : relay'[q].batch \in {relay[q].batch, {}}
    BY DEF TypeOK, RelayState, ClaimCommit, PublishOk, MarkPublishedBatch,
           RelayFault, PublishFail, MarkFail, Crash, Idle
  <1>2. UNCHANGED <<entity, stream, active>>
    BY DEF ClaimCommit, PublishOk, MarkPublishedBatch, RelayFault, PublishFail, MarkFail, Crash
  <1>3. Committed' = Committed
    <2>1. CASE MarkPublishedBatch(r)
      <3>1. relay[r].batch \subseteq Committed
        BY DEF DeliveryInv, BatchCommitted
      <3> QED BY <2>1, <3>1 DEF MarkPublishedBatch, Committed, TypeOK
    <2>2. CASE UNCHANGED row
      BY <2>2 DEF Committed
    <2> QED
      BY <2>1, <2>2 DEF ClaimCommit, PublishOk, RelayFault, PublishFail, MarkFail, Crash
  <1> QED BY <1>1, <1>2, <1>3 DEF InStream

(***************************************************************************)
(* While a single relay works the first entries of the events of one       *)
(* business row are in commit order, whatever publishes, updates and       *)
(* processes fail (outbox.go:56-66 and 93-145).                            *)
(***************************************************************************)
THEOREM EntityOrderHolds == Spec => []EntityOrder
  <1>1. Init => OrderInv
    BY DEF Init, OrderInv, BatchClosed, EntityOrder, Idle
  <1>2. TypeOK /\ DeliveryInv /\ EarlierEnded /\ OthersIdle /\ OrderInv /\ [Next]_vars => OrderInv'
    <2> SUFFICES ASSUME TypeOK, DeliveryInv, EarlierEnded, OthersIdle, OrderInv, [Next]_vars
                 PROVE  OrderInv'
      OBVIOUS
    <2>1. ASSUME NEW e \in Event, Tx(e) PROVE OrderInv'
      BY <2>1, TxKeepsOrder
    <2>2. ASSUME NEW r \in Relay, ClaimLock(r) PROVE OrderInv'
      BY <2>2, ClaimKeepsOrder
    <2>3. ASSUME NEW r \in Relay, XAdd(r) PROVE OrderInv'
      BY <2>3, XAddKeepsOrder
    <2>4. ASSUME NEW r \in Relay,
                 ClaimCommit(r) \/ PublishOk(r) \/ MarkPublishedBatch(r) \/ RelayFault(r)
          PROVE  OrderInv'
      <3>1. /\ UNCHANGED <<entity, stream, active, Committed, InStream>>
            /\ \A q \in Relay : relay'[q].batch \in {relay[q].batch, {}}
        BY <2>4, RelayLeaves
      <3>2. BatchClosed => BatchClosed'
        BY <3>1 DEF BatchClosed
      <3>3. EntityOrder => EntityOrder'
        BY <3>1 DEF EntityOrder, SingleRelay
      <3> QED BY <3>1, <3>2, <3>3 DEF OrderInv, SingleRelay
    <2>5. CASE UNCHANGED vars
      BY <2>5 DEF vars, OrderInv, BatchClosed, EntityOrder, SingleRelay, Committed, InStream
    <2> QED
      BY <2>1, <2>2, <2>3, <2>4, <2>5 DEF Next, RelayStep, ClaimNothing
  <1>3. OrderInv => EntityOrder  BY DEF OrderInv, EntityOrder
  <1> QED
    BY <1>1, <1>2, <1>3, TypeCorrect, DeliveryInvariant, EarlierEndedInvariant,
       OthersIdleInvariant, PTL
       DEF Spec
-----------------------------------------------------------------------------
(***************************************************************************)
(* No event twice, with a single relay and no fault.                       *)
(***************************************************************************)
OnceInv ==
  SingleRelay /\ faults = 0
    => StreamAccounted /\ BatchUnpublished /\ SentOfBatch /\ NoEntryTwice

\* A relay adds what it has not sent and nobody has published.
LEMMA XAddKeepsOnce ==
  ASSUME TypeOK, DeliveryInv, OthersIdle, OnceInv, NEW r \in Relay, XAdd(r)
  PROVE  OnceInv'
  <1> USE DEF TypeOK, RelayState
  <1>1. PICK e \in Event :
          /\ e \in relay[r].batch \ relay[r].sent
          /\ stream' = Append(stream, e)
          /\ relay' = [relay EXCEPT ![r].sent = @ \cup {e}]
    BY DEF XAdd, Least
  <1>2. relay[r].pc = "publishing" /\ UNCHANGED <<row, active, faults>>
    BY DEF XAdd
  <1> SUFFICES ASSUME SingleRelay, faults = 0
               PROVE  StreamAccounted' /\ BatchUnpublished' /\ SentOfBatch' /\ NoEntryTwice'
    BY <1>2 DEF OnceInv, SingleRelay
  <1>3. StreamAccounted /\ BatchUnpublished /\ SentOfBatch /\ NoEntryTwice
    BY DEF OnceInv
  <1>4. InStream' = InStream \cup {e}
    BY <1>1, RangeAppend DEF InStream
  <1>5. /\ \A q \in Relay : relay'[q].batch = relay[q].batch
        /\ \A q \in Relay \ {r} : relay'[q] = relay[q]
        /\ relay'[r].sent = relay[r].sent \cup {e}
    BY <1>1
  <1>6. \A q \in Relay \ {r} : relay[q] = Idle
    <2>1. r \in active
      BY <1>2 DEF OthersIdle, Idle
    <2> QED BY <2>1 DEF SingleRelay, OthersIdle
  <1>7. e \notin InStream
    BY <1>1, <1>3, <1>6 DEF StreamAccounted, BatchUnpublished, Idle
  <1>8. NoEntryTwice'
    <2>1. /\ DOMAIN stream' = DOMAIN stream \cup {Len(stream) + 1}
          /\ stream'[Len(stream) + 1] = e
          /\ \A j \in DOMAIN stream : stream'[j] = stream[j]
      BY <1>1, RangeAppend
    <2>2. \A j \in DOMAIN stream : stream[j] # e
      BY <1>7 DEF InStream, Range
    <2> QED BY <1>3, <2>1, <2>2 DEF NoEntryTwice
  <1>9. StreamAccounted' /\ BatchUnpublished' /\ SentOfBatch'
    BY <1>1, <1>2, <1>3, <1>4, <1>5 DEF StreamAccounted, BatchUnpublished, SentOfBatch
  <1> QED BY <1>8, <1>9

(***************************************************************************)
(* While a single relay works and nothing fails, no event is on the stream *)
(* twice (outbox.go:93-145).                                               *)
(***************************************************************************)
THEOREM NoDuplicateEntryHolds == Spec => []NoDuplicateEntry
  <1>1. Init => OnceInv
    BY DEF Init, OnceInv, StreamAccounted, BatchUnpublished, SentOfBatch, NoEntryTwice,
           InStream, Range, Idle
  <1>2. TypeOK /\ DeliveryInv /\ OthersIdle /\ OnceInv /\ [Next]_vars => OnceInv'
    <2> SUFFICES ASSUME TypeOK, DeliveryInv, OthersIdle, OnceInv, [Next]_vars PROVE OnceInv'
      OBVIOUS
    <2> USE DEF TypeOK, RowState, RelayState
    <2>1. ASSUME NEW e \in Event, Tx(e) PROVE OnceInv'
      <3>1. /\ UNCHANGED <<stream, relay, active, faults>>
            /\ \A d \in Event : row'[d] = "published" <=> row[d] = "published"
        BY <2>1 DEF Tx, EnqueueTx, CommitTx, RollbackTx
      <3>2. InStream \subseteq Event
        BY DEF DeliveryInv, OnlyCommittedOnStream, Committed
      <3> QED BY <3>1, <3>2 DEF OnceInv, SingleRelay, StreamAccounted, BatchUnpublished,
                                SentOfBatch, NoEntryTwice, InStream
    <2>2. ASSUME NEW r \in Relay, ClaimLock(r) PROVE OnceInv'
      <3> SUFFICES ASSUME SingleRelay', faults = 0
                   PROVE  StreamAccounted' /\ BatchUnpublished' /\ SentOfBatch' /\ NoEntryTwice'
        BY <2>2 DEF OnceInv, ClaimLock
      <3>1. SingleRelay /\ \A q \in Relay \ {r} : relay[q] = Idle
        BY <2>2, OnlyOneHolds DEF ClaimLock
      <3>2. relay[r] = Idle
        BY <2>2 DEF ClaimLock, OthersIdle
      <3>3. FirstOf(Claimable) \subseteq {d \in Event : row[d] = "pending"}
        BY FirstOfClosed DEF Claimable
      <3>4. /\ UNCHANGED <<row, stream, InStream>>
            /\ relay'[r] = [pc |-> "locked", batch |-> FirstOf(Claimable), sent |-> {}]
            /\ \A q \in Relay \ {r} : relay'[q] = relay[q]
        BY <2>2 DEF ClaimLock, InStream
      <3>5. StreamAccounted'
        BY <3>1, <3>2, <3>4 DEF OnceInv, StreamAccounted, Idle
      <3>6. BatchUnpublished' /\ SentOfBatch'
        BY <3>1, <3>3, <3>4 DEF BatchUnpublished, SentOfBatch, Idle
      <3> QED BY <3>1, <3>4, <3>5, <3>6 DEF OnceInv, NoEntryTwice
    <2>3. ASSUME NEW r \in Relay, ClaimCommit(r) \/ PublishOk(r) PROVE OnceInv'
      <3>1. /\ UNCHANGED <<row, stream, active, faults>>
            /\ \A q \in Relay : relay'[q].batch = relay[q].batch /\ relay'[q].sent = relay[q].sent
        BY <2>3 DEF ClaimCommit, PublishOk
      <3> QED BY <3>1 DEF OnceInv, SingleRelay, StreamAccounted, BatchUnpublished,
                          SentOfBatch, NoEntryTwice, InStream
    <2>4. ASSUME NEW r \in Relay, XAdd(r) PROVE OnceInv'
      BY <2>4, XAddKeepsOnce
    <2>5. ASSUME NEW r \in Relay, MarkPublishedBatch(r) PROVE OnceInv'
      <3> SUFFICES ASSUME SingleRelay, faults = 0
                   PROVE  StreamAccounted' /\ BatchUnpublished' /\ SentOfBatch' /\ NoEntryTwice'
        BY <2>5 DEF OnceInv, SingleRelay, MarkPublishedBatch
      <3>1. /\ UNCHANGED <<stream, InStream>> /\ relay[r].pc = "marking"
            /\ row' = [e \in Event |-> IF e \in relay[r].batch THEN "published" ELSE row[e]]
            /\ relay'[r] = Idle /\ \A q \in Relay \ {r} : relay'[q] = relay[q]
        BY <2>5 DEF MarkPublishedBatch, InStream
      <3>2. relay[r].sent \subseteq relay[r].batch
        BY DEF OnceInv, SentOfBatch
      <3>3. \A q \in Relay \ {r} : relay[q] = Idle
        <4>1. r \in active
          BY <3>1 DEF OthersIdle, Idle
        <4> QED BY <4>1 DEF SingleRelay, OthersIdle
      <3>4. InStream \subseteq Event
        BY DEF DeliveryInv, OnlyCommittedOnStream, Committed
      <3>5. StreamAccounted'
        <4> SUFFICES ASSUME NEW e \in InStream PROVE row'[e] = "published"
          BY <3>1 DEF StreamAccounted
        <4>1. row[e] = "published" \/ e \in relay[r].batch
          BY <3>2, <3>3 DEF OnceInv, StreamAccounted, Idle
        <4> QED BY <3>1, <3>4, <4>1
      <3>6. \A q \in Relay : relay'[q].batch = {} /\ relay'[q].sent = {}
        BY <3>1, <3>3 DEF Idle
      <3>7. BatchUnpublished' /\ SentOfBatch'
        BY <3>6 DEF BatchUnpublished, SentOfBatch
      <3> QED BY <3>1, <3>5, <3>7 DEF OnceInv, NoEntryTwice
    <2>6. ASSUME NEW r \in Relay, RelayFault(r) PROVE OnceInv'
      <3>1. faults' # 0
        BY <2>6, OutboxAssumption DEF RelayFault, PublishFail, MarkFail, Crash, Fault
      <3> QED BY <3>1 DEF OnceInv
    <2>7. CASE UNCHANGED vars
      BY <2>7 DEF vars, OnceInv, SingleRelay, StreamAccounted, BatchUnpublished,
                  SentOfBatch, NoEntryTwice, InStream
    <2> QED
      BY <2>1, <2>2, <2>3, <2>4, <2>5, <2>6, <2>7 DEF Next, RelayStep, ClaimNothing
  <1>3. OnceInv => NoDuplicateEntry
    BY DEF OnceInv, NoDuplicateEntry, NoEntryTwice
  <1> QED
    BY <1>1, <1>2, <1>3, TypeCorrect, DeliveryInvariant, OthersIdleInvariant, PTL DEF Spec
=============================================================================
