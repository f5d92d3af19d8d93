----------------------- MODULE CounterPipeline_proofs -----------------------
(***************************************************************************)
(* Proofs about the counts of a note, from the business transaction to     *)
(* notes.*_count: nothing is lost or counted twice on the way while at     *)
(* worst a flush fails, and short of a flush whose outcome is unknown no   *)
(* event is ever counted more than once; for every set of notes, users,    *)
(* comments and requests, number of events, size of batches and faults.    *)
(* Impressions and reads likewise; and how many notes the topics have.     *)
(***************************************************************************)
EXTENDS CounterPipelineMC, FiniteSetTheorems, SequenceTheorems, TLAPS

\* A request deletes a comment there is, or was.
RequestsKnown ==
  \A q \in Request : request[q] # <<>> => comment[request[q][2]] # NoComment

\* The flusher holds something only while it is busy.
FlusherRests == ~flusher.busy => flusher.drained = Zero

HandlerSound == Held \subseteq dedup

TypeInv == TypeOK /\ RequestsKnown /\ FlusherRests /\ HandlerSound
-----------------------------------------------------------------------------
(***************************************************************************)
(* Sums of deltas.                                                         *)
(***************************************************************************)
LEMMA CardinalityOfUnion ==
  ASSUME NEW S, NEW T, IsFiniteSet(S), IsFiniteSet(T), S \cap T = {}
  PROVE  Cardinality(S \cup T) = Cardinality(S) + Cardinality(T)
  <1>1. Cardinality(S \cap T) = 0
    BY FS_EmptySet
  <1>2. Cardinality(S \cup T) = Cardinality(S) + Cardinality(T) - Cardinality(S \cap T)
    BY FS_Union
  <1>3. Cardinality(S) \in Nat /\ Cardinality(T) \in Nat
    BY FS_CardinalityType
  <1> QED BY <1>1, <1>2, <1>3

LEMMA ChangingFinite ==
  ASSUME NEW S, IsFiniteSet(S), NEW c, NEW d
  PROVE  /\ IsFiniteSet(Changing(S, c, d))
         /\ Cardinality(Changing(S, c, d)) \in Nat
  <1>1. Changing(S, c, d) \subseteq S
    BY DEF Changing
  <1> QED BY <1>1, FS_Subset, FS_CardinalityType

LEMMA DeltasType ==
  ASSUME NEW S, IsFiniteSet(S)
  PROVE  Deltas(S) \in [Counter -> Int]
  BY ChangingFinite DEF Deltas

LEMMA DeltasOfUnion ==
  ASSUME NEW S, NEW T, IsFiniteSet(S), IsFiniteSet(T), S \cap T = {}, NEW c \in Counter
  PROVE  Deltas(S \cup T)[c] = Deltas(S)[c] + Deltas(T)[c]
  <1>1. ASSUME NEW d
        PROVE  Cardinality(Changing(S \cup T, c, d)) =
                 Cardinality(Changing(S, c, d)) + Cardinality(Changing(T, c, d))
    <2>1. Changing(S \cup T, c, d) = Changing(S, c, d) \cup Changing(T, c, d)
      BY DEF Changing
    <2>2. Changing(S, c, d) \cap Changing(T, c, d) = {}
      BY DEF Changing
    <2> QED BY <2>1, <2>2, ChangingFinite, CardinalityOfUnion
  <1>2. \A X, d : IsFiniteSet(X) => Cardinality(Changing(X, c, d)) \in Nat
    BY ChangingFinite
  <1>3. IsFiniteSet(S \cup T)
    BY FS_Union
  <1> QED BY <1>1, <1>2, <1>3 DEF Deltas

LEMMA DeltasOfNone == \A c \in Counter : Deltas({})[c] = 0
  <1>1. \A c, d : Changing({}, c, d) = {}
    BY DEF Changing
  <1> QED BY <1>1, FS_EmptySet DEF Deltas

LEMMA EventsFinite ==
  ASSUME TypeOK, NEW S \in SUBSET DOMAIN evts
  PROVE  IsFiniteSet(S)
  <1>1. DOMAIN evts = 1..Len(evts) /\ Len(evts) \in Nat
    BY DEF TypeOK
  <1>2. IsFiniteSet(1..Len(evts))
    BY <1>1, FS_Interval
  <1> QED BY <1>1, <1>2, FS_Subset

(***************************************************************************)
(* An event that is enqueued counts with the events before it, which keep  *)
(* their place.                                                            *)
(***************************************************************************)
LEMMA EnqueueKeeps ==
  ASSUME TypeOK, NEW k \in Counter, NEW d \in -1..1, Enqueue(k, d)
  PROVE  /\ evts' \in Seq([counter: Counter, delta: -1..1]) /\ Len(evts') <= MaxEvent
         /\ DOMAIN evts' = DOMAIN evts \cup {Len(evts) + 1}
         /\ Len(evts) + 1 \notin DOMAIN evts
         /\ Len(evts') = Len(evts) + 1
         /\ evts'[Len(evts) + 1] = [counter |-> k, delta |-> d]
         /\ \A e \in DOMAIN evts : evts'[e] = evts[e]
  <1> DEFINE Event == [counter: Counter, delta: -1..1]
             x == [counter |-> k, delta |-> d]
  <1>1. evts \in Seq(Event) /\ Len(evts) < MaxEvent /\ evts' = Append(evts, x)
    BY DEF TypeOK, Enqueue
  <1>2. x \in Event
    OBVIOUS
  <1> HIDE DEF Event, x
  <1>3. /\ evts' \in Seq(Event) /\ Len(evts') = Len(evts) + 1
        /\ evts'[Len(evts) + 1] = x
        /\ \A e \in 1..Len(evts) : evts'[e] = evts[e]
    BY <1>1, <1>2
  <1>4. Len(evts) \in Nat /\ DOMAIN evts = 1..Len(evts) /\ DOMAIN evts' = 1..Len(evts')
    BY <1>1, <1>3
  <1> QED BY <1>1, <1>3, <1>4, CounterAssumption DEF Event, x

LEMMA ChangingKept ==
  ASSUME NEW S, \A e \in S : evts'[e] = evts[e]
  PROVE  /\ \A c, d : Changing(S, c, d)' = Changing(S, c, d)
         /\ Deltas(S)' = Deltas(S)
  <1>1. \A c, d : Changing(S, c, d)' = Changing(S, c, d)
    BY DEF Changing
  <1> QED BY <1>1 DEF Deltas, Counter

LEMMA DeltasEnqueued ==
  ASSUME TypeOK, NEW k \in Counter, NEW d \in -1..1, Enqueue(k, d), NEW c \in Counter
  PROVE  Deltas(DOMAIN evts)'[c] = Deltas(DOMAIN evts)[c] + (IF c = k THEN d ELSE 0)
  <1> DEFINE n == Len(evts) + 1
             E == DOMAIN evts
  <1>1. /\ DOMAIN evts' = E \cup {n} /\ n \notin E
        /\ evts'[n] = [counter |-> k, delta |-> d]
        /\ \A e \in E : evts'[e] = evts[e]
    BY EnqueueKeeps
  <1>2. IsFiniteSet(E)
    BY EventsFinite
  <1>3. ASSUME NEW x \in {-1, 1}
        PROVE  Cardinality(Changing(DOMAIN evts, c, x)') =
                 Cardinality(Changing(E, c, x)) + (IF c = k /\ d = x THEN 1 ELSE 0)
    <2>1. CASE c = k /\ d = x
      <3>1. Changing(DOMAIN evts, c, x)' = Changing(E, c, x) \cup {n}
        BY <1>1, <2>1 DEF Changing
      <3>2. n \notin Changing(E, c, x)
        BY <1>1 DEF Changing
      <3> QED BY <2>1, <3>1, <3>2, <1>2, ChangingFinite, FS_AddElement
    <2>2. CASE ~(c = k /\ d = x)
      <3>1. [counter |-> k, delta |-> d] # [counter |-> c, delta |-> x]
        BY <2>2
      <3>2. Changing(DOMAIN evts, c, x)' = Changing(E, c, x)
        BY <1>1, <3>1 DEF Changing
      <3> QED BY <2>2, <3>2, <1>2, ChangingFinite
    <2> QED BY <2>1, <2>2
  <1>4. Deltas(DOMAIN evts)'[c] =
          Cardinality(Changing(DOMAIN evts, c, 1)') - Cardinality(Changing(DOMAIN evts, c, -1)')
    BY DEF Deltas, Counter
  <1> QED BY <1>2, <1>3, <1>4, ChangingFinite DEF Deltas
-----------------------------------------------------------------------------
(***************************************************************************)
(* Type correctness: the transactions, then the relay, then the worker.    *)
(***************************************************************************)
LEMMA PlusType ==
  ASSUME NEW f \in [Counter -> Int], NEW g \in [Counter -> Int]
  PROVE  Plus(f, g) \in [Counter -> Int]
  BY DEF Plus

LEMMA ZeroType == Zero \in [Counter -> Int] /\ \A c \in Counter : Zero[c] = 0
  BY DEF Zero

LEMMA CommentCounter == \A n \in Note : <<"comment", n>> \in Counter
  BY DEF Counter

\* A live or deleted comment is one of a note.
LEMMA CommentKnown ==
  ASSUME TypeOK, NEW c \in Comment, comment[c] # NoComment
  PROVE  comment[c] \in [state: {"live", "deleted"}, note: Note, top: BOOLEAN]
  BY DEF TypeOK, CommentRow

LEMMA WeightType == \A top \in BOOLEAN : Weight(top) \in 0..1
  BY DEF Weight

\* What has a request of a comment.
LEMMA RequestOf ==
  ASSUME TypeInv, NEW q \in Request, request[q] # <<>>
  PROVE  /\ request[q][1] \in {"user", "admin"} /\ request[q][2] \in Comment
         /\ comment[request[q][2]] \in [state: {"live", "deleted"}, note: Note, top: BOOLEAN]
  <1>1. request[q] \in {"user", "admin"} \X Comment
    BY DEF TypeInv, TypeOK
  <1>2. comment[request[q][2]] # NoComment
    BY DEF TypeInv, RequestsKnown
  <1> QED BY <1>1, <1>2, CommentKnown DEF TypeInv

(***************************************************************************)
(* Whatever refers to an event still does when another one is enqueued.    *)
(***************************************************************************)
LEMMA EnqueueTyped ==
  ASSUME TypeInv, NEW k \in Counter, NEW d \in -1..1, Enqueue(k, d),
         rows' \subseteq Kind \X User \X Note,
         comment' \in [Comment -> CommentRow],
         request' \in [Request -> {<<>>} \cup ({"user", "admin"} \X Comment)],
         RequestsKnown', irregular' \in BOOLEAN,
         UNCHANGED <<streamVars, handler, dedup, redis, flusher, count, faults>>
  PROVE  TypeInv'
  <1>1. /\ evts' \in Seq([counter: Counter, delta: -1..1]) /\ Len(evts') <= MaxEvent
        /\ DOMAIN evts \subseteq DOMAIN evts'
    BY EnqueueKeeps DEF TypeInv
  <1>2. stream' \in Seq(DOMAIN evts') /\ last' \in 0..Len(stream')
    BY <1>1 DEF TypeInv, TypeOK, streamVars
  <1>3. /\ handler' \in [pc: {"idle", "dedup", "incr"}, ids: SUBSET DOMAIN evts']
        /\ dedup' \subseteq DOMAIN evts'
    BY <1>1 DEF TypeInv, TypeOK
  <1>4. TypeOK'
    BY <1>1, <1>2, <1>3 DEF TypeInv, TypeOK, Counter
  <1>5. FlusherRests' /\ HandlerSound'
    BY DEF TypeInv, FlusherRests, HandlerSound, Held, Zero, Counter
  <1> QED BY <1>4, <1>5 DEF TypeInv

LEMMA ApiTyped == ASSUME TypeInv, Api PROVE TypeInv'
  <1>1. ASSUME NEW k \in Kind, NEW u \in User, NEW n \in Note, Like(k, u, n) \/ Unlike(k, u, n)
        PROVE  TypeInv'
    <2>1. <<k, n>> \in Counter
      BY DEF Counter
    <2>2. \E d \in -1..1 : Enqueue(<<k, n>>, d)
      BY <1>1 DEF Like, Unlike
    <2>3. /\ rows' \subseteq Kind \X User \X Note
          /\ UNCHANGED <<comment, request, irregular>>
          /\ UNCHANGED <<streamVars, handler, dedup, redis, flusher, count, faults>>
      BY <1>1 DEF Like, Unlike, TypeInv, TypeOK
    <2>4. RequestsKnown'
      BY <2>3 DEF TypeInv, RequestsKnown
    <2> QED BY <2>1, <2>2, <2>3, <2>4, EnqueueTyped DEF TypeInv, TypeOK
  <1>2. ASSUME NEW c \in Comment, NEW n \in Note, NEW top \in BOOLEAN, CreateComment(c, n, top)
        PROVE  TypeInv'
    <2> USE <1>2 DEF CreateComment
    <2>1. comment' \in [Comment -> CommentRow]
      BY DEF TypeInv, TypeOK, CommentRow
    <2>2. RequestsKnown'
      BY DEF TypeInv, TypeOK, RequestsKnown, NoComment
    <2>3. <<"comment", n>> \in Counter /\ Weight(top) \in -1..1
      BY WeightType, CommentCounter
    <2>4. /\ rows' \subseteq Kind \X User \X Note
          /\ request' \in [Request -> {<<>>} \cup ({"user", "admin"} \X Comment)]
          /\ irregular' \in BOOLEAN
      BY DEF TypeInv, TypeOK
    <2> QED BY <2>1, <2>2, <2>3, <2>4, EnqueueTyped
  <1>3. ASSUME NEW q \in Request, NEW c \in Comment, NEW who \in {"user", "admin"},
               SelectComment(q, who, c)
        PROVE  TypeInv'
    <2> USE <1>3 DEF SelectComment
    <2>1. TypeOK'
      BY DEF TypeInv, TypeOK, streamVars
    <2>2. RequestsKnown'
      BY DEF TypeInv, TypeOK, RequestsKnown, NoComment
    <2>3. FlusherRests' /\ HandlerSound'
      BY DEF TypeInv, FlusherRests, HandlerSound, Held
    <2> QED BY <2>1, <2>2, <2>3 DEF TypeInv
  <1>4. ASSUME NEW q \in Request, DeleteComment(q)
        PROVE  TypeInv'
    <2> USE <1>4 DEF DeleteComment
    <2> DEFINE c == request[q][2]
    <2>1. /\ c \in Comment
          /\ comment[c] \in [state: {"live", "deleted"}, note: Note, top: BOOLEAN]
      BY RequestOf
    <2>2. comment' \in [Comment -> CommentRow]
      BY <2>1 DEF TypeInv, TypeOK, CommentRow
    <2>3. RequestsKnown'
      BY <2>1 DEF TypeInv, TypeOK, RequestsKnown, NoComment
    <2>4. request' \in [Request -> {<<>>} \cup ({"user", "admin"} \X Comment)]
      BY DEF TypeInv, TypeOK
    <2>5. <<"comment", comment[c].note>> \in Counter /\ -Weight(comment[c].top) \in -1..1
      BY <2>1, WeightType, CommentCounter
    <2> QED BY <2>1, <2>2, <2>3, <2>4, <2>5, EnqueueTyped DEF TypeInv, TypeOK
  <1>5. ASSUME NEW q \in Request, DeleteCommentByID(q)
        PROVE  TypeInv'
    <2> USE <1>5 DEF DeleteCommentByID
    <2> DEFINE c == request[q][2]
    <2>1. /\ c \in Comment
          /\ comment[c] \in [state: {"live", "deleted"}, note: Note, top: BOOLEAN]
      BY RequestOf
    <2>2. comment' \in [Comment -> CommentRow]
      BY <2>1 DEF TypeInv, TypeOK, CommentRow
    <2>3. RequestsKnown'
      BY <2>1 DEF TypeInv, TypeOK, RequestsKnown, NoComment
    <2>4. request' \in [Request -> {<<>>} \cup ({"user", "admin"} \X Comment)]
      BY DEF TypeInv, TypeOK
    <2>5. <<"comment", comment[c].note>> \in Counter /\ Weight(comment[c].top) \in 0..1
      BY <2>1, WeightType, CommentCounter
    <2>6. count' \in [Counter -> Int] /\ \A n \in Note : count'[<<"comment", n>>] >= 0
      BY <2>5, CommentCounter DEF TypeInv, TypeOK, AtLeastZero
    <2>7. TypeOK'
      BY <2>2, <2>4, <2>6 DEF TypeInv, TypeOK, streamVars
    <2>8. FlusherRests' /\ HandlerSound'
      BY DEF TypeInv, FlusherRests, HandlerSound, Held
    <2> QED BY <2>3, <2>7, <2>8 DEF TypeInv
  <1> QED BY <1>1, <1>2, <1>3, <1>4, <1>5 DEF Api

LEMMA RelayTyped == ASSUME TypeInv, Publish \/ Republish PROVE TypeInv'
  <1>1. \E e \in DOMAIN evts : stream' = Append(stream, e)
    BY DEF Publish, Republish, Published, Range, TypeInv, TypeOK
  <1>2. stream' \in Seq(DOMAIN evts) /\ last \in 0..Len(stream')
    BY <1>1 DEF TypeInv, TypeOK
  <1>3. UNCHANGED <<dbVars, last, handler, dedup, redis, flusher, count, faults, irregular>>
    BY DEF Publish, Republish
  <1> QED
    BY <1>2, <1>3 DEF TypeInv, TypeOK, RequestsKnown, FlusherRests, HandlerSound, Held, dbVars

\* A fault adds one to those that have happened.
LEMMA FaultsTyped ==
  ASSUME TypeOK, NEW f, Fails(f)
  PROVE  faults' \subseteq Fault /\ Cardinality(faults') <= MaxFaults
  <1>1. IsFiniteSet({"crash", "dedupErr", "incrErr", "drainErr", "flushErr", "flushLost", "rollbackErr"})
    <2>1. IsFiniteSet({"crash"} \cup {"dedupErr"} \cup {"incrErr"})
      BY FS_Singleton, FS_Union
    <2>2. IsFiniteSet({"drainErr"} \cup {"flushErr"} \cup {"flushLost"} \cup {"rollbackErr"})
      BY FS_Singleton, FS_Union
    <2>3. IsFiniteSet(({"crash"} \cup {"dedupErr"} \cup {"incrErr"})
                        \cup ({"drainErr"} \cup {"flushErr"} \cup {"flushLost"} \cup {"rollbackErr"}))
      BY <2>1, <2>2, FS_Union
    <2> QED BY <2>3, FS_Subset
  <1>2. IsFiniteSet(faults)
    BY <1>1, FS_Subset, CounterAssumption DEF TypeOK
  <1>3. Cardinality(faults) \in Nat /\ Cardinality(faults') = Cardinality(faults) + 1
    BY <1>2, FS_CardinalityType, FS_AddElement DEF Fails
  <1> QED BY <1>3, CounterAssumption DEF TypeOK, Fails

\* What the handler adds to Redis.
LEMMA DeltasHeld ==
  ASSUME TypeInv
  PROVE  /\ IsFiniteSet(handler.ids) /\ handler.ids \subseteq DOMAIN evts
         /\ Deltas(handler.ids) \in [Counter -> Int]
  BY EventsFinite, DeltasType DEF TypeInv, TypeOK

\* What ReadGroup reads is a stretch of the stream.
LEMMA ReadGroupReads ==
  ASSUME TypeOK, ReadGroup
  PROVE  \E to \in (last + 1)..Len(stream) :
           /\ last' = to
           /\ handler' = [pc |-> "dedup", ids |-> {stream[i] : i \in (last + 1)..to}]
  <1>1. last \in Nat /\ Len(stream) \in Nat /\ last < Len(stream)
    BY DEF TypeOK, ReadGroup
  <1> DEFINE to == IF Len(stream) - last < BatchSize THEN Len(stream) ELSE last + BatchSize
  <1>2. to \in (last + 1)..Len(stream)
    BY <1>1, CounterAssumption
  <1>3. last' = to /\ handler' = [pc |-> "dedup", ids |-> {stream[i] : i \in (last + 1)..to}]
    BY DEF ReadGroup
  <1> QED BY <1>2, <1>3

LEMMA HandlerTyped ==
  ASSUME TypeInv, HandlerStep \/ SetNXManyFail \/ IncrByManyFail
  PROVE  TypeInv'
  <1>1. CASE ReadGroup
    <2> PICK to \in (last + 1)..Len(stream) :
          /\ last' = to
          /\ handler' = [pc |-> "dedup", ids |-> {stream[i] : i \in (last + 1)..to}]
      BY <1>1, ReadGroupReads DEF TypeInv
    <2>1. last' \in 0..Len(stream)
      BY DEF TypeInv, TypeOK
    <2>2. \A i \in (last + 1)..to : stream[i] \in DOMAIN evts
      <3>1. stream \in Seq(DOMAIN evts) /\ last \in Nat /\ to <= Len(stream) /\ Len(stream) \in Nat
        BY DEF TypeInv, TypeOK
      <3>2. \A i \in (last + 1)..to : i \in 1..Len(stream)
        BY <3>1
      <3> QED BY <3>1, <3>2
    <2>3. handler' \in [pc: {"dedup"}, ids: SUBSET DOMAIN evts]
      <3> PICK ids : ids = {stream[i] : i \in (last + 1)..to}
        OBVIOUS
      <3>1. ids \subseteq DOMAIN evts
        BY <2>2
      <3>2. handler' = [pc |-> "dedup", ids |-> ids]
        OBVIOUS
      <3> QED BY <3>1, <3>2
    <2> QED
      BY <1>1, <2>1, <2>3
      DEF ReadGroup, TypeInv, TypeOK, RequestsKnown, FlusherRests, HandlerSound, Held, dbVars
  <1>2. CASE SetNXMany
    <2>1. /\ handler' \in [pc: {"incr"}, ids: SUBSET DOMAIN evts]
          /\ handler'.ids \subseteq dedup' /\ dedup' \subseteq DOMAIN evts
      BY <1>2 DEF SetNXMany, TypeInv, TypeOK
    <2> QED
      BY <1>2, <2>1 DEF SetNXMany, TypeInv, TypeOK, RequestsKnown, FlusherRests,
                        HandlerSound, Held, dbVars, streamVars
  <1>3. CASE IncrByMany
    <2>1. redis' \in [Counter -> Int]
      BY <1>3, DeltasHeld, PlusType DEF IncrByMany, TypeInv, TypeOK
    <2> QED
      BY <1>3, <2>1 DEF IncrByMany, Idle, TypeInv, TypeOK, RequestsKnown, FlusherRests,
                        HandlerSound, Held, dbVars, streamVars
  <1>4. CASE SetNXManyFail
    <2>1. dedup' \subseteq DOMAIN evts
      BY <1>4 DEF SetNXManyFail, TypeInv, TypeOK
    <2>2. faults' \subseteq Fault /\ Cardinality(faults') <= MaxFaults
      BY <1>4, FaultsTyped DEF SetNXManyFail, TypeInv
    <2> QED
      BY <1>4, <2>1, <2>2 DEF SetNXManyFail, Idle, TypeInv, TypeOK, RequestsKnown, FlusherRests,
                        HandlerSound, Held, dbVars, streamVars
  <1>5. CASE IncrByManyFail
    <2>1. redis' \in [Counter -> Int]
      BY <1>5, DeltasHeld DEF IncrByManyFail, TypeInv, TypeOK
    <2>2. faults' \subseteq Fault /\ Cardinality(faults') <= MaxFaults
      BY <1>5, FaultsTyped DEF IncrByManyFail, TypeInv
    <2> QED
      BY <1>5, <2>1, <2>2 DEF IncrByManyFail, Idle, TypeInv, TypeOK, RequestsKnown, FlusherRests,
                        HandlerSound, Held, dbVars, streamVars
  <1> QED BY <1>1, <1>2, <1>3, <1>4, <1>5 DEF HandlerStep

\* The steps of the flusher.
FlusherStep ==
  \/ Drain \/ BatchAddCounters
  \/ \E K \in SUBSET Counter : DrainCountersFail(K)
  \/ BatchAddCountersFail \/ BatchAddCountersLost \/ RollbackFail

LEMMA AddedType ==
  ASSUME TypeInv
  PROVE  /\ Added \in [Counter -> Int]
         /\ \A n \in Note : Added[<<"comment", n>>] >= 0
  BY CommentCounter DEF TypeInv, TypeOK, Added, AtLeastZero

LEMMA FlusherTyped == ASSUME TypeInv, FlusherStep PROVE TypeInv'
  <1> USE DEF TypeInv
  <1>1. /\ UNCHANGED <<dbVars, streamVars, handler, dedup, irregular>>
        /\ faults' \subseteq Fault /\ Cardinality(faults') <= MaxFaults
    BY FaultsTyped DEF FlusherStep, Drain, DrainCounters, BatchAddCounters, DrainCountersFail,
         BatchAddCountersFail, BatchAddCountersLost, RollbackFail, TypeOK
  <1>2. RequestsKnown' /\ HandlerSound'
    BY <1>1 DEF RequestsKnown, HandlerSound, Held, dbVars
  <1>3. ASSUME /\ redis' \in [Counter -> Int]
               /\ flusher' \in [busy: BOOLEAN, drained: [Counter -> Int]]
               /\ ~flusher'.busy => flusher'.drained = Zero
               /\ count' = count \/ count' = Added
        PROVE  TypeInv'
    <2>1. count' \in [Counter -> Int] /\ \A n \in Note : count'[<<"comment", n>>] >= 0
      BY <1>3, AddedType DEF TypeOK
    <2>2. TypeOK'
      BY <1>1, <1>3, <2>1 DEF TypeOK, dbVars, streamVars
    <2> QED BY <1>2, <1>3, <2>2 DEF FlusherRests, Zero
  <1>4. NotFlushing \in [busy: {FALSE}, drained: {Zero}] /\ Zero \in [Counter -> Int]
    BY ZeroType DEF NotFlushing
  <1>5. ASSUME NEW K \in SUBSET Counter, DrainCounters(K) \/ DrainCountersFail(K)
        PROVE  TypeInv'
    <2>1. Drained(K) \in [Counter -> Int] /\ redis' \in [Counter -> Int]
      BY <1>5 DEF Drained, DrainCounters, DrainCountersFail, Reset, TypeOK
    <2>2. \/ flusher' = flusher
          \/ flusher' = [busy |-> TRUE, drained |-> Drained(K)]
      BY <1>5 DEF DrainCounters, DrainCountersFail
    <2>3. count' = count
      BY <1>5 DEF DrainCounters, DrainCountersFail
    <2>4. /\ flusher' \in [busy: BOOLEAN, drained: [Counter -> Int]]
          /\ ~flusher'.busy => flusher'.drained = Zero
      <3>1. CASE flusher' = flusher
        BY <3>1 DEF FlusherRests, TypeOK
      <3>2. CASE flusher' = [busy |-> TRUE, drained |-> Drained(K)]
        BY <2>1, <3>2
      <3> QED BY <2>2, <3>1, <3>2
    <2> QED BY <1>3, <2>1, <2>3, <2>4
  <1>6. CASE BatchAddCounters
    BY <1>3, <1>4, <1>6 DEF BatchAddCounters, TypeOK
  <1>7. CASE BatchAddCountersFail \/ BatchAddCountersLost
    <2>1. redis' \in [Counter -> Int]
      <3>1. redis' = Plus(redis, flusher.drained)
        BY <1>7 DEF BatchAddCountersFail, BatchAddCountersLost
      <3>2. redis \in [Counter -> Int] /\ flusher.drained \in [Counter -> Int]
        BY DEF TypeOK
      <3> QED BY <3>1, <3>2, PlusType
    <2>2. flusher' = NotFlushing /\ (count' = count \/ count' = Added)
      BY <1>7 DEF BatchAddCountersFail, BatchAddCountersLost
    <2> QED BY <1>3, <1>4, <2>1, <2>2
  <1>8. CASE RollbackFail
    <2>1. redis' \in [Counter -> Int]
      BY <1>8 DEF RollbackFail, TypeOK
    <2> QED BY <1>3, <1>4, <1>8, <2>1 DEF RollbackFail
  <1> QED BY <1>5, <1>6, <1>7, <1>8 DEF FlusherStep, Drain

LEMMA CrashTyped == ASSUME TypeInv, Crash PROVE TypeInv'
  <1>1. faults' \subseteq Fault /\ Cardinality(faults') <= MaxFaults
    BY FaultsTyped DEF Crash, TypeInv
  <1>2. TypeOK'
    BY <1>1, ZeroType DEF Crash, Idle, NotFlushing, TypeInv, TypeOK, dbVars, streamVars
  <1> QED
    BY <1>2 DEF Crash, Idle, NotFlushing, TypeInv, RequestsKnown, FlusherRests, HandlerSound,
                Held, dbVars, Zero

\* The steps of the worker.
LEMMA NextSplit ==
  Next <=> \/ Api \/ Publish \/ Republish
           \/ HandlerStep \/ SetNXManyFail \/ IncrByManyFail
           \/ FlusherStep \/ DrainNothing \/ Crash
  BY DEF Next, WorkerFault, FlusherStep

LEMMA TypeInvariant == Spec => []TypeInv
  <1>1. Init => TypeInv
    <2> SUFFICES ASSUME Init PROVE TypeInv
      OBVIOUS
    <2>1. TypeOK
      <3> USE DEF Init
      <3>1. evts \in Seq([counter: Counter, delta: -1..1]) /\ Len(evts) <= MaxEvent
        BY CounterAssumption
      <3>2. stream \in Seq(DOMAIN evts) /\ last \in 0..Len(stream)
        OBVIOUS
      <3>3. faults \subseteq Fault /\ Cardinality(faults) <= MaxFaults
        BY FS_EmptySet, CounterAssumption
      <3>4. /\ count \in [Counter -> Int] /\ \A n \in Note : count[<<"comment", n>>] >= 0
            /\ redis \in [Counter -> Int]
            /\ flusher \in [busy: BOOLEAN, drained: [Counter -> Int]]
        BY ZeroType, CommentCounter
      <3> QED BY <3>1, <3>2, <3>3, <3>4 DEF TypeOK, CommentRow
    <2> QED BY <2>1 DEF Init, TypeInv, RequestsKnown, FlusherRests, HandlerSound, Held
  <1>2. TypeInv /\ [Next]_vars => TypeInv'
    <2> SUFFICES ASSUME TypeInv, [Next]_vars PROVE TypeInv'
      OBVIOUS
    <2>1. CASE DrainNothing \/ UNCHANGED vars
      <3>1. UNCHANGED vars
        BY <2>1 DEF DrainNothing
      <3> QED
        BY <3>1 DEF vars, dbVars, streamVars, TypeInv, TypeOK, RequestsKnown, FlusherRests,
                    HandlerSound, Held
    <2> QED BY <2>1, NextSplit, ApiTyped, RelayTyped, HandlerTyped, FlusherTyped, CrashTyped
  <1> QED BY <1>1, <1>2, PTL DEF Spec

(***************************************************************************)
(* Type correctness.                                                       *)
(***************************************************************************)
THEOREM TypeCorrect == Spec => []TypeOK
  BY TypeInvariant, PTL DEF TypeInv
-----------------------------------------------------------------------------
(***************************************************************************)
(* Rows and events.  As long as every deletion is one of a live comment by *)
(* its author, the deltas of the events are what there is to count, and    *)
(* the deltas of the first events never go below zero.                     *)
(***************************************************************************)
Regular == ~irregular

EventsMatchRows == Regular => \A c \in Counter : Rows(c) = Deltas(DOMAIN evts)[c]

NeverNegative ==
  Regular => \A k \in 0..Len(evts) : \A c \in Counter : Deltas(1..k)[c] >= 0

RowsInv ==
  /\ \A c \in Counter : IsFiniteSet(Counted(c))
  /\ EventsMatchRows /\ NeverNegative

LEMMA RowsSame ==
  ASSUME RowsInv, UNCHANGED <<rows, comment, evts, irregular>>
  PROVE  RowsInv'
  <1>1. \A c \in Counter : Counted(c)' = Counted(c)
    BY DEF Counted
  <1>2. \A S : Deltas(S)' = Deltas(S)
    BY ChangingKept
  <1>3. Deltas(DOMAIN evts)' = Deltas(DOMAIN evts)
    BY DEF Deltas, Changing, Counter
  <1> QED
    BY <1>1, <1>2, <1>3 DEF RowsInv, EventsMatchRows, NeverNegative, Regular, Rows, Counter

LEMMA OneMore ==
  ASSUME NEW S, IsFiniteSet(S), NEW x, x \notin S
  PROVE  /\ IsFiniteSet(S \cup {x}) /\ Cardinality(S) \in Nat
         /\ Cardinality(S \cup {x}) = Cardinality(S) + 1
  BY FS_AddElement, FS_CardinalityType

LEMMA OneLess ==
  ASSUME NEW S, IsFiniteSet(S), NEW x
  PROVE  /\ IsFiniteSet(S \ {x}) /\ Cardinality(S) \in Nat
         /\ x \in S => Cardinality(S \ {x}) = Cardinality(S) - 1
         /\ x \notin S => S \ {x} = S
  BY FS_RemoveElement, FS_CardinalityType

LEMMA OtherCounter ==
  ASSUME NEW c \in Counter, NEW k, NEW n, c # <<k, n>>
  PROVE  c[1] # k \/ c[2] # n
  BY DEF Counter

LEMMA SeqDomain == ASSUME NEW S, NEW s \in Seq(S) PROVE DOMAIN s = 1..Len(s)
  OBVIOUS

(***************************************************************************)
(* One more event: what is counted changes with it.                        *)
(***************************************************************************)
LEMMA RowsFollow ==
  ASSUME TypeInv, RowsInv, NEW k \in Counter, NEW d \in -1..1, Enqueue(k, d),
         Regular' => Regular,
         \A c \in Counter : IsFiniteSet(Counted(c)'),
         Regular' => \A c \in Counter :
                       Cardinality(Counted(c)') = Cardinality(Counted(c)) + (IF c = k THEN d ELSE 0)
  PROVE  RowsInv'
  <1>1. \A c \in Counter :
          Deltas(DOMAIN evts)'[c] = Deltas(DOMAIN evts)[c] + (IF c = k THEN d ELSE 0)
    BY DeltasEnqueued DEF TypeInv
  <1>2. /\ DOMAIN evts' = DOMAIN evts \cup {Len(evts) + 1} /\ Len(evts') = Len(evts) + 1
        /\ \A e \in DOMAIN evts : evts'[e] = evts[e]
        /\ Len(evts) \in Nat /\ DOMAIN evts = 1..Len(evts) /\ DOMAIN evts' = 1..Len(evts')
    <2>1. Len(evts) \in Nat /\ DOMAIN evts = 1..Len(evts)
      BY DEF TypeInv, TypeOK
    <2>2. evts' \in Seq([counter: Counter, delta: -1..1])
      BY EnqueueKeeps DEF TypeInv
    <2>3. DOMAIN evts' = 1..Len(evts')
      BY <2>2, SeqDomain
    <2> QED BY <2>1, <2>3, EnqueueKeeps DEF TypeInv
  <1>3. \A c \in Counter : Cardinality(Counted(c)') \in Nat
    BY FS_CardinalityType
  <1>4. ASSUME Regular' PROVE \A c \in Counter : Rows(c)' = Deltas(DOMAIN evts)'[c]
    BY <1>1, <1>4 DEF RowsInv, EventsMatchRows, Rows
  <1>5. ASSUME Regular', NEW j \in 0..Len(evts'), NEW c \in Counter
        PROVE  Deltas(1..j)'[c] >= 0
    <2>1. CASE j = Len(evts')
      <3>1. Deltas(1..j)' = Deltas(DOMAIN evts)'
        BY <1>2, <2>1 DEF Deltas, Changing
      <3> QED BY <1>3, <1>4, <1>5, <3>1 DEF Rows
    <2>2. CASE j \in 0..Len(evts)
      <3>1. Deltas(1..j)' = Deltas(1..j)
        BY <1>2, <2>2, ChangingKept
      <3> QED BY <1>5, <2>2, <3>1 DEF RowsInv, NeverNegative
    <2> QED BY <1>2, <2>1, <2>2
  <1> QED BY <1>4, <1>5 DEF RowsInv, EventsMatchRows, NeverNegative, Counter

LEMMA CountedUser ==
  ASSUME NEW k \in Kind, NEW n \in Note
  PROVE  Counted(<<k, n>>) = {u \in User : <<k, u, n>> \in rows}
  BY CounterAssumption DEF Counted

LEMMA ApiRows == ASSUME TypeInv, RowsInv, Api PROVE RowsInv'
  <1>1. ASSUME NEW k \in Kind, NEW u \in User, NEW n \in Note, Like(k, u, n) \/ Unlike(k, u, n)
        PROVE  RowsInv'
    <2> DEFINE d == IF Like(k, u, n) THEN 1 ELSE -1
               x == <<k, n>>
    <2>1. /\ x \in Counter /\ Enqueue(x, d) /\ UNCHANGED <<comment, irregular>>
          /\ rows' = IF d = 1 THEN rows \cup {<<k, u, n>>} ELSE rows \ {<<k, u, n>>}
          /\ (d = 1) <=> <<k, u, n>> \notin rows
      BY <1>1 DEF Like, Unlike, Counter
    <2>2. ASSUME NEW c \in Counter, c # x PROVE Counted(c)' = Counted(c)
      BY <2>1, <2>2, OtherCounter DEF Counted
    <2>3. Counted(x)' = IF d = 1 THEN Counted(x) \cup {u} ELSE Counted(x) \ {u}
      BY <2>1, CounterAssumption DEF Counted
    <2>4. (d = 1) <=> u \notin Counted(x)
      BY <2>1, CounterAssumption DEF Counted
    <2>5. /\ IsFiniteSet(Counted(x)')
          /\ Cardinality(Counted(x)') = Cardinality(Counted(x)) + d
      <3>1. IsFiniteSet(Counted(x)) /\ d \in {1, -1}
        BY <2>1 DEF RowsInv
      <3> HIDE DEF d, x
      <3>2. CASE d = 1
        BY <2>3, <2>4, <3>1, <3>2, OneMore
      <3>3. CASE d = -1
        BY <2>3, <2>4, <3>1, <3>3, OneLess
      <3> QED BY <3>1, <3>2, <3>3
    <2>6. \A c \in Counter :
            /\ IsFiniteSet(Counted(c)')
            /\ Cardinality(Counted(c)') = Cardinality(Counted(c)) + (IF c = x THEN d ELSE 0)
      BY <2>2, <2>5, FS_CardinalityType DEF RowsInv
    <2> QED BY <2>1, <2>6, RowsFollow DEF Regular
  <1>2. ASSUME NEW c \in Comment, NEW n \in Note, NEW top \in BOOLEAN, CreateComment(c, n, top)
        PROVE  RowsInv'
    <2> DEFINE x == <<"comment", n>>
    <2>1. /\ x \in Counter /\ Enqueue(x, Weight(top)) /\ UNCHANGED <<rows, irregular>>
          /\ comment[c] = NoComment
          /\ comment' = [comment EXCEPT ![c] = [state |-> "live", note |-> n, top |-> top]]
      BY <1>2, CommentCounter DEF CreateComment
    <2>2. ASSUME NEW y \in Counter, y # x PROVE Counted(y)' = Counted(y)
      <3>1. y[1] # "comment" \/ y[2] # n
        BY <2>2, OtherCounter
      <3>2. \A z \in Comment : z # c => comment'[z] = comment[z]
        BY <2>1
      <3>3. comment'[c].note = n /\ comment[c].state # "live"
        BY <2>1 DEF TypeInv, TypeOK, NoComment
      <3> QED BY <2>1, <3>1, <3>2, <3>3 DEF Counted
    <2>3. Counted(x)' = IF top THEN Counted(x) \cup {c} ELSE Counted(x)
      BY <2>1 DEF Counted, TypeInv, TypeOK, NoComment
    <2>4. c \notin Counted(x)
      BY <2>1 DEF Counted, NoComment
    <2>5. /\ IsFiniteSet(Counted(x)')
          /\ Cardinality(Counted(x)') = Cardinality(Counted(x)) + Weight(top)
      BY <2>1, <2>3, <2>4, FS_AddElement, FS_CardinalityType DEF RowsInv, Weight
    <2>6. \A y \in Counter :
            /\ IsFiniteSet(Counted(y)')
            /\ Cardinality(Counted(y)') = Cardinality(Counted(y)) + (IF y = x THEN Weight(top) ELSE 0)
      BY <2>2, <2>5, FS_CardinalityType DEF RowsInv
    <2>7. Weight(top) \in -1..1
      BY WeightType
    <2> QED BY <2>1, <2>6, <2>7, RowsFollow DEF Regular
  <1>3. ASSUME NEW q \in Request, NEW c \in Comment, NEW who \in {"user", "admin"},
               SelectComment(q, who, c)
        PROVE  RowsInv'
    BY <1>3, RowsSame DEF SelectComment
  <1>4. ASSUME NEW q \in Request, DeleteComment(q)
        PROVE  RowsInv'
    <2>1. PICK c \in Comment, n \in Note, top \in BOOLEAN :
            /\ comment[c] \in [state: {"live", "deleted"}, note: Note, top: BOOLEAN]
            /\ comment[c].note = n /\ comment[c].top = top
            /\ Enqueue(<<"comment", n>>, -Weight(top)) /\ UNCHANGED rows
            /\ comment' = [comment EXCEPT ![c].state = "deleted"]
            /\ irregular' = (irregular \/ comment[c].state = "deleted")
      <3>1. comment[request[q][2]] \in [state: {"live", "deleted"}, note: Note, top: BOOLEAN]
        BY <1>4, RequestOf DEF DeleteComment
      <3>2. request[q][2] \in Comment
        BY <1>4, RequestOf DEF DeleteComment
      <3> QED BY <1>4, <3>1, <3>2 DEF DeleteComment
    <2> DEFINE x == <<"comment", n>>
               w == Weight(top)
    <2>2. x \in Counter /\ w \in 0..1 /\ -w \in -1..1
      BY CommentCounter, WeightType
    <2>3. /\ \A z \in Comment : z # c => comment'[z] = comment[z]
          /\ comment'[c] = [comment[c] EXCEPT !.state = "deleted"]
          /\ comment'[c].state = "deleted" /\ comment'[c].note = n
      BY <2>1 DEF TypeInv, TypeOK
    <2>4. ASSUME NEW y \in Counter, y # x PROVE Counted(y)' = Counted(y)
      <3>1. y[1] # "comment" \/ y[2] # n
        BY <2>4, OtherCounter
      <3> QED BY <2>1, <2>3, <3>1 DEF Counted
    <2>5. Counted(x)' = Counted(x) \ {c}
      BY <2>1, <2>3 DEF Counted
    <2>6. Regular' => (c \in Counted(x) <=> w = 1)
      BY <2>1 DEF Counted, Regular, Weight
    <2>7. \A y \in Counter : IsFiniteSet(Counted(y)) /\ Cardinality(Counted(y)) \in Nat
      BY FS_CardinalityType DEF RowsInv
    <2>9. Regular' => Regular
      BY <2>1 DEF Regular
    <2>10. Enqueue(x, -w)
      BY <2>1
    <2> HIDE DEF x, w
    <2>11. /\ IsFiniteSet(Counted(x)')
           /\ Regular' => Cardinality(Counted(x)') = Cardinality(Counted(x)) + -w
      BY <2>2, <2>5, <2>6, <2>7, OneLess
    <2>12. \A y \in Counter :
             /\ IsFiniteSet(Counted(y)')
             /\ Regular' =>
                  Cardinality(Counted(y)') = Cardinality(Counted(y)) + (IF y = x THEN -w ELSE 0)
      BY <2>2, <2>4, <2>7, <2>11
    <2> QED BY <2>2, <2>9, <2>10, <2>12, RowsFollow
  <1>5. ASSUME NEW q \in Request, DeleteCommentByID(q)
        PROVE  RowsInv'
    <2>1. irregular' = TRUE /\ rows' = rows
      BY <1>5 DEF DeleteCommentByID
    <2>2. \A y \in Counter : Counted(y)' \subseteq Counted(y)
      BY <1>5, RequestOf DEF DeleteCommentByID, Counted, TypeInv, TypeOK
    <2>3. \A y \in Counter : IsFiniteSet(Counted(y)')
      BY <2>2, FS_Subset DEF RowsInv
    <2> QED BY <2>1, <2>3 DEF RowsInv, EventsMatchRows, NeverNegative, Regular, Counter
  <1> QED BY <1>1, <1>2, <1>3, <1>4, <1>5 DEF Api

\* Relay and worker touch neither rows nor events.
LEMMA WorkerLeaves ==
  ASSUME Next, ~Api
  PROVE  UNCHANGED dbVars /\ UNCHANGED irregular
  BY NextSplit DEF Publish, Republish, HandlerStep, ReadGroup, SetNXMany, IncrByMany,
     SetNXManyFail, IncrByManyFail, FlusherStep, Drain, DrainCounters, BatchAddCounters,
     DrainCountersFail, BatchAddCountersFail, BatchAddCountersLost, RollbackFail,
     DrainNothing, vars, Crash

LEMMA RowsInvariant == Spec => []RowsInv
  <1>1. Init => RowsInv
    <2> SUFFICES ASSUME Init PROVE RowsInv
      OBVIOUS
    <2>1. \A c \in Counter : Counted(c) = {}
      BY DEF Init, Counted, Counter, NoComment
    <2>2. DOMAIN evts = {} /\ \A k \in 0..Len(evts) : 1..k = {}
      BY DEF Init
    <2>3. \A c \in Counter : IsFiniteSet(Counted(c)) /\ Rows(c) = 0
      BY <2>1, FS_EmptySet DEF Rows
    <2>4. \A k \in 0..Len(evts), c \in Counter : Deltas(1..k)[c] = 0
      BY <2>2, DeltasOfNone
    <2>5. \A c \in Counter : Deltas(DOMAIN evts)[c] = 0
      BY <2>2, DeltasOfNone
    <2> QED BY <2>3, <2>4, <2>5 DEF RowsInv, EventsMatchRows, NeverNegative
  <1>2. TypeInv /\ RowsInv /\ [Next]_vars => RowsInv'
    <2> SUFFICES ASSUME TypeInv, RowsInv, [Next]_vars PROVE RowsInv'
      OBVIOUS
    <2>1. CASE ~Api \/ UNCHANGED vars
      <3>1. UNCHANGED <<rows, comment, evts, irregular>>
        BY <2>1, WorkerLeaves DEF vars, dbVars
      <3> QED BY <3>1, RowsSame
    <2> QED BY <2>1, ApiRows
  <1> QED BY <1>1, <1>2, TypeInvariant, PTL DEF Spec
-----------------------------------------------------------------------------
(***************************************************************************)
(* Order.  Events first appear on the stream in commit order, so that what *)
(* the group has marked, and what it has added to Redis, are the events of *)
(* a prefix of the table, as long as neither pipeline fails.               *)
(***************************************************************************)
Closed(D) == \A e \in D : 1..e \subseteq D

Seen(i) == {stream[j] : j \in 1..i}

FlushOnly == faults \subseteq {"flushErr"}

StreamInOrder ==
  \A i \in DOMAIN stream : \A d \in 1..(stream[i] - 1) :
    \E j \in DOMAIN stream : j < i /\ stream[j] = d

MarkedInOrder ==
  FlushOnly =>
    /\ handler.pc # "dedup" => dedup = Seen(last)
    /\ handler.pc = "dedup" => dedup \cup handler.ids = Seen(last)
    /\ Closed(dedup) /\ Closed(dedup \ Held)

OrderInv == StreamInOrder /\ MarkedInOrder

LEMMA SeenClosed ==
  ASSUME TypeInv, StreamInOrder, NEW i \in 0..Len(stream)
  PROVE  Closed(Seen(i))
  <1>1. DOMAIN stream = 1..Len(stream) /\ Len(stream) \in Nat
        /\ \A j \in DOMAIN stream : stream[j] \in Nat
    <2>1. DOMAIN evts \subseteq Nat
      BY DEF TypeInv, TypeOK
    <2> QED BY <2>1 DEF TypeInv, TypeOK
  <1> SUFFICES ASSUME NEW j \in 1..i, NEW d \in 1..stream[j]
               PROVE  d \in Seen(i)
    BY DEF Closed, Seen
  <1>2. CASE d = stream[j]
    BY <1>2 DEF Seen
  <1>3. CASE d # stream[j]
    <2>1. j \in DOMAIN stream /\ d \in 1..(stream[j] - 1)
      BY <1>1, <1>3
    <2>2. PICK h \in DOMAIN stream : h < j /\ stream[h] = d
      BY <2>1 DEF StreamInOrder
    <2> QED BY <1>1, <2>2 DEF Seen
  <1> QED BY <1>2, <1>3

LEMMA StreamGrows ==
  ASSUME TypeInv, OrderInv, Publish \/ Republish
  PROVE  OrderInv'
  <1> DEFINE n == Len(stream) + 1
  <1>1. PICK e \in DOMAIN evts : /\ stream' = Append(stream, e)
                                 /\ e \in Published \/ \A d \in 1..(e - 1) : d \in Published
    BY DEF Publish, Republish, Published, Range, TypeInv, TypeOK
  <1>2. /\ stream \in Seq(DOMAIN evts) /\ Len(stream) \in Nat /\ last \in 0..Len(stream)
        /\ DOMAIN stream = 1..Len(stream) /\ DOMAIN stream' = 1..n
        /\ stream'[n] = e /\ \A i \in 1..Len(stream) : stream'[i] = stream[i]
    BY <1>1 DEF TypeInv, TypeOK
  <1>3. \A d \in 1..(e - 1) : \E j \in 1..Len(stream) : stream[j] = d
    <2>1. CASE e \in Published
      <3>1. PICK i \in 1..Len(stream) : stream[i] = e
        BY <1>2, <2>1 DEF Published, Range
      <3> QED BY <1>2, <3>1 DEF OrderInv, StreamInOrder
    <2>2. CASE \A d \in 1..(e - 1) : d \in Published
      BY <1>2, <2>2 DEF Published, Range
    <2> QED BY <1>1, <2>1, <2>2
  <1>4. StreamInOrder'
    <2> SUFFICES ASSUME NEW i \in 1..n, NEW d \in 1..(stream'[i] - 1)
                 PROVE  \E j \in 1..n : j < i /\ stream'[j] = d
      BY <1>2 DEF StreamInOrder
    <2>1. CASE i = n
      <3>1. PICK j \in 1..Len(stream) : stream[j] = d
        BY <1>2, <1>3, <2>1
      <3> QED BY <1>2, <2>1, <3>1
    <2>2. CASE i \in 1..Len(stream)
      <3>1. PICK j \in 1..Len(stream) : j < i /\ stream[j] = d
        BY <1>2, <2>2 DEF OrderInv, StreamInOrder
      <3> QED BY <1>2, <3>1
    <2> QED BY <1>2, <2>1, <2>2
  <1>5. Seen(last)' = Seen(last) /\ UNCHANGED <<last, handler, dedup, faults>>
    BY <1>2 DEF Seen, Publish, Republish
  <1> QED BY <1>4, <1>5 DEF OrderInv, MarkedInOrder, FlushOnly, Closed, Held

LEMMA HandlerOrder ==
  ASSUME TypeInv, OrderInv, HandlerStep
  PROVE  OrderInv'
  <1>1. stream' = stream /\ StreamInOrder' /\ faults' = faults
    BY DEF HandlerStep, ReadGroup, SetNXMany, IncrByMany, OrderInv, StreamInOrder, streamVars
  <1> SUFFICES ASSUME FlushOnly PROVE MarkedInOrder'
    BY <1>1 DEF OrderInv, MarkedInOrder, FlushOnly
  <1>2. CASE ReadGroup
    <2> PICK to \in (last + 1)..Len(stream) :
          /\ last' = to
          /\ handler' = [pc |-> "dedup", ids |-> {stream[i] : i \in (last + 1)..to}]
      BY <1>2, ReadGroupReads DEF TypeInv
    <2>1. last \in Nat /\ Len(stream) \in Nat /\ last <= to /\ to \in Nat
      BY DEF TypeInv, TypeOK
    <2>2. dedup' = dedup /\ dedup = Seen(last) /\ Closed(dedup) /\ Held' = {}
      BY <1>2 DEF ReadGroup, OrderInv, MarkedInOrder, Held
    <2>3. Seen(last)' = Seen(last) \cup handler'.ids
      BY <1>1, <2>1 DEF Seen
    <2> QED BY <2>2, <2>3 DEF MarkedInOrder, Closed
  <1>3. CASE SetNXMany
    <2>1. /\ handler' = [pc |-> "incr", ids |-> handler.ids \ dedup]
          /\ dedup' = dedup \cup handler.ids /\ last' = last
          /\ handler.pc = "dedup"
      BY <1>3 DEF SetNXMany, streamVars
    <2>2. dedup' = Seen(last)' /\ dedup' = Seen(last) /\ Closed(dedup)
      BY <1>1, <2>1 DEF OrderInv, MarkedInOrder, Seen
    <2>3. Closed(Seen(last))
      BY SeenClosed DEF TypeInv, TypeOK, OrderInv
    <2>4. Held' = handler.ids \ dedup /\ dedup' \ Held' = dedup
      BY <2>1 DEF Held
    <2>5. Closed(dedup)' /\ Closed(dedup \ Held)'
      BY <2>2, <2>3, <2>4 DEF Closed
    <2> QED BY <2>1, <2>2, <2>5 DEF MarkedInOrder
  <1>4. CASE IncrByMany
    <2>1. handler'.pc = "idle" /\ dedup' = dedup /\ last' = last /\ handler.pc = "incr" /\ Held' = {}
      BY <1>4 DEF IncrByMany, Idle, streamVars, Held
    <2> QED BY <1>1, <2>1 DEF OrderInv, MarkedInOrder, Closed, Seen
  <1> QED BY <1>2, <1>3, <1>4 DEF HandlerStep

LEMMA OrderInvariant == Spec => []OrderInv
  <1>1. Init => OrderInv
    <2> SUFFICES ASSUME Init PROVE OrderInv
      OBVIOUS
    <2>1. Seen(last) = {} /\ DOMAIN stream = {}
      BY DEF Init, Seen
    <2> QED BY <2>1 DEF Init, OrderInv, StreamInOrder, MarkedInOrder, Closed, Held
  <1>2. TypeInv /\ OrderInv /\ [Next]_vars => OrderInv'
    <2> SUFFICES ASSUME TypeInv, OrderInv, [Next]_vars PROVE OrderInv'
      OBVIOUS
    <2>1. ASSUME UNCHANGED <<stream, last, handler, dedup>>, faults \subseteq faults'
          PROVE  OrderInv'
      BY <2>1 DEF OrderInv, StreamInOrder, MarkedInOrder, FlushOnly, Closed, Seen, Held
    <2>2. CASE Api
      BY <2>1, <2>2 DEF Api, Like, Unlike, CreateComment, SelectComment, DeleteComment,
                        DeleteCommentByID, streamVars
    <2>3. CASE FlusherStep \/ DrainNothing \/ UNCHANGED vars
      BY <2>1, <2>3
      DEF FlusherStep, Drain, DrainCounters, BatchAddCounters, DrainCountersFail,
          BatchAddCountersFail, BatchAddCountersLost, RollbackFail, Fails, DrainNothing,
          vars, streamVars
    <2>4. CASE SetNXManyFail \/ IncrByManyFail \/ Crash
      <3>1. stream' = stream /\ ~FlushOnly'
        BY <2>4 DEF SetNXManyFail, IncrByManyFail, Crash, Fails, FlushOnly, streamVars
      <3> QED BY <3>1 DEF OrderInv, StreamInOrder, MarkedInOrder
    <2> QED BY <2>2, <2>3, <2>4, NextSplit, StreamGrows, HandlerOrder
  <1> QED BY <1>1, <1>2, TypeInvariant, PTL DEF Spec
-----------------------------------------------------------------------------
(***************************************************************************)
(* Balance.  While at worst a flush has failed, what is in MySQL, Redis    *)
(* and the flusher is what the counted events say, and the UPDATE of a     *)
(* flush never has to keep a count from going below zero: what a flush     *)
(* leaves there is what a prefix of the events says.                       *)
(***************************************************************************)
Done == dedup \ Held

Balanced == \A c \in Counter : InRedisOrBeyond(c) = Deltas(Done)[c]

FlushNotBelowZero ==
  flusher.busy => \A n \in Note : count[<<"comment", n>>] + flusher.drained[<<"comment", n>>] >= 0

BalanceInv == NothingAmiss => Balanced /\ FlushNotBelowZero

LEMMA ClosedIsPrefix ==
  ASSUME NEW n \in Nat, NEW D \in SUBSET (1..n), Closed(D)
  PROVE  \E k \in 0..n : D = 1..k
  <1>1. IsFiniteSet(D) /\ Cardinality(D) \in Nat /\ Cardinality(D) <= n
    <2>1. IsFiniteSet(1..n) /\ Cardinality(1..n) = n
      BY FS_Interval
    <2> QED BY <2>1, FS_Subset, FS_CardinalityType
  <1> DEFINE k == Cardinality(D)
  <1>2. D \subseteq 1..k
    <2> SUFFICES ASSUME NEW e \in D PROVE e <= k
      BY <1>1
    <2>1. 1..e \subseteq D /\ e \in Nat
      BY DEF Closed
    <2>2. Cardinality(1..e) = e
      BY <2>1, FS_Interval
    <2>3. Cardinality(1..e) <= Cardinality(D)
      BY <1>1, <2>1, FS_Subset
    <2> QED BY <2>2, <2>3
  <1>3. IsFiniteSet(1..k) /\ Cardinality(1..k) = k
    BY <1>1, FS_Interval
  <1>4. D = 1..k
    BY <1>2, <1>3, FS_Subset
  <1> QED BY <1>1, <1>4

LEMMA DoneNotBelowZero ==
  ASSUME TypeInv, RowsInv, OrderInv, NothingAmiss, NEW c \in Counter
  PROVE  Deltas(Done)[c] >= 0
  <1>1. Len(evts) \in Nat /\ Done \in SUBSET (1..Len(evts)) /\ Closed(Done)
    BY DEF TypeInv, TypeOK, OrderInv, MarkedInOrder, NothingAmiss, FlushOnly, Done
  <1>2. PICK k \in 0..Len(evts) : Done = 1..k
    BY <1>1, ClosedIsPrefix
  <1> QED BY <1>2 DEF RowsInv, NeverNegative, NothingAmiss, Regular

LEMMA DoneKept ==
  ASSUME TypeInv, Done' = Done, \A e \in DOMAIN evts : evts'[e] = evts[e]
  PROVE  Deltas(Done)' = Deltas(Done)
  <1>1. PICK D \in SUBSET DOMAIN evts : D = Done
    BY DEF TypeInv, TypeOK, Done
  <1>2. Deltas(D)' = Deltas(D)
    BY ChangingKept
  <1>3. Deltas(Done)' = Deltas(D)'
    BY <1>1 DEF Deltas, Changing
  <1> QED BY <1>1, <1>2, <1>3

\* The counters hold integers.
LEMMA CountersTyped ==
  ASSUME TypeInv, NEW c \in Counter
  PROVE  count[c] \in Int /\ redis[c] \in Int /\ flusher.drained[c] \in Int
  BY DEF TypeInv, TypeOK

LEMMA EvtsKept ==
  ASSUME TypeInv, [Next]_vars
  PROVE  \A e \in DOMAIN evts : evts'[e] = evts[e]
  <1>1. ASSUME NEW k \in Kind, NEW u \in User, NEW n \in Note, Like(k, u, n) \/ Unlike(k, u, n)
        PROVE  \A e \in DOMAIN evts : evts'[e] = evts[e]
    <2>1. PICK d \in -1..1 : Enqueue(<<k, n>>, d)
      BY <1>1 DEF Like, Unlike
    <2>2. <<k, n>> \in Counter
      BY DEF Counter
    <2> QED BY <2>1, <2>2, EnqueueKeeps DEF TypeInv
  <1>2. ASSUME NEW c \in Comment, NEW n \in Note, NEW top \in BOOLEAN, CreateComment(c, n, top)
        PROVE  \A e \in DOMAIN evts : evts'[e] = evts[e]
    <2>1. Weight(top) \in -1..1
      BY WeightType
    <2> QED BY <1>2, <2>1, EnqueueKeeps, CommentCounter DEF CreateComment, TypeInv
  <1>3. ASSUME NEW q \in Request, DeleteComment(q)
        PROVE  \A e \in DOMAIN evts : evts'[e] = evts[e]
    <2>1. comment[request[q][2]] \in [state: {"live", "deleted"}, note: Note, top: BOOLEAN]
      BY <1>3, RequestOf DEF DeleteComment
    <2>2. /\ -Weight(comment[request[q][2]].top) \in -1..1
          /\ <<"comment", comment[request[q][2]].note>> \in Counter
      BY <2>1, WeightType, CommentCounter
    <2> QED BY <1>3, <2>2, EnqueueKeeps DEF DeleteComment, TypeInv
  <1>4. CASE ~Api \/ UNCHANGED vars
    BY <1>4, WorkerLeaves DEF vars, dbVars
  <1> QED BY <1>1, <1>2, <1>3, <1>4 DEF Api, SelectComment, DeleteCommentByID

LEMMA HandlerBalance ==
  ASSUME TypeInv, Balanced, HandlerStep
  PROVE  Balanced'
  <1>1. UNCHANGED <<evts, count, flusher>>
    BY DEF HandlerStep, ReadGroup, SetNXMany, IncrByMany, dbVars
  <1>2. CASE ReadGroup \/ SetNXMany
    <2>1. Done' = Done /\ redis' = redis
      BY <1>2, ReadGroupReads DEF ReadGroup, SetNXMany, Done, Held, TypeInv
    <2>2. Deltas(Done)' = Deltas(Done)
      BY <1>1, <2>1, DoneKept
    <2> QED BY <1>1, <2>1, <2>2 DEF Balanced, InRedisOrBeyond, Counter
  <1>3. CASE IncrByMany
    <2>1. PICK H \in SUBSET DOMAIN evts : H = handler.ids
      BY DEF TypeInv, TypeOK
    <2>2. /\ Held = H /\ Held' = {} /\ dedup' = dedup /\ H \subseteq dedup
          /\ redis' = Plus(redis, Deltas(H))
      BY <1>3, <2>1 DEF IncrByMany, Held, Idle, TypeInv, HandlerSound
    <2>3. IsFiniteSet(Done) /\ IsFiniteSet(H) /\ Done \cap H = {} /\ dedup = Done \cup H
      BY <2>2, EventsFinite DEF Done, TypeInv, TypeOK
    <2>4. Deltas(Done)' = Deltas(dedup)
      BY <1>1, <2>2 DEF Deltas, Changing, Counter, Done
    <2>5. ASSUME NEW c \in Counter PROVE InRedisOrBeyond(c)' = Deltas(Done)'[c]
      <3>1. Deltas(dedup)[c] = Deltas(Done)[c] + Deltas(H)[c]
        BY <2>3, DeltasOfUnion
      <3>2. redis'[c] = redis[c] + Deltas(H)[c] /\ Deltas(H)[c] \in Int
        BY <2>2, <2>3, DeltasType DEF Plus
      <3> QED BY <1>1, <2>4, <3>1, <3>2, CountersTyped DEF Balanced, InRedisOrBeyond
    <2> QED BY <2>5 DEF Balanced, Counter
  <1> QED BY <1>2, <1>3 DEF HandlerStep

LEMMA FlusherBalance ==
  ASSUME TypeInv, RowsInv, OrderInv, NothingAmiss, Balanced, FlushNotBelowZero,
         FlusherStep, NothingAmiss'
  PROVE  Balanced' /\ FlushNotBelowZero'
  <1>1. UNCHANGED <<dbVars, handler, dedup>>
    BY DEF FlusherStep, Drain, DrainCounters, BatchAddCounters, DrainCountersFail,
         BatchAddCountersFail, BatchAddCountersLost, RollbackFail
  <1>2. Deltas(Done)' = Deltas(Done)
    BY <1>1, DoneKept DEF Done, Held, dbVars
  <1>3. ASSUME NEW K \in SUBSET Counter, DrainCounters(K)
        PROVE  Balanced' /\ FlushNotBelowZero'
    <2>1. ASSUME NEW c \in Counter
          PROVE  /\ count'[c] = count[c] /\ flusher.drained[c] = 0
                 /\ flusher'.drained[c] = (IF c \in K THEN redis[c] ELSE 0)
                 /\ redis'[c] = (IF c \in K THEN 0 ELSE redis[c])
      BY <1>3 DEF DrainCounters, Reset, Drained, TypeInv, FlusherRests, Zero
    <2>2. Balanced'
      BY <1>2, <2>1, CountersTyped DEF Balanced, InRedisOrBeyond, Counter
    <2>3. ASSUME NEW n \in Note
          PROVE  count'[<<"comment", n>>] + flusher'.drained[<<"comment", n>>] >= 0
      <3> DEFINE c == <<"comment", n>>
      <3>1. c \in Counter /\ count[c] >= 0
        BY CommentCounter DEF TypeInv, TypeOK
      <3>2. count[c] + redis[c] + flusher.drained[c] >= 0
        BY <3>1, DoneNotBelowZero DEF Balanced, InRedisOrBeyond
      <3> HIDE DEF c
      <3>3. count'[c] + flusher'.drained[c] >= 0
        BY <2>1, <3>1, <3>2, CountersTyped
      <3> QED BY <3>3 DEF c
    <2> QED BY <2>2, <2>3 DEF FlushNotBelowZero
  <1>4. CASE BatchAddCounters
    <2>1. ASSUME NEW c \in Counter
          PROVE  /\ count'[c] = count[c] + flusher.drained[c] /\ redis'[c] = redis[c]
                 /\ flusher'.drained[c] = 0
      <3>1. c[1] = "comment" => count[c] + flusher.drained[c] >= 0
        BY <1>4 DEF FlushNotBelowZero, BatchAddCounters, Counter
      <3> QED
        BY <1>4, <3>1, CountersTyped DEF BatchAddCounters, Added, AtLeastZero, NotFlushing, Zero
    <2> QED
      BY <1>2, <1>4, <2>1, CountersTyped
      DEF Balanced, InRedisOrBeyond, Counter, FlushNotBelowZero, BatchAddCounters, NotFlushing
  <1>5. CASE BatchAddCountersFail
    <2>1. ASSUME NEW c \in Counter
          PROVE  /\ count'[c] = count[c] /\ redis'[c] = redis[c] + flusher.drained[c]
                 /\ flusher'.drained[c] = 0
      BY <1>5 DEF BatchAddCountersFail, Plus, NotFlushing, Zero
    <2> QED
      BY <1>2, <1>5, <2>1, CountersTyped
      DEF Balanced, InRedisOrBeyond, Counter, FlushNotBelowZero, BatchAddCountersFail, NotFlushing
  <1>6. ~BatchAddCountersLost /\ ~RollbackFail /\ \A K : ~DrainCountersFail(K)
    BY DEF NothingAmiss, BatchAddCountersLost, RollbackFail, DrainCountersFail, Fails
  <1> QED BY <1>3, <1>4, <1>5, <1>6 DEF FlusherStep, Drain

LEMMA AmissStays ==
  ASSUME TypeInv, [Next]_vars, NothingAmiss'
  PROVE  NothingAmiss
  <1>1. Api => (irregular = TRUE => irregular' = TRUE) /\ faults' = faults
    <2>1. \A q \in Request : DeleteComment(q) => (irregular = TRUE => irregular' = TRUE)
      BY DEF DeleteComment, TypeInv, TypeOK
    <2> QED
      BY <2>1 DEF Api, Like, Unlike, CreateComment, SelectComment, DeleteComment, DeleteCommentByID
  <1>2. Next /\ ~Api => faults \subseteq faults'
    BY NextSplit DEF Publish, Republish, HandlerStep, ReadGroup, SetNXMany, IncrByMany,
       SetNXManyFail, IncrByManyFail, FlusherStep, Drain, DrainCounters, BatchAddCounters,
       DrainCountersFail, BatchAddCountersFail, BatchAddCountersLost, RollbackFail,
       DrainNothing, vars, Crash, Fails
  <1>3. irregular \in BOOLEAN /\ ~irregular' /\ faults' \subseteq {"flushErr"}
    BY DEF TypeInv, TypeOK, NothingAmiss
  <1>4. CASE Api
    BY <1>1, <1>3, <1>4 DEF NothingAmiss
  <1>5. CASE Next /\ ~Api
    BY <1>2, <1>3, <1>5, WorkerLeaves DEF NothingAmiss
  <1>6. CASE UNCHANGED vars
    BY <1>3, <1>6 DEF NothingAmiss, vars
  <1> QED BY <1>4, <1>5, <1>6

LEMMA BalanceInvariant == Spec => []BalanceInv
  <1>1. Init => BalanceInv
    <2> SUFFICES ASSUME Init PROVE Balanced /\ FlushNotBelowZero
      BY DEF BalanceInv
    <2>1. Done = {} /\ ~flusher.busy
      BY DEF Init, Done, Held
    <2>2. \A c \in Counter : Deltas(Done)[c] = 0 /\ InRedisOrBeyond(c) = 0
      BY <2>1, DeltasOfNone, ZeroType DEF Init, InRedisOrBeyond
    <2> QED BY <2>1, <2>2 DEF Balanced, FlushNotBelowZero
  <1>2. TypeInv /\ RowsInv /\ OrderInv /\ BalanceInv /\ [Next]_vars => BalanceInv'
    <2> SUFFICES ASSUME TypeInv, RowsInv, OrderInv, BalanceInv, [Next]_vars, NothingAmiss'
                 PROVE  Balanced' /\ FlushNotBelowZero'
      BY DEF BalanceInv
    <2>1. NothingAmiss /\ Balanced /\ FlushNotBelowZero
      BY AmissStays DEF BalanceInv
    <2>2. ASSUME UNCHANGED <<handler, dedup, count, redis, flusher>>
          PROVE  Balanced' /\ FlushNotBelowZero'
      <3>1. Deltas(Done)' = Deltas(Done)
        BY <2>2, DoneKept, EvtsKept DEF Done, Held
      <3> QED
        BY <2>1, <2>2, <3>1 DEF Balanced, FlushNotBelowZero, InRedisOrBeyond, Counter
    <2>3. CASE Api
      <3>1. \A q \in Request : ~DeleteCommentByID(q)
        BY DEF NothingAmiss, DeleteCommentByID
      <3> QED
        BY <2>2, <2>3, <3>1 DEF Api, Like, Unlike, CreateComment, SelectComment, DeleteComment
    <2>4. CASE Publish \/ Republish \/ DrainNothing \/ UNCHANGED vars
      BY <2>2, <2>4 DEF Publish, Republish, DrainNothing, vars
    <2>5. CASE HandlerStep
      <3>1. UNCHANGED <<count, flusher>>
        BY <2>5 DEF HandlerStep, ReadGroup, SetNXMany, IncrByMany
      <3> QED BY <2>1, <2>5, <3>1, HandlerBalance DEF FlushNotBelowZero
    <2>6. CASE FlusherStep
      BY <2>1, <2>6, FlusherBalance
    <2>7. ~SetNXManyFail /\ ~IncrByManyFail /\ ~Crash
      BY DEF NothingAmiss, SetNXManyFail, IncrByManyFail, Crash, Fails
    <2> QED BY <2>3, <2>4, <2>5, <2>6, <2>7, NextSplit
  <1> QED BY <1>1, <1>2, TypeInvariant, RowsInvariant, OrderInvariant, PTL DEF Spec

(***************************************************************************)
(* Nothing is lost and nothing counted twice on the way from a row to      *)
(* notes.*_count, in any interleaving of transactions, redeliveries,       *)
(* batches, flushes and failed flushes, as long as every deletion is of a  *)
(* live comment by its author (counterBatchHandler and flushCounters,      *)
(* main.go:199-365).                                                       *)
(***************************************************************************)
THEOREM ConservedHolds == Spec => []Conserved
  <1>1. TypeInv /\ RowsInv /\ BalanceInv => Conserved
    <2> SUFFICES ASSUME TypeInv, RowsInv, BalanceInv, NothingAmiss, NEW c \in Counter
                 PROVE  Rows(c) = InRedisOrBeyond(c) + Deltas(Uncounted)[c]
      BY DEF Conserved
    <2>1. /\ DOMAIN evts = Done \cup Uncounted /\ Done \cap Uncounted = {}
          /\ IsFiniteSet(Done) /\ IsFiniteSet(Uncounted)
      BY EventsFinite DEF Done, Uncounted, Held, TypeInv, TypeOK, HandlerSound
    <2>2. Deltas(DOMAIN evts)[c] = Deltas(Done)[c] + Deltas(Uncounted)[c]
      BY <2>1, DeltasOfUnion
    <2> QED
      BY <2>2 DEF RowsInv, EventsMatchRows, BalanceInv, Balanced, NothingAmiss, Regular
  <1> QED BY <1>1, TypeInvariant, RowsInvariant, BalanceInvariant, PTL
-----------------------------------------------------------------------------
(***************************************************************************)
(* No double count, without any condition on who deletes what, and after   *)
(* any fault but one: counts of either sign that are in MySQL, in Redis,   *)
(* with the flusher or with the handler are of different marked events.    *)
(***************************************************************************)
Pos(i) == IF i > 0 THEN i ELSE 0

Marked(c, d) == Cardinality(Changing(dedup, c, d))

InHand(c, d) == Cardinality(Changing(Held, c, d))

Backed(c) ==
  /\ Pos(count[c]) + Pos(redis[c]) + Pos(flusher.drained[c]) + InHand(c, 1) <= Marked(c, 1)
  /\ Pos(-count[c]) + Pos(-redis[c]) + Pos(-flusher.drained[c]) + InHand(c, -1) <= Marked(c, -1)

OnceInv == "flushLost" \notin faults => \A c \in Counter : Backed(c)

LEMMA PosType == \A i \in Int : Pos(i) \in Nat /\ Pos(-i) \in Nat
  BY DEF Pos

LEMMA HandType ==
  ASSUME TypeInv, NEW c, NEW d
  PROVE  InHand(c, d) \in Nat /\ Marked(c, d) \in Nat
  <1>1. IsFiniteSet(Held) /\ IsFiniteSet(dedup)
    BY EventsFinite DEF TypeInv, TypeOK, Held
  <1> QED BY <1>1, ChangingFinite DEF InHand, Marked

\* The counts move, the handler and its marks do not.
LEMMA CountsMove ==
  ASSUME TypeInv, NEW c \in Counter, Backed(c),
         UNCHANGED <<handler, dedup>>, \A e \in DOMAIN evts : evts'[e] = evts[e],
         Pos(count'[c]) + Pos(redis'[c]) + Pos(flusher'.drained[c])
           <= Pos(count[c]) + Pos(redis[c]) + Pos(flusher.drained[c]),
         Pos(-count'[c]) + Pos(-redis'[c]) + Pos(-flusher'.drained[c])
           <= Pos(-count[c]) + Pos(-redis[c]) + Pos(-flusher.drained[c]),
         count'[c] \in Int, redis'[c] \in Int, flusher'.drained[c] \in Int
  PROVE  Backed(c)'
  <1>1. Held' = Held /\ Held \subseteq DOMAIN evts /\ dedup \subseteq DOMAIN evts
    BY DEF Held, TypeInv, TypeOK
  <1>2. \A d : InHand(c, d)' = InHand(c, d) /\ Marked(c, d)' = Marked(c, d)
    BY <1>1 DEF InHand, Marked, Changing
  <1>3. /\ Pos(count[c]) \in Nat /\ Pos(redis[c]) \in Nat /\ Pos(flusher.drained[c]) \in Nat
        /\ Pos(-count[c]) \in Nat /\ Pos(-redis[c]) \in Nat /\ Pos(-flusher.drained[c]) \in Nat
        /\ Pos(count'[c]) \in Nat /\ Pos(redis'[c]) \in Nat /\ Pos(flusher'.drained[c]) \in Nat
        /\ Pos(-count'[c]) \in Nat /\ Pos(-redis'[c]) \in Nat /\ Pos(-flusher'.drained[c]) \in Nat
    BY CountersTyped, PosType
  <1> QED BY <1>2, <1>3, HandType DEF Backed

LEMMA HandlerOnce ==
  ASSUME TypeInv, NEW c \in Counter, Backed(c), HandlerStep \/ SetNXManyFail \/ IncrByManyFail
  PROVE  Backed(c)'
  <1>1. UNCHANGED <<evts, count, flusher>>
    BY DEF HandlerStep, ReadGroup, SetNXMany, IncrByMany, SetNXManyFail, IncrByManyFail, dbVars
  <1>2. IsFiniteSet(Held) /\ IsFiniteSet(dedup) /\ IsFiniteSet(handler.ids)
    BY EventsFinite DEF TypeInv, TypeOK, Held
  <1>3. \A S, d : Changing(S, c, d)' = Changing(S, c, d)
    BY <1>1 DEF Changing
  <1>4. CASE ReadGroup
    <2>1. Held' = Held /\ dedup' = dedup /\ redis' = redis
      BY <1>4, ReadGroupReads DEF ReadGroup, Held, TypeInv
    <2>2. \A d : InHand(c, d)' = InHand(c, d) /\ Marked(c, d)' = Marked(c, d)
      BY <1>1, <2>1 DEF InHand, Marked, Changing
    <2> QED BY <1>1, <2>1, <2>2 DEF Backed
  <1>5. CASE SetNXMany
    <2>1. PICK new \in SUBSET DOMAIN evts : new = handler.ids \ dedup
      BY DEF TypeInv, TypeOK
    <2>2. /\ Held = {} /\ Held' = new /\ dedup' = dedup \cup new /\ redis' = redis
          /\ IsFiniteSet(new) /\ new \cap dedup = {}
      BY <1>5, <2>1, EventsFinite DEF SetNXMany, Held, TypeInv
    <2>3. ASSUME NEW d
          PROVE  InHand(c, d) = 0 /\ Marked(c, d)' = Marked(c, d) + InHand(c, d)'
      <3>1. Changing(Held, c, d) = {} /\ InHand(c, d) = 0
        BY <2>2, FS_EmptySet DEF Changing, InHand
      <3>2. /\ Changing(dedup, c, d) \cap Changing(new, c, d) = {}
            /\ Changing(dedup, c, d) \cup Changing(new, c, d) = Changing(dedup \cup new, c, d)
        BY <2>2 DEF Changing
      <3>3. Cardinality(Changing(dedup \cup new, c, d)) =
              Cardinality(Changing(dedup, c, d)) + Cardinality(Changing(new, c, d))
        BY <1>2, <2>2, <3>2, CardinalityOfUnion, ChangingFinite
      <3>4. /\ Marked(c, d)' = Cardinality(Changing(dedup \cup new, c, d))
            /\ InHand(c, d)' = Cardinality(Changing(new, c, d))
        BY <1>1, <2>2 DEF Marked, InHand, Changing
      <3> QED BY <3>1, <3>3, <3>4 DEF Marked
    <2>4. \A d : InHand(c, d)' \in Nat
      BY <1>1, <2>2, ChangingFinite DEF InHand, Changing
    <2> QED BY <1>1, <2>2, <2>3, <2>4, HandType, CountersTyped DEF Backed, Pos
  <1>6. CASE SetNXManyFail
    <2>1. Held = {} /\ Held' = {} /\ dedup \subseteq dedup' /\ redis' = redis
          /\ dedup' \in SUBSET DOMAIN evts
      BY <1>6 DEF SetNXManyFail, Held, Idle, TypeInv, TypeOK
    <2>2. ASSUME NEW d
          PROVE  InHand(c, d)' = InHand(c, d) /\ Marked(c, d) <= Marked(c, d)' /\ Marked(c, d)' \in Nat
      <3>1. IsFiniteSet(dedup')
        BY <2>1, EventsFinite DEF TypeInv
      <3>2. Changing(dedup, c, d) \subseteq Changing(dedup', c, d)
        BY <2>1 DEF Changing
      <3>3. /\ IsFiniteSet(Changing(dedup', c, d))
            /\ Cardinality(Changing(dedup', c, d)) \in Nat
        BY <3>1, ChangingFinite
      <3>4. Cardinality(Changing(dedup, c, d)) <= Cardinality(Changing(dedup', c, d))
        BY <3>2, <3>3, FS_Subset
      <3>5. Marked(c, d)' = Cardinality(Changing(dedup', c, d)) /\ InHand(c, d)' = InHand(c, d)
        BY <1>1, <2>1 DEF Marked, InHand, Changing
      <3> QED BY <3>3, <3>4, <3>5 DEF Marked
    <2> QED BY <1>1, <2>1, <2>2, HandType, CountersTyped DEF Backed, Pos
  <1>7. CASE IncrByMany \/ IncrByManyFail
    <2>1. /\ Held = handler.ids /\ Held' = {} /\ dedup' = dedup
          /\ redis'[c] = redis[c] \/ redis'[c] = redis[c] + Deltas(Held)[c]
      <3>1. handler.pc = "incr" /\ handler' = Idle /\ dedup' = dedup
        BY <1>7 DEF IncrByMany, IncrByManyFail
      <3>2. Held = handler.ids /\ Held' = {}
        BY <3>1 DEF Held, Idle
      <3>3. redis[c] \in Int
        BY CountersTyped
      <3> QED BY <1>7, <3>1, <3>2, <3>3 DEF IncrByMany, IncrByManyFail, Plus
    <2>2. \A d : InHand(c, d)' = 0 /\ Marked(c, d)' = Marked(c, d)
      <3>1. \A d : Changing(Held, c, d)' = {} /\ Changing(dedup, c, d)' = Changing(dedup, c, d)
        BY <1>1, <2>1 DEF Changing
      <3> QED BY <3>1, FS_EmptySet DEF InHand, Marked
    <2>3. Deltas(Held)[c] = InHand(c, 1) - InHand(c, -1)
      BY DEF Deltas, InHand
    <2> QED BY <1>1, <2>1, <2>2, <2>3, HandType, CountersTyped DEF Backed, Pos
  <1> QED BY <1>4, <1>5, <1>6, <1>7 DEF HandlerStep

LEMMA FlusherOnce ==
  ASSUME TypeInv, NEW c \in Counter, Backed(c), FlusherStep, "flushLost" \notin faults'
  PROVE  Backed(c)'
  <1>1. UNCHANGED <<evts, handler, dedup>>
    BY DEF FlusherStep, Drain, DrainCounters, BatchAddCounters, DrainCountersFail,
         BatchAddCountersFail, BatchAddCountersLost, RollbackFail, dbVars
  <1>2. count[c] \in Int /\ redis[c] \in Int /\ flusher.drained[c] \in Int
    BY CountersTyped
  <1>3. \/ /\ count'[c] = count[c]
           /\ redis'[c] = redis[c] /\ flusher'.drained[c] = flusher.drained[c]
        \/ /\ count'[c] = count[c] /\ flusher.drained[c] = 0
           /\ redis'[c] = 0 /\ flusher'.drained[c] \in {0, redis[c]}
        \/ /\ count'[c] = count[c] + flusher.drained[c] \/ count'[c] = 0
           /\ redis'[c] = redis[c] /\ flusher'.drained[c] = 0
        \/ /\ count'[c] = count[c] /\ flusher'.drained[c] = 0
           /\ redis'[c] \in {redis[c], redis[c] + flusher.drained[c]}
    <2>1. ASSUME NEW K \in SUBSET Counter, DrainCounters(K)
          PROVE  /\ count'[c] = count[c] /\ flusher.drained[c] = 0
                 /\ flusher'.drained[c] = (IF c \in K THEN redis[c] ELSE 0)
                 /\ redis'[c] = (IF c \in K THEN 0 ELSE redis[c])
      BY <2>1 DEF DrainCounters, Reset, Drained, TypeInv, FlusherRests, Zero
    <2>2. ASSUME NEW K \in SUBSET Counter, DrainCountersFail(K)
          PROVE  /\ count'[c] = count[c] /\ flusher.drained[c] = 0 /\ flusher'.drained[c] = 0
                 /\ redis'[c] = (IF c \in K THEN 0 ELSE redis[c])
      BY <2>2 DEF DrainCountersFail, Reset, TypeInv, FlusherRests, Zero
    <2>3. CASE BatchAddCounters
      BY <1>2, <2>3 DEF BatchAddCounters, Added, AtLeastZero, NotFlushing, Zero
    <2>4. CASE BatchAddCountersFail
      BY <2>4 DEF BatchAddCountersFail, Plus, NotFlushing, Zero
    <2>5. CASE RollbackFail
      BY <1>2, <2>5 DEF RollbackFail, NotFlushing, Zero
    <2>6. ~BatchAddCountersLost
      BY DEF BatchAddCountersLost, Fails
    <2> QED BY <2>1, <2>2, <2>3, <2>4, <2>5, <2>6 DEF FlusherStep, Drain
  <1>4. count'[c] \in Int /\ redis'[c] \in Int /\ flusher'.drained[c] \in Int
    BY <1>2, <1>3
  <1>5. Pos(count'[c]) + Pos(redis'[c]) + Pos(flusher'.drained[c])
          <= Pos(count[c]) + Pos(redis[c]) + Pos(flusher.drained[c])
    BY <1>2, <1>3 DEF Pos
  <1>6. Pos(-count'[c]) + Pos(-redis'[c]) + Pos(-flusher'.drained[c])
          <= Pos(-count[c]) + Pos(-redis[c]) + Pos(-flusher.drained[c])
    BY <1>2, <1>3 DEF Pos
  <1>7. \A e \in DOMAIN evts : evts'[e] = evts[e]
    BY <1>1
  <1> QED BY <1>1, <1>4, <1>5, <1>6, <1>7, CountsMove

LEMMA OnceInvariant == Spec => []OnceInv
  <1>1. Init => OnceInv
    <2> SUFFICES ASSUME Init, NEW c \in Counter PROVE Backed(c)
      BY DEF OnceInv
    <2>1. \A d : Changing(Held, c, d) = {} /\ Changing(dedup, c, d) = {}
      BY DEF Init, Changing, Held
    <2>2. \A d : InHand(c, d) = 0 /\ Marked(c, d) = 0
      BY <2>1, FS_EmptySet DEF InHand, Marked
    <2> QED BY <2>2, ZeroType DEF Init, Backed, Pos
  <1>2. TypeInv /\ TypeInv' /\ OnceInv /\ [Next]_vars => OnceInv'
    <2> SUFFICES ASSUME TypeInv, TypeInv', OnceInv, [Next]_vars, "flushLost" \notin faults',
                        NEW c \in Counter
                 PROVE  Backed(c)'
      BY DEF OnceInv, Counter
    <2>1. faults \subseteq faults'
      BY NextSplit DEF Api, Like, Unlike, CreateComment, SelectComment, DeleteComment,
         DeleteCommentByID, Publish, Republish, HandlerStep, ReadGroup, SetNXMany, IncrByMany,
         SetNXManyFail, IncrByManyFail, FlusherStep, Drain, DrainCounters, BatchAddCounters,
         DrainCountersFail, BatchAddCountersFail, BatchAddCountersLost, RollbackFail,
         DrainNothing, vars, Crash, Fails
    <2>2. Backed(c) /\ \A e \in DOMAIN evts : evts'[e] = evts[e]
      BY <2>1, EvtsKept DEF OnceInv
    <2>3. ASSUME UNCHANGED <<handler, dedup, count, redis, flusher>>
          PROVE  Backed(c)'
      BY <2>2, <2>3, CountsMove, CountersTyped DEF Pos
    <2>4. CASE Api
      <3>1. ASSUME NEW q \in Request, DeleteCommentByID(q) PROVE Backed(c)'
        <4>1. comment[request[q][2]] \in [state: {"live", "deleted"}, note: Note, top: BOOLEAN]
          BY <3>1, RequestOf DEF DeleteCommentByID
        <4>2. PICK n \in Note, w \in 0..1 :
                count' = [count EXCEPT ![<<"comment", n>>] = AtLeastZero(@ - w)]
          BY <3>1, <4>1, WeightType DEF DeleteCommentByID
        <4>3. /\ count[<<"comment", n>>] >= 0 /\ <<"comment", n>> \in Counter
              /\ count \in [Counter -> Int]
          BY CommentCounter DEF TypeInv, TypeOK
        <4>4. Pos(count'[c]) <= Pos(count[c]) /\ Pos(-count'[c]) <= Pos(-count[c]) /\ count'[c] \in Int
          BY <4>2, <4>3 DEF AtLeastZero, Pos
        <4>5. UNCHANGED <<handler, dedup, redis, flusher>>
          BY <3>1 DEF DeleteCommentByID
        <4>6. /\ Pos(redis[c]) \in Nat /\ Pos(flusher.drained[c]) \in Nat
              /\ Pos(-redis[c]) \in Nat /\ Pos(-flusher.drained[c]) \in Nat
              /\ Pos(count[c]) \in Nat /\ Pos(-count[c]) \in Nat
              /\ Pos(count'[c]) \in Nat /\ Pos(-count'[c]) \in Nat
          BY <4>4, CountersTyped DEF Pos
        <4>7. /\ redis'[c] = redis[c] /\ flusher'.drained[c] = flusher.drained[c]
              /\ redis[c] \in Int /\ flusher.drained[c] \in Int
          BY <4>5, CountersTyped
        <4>8. /\ Pos(count'[c]) + Pos(redis'[c]) + Pos(flusher'.drained[c])
                   <= Pos(count[c]) + Pos(redis[c]) + Pos(flusher.drained[c])
              /\ Pos(-count'[c]) + Pos(-redis'[c]) + Pos(-flusher'.drained[c])
                   <= Pos(-count[c]) + Pos(-redis[c]) + Pos(-flusher.drained[c])
          BY <4>4, <4>6, <4>7
        <4> QED BY <2>2, <4>4, <4>5, <4>7, <4>8, CountsMove
      <3> QED
        BY <2>3, <2>4, <3>1 DEF Api, Like, Unlike, CreateComment, SelectComment, DeleteComment
    <2>5. CASE Publish \/ Republish \/ DrainNothing \/ UNCHANGED vars
      BY <2>3, <2>5 DEF Publish, Republish, DrainNothing, vars
    <2>6. CASE Crash
      <3>1. /\ UNCHANGED <<evts, dedup, count, redis>> /\ Held' = {}
            /\ flusher'.drained[c] = 0
        BY <2>6 DEF Crash, dbVars, Held, Idle, NotFlushing, Zero
      <3>2. \A d : InHand(c, d)' = 0 /\ Marked(c, d)' = Marked(c, d)
        <4>1. \A d : Changing(Held, c, d)' = {} /\ Changing(dedup, c, d)' = Changing(dedup, c, d)
          BY <3>1 DEF Changing
        <4> QED BY <4>1, FS_EmptySet DEF InHand, Marked
      <3> QED BY <2>2, <3>1, <3>2, HandType, CountersTyped DEF Backed, Pos
    <2> QED
      BY <2>2, <2>4, <2>5, <2>6, NextSplit, HandlerOnce, FlusherOnce
  <1> QED BY <1>1, <1>2, TypeInvariant, PTL DEF Spec

(***************************************************************************)
(* Redelivery, half-executed pipelines, crashes, failed flushes and failed *)
(* rollbacks, in any order, with moderators and with comments deleted      *)
(* twice: no event is counted more than once, unless the outcome of a      *)
(* flush is unknown (counterBatchHandler, main.go:300-365).                *)
(***************************************************************************)
THEOREM NoDoubleCountHolds == Spec => []NoDoubleCount
  <1>1. TypeInv /\ OnceInv => NoDoubleCount
    <2> SUFFICES ASSUME TypeInv, OnceInv, "flushLost" \notin faults, NEW c \in Counter
                 PROVE  InRedisOrBeyond(c) \in -Marked(c, -1)..Marked(c, 1)
      BY DEF NoDoubleCount, Marked
    <2>1. Backed(c)
      BY DEF OnceInv
    <2> QED BY <2>1, HandType, CountersTyped DEF Backed, Pos, InRedisOrBeyond
  <1> QED BY <1>1, TypeInvariant, OnceInvariant, PTL
-----------------------------------------------------------------------------
(***************************************************************************)
(* Read statistics (module StatsFlush), for every set of notes, every      *)
(* number of requests and every set of faults.                             *)
(***************************************************************************)

(***************************************************************************)
(* The inductive invariant.  Between two prefixes the flusher has listed   *)
(* nothing; it holds a count only between GET and UPDATE; and unless SCAN  *)
(* lists a key twice, a key it holds the count of has been read for the    *)
(* last time.                                                              *)
(***************************************************************************)
StatsListed == step \in {"idle", "scan"} => keys = {}

StatsHeld == step # "add" => current = {}

StatsOnce ==
  "again" \notin errors => /\ \A c \in Stats!Counter : todo[c] <= 1
                           /\ current \subseteq Stats!Taken

StatsAccount == Stats!OnlyLateLost /\ Stats!NeverMore

StatsInv == StatsHeld /\ StatsOnce /\ StatsAccount
-----------------------------------------------------------------------------
\* The keys of a prefix are counters.
LEMMA OfCounter == \A k \in Stats!Metric : Stats!Of(k) \subseteq Stats!Counter
  BY DEF Stats!Of

(***************************************************************************)
(* Type correctness.                                                       *)
(***************************************************************************)

\* What a request counts and what it leaves alone is well typed.
LEMMA IncrManyTyped ==
  ASSUME Stats!TypeOK, StatsListed, NEW S \in SUBSET Stats!Counter, Stats!IncrMany(S)
  PROVE  (Stats!TypeOK /\ StatsListed)'
  BY DEF Stats!TypeOK, StatsListed, Stats!IncrMany, Stats!flusher

\* Moving on to the next prefix forgets what was listed.
LEMMA NextPrefixTyped ==
  ASSUME Stats!TypeOK, StatsListed, Stats!NextPrefix,
         counts' \in [Stats!Counter -> Nat], errors' \subseteq Stats!AnyFault,
         UNCHANGED <<stats, current, val, Stats!history>>
  PROVE  (Stats!TypeOK /\ StatsListed)'
  BY DEF Stats!TypeOK, StatsListed, Stats!NextPrefix, Stats!history, Stats!Metric

\* Every reachable state is well typed, and the flusher lists keys only
\* after SCAN.
THEOREM StatsTyped == Stats!Spec => [](Stats!TypeOK /\ StatsListed)
  <1>1. Stats!Init => Stats!TypeOK /\ StatsListed
    BY DEF Stats!Init, Stats!TypeOK, StatsListed, Stats!Metric
  <1>2. Stats!TypeOK /\ StatsListed /\ [Stats!Next]_(Stats!vars) => (Stats!TypeOK /\ StatsListed)'
    <2> SUFFICES ASSUME Stats!TypeOK, StatsListed, [Stats!Next]_(Stats!vars)
                 PROVE  (Stats!TypeOK /\ StatsListed)'
      OBVIOUS
    <2>1. CASE Stats!RecordImpressions
      BY <2>1, IncrManyTyped, OfCounter DEF Stats!RecordImpressions, Stats!Metric
    <2>2. CASE Stats!RecordRead
      <3>1. PICK c \in Stats!Of("read") : Stats!IncrMany({c})
        BY <2>2 DEF Stats!RecordRead
      <3>2. {c} \in SUBSET Stats!Counter
        BY OfCounter DEF Stats!Metric
      <3> QED BY <3>1, <3>2, IncrManyTyped
    <2>3. CASE Stats!StartFlusher
      BY <2>3 DEF Stats!StartFlusher, Stats!TypeOK, StatsListed, Stats!counts, Stats!history,
                  Stats!Metric
    <2>4. ASSUME NEW twice \in SUBSET Stats!Counter, Stats!ScanKeys(twice)
          PROVE  (Stats!TypeOK /\ StatsListed)'
      <3> DEFINE found == {c \in Stats!Of(kind) : counts[c] > 0}
      <3>1. errors' \subseteq Stats!AnyFault
        BY <2>4 DEF Stats!ScanKeys, Stats!TypeOK, Stats!FaultHappens, Stats!AnyFault
      <3>2. UNCHANGED <<counts, stats, current, val, Stats!history>>
        BY <2>4 DEF Stats!ScanKeys, Stats!counts
      <3>3. CASE found = {}
        <4>1. Stats!NextPrefix
          BY <2>4, <3>3 DEF Stats!ScanKeys
        <4> QED BY <3>1, <3>2, <4>1, NextPrefixTyped DEF Stats!TypeOK
      <3>4. CASE found # {}
        <4>1. /\ keys' = found /\ step' = "get" /\ kind' = kind
              /\ todo' = [c \in Stats!Counter |-> IF c \in twice THEN 2
                                            ELSE IF c \in found THEN 1 ELSE 0]
              /\ twice \subseteq found
          BY <2>4, <3>4 DEF Stats!ScanKeys
        <4>2. todo' \in [Stats!Counter -> 0..2] /\ \A c \in Stats!Counter \ keys' : todo'[c] = 0
          BY <4>1
        <4>3. keys' \subseteq Stats!Of(kind')
          BY <4>1
        <4> QED BY <3>1, <3>2, <4>1, <4>2, <4>3 DEF Stats!TypeOK, StatsListed, Stats!history
      <3> QED BY <3>3, <3>4
    <2>5. CASE Stats!ScanFail
      <3>1. errors' \subseteq Stats!AnyFault
        BY <2>5 DEF Stats!ScanFail, Stats!TypeOK, Stats!FaultHappens, Stats!AnyFault
      <3> QED BY <2>5, <3>1 DEF Stats!ScanFail, Stats!TypeOK, StatsListed, Stats!counts,
                                Stats!history
    <2>6. ASSUME NEW c \in Stats!Counter, Stats!GetKey(c) \/ Stats!GetFail(c)
          PROVE  (Stats!TypeOK /\ StatsListed)'
      <3>1. todo' = [todo EXCEPT ![c] = @ - 1] /\ todo[c] > 0
        BY <2>6 DEF Stats!GetKey, Stats!GetFail
      <3>2. todo' \in [Stats!Counter -> 0..2] /\ \A d \in Stats!Counter \ keys : todo'[d] = 0
        BY <3>1 DEF Stats!TypeOK
      <3>3. errors' \subseteq Stats!AnyFault
        BY <2>6 DEF Stats!GetKey, Stats!GetFail, Stats!TypeOK, Stats!FaultHappens,
                    Stats!AnyFault
      <3>4. CASE Stats!GetKey(c)
        BY <2>6, <3>2, <3>3, <3>4 DEF Stats!GetKey, Stats!TypeOK, StatsListed, Stats!counts,
                                      Stats!history
      <3>5. CASE Stats!GetFail(c)
        BY <2>6, <3>2, <3>3, <3>5 DEF Stats!GetFail, Stats!TypeOK, StatsListed, Stats!counts,
                                      Stats!history
      <3> QED BY <2>6, <3>4, <3>5
    <2>7. CASE Stats!AddCounters \/ Stats!AddFail
      <3>1. errors' \subseteq Stats!AnyFault
        BY <2>7 DEF Stats!AddCounters, Stats!AddFail, Stats!TypeOK, Stats!FaultHappens,
                    Stats!AnyFault
      <3>2. stats' \in [Stats!Counter -> Nat]
        BY <2>7 DEF Stats!AddCounters, Stats!AddFail, Stats!TypeOK, Stats!counts
      <3> QED
        BY <2>7, <3>1, <3>2 DEF Stats!AddCounters, Stats!AddFail, Stats!TypeOK, StatsListed,
                                Stats!counts, Stats!history
    <2>8. CASE Stats!DeleteKeys \/ Stats!DeleteFail
      <3>1. Stats!NextPrefix /\ UNCHANGED <<stats, current, val, Stats!history>>
        BY <2>8 DEF Stats!DeleteKeys, Stats!DeleteFail, Stats!counts
      <3>2. counts' \in [Stats!Counter -> Nat]
        BY <2>8 DEF Stats!DeleteKeys, Stats!DeleteFail, Stats!TypeOK, Stats!counts
      <3>3. errors' \subseteq Stats!AnyFault
        BY <2>8 DEF Stats!DeleteKeys, Stats!DeleteFail, Stats!TypeOK, Stats!FaultHappens,
                    Stats!AnyFault
      <3> QED BY <3>1, <3>2, <3>3, NextPrefixTyped
    <2>9. CASE Stats!Crash
      <3>1. errors' \subseteq Stats!AnyFault
        BY <2>9 DEF Stats!Crash, Stats!TypeOK, Stats!FaultHappens, Stats!AnyFault
      <3> QED BY <2>9, <3>1 DEF Stats!Crash, Stats!TypeOK, StatsListed, Stats!counts,
                                Stats!history
    <2>10. CASE UNCHANGED Stats!vars
      BY <2>10 DEF Stats!vars, Stats!counts, Stats!flusher, Stats!history, Stats!TypeOK,
                   StatsListed
    <2> QED
      BY <2>1, <2>2, <2>3, <2>4, <2>5, <2>6, <2>7, <2>8, <2>9, <2>10
         DEF Stats!Next, Stats!Flush
  <1> QED BY <1>1, <1>2, PTL DEF Stats!Spec
-----------------------------------------------------------------------------
(***************************************************************************)
(* What is counted is accounted for.                                       *)
(***************************************************************************)

(***************************************************************************)
(* The account of one counter: what was counted is in the table, waits or  *)
(* is lost; or no more than what was counted.                              *)
(***************************************************************************)
StatsExact(c) == recorded[c] = stats[c] + Stats!Waiting(c) + lost[c]
StatsBounded(c) == stats[c] + Stats!Waiting(c) + lost[c] <= recorded[c]

\* The terms of the account are numbers.
LEMMA StatsAccountTyped ==
  ASSUME Stats!TypeOK, NEW c \in Stats!Counter
  PROVE  /\ stats[c] \in Nat /\ Stats!Waiting(c) \in Nat /\ lost[c] \in Nat
         /\ recorded[c] \in Nat /\ counts[c] \in Nat /\ val \in Nat
  BY DEF Stats!TypeOK, Stats!Waiting

\* A step keeps the account when it keeps that of every counter, or adds
\* the fault that excuses it.
LEMMA StatsAccountKept ==
  ASSUME StatsAccount, errors \subseteq errors',
         errors' \subseteq {"scan"} => \A c \in Stats!Counter : StatsExact(c) => StatsExact(c)',
         errors' \subseteq {"scan", "get", "add"}
           => \A c \in Stats!Counter : StatsBounded(c) => StatsBounded(c)'
  PROVE  StatsAccount'
  BY DEF StatsAccount, Stats!OnlyLateLost, Stats!NeverMore, StatsExact, StatsBounded

\* A request counts into the key, or into what the flush will lose.
LEMMA IncrManyAccounted ==
  ASSUME Stats!TypeOK, StatsInv, NEW S \in SUBSET Stats!Counter, Stats!IncrMany(S)
  PROVE  StatsInv'
  <1>1. UNCHANGED <<Stats!Taken, current, val, step, todo, stats, errors>>
    BY DEF Stats!IncrMany, Stats!flusher, Stats!Taken
  <1>2. StatsHeld' /\ StatsOnce'
    BY <1>1 DEF StatsInv, StatsHeld, StatsOnce
  <1>3. ASSUME NEW c \in Stats!Counter
        PROVE  (StatsExact(c) => StatsExact(c)') /\ (StatsBounded(c) => StatsBounded(c)')
    <2> USE StatsAccountTyped
    <2>1. CASE c \notin S
      <3>1. /\ recorded'[c] = recorded[c] /\ lost'[c] = lost[c]
            /\ Stats!Waiting(c)' = Stats!Waiting(c)
        BY <1>1, <2>1 DEF Stats!TypeOK, Stats!IncrMany, Stats!Waiting
      <3> QED BY <1>1, <3>1 DEF StatsExact, StatsBounded
    <2>2. CASE c \in S /\ c \in Stats!Taken
      <3>1. /\ recorded'[c] = recorded[c] + 1 /\ lost'[c] = lost[c] + 1
            /\ Stats!Waiting(c)' = Stats!Waiting(c)
        BY <1>1, <2>2 DEF Stats!TypeOK, Stats!IncrMany, Stats!Waiting
      <3> QED BY <1>1, <3>1 DEF StatsExact, StatsBounded
    <2>3. CASE c \in S /\ c \notin Stats!Taken
      <3>1. /\ recorded'[c] = recorded[c] + 1 /\ lost'[c] = lost[c]
            /\ Stats!Waiting(c)' = Stats!Waiting(c) + 1
        BY <1>1, <2>3 DEF Stats!TypeOK, Stats!IncrMany, Stats!Waiting
      <3> QED BY <1>1, <3>1 DEF StatsExact, StatsBounded
    <2> QED BY <2>1, <2>2, <2>3
  <1>4. StatsAccount'
    BY <1>1, <1>3, StatsAccountKept DEF StatsInv
  <1> QED BY <1>2, <1>4 DEF StatsInv

\* Listing the keys of a prefix moves nothing.
LEMMA ScanKeysAccounted ==
  ASSUME Stats!TypeOK, StatsListed, StatsInv, NEW twice \in SUBSET Stats!Counter, Stats!ScanKeys(twice)
  PROVE  StatsInv'
  <1>1. /\ UNCHANGED <<counts, stats, current, val, recorded, lost>>
        /\ step = "scan" /\ errors \subseteq errors'
        /\ twice # {} => "again" \in errors'
        /\ step' \in {"idle", "scan", "get"}
    BY DEF Stats!ScanKeys, Stats!FaultHappens, Stats!NextPrefix, Stats!counts, Stats!history
  <1>2. Stats!Taken = {} /\ Stats!Taken' = {} /\ current = {}
    <2>1. Stats!Taken = {} /\ current = {}
      BY <1>1 DEF Stats!Taken, StatsListed, StatsInv, StatsHeld
    <2>2. keys' \subseteq Stats!Counter
      BY OfCounter DEF Stats!ScanKeys, Stats!NextPrefix, Stats!TypeOK
    <2>3. \A c \in keys' : todo'[c] # 0
      BY <2>2 DEF Stats!ScanKeys, Stats!NextPrefix
    <2> QED BY <2>1, <2>3 DEF Stats!Taken
  <1>3. twice = {} => \A c \in Stats!Counter : todo'[c] <= 1
    BY DEF Stats!ScanKeys, Stats!NextPrefix
  <1>4. StatsHeld' /\ StatsOnce'
    BY <1>1, <1>2, <1>3 DEF StatsHeld, StatsOnce
  <1>5. \A c \in Stats!Counter : Stats!Waiting(c)' = Stats!Waiting(c)
    BY <1>1, <1>2 DEF Stats!Waiting
  <1>6. StatsAccount'
    BY <1>1, <1>5, StatsAccountKept DEF StatsInv, StatsExact, StatsBounded
  <1> QED BY <1>4, <1>6 DEF StatsInv

\* GET takes over what waits in the key; a failed GET leaves it to be lost.
LEMMA GetAccounted ==
  ASSUME Stats!TypeOK, StatsInv, NEW c \in Stats!Counter, Stats!GetKey(c) \/ Stats!GetFail(c)
  PROVE  StatsInv'
  <1>1. /\ UNCHANGED <<counts, stats, keys, recorded, lost>>
        /\ errors \subseteq errors' /\ step = "get" /\ todo[c] > 0
        /\ todo' = [todo EXCEPT ![c] = @ - 1]
    BY DEF Stats!GetKey, Stats!GetFail, Stats!FaultHappens, Stats!counts, Stats!history
  <1>2. current = {} /\ c \in keys /\ c \notin Stats!Taken
    BY <1>1 DEF StatsInv, StatsHeld, Stats!TypeOK, Stats!Taken
  <1>3. /\ \A d \in Stats!Counter \ {c} : d \in Stats!Taken' <=> d \in Stats!Taken
        /\ \A d \in Stats!Counter : todo'[d] <= todo[d]
        /\ todo[c] = 1 <=> c \in Stats!Taken'
    BY <1>1, <1>2 DEF Stats!Taken, Stats!TypeOK
  <1>4. \A d \in Stats!Counter : todo[d] \in 0..2 /\ todo'[d] \in Int
    BY <1>1 DEF Stats!TypeOK
  <1>5. StatsHeld' /\ StatsOnce'
    <2>1. current' \subseteq {c} /\ (step' # "add" => current' = {})
      BY <1>1, <1>2 DEF Stats!GetKey, Stats!GetFail
    <2>2. "again" \notin errors' => todo[c] = 1 /\ \A d \in Stats!Counter : todo'[d] <= 1
      BY <1>1, <1>3, <1>4 DEF StatsInv, StatsOnce
    <2> QED BY <2>1, <2>2, <1>3 DEF StatsHeld, StatsOnce
  <1>6. CASE Stats!GetKey(c)
    <2>1. "again" \notin errors' => \A d \in Stats!Counter : Stats!Waiting(d)' = Stats!Waiting(d)
      <3>1. current' = {c} /\ val' = counts[c]
        BY <1>6 DEF Stats!GetKey
      <3>2. "again" \notin errors' => c \in Stats!Taken'
        BY <1>1, <1>3, <1>4 DEF StatsInv, StatsOnce
      <3> QED BY <1>1, <1>2, <1>3, <3>1, <3>2 DEF Stats!Waiting
    <2> QED BY <1>1, <1>5, <2>1, StatsAccountKept DEF StatsInv, StatsExact, StatsBounded
  <1>7. CASE Stats!GetFail(c)
    <2>1. "get" \in errors'
      BY <1>7 DEF Stats!GetFail, Stats!FaultHappens
    <2>2. ASSUME NEW d \in Stats!Counter
          PROVE  Stats!Waiting(d)' \in Nat /\ Stats!Waiting(d)' <= Stats!Waiting(d)
      <3>1. current' = {} /\ counts[d] \in Nat
        BY <1>2, <1>7 DEF Stats!GetFail, Stats!TypeOK
      <3> QED BY <1>1, <1>2, <1>3, <3>1 DEF Stats!Waiting
    <2>3. \A d \in Stats!Counter : StatsBounded(d) => StatsBounded(d)'
      BY <1>1, <2>2, StatsAccountTyped DEF StatsBounded
    <2> QED BY <1>1, <1>5, <2>1, <2>3, StatsAccountKept DEF StatsInv
  <1> QED BY <1>6, <1>7

\* The UPDATE moves what the flusher holds to the row, or loses it.
LEMMA AddAccounted ==
  ASSUME Stats!TypeOK, StatsInv, Stats!AddCounters \/ Stats!AddFail
  PROVE  StatsInv'
  <1>1. /\ UNCHANGED <<counts, keys, todo, recorded, lost>>
        /\ errors \subseteq errors' /\ current' = {} /\ Stats!Taken' = Stats!Taken
    BY DEF Stats!AddCounters, Stats!AddFail, Stats!FaultHappens, Stats!counts, Stats!history,
           Stats!Taken
  <1>2. StatsHeld' /\ StatsOnce'
    BY <1>1 DEF StatsInv, StatsHeld, StatsOnce
  <1>3. CASE Stats!AddCounters
    <2>1. errors' = errors
          /\ stats' = [c \in Stats!Counter |-> IF c \in current THEN stats[c] + val ELSE stats[c]]
      BY <1>3 DEF Stats!AddCounters
    <2>2. ASSUME "again" \notin errors, NEW c \in Stats!Counter
          PROVE  stats'[c] + Stats!Waiting(c)' = stats[c] + Stats!Waiting(c)
      <3>1. current \subseteq Stats!Taken
        BY <2>2 DEF StatsInv, StatsOnce
      <3>2. CASE c \in current
        <4>1. Stats!Waiting(c) = val /\ Stats!Waiting(c)' = 0 /\ stats'[c] = stats[c] + val
          BY <1>1, <2>1, <3>1, <3>2 DEF Stats!Waiting
        <4> QED BY <4>1, StatsAccountTyped
      <3>3. CASE c \notin current
        <4>1. Stats!Waiting(c)' = Stats!Waiting(c) /\ stats'[c] = stats[c]
          BY <1>1, <2>1, <3>3 DEF Stats!Waiting
        <4> QED BY <4>1
      <3> QED BY <3>2, <3>3
    <2> QED BY <1>1, <1>2, <2>1, <2>2, StatsAccountKept DEF StatsInv, StatsExact, StatsBounded
  <1>4. CASE Stats!AddFail
    <2>1. "add" \in errors' /\ stats' = stats
      BY <1>4 DEF Stats!AddFail, Stats!FaultHappens, Stats!counts
    <2>2. ASSUME NEW c \in Stats!Counter
          PROVE  Stats!Waiting(c)' \in Nat /\ Stats!Waiting(c)' <= Stats!Waiting(c)
      BY <1>1, StatsAccountTyped DEF Stats!Waiting
    <2>3. \A c \in Stats!Counter : StatsBounded(c) => StatsBounded(c)'
      BY <1>1, <2>1, <2>2, StatsAccountTyped DEF StatsBounded
    <2> QED BY <1>1, <1>2, <2>1, <2>3, StatsAccountKept DEF StatsInv
  <1> QED BY <1>3, <1>4

\* DEL removes keys whose count is in the table or lost already.
LEMMA DeleteAccounted ==
  ASSUME Stats!TypeOK, StatsInv, Stats!DeleteKeys \/ Stats!DeleteFail
  PROVE  StatsInv'
  <1>1. /\ UNCHANGED <<stats, current, recorded, lost>>
        /\ errors \subseteq errors' /\ step = "get" /\ \A c \in keys : todo[c] = 0
        /\ keys' = {} /\ todo' = [c \in Stats!Counter |-> 0]
    BY DEF Stats!DeleteKeys, Stats!DeleteFail, Stats!FaultHappens, Stats!NextPrefix,
           Stats!counts, Stats!history
  <1>2. current = {} /\ Stats!Taken = keys /\ Stats!Taken' = {}
    BY <1>1 DEF StatsInv, StatsHeld, Stats!Taken
  <1>3. StatsHeld' /\ StatsOnce'
    BY <1>1, <1>2 DEF StatsHeld, StatsOnce
  <1>4. CASE Stats!DeleteKeys
    <2>1. \A c \in Stats!Counter : Stats!Waiting(c)' = Stats!Waiting(c)
      BY <1>1, <1>2, <1>4 DEF Stats!DeleteKeys, Stats!Waiting
    <2> QED BY <1>1, <1>3, <2>1, StatsAccountKept DEF StatsInv, StatsExact, StatsBounded
  <1>5. CASE Stats!DeleteFail
    <2>1. "delete" \in errors'
      BY <1>5 DEF Stats!DeleteFail, Stats!FaultHappens
    <2> QED BY <1>1, <1>3, <2>1, StatsAccountKept DEF StatsInv
  <1> QED BY <1>4, <1>5

LEMMA StatsInvariant == Stats!Spec => []StatsInv
  <1>1. Stats!Init => StatsInv
    BY DEF Stats!Init, StatsInv, StatsHeld, StatsOnce, StatsAccount, Stats!OnlyLateLost,
           Stats!NeverMore, Stats!Waiting, Stats!Taken
  <1>2. Stats!TypeOK /\ StatsListed /\ StatsInv /\ [Stats!Next]_(Stats!vars) => StatsInv'
    <2> SUFFICES ASSUME Stats!TypeOK, StatsListed, StatsInv, [Stats!Next]_(Stats!vars)
                 PROVE  StatsInv'
      OBVIOUS
    <2>1. CASE Stats!RecordImpressions
      BY <2>1, IncrManyAccounted, OfCounter DEF Stats!RecordImpressions, Stats!Metric
    <2>2. CASE Stats!RecordRead
      <3>1. PICK c \in Stats!Of("read") : Stats!IncrMany({c})
        BY <2>2 DEF Stats!RecordRead
      <3>2. {c} \in SUBSET Stats!Counter
        BY OfCounter DEF Stats!Metric
      <3> QED BY <3>1, <3>2, IncrManyAccounted
    <2>3. CASE Stats!StartFlusher
      BY <2>3 DEF Stats!StartFlusher, StatsInv, StatsHeld, StatsOnce, StatsAccount,
                  Stats!OnlyLateLost, Stats!NeverMore, Stats!Waiting, Stats!Taken,
                  Stats!counts, Stats!history
    <2>4. ASSUME NEW twice \in SUBSET Stats!Counter, Stats!ScanKeys(twice) PROVE StatsInv'
      BY <2>4, ScanKeysAccounted
    <2>5. CASE Stats!ScanFail
      <3>1. /\ UNCHANGED <<counts, stats, keys, todo, current, val, recorded, lost>>
            /\ step = "scan" /\ errors \subseteq errors'
        BY <2>5 DEF Stats!ScanFail, Stats!FaultHappens, Stats!counts, Stats!history
      <3>2. Stats!Taken' = Stats!Taken /\ \A c \in Stats!Counter : Stats!Waiting(c)' = Stats!Waiting(c)
        BY <3>1 DEF Stats!Taken, Stats!Waiting
      <3>3. StatsHeld' /\ StatsOnce'
        BY <3>1, <3>2 DEF StatsInv, StatsHeld, StatsOnce
      <3> QED BY <3>1, <3>2, <3>3, StatsAccountKept DEF StatsInv, StatsExact, StatsBounded
    <2>6. ASSUME NEW c \in Stats!Counter, Stats!GetKey(c) \/ Stats!GetFail(c) PROVE StatsInv'
      BY <2>6, GetAccounted
    <2>7. CASE Stats!AddCounters \/ Stats!AddFail
      BY <2>7, AddAccounted
    <2>8. CASE Stats!DeleteKeys \/ Stats!DeleteFail
      BY <2>8, DeleteAccounted
    <2>9. CASE Stats!Crash
      <3>1. /\ "crash" \in errors' /\ errors \subseteq errors' /\ current' = {}
            /\ todo' = [c \in Stats!Counter |-> 0]
        BY <2>9 DEF Stats!Crash, Stats!FaultHappens
      <3>2. StatsHeld' /\ StatsOnce'
        BY <3>1 DEF StatsHeld, StatsOnce
      <3> QED BY <3>1, <3>2, StatsAccountKept DEF StatsInv
    <2>10. CASE UNCHANGED Stats!vars
      BY <2>10 DEF Stats!vars, Stats!counts, Stats!flusher, Stats!history, StatsInv,
                   StatsHeld, StatsOnce, StatsAccount, Stats!OnlyLateLost, Stats!NeverMore,
                   Stats!Waiting, Stats!Taken
    <2> QED
      BY <2>1, <2>2, <2>3, <2>4, <2>5, <2>6, <2>7, <2>8, <2>9, <2>10
         DEF Stats!Next, Stats!Flush
  <1> QED BY <1>1, <1>2, StatsTyped, PTL DEF Stats!Spec

(***************************************************************************)
(* The account of repeats.  What is in the table, what the flusher holds   *)
(* and what it is still to read of a key, as often as it is to read it, is *)
(* no more than what was counted, once more for each fault that repeats.   *)
(***************************************************************************)
StatsInHand(c) == IF c \in current THEN val ELSE 0

StatsToRead(c) ==
  IF c \notin keys THEN counts[c]
  ELSE IF todo[c] = 0 THEN 0
  ELSE IF todo[c] = 1 THEN counts[c]
  ELSE counts[c] + counts[c]

StatsAllowed(c) ==
  recorded[c] + Stats!Repeated("again", c) + Stats!Repeated("delete", c) + Stats!Repeated("crash", c)

RepeatsOf(c) ==
  /\ counts[c] <= recorded[c]
  /\ todo[c] = 2 => "again" \in errors
  /\ stats[c] + StatsInHand(c) + StatsToRead(c) <= StatsAllowed(c)

RepeatsInv == \A c \in Stats!Counter : RepeatsOf(c)

LEMMA RepeatsTyped ==
  ASSUME Stats!TypeOK, NEW c \in Stats!Counter
  PROVE  /\ stats[c] \in Nat /\ recorded[c] \in Nat /\ counts[c] \in Nat /\ val \in Nat
         /\ todo[c] \in 0..2 /\ StatsInHand(c) \in Nat /\ StatsToRead(c) \in Nat
         /\ StatsAllowed(c) \in Nat
  <1>1. /\ stats[c] \in Nat /\ recorded[c] \in Nat /\ counts[c] \in Nat /\ val \in Nat
        /\ todo[c] \in 0..2
    BY DEF Stats!TypeOK
  <1> QED BY <1>1 DEF StatsInHand, StatsToRead, StatsAllowed, Stats!Repeated

LEMMA RepeatsTypedNext ==
  ASSUME Stats!TypeOK', NEW c \in Stats!Counter
  PROVE  /\ stats'[c] \in Nat /\ recorded'[c] \in Nat /\ counts'[c] \in Nat /\ val' \in Nat
         /\ todo'[c] \in 0..2 /\ StatsInHand(c)' \in Nat /\ StatsToRead(c)' \in Nat
         /\ StatsAllowed(c)' \in Nat
  <1>1. /\ stats'[c] \in Nat /\ recorded'[c] \in Nat /\ counts'[c] \in Nat /\ val' \in Nat
        /\ todo'[c] \in 0..2
    BY DEF Stats!TypeOK
  <1> QED BY <1>1 DEF StatsInHand, StatsToRead, StatsAllowed, Stats!Repeated

\* A step that counts nothing keeps the bound of a key unless it adds to
\* what is to come of it.
LEMMA RepeatsKept ==
  ASSUME Stats!TypeOK, Stats!TypeOK', NEW c \in Stats!Counter, RepeatsOf(c),
         errors \subseteq errors', recorded'[c] = recorded[c], counts'[c] <= counts[c],
         todo'[c] = 2 => todo[c] = 2 \/ "again" \in errors',
         (stats[c] + StatsInHand(c) + StatsToRead(c))' <= stats[c] + StatsInHand(c) + StatsToRead(c)
  PROVE  RepeatsOf(c)'
  <1>1. StatsAllowed(c)' >= StatsAllowed(c)
    BY RepeatsTyped DEF StatsAllowed, Stats!Repeated
  <1>2. (stats[c] + StatsInHand(c) + StatsToRead(c))' \in Nat
    BY RepeatsTypedNext
  <1>3. (stats[c] + StatsInHand(c) + StatsToRead(c))' <= StatsAllowed(c)'
    BY <1>1, <1>2, RepeatsTyped, RepeatsTypedNext DEF RepeatsOf
  <1>4. counts'[c] <= recorded'[c]
    BY RepeatsTyped DEF RepeatsOf, Stats!TypeOK
  <1> QED BY <1>3, <1>4 DEF RepeatsOf

\* A fault that repeats lets what is in the key be read once more.
LEMMA RepeatsOnce ==
  ASSUME Stats!TypeOK, Stats!TypeOK', NEW c \in Stats!Counter, RepeatsOf(c),
         NEW f \in {"again", "delete", "crash"}, f \notin errors, errors' = errors \cup {f},
         recorded'[c] = recorded[c], counts'[c] = counts[c],
         todo'[c] = 2 => f = "again",
         (stats[c] + StatsInHand(c) + StatsToRead(c))'
           <= stats[c] + StatsInHand(c) + StatsToRead(c) + counts[c]
  PROVE  RepeatsOf(c)'
  <1>1. StatsAllowed(c)' = StatsAllowed(c) + recorded[c]
    <2>1. \A g : Stats!Repeated(g, c)' =
                   IF g = f THEN Stats!Repeated(g, c) + recorded[c] ELSE Stats!Repeated(g, c)
      BY RepeatsTyped DEF Stats!Repeated
    <2>2. \A g : Stats!Repeated(g, c) \in Nat
      BY RepeatsTyped DEF Stats!Repeated
    <2> QED BY <2>1, <2>2, RepeatsTyped DEF StatsAllowed
  <1>2. (stats[c] + StatsInHand(c) + StatsToRead(c))' \in Nat
    BY RepeatsTypedNext
  <1>3. (stats[c] + StatsInHand(c) + StatsToRead(c))' <= StatsAllowed(c)'
    BY <1>1, <1>2, RepeatsTyped DEF RepeatsOf
  <1> QED BY <1>3 DEF RepeatsOf

LEMMA IncrManyRepeats ==
  ASSUME Stats!TypeOK, Stats!TypeOK', RepeatsInv, NEW S \in SUBSET Stats!Counter, Stats!IncrMany(S)
  PROVE  RepeatsInv'
  <1> SUFFICES ASSUME NEW c \in Stats!Counter PROVE RepeatsOf(c)'
    BY DEF RepeatsInv
  <1>1. UNCHANGED <<stats, keys, todo, current, val, errors>> /\ RepeatsOf(c)
    BY DEF Stats!IncrMany, Stats!flusher, RepeatsInv
  <1>2. StatsInHand(c)' = StatsInHand(c)
    BY <1>1 DEF StatsInHand
  <1>3. CASE c \notin S
    <2>1. counts'[c] = counts[c] /\ recorded'[c] = recorded[c]
      BY <1>3 DEF Stats!IncrMany
    <2>2. StatsToRead(c)' = StatsToRead(c) /\ StatsAllowed(c)' = StatsAllowed(c)
      BY <1>1, <2>1 DEF StatsToRead, StatsAllowed, Stats!Repeated
    <2> QED BY <1>1, <1>2, <2>1, <2>2 DEF RepeatsOf
  <1>4. CASE c \in S
    <2>1. counts'[c] = counts[c] + 1 /\ recorded'[c] = recorded[c] + 1
      BY <1>4 DEF Stats!IncrMany
    <2>2. CASE todo[c] = 2
      <3>1. "again" \in errors
        BY <1>1, <2>2 DEF RepeatsOf
      <3>2. StatsToRead(c)' <= StatsToRead(c) + 2
        BY <1>1, <2>1, <2>2, RepeatsTyped DEF StatsToRead
      <3>3. StatsAllowed(c)' >= StatsAllowed(c) + 2
        BY <1>1, <2>1, <3>1, RepeatsTyped DEF StatsAllowed, Stats!Repeated
      <3> QED BY <1>1, <1>2, <2>1, <3>2, <3>3, RepeatsTyped, RepeatsTypedNext DEF RepeatsOf
    <2>3. CASE todo[c] # 2
      <3>1. todo[c] \in {0, 1}
        BY <2>3, RepeatsTyped
      <3>2. StatsToRead(c)' <= StatsToRead(c) + 1
        BY <1>1, <2>1, <3>1, RepeatsTyped DEF StatsToRead
      <3>3. StatsAllowed(c)' >= StatsAllowed(c) + 1
        BY <1>1, <2>1, RepeatsTyped DEF StatsAllowed, Stats!Repeated
      <3> QED BY <1>1, <1>2, <2>1, <3>2, <3>3, RepeatsTyped, RepeatsTypedNext DEF RepeatsOf
    <2> QED BY <2>2, <2>3
  <1> QED BY <1>3, <1>4

LEMMA ScanKeysRepeats ==
  ASSUME Stats!TypeOK, Stats!TypeOK', StatsListed, StatsHeld, RepeatsInv,
         NEW twice \in SUBSET Stats!Counter, Stats!ScanKeys(twice)
  PROVE  RepeatsInv'
  <1> SUFFICES ASSUME NEW c \in Stats!Counter PROVE RepeatsOf(c)'
    BY DEF RepeatsInv
  <1>1. /\ UNCHANGED <<counts, stats, current, val, recorded>> /\ keys = {} /\ RepeatsOf(c)
        /\ errors \subseteq errors'
    BY DEF Stats!ScanKeys, Stats!FaultHappens, Stats!counts, Stats!history, StatsListed, RepeatsInv
  <1>2. StatsInHand(c)' = StatsInHand(c) /\ StatsToRead(c) = counts[c]
    BY <1>1 DEF StatsInHand, StatsToRead
  <1>3. c \notin keys' \/ (c \in keys' /\ todo'[c] = (IF c \in twice THEN 2 ELSE 1))
    BY DEF Stats!ScanKeys, Stats!NextPrefix
  <1>4. c \notin keys' => todo'[c] = 0
    BY DEF Stats!TypeOK
  <1>5. CASE twice = {}
    <2>1. StatsToRead(c)' = counts[c] /\ todo'[c] # 2
      BY <1>1, <1>3, <1>4, <1>5 DEF StatsToRead
    <2> QED BY <1>1, <1>2, <2>1, RepeatsTyped, RepeatsKept
  <1>6. CASE twice # {}
    <2>1. "again" \notin errors /\ errors' = errors \cup {"again"}
      BY <1>6 DEF Stats!ScanKeys, Stats!FaultHappens
    <2>2. StatsToRead(c)' \in {counts[c], counts[c] + counts[c]}
      BY <1>1, <1>3, <1>4 DEF StatsToRead
    <2>3. (stats[c] + StatsInHand(c) + StatsToRead(c))'
            <= stats[c] + StatsInHand(c) + StatsToRead(c) + counts[c]
      BY <1>1, <1>2, <2>2, RepeatsTyped
    <2> QED BY <1>1, <2>1, <2>3, RepeatsOnce
  <1> QED BY <1>5, <1>6

LEMMA GetRepeats ==
  ASSUME Stats!TypeOK, Stats!TypeOK', StatsHeld, RepeatsInv,
         NEW d \in Stats!Counter, Stats!GetKey(d) \/ Stats!GetFail(d)
  PROVE  RepeatsInv'
  <1> SUFFICES ASSUME NEW c \in Stats!Counter PROVE RepeatsOf(c)'
    BY DEF RepeatsInv
  <1>1. /\ UNCHANGED <<counts, stats, keys, recorded>> /\ errors \subseteq errors'
        /\ current = {} /\ todo[d] > 0 /\ todo' = [todo EXCEPT ![d] = @ - 1] /\ RepeatsOf(c)
    BY DEF Stats!GetKey, Stats!GetFail, Stats!FaultHappens, Stats!counts, Stats!history,
           StatsHeld, RepeatsInv
  <1>2. current' \subseteq {d} /\ (current' # {} => val' = counts[d])
    BY <1>1 DEF Stats!GetKey, Stats!GetFail
  <1>3. StatsInHand(c) = 0 /\ d \in keys
    BY <1>1 DEF StatsInHand, Stats!TypeOK
  <1>4. CASE c # d
    <2>1. todo'[c] = todo[c]
      BY <1>1, <1>4 DEF Stats!TypeOK
    <2>2. StatsInHand(c)' = 0
      BY <1>2, <1>4 DEF StatsInHand
    <2>3. StatsToRead(c)' = StatsToRead(c)
      BY <1>1, <2>1 DEF StatsToRead
    <2> QED BY <1>1, <1>3, <2>1, <2>2, <2>3, RepeatsTyped, RepeatsKept
  <1>5. CASE c = d
    <2>1. todo[c] \in {1, 2} /\ todo'[c] = todo[c] - 1
      BY <1>1, <1>5, RepeatsTyped DEF Stats!TypeOK
    <2>2. StatsToRead(c) = StatsToRead(c)' + counts[c]
      BY <1>1, <1>3, <1>5, <2>1, RepeatsTyped DEF StatsToRead
    <2>3. StatsInHand(c)' \in {0, counts[c]}
      BY <1>2, <1>5 DEF StatsInHand
    <2>4. StatsToRead(c)' \in Nat /\ counts[c] \in Nat /\ stats[c] \in Nat
      BY RepeatsTyped, RepeatsTypedNext
    <2>5. (stats[c] + StatsInHand(c) + StatsToRead(c))' <= stats[c] + StatsInHand(c) + StatsToRead(c)
      BY <1>1, <1>3, <2>2, <2>3, <2>4
    <2> QED BY <1>1, <2>1, <2>5, RepeatsTyped, RepeatsKept
  <1> QED BY <1>4, <1>5

LEMMA AddRepeats ==
  ASSUME Stats!TypeOK, Stats!TypeOK', RepeatsInv, Stats!AddCounters \/ Stats!AddFail
  PROVE  RepeatsInv'
  <1> SUFFICES ASSUME NEW c \in Stats!Counter PROVE RepeatsOf(c)'
    BY DEF RepeatsInv
  <1>1. /\ UNCHANGED <<counts, keys, todo, recorded>> /\ errors \subseteq errors'
        /\ current' = {} /\ RepeatsOf(c)
    BY DEF Stats!AddCounters, Stats!AddFail, Stats!FaultHappens, Stats!counts, Stats!history,
           RepeatsInv
  <1>2. StatsInHand(c)' = 0 /\ StatsToRead(c)' = StatsToRead(c)
    BY <1>1 DEF StatsInHand, StatsToRead
  <1>3. stats'[c] \in {stats[c], stats[c] + StatsInHand(c)}
    <2>1. CASE Stats!AddCounters
      BY <2>1 DEF Stats!AddCounters, StatsInHand
    <2>2. CASE Stats!AddFail
      BY <2>2 DEF Stats!AddFail, Stats!counts
    <2> QED BY <2>1, <2>2
  <1>4. (stats[c] + StatsInHand(c) + StatsToRead(c))' <= stats[c] + StatsInHand(c) + StatsToRead(c)
    BY <1>2, <1>3, RepeatsTyped
  <1> QED BY <1>1, <1>4, RepeatsTyped, RepeatsKept

LEMMA DeleteRepeats ==
  ASSUME Stats!TypeOK, Stats!TypeOK', RepeatsInv, Stats!DeleteKeys \/ Stats!DeleteFail
  PROVE  RepeatsInv'
  <1> SUFFICES ASSUME NEW c \in Stats!Counter PROVE RepeatsOf(c)'
    BY DEF RepeatsInv
  <1>1. /\ UNCHANGED <<stats, current, val, recorded>> /\ errors \subseteq errors'
        /\ \A d \in keys : todo[d] = 0
        /\ keys' = {} /\ todo' = [d \in Stats!Counter |-> 0] /\ RepeatsOf(c)
    BY DEF Stats!DeleteKeys, Stats!DeleteFail, Stats!FaultHappens, Stats!NextPrefix,
           Stats!counts, Stats!history, RepeatsInv
  <1>2. StatsInHand(c)' = StatsInHand(c) /\ StatsToRead(c)' = counts'[c] /\ todo'[c] = 0
    BY <1>1 DEF StatsInHand, StatsToRead
  <1>3. StatsToRead(c) = IF c \in keys THEN 0 ELSE counts[c]
    BY <1>1 DEF StatsToRead
  <1>4. CASE Stats!DeleteKeys
    <2>1. counts'[c] = IF c \in keys THEN 0 ELSE counts[c]
      BY <1>4 DEF Stats!DeleteKeys
    <2> QED BY <1>1, <1>2, <1>3, <2>1, RepeatsTyped, RepeatsKept
  <1>5. CASE Stats!DeleteFail
    <2>1. counts' = counts /\ "delete" \notin errors /\ errors' = errors \cup {"delete"}
      BY <1>5 DEF Stats!DeleteFail, Stats!FaultHappens, Stats!counts
    <2>2. (stats[c] + StatsInHand(c) + StatsToRead(c))'
            <= stats[c] + StatsInHand(c) + StatsToRead(c) + counts[c]
      BY <1>1, <1>2, <1>3, <2>1, RepeatsTyped
    <2> QED BY <1>1, <1>2, <2>1, <2>2, RepeatsOnce
  <1> QED BY <1>4, <1>5

LEMMA CrashRepeats ==
  ASSUME Stats!TypeOK, Stats!TypeOK', RepeatsInv, Stats!Crash
  PROVE  RepeatsInv'
  <1> SUFFICES ASSUME NEW c \in Stats!Counter PROVE RepeatsOf(c)'
    BY DEF RepeatsInv
  <1>1. /\ UNCHANGED <<counts, stats, recorded>>
        /\ "crash" \notin errors /\ errors' = errors \cup {"crash"}
        /\ keys' = {} /\ current' = {} /\ todo' = [d \in Stats!Counter |-> 0] /\ RepeatsOf(c)
    BY DEF Stats!Crash, Stats!FaultHappens, Stats!counts, Stats!history, RepeatsInv
  <1>2. StatsInHand(c)' = 0 /\ StatsToRead(c)' = counts[c] /\ todo'[c] = 0
    BY <1>1 DEF StatsInHand, StatsToRead
  <1>3. (stats[c] + StatsInHand(c) + StatsToRead(c))'
          <= stats[c] + StatsInHand(c) + StatsToRead(c) + counts[c]
    BY <1>1, <1>2, RepeatsTyped
  <1> QED BY <1>1, <1>2, <1>3, RepeatsOnce

LEMMA RepeatsInvariant == Stats!Spec => []RepeatsInv
  <1>1. Stats!Init => RepeatsInv
    BY DEF Stats!Init, RepeatsInv, RepeatsOf, StatsInHand, StatsToRead, StatsAllowed,
           Stats!Repeated
  <1>2. /\ Stats!TypeOK /\ Stats!TypeOK' /\ StatsListed /\ StatsHeld /\ RepeatsInv
        /\ [Stats!Next]_(Stats!vars)
        => RepeatsInv'
    <2> SUFFICES ASSUME Stats!TypeOK, Stats!TypeOK', StatsListed, StatsHeld, RepeatsInv,
                        [Stats!Next]_(Stats!vars)
                 PROVE  RepeatsInv'
      OBVIOUS
    <2>1. CASE Stats!RecordImpressions
      BY <2>1, IncrManyRepeats, OfCounter DEF Stats!RecordImpressions, Stats!Metric
    <2>2. CASE Stats!RecordRead
      <3>1. PICK c \in Stats!Of("read") : Stats!IncrMany({c})
        BY <2>2 DEF Stats!RecordRead
      <3>2. {c} \in SUBSET Stats!Counter
        BY OfCounter DEF Stats!Metric
      <3> QED BY <3>1, <3>2, IncrManyRepeats
    <2>3. CASE Stats!StartFlusher \/ Stats!ScanFail \/ UNCHANGED Stats!vars
      <3>1. /\ UNCHANGED <<counts, stats, keys, todo, current, val, recorded>>
            /\ errors \subseteq errors'
        BY <2>3 DEF Stats!StartFlusher, Stats!ScanFail, Stats!FaultHappens, Stats!counts,
                    Stats!flusher, Stats!history, Stats!vars
      <3> SUFFICES ASSUME NEW c \in Stats!Counter PROVE RepeatsOf(c)'
        BY DEF RepeatsInv
      <3>2. StatsInHand(c)' = StatsInHand(c) /\ StatsToRead(c)' = StatsToRead(c)
        BY <3>1 DEF StatsInHand, StatsToRead
      <3>3. RepeatsOf(c)
        BY DEF RepeatsInv
      <3> QED BY <3>1, <3>2, <3>3, RepeatsTyped, RepeatsKept
    <2>4. ASSUME NEW twice \in SUBSET Stats!Counter, Stats!ScanKeys(twice) PROVE RepeatsInv'
      BY <2>4, ScanKeysRepeats
    <2>5. ASSUME NEW c \in Stats!Counter, Stats!GetKey(c) \/ Stats!GetFail(c) PROVE RepeatsInv'
      BY <2>5, GetRepeats
    <2>6. CASE Stats!AddCounters \/ Stats!AddFail
      BY <2>6, AddRepeats
    <2>7. CASE Stats!DeleteKeys \/ Stats!DeleteFail
      BY <2>7, DeleteRepeats
    <2>8. CASE Stats!Crash
      BY <2>8, CrashRepeats
    <2> QED BY <2>1, <2>2, <2>3, <2>4, <2>5, <2>6, <2>7, <2>8 DEF Stats!Next, Stats!Flush
  <1>3. StatsInv => StatsHeld
    BY DEF StatsInv
  <1> QED BY <1>1, <1>2, <1>3, StatsTyped, StatsInvariant, PTL DEF Stats!Spec

(***************************************************************************)
(* As long as nothing fails but SCAN, the flusher loses what comes between *)
(* its GET and its DEL of a key and nothing else; failed GETs and UPDATEs  *)
(* lose more and double nothing; and a key that is listed twice, a failed  *)
(* DEL and a crash each count what there is once more at most, for any     *)
(* number of notes and requests and every set of faults                    *)
(* (stats_service.go:82-118).                                              *)
(***************************************************************************)
THEOREM AccountedHolds == Stats!Spec => []Accounted
  <1>1. Stats!TypeOK /\ RepeatsInv => Stats!RepeatsBounded
    <2> SUFFICES ASSUME Stats!TypeOK, RepeatsInv, NEW c \in Stats!Counter
                 PROVE  stats[c] <= StatsAllowed(c)
      BY DEF Stats!RepeatsBounded, StatsAllowed
    <2> QED BY RepeatsTyped DEF RepeatsInv, RepeatsOf
  <1>2. Stats!TypeOK /\ StatsInv /\ RepeatsInv => Accounted
    BY <1>1 DEF StatsInv, StatsAccount, Accounted, Stats!Accounted
  <1> QED BY <1>2, StatsTyped, StatsInvariant, RepeatsInvariant, PTL
-----------------------------------------------------------------------------
(***************************************************************************)
(* Topics.  What a request may have left.                                  *)
(***************************************************************************)
Ins1 == <<"insertNote">>
Edi1 == <<"updateNote", "pluck">>
Era1 == <<"deleteNote", "pluck">>
Plu1 == <<"pluck">>
Det1 == <<"deleteRows", "decrement">>
Det2 == <<"deleteRows", "decrement", "upsert">>
Dec1 == <<"decrement">>
Dec2 == <<"decrement", "upsert">>
Ups1 == <<"upsert">>
Sel1 == <<"selectId">>
Row1 == <<"insertRows", "bumpHot">>
Bum1 == <<"bumpHot">>
Hot1 == <<"getHot">>
Hot2 == <<"readHot">>
Hot3 == <<"setHot">>

Attaching == {Ups1, Sel1, Row1, Bum1}

\* The topics a request has in hand count as the note's.
Counting == {Dec1, Dec2, Ups1, Sel1, Row1}

Placed(r) ==
  \/ r.op = "create" /\ r.todo \in {Ins1} \cup Attaching
  \/ r.op = "update" /\ r.todo \in {Edi1, Plu1, Det1, Det2, Dec1, Dec2} \cup Attaching
  \/ r.op = "delete" /\ r.todo \in {Era1, Plu1, Det1, Dec1}
  \/ r.op = "hot" /\ r.todo \in {Hot1, Hot2, Hot3}

EmptyHanded(r) == r.todo \in {Ins1, Edi1, Era1, Plu1} => r.ids = {}

Errand == [op: {"create", "update", "delete", "hot"},
           todo: {Ins1, Edi1, Era1, Plu1, Det1, Det2, Dec1, Dec2, Ups1, Sel1, Row1, Bum1,
                  Hot1, Hot2, Hot3},
           note: Post, names: SUBSET Spelling, ids: SUBSET Subject, current: BOOLEAN]

InTable(r) == r.op # "hot" /\ r.todo # Ins1 => note[r.note] # "none"

ErrandsKnown ==
  /\ call \in [Request -> {Topic!NoRequest} \cup Errand]
  /\ \A q \in Topic!Active : Placed(call[q]) /\ EmptyHanded(call[q]) /\ InTable(call[q])

TopicsTyped ==
  /\ note \in [Post -> {"none", "published", "deleted"}]
  /\ attached \subseteq {n \in Post : note[n] # "none"} \X Subject
  /\ topicCount \in [Subject -> Nat]
  /\ hot \in {"missing", "fresh", "stale"}
  /\ drift \in BOOLEAN /\ crossed \in BOOLEAN /\ overtaken \in BOOLEAN /\ lowered \in BOOLEAN
  /\ writes \in 0..MaxEdits /\ failed \in 0..MaxLapses

TopicsSafe == TopicsTyped /\ ErrandsKnown
-----------------------------------------------------------------------------
\* Nobody else works on the note of a request.
WritersApart == \A q, s \in Topic!Writers : q # s => call[q].note # call[s].note

\* A request counts topics for a note that has none then, and takes those it has.
Emptied(r) ==
  /\ r.op # "hot" /\ r.todo \in Counting => Topic!TopicsOf(r.note) = {}
  /\ r.todo \in {Det1, Det2} => r.ids = Topic!TopicsOf(r.note)

\* The names it still has to count stand for topics of their own.
Distinct(r) ==
  /\ r.op = "update" /\ r.todo \in {Plu1, Det2, Dec2} => ~Topic!Twice(r.names)
  /\ r.todo \in {Ups1, Sel1} => /\ ~Topic!Twice(r.names)
                                /\ \A a \in r.names : SubjectOf[a] \notin r.ids

Credited(r) == IF r.op # "hot" /\ r.todo \in Counting THEN r.ids ELSE {}

Tags(r, n, t) == r # Topic!NoRequest /\ r.note = n /\ t \in Credited(r)

Tagged(n, t) == <<n, t>> \in attached \/ \E q \in Request : Tags(call[q], n, t)

\* The rows of a topic, and those on their way in or out.
Tagging(t) == {row \in Post \X {t} : Tagged(row[1], t)}

Covered(t) ==
  /\ IsFiniteSet(Tagging(t)) /\ Cardinality(Tagging(t)) <= topicCount[t]
  /\ drift # TRUE => Cardinality(Tagging(t)) = topicCount[t]

CountsCalm ==
  /\ WritersApart
  /\ \A q \in Topic!Writers : /\ Emptied(call[q])
                              /\ drift # TRUE => Distinct(call[q])
  /\ \A t \in Subject : Covered(t)

\* Who reads the list reads it alone; and who makes it an old one by counting
\* clears it.
HotCalm ==
  /\ \A q \in Topic!Active : call[q].op = "hot" => Topic!Writers = {} /\ call[q].current = TRUE
  /\ drift # TRUE /\ hot = "stale" =>
       lowered = TRUE \/ \E q \in Topic!Writers : call[q].todo \in Attaching

TopicsKept == /\ TopicsSafe'
              /\ CountsCalm /\ crossed' # TRUE => CountsCalm'
              /\ HotCalm /\ overtaken' # TRUE => HotCalm'

TopicsInv == /\ TopicsSafe
             /\ crossed # TRUE => CountsCalm
             /\ overtaken # TRUE => HotCalm
-----------------------------------------------------------------------------
LEMMA TopicCalls ==
  /\ Topic!Calls.create = Ins1 /\ Topic!Calls.update = Edi1
  /\ Topic!Calls.delete = Era1 /\ Topic!Calls.hot = Hot1
  BY DEF Topic!Calls, Ins1, Edi1, Era1, Hot1

LEMMA TopicHeads ==
  /\ Head(Ins1) = "insertNote" /\ Tail(Ins1) = <<>> /\ Ins1 # <<>>
  /\ Head(Edi1) = "updateNote" /\ Tail(Edi1) = Plu1 /\ Edi1 # <<>>
  /\ Head(Era1) = "deleteNote" /\ Tail(Era1) = Plu1 /\ Era1 # <<>>
  /\ Head(Plu1) = "pluck" /\ Tail(Plu1) = <<>> /\ Plu1 # <<>>
  /\ Head(Det1) = "deleteRows" /\ Tail(Det1) = Dec1 /\ Det1 # <<>>
  /\ Head(Det2) = "deleteRows" /\ Tail(Det2) = Dec2 /\ Det2 # <<>>
  /\ Head(Dec1) = "decrement" /\ Tail(Dec1) = <<>> /\ Dec1 # <<>>
  /\ Head(Dec2) = "decrement" /\ Tail(Dec2) = Ups1 /\ Dec2 # <<>>
  /\ Head(Ups1) = "upsert" /\ Tail(Ups1) = <<>> /\ Ups1 # <<>>
  /\ Head(Sel1) = "selectId" /\ Tail(Sel1) = <<>> /\ Sel1 # <<>>
  /\ Head(Row1) = "insertRows" /\ Tail(Row1) = Bum1 /\ Row1 # <<>>
  /\ Head(Bum1) = "bumpHot" /\ Tail(Bum1) = <<>> /\ Bum1 # <<>>
  /\ Head(Hot1) = "getHot" /\ Tail(Hot1) = <<>> /\ Hot1 # <<>>
  /\ Head(Hot2) = "readHot" /\ Tail(Hot2) = <<>> /\ Hot2 # <<>>
  /\ Head(Hot3) = "setHot" /\ Tail(Hot3) = <<>> /\ Hot3 # <<>>
  BY DEF Ins1, Edi1, Era1, Plu1, Det1, Det2, Dec1, Dec2, Ups1, Sel1, Row1, Bum1, Hot1, Hot2, Hot3

LEMMA TopicRests ==
  /\ <<"deleteRows", "decrement">> \o <<>> = Det1
  /\ <<"deleteRows", "decrement">> \o <<"upsert">> = Det2
  <1> DEFINE W == {"deleteRows", "decrement", "upsert"}
  <1>1. /\ <<"upsert">> \in Seq(W) /\ Det1 \in Seq(W) /\ Det2 \in Seq(W) /\ <<>> \in Seq(W)
        /\ <<"deleteRows", "decrement">> \in Seq(W)
    BY DEF Det1, Det2
  <1>2. /\ Len(<<"upsert">>) = 1 /\ Len(Det2) = 3 /\ Len(<<"deleteRows", "decrement">>) = 2
        /\ Det2[1] = "deleteRows" /\ Det2[2] = "decrement" /\ Det2[3] = "upsert"
    BY DEF Det2
  <1>3. <<"deleteRows", "decrement">> \o <<"upsert">> = Det2
    <2> DEFINE s == <<"deleteRows", "decrement">> \o <<"upsert">>
    <2>1. s \in Seq(W) /\ Len(s) = 3
      BY <1>1, <1>2, ConcatProperties
    <2>2. \A i \in 1..3 : s[i] = Det2[i]
      BY <1>1, <1>2, ConcatProperties
    <2> QED BY <1>1, <1>2, <2>1, <2>2, SeqEqual
  <1>4. <<"deleteRows", "decrement">> \o <<>> = Det1
    BY <1>1, ConcatEmptySeq DEF Det1
  <1> QED BY <1>3, <1>4

LEMMA TopicApart ==
  /\ \A t \in {Ins1, Edi1, Era1, Plu1} :
       t \notin {Det1, Det2, Dec1, Dec2, Ups1, Sel1, Row1, Bum1, Hot1, Hot2, Hot3}
  /\ Ins1 # Edi1 /\ Ins1 # Era1 /\ Ins1 # Plu1 /\ Edi1 # Plu1 /\ Era1 # Plu1
  /\ \A t \in {Det1, Det2} : t \notin {Dec1, Dec2, Ups1, Sel1, Row1, Bum1, Hot1, Hot2, Hot3}
  /\ \A t \in {Dec1, Dec2} : t \notin {Ups1, Sel1, Row1, Bum1, Hot1, Hot2, Hot3}
  /\ \A t \in {Ups1, Sel1} : t \notin {Row1, Bum1, Hot1, Hot2, Hot3}
  /\ Row1 # Bum1 /\ Ups1 # Sel1 /\ Det1 # Det2 /\ Dec1 # Dec2
  /\ \A t \in {Row1, Bum1} : t \notin {Hot1, Hot2, Hot3}
  BY DEF Ins1, Edi1, Era1, Plu1, Det1, Det2, Dec1, Dec2, Ups1, Sel1, Row1, Bum1, Hot1, Hot2, Hot3

\* The statement a request is at says what it is and what it has left.
LEMMA TopicWhere ==
  ASSUME ErrandsKnown, NEW q, NEW statement, Topic!At(q, statement)
  PROVE  /\ q \in Request /\ call[q] \in Errand /\ q \in Topic!Active
         /\ Placed(call[q]) /\ EmptyHanded(call[q]) /\ InTable(call[q])
         /\ statement = "insertNote" => call[q].op = "create" /\ call[q].todo = Ins1
         /\ statement = "updateNote" => call[q].op = "update" /\ call[q].todo = Edi1
         /\ statement = "deleteNote" => call[q].op = "delete" /\ call[q].todo = Era1
         /\ statement = "pluck" => call[q].op \in {"update", "delete"} /\ call[q].todo = Plu1
         /\ statement = "deleteRows" => \/ call[q].op \in {"update", "delete"} /\ call[q].todo = Det1
                                        \/ call[q].op = "update" /\ call[q].todo = Det2
         /\ statement = "decrement" => \/ call[q].op \in {"update", "delete"} /\ call[q].todo = Dec1
                                       \/ call[q].op = "update" /\ call[q].todo = Dec2
         /\ statement = "upsert" => call[q].op \in {"create", "update"} /\ call[q].todo = Ups1
         /\ statement = "selectId" => call[q].op \in {"create", "update"} /\ call[q].todo = Sel1
         /\ statement = "insertRows" => call[q].op \in {"create", "update"} /\ call[q].todo = Row1
         /\ statement = "bumpHot" => call[q].op \in {"create", "update"} /\ call[q].todo = Bum1
         /\ statement = "getHot" => call[q].op = "hot" /\ call[q].todo = Hot1
         /\ statement = "readHot" => call[q].op = "hot" /\ call[q].todo = Hot2
         /\ statement = "setHot" => call[q].op = "hot" /\ call[q].todo = Hot3
  <1>1. /\ q \in Request /\ call[q] \in Errand /\ q \in Topic!Active
        /\ Placed(call[q]) /\ EmptyHanded(call[q]) /\ InTable(call[q])
        /\ Head(call[q].todo) = statement
    BY DEF ErrandsKnown, Topic!At, Topic!Active
  <1> PICK r \in Errand : r = call[q]
    BY <1>1
  <1>2. \/ r.op = "create" /\ r.todo = Ins1
        \/ r.op = "update" /\ r.todo = Edi1
        \/ r.op = "delete" /\ r.todo = Era1
        \/ r.op \in {"update", "delete"} /\ r.todo = Plu1
        \/ r.op \in {"update", "delete"} /\ r.todo = Det1
        \/ r.op = "update" /\ r.todo = Det2
        \/ r.op \in {"update", "delete"} /\ r.todo = Dec1
        \/ r.op = "update" /\ r.todo = Dec2
        \/ r.op \in {"create", "update"} /\ r.todo = Ups1
        \/ r.op \in {"create", "update"} /\ r.todo = Sel1
        \/ r.op \in {"create", "update"} /\ r.todo = Row1
        \/ r.op \in {"create", "update"} /\ r.todo = Bum1
        \/ r.op = "hot" /\ r.todo = Hot1
        \/ r.op = "hot" /\ r.todo = Hot2
        \/ r.op = "hot" /\ r.todo = Hot3
    BY <1>1 DEF Placed, Attaching
  <1> QED BY <1>1, <1>2, TopicHeads

LEMMA NoErrand == Topic!NoRequest \notin Errand
  BY DEF Topic!NoRequest, Errand
-----------------------------------------------------------------------------
\* The requests other than q stay, but what a reader of the list holds may
\* become old.
OthersStay(q) ==
  \A s \in Request : s # q =>
    \/ call'[s] = call[s]
    \/ call[s] # Topic!NoRequest /\ call'[s] = [call[s] EXCEPT !.current = FALSE]

LEMMA OthersAre ==
  ASSUME ErrandsKnown, NEW q, OthersStay(q), NEW s \in Request, s # q
  PROVE  /\ call[s] = Topic!NoRequest => call'[s] = Topic!NoRequest
         /\ call[s] # Topic!NoRequest =>
              /\ call[s] \in Errand /\ call'[s] \in Errand /\ call'[s] # Topic!NoRequest
              /\ call'[s].op = call[s].op /\ call'[s].todo = call[s].todo
              /\ call'[s].note = call[s].note /\ call'[s].names = call[s].names
              /\ call'[s].ids = call[s].ids
  <1>1. CASE call[s] = Topic!NoRequest
    BY <1>1 DEF OthersStay
  <1>2. CASE call[s] # Topic!NoRequest
    <2> PICK r \in Errand : r = call[s]
      BY <1>2 DEF ErrandsKnown
    <2>1. call'[s] = r \/ call'[s] = [r EXCEPT !.current = FALSE]
      BY DEF OthersStay
    <2>2. [r EXCEPT !.current = FALSE] \in Errand
      BY DEF Errand
    <2> QED BY <1>2, <2>1, <2>2, NoErrand DEF Errand
  <1> QED BY <1>1, <1>2

FitIn(x) == x \in Errand /\ Placed(x) /\ EmptyHanded(x)

\* Request q goes on with x.
LEMMA ErrandsMove ==
  ASSUME TopicsSafe, NEW q \in Request, NEW x, call'[q] = x, OthersStay(q),
         call' = [s \in Request |-> call'[s]],
         \A n \in Post : note[n] # "none" => note'[n] # "none",
         \/ x = Topic!NoRequest
         \/ FitIn(x) /\ (x.op # "hot" /\ x.todo # Ins1 => note'[x.note] # "none")
  PROVE  ErrandsKnown'
  <1>1. ASSUME NEW s \in Request
        PROVE  /\ call'[s] \in {Topic!NoRequest} \cup Errand
               /\ call'[s] # Topic!NoRequest =>
                    /\ Placed(call'[s]) /\ EmptyHanded(call'[s])
                    /\ call'[s].op # "hot" /\ call'[s].todo # Ins1 => note'[call'[s].note] # "none"
    <2>1. CASE s = q
      BY <2>1 DEF FitIn
    <2>2. CASE s # q /\ call[s] = Topic!NoRequest
      BY <2>2, OthersAre DEF TopicsSafe
    <2>3. CASE s # q /\ call[s] # Topic!NoRequest
      <3>1. /\ call[s] \in Errand /\ call'[s] \in Errand
            /\ call'[s].op = call[s].op /\ call'[s].todo = call[s].todo
            /\ call'[s].note = call[s].note /\ call'[s].names = call[s].names
            /\ call'[s].ids = call[s].ids
        BY <2>3, OthersAre DEF TopicsSafe
      <3>2. Placed(call[s]) /\ EmptyHanded(call[s]) /\ InTable(call[s]) /\ call[s].note \in Post
        BY <2>3, <3>1 DEF TopicsSafe, ErrandsKnown, Topic!Active, Errand
      <3> QED BY <3>1, <3>2 DEF Placed, EmptyHanded, InTable
    <2> QED BY <2>1, <2>2, <2>3
  <1>2. call' \in [Request -> {Topic!NoRequest} \cup Errand]
    BY <1>1
  <1> QED BY <1>1, <1>2 DEF ErrandsKnown, Topic!Active, InTable, Placed, EmptyHanded

\* What Become leaves of the requests.
LEMMA Becomes ==
  ASSUME ErrandsKnown, NEW q \in Request, NEW r, Topic!Become(q, r)
  PROVE  /\ OthersStay(q) /\ call' = [s \in Request |-> call'[s]]
         /\ r.todo = <<>> => call'[q] = Topic!NoRequest
         /\ r.todo # <<>> => call'[q] = r
  BY DEF ErrandsKnown, Topic!Become, OthersStay

LEMMA Recounts ==
  ASSUME ErrandsKnown, NEW q \in Request, NEW new, NEW rest, Topic!Recount(q, new, rest)
  PROVE  /\ OthersStay(q) /\ call' = [s \in Request |-> call'[s]]
         /\ rest.todo = <<>> => call'[q] = Topic!NoRequest
         /\ rest.todo # <<>> => call'[q] = rest
         /\ topicCount' = new /\ hot' = IF hot = "fresh" /\ new # topicCount THEN "stale" ELSE hot
  BY DEF ErrandsKnown, Topic!Recount, OthersStay, Topic!Active
-----------------------------------------------------------------------------
TaggedElse(q, n, t) == \E s \in Request : s # q /\ Tags(call[s], n, t)

LEMMA TaggedBy ==
  ASSUME TopicsSafe, NEW q \in Request, NEW x, call'[q] = x, OthersStay(q), NEW n, NEW t
  PROVE  /\ Tagged(n, t) <=> \/ <<n, t>> \in attached
                             \/ Tags(call[q], n, t)
                             \/ TaggedElse(q, n, t)
         /\ Tagged(n, t)' <=> \/ <<n, t>> \in attached'
                              \/ Tags(x, n, t)
                              \/ TaggedElse(q, n, t)
  <1>1. \A s \in Request : s # q => (Tags(call[s], n, t))' = Tags(call[s], n, t)
    BY OthersAre DEF TopicsSafe, Tags, Credited
  <1>2. (Tags(call[q], n, t))' = Tags(x, n, t)
    BY DEF Tags, Credited
  <1> QED BY <1>1, <1>2 DEF Tagged, TaggedElse

\* Nobody else counts topics of the note of a request.
LEMMA TaggedAlone ==
  ASSUME WritersApart, NEW q \in Topic!Writers, NEW t
  PROVE  ~TaggedElse(q, call[q].note, t)
  BY DEF WritersApart, TaggedElse, Tags, Credited, Topic!Writers, Topic!Active

LEMMA StaysCovered ==
  ASSUME TopicsSafe, NEW t \in Subject, Covered(t), topicCount' = topicCount,
         drift = TRUE => drift' = TRUE,
         \/ \A n \in Post : Tagged(n, t)' <=> Tagged(n, t)
         \/ drift' = TRUE /\ \A n \in Post : Tagged(n, t)' => Tagged(n, t)
  PROVE  Covered(t)'
  <1> PICK S : S = Tagging(t)'
    OBVIOUS
  <1>1. IsFiniteSet(Tagging(t)) /\ Cardinality(Tagging(t)) <= topicCount[t] /\ topicCount[t] \in Nat
        /\ (drift # TRUE => Cardinality(Tagging(t)) = topicCount[t])
    BY DEF Covered, TopicsSafe, TopicsTyped
  <1>2. S \subseteq Tagging(t)
    BY DEF Tagging
  <1>3. IsFiniteSet(S) /\ Cardinality(S) <= Cardinality(Tagging(t))
    BY <1>1, <1>2, FS_Subset
  <1>4. Cardinality(S) \in Nat /\ Cardinality(Tagging(t)) \in Nat
    BY <1>1, <1>3, FS_CardinalityType
  <1>5. drift' # TRUE => S = Tagging(t)
    BY <1>2 DEF Tagging
  <1>6. IsFiniteSet(Tagging(t))' /\ (Cardinality(Tagging(t)))' = Cardinality(S)
    BY <1>3
  <1>7. Cardinality(S) <= topicCount'[t]
    <2> DEFINE k == Cardinality(Tagging(t))
    <2>1. k \in Nat /\ k <= topicCount[t] /\ Cardinality(S) <= k
      BY <1>1, <1>3, <1>4
    <2> HIDE DEF k
    <2> QED BY <1>1, <1>4, <2>1
  <1>8. drift' # TRUE => Cardinality(S) = topicCount'[t]
    BY <1>1, <1>5
  <1> QED BY <1>6, <1>7, <1>8 DEF Covered

\* Request q goes on with x about the same note.
LEMMA CountsGoOn ==
  ASSUME TopicsSafe, CountsCalm, NEW q \in Topic!Active, NEW x, call'[q] = x, OthersStay(q),
         \/ x = Topic!NoRequest
         \/ /\ x.op = call[q].op /\ x.note = call[q].note /\ Emptied(x)'
            /\ drift' # TRUE => Distinct(x),
         \A n, t : n # call[q].note \/ call[q].op = "hot" =>
                     (<<n, t>> \in attached' <=> <<n, t>> \in attached),
         drift = TRUE => drift' = TRUE,
         \A t \in Subject : Covered(t)'
  PROVE  CountsCalm'
  <1>1. q \in Request
    BY DEF Topic!Active
  <1>2. \A s \in Request : s # q /\ s \in Topic!Writers' =>
          s \in Topic!Writers /\ call'[s].note = call[s].note
    BY OthersAre DEF TopicsSafe, Topic!Writers, Topic!Active
  <1>3. q \in Topic!Writers' => q \in Topic!Writers /\ call'[q].note = call[q].note
    BY DEF Topic!Writers, Topic!Active
  <1>4. WritersApart'
    <2>1. \A s \in Topic!Writers' : s \in Request
      BY DEF Topic!Writers, Topic!Active
    <2> QED BY <1>2, <1>3, <2>1 DEF CountsCalm, WritersApart
  <1>5. ASSUME NEW s \in Topic!Writers'
        PROVE  /\ (Emptied(call[s]))'
               /\ drift' # TRUE => (Distinct(call[s]))'
    <2>1. s \in Request /\ call'[s] # Topic!NoRequest
      BY DEF Topic!Writers, Topic!Active
    <2>2. CASE s = q
      <3>1. Emptied(x)' /\ (drift' # TRUE => Distinct(x))
        BY <2>1, <2>2
      <3> QED BY <2>2, <3>1 DEF Emptied, Distinct, Topic!Twice
    <2>3. CASE s # q
      <3>1. /\ s \in Topic!Writers /\ call'[s].op = call[s].op /\ call'[s].todo = call[s].todo
            /\ call'[s].note = call[s].note /\ call'[s].names = call[s].names
            /\ call'[s].ids = call[s].ids
        BY <1>2, <2>1, <2>3, OthersAre DEF TopicsSafe, Topic!Writers, Topic!Active
      <3>2. call[q].op = "hot" \/ call[s].note # call[q].note
        BY <2>3, <3>1 DEF CountsCalm, WritersApart, Topic!Writers
      <3>3. (Topic!TopicsOf(call[s].note))' = Topic!TopicsOf(call[s].note)
        <4> PICK n : n = call[s].note
          OBVIOUS
        <4>1. \A t : <<n, t>> \in attached' <=> <<n, t>> \in attached
          BY <3>2
        <4>2. Topic!TopicsOf(n)' = Topic!TopicsOf(n)
          BY <4>1 DEF Topic!TopicsOf
        <4>3. (Topic!TopicsOf(call[s].note))' = Topic!TopicsOf(n)'
          BY <3>1 DEF Topic!TopicsOf
        <4> QED BY <4>2, <4>3
      <3>4. Emptied(call[s]) /\ (drift # TRUE => Distinct(call[s]))
        BY <3>1 DEF CountsCalm
      <3>5. (Emptied(call[s]))'
        BY <3>1, <3>3, <3>4 DEF Emptied
      <3>6. drift' # TRUE => (Distinct(call[s]))'
        BY <3>1, <3>4 DEF Distinct, Topic!Twice
      <3> QED BY <3>5, <3>6
    <2> QED BY <2>2, <2>3
  <1> QED BY <1>4, <1>5 DEF CountsCalm

\* And it changes neither rows nor counts, and has the same topics in hand.
LEMMA CountsQuiet ==
  ASSUME TopicsSafe, CountsCalm, NEW q \in Topic!Active, NEW x, call'[q] = x, OthersStay(q),
         UNCHANGED <<attached, topicCount>>,
         \/ x = Topic!NoRequest
         \/ /\ x.op = call[q].op /\ x.note = call[q].note /\ Emptied(x)
            /\ drift' # TRUE => Distinct(x),
         drift = TRUE => drift' = TRUE,
         \A n, t : Tags(x, n, t) => Tags(call[q], n, t),
         drift' = TRUE \/ \A n, t : Tags(call[q], n, t) => Tags(x, n, t)
  PROVE  CountsCalm'
  <1>1. q \in Request
    BY DEF Topic!Active
  <1>2. \A n \in Post, t \in Subject :
          /\ Tagged(n, t)' => Tagged(n, t)
          /\ drift' = TRUE \/ (Tagged(n, t) => Tagged(n, t)')
    BY <1>1, TaggedBy
  <1>3. \A t \in Subject : Covered(t)'
    BY <1>2, StaysCovered DEF CountsCalm
  <1>4. x = Topic!NoRequest \/ Emptied(x)'
    BY DEF Emptied, Topic!TopicsOf
  <1> QED BY <1>3, <1>4, CountsGoOn
-----------------------------------------------------------------------------
\* What the list is, and who looks at it: a step of q.
LEMMA HotMoves ==
  ASSUME TopicsSafe, HotCalm, NEW q \in Topic!Active, NEW x, call'[q] = x, OthersStay(q),
         x = Topic!NoRequest \/ x.op = call[q].op,
         x # Topic!NoRequest /\ x.op = "hot" => x.current = TRUE,
         call[q].op = "hot" => \A s \in Request : s # q => call'[s] = call[s],
         drift = TRUE => drift' = TRUE,
         \/ drift' = TRUE
         \/ hot' # "stale"
         \/ lowered' = TRUE
         \/ x # Topic!NoRequest /\ x.op # "hot" /\ x.todo \in Attaching
         \/ /\ hot' = hot /\ lowered' = lowered
            /\ call[q].op = "hot" \/ call[q].todo \notin Attaching
  PROVE  HotCalm'
  <1>1. q \in Request
    BY DEF Topic!Active
  <1>2. ASSUME NEW s \in Topic!Active', call'[s].op = "hot"
        PROVE  Topic!Writers' = {} /\ call'[s].current = TRUE
    <2>1. s \in Request /\ call'[s] # Topic!NoRequest
      BY DEF Topic!Active
    <2>2. s \in Topic!Active /\ call[s].op = "hot"
      BY <1>1, <1>2, <2>1, OthersAre DEF TopicsSafe, Topic!Active
    <2>3. Topic!Writers = {} /\ call[s].current = TRUE /\ call[q].op = "hot"
      BY <2>2 DEF HotCalm, Topic!Writers
    <2>4. Topic!Writers' = {}
      <3>1. \A p \in Topic!Writers' : p \in Topic!Writers
        BY <1>1, OthersAre DEF TopicsSafe, Topic!Writers, Topic!Active
      <3> QED BY <2>3, <3>1
    <2>5. call'[s].current = TRUE
      <3>1. CASE s = q
        BY <1>2, <2>1, <3>1
      <3>2. CASE s # q
        BY <2>1, <2>3, <3>2
      <3> QED BY <3>1, <3>2
    <2> QED BY <2>4, <2>5
  <1>3. ASSUME drift' # TRUE, hot' = "stale"
        PROVE  lowered' = TRUE \/ \E s \in Topic!Writers' : call'[s].todo \in Attaching
    <2>1. CASE x # Topic!NoRequest /\ x.op # "hot" /\ x.todo \in Attaching
      BY <1>1, <2>1 DEF Topic!Writers, Topic!Active
    <2>2. CASE /\ hot' = hot /\ lowered' = lowered
               /\ call[q].op = "hot" \/ call[q].todo \notin Attaching
      <3>1. lowered = TRUE \/ \E s \in Topic!Writers : call[s].todo \in Attaching
        BY <1>3, <2>2 DEF HotCalm
      <3>2. ASSUME NEW s \in Topic!Writers, call[s].todo \in Attaching
            PROVE  s \in Topic!Writers' /\ call'[s].todo \in Attaching
        <4>1. s # q /\ s \in Request /\ call[s] # Topic!NoRequest
          BY <2>2, <3>2 DEF Topic!Writers, Topic!Active
        <4> QED BY <3>2, <4>1, OthersAre DEF TopicsSafe, Topic!Writers, Topic!Active
      <3> QED BY <2>2, <3>1, <3>2
    <2> QED BY <1>3, <2>1, <2>2
  <1> QED BY <1>2, <1>3 DEF HotCalm
-----------------------------------------------------------------------------
\* A step of q that changes neither rows nor counts, nor what q has in hand.
LEMMA QuietStep ==
  ASSUME TopicsSafe, NEW q \in Topic!Active, NEW x, Topic!Become(q, x),
         \/ x.todo = <<>> /\ (drift' = TRUE \/ Credited(call[q]) = {})
         \/ /\ x.todo # <<>> /\ FitIn(x)
            /\ x.op # "hot" /\ x.todo # Ins1 => note'[x.note] # "none"
            /\ x.op = call[q].op /\ x.note = call[q].note
            /\ Credited(x) = Credited(call[q])
            /\ CountsCalm => Emptied(x) /\ (drift' # TRUE => Distinct(x))
            /\ x.op = "hot" => x.current = TRUE \/ x.current = call[q].current,
         \A n \in Post : note[n] # "none" => note'[n] # "none",
         TopicsTyped', UNCHANGED <<attached, topicCount, crossed, overtaken>>,
         drift = TRUE => drift' = TRUE,
         \/ drift' = TRUE
         \/ HotCalm => hot' # "stale"
         \/ x.todo # <<>> /\ x.op # "hot" /\ x.todo \in Attaching
         \/ /\ hot' = hot /\ lowered' = lowered
            /\ call[q].op = "hot" \/ call[q].todo \notin Attaching
  PROVE  TopicsKept
  <1> PICK y : y = call'[q]
    OBVIOUS
  <1>1. /\ q \in Request /\ ErrandsKnown /\ OthersStay(q) /\ call' = [s \in Request |-> call'[s]]
        /\ \A s \in Request : s # q => call'[s] = call[s]
        /\ x.todo = <<>> => y = Topic!NoRequest
        /\ x.todo # <<>> => y = x /\ y # Topic!NoRequest
    BY Becomes, NoErrand DEF TopicsSafe, Topic!Active, Topic!Become, FitIn, ErrandsKnown
  <1>2. TopicsSafe'
    <2>1. ErrandsKnown'
      BY <1>1, ErrandsMove
    <2> QED BY <2>1 DEF TopicsSafe
  <1>3. ASSUME CountsCalm
        PROVE  CountsCalm'
    <2>1. \A n, t : Tags(y, n, t) => Tags(call[q], n, t)
      BY <1>1 DEF Tags, Topic!Active
    <2>2. drift' = TRUE \/ \A n, t : Tags(call[q], n, t) => Tags(y, n, t)
      BY <1>1 DEF Tags, Topic!Active
    <2>3. \/ y = Topic!NoRequest
          \/ /\ y.op = call[q].op /\ y.note = call[q].note /\ Emptied(y)
             /\ drift' # TRUE => Distinct(y)
      BY <1>1, <1>3
    <2> QED BY <1>1, <1>3, <2>1, <2>2, <2>3, CountsQuiet
  <1>4. ASSUME HotCalm
        PROVE  HotCalm'
    <2>1. y = Topic!NoRequest \/ y.op = call[q].op
      BY <1>1
    <2>2. y # Topic!NoRequest /\ y.op = "hot" => y.current = TRUE
      BY <1>1, <1>4 DEF HotCalm
    <2>3. \/ drift' = TRUE
          \/ hot' # "stale"
          \/ y # Topic!NoRequest /\ y.op # "hot" /\ y.todo \in Attaching
          \/ /\ hot' = hot /\ lowered' = lowered
             /\ call[q].op = "hot" \/ call[q].todo \notin Attaching
      BY <1>1, <1>4
    <2> QED BY <1>1, <1>4, <2>1, <2>2, <2>3, HotMoves
  <1> QED BY <1>2, <1>3, <1>4 DEF TopicsKept
-----------------------------------------------------------------------------
LEMMA InsertNoteStep ==
  ASSUME TopicsSafe, NEW q, Topic!InsertNote(q)
  PROVE  TopicsKept
  <1>1. /\ q \in Topic!Active /\ call[q] \in Errand /\ call[q].ids = {}
        /\ call[q].op = "create" /\ call[q].todo = Ins1
    BY TopicWhere DEF Topic!InsertNote, TopicsSafe, EmptyHanded
  <1> PICK r \in Errand : r = call[q]
    BY <1>1
  <1> DEFINE x == [r EXCEPT !.todo = Topic!Attach(r.names)]
  <1>2. /\ note[r.note] = "none" /\ note' = [note EXCEPT ![r.note] = "published"]
        /\ drift' = (drift \/ Topic!Twice(r.names)) /\ Topic!Become(q, x)
        /\ UNCHANGED <<attached, topicCount, hot, lowered, crossed, overtaken, writes, failed>>
    BY DEF Topic!InsertNote, Topic!GoOn, Topic!overlaps, Topic!bounds
  <1>3. /\ x.op = r.op /\ x.note = r.note /\ x.names = r.names /\ x.ids = {}
        /\ x.current = r.current /\ x.todo \in {<<>>, Ups1} /\ (x.todo = Ups1 => x \in Errand)
    BY <1>1 DEF Topic!Attach, Ups1, Errand
  <1> HIDE DEF x
  <1>4. drift' \in BOOLEAN /\ (drift' # TRUE => drift # TRUE /\ ~Topic!Twice(r.names))
    BY <1>2 DEF TopicsSafe, TopicsTyped
  <1>5. r.note \in Post /\ note \in [Post -> {"none", "published", "deleted"}]
    BY DEF Errand, TopicsSafe, TopicsTyped
  <1>6. /\ note'[r.note] = "published" /\ \A n \in Post : note[n] # "none" => note'[n] # "none"
        /\ note' \in [Post -> {"none", "published", "deleted"}]
    BY <1>2, <1>5
  <1>7. TopicsTyped'
    BY <1>2, <1>4, <1>6 DEF TopicsSafe, TopicsTyped
  <1>8. Topic!TopicsOf(r.note) = {}
    BY <1>2 DEF TopicsSafe, TopicsTyped, Topic!TopicsOf
  <1>9. Credited(r) = {} /\ Credited(x) = {} /\ r.todo \notin Attaching
    BY <1>1, <1>3, TopicApart DEF Credited, Counting, Attaching
  <1>10. x.todo # <<>> => FitIn(x)
    BY <1>1, <1>3, TopicApart DEF FitIn, Placed, EmptyHanded, Attaching
  <1>11. x.todo # <<>> => Emptied(x) /\ (drift' # TRUE => Distinct(x))
    BY <1>1, <1>3, <1>4, <1>8, TopicApart DEF Emptied, Distinct
  <1> QED BY <1>1, <1>2, <1>3, <1>4, <1>6, <1>7, <1>9, <1>10, <1>11, QuietStep

LEMMA UpdateNoteStep ==
  ASSUME TopicsSafe, NEW q, Topic!UpdateNote(q)
  PROVE  TopicsKept
  <1>1. /\ q \in Topic!Active /\ call[q] \in Errand /\ call[q].ids = {}
        /\ call[q].op = "update" /\ call[q].todo = Edi1 /\ note[call[q].note] # "none"
    BY TopicWhere, TopicApart DEF Topic!UpdateNote, TopicsSafe, EmptyHanded, InTable
  <1> PICK r \in Errand : r = call[q]
    BY <1>1
  <1> DEFINE x == [r EXCEPT !.todo = IF note[r.note] = "published" THEN Plu1 ELSE <<>>]
  <1>2. /\ Topic!Become(q, x)
        /\ UNCHANGED <<note, attached, topicCount, hot, lowered, crossed, overtaken, writes, failed>>
    BY <1>1, TopicHeads DEF Topic!UpdateNote, Topic!Proceed, Topic!Stop, Topic!GoOn, Topic!overlaps,
                            Topic!bounds
  <1>3. /\ x.op = r.op /\ x.note = r.note /\ x.names = r.names /\ x.ids = {}
        /\ x.current = r.current
        /\ x.todo = IF note[r.note] = "published" THEN Plu1 ELSE <<>>
        /\ x.todo = Plu1 => x \in Errand
    BY <1>1 DEF Errand
  <1> HIDE DEF x
  <1>4. /\ drift' \in BOOLEAN
        /\ drift' # TRUE => drift # TRUE
        /\ note[r.note] = "published" /\ drift' # TRUE => ~Topic!Twice(r.names)
    <2>1. \/ note[r.note] = "published" /\ drift' = (drift \/ Topic!Twice(r.names))
          \/ note[r.note] # "published" /\ drift' = drift
      BY DEF Topic!UpdateNote
    <2>2. CASE note[r.note] = "published" /\ drift' = (drift \/ Topic!Twice(r.names))
      BY <2>2 DEF TopicsSafe, TopicsTyped
    <2>3. CASE note[r.note] # "published" /\ drift' = drift
      BY <2>3 DEF TopicsSafe, TopicsTyped
    <2> QED BY <2>1, <2>2, <2>3
  <1>5. TopicsTyped'
    BY <1>2, <1>4 DEF TopicsSafe, TopicsTyped
  <1>6. Credited(r) = {} /\ Credited(x) = {} /\ r.todo \notin Attaching
    BY <1>1, <1>3, TopicApart DEF Credited, Counting, Attaching
  <1>7. x.todo # <<>> => FitIn(x)
    BY <1>1, <1>3 DEF FitIn, Placed, EmptyHanded
  <1>8. x.todo # <<>> => Emptied(x) /\ (drift' # TRUE => Distinct(x))
    BY <1>1, <1>3, <1>4, TopicApart DEF Emptied, Distinct, Counting
  <1> QED BY <1>1, <1>2, <1>3, <1>4, <1>5, <1>6, <1>7, <1>8, QuietStep

LEMMA DeleteNoteStep ==
  ASSUME TopicsSafe, NEW q, Topic!DeleteNote(q)
  PROVE  TopicsKept
  <1>1. /\ q \in Topic!Active /\ call[q] \in Errand /\ call[q].ids = {}
        /\ call[q].op = "delete" /\ call[q].todo = Era1 /\ note[call[q].note] # "none"
    BY TopicWhere, TopicApart DEF Topic!DeleteNote, TopicsSafe, EmptyHanded, InTable
  <1> PICK r \in Errand : r = call[q]
    BY <1>1
  <1> DEFINE x == [r EXCEPT !.todo = Plu1]
  <1>2. /\ Topic!Become(q, x)
        /\ note' = note \/ note' = [note EXCEPT ![r.note] = "deleted"]
        /\ UNCHANGED <<attached, topicCount, hot, drift, lowered, crossed, overtaken, writes, failed>>
    BY <1>1, TopicHeads DEF Topic!DeleteNote, Topic!Proceed, Topic!GoOn, Topic!histories,
                            Topic!overlaps, Topic!bounds
  <1>3. /\ x.op = r.op /\ x.note = r.note /\ x.names = r.names /\ x.ids = {}
        /\ x.current = r.current /\ x.todo = Plu1 /\ x \in Errand /\ x.todo # <<>>
    BY <1>1, TopicHeads DEF Errand
  <1> HIDE DEF x
  <1>4. r.note \in Post /\ note \in [Post -> {"none", "published", "deleted"}]
    BY DEF Errand, TopicsSafe, TopicsTyped
  <1>5. /\ \A n \in Post : note[n] # "none" => note'[n] # "none"
        /\ note' \in [Post -> {"none", "published", "deleted"}]
    BY <1>2, <1>4
  <1>6. TopicsTyped'
    BY <1>2, <1>5 DEF TopicsSafe, TopicsTyped
  <1>7. Credited(r) = {} /\ Credited(x) = {} /\ r.todo \notin Attaching
    BY <1>1, <1>3, TopicApart DEF Credited, Counting, Attaching
  <1>8. FitIn(x)
    BY <1>1, <1>3 DEF FitIn, Placed, EmptyHanded
  <1>9. Emptied(x) /\ Distinct(x)
    BY <1>1, <1>3, TopicApart DEF Emptied, Distinct, Counting
  <1>10. note'[r.note] # "none"
    BY <1>1, <1>4, <1>5
  <1> QED BY <1>1, <1>2, <1>3, <1>5, <1>6, <1>7, <1>8, <1>9, <1>10, QuietStep

LEMMA PluckStep ==
  ASSUME TopicsSafe, NEW q, Topic!Pluck(q)
  PROVE  TopicsKept
  <1>1. /\ q \in Topic!Active /\ call[q] \in Errand /\ call[q].ids = {}
        /\ call[q].op \in {"update", "delete"} /\ call[q].todo = Plu1 /\ note[call[q].note] # "none"
    BY TopicWhere, TopicApart DEF Topic!Pluck, TopicsSafe, EmptyHanded, InTable
  <1> PICK r \in Errand : r = call[q]
    BY <1>1
  <1> DEFINE ids == Topic!TopicsOf(r.note)
             rest == IF r.op = "update" THEN Topic!Attach(r.names) ELSE <<>>
             x == [r EXCEPT !.ids = ids, !.todo = IF ids = {} THEN rest
                                                  ELSE <<"deleteRows", "decrement">> \o rest]
  <1>2. /\ Topic!Become(q, x)
        /\ UNCHANGED <<note, attached, topicCount, hot, drift, lowered, crossed, overtaken, writes, failed>>
    BY DEF Topic!Pluck, Topic!histories, Topic!overlaps, Topic!bounds
  <1>3. /\ x.op = r.op /\ x.note = r.note /\ x.names = r.names /\ x.ids = ids
        /\ x.current = r.current
        /\ \/ ids = {} /\ x.todo = <<>>
           \/ ids = {} /\ x.todo = Ups1 /\ r.op = "update"
           \/ ids # {} /\ x.todo = Det1
           \/ ids # {} /\ x.todo = Det2 /\ r.op = "update"
        /\ x.todo # <<>> => x \in Errand
    <2>1. \/ rest = <<>>
          \/ rest = <<"upsert">> /\ r.op = "update"
      BY DEF Topic!Attach
    <2>2. ids \subseteq Subject
      BY DEF Topic!TopicsOf
    <2>3. /\ x.op = r.op /\ x.note = r.note /\ x.names = r.names /\ x.ids = ids
          /\ x.current = r.current /\ x.todo = IF ids = {} THEN rest ELSE <<"deleteRows", "decrement">> \o rest
      BY DEF Errand
    <2>4. \A i \in SUBSET Subject, s \in {Ups1, Det1, Det2} :
            [r EXCEPT !.ids = i, !.todo = s] \in Errand
      BY DEF Errand
    <2>7. x = [r EXCEPT !.ids = ids, !.todo = x.todo]
      BY <2>3
    <2> HIDE DEF ids, rest, x
    <2>5. \/ ids = {} /\ x.todo = <<>>
          \/ ids = {} /\ x.todo = Ups1 /\ r.op = "update"
          \/ ids # {} /\ x.todo = Det1
          \/ ids # {} /\ x.todo = Det2 /\ r.op = "update"
      BY <2>1, <2>3, TopicRests DEF Ups1
    <2>6. ASSUME x.todo # <<>>
          PROVE  x \in Errand
      <3>1. ids \in SUBSET Subject /\ x.todo \in {Ups1, Det1, Det2}
        BY <2>2, <2>5, <2>6
      <3>2. [r EXCEPT !.ids = ids, !.todo = x.todo] \in Errand
        BY <2>4, <3>1
      <3> QED BY <2>7, <3>2
    <2> QED BY <2>3, <2>5, <2>6
  <1>4. ids = Topic!TopicsOf(r.note)
    OBVIOUS
  <1> HIDE DEF x, rest, ids
  <1>5. TopicsTyped'
    BY <1>2 DEF TopicsSafe, TopicsTyped
  <1>6. Credited(r) = {} /\ Credited(x) = {} /\ r.todo \notin Attaching
    BY <1>1, <1>3, TopicApart DEF Credited, Counting, Attaching
  <1>7. x.todo # <<>> => FitIn(x)
    BY <1>1, <1>3, TopicApart DEF FitIn, Placed, EmptyHanded, Attaching
  <1>8. ASSUME CountsCalm, x.todo # <<>>
        PROVE  Emptied(x) /\ (drift' # TRUE => Distinct(x))
    <2>1. drift # TRUE => Distinct(r)
      BY <1>1, <1>8 DEF CountsCalm, Topic!Writers
    <2>2. drift # TRUE /\ r.op = "update" => ~Topic!Twice(r.names)
      BY <1>1, <2>1 DEF Distinct
    <2>3. Emptied(x)
      BY <1>1, <1>3, <1>4, <1>8, TopicApart, TopicHeads DEF Emptied, Counting
    <2>4. drift' # TRUE => Distinct(x)
      BY <1>1, <1>2, <1>3, <1>8, <2>2, TopicApart, TopicHeads DEF Distinct
    <2> QED BY <2>3, <2>4
  <1> QED BY <1>1, <1>2, <1>3, <1>5, <1>6, <1>7, <1>8, QuietStep
-----------------------------------------------------------------------------
LEMMA SelectIdStep ==
  ASSUME TopicsSafe, NEW q, Topic!SelectId(q)
  PROVE  TopicsKept
  <1>1. /\ q \in Topic!Active /\ call[q] \in Errand
        /\ call[q].op \in {"create", "update"} /\ call[q].todo = Sel1 /\ note[call[q].note] # "none"
    BY TopicWhere, TopicApart DEF Topic!SelectId, TopicsSafe, InTable
  <1> PICK r \in Errand : r = call[q]
    BY <1>1
  <1> DEFINE x == [r EXCEPT !.todo = IF r.names # {} THEN Ups1 ELSE Row1]
  <1>2. /\ Topic!Become(q, x)
        /\ UNCHANGED <<note, attached, topicCount, hot, drift, lowered, crossed, overtaken, writes, failed>>
    BY DEF Topic!SelectId, Topic!GoOn, Topic!histories, Topic!overlaps, Topic!bounds, Ups1, Row1
  <1>3. /\ x.op = r.op /\ x.note = r.note /\ x.names = r.names /\ x.ids = r.ids
        /\ x.current = r.current /\ x.todo \in {Ups1, Row1} /\ x \in Errand /\ x.todo # <<>>
    BY TopicHeads DEF Errand
  <1> HIDE DEF x
  <1>4. TopicsTyped'
    BY <1>2 DEF TopicsSafe, TopicsTyped
  <1>5. Credited(x) = Credited(r) /\ x.todo \in Attaching
    BY <1>1, <1>3 DEF Credited, Counting, Attaching
  <1>6. FitIn(x)
    BY <1>1, <1>3, TopicApart DEF FitIn, Placed, EmptyHanded, Attaching
  <1>7. ASSUME CountsCalm
        PROVE  Emptied(x) /\ (drift' # TRUE => Distinct(x))
    <2>1. Emptied(r) /\ (drift # TRUE => Distinct(r))
      BY <1>1, <1>7 DEF CountsCalm, Topic!Writers
    <2>2. Emptied(x)
      BY <1>1, <1>3, <2>1, TopicApart DEF Emptied, Counting
    <2>3. drift' # TRUE => Distinct(x)
      BY <1>1, <1>2, <1>3, <2>1, TopicApart DEF Distinct
    <2> QED BY <2>2, <2>3
  <1> QED BY <1>1, <1>2, <1>3, <1>4, <1>5, <1>6, <1>7, QuietStep

LEMMA BumpHotStep ==
  ASSUME TopicsSafe, NEW q, Topic!BumpHot(q)
  PROVE  TopicsKept
  <1>1. q \in Topic!Active /\ call[q] \in Errand /\ call[q].todo = Bum1
    BY TopicWhere DEF Topic!BumpHot, TopicsSafe
  <1> PICK r \in Errand : r = call[q]
    BY <1>1
  <1> DEFINE x == [r EXCEPT !.todo = <<>>]
  <1>2. /\ Topic!Become(q, x) /\ hot' = "missing" /\ lowered' = FALSE
        /\ UNCHANGED <<note, attached, topicCount, drift, crossed, overtaken, writes, failed>>
    BY <1>1, TopicHeads DEF Topic!BumpHot, Topic!Proceed, Topic!GoOn, Topic!overlaps, Topic!bounds
  <1>3. x.todo = <<>>
    BY DEF Errand
  <1> HIDE DEF x
  <1>4. TopicsTyped'
    BY <1>2 DEF TopicsSafe, TopicsTyped
  <1>5. Credited(r) = {}
    BY <1>1, TopicApart DEF Credited, Counting
  <1>6. hot' # "stale"
    BY <1>2
  <1> QED BY <1>1, <1>2, <1>3, <1>4, <1>5, <1>6, QuietStep

LEMMA GetHotStep ==
  ASSUME TopicsSafe, NEW q, Topic!GetHot(q)
  PROVE  TopicsKept
  <1>1. q \in Topic!Active /\ call[q] \in Errand /\ call[q].op = "hot" /\ call[q].todo = Hot1
    BY TopicWhere DEF Topic!GetHot, TopicsSafe
  <1> PICK r \in Errand : r = call[q]
    BY <1>1
  <1> DEFINE x == [r EXCEPT !.todo = IF hot = "missing" THEN Hot2 ELSE <<>>]
  <1>2. /\ Topic!Become(q, x)
        /\ UNCHANGED <<note, attached, topicCount, hot, drift, lowered, crossed, overtaken, writes, failed>>
    BY DEF Topic!GetHot, Topic!Stop, Topic!GoOn, Topic!histories, Topic!overlaps, Topic!bounds, Hot2
  <1>3. /\ x.op = r.op /\ x.note = r.note /\ x.current = r.current
        /\ x.todo \in {<<>>, Hot2} /\ (x.todo = Hot2 => x \in Errand)
    BY DEF Errand
  <1> HIDE DEF x
  <1>4. TopicsTyped'
    BY <1>2 DEF TopicsSafe, TopicsTyped
  <1>5. Credited(r) = {} /\ Credited(x) = {}
    BY <1>1, <1>3 DEF Credited
  <1>6. x.todo # <<>> => FitIn(x) /\ Emptied(x) /\ Distinct(x)
    BY <1>1, <1>3, TopicApart DEF FitIn, Placed, EmptyHanded, Emptied, Distinct
  <1> QED BY <1>1, <1>2, <1>3, <1>4, <1>5, <1>6, QuietStep

LEMMA ReadHotStep ==
  ASSUME TopicsSafe, NEW q, Topic!ReadHot(q)
  PROVE  TopicsKept
  <1>1. q \in Topic!Active /\ call[q] \in Errand /\ call[q].op = "hot" /\ call[q].todo = Hot2
    BY TopicWhere DEF Topic!ReadHot, TopicsSafe
  <1> PICK r \in Errand : r = call[q]
    BY <1>1
  <1> DEFINE x == [r EXCEPT !.current = TRUE,
                            !.todo = IF \A t \in Subject : topicCount[t] = 0 THEN <<>> ELSE Hot3]
  <1>2. /\ Topic!Become(q, x)
        /\ UNCHANGED <<note, attached, topicCount, hot, drift, lowered, crossed, overtaken, writes, failed>>
    BY DEF Topic!ReadHot, Topic!histories, Topic!overlaps, Topic!bounds, Hot3
  <1>3. /\ x.op = r.op /\ x.note = r.note /\ x.current = TRUE
        /\ x.todo \in {<<>>, Hot3} /\ (x.todo = Hot3 => x \in Errand)
    BY DEF Errand
  <1> HIDE DEF x
  <1>4. TopicsTyped'
    BY <1>2 DEF TopicsSafe, TopicsTyped
  <1>5. Credited(r) = {} /\ Credited(x) = {}
    BY <1>1, <1>3 DEF Credited
  <1>6. x.todo # <<>> => FitIn(x) /\ Emptied(x) /\ Distinct(x)
    BY <1>1, <1>3, TopicApart DEF FitIn, Placed, EmptyHanded, Emptied, Distinct
  <1> QED BY <1>1, <1>2, <1>3, <1>4, <1>5, <1>6, QuietStep

LEMMA SetHotStep ==
  ASSUME TopicsSafe, NEW q, Topic!SetHot(q)
  PROVE  TopicsKept
  <1>1. q \in Topic!Active /\ call[q] \in Errand /\ call[q].op = "hot" /\ call[q].todo = Hot3
    BY TopicWhere DEF Topic!SetHot, TopicsSafe
  <1> PICK r \in Errand : r = call[q]
    BY <1>1
  <1> DEFINE x == [r EXCEPT !.todo = <<>>]
  <1>2. /\ Topic!Become(q, x)
        /\ UNCHANGED <<note, attached, topicCount, drift, lowered, crossed, overtaken, writes, failed>>
    BY DEF Topic!SetHot, Topic!Stop, Topic!GoOn, Topic!histories, Topic!overlaps, Topic!bounds
  <1>3. x.todo = <<>>
    BY DEF Errand
  <1> HIDE DEF x
  <1>4. hot' \in {"fresh", "stale"} /\ (r.current = TRUE => hot' = "fresh")
    BY DEF Topic!SetHot
  <1>5. TopicsTyped'
    BY <1>2, <1>4 DEF TopicsSafe, TopicsTyped
  <1>6. Credited(r) = {}
    BY <1>1 DEF Credited
  <1>7. HotCalm => hot' # "stale"
    BY <1>1, <1>4 DEF HotCalm
  <1> QED BY <1>1, <1>2, <1>3, <1>5, <1>6, <1>7, QuietStep

LEMMA TopicFailStep ==
  ASSUME TopicsSafe, NEW q, Topic!Fail(q)
  PROVE  TopicsKept
  <1>1. q \in Topic!Active /\ q \in Request /\ call[q] \in Errand
    BY DEF Topic!Fail, Topic!Active, TopicsSafe, ErrandsKnown
  <1> PICK r \in Errand : r = call[q]
    BY <1>1
  <1> DEFINE x == [r EXCEPT !.todo = IF Topic!At(q, "getHot") THEN Hot2 ELSE <<>>]
  <1>2. /\ Topic!Become(q, x) /\ drift' = TRUE /\ failed < MaxLapses /\ failed' = failed + 1
        /\ UNCHANGED <<note, attached, topicCount, hot, lowered, crossed, overtaken, writes>>
    BY DEF Topic!Fail, Topic!Stop, Topic!GoOn, Topic!overlaps, Hot2
  <1>3. /\ x.op = r.op /\ x.note = r.note /\ x.current = r.current
        /\ x.todo = (IF Topic!At(q, "getHot") THEN Hot2 ELSE <<>>)
        /\ (x.todo = Hot2 => x \in Errand)
    BY DEF Errand
  <1> HIDE DEF x
  <1>4. Topic!At(q, "getHot") => r.op = "hot" /\ r.todo = Hot1
    BY TopicWhere DEF TopicsSafe
  <1>5. TopicsTyped'
    BY <1>2, TopicsAssumption DEF TopicsSafe, TopicsTyped
  <1>6. Topic!At(q, "getHot") => Credited(r) = {} /\ Credited(x) = {}
    BY <1>3, <1>4 DEF Credited
  <1>7. x.todo # <<>> => FitIn(x) /\ Emptied(x) /\ x.op = "hot" /\ Credited(x) = Credited(r)
    BY <1>3, <1>4, <1>6, TopicApart DEF FitIn, Placed, EmptyHanded, Emptied
  <1> QED BY <1>1, <1>2, <1>3, <1>5, <1>7, QuietStep
-----------------------------------------------------------------------------
\* Requests, rows and counts stay as they are.
LEMMA CountsStay ==
  ASSUME TopicsSafe, CountsCalm, UNCHANGED <<call, attached, topicCount, drift>>
  PROVE  CountsCalm'
  <1>1. \A n, t : Tagged(n, t)' <=> Tagged(n, t)
    BY DEF Tagged, Tags
  <1>2. \A t \in Subject : Covered(t)'
    BY <1>1, StaysCovered DEF CountsCalm
  <1>3. Topic!Writers' = Topic!Writers
    BY DEF Topic!Writers, Topic!Active
  <1>4. WritersApart'
    BY <1>3 DEF CountsCalm, WritersApart
  <1>5. ASSUME NEW s \in Topic!Writers'
        PROVE  (Emptied(call[s]))' /\ (drift' # TRUE => (Distinct(call[s]))')
    <2>1. Emptied(call[s]) /\ (drift # TRUE => Distinct(call[s]))
      BY <1>3, <1>5 DEF CountsCalm
    <2>2. (Emptied(call[s]))'
      BY <2>1 DEF Emptied, Topic!TopicsOf
    <2>3. drift' # TRUE => (Distinct(call[s]))'
      BY <2>1 DEF Distinct, Topic!Twice
    <2> QED BY <2>2, <2>3
  <1> QED BY <1>2, <1>4, <1>5 DEF CountsCalm

LEMMA ErrandsStay ==
  ASSUME TopicsSafe, UNCHANGED call, \A n \in Post : note[n] # "none" => note'[n] # "none"
  PROVE  ErrandsKnown'
  <1>1. \A q \in Topic!Active : call[q].note \in Post
    BY DEF TopicsSafe, ErrandsKnown, Topic!Active, Errand
  <1> QED BY <1>1 DEF TopicsSafe, ErrandsKnown, Topic!Active, InTable, Placed, EmptyHanded

LEMMA ModeratorStep ==
  ASSUME TopicsSafe, NEW n \in Post, Topic!DeleteNoteByID(n)
  PROVE  TopicsKept
  <1>1. /\ note' = [note EXCEPT ![n] = "deleted"]
        /\ UNCHANGED <<attached, topicCount, hot, call, drift, lowered, crossed, overtaken, writes, failed>>
    BY DEF Topic!DeleteNoteByID, Topic!histories, Topic!overlaps, Topic!bounds
  <1>2. /\ \A m \in Post : note[m] # "none" => note'[m] # "none"
        /\ note' \in [Post -> {"none", "published", "deleted"}]
    BY <1>1 DEF TopicsSafe, TopicsTyped
  <1>3. TopicsTyped'
    BY <1>1, <1>2 DEF TopicsSafe, TopicsTyped
  <1>4. HotCalm => HotCalm'
    BY <1>1 DEF HotCalm, Topic!Writers, Topic!Active
  <1> QED BY <1>1, <1>2, <1>3, <1>4, CountsStay, ErrandsStay DEF TopicsKept, TopicsSafe

LEMMA ExpireHotStep ==
  ASSUME TopicsSafe, Topic!ExpireHot
  PROVE  TopicsKept
  <1>1. /\ hot' = "missing"
        /\ UNCHANGED <<note, attached, topicCount, call, drift, lowered, crossed, overtaken, writes, failed>>
    BY DEF Topic!ExpireHot, Topic!histories, Topic!overlaps, Topic!bounds
  <1>2. TopicsTyped'
    BY <1>1 DEF TopicsSafe, TopicsTyped
  <1>3. HotCalm => HotCalm'
    BY <1>1 DEF HotCalm, Topic!Writers, Topic!Active
  <1> QED BY <1>1, <1>2, <1>3, CountsStay, ErrandsStay DEF TopicsKept, TopicsSafe

LEMMA TopicsStutter ==
  ASSUME TopicsSafe, UNCHANGED Topic!vars
  PROVE  TopicsKept
  <1>1. UNCHANGED <<note, attached, topicCount, hot, call, drift, lowered, crossed, overtaken, writes, failed>>
    BY DEF Topic!vars, Topic!histories, Topic!overlaps, Topic!bounds
  <1>2. TopicsTyped'
    BY <1>1 DEF TopicsSafe, TopicsTyped
  <1>3. HotCalm => HotCalm'
    BY <1>1 DEF HotCalm, Topic!Writers, Topic!Active
  <1> QED BY <1>1, <1>2, <1>3, CountsStay, ErrandsStay DEF TopicsKept, TopicsSafe

LEMMA TopicStarts ==
  ASSUME TopicsSafe, NEW q \in Request, NEW op \in {"create", "update", "delete", "hot"},
         NEW n \in Post, NEW names \in SUBSET Spelling,
         op \in {"update", "delete"} => note[n] # "none",
         Topic!Start(q, op, n, names)
  PROVE  TopicsKept
  <1> DEFINE x == [op |-> op, note |-> n, names |-> names, ids |-> {},
                   current |-> TRUE, todo |-> Topic!Calls[op]]
  <1>1. /\ call[q] = Topic!NoRequest /\ (op # "hot" => writes < MaxEdits)
        /\ writes' = (IF op = "hot" THEN writes ELSE writes + 1)
        /\ call' = [call EXCEPT ![q] = x]
        /\ UNCHANGED <<note, attached, topicCount, hot, drift, lowered, failed>>
    BY DEF Topic!Start
  <1>2. /\ x.op = op /\ x.note = n /\ x.names = names /\ x.ids = {} /\ x.current = TRUE
        /\ op = "create" => x.todo = Ins1
        /\ op = "update" => x.todo = Edi1
        /\ op = "delete" => x.todo = Era1
        /\ op = "hot" => x.todo = Hot1
    BY TopicCalls
  <1>3. x \in Errand
    BY <1>2 DEF Errand
  <1> HIDE DEF x
  <1>4. /\ call'[q] = x /\ \A s \in Request : s # q => call'[s] = call[s]
        /\ OthersStay(q) /\ call' = [s \in Request |-> call'[s]]
    BY <1>1 DEF TopicsSafe, ErrandsKnown, OthersStay
  <1>5. /\ crossed' \in BOOLEAN /\ overtaken' \in BOOLEAN
        /\ crossed' # TRUE => \A s \in Topic!Writers : op # "hot" => call[s].note # n
        /\ overtaken' # TRUE => IF op = "hot" THEN Topic!Writers = {} ELSE Topic!Active = Topic!Writers
    <2>1. /\ crossed' = (crossed \/ \E s \in Topic!Writers : op # "hot" /\ call[s].note = n)
          /\ overtaken' = (overtaken \/ IF op = "hot" THEN Topic!Writers # {} ELSE Topic!Active # Topic!Writers)
      BY DEF Topic!Start
    <2>2. /\ crossed' \in BOOLEAN
          /\ crossed' # TRUE => \A s \in Topic!Writers : op # "hot" => call[s].note # n
      BY <2>1
    <2>3. /\ overtaken' \in BOOLEAN
          /\ overtaken' # TRUE => IF op = "hot" THEN Topic!Writers = {} ELSE Topic!Active = Topic!Writers
      BY <2>1
    <2> QED BY <2>2, <2>3
  <1>6. writes' \in 0..MaxEdits
    BY <1>1, TopicsAssumption DEF TopicsSafe, TopicsTyped
  <1>7. TopicsTyped'
    BY <1>1, <1>5, <1>6 DEF TopicsSafe, TopicsTyped
  <1>8. FitIn(x) /\ (x.op # "hot" /\ x.todo # Ins1 => note'[x.note] # "none")
    BY <1>1, <1>2, <1>3 DEF FitIn, Placed, EmptyHanded
  <1>9. ErrandsKnown'
    BY <1>1, <1>4, <1>8, ErrandsMove
  <1>10. x # Topic!NoRequest /\ Credited(x) = {} /\ Emptied(x)' /\ Distinct(x)
    BY <1>2, <1>3, NoErrand, TopicApart DEF Credited, Emptied, Distinct, Counting
  <1>11. /\ \A s \in Topic!Writers' : s # q => s \in Topic!Writers /\ call'[s] = call[s]
         /\ \A s \in Topic!Writers : s # q /\ s \in Topic!Writers' /\ call'[s] = call[s]
         /\ \A s \in Topic!Active' : s # q => s \in Topic!Active /\ call'[s] = call[s]
    BY <1>1, <1>4 DEF Topic!Writers, Topic!Active
  <1>12. ASSUME CountsCalm, crossed' # TRUE
         PROVE  CountsCalm'
    <2>1. WritersApart'
      BY <1>2, <1>4, <1>5, <1>11, <1>12 DEF CountsCalm, WritersApart, Topic!Writers, Topic!Active
    <2>2. ASSUME NEW s \in Topic!Writers'
          PROVE  (Emptied(call[s]))' /\ (drift' # TRUE => (Distinct(call[s]))')
      <3>1. CASE s = q
        BY <1>4, <1>10, <3>1 DEF Emptied, Distinct, Topic!Twice
      <3>2. CASE s # q
        <4>1. call'[s] = call[s] /\ Emptied(call[s]) /\ (drift # TRUE => Distinct(call[s]))
          BY <1>11, <1>12, <2>2, <3>2 DEF CountsCalm
        <4>2. (Emptied(call[s]))'
          BY <1>1, <4>1 DEF Emptied, Topic!TopicsOf
        <4>3. drift' # TRUE => (Distinct(call[s]))'
          BY <1>1, <4>1 DEF Distinct, Topic!Twice
        <4> QED BY <4>2, <4>3
      <3> QED BY <3>1, <3>2
    <2>3. \A m, t : Tagged(m, t)' <=> Tagged(m, t)
      <3>1. \A m, t : ~Tags(x, m, t) /\ ~Tags(call[q], m, t)
        BY <1>1, <1>10 DEF Tags
      <3> QED BY <1>1, <1>4, <3>1, TaggedBy
    <2>4. \A t \in Subject : Covered(t)'
      BY <1>1, <1>12, <2>3, StaysCovered DEF CountsCalm
    <2> QED BY <2>1, <2>2, <2>4 DEF CountsCalm
  <1>13. ASSUME HotCalm, overtaken' # TRUE
         PROVE  HotCalm'
    <2>1. ASSUME NEW s \in Topic!Active', call'[s].op = "hot"
          PROVE  Topic!Writers' = {} /\ call'[s].current = TRUE
      <3>1. CASE s = q
        <4>1. op = "hot" /\ Topic!Writers = {} /\ call'[s].current = TRUE
          BY <1>2, <1>4, <1>5, <1>13, <2>1, <3>1
        <4>2. Topic!Writers' = {}
          BY <1>2, <1>4, <1>11, <4>1 DEF Topic!Writers, Topic!Active
        <4> QED BY <4>1, <4>2
      <3>2. CASE s # q
        <4>1. s \in Topic!Active /\ call[s].op = "hot" /\ call'[s].current = call[s].current
          BY <1>11, <2>1, <3>2
        <4>2. Topic!Writers = {} /\ call[s].current = TRUE
          BY <1>13, <4>1 DEF HotCalm
        <4>3. op = "hot"
          BY <1>5, <1>13, <4>1, <4>2
        <4>4. Topic!Writers' = {}
          BY <1>2, <1>4, <1>11, <4>2, <4>3 DEF Topic!Writers, Topic!Active
        <4> QED BY <4>1, <4>2, <4>4
      <3> QED BY <3>1, <3>2
    <2>2. ASSUME drift' # TRUE, hot' = "stale"
          PROVE  lowered' = TRUE \/ \E s \in Topic!Writers' : call'[s].todo \in Attaching
      <3>1. lowered = TRUE \/ \E s \in Topic!Writers : call[s].todo \in Attaching
        BY <1>1, <1>13, <2>2 DEF HotCalm
      <3> QED BY <1>1, <1>11, <3>1
    <2> QED BY <2>1, <2>2 DEF HotCalm
  <1> QED BY <1>7, <1>9, <1>12, <1>13 DEF TopicsKept, TopicsSafe
-----------------------------------------------------------------------------
\* Only the note of q has other topics than before: for each topic a row more,
\* a row less, or neither.
LEMMA CoveredMore ==
  ASSUME TopicsSafe, NEW t \in Subject, Covered(t), NEW n \in Post,
         drift' = drift, topicCount'[t] = topicCount[t] + 1,
         \A m \in Post : Tagged(m, t)' <=> Tagged(m, t) \/ m = n,
         drift # TRUE => ~Tagged(n, t)
  PROVE  Covered(t)'
  <1> PICK S : S = Tagging(t)'
    OBVIOUS
  <1> PICK O : O = Tagging(t)
    OBVIOUS
  <1> PICK k \in Nat : k = topicCount[t]
    BY DEF TopicsSafe, TopicsTyped
  <1> PICK e : e = <<n, t>>
    OBVIOUS
  <1>1. IsFiniteSet(O) /\ Cardinality(O) <= k /\ (drift # TRUE => Cardinality(O) = k)
    BY DEF Covered
  <1>2. S = O \cup {e}
    BY DEF Tagging
  <1>6. drift # TRUE => e \notin O
    BY DEF Tagging
  <1> PICK c \in Nat : c = Cardinality(O)
    BY <1>1, FS_CardinalityType
  <1>3. /\ IsFiniteSet(S)
        /\ e \in O => Cardinality(S) = c
        /\ e \notin O => Cardinality(S) = c + 1
    BY <1>1, <1>2, FS_AddElement
  <1>4. Cardinality(S) <= k + 1 /\ (drift # TRUE => Cardinality(S) = k + 1)
    <2> PICK s : s = Cardinality(S)
      OBVIOUS
    <2>1. c <= k /\ (drift # TRUE => c = k)
      BY <1>1
    <2>2. CASE e \in O
      <3>1. s = c /\ drift = TRUE
        BY <1>3, <1>6, <2>2
      <3> QED BY <2>1, <3>1
    <2>3. CASE e \notin O
      <3>1. s = c + 1
        BY <1>3, <2>3
      <3>2. c <= k
        BY <2>1
      <3>3. s <= k + 1 /\ (c = k => s = k + 1)
        BY <3>1, <3>2
      <3> QED BY <2>1, <3>3
    <2> QED BY <2>2, <2>3
  <1>5. IsFiniteSet(Tagging(t))' /\ (Cardinality(Tagging(t)))' = Cardinality(S)
    BY <1>3
  <1> QED BY <1>4, <1>5 DEF Covered

LEMMA CoveredLess ==
  ASSUME TopicsSafe, NEW t \in Subject, Covered(t), NEW n \in Post,
         drift' = drift, Tagged(n, t),
         topicCount'[t] = IF topicCount[t] > 0 THEN topicCount[t] - 1 ELSE topicCount[t],
         \A m \in Post : Tagged(m, t)' <=> Tagged(m, t) /\ m # n
  PROVE  Covered(t)'
  <1> PICK S : S = Tagging(t)'
    OBVIOUS
  <1> PICK O : O = Tagging(t)
    OBVIOUS
  <1> PICK k \in Nat : k = topicCount[t]
    BY DEF TopicsSafe, TopicsTyped
  <1> PICK e : e = <<n, t>>
    OBVIOUS
  <1>1. IsFiniteSet(O) /\ Cardinality(O) <= k /\ (drift # TRUE => Cardinality(O) = k)
    BY DEF Covered
  <1>2. S = O \ {e} /\ e \in O
    BY DEF Tagging
  <1> PICK c \in Nat : c = Cardinality(O)
    BY <1>1, FS_CardinalityType
  <1>3. IsFiniteSet(S) /\ Cardinality(S) = c - 1 /\ Cardinality(S) \in Nat
    <2>1. IsFiniteSet(O \ {e}) /\ Cardinality(O \ {e}) = c - 1
      BY <1>1, <1>2, FS_RemoveElement
    <2> QED BY <1>2, <2>1, FS_CardinalityType
  <1>4. topicCount'[t] = k - 1 /\ Cardinality(S) <= k - 1 /\ (drift # TRUE => Cardinality(S) = k - 1)
    <2> PICK s : s = Cardinality(S)
      OBVIOUS
    <2>1. c <= k /\ s \in Nat /\ s = c - 1
      BY <1>1, <1>3
    <2>2. k > 0 /\ s <= k - 1 /\ (c = k => s = k - 1)
      BY <2>1
    <2>3. topicCount'[t] = k - 1
      BY <2>2
    <2>4. drift # TRUE => c = k
      BY <1>1
    <2> QED BY <2>2, <2>3, <2>4
  <1>5. IsFiniteSet(Tagging(t))' /\ (Cardinality(Tagging(t)))' = Cardinality(S)
    BY <1>3
  <1> QED BY <1>4, <1>5 DEF Covered

LEMMA CoveredSame ==
  ASSUME TopicsSafe, NEW t \in Subject, Covered(t), drift' = drift,
         topicCount'[t] = topicCount[t],
         \A m \in Post : Tagged(m, t)' <=> Tagged(m, t)
  PROVE  Covered(t)'
  <1>1. Tagging(t)' = Tagging(t)
    BY DEF Tagging
  <1> PICK O : O = Tagging(t)
    OBVIOUS
  <1>2. IsFiniteSet(O) /\ Cardinality(O) <= topicCount'[t] /\ (drift' # TRUE => Cardinality(O) = topicCount'[t])
    BY DEF Covered
  <1>3. IsFiniteSet(Tagging(t))' /\ (Cardinality(Tagging(t)))' = Cardinality(O)
    BY <1>1, <1>2
  <1> QED BY <1>2, <1>3 DEF Covered
-----------------------------------------------------------------------------
LEMMA DeleteRowsStep ==
  ASSUME TopicsSafe, NEW q, Topic!DeleteRows(q)
  PROVE  TopicsKept
  <1>1. /\ q \in Topic!Active /\ q \in Request /\ call[q] \in Errand /\ ErrandsKnown
        /\ call[q].op \in {"update", "delete"}
        /\ \/ call[q].todo = Det1
           \/ call[q].todo = Det2 /\ call[q].op = "update"
        /\ note[call[q].note] # "none"
    BY TopicWhere, TopicApart DEF Topic!DeleteRows, TopicsSafe, InTable
  <1> PICK r \in Errand : r = call[q]
    BY <1>1
  <1> DEFINE x == [r EXCEPT !.todo = IF r.todo = Det1 THEN Dec1 ELSE Dec2]
  <1>2. /\ Topic!Become(q, x)
        /\ attached' = {row \in attached : row[1] # r.note}
        /\ UNCHANGED <<note, topicCount, hot, drift, lowered, crossed, overtaken, writes, failed>>
    BY <1>1, TopicHeads DEF Topic!DeleteRows, Topic!Proceed, Topic!GoOn, Topic!histories,
                            Topic!overlaps, Topic!bounds
  <1>3. /\ x.op = r.op /\ x.note = r.note /\ x.names = r.names /\ x.ids = r.ids
        /\ x.current = r.current /\ x.todo = (IF r.todo = Det1 THEN Dec1 ELSE Dec2)
        /\ x \in Errand /\ x.todo # <<>>
    BY TopicHeads DEF Errand
  <1> HIDE DEF x
  <1>4. /\ OthersStay(q) /\ call' = [s \in Request |-> call'[s]]
        /\ call'[q] = x /\ x # Topic!NoRequest
        /\ \A s \in Request : s # q => call'[s] = call[s]
    BY <1>1, <1>2, <1>3, Becomes, NoErrand DEF Topic!Become, ErrandsKnown
  <1>5. TopicsTyped'
    BY <1>2 DEF TopicsSafe, TopicsTyped
  <1>6. FitIn(x) /\ r.op # "hot" /\ r.todo \notin Attaching /\ r.todo \notin Counting
    BY <1>1, <1>3, TopicApart DEF FitIn, Placed, EmptyHanded, Attaching, Counting
  <1>7. ErrandsKnown'
    BY <1>1, <1>2, <1>3, <1>4, <1>6, ErrandsMove
  <1>8. ASSUME CountsCalm
        PROVE  CountsCalm'
    <2>1. /\ WritersApart /\ q \in Topic!Writers
          /\ Emptied(r) /\ (drift # TRUE => Distinct(r))
      BY <1>1, <1>6, <1>8 DEF CountsCalm, Topic!Writers
    <2>2. r.ids = Topic!TopicsOf(r.note) /\ r.note \in Post
      BY <1>1, <2>1 DEF Emptied, Errand
    <2>3. \A n, t : <<n, t>> \in attached' <=> <<n, t>> \in attached /\ n # r.note
      BY <1>2
    <2>4. ASSUME NEW n \in Post, NEW t \in Subject
          PROVE  Tagged(n, t)' <=> Tagged(n, t)
      <3>1. CASE n # r.note
        <4>1. ~Tags(r, n, t) /\ ~Tags(x, n, t)
          BY <1>3, <3>1 DEF Tags
        <4> QED BY <1>1, <1>4, <2>3, <3>1, <4>1, TaggedBy
      <3>2. CASE n = r.note
        <4>1. ~Tags(r, n, t) /\ ~TaggedElse(q, n, t)
          BY <1>6, <2>1, <3>2, TaggedAlone DEF Tags, Credited
        <4>2. Tags(x, n, t) <=> t \in r.ids
          BY <1>1, <1>3, <1>4, <1>6, <3>2 DEF Tags, Credited, Counting
        <4>3. t \in r.ids <=> <<n, t>> \in attached
          BY <2>2, <3>2 DEF Topic!TopicsOf
        <4>4. Tagged(n, t) <=> <<n, t>> \in attached
          BY <1>1, <1>4, <4>1, TaggedBy
        <4>5. Tagged(n, t)' <=> Tags(x, n, t)
          BY <1>1, <1>4, <2>3, <3>2, <4>1, TaggedBy
        <4> QED BY <4>2, <4>3, <4>4, <4>5
      <3> QED BY <3>1, <3>2
    <2>5. \A t \in Subject : Covered(t)'
      BY <1>2, <1>8, <2>4, CoveredSame DEF CountsCalm
    <2>6. (Topic!TopicsOf(r.note))' = {}
      BY <2>3 DEF Topic!TopicsOf
    <2>7. Emptied(x)'
      BY <1>1, <1>3, <2>6, TopicApart DEF Emptied, Topic!TopicsOf
    <2>8. drift' # TRUE => Distinct(x)
      BY <1>1, <1>2, <1>3, <2>1, TopicApart DEF Distinct
    <2>9. \A n, t : n # call[q].note \/ call[q].op = "hot" =>
                      (<<n, t>> \in attached' <=> <<n, t>> \in attached)
      BY <1>6, <2>3
    <2> QED BY <1>1, <1>2, <1>3, <1>4, <1>8, <2>5, <2>7, <2>8, <2>9, CountsGoOn
  <1>9. HotCalm => HotCalm'
    BY <1>1, <1>2, <1>3, <1>4, <1>6, HotMoves
  <1> QED BY <1>5, <1>7, <1>8, <1>9 DEF TopicsKept, TopicsSafe

LEMMA AttachStep ==
  ASSUME TopicsSafe, NEW q, Topic!AttachNoteTopics(q)
  PROVE  TopicsKept
  <1>1. /\ q \in Topic!Active /\ q \in Request /\ call[q] \in Errand /\ ErrandsKnown
        /\ call[q].op \in {"create", "update"} /\ call[q].todo = Row1
        /\ note[call[q].note] # "none"
    BY TopicWhere, TopicApart DEF Topic!AttachNoteTopics, TopicsSafe, InTable
  <1> PICK r \in Errand : r = call[q]
    BY <1>1
  <1> DEFINE x == [r EXCEPT !.todo = Bum1]
  <1>2. /\ Topic!Become(q, x)
        /\ attached' = attached \cup ({r.note} \X r.ids)
        /\ UNCHANGED <<note, topicCount, hot, drift, lowered, crossed, overtaken, writes, failed>>
    BY <1>1, TopicHeads DEF Topic!AttachNoteTopics, Topic!Proceed, Topic!GoOn, Topic!histories,
                            Topic!overlaps, Topic!bounds
  <1>3. /\ x.op = r.op /\ x.note = r.note /\ x.names = r.names /\ x.ids = r.ids
        /\ x.current = r.current /\ x.todo = Bum1 /\ x \in Errand /\ x.todo # <<>>
    BY TopicHeads DEF Errand
  <1> HIDE DEF x
  <1>4. /\ OthersStay(q) /\ call' = [s \in Request |-> call'[s]]
        /\ call'[q] = x /\ x # Topic!NoRequest
        /\ \A s \in Request : s # q => call'[s] = call[s]
    BY <1>1, <1>2, <1>3, Becomes, NoErrand DEF Topic!Become, ErrandsKnown
  <1>5. TopicsTyped'
    <2>1. r.note \in Post /\ r.ids \subseteq Subject /\ note[r.note] # "none"
      BY <1>1 DEF Errand
    <2>2. attached' \subseteq {n \in Post : note[n] # "none"} \X Subject
      BY <1>2, <2>1 DEF TopicsSafe, TopicsTyped
    <2> QED BY <1>2, <2>2 DEF TopicsSafe, TopicsTyped
  <1>6. FitIn(x) /\ x.op # "hot" /\ x.todo \in Attaching /\ x.todo \notin Counting
    BY <1>1, <1>3, TopicApart DEF FitIn, Placed, EmptyHanded, Attaching, Counting
  <1>7. ErrandsKnown'
    BY <1>1, <1>2, <1>3, <1>4, <1>6, ErrandsMove
  <1>8. ASSUME CountsCalm
        PROVE  CountsCalm'
    <2>1. \A n, t : <<n, t>> \in attached' <=> \/ <<n, t>> \in attached
                                               \/ n = r.note /\ t \in r.ids
      BY <1>2
    <2>2. ASSUME NEW n \in Post, NEW t \in Subject
          PROVE  Tagged(n, t)' <=> Tagged(n, t)
      <3>1. ~Tags(x, n, t)
        BY <1>6 DEF Tags, Credited
      <3>2. Tags(r, n, t) <=> n = r.note /\ t \in r.ids
        BY <1>1, NoErrand DEF Tags, Credited, Counting
      <3> QED BY <1>1, <1>4, <2>1, <3>1, <3>2, TaggedBy
    <2>3. \A t \in Subject : Covered(t)'
      BY <1>2, <1>8, <2>2, CoveredSame DEF CountsCalm
    <2>4. Emptied(x)' /\ Distinct(x)
      BY <1>1, <1>3, <1>6, TopicApart DEF Emptied, Distinct
    <2>5. \A n, t : n # call[q].note \/ call[q].op = "hot" =>
                      (<<n, t>> \in attached' <=> <<n, t>> \in attached)
      BY <1>1, <2>1
    <2> QED BY <1>1, <1>2, <1>3, <1>4, <1>8, <2>3, <2>4, <2>5, CountsGoOn
  <1>9. HotCalm => HotCalm'
    BY <1>1, <1>2, <1>3, <1>4, <1>6, HotMoves
  <1> QED BY <1>5, <1>7, <1>8, <1>9 DEF TopicsKept, TopicsSafe
-----------------------------------------------------------------------------
LEMMA DecrementStep ==
  ASSUME TopicsSafe, NEW q, Topic!DecrementCounts(q)
  PROVE  TopicsKept
  <1>1. /\ q \in Topic!Active /\ q \in Request /\ call[q] \in Errand /\ ErrandsKnown
        /\ call[q].op \in {"update", "delete"}
        /\ \/ call[q].todo = Dec1
           \/ call[q].todo = Dec2 /\ call[q].op = "update"
        /\ note[call[q].note] # "none"
    BY TopicWhere, TopicApart DEF Topic!DecrementCounts, TopicsSafe, InTable
  <1> PICK r \in Errand : r = call[q]
    BY <1>1
  <1> DEFINE x == [r EXCEPT !.ids = {}, !.todo = IF r.todo = Dec1 THEN <<>> ELSE Ups1]
             new == [t \in Subject |-> IF t \in r.ids /\ topicCount[t] > 0 THEN topicCount[t] - 1
                                       ELSE topicCount[t]]
  <1>2. /\ Topic!Recount(q, new, x) /\ lowered' = TRUE
        /\ UNCHANGED <<note, attached, drift, crossed, overtaken, writes, failed>>
    <2>1. /\ Topic!Recount(q, new, [r EXCEPT !.ids = {}, !.todo = Tail(@)]) /\ lowered' = TRUE
          /\ UNCHANGED <<note, attached, drift, crossed, overtaken, writes, failed>>
      BY DEF Topic!DecrementCounts, Topic!overlaps, Topic!bounds
    <2>2. [r EXCEPT !.ids = {}, !.todo = Tail(@)] = x
      BY <1>1, TopicHeads DEF Errand
    <2> QED BY <2>1, <2>2
  <1>3. /\ x.op = r.op /\ x.note = r.note /\ x.names = r.names /\ x.ids = {}
        /\ x.current = r.current /\ x.todo = (IF r.todo = Dec1 THEN <<>> ELSE Ups1)
        /\ x.todo # <<>> => x \in Errand
    BY DEF Errand
  <1>4. /\ new \in [Subject -> Nat]
        /\ \A t \in Subject :
             new[t] = IF t \in r.ids /\ topicCount[t] > 0 THEN topicCount[t] - 1 ELSE topicCount[t]
    BY DEF TopicsSafe, TopicsTyped
  <1> HIDE DEF x, new
  <1> PICK y : y = call'[q]
    OBVIOUS
  <1>5. /\ OthersStay(q) /\ call' = [s \in Request |-> call'[s]] /\ topicCount' = new
        /\ x.todo = <<>> => y = Topic!NoRequest
        /\ x.todo # <<>> => y = x /\ y # Topic!NoRequest
        /\ hot' \in {hot, "stale"}
    BY <1>1, <1>2, <1>3, Recounts, NoErrand
  <1>6. TopicsTyped'
    BY <1>2, <1>4, <1>5 DEF TopicsSafe, TopicsTyped
  <1>7. /\ x.todo # <<>> => FitIn(x)
        /\ r.op # "hot" /\ r.todo \notin Attaching /\ r.todo \in Counting
    BY <1>1, <1>3, TopicApart DEF FitIn, Placed, EmptyHanded, Attaching, Counting
  <1>8. ErrandsKnown'
    <2>1. \A n \in Post : note[n] # "none" => note'[n] # "none"
      BY <1>2
    <2>2. \/ y = Topic!NoRequest
          \/ FitIn(y) /\ (y.op # "hot" /\ y.todo # Ins1 => note'[y.note] # "none")
      BY <1>1, <1>2, <1>3, <1>5, <1>7
    <2> QED BY <1>1, <1>5, <2>1, <2>2, ErrandsMove
  <1>9. ASSUME CountsCalm
        PROVE  CountsCalm'
    <2>1. /\ WritersApart /\ q \in Topic!Writers
          /\ Emptied(r) /\ (drift # TRUE => Distinct(r))
      BY <1>1, <1>7, <1>9 DEF CountsCalm, Topic!Writers
    <2>2. Topic!TopicsOf(r.note) = {} /\ r.note \in Post
      BY <1>7, <2>1 DEF Emptied, Errand
    <2>3. \A n, t : ~Tags(y, n, t)
      BY <1>3, <1>5 DEF Tags, Credited
    <2>4. \A n, t : Tags(r, n, t) <=> n = r.note /\ t \in r.ids
      BY <1>1, <1>7, NoErrand DEF Tags, Credited
    <2>5. ASSUME NEW n \in Post, NEW t \in Subject
          PROVE  Tagged(n, t)' <=> Tagged(n, t) /\ ~(n = r.note /\ t \in r.ids)
      <3>1. CASE n = r.note
        <4>1. ~TaggedElse(q, n, t) /\ <<n, t>> \notin attached
          BY <2>1, <2>2, <3>1, TaggedAlone DEF Topic!TopicsOf
        <4> QED BY <1>1, <1>2, <1>5, <2>3, <2>4, <3>1, <4>1, TaggedBy
      <3>2. CASE n # r.note
        BY <1>1, <1>2, <1>5, <2>3, <2>4, <3>2, TaggedBy
      <3> QED BY <3>1, <3>2
    <2>6. ASSUME NEW t \in Subject
          PROVE  Covered(t)'
      <3>1. CASE t \in r.ids
        <4>1. Tagged(r.note, t)
          BY <1>1, <1>5, <2>4, <3>1, TaggedBy
        <4>2. topicCount'[t] = IF topicCount[t] > 0 THEN topicCount[t] - 1 ELSE topicCount[t]
          BY <1>4, <1>5, <3>1
        <4>3. \A m \in Post : Tagged(m, t)' <=> Tagged(m, t) /\ m # r.note
          BY <2>5, <3>1
        <4> QED BY <1>2, <1>9, <2>2, <4>1, <4>2, <4>3, CoveredLess DEF CountsCalm
      <3>2. CASE t \notin r.ids
        <4>1. topicCount'[t] = topicCount[t]
          BY <1>4, <1>5, <3>2
        <4>2. \A m \in Post : Tagged(m, t)' <=> Tagged(m, t)
          BY <2>5, <3>2
        <4> QED BY <1>2, <1>9, <4>1, <4>2, CoveredSame DEF CountsCalm
      <3> QED BY <3>1, <3>2
    <2>7. Emptied(x)'
      BY <1>2, <1>3, <2>2, TopicApart, TopicHeads DEF Emptied, Topic!TopicsOf
    <2>8. x.todo # <<>> => (drift' # TRUE => Distinct(x))
      BY <1>1, <1>2, <1>3, <2>1, TopicApart DEF Distinct
    <2>9. \/ y = Topic!NoRequest
          \/ /\ y.op = call[q].op /\ y.note = call[q].note /\ Emptied(y)'
             /\ drift' # TRUE => Distinct(y)
      BY <1>3, <1>5, <2>7, <2>8
    <2>10. \A n, t : <<n, t>> \in attached' <=> <<n, t>> \in attached
      BY <1>2
    <2> QED BY <1>1, <1>2, <1>5, <1>9, <2>6, <2>9, <2>10, CountsGoOn
  <1>10. HotCalm => HotCalm'
    <2>1. y = Topic!NoRequest \/ y.op = call[q].op
      BY <1>3, <1>5
    <2> QED BY <1>1, <1>2, <1>5, <1>7, <2>1, HotMoves
  <1> QED BY <1>6, <1>8, <1>9, <1>10 DEF TopicsKept, TopicsSafe

LEMMA UpsertStep ==
  ASSUME TopicsSafe, NEW q, Topic!UpsertByName(q)
  PROVE  TopicsKept
  <1>1. /\ q \in Topic!Active /\ q \in Request /\ call[q] \in Errand /\ ErrandsKnown
        /\ call[q].op \in {"create", "update"} /\ call[q].todo = Ups1
        /\ note[call[q].note] # "none"
    BY TopicWhere, TopicApart DEF Topic!UpsertByName, TopicsSafe, InTable
  <1> PICK r \in Errand : r = call[q]
    BY <1>1
  <1> PICK name \in r.names :
        Topic!Recount(q, [topicCount EXCEPT ![SubjectOf[name]] = @ + 1],
                      [r EXCEPT !.names = @ \ {name}, !.ids = @ \cup {SubjectOf[name]},
                                !.todo = <<"selectId">>])
    BY DEF Topic!UpsertByName
  <1> PICK top \in Subject : top = SubjectOf[name]
    BY TopicsAssumption DEF Errand
  <1> DEFINE x == [r EXCEPT !.names = r.names \ {name}, !.ids = r.ids \cup {top}, !.todo = Sel1]
             new == [topicCount EXCEPT ![top] = @ + 1]
  <1>2. /\ Topic!Recount(q, new, x)
        /\ UNCHANGED <<note, attached, drift, lowered, crossed, overtaken, writes, failed>>
    <2>1. [r EXCEPT !.names = @ \ {name}, !.ids = @ \cup {top}, !.todo = <<"selectId">>] = x
      BY DEF Errand, Sel1
    <2> QED BY <2>1 DEF Topic!UpsertByName, Topic!histories, Topic!overlaps, Topic!bounds
  <1>3. /\ x.op = r.op /\ x.note = r.note /\ x.names = r.names \ {name} /\ x.ids = r.ids \cup {top}
        /\ x.current = r.current /\ x.todo = Sel1 /\ x \in Errand /\ x.todo # <<>>
    BY TopicHeads DEF Errand
  <1>4. /\ new \in [Subject -> Nat]
        /\ \A t \in Subject : new[t] = IF t = top THEN topicCount[t] + 1 ELSE topicCount[t]
    BY DEF TopicsSafe, TopicsTyped
  <1> HIDE DEF x, new
  <1>5. /\ OthersStay(q) /\ call' = [s \in Request |-> call'[s]] /\ topicCount' = new
        /\ call'[q] = x /\ x # Topic!NoRequest
        /\ hot' \in {hot, "stale"}
    BY <1>1, <1>2, <1>3, Recounts, NoErrand
  <1>6. TopicsTyped'
    BY <1>2, <1>4, <1>5 DEF TopicsSafe, TopicsTyped
  <1>7. /\ FitIn(x) /\ x.op # "hot" /\ x.todo \in Attaching
        /\ r.op # "hot" /\ r.todo \in Counting /\ x.todo \in Counting
    BY <1>1, <1>3, TopicApart DEF FitIn, Placed, EmptyHanded, Attaching, Counting
  <1>8. ErrandsKnown'
    BY <1>1, <1>2, <1>3, <1>5, <1>7, ErrandsMove
  <1>9. ASSUME CountsCalm
        PROVE  CountsCalm'
    <2>1. /\ WritersApart /\ q \in Topic!Writers
          /\ Emptied(r) /\ (drift # TRUE => Distinct(r))
      BY <1>1, <1>7, <1>9 DEF CountsCalm, Topic!Writers
    <2>2. Topic!TopicsOf(r.note) = {} /\ r.note \in Post
      BY <1>7, <2>1 DEF Emptied, Errand
    <2>3. \A n, t : Tags(x, n, t) <=> n = r.note /\ (t \in r.ids \/ t = top)
      BY <1>3, <1>5, <1>7 DEF Tags, Credited
    <2>4. \A n, t : Tags(r, n, t) <=> n = r.note /\ t \in r.ids
      BY <1>1, <1>7, NoErrand DEF Tags, Credited
    <2>5. \A n \in Post, t \in Subject :
            Tagged(n, t)' <=> Tagged(n, t) \/ (n = r.note /\ t = top)
      BY <1>1, <1>2, <1>5, <2>3, <2>4, TaggedBy
    <2>6. drift # TRUE => /\ ~Topic!Twice(r.names)
                          /\ \A a \in r.names : SubjectOf[a] \notin r.ids
      BY <1>1, <2>1, TopicApart DEF Distinct
    <2>7. drift # TRUE => ~Tagged(r.note, top)
      <3>1. ~TaggedElse(q, r.note, top) /\ <<r.note, top>> \notin attached
        BY <2>1, <2>2, TaggedAlone DEF Topic!TopicsOf
      <3>2. drift # TRUE => top \notin r.ids
        BY <2>6
      <3> QED BY <1>1, <1>5, <2>4, <3>1, <3>2, TaggedBy
    <2>8. ASSUME NEW t \in Subject
          PROVE  Covered(t)'
      <3>1. CASE t = top
        <4>1. topicCount'[t] = topicCount[t] + 1
          BY <1>4, <1>5, <3>1
        <4>2. \A m \in Post : Tagged(m, t)' <=> Tagged(m, t) \/ m = r.note
          BY <2>5, <3>1
        <4> QED BY <1>2, <1>9, <2>2, <2>7, <3>1, <4>1, <4>2, CoveredMore DEF CountsCalm
      <3>2. CASE t # top
        <4>1. topicCount'[t] = topicCount[t]
          BY <1>4, <1>5, <3>2
        <4>2. \A m \in Post : Tagged(m, t)' <=> Tagged(m, t)
          BY <2>5, <3>2
        <4> QED BY <1>2, <1>9, <4>1, <4>2, CoveredSame DEF CountsCalm
      <3> QED BY <3>1, <3>2
    <2>9. Emptied(x)'
      BY <1>2, <1>3, <2>2, TopicApart DEF Emptied, Topic!TopicsOf
    <2>10. drift' # TRUE => Distinct(x)
      <3>1. ASSUME drift # TRUE
            PROVE  ~Topic!Twice(x.names) /\ \A a \in x.names : SubjectOf[a] \notin x.ids
        BY <1>3, <2>6, <3>1 DEF Topic!Twice
      <3> QED BY <1>2, <1>3, <3>1, TopicApart DEF Distinct
    <2>11. \A n, t : <<n, t>> \in attached' <=> <<n, t>> \in attached
      BY <1>2
    <2> QED BY <1>1, <1>2, <1>3, <1>5, <1>9, <2>8, <2>9, <2>10, <2>11, CountsGoOn
  <1>10. HotCalm => HotCalm'
    BY <1>1, <1>2, <1>3, <1>5, <1>7, HotMoves
  <1> QED BY <1>6, <1>8, <1>9, <1>10 DEF TopicsKept, TopicsSafe
-----------------------------------------------------------------------------
LEMMA TopicsStart ==
  ASSUME Topic!Init
  PROVE  TopicsInv
  <1>1. /\ note = [n \in Post |-> "none"] /\ attached = {}
        /\ topicCount = [t \in Subject |-> 0] /\ hot = "missing"
        /\ call = [q \in Request |-> Topic!NoRequest]
        /\ drift = FALSE /\ crossed = FALSE /\ overtaken = FALSE /\ lowered = FALSE
        /\ writes = 0 /\ failed = 0
    BY DEF Topic!Init
  <1>2. TopicsTyped
    <2>1. \A n \in Nat : 0 \in 0..n
      OBVIOUS
    <2> QED BY <1>1, <2>1, TopicsAssumption DEF TopicsTyped
  <1>3. Topic!Active = {} /\ Topic!Writers = {}
    BY <1>1 DEF Topic!Active, Topic!Writers
  <1>4. TopicsSafe
    BY <1>1, <1>2, <1>3 DEF TopicsSafe, ErrandsKnown
  <1>5. \A t \in Subject : Covered(t)
    <2> TAKE t \in Subject
    <2>1. Tagging(t) = {}
      BY <1>1 DEF Tagging, Tagged, Tags
    <2>2. IsFiniteSet(Tagging(t)) /\ Cardinality(Tagging(t)) = 0
      BY <2>1, FS_EmptySet
    <2>3. topicCount[t] = 0
      BY <1>1
    <2> QED BY <2>2, <2>3 DEF Covered
  <1>6. CountsCalm
    BY <1>3, <1>5 DEF CountsCalm, WritersApart
  <1>7. HotCalm
    BY <1>1, <1>3 DEF HotCalm
  <1> QED BY <1>4, <1>6, <1>7 DEF TopicsInv

LEMMA TopicsNext ==
  ASSUME TopicsInv, [Topic!Next]_(Topic!vars)
  PROVE  TopicsInv'
  <1>1. TopicsSafe
    BY DEF TopicsInv
  <1>2. TopicsKept
    <2>1. ASSUME NEW q \in Request, NEW n \in Post, NEW names \in SUBSET Spelling,
                 \/ note[n] = "none" /\ Topic!Start(q, "create", n, names)
                 \/ note[n] # "none" /\ Topic!Start(q, "update", n, names)
          PROVE  TopicsKept
      BY <1>1, <2>1, TopicStarts
    <2>2. ASSUME NEW q \in Request, NEW n \in Post,
                 \/ note[n] # "none" /\ Topic!Start(q, "delete", n, {})
                 \/ Topic!Start(q, "hot", n, {})
          PROVE  TopicsKept
      <3>1. {} \in SUBSET Spelling
        OBVIOUS
      <3> QED BY <1>1, <2>2, <3>1, TopicStarts
    <2>3. ASSUME NEW q \in Request,
                 \/ Topic!InsertNote(q) \/ Topic!UpdateNote(q) \/ Topic!DeleteNote(q)
                 \/ Topic!Pluck(q) \/ Topic!DeleteRows(q) \/ Topic!DecrementCounts(q)
                 \/ Topic!UpsertByName(q) \/ Topic!SelectId(q) \/ Topic!AttachNoteTopics(q)
                 \/ Topic!BumpHot(q)
                 \/ Topic!GetHot(q) \/ Topic!ReadHot(q) \/ Topic!SetHot(q)
                 \/ Topic!Fail(q)
          PROVE  TopicsKept
      BY <1>1, <2>3, InsertNoteStep, UpdateNoteStep, DeleteNoteStep, PluckStep, DeleteRowsStep,
         DecrementStep, UpsertStep, SelectIdStep, AttachStep, BumpHotStep, GetHotStep, ReadHotStep,
         SetHotStep, TopicFailStep
    <2>4. ASSUME NEW n \in Post, Topic!DeleteNoteByID(n)
          PROVE  TopicsKept
      BY <1>1, <2>4, ModeratorStep
    <2>5. CASE Topic!ExpireHot
      BY <1>1, <2>5, ExpireHotStep
    <2>6. CASE UNCHANGED Topic!vars
      BY <1>1, <2>6, TopicsStutter
    <2> QED BY <2>1, <2>2, <2>3, <2>4, <2>5, <2>6 DEF Topic!Next
  <1>3. (crossed = TRUE => crossed' = TRUE) /\ (overtaken = TRUE => overtaken' = TRUE)
    <2>1. ASSUME NEW q, NEW op, NEW n, NEW names, Topic!Start(q, op, n, names)
          PROVE  (crossed = TRUE => crossed' = TRUE) /\ (overtaken = TRUE => overtaken' = TRUE)
      BY <2>1 DEF Topic!Start
    <2>2. ASSUME UNCHANGED Topic!overlaps
          PROVE  (crossed = TRUE => crossed' = TRUE) /\ (overtaken = TRUE => overtaken' = TRUE)
      BY <2>2 DEF Topic!overlaps
    <2>3. \/ \E q, op, n, names : Topic!Start(q, op, n, names)
          \/ UNCHANGED Topic!overlaps
      BY DEF Topic!Next, Topic!InsertNote, Topic!UpdateNote, Topic!DeleteNote, Topic!Pluck,
             Topic!DeleteRows, Topic!DecrementCounts, Topic!UpsertByName, Topic!SelectId,
             Topic!AttachNoteTopics, Topic!BumpHot, Topic!GetHot, Topic!ReadHot, Topic!SetHot,
             Topic!Fail, Topic!DeleteNoteByID, Topic!ExpireHot, Topic!histories, Topic!vars
    <2> QED BY <2>1, <2>2, <2>3
  <1> QED BY <1>2, <1>3 DEF TopicsInv, TopicsKept
-----------------------------------------------------------------------------
LEMMA TopicSteps ==
  ASSUME NEW s \in {Ins1, Edi1, Era1, Plu1, Det1, Det2, Dec1, Dec2, Ups1, Sel1, Row1, Bum1,
                    Hot1, Hot2, Hot3}
  PROVE  Topic!ToSet(s) \subseteq Topic!Step
  <1>1. DOMAIN Topic!Calls = {"create", "update", "delete", "hot"}
    BY DEF Topic!Calls
  <1>2. /\ Topic!ToSet(Ins1) = {"insertNote"} /\ Topic!ToSet(Hot1) = {"getHot"}
        /\ Topic!ToSet(Edi1) = {"updateNote", "pluck"} /\ Topic!ToSet(Era1) = {"deleteNote", "pluck"}
    BY DEF Topic!ToSet, Ins1, Hot1, Edi1, Era1
  <1>3. /\ Topic!ToSet(Plu1) = {"pluck"} /\ Topic!ToSet(Det1) = {"deleteRows", "decrement"}
        /\ Topic!ToSet(Det2) = {"deleteRows", "decrement", "upsert"}
        /\ Topic!ToSet(Dec1) = {"decrement"} /\ Topic!ToSet(Dec2) = {"decrement", "upsert"}
        /\ Topic!ToSet(Ups1) = {"upsert"} /\ Topic!ToSet(Sel1) = {"selectId"}
    BY DEF Topic!ToSet, Plu1, Det1, Det2, Dec1, Dec2, Ups1, Sel1
  <1>4. /\ Topic!ToSet(Row1) = {"insertRows", "bumpHot"} /\ Topic!ToSet(Bum1) = {"bumpHot"}
        /\ Topic!ToSet(Hot2) = {"readHot"} /\ Topic!ToSet(Hot3) = {"setHot"}
    BY DEF Topic!ToSet, Row1, Bum1, Hot2, Hot3
  <1>5. \A op \in {"create", "update", "delete", "hot"} :
          Topic!ToSet(Topic!Calls[op]) \subseteq Topic!Step
    BY <1>1 DEF Topic!Step
  <1>6. {"insertNote", "getHot", "updateNote", "pluck", "deleteNote"} \subseteq Topic!Step
    BY <1>2, <1>5, TopicCalls
  <1>7. {"deleteRows", "decrement", "upsert", "selectId", "insertRows", "bumpHot", "readHot",
         "setHot"} \subseteq Topic!Step
    BY DEF Topic!Step
  <1> QED BY <1>2, <1>3, <1>4, <1>6, <1>7

LEMMA TopicRows ==
  ASSUME NEW t
  PROVE  Topic!Rows(t) = Cardinality({row \in attached : row[2] = t})
  BY DEF Topic!Rows, Topic!Cardinality, Cardinality

LEMMA TopicsAre ==
  ASSUME TopicsInv
  PROVE  TopicsCounted
  <1>1. TopicsTyped /\ ErrandsKnown
    BY DEF TopicsInv, TopicsSafe
  <1>2. Topic!TypeOK
    <2>1. ASSUME NEW q \in Topic!Active
          PROVE  /\ call[q].op \in DOMAIN Topic!Calls /\ call[q].todo # <<>>
                 /\ Topic!ToSet(call[q].todo) \subseteq Topic!Step
                 /\ call[q].note \in Post
                 /\ call[q].names \subseteq Spelling /\ call[q].ids \subseteq Subject
                 /\ call[q].current \in BOOLEAN
      <3> PICK r \in Errand : r = call[q]
        BY <1>1 DEF ErrandsKnown, Topic!Active
      <3>1. r.op \in {"create", "update", "delete", "hot"}
        BY DEF Errand
      <3>2. r.op \in DOMAIN Topic!Calls
        BY <3>1 DEF Topic!Calls
      <3>3. r.todo \in {Ins1, Edi1, Era1, Plu1, Det1, Det2, Dec1, Dec2, Ups1, Sel1, Row1, Bum1,
                        Hot1, Hot2, Hot3}
        BY DEF Errand
      <3>4. r.todo # <<>> /\ Topic!ToSet(r.todo) \subseteq Topic!Step
        BY <3>3, TopicHeads, TopicSteps
      <3> QED BY <3>2, <3>4 DEF Errand
    <2> QED BY <1>1, <2>1 DEF TopicsTyped, Topic!TypeOK
  <1>3. ASSUME NEW t \in Subject
        PROVE  /\ crossed # TRUE => topicCount[t] >= Topic!Rows(t)
               /\ crossed # TRUE /\ drift # TRUE /\ Topic!Active = {} => topicCount[t] = Topic!Rows(t)
    <2> PICK R : R = {row \in attached : row[2] = t}
      OBVIOUS
    <2> PICK O : O = Tagging(t)
      OBVIOUS
    <2>1. R \subseteq O
      BY <1>1 DEF Tagging, Tagged, TopicsTyped
    <2>2. Topic!Active = {} => R = O
      BY <1>1, <2>1 DEF Tagging, Tagged, Tags, TopicsTyped, Topic!Active
    <2>3. ASSUME crossed # TRUE
          PROVE  topicCount[t] >= Cardinality(R)
      <3>1. IsFiniteSet(O) /\ Cardinality(O) <= topicCount[t]
        BY <2>3 DEF TopicsInv, CountsCalm, Covered
      <3> PICK k \in Nat : k = topicCount[t]
        BY <1>1 DEF TopicsTyped
      <3> PICK c \in Nat : c = Cardinality(O)
        BY <3>1, FS_CardinalityType
      <3>2. Cardinality(R) <= c /\ IsFiniteSet(R)
        BY <2>1, <3>1, FS_Subset
      <3> PICK b \in Nat : b = Cardinality(R)
        BY <3>2, FS_CardinalityType
      <3>3. b <= c /\ c <= k
        BY <3>1, <3>2
      <3>4. k >= b
        BY <3>3
      <3> QED BY <3>4
    <2>4. ASSUME crossed # TRUE, drift # TRUE, Topic!Active = {}
          PROVE  topicCount[t] = Cardinality(R)
      <3>1. Cardinality(O) = topicCount[t]
        BY <2>4 DEF TopicsInv, CountsCalm, Covered
      <3> QED BY <2>2, <2>4, <3>1
    <2> QED BY <2>3, <2>4, TopicRows
  <1>4. Topic!CountsCover
    BY <1>1, <1>3 DEF Topic!CountsCover, TopicsTyped
  <1>5. Topic!CountsExact
    BY <1>1, <1>3 DEF Topic!CountsExact, TopicsTyped
  <1>6. Topic!HotStaleByDetach
    <2> SUFFICES ASSUME Topic!Active = {}, ~overtaken, ~drift, hot = "stale"
                 PROVE  lowered
      BY DEF Topic!HotStaleByDetach
    <2>1. HotCalm /\ Topic!Writers = {} /\ drift # TRUE
      BY <1>1 DEF TopicsInv, Topic!Writers
    <2>2. lowered = TRUE
      BY <2>1 DEF HotCalm
    <2> QED BY <2>2
  <1> QED BY <1>2, <1>4, <1>5, <1>6 DEF TopicsCounted

(***************************************************************************)
(* However many requests there are, notes, names and topics: until two     *)
(* requests work on one note at a time, a topic counts no fewer notes than *)
(* it has, and exactly those when nothing failed and nobody is at work;    *)
(* and a list of hot topics that nobody read while a note was written is,  *)
(* when nothing failed, an old one only by what notes have lost            *)
(* (topic_service.go:58-135).                                              *)
(***************************************************************************)
THEOREM TopicsCountedHolds == Topic!Spec => []TopicsCounted
  <1>1. Topic!Init => TopicsInv
    BY TopicsStart
  <1>2. TopicsInv /\ [Topic!Next]_(Topic!vars) => TopicsInv'
    BY TopicsNext
  <1>3. TopicsInv => TopicsCounted
    BY TopicsAre
  <1> QED BY <1>1, <1>2, <1>3, PTL DEF Topic!Spec
=============================================================================
