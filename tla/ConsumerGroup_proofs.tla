------------------------ MODULE ConsumerGroup_proofs ------------------------
(***************************************************************************)
(* Proofs about a group driven by Run and its recover loop, for every      *)
(* number of entries, every size of batches and claims, every set of       *)
(* entries that always fail and every number of faults.                    *)
(***************************************************************************)
EXTENDS ConsumerGroup, TLAPS

(***************************************************************************)
(* The inductive invariant.  The group has delivered only what is on the   *)
(* stream; what is pending, or in the hands of a loop, was delivered; and  *)
(* what a loop is done with is handled.                                    *)
(***************************************************************************)
Delivered == 1..last

DeliveredOnStream == last <= length

PendingDelivered == Pending \subseteq Delivered

TakenDelivered == \A t \in Thread : thread[t].batch \subseteq Delivered

DoneIsHandled == \A t \in Thread : thread[t].done \subseteq handled

GroupInv == DeliveredOnStream /\ PendingDelivered /\ TakenDelivered /\ DoneIsHandled
-----------------------------------------------------------------------------
(***************************************************************************)
(* Facts about the pending entries list.                                   *)
(***************************************************************************)

\* XACK of S removes the entries of S and no other.
LEMMA UnionWithout ==
  ASSUME NEW cohorts, NEW S
  PROVE  UNION Without(cohorts, S) = (UNION cohorts) \ S
  <1>1. ASSUME NEW m \in UNION Without(cohorts, S)
        PROVE  m \in (UNION cohorts) \ S
    BY <1>1 DEF Without
  <1>2. ASSUME NEW m \in (UNION cohorts) \ S
        PROVE  m \in UNION Without(cohorts, S)
    <2>1. PICK c \in cohorts : m \in c
      BY <1>2
    <2>2. c \ S \in Without(cohorts, S)
      BY <1>2, <2>1 DEF Without
    <2> QED BY <1>2, <2>1, <2>2
  <1> QED BY <1>1, <1>2

\* It leaves cohorts of entries.
LEMMA WithoutTyped ==
  ASSUME NEW cohorts \in SUBSET (SUBSET Msg), NEW S
  PROVE  Without(cohorts, S) \in SUBSET (SUBSET Msg)
  BY DEF Without

\* It keeps a set of cohorts within another one.
LEMMA WithoutMonotone ==
  ASSUME NEW cohorts, NEW some \in SUBSET cohorts, NEW S
  PROVE  Without(some, S) \subseteq Without(cohorts, S)
  BY DEF Without

\* A read delivers at least one new entry and none that is not there.
LEMMA ReadAdvances ==
  ASSUME TypeOK, ReadGroup
  PROVE  /\ last' \in Nat /\ last < last' /\ last' <= length
         /\ pel' = pel \cup {(last + 1)..last'}
         /\ thread' = [thread EXCEPT !["read"] = Working((last + 1)..last')]
  <1>1. last \in Nat /\ length \in Nat /\ last < length
    BY ConsumerAssumption DEF TypeOK, ReadGroup
  <1>2. PICK n \in Nat \ {0} :
          /\ n <= length - last /\ last' = last + n
          /\ pel' = pel \cup {(last + 1)..(last + n)}
          /\ thread' = [thread EXCEPT !["read"] = Working((last + 1)..(last + n))]
    <2> DEFINE n == IF length - last < BatchSize THEN length - last ELSE BatchSize
    <2>1. n \in Nat \ {0} /\ n <= length - last
      BY <1>1, ConsumerAssumption
    <2> QED BY <2>1 DEF ReadGroup
  <1> QED BY <1>1, <1>2

\* XAUTOCLAIM takes pending entries and leaves all of them pending.
LEMMA ClaimKeepsPending ==
  ASSUME TypeOK, AutoClaim
  PROVE  \E claimed \in SUBSET Pending :
           /\ pel' = Without(pel, claimed) \cup {claimed}
           /\ ripe' = Without(ripe, claimed)
           /\ thread' = [thread EXCEPT !["recover"] = Working(claimed)]
           /\ Pending' = Pending
  <1> DEFINE claimed == FirstOf(ClaimCount, UNION ripe)
  <1>1. /\ pel' = Without(pel, claimed) \cup {claimed}
        /\ ripe' = Without(ripe, claimed)
        /\ thread' = [thread EXCEPT !["recover"] = Working(claimed)]
    BY DEF AutoClaim
  <1>2. claimed \subseteq Pending
    <2>1. claimed \subseteq UNION ripe
      BY DEF FirstOf
    <2>2. ripe \subseteq pel
      BY DEF TypeOK
    <2> QED BY <2>1, <2>2 DEF Pending
  <1> HIDE DEF claimed
  <1>3. Pending' = Pending
    <2>1. Pending' = (UNION Without(pel, claimed)) \cup claimed
      BY <1>1 DEF Pending
    <2>2. UNION Without(pel, claimed) = Pending \ claimed
      BY UnionWithout DEF Pending
    <2> QED BY <2>1, <2>2, <1>2
  <1> QED BY <1>1, <1>2, <1>3

\* After an XACK the rest is pending, and the loop is free.
LEMMA AckLeavesRest ==
  ASSUME NEW t \in Thread, AckDone(t)
  PROVE  /\ Pending' = Pending \ thread[t].done
         /\ UNCHANGED <<length, last, handled>>
  <1>1. Pending' = UNION Without(pel, thread[t].done)
    BY DEF AckDone, Pending
  <1>2. UNION Without(pel, thread[t].done) = Pending \ thread[t].done
    BY UnionWithout DEF Pending
  <1> QED BY <1>1, <1>2 DEF AckDone
-----------------------------------------------------------------------------
(***************************************************************************)
(* Type correctness.                                                       *)
(***************************************************************************)

\* Every reachable state is well typed, and the group delivers only what is
\* on the stream.
THEOREM TypeCorrect == Spec => [](TypeOK /\ DeliveredOnStream)
  <1>1. Init => TypeOK /\ DeliveredOnStream
    BY ConsumerAssumption
       DEF Init, TypeOK, DeliveredOnStream, ThreadState, Resting
  <1>2. TypeOK /\ DeliveredOnStream /\ [Next]_vars => (TypeOK /\ DeliveredOnStream)'
    <2> SUFFICES ASSUME TypeOK, DeliveredOnStream, [Next]_vars
                 PROVE  (TypeOK /\ DeliveredOnStream)'
      OBVIOUS
    <2>1. CASE Publish
      BY <2>1, ConsumerAssumption DEF Publish, TypeOK, DeliveredOnStream
    <2>2. CASE ReadGroup
      <3>1. /\ last' \in 0..MaxMsg /\ last' <= length
            /\ (last + 1)..last' \in SUBSET Msg
            /\ pel' = pel \cup {(last + 1)..last'}
            /\ thread' = [thread EXCEPT !["read"] = Working((last + 1)..last')]
        BY <2>2, ReadAdvances, ConsumerAssumption DEF TypeOK, Msg
      <3>2. thread' \in [Thread -> ThreadState]
        BY <3>1 DEF TypeOK, ThreadState, Working
      <3> QED BY <2>2, <3>1, <3>2 DEF ReadGroup, TypeOK, DeliveredOnStream
    <2>3. CASE AutoClaim
      <3>1. PICK claimed \in SUBSET Pending :
              /\ pel' = Without(pel, claimed) \cup {claimed}
              /\ ripe' = Without(ripe, claimed)
              /\ thread' = [thread EXCEPT !["recover"] = Working(claimed)]
        BY <2>3, ClaimKeepsPending
      <3>2. claimed \in SUBSET Msg
        BY DEF TypeOK, Pending
      <3>3. pel' \in SUBSET (SUBSET Msg) /\ ripe' \in SUBSET pel'
        BY <3>1, <3>2, WithoutTyped, WithoutMonotone DEF TypeOK
      <3>4. thread' \in [Thread -> ThreadState]
        BY <3>1, <3>2 DEF TypeOK, ThreadState, Working
      <3> QED BY <2>3, <3>3, <3>4 DEF AutoClaim, TypeOK, DeliveredOnStream
    <2>4. CASE Crash
      BY <2>4, ConsumerAssumption
         DEF Crash, Fault, TypeOK, DeliveredOnStream, ThreadState, Resting
    <2>5. ASSUME NEW c \in pel, Ripen(c) PROVE (TypeOK /\ DeliveredOnStream)'
      BY <2>5 DEF Ripen, TypeOK, DeliveredOnStream
    <2>6. ASSUME NEW t \in Thread, HandleOk(t) PROVE (TypeOK /\ DeliveredOnStream)'
      <3>1. PICK m \in thread[t].batch : /\ handled' = handled \cup {m}
                                         /\ thread' = [thread EXCEPT ![t].done = @ \cup {m}]
        BY <2>6 DEF HandleOk
      <3>2. m \in Msg
        BY DEF TypeOK, ThreadState
      <3>3. thread' \in [Thread -> ThreadState]
        BY <3>1, <3>2 DEF TypeOK, ThreadState
      <3> QED BY <2>6, <3>1, <3>2, <3>3 DEF HandleOk, TypeOK, DeliveredOnStream
    <2>7. ASSUME NEW t \in Thread, AckBatch(t) \/ HandleFail(t)
          PROVE  (TypeOK /\ DeliveredOnStream)'
      <3>1. AckDone(t) /\ faults' \in 0..MaxFaults
        BY <2>7, ConsumerAssumption DEF AckBatch, HandleFail, Fault, TypeOK
      <3>2. pel' \in SUBSET (SUBSET Msg) /\ ripe' \in SUBSET pel'
        BY <3>1, WithoutTyped, WithoutMonotone DEF AckDone, TypeOK
      <3>3. thread' \in [Thread -> ThreadState]
        BY <3>1 DEF AckDone, TypeOK, ThreadState, Resting
      <3> QED BY <3>1, <3>2, <3>3 DEF AckDone, TypeOK, DeliveredOnStream
    <2>8. ASSUME NEW t \in Thread, AckFail(t) PROVE (TypeOK /\ DeliveredOnStream)'
      BY <2>8, ConsumerAssumption
         DEF AckFail, Fault, TypeOK, DeliveredOnStream, ThreadState, Resting
    <2>9. CASE ReadNothing \/ UNCHANGED vars
      BY <2>9 DEF ReadNothing, vars, TypeOK, DeliveredOnStream
    <2> QED
      BY <2>1, <2>2, <2>3, <2>4, <2>5, <2>6, <2>7, <2>8, <2>9 DEF Next, ThreadStep
  <1> QED BY <1>1, <1>2, PTL DEF Spec
-----------------------------------------------------------------------------
(***************************************************************************)
(* Delivery.                                                               *)
(***************************************************************************)

\* The invariant holds in every reachable state.
LEMMA GroupInvariant == Spec => []GroupInv
  <1>1. Init => GroupInv
    BY ConsumerAssumption
       DEF Init, GroupInv, DeliveredOnStream, PendingDelivered, TakenDelivered,
           DoneIsHandled, Pending, Resting
  <1>2. TypeOK /\ GroupInv /\ [Next]_vars /\ DeliveredOnStream' => GroupInv'
    <2> SUFFICES ASSUME TypeOK, GroupInv, [Next]_vars, DeliveredOnStream'
                 PROVE  PendingDelivered' /\ TakenDelivered' /\ DoneIsHandled'
      BY DEF GroupInv
    <2> USE DEF GroupInv
    <2>1. CASE ReadGroup
      <3>1. /\ last' \in Nat /\ last \in Nat /\ last < last'
            /\ pel' = pel \cup {(last + 1)..last'}
            /\ thread' = [thread EXCEPT !["read"] = Working((last + 1)..last')]
        BY <2>1, ReadAdvances, ConsumerAssumption DEF TypeOK
      <3>2. Delivered \subseteq Delivered' /\ (last + 1)..last' \subseteq Delivered'
        BY <3>1 DEF Delivered
      <3>3. PendingDelivered'
        BY <3>1, <3>2 DEF PendingDelivered, Pending
      <3>4. \A t \in Thread : \/ thread'[t] = thread[t]
                              \/ thread'[t] = Working((last + 1)..last')
        BY <3>1 DEF TypeOK
      <3>5. TakenDelivered' /\ DoneIsHandled'
        BY <2>1, <3>2, <3>4 DEF ReadGroup, TakenDelivered, DoneIsHandled, Working
      <3> QED BY <3>3, <3>5
    <2>2. CASE AutoClaim
      <3>1. PICK claimed \in SUBSET Pending :
              /\ thread' = [thread EXCEPT !["recover"] = Working(claimed)]
              /\ Pending' = Pending
        BY <2>2, ClaimKeepsPending
      <3>2. UNCHANGED <<last, handled>> /\ Delivered' = Delivered
        BY <2>2 DEF AutoClaim, Delivered
      <3>3. \A t \in Thread : thread'[t] = thread[t] \/ thread'[t] = Working(claimed)
        BY <3>1 DEF TypeOK
      <3> QED
        BY <3>1, <3>2, <3>3 DEF PendingDelivered, TakenDelivered, DoneIsHandled, Working
    <2>3. ASSUME NEW t \in Thread, HandleOk(t)
          PROVE  PendingDelivered' /\ TakenDelivered' /\ DoneIsHandled'
      <3>1. PICK m : /\ handled' = handled \cup {m}
                     /\ thread' = [thread EXCEPT ![t].done = @ \cup {m}]
        BY <2>3 DEF HandleOk
      <3>2. UNCHANGED <<last, pel>> /\ Delivered' = Delivered /\ Pending' = Pending
        BY <2>3 DEF HandleOk, Delivered, Pending
      <3>3. \A q \in Thread : /\ thread'[q].batch = thread[q].batch
                              /\ thread'[q].done \subseteq thread[q].done \cup {m}
        BY <3>1 DEF TypeOK, ThreadState
      <3> QED BY <3>1, <3>2, <3>3 DEF PendingDelivered, TakenDelivered, DoneIsHandled
    <2>4. ASSUME NEW t \in Thread, AckBatch(t) \/ HandleFail(t)
          PROVE  PendingDelivered' /\ TakenDelivered' /\ DoneIsHandled'
      <3>1. AckDone(t)
        BY <2>4 DEF AckBatch, HandleFail
      <3>2. /\ Pending' \subseteq Pending /\ UNCHANGED <<last, handled>>
            /\ Delivered' = Delivered
        BY <3>1, AckLeavesRest DEF Delivered
      <3>3. \A q \in Thread : thread'[q] = thread[q] \/ thread'[q] = Resting
        BY <3>1 DEF AckDone, TypeOK
      <3> QED
        BY <3>2, <3>3 DEF PendingDelivered, TakenDelivered, DoneIsHandled, Resting
    <2>5. CASE Crash \/ \E t \in Thread : AckFail(t)
      <3>1. UNCHANGED <<last, pel, handled>>
            /\ \A q \in Thread : thread'[q] = thread[q] \/ thread'[q] = Resting
        BY <2>5 DEF Crash, AckFail, TypeOK
      <3> QED
        BY <3>1 DEF PendingDelivered, TakenDelivered, DoneIsHandled, Resting, Delivered,
                    Pending
    <2>6. CASE Publish \/ ReadNothing \/ (\E c \in pel : Ripen(c)) \/ UNCHANGED vars
      <3>1. UNCHANGED <<last, pel, thread, handled>>
        BY <2>6 DEF Publish, ReadNothing, Ripen, vars
      <3> QED
        BY <3>1 DEF PendingDelivered, TakenDelivered, DoneIsHandled, Delivered, Pending
    <2> QED
      BY <2>1, <2>2, <2>3, <2>4, <2>5, <2>6 DEF Next, ThreadStep
  <1> QED BY <1>1, <1>2, TypeCorrect, PTL DEF Spec

(***************************************************************************)
(* Nothing leaves the pending list before the handler has succeeded on it, *)
(* however the read loop, the recover loop, lost acks and crashes          *)
(* interleave (streams.go:81-117 and 144-170).                             *)
(***************************************************************************)
THEOREM GroupImplementsDelivery == Spec => ImplementsDelivery
  <1>1. Init => GD!AbsInit
    BY ConsumerAssumption DEF Init, GD!AbsInit, Pending
  <1>2. TypeOK /\ GroupInv /\ [Next]_vars => [GD!AbsNext]_GD!absvars
    <2> SUFFICES ASSUME TypeOK, GroupInv, [Next]_vars PROVE [GD!AbsNext]_GD!absvars
      OBVIOUS
    <2>1. CASE Publish
      BY <2>1 DEF Publish, Pending, GD!AbsNext, GD!Publish
    <2>2. CASE ReadGroup
      <3>1. /\ last' \in Nat /\ last \in Nat /\ last < last' /\ last' <= length
            /\ Pending' = Pending \cup (last + 1)..last'
        BY <2>2, ReadAdvances, ConsumerAssumption DEF TypeOK, Pending
      <3>2. (1..last') \ Pending' = (1..last) \ Pending
        BY <3>1 DEF GroupInv, PendingDelivered, Delivered
      <3> QED BY <2>2, <3>1, <3>2 DEF ReadGroup, GD!AbsNext, GD!Read
    <2>3. CASE AutoClaim
      <3>1. Pending' = Pending
        BY <2>3, ClaimKeepsPending
      <3> QED BY <2>3, <3>1 DEF AutoClaim, GD!absvars
    <2>4. ASSUME NEW t \in Thread, HandleOk(t) PROVE GD!AbsNext
      <3>1. PICK m \in thread[t].batch : handled' = handled \cup {m}
        BY <2>4 DEF HandleOk
      <3>2. m \in 1..last
        BY DEF GroupInv, TakenDelivered, Delivered
      <3>3. UNCHANGED <<length, last, pel>> /\ Pending' = Pending
        BY <2>4 DEF HandleOk, Pending
      <3> QED BY <3>1, <3>2, <3>3 DEF GD!AbsNext, GD!Handle
    <2>5. ASSUME NEW t \in Thread, AckBatch(t) \/ HandleFail(t) PROVE GD!AbsNext
      <3>1. AckDone(t)
        BY <2>5 DEF AckBatch, HandleFail
      <3>2. /\ Pending' = Pending \ thread[t].done
            /\ UNCHANGED <<length, last, handled>>
        BY <3>1, AckLeavesRest
      <3>3. thread[t].done \subseteq handled
        BY DEF GroupInv, DoneIsHandled
      <3> QED BY <3>2, <3>3 DEF GD!AbsNext, GD!Ack
    <2>6. CASE Crash \/ ReadNothing \/ UNCHANGED vars
               \/ (\E c \in pel : Ripen(c)) \/ (\E t \in Thread : AckFail(t))
      BY <2>6 DEF Crash, ReadNothing, vars, Ripen, AckFail, Pending, GD!absvars
    <2> QED
      BY <2>1, <2>2, <2>3, <2>4, <2>5, <2>6 DEF Next, ThreadStep
  <1> QED
    BY <1>1, <1>2, TypeCorrect, GroupInvariant, PTL
       DEF Spec, ImplementsDelivery, GD!AbsSafety
=============================================================================
