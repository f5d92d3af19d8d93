--------------------------- MODULE ConsumerGroup ---------------------------
(***************************************************************************)
(* One consumer group of the stream driven by Consumer.Run                 *)
(* (internal/queue/streams.go): a read loop that takes new entries and, at *)
(* the same time, a recover loop that claims entries left pending.  The    *)
(* feed and search groups run this way.                                    *)
(*                                                                         *)
(* Entries are their positions on the stream.  The pending entries list    *)
(* (PEL) is kept as cohorts: the entries one XREADGROUP or XAUTOCLAIM      *)
(* returned have one delivery time and turn old enough to be claimed       *)
(* together.  A payload that does not parse counts as handled, as in       *)
(* process.                                                                *)
(***************************************************************************)
EXTENDS Naturals, FiniteSets

CONSTANTS MaxMsg,      \* bound: entries published in a run
          BatchSize,   \* event.consumer.batch_size
          ClaimCount,  \* Count of XAUTOCLAIM, 32 in the code
          Poison,      \* entries the handler fails on whenever it is called
          MaxFaults    \* bound: other handler errors, lost acks and crashes

ASSUME ConsumerAssumption ==
  /\ MaxMsg \in Nat
  /\ BatchSize \in Nat \ {0}
  /\ ClaimCount \in Nat \ {0}
  /\ MaxFaults \in Nat

Msg == 1..MaxMsg

Thread == {"read", "recover"}

VARIABLES length,    \* entries on the stream
          last,      \* last-delivered id of the group
          pel,       \* pending entries list: a set of cohorts
          ripe,      \* cohorts idle for at least MinIdle (30 s)
          thread,    \* the two loops: what they took, what they handled of it
          handled,   \* entries some call of the handler succeeded on
          faults     \* faults so far

vars == <<length, last, pel, ripe, thread, handled, faults>>

ThreadState == [busy: BOOLEAN, batch: SUBSET Msg, done: SUBSET Msg]

Resting == [busy |-> FALSE, batch |-> {}, done |-> {}]

Working(S) == [busy |-> TRUE, batch |-> S, done |-> {}]

TypeOK ==
  /\ length \in 0..MaxMsg
  /\ last \in 0..MaxMsg
  /\ pel \in SUBSET (SUBSET Msg)
  /\ ripe \in SUBSET pel
  /\ thread \in [Thread -> ThreadState]
  /\ handled \in SUBSET Msg
  /\ faults \in 0..MaxFaults

\* EnsureGroup: XGROUP CREATE at "$"; what is on the stream already is
\* never delivered.
Init ==
  /\ length \in 0..MaxMsg
  /\ last = length
  /\ pel = {}
  /\ ripe = {}
  /\ thread = [t \in Thread |-> Resting]
  /\ handled = {}
  /\ faults = 0

Pending == UNION pel

\* The first n elements of S.
FirstOf(n, S) == {m \in S : Cardinality({k \in S : k < m}) < n}

\* cohorts without the entries of S.
Without(cohorts, S) == {c \ S : c \in cohorts} \ {{}}

Fault == faults < MaxFaults /\ faults' = faults + 1
-----------------------------------------------------------------------------
Publish ==
  /\ length < MaxMsg
  /\ length' = length + 1
  /\ UNCHANGED <<last, pel, ripe, thread, handled, faults>>

(***************************************************************************)
(* Read loop: XREADGROUP ">" delivers up to BatchSize new entries and puts *)
(* them on the PEL.                                                        *)
(***************************************************************************)
ReadGroup ==
  /\ ~thread["read"].busy
  /\ last < length
  /\ LET n == IF length - last < BatchSize THEN length - last ELSE BatchSize
         new == (last + 1)..(last + n)
     IN  /\ last' = last + n
         /\ pel' = pel \cup {new}
         /\ thread' = [thread EXCEPT !["read"] = Working(new)]
  /\ UNCHANGED <<length, ripe, handled, faults>>

\* The blocking read times out: nothing new.
ReadNothing ==
  /\ ~thread["read"].busy
  /\ last = length
  /\ UNCHANGED vars

\* Time passes: a cohort has been idle for 30 s.
Ripen(c) ==
  /\ c \in pel \ ripe
  /\ ripe' = ripe \cup {c}
  /\ UNCHANGED <<length, last, pel, thread, handled, faults>>

\* Mutant: the start of XAUTOCLAIM is exclusive: the oldest is left out.
AutoClaimAfterFirst ==
  /\ ~thread["recover"].busy
  /\ LET old == UNION ripe
         claimed == FirstOf(ClaimCount, old \ FirstOf(1, old))
     IN  /\ claimed # {}
         /\ pel' = Without(pel, claimed) \cup {claimed}
         /\ ripe' = Without(ripe, claimed)
         /\ thread' = [thread EXCEPT !["recover"] = Working(claimed)]
  /\ UNCHANGED <<length, last, handled, faults>>

(***************************************************************************)
(* Recover loop: XAUTOCLAIM from "0" takes the first ClaimCount entries    *)
(* that are old enough; claiming resets their idle time.  Entries the read *)
(* loop is still working on may be among them.                             *)
(***************************************************************************)
AutoClaim ==
  /\ ~thread["recover"].busy
  /\ ripe # {}
  /\ LET claimed == FirstOf(ClaimCount, UNION ripe)
     IN  /\ pel' = Without(pel, claimed) \cup {claimed}
         /\ ripe' = Without(ripe, claimed)
         /\ thread' = [thread EXCEPT !["recover"] = Working(claimed)]
  /\ UNCHANGED <<length, last, handled, faults>>

\* The next entry of the batch is handled.
HandleOk(t) ==
  /\ thread[t].busy
  /\ \E m \in thread[t].batch \ (thread[t].done \cup Poison) :
       /\ \A k \in thread[t].batch \ thread[t].done : m <= k
       /\ handled' = handled \cup {m}
       /\ thread' = [thread EXCEPT ![t].done = @ \cup {m}]
  /\ UNCHANGED <<length, last, pel, ripe, faults>>

\* Mutant: the ids of the whole batch are acked, break or not.
AckWholeBatch(t) ==
  /\ pel' = Without(pel, thread[t].batch)
  /\ ripe' = Without(ripe, thread[t].batch)
  /\ thread' = [thread EXCEPT ![t] = Resting]
  /\ UNCHANGED <<length, last, handled>>

\* XACK of what was handled; the loop returns for more.
AckDone(t) ==
  /\ pel' = Without(pel, thread[t].done)
  /\ ripe' = Without(ripe, thread[t].done)
  /\ thread' = [thread EXCEPT ![t] = Resting]
  /\ UNCHANGED <<length, last, handled>>

AckBatch(t) ==
  /\ thread[t].busy
  /\ thread[t].batch = thread[t].done
  /\ AckDone(t)
  /\ UNCHANGED faults

\* break: the failed entry and those behind it stay pending.
HandleFail(t) ==
  /\ thread[t].busy
  /\ \E m \in thread[t].batch \ thread[t].done :
       /\ \A k \in thread[t].batch \ thread[t].done : m <= k
       /\ IF m \in Poison THEN UNCHANGED faults ELSE Fault
  /\ AckDone(t)

\* XACK fails (its error is discarded), after a break or not: what was
\* handled stays pending.
AckFail(t) ==
  /\ thread[t].busy
  /\ thread[t].done # {}
  /\ thread' = [thread EXCEPT ![t] = Resting]
  /\ Fault
  /\ UNCHANGED <<length, last, pel, ripe, handled>>

\* The worker process dies and is restarted: both loops start over, the
\* stream and the PEL remain.
Crash ==
  /\ \E t \in Thread : thread[t].busy
  /\ thread' = [t \in Thread |-> Resting]
  /\ Fault
  /\ UNCHANGED <<length, last, pel, ripe, handled>>
-----------------------------------------------------------------------------
ThreadStep(t) == HandleOk(t) \/ AckBatch(t) \/ HandleFail(t)

Next ==
  \/ Publish \/ ReadGroup \/ ReadNothing \/ AutoClaim \/ Crash
  \/ \E c \in pel : Ripen(c)
  \/ \E t \in Thread : ThreadStep(t) \/ AckFail(t)

Spec == Init /\ [][Next]_vars

\* Both loops keep running and time passes.
FairSpec ==
  /\ Spec
  /\ WF_vars(ReadGroup)
  /\ WF_vars(AutoClaim)
  /\ \A m \in Msg : WF_vars(\E c \in pel : m \in c /\ Ripen(c))
  /\ \A t \in Thread : WF_vars(ThreadStep(t))
-----------------------------------------------------------------------------
GD == INSTANCE GroupDelivery WITH acked <- (1..last) \ Pending

(***************************************************************************)
(* Nothing leaves the pending list before the handler has succeeded on it, *)
(* however the two loops and their crashes interleave                      *)
(* (streams.go:81-117 and 144-170).                                        *)
(***************************************************************************)
ImplementsDelivery == GD!AbsSafety

\* Entries the group owes its handler.
Due == Pending \cup (last + 1)..length

(***************************************************************************)
(* Every entry published after the group exists is handled in the end,     *)
(* through transient handler errors, lost acks and crashes                 *)
(* (streams.go:81-170).                                                    *)
(***************************************************************************)
EventuallyHandled == \A m \in Msg : (m \in Due) ~> (m \in handled)

(***************************************************************************)
(* "A failed message is not acked; it and the unprocessed messages behind  *)
(* it stay pending and XAutoClaim retries them after 30 s"                 *)
(* (streams.go:109): whatever the handler can handle, it gets in the end.  *)
(***************************************************************************)
FollowersRetried == \A m \in Msg \ Poison : (m \in Due) ~> (m \in handled)
=============================================================================
