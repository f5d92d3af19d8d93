--------------------------- MODULE BatchConsumer ---------------------------
(***************************************************************************)
(* One consumer group driven by Consumer.RunBatch                          *)
(* (internal/queue/streams.go:197-242), as the notify and counter groups   *)
(* are: the handler gets a whole batch and either all of it is acked or    *)
(* nothing.  There is no recover loop, and a restarted worker reads under  *)
(* a new consumer name (host and pid), so what is left pending stays so.   *)
(***************************************************************************)
EXTENDS Naturals

CONSTANTS MaxMsg,      \* bound: entries published in a run
          BatchSize,   \* event.consumer.batch_size
          MaxFaults    \* bound: handler errors, lost acks and crashes

Msg == 1..MaxMsg

VARIABLES length,    \* entries on the stream
          last,      \* last-delivered id of the group
          pending,   \* pending entries list
          batch,     \* entries of the call in progress
          done,      \* the handler returned nil on the batch
          handled,   \* entries of calls of the handler that returned nil
          faults     \* faults so far

vars == <<length, last, pending, batch, done, handled, faults>>

TypeOK ==
  /\ length \in 0..MaxMsg
  /\ last \in 0..length
  /\ pending \in SUBSET (1..last)
  /\ batch \in SUBSET (1..last)
  /\ done \in BOOLEAN
  /\ handled \in SUBSET (1..last)
  /\ faults \in 0..MaxFaults

Init ==
  /\ length \in 0..MaxMsg
  /\ last = length
  /\ pending = {}
  /\ batch = {}
  /\ done = FALSE
  /\ handled = {}
  /\ faults = 0

Fault == faults < MaxFaults /\ faults' = faults + 1

Publish ==
  /\ length < MaxMsg
  /\ length' = length + 1
  /\ UNCHANGED <<last, pending, batch, done, handled, faults>>

\* XREADGROUP ">" delivers up to BatchSize new entries.
ReadGroup ==
  /\ batch = {}
  /\ last < length
  /\ LET n == IF length - last < BatchSize THEN length - last ELSE BatchSize
     IN  /\ last' = last + n
         /\ batch' = (last + 1)..(last + n)
         /\ pending' = pending \cup (last + 1)..(last + n)
  /\ UNCHANGED <<length, done, handled, faults>>

\* The blocking read times out.
ReadNothing ==
  /\ batch = {}
  /\ last = length
  /\ UNCHANGED vars

HandleOk ==
  /\ batch # {}
  /\ ~done
  /\ done' = TRUE
  /\ handled' = handled \cup batch
  /\ UNCHANGED <<length, last, pending, batch, faults>>

\* Mutant: the batch is not forgotten, the loop never reads again.
AckWithoutReset ==
  /\ done
  /\ pending' = pending \ batch
  /\ UNCHANGED <<length, last, batch, done, handled, faults>>

AckBatch ==
  /\ done
  /\ pending' = pending \ batch
  /\ batch' = {}
  /\ done' = FALSE
  /\ UNCHANGED <<length, last, handled, faults>>

\* The loop goes on with the next batch.
Abandon ==
  /\ batch' = {}
  /\ done' = FALSE
  /\ Fault
  /\ UNCHANGED <<length, last, pending, handled>>

\* Mutant: no continue, the failed batch is acked.
HandleFailAcks ==
  /\ batch # {}
  /\ ~done
  /\ pending' = pending \ batch
  /\ batch' = {}
  /\ Fault
  /\ UNCHANGED <<length, last, done, handled>>

\* continue: the whole batch stays pending.
HandleFail == batch # {} /\ ~done /\ Abandon

\* The error of XACK is discarded.
AckFail == done /\ Abandon

\* The worker dies and is restarted.
Crash == batch # {} /\ Abandon

LoopStep == ReadGroup \/ HandleOk \/ AckBatch

Next == Publish \/ LoopStep \/ ReadNothing \/ HandleFail \/ AckFail \/ Crash

Spec == Init /\ [][Next]_vars

FairSpec == Spec /\ WF_vars(LoopStep)
-----------------------------------------------------------------------------
GD == INSTANCE GroupDelivery WITH acked <- (1..last) \ pending

(***************************************************************************)
(* Nothing leaves the pending list before a call of the handler that       *)
(* covers it has returned nil (streams.go:197-242).                        *)
(***************************************************************************)
ImplementsDelivery == GD!AbsSafety

\* Entries the group owes its handler.
Due == pending \cup (last + 1)..length

(***************************************************************************)
(* As long as the handler, Redis and the process do not fail, every entry  *)
(* published after the group exists is handled in the end                  *)
(* (streams.go:197-242).                                                   *)
(***************************************************************************)
EventuallyHandled ==
  \A m \in Msg : (m \in Due) ~> (m \in handled \/ faults > 0)

(***************************************************************************)
(* "Whole batch failed: not acked, stays pending and is retried"           *)
(* (streams.go:234): with finitely many failures every entry is handled in *)
(* the end.                                                                *)
(***************************************************************************)
PendingRetried == \A m \in Msg : (m \in Due) ~> (m \in handled)
=============================================================================
