------------------------------ MODULE StatsFlush ------------------------------
(***************************************************************************)
(* Impressions and reads of notes: counted in Redis by the requests and    *)
(* moved to note_stats by one flusher (internal/service/stats_service.go,  *)
(* AddCounters of internal/repo/stats_repo.go).                            *)
(*                                                                         *)
(* The flusher takes the two kinds of counter in turn.  For each it lists  *)
(* the keys, then reads every key and adds what it read to the row, and    *)
(* when it is through deletes the keys it listed.  What is counted in a    *)
(* key after it was read and before it is deleted is deleted with it.      *)
(* Every error but that of SCAN is dropped.  Only the worker runs it       *)
(* (cmd/worker/main.go:71-74).  The sets of read notes are left out:       *)
(* nothing calls MarkRead or LoadReadSet.                                  *)
(***************************************************************************)
EXTENDS Naturals, FiniteSets

CONSTANTS Note,
          Fault,       \* faults that may happen once: a subset of AnyFault
          MaxRequests, \* bound: requests that count something
          MaxFaults    \* bound: faults of one behaviour

VARIABLES redis,    \* stats:imp:<n> and stats:read:<n>; 0 is no key
          stats,    \* note_stats
          step,     \* what the flusher does next
          kind,     \* the prefix it is at
          keys,     \* the keys it has listed
          todo,     \* how often each is still to be read
          current,  \* the key it has read and not yet added, if there is one
          val,      \* and what it read there
          recorded, \* history: what the requests have counted
          lost,     \* history: of that, what came between GET and DEL
          requests, \* how many requests there have been
          faults    \* the faults there have been

counts == <<redis, stats>>
flusher == <<step, kind, keys, todo, current, val>>
history == <<recorded, lost, requests>>
vars == <<counts, flusher, history, faults>>

Metric == {"imp", "read"}
Counter == Metric \X Note
Of(k) == {c \in Counter : c[1] = k}

\* scan: SCAN fails; again: SCAN returns a key twice, as Redis allows;
\* get, add, delete: the call fails; crash: the worker dies during a flush.
AnyFault == {"scan", "again", "get", "add", "delete", "crash"}

TypeOK ==
  /\ redis \in [Counter -> Nat] /\ stats \in [Counter -> Nat]
  /\ step \in {"idle", "scan", "get", "add"}
  /\ kind \in Metric /\ keys \subseteq Of(kind)
  /\ todo \in [Counter -> 0..2] /\ \A c \in Counter \ keys : todo[c] = 0
  /\ current \subseteq Counter /\ val \in Nat
  /\ recorded \in [Counter -> Nat] /\ lost \in [Counter -> Nat]
  /\ requests \in Nat /\ faults \subseteq AnyFault

Init ==
  /\ redis = [c \in Counter |-> 0] /\ stats = [c \in Counter |-> 0]
  /\ step = "idle" /\ kind = "imp" /\ keys = {}
  /\ todo = [c \in Counter |-> 0]
  /\ current = {} /\ val = 0
  /\ recorded = [c \in Counter |-> 0] /\ lost = [c \in Counter |-> 0]
  /\ requests = 0 /\ faults = {}
-----------------------------------------------------------------------------
\* The keys that have been read for the last time and are still there.
Taken == {c \in keys : todo[c] = 0}

\* One INCRBY per key in a MULTI; the error is dropped, nothing is counted
\* then.
IncrMany(S) ==
  /\ requests < MaxRequests /\ requests' = requests + 1
  /\ redis' = [c \in Counter |-> IF c \in S THEN redis[c] + 1 ELSE redis[c]]
  /\ recorded' = [c \in Counter |-> IF c \in S THEN recorded[c] + 1 ELSE recorded[c]]
  /\ lost' = [c \in Counter |-> IF c \in S \cap Taken THEN lost[c] + 1 ELSE lost[c]]
  /\ UNCHANGED <<stats, flusher, faults>>

\* A page of the feed was made for a reader.
RecordImpressions == \E S \in SUBSET Of("imp") : S # {} /\ IncrMany(S)

\* A note was opened.
RecordRead == \E c \in Of("read") : IncrMany({c})
-----------------------------------------------------------------------------
FaultHappens(f) ==
  /\ f \in Fault \ faults /\ Cardinality(faults) < MaxFaults
  /\ faults' = faults \cup {f}

\* The ticker fires; the interval is a minute.
StartFlusher ==
  /\ step = "idle" /\ step' = "scan" /\ kind' = "imp"
  /\ UNCHANGED <<counts, keys, todo, current, val, history, faults>>

\* The flusher is done with the prefix: on to the other, or until next time.
NextPrefix ==
  /\ keys' = {} /\ todo' = [c \in Counter |-> 0]
  /\ IF kind = "imp" THEN step' = "scan" /\ kind' = "read"
                     ELSE step' = "idle" /\ UNCHANGED kind

\* twice: keys that SCAN returns a second time.
ScanKeys(twice) ==
  /\ step = "scan"
  /\ LET found == {c \in Of(kind) : redis[c] > 0}
     IN  /\ twice \subseteq found
         /\ IF found = {} THEN NextPrefix
            ELSE /\ keys' = found /\ step' = "get" /\ UNCHANGED kind
                 /\ todo' = [c \in Counter |-> IF c \in twice THEN 2
                                               ELSE IF c \in found THEN 1 ELSE 0]
  /\ IF twice = {} THEN UNCHANGED faults ELSE FaultHappens("again")
  /\ UNCHANGED <<counts, current, val, history>>

\* Flush returns the error of SCAN, StartFlusher drops it.
ScanFail ==
  /\ step = "scan" /\ step' = "idle"
  /\ FaultHappens("scan")
  /\ UNCHANGED <<counts, kind, keys, todo, current, val, history>>

GetKey(c) ==
  /\ step = "get" /\ todo[c] > 0
  /\ todo' = [todo EXCEPT ![c] = @ - 1]
  /\ current' = {c} /\ val' = redis[c] /\ step' = "add"
  /\ UNCHANGED <<counts, kind, keys, history, faults>>

\* A key that cannot be read is skipped, and deleted with the others.
GetFail(c) ==
  /\ step = "get" /\ todo[c] > 0
  /\ todo' = [todo EXCEPT ![c] = @ - 1]
  /\ FaultHappens("get")
  /\ UNCHANGED <<counts, step, kind, keys, current, val, history>>

\* INSERT ... ON DUPLICATE KEY UPDATE
AddCounters ==
  /\ step = "add" /\ step' = "get" /\ current' = {} /\ val' = 0
  /\ stats' = [c \in Counter |-> IF c \in current THEN stats[c] + val ELSE stats[c]]
  /\ UNCHANGED <<redis, kind, keys, todo, history, faults>>

AddFail ==
  /\ step = "add" /\ step' = "get" /\ current' = {} /\ val' = 0
  /\ FaultHappens("add")
  /\ UNCHANGED <<counts, kind, keys, todo, history>>

\* Mutant: the keys are never deleted.
KeepKeys ==
  /\ step = "get" /\ \A c \in keys : todo[c] = 0
  /\ NextPrefix
  /\ UNCHANGED <<counts, current, val, history, faults>>

DeleteKeys ==
  /\ step = "get" /\ \A c \in keys : todo[c] = 0
  /\ redis' = [c \in Counter |-> IF c \in keys THEN 0 ELSE redis[c]]
  /\ NextPrefix
  /\ UNCHANGED <<stats, current, val, history, faults>>

\* The error is dropped: the next flush adds the same counts again.
DeleteFail ==
  /\ step = "get" /\ \A c \in keys : todo[c] = 0
  /\ FaultHappens("delete")
  /\ NextPrefix
  /\ UNCHANGED <<counts, current, val, history>>

Crash ==
  /\ step # "idle" /\ step' = "idle"
  /\ keys' = {} /\ todo' = [c \in Counter |-> 0] /\ current' = {} /\ val' = 0
  /\ FaultHappens("crash")
  /\ UNCHANGED <<counts, kind, history>>
-----------------------------------------------------------------------------
Flush ==
  \/ \E twice \in SUBSET Counter : ScanKeys(twice)
  \/ ScanFail
  \/ \E c \in Counter : GetKey(c) \/ GetFail(c)
  \/ AddCounters \/ AddFail
  \/ DeleteKeys \/ DeleteFail

Next == RecordImpressions \/ RecordRead \/ StartFlusher \/ Flush \/ Crash

Spec == Init /\ [][Next]_vars
-----------------------------------------------------------------------------
\* What is counted in Redis and not yet in the table.
Waiting(c) ==
  IF c \notin Taken THEN redis[c]
  ELSE IF c \in current THEN val ELSE 0

(***************************************************************************)
(* A flush loses what came between its GET and its DEL of the key, and     *)
(* nothing else: everything else that was counted is in the table or waits *)
(* in Redis (stats_service.go:82-118), while no call but SCAN fails.       *)
(***************************************************************************)
OnlyLateLost ==
  faults \subseteq {"scan"} =>
    \A c \in Counter : recorded[c] = stats[c] + Waiting(c) + lost[c]

(***************************************************************************)
(* The dropped errors of GET and of the UPDATE lose counts too, but count  *)
(* nothing twice (stats_service.go:92-111).                                *)
(***************************************************************************)
NeverMore ==
  faults \subseteq {"scan", "get", "add"} =>
    \A c \in Counter : stats[c] + Waiting(c) + lost[c] <= recorded[c]

(***************************************************************************)
(* Counts are doubled by a key that SCAN lists twice, by the dropped error *)
(* of DEL, after which the next flush adds the key again, and by a worker  *)
(* that dies between the two (stats_service.go:88-115).  Each such fault   *)
(* adds what the requests have counted once more at most, whatever else    *)
(* fails and comes between.                                                *)
(***************************************************************************)
Repeated(f, c) == IF f \in faults THEN recorded[c] ELSE 0

RepeatsBounded ==
  \A c \in Counter :
    stats[c] <= recorded[c] + Repeated("again", c) + Repeated("delete", c) + Repeated("crash", c)

Accounted == OnlyLateLost /\ NeverMore /\ RepeatsBounded
=============================================================================
