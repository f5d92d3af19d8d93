--------------------------- MODULE GroupDelivery ---------------------------
(***************************************************************************)
(* What a Redis consumer group gives its handler (README.md:38): entries   *)
(* are delivered in stream order, a delivered entry is handed to the       *)
(* handler any number of times, and it is acknowledged only after the      *)
(* handler has succeeded on it.  Entries are their positions.              *)
(***************************************************************************)
EXTENDS Naturals

VARIABLES length,    \* entries on the stream
          last,      \* last entry delivered to the group
          handled,   \* entries some call of the handler succeeded on
          acked      \* entries the group will not deliver again

absvars == <<length, last, handled, acked>>

\* The group starts at the end of the stream ("$").
AbsInit ==
  /\ length \in Nat
  /\ last = length
  /\ handled = {}
  /\ acked = 1..length

Publish ==
  /\ length' = length + 1
  /\ UNCHANGED <<last, handled, acked>>

Read ==
  /\ last < last' /\ last' <= length
  /\ UNCHANGED <<length, handled, acked>>

\* One call of the handler: on one entry, or on a batch.
Handle ==
  /\ handled \subseteq handled'
  /\ handled' \subseteq handled \cup 1..last
  /\ UNCHANGED <<length, last, acked>>

Ack ==
  /\ acked \subseteq acked'
  /\ acked' \subseteq acked \cup handled
  /\ UNCHANGED <<length, last, handled>>

AbsNext == Publish \/ Read \/ Handle \/ Ack

AbsSafety == AbsInit /\ [][AbsNext]_absvars
=============================================================================
