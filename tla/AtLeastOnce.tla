---------------------------- MODULE AtLeastOnce ----------------------------
(***************************************************************************)
(* What the transactional outbox promises (README.md:36-37 of the          *)
(* repository): an event whose business transaction committed is put on    *)
(* the stream at least once, nothing else ever is, and the outbox forgets  *)
(* an event (status 1) only when it is on the stream.  How often an event  *)
(* is delivered and in which order is left open.                           *)
(***************************************************************************)
EXTENDS Naturals, Sequences, Functions

CONSTANT Event

VARIABLES committed,   \* events whose transaction committed
          log,         \* the stream, oldest entry first
          retired      \* events the outbox will not publish again

absvars == <<committed, log, retired>>

\* Events on the stream.
Delivered == Range(log)

AbsInit ==
  /\ committed = {}
  /\ log = <<>>
  /\ retired = {}

CommitEvent(e) ==
  /\ e \in Event \ committed
  /\ committed' = committed \cup {e}
  /\ UNCHANGED <<log, retired>>

Deliver(e) ==
  /\ e \in committed
  /\ log' = Append(log, e)
  /\ UNCHANGED <<committed, retired>>

Retire(S) ==
  /\ S \subseteq committed
  /\ S \subseteq Delivered
  /\ retired' = retired \cup S
  /\ UNCHANGED <<committed, log>>

AbsNext ==
  \/ \E e \in Event : CommitEvent(e) \/ Deliver(e)
  \/ \E S \in SUBSET Event : Retire(S)

AbsSafety == AbsInit /\ [][AbsNext]_absvars

(***************************************************************************)
(* Every event whose transaction committed reaches the stream in the end,  *)
(* whatever the relays and their failures do in between                    *)
(* (internal/outbox/outbox.go:93-145, README.md:36).                       *)
(***************************************************************************)
EventuallyDelivered == \A e \in Event : (e \in committed) ~> (e \in Delivered)

AbsSpec == AbsSafety /\ EventuallyDelivered
=============================================================================
