---------------------------- MODULE FeedEngineMC ----------------------------
(***************************************************************************)
(* Small instances of FeedEngine.  A behaviour belongs to one of four      *)
(* setups, which differ in what runs beside the read loop of the group:    *)
(*   alone    nothing; one failure or restart                              *)
(*   recover  the recover loop; one failure or restart                     *)
(*   side     flusher and API; nothing fails                               *)
(*   all      everything but the recover loop, with a single note          *)
(***************************************************************************)
EXTENDS FeedEngine

CONSTANTS n1, n2

TwoNotes == {n1, n2}

VARIABLE setup

Alone == [loops |-> {}, notes |-> TwoNotes, msgs |-> 3, faults |-> 1,
          matchless |-> FALSE]
Recover == [loops |-> {"recover"}, notes |-> TwoNotes, msgs |-> 2, faults |-> 1,
            matchless |-> FALSE]
Side == [loops |-> {"flusher", "api"}, notes |-> TwoNotes, msgs |-> 2, faults |-> 0,
         matchless |-> FALSE]
All == [loops |-> Loop \ {"recover"}, notes |-> {n1}, msgs |-> 1, faults |-> 1,
        matchless |-> TRUE]

MCInit ==
  /\ Init
  /\ setup \in {Alone, Recover, Side, All}
  /\ \A n \in Note \ setup.notes : note[n] = "none"

MCNext ==
  /\ Next
  /\ \A n \in Note \ setup.notes : note'[n] = "none"
  /\ \A a \in Loop \ setup.loops : work'[a] = Rest
  /\ ~setup.matchless => \A n \in Note : ~DeleteMatchless(n)
  /\ length' <= setup.msgs
  /\ faults' <= setup.faults
  /\ "recover" \notin setup.loops => ripe' = {} /\ ~thread'["recover"].busy
  /\ UNCHANGED setup

\* Fairness as in FeedEngine, for the setup the liveness property is about.
MCFairness ==
  /\ WF_vars(setup = Recover /\ ReadStep)
  /\ WF_vars(setup = Recover /\ RecoverStep)
  /\ \A m \in 1..MaxMsg : WF_vars(setup = Recover /\ RipenStep(m))
  /\ \A t \in Thread : WF_vars(setup = Recover /\ ThreadStep(t))

MCSpec == MCInit /\ [][MCNext]_<<vars, setup>> /\ MCFairness

(***************************************************************************)
(* Through a failure or a restart a new note gets into the ZSET, unless it *)
(* is deleted before or an event of a deleted note is in the way           *)
(* (feedHandler, main.go:136-150, on Consumer.Run).                        *)
(***************************************************************************)
RecoverAppears ==
  \A n \in Note :
    (setup = Recover /\ Announced(n)) ~> (n \in zset \/ note[n] = "deleted" \/ Blocked)
=============================================================================
