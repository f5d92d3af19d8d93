----------------------------- MODULE NoteCacheMC -----------------------------
(***************************************************************************)
(* Small instances of what is cached: NoteCache and Accounts.  A behaviour *)
(* is one of a single module; the state of the other stays as it was.      *)
(*   sequential  NoteCache, one request at a time, nothing fails and no    *)
(*               moderator comes; without the keys no change clears, of    *)
(*               which it says nothing                                     *)
(*   concurrent  NoteCache, two requests and moderators, two changes in    *)
(*               all, a call may fail; of the lists                        *)
(*               only those that are never cleared, and none that only     *)
(*               looks at the row, as interactions do that first           *)
(*   sole        Accounts, one request at a time, a call may fail          *)
(*   crowd       Accounts, two requests about the first user, two changes, *)
(*               or one and a call that fails                              *)
(***************************************************************************)
EXTENDS NoteCache, FiniteSets

CONSTANTS q1, q2,
          Name, MaxAccounts, MaxChanges, MaxMishaps  \* of Accounts

\* A server works on finitely many requests.
ASSUME AccountsAssumption ==
  /\ IsFiniteSet(Request)
  /\ MaxAccounts \in Nat /\ MaxChanges \in Nat /\ MaxMishaps \in Nat

TwoRequests == {q1, q2}
OneName == {"go"}

VARIABLES setup,
          users, copies, serving, crossed, kept, changes, mishaps \* Accounts

usersVars == <<users, copies, serving, crossed, kept, changes, mishaps>>

sequential == setup = "sequential"
concurrent == setup = "concurrent"

Users == INSTANCE Accounts WITH MaxWrites <- MaxChanges, MaxFaults <- MaxMishaps,
           cached <- copies, request <- serving, writes <- changes, faults <- mishaps

MCInit ==
  /\ setup \in {"sequential", "concurrent", "sole", "crowd"}
  /\ Init /\ Users!Init

NoteNext ==
  /\ setup \in {"sequential", "concurrent"}
  /\ Next
  /\ sequential => /\ ~disturbed' /\ faults' = 0 /\ request'[q2] = NoRequest
                   /\ request'[q1].op \notin {"feed", "wide"}
  /\ concurrent => writes' <= 2 /\ \A q \in Request : request'[q].op \notin {"list", "viewed"}

UsersNext ==
  /\ setup \in {"sole", "crowd"}
  /\ Users!Next
  /\ setup = "sole" => serving'[q2] = Users!NoRequest
  /\ setup = "crowd" /\ changes' = 2 => mishaps' = 0
  /\ \A q \in Users!Active' : setup = "crowd" \/ serving'[q].op = "register" => serving'[q].id = 1

MCNext ==
  /\ \/ NoteNext /\ UNCHANGED usersVars
     \/ UsersNext /\ UNCHANGED vars
  /\ UNCHANGED setup

\* Requests end and keys expire, where the liveness property is about it.
MCFairness ==
  /\ \A q \in Request : WF_vars(concurrent /\ Step(q))
  /\ \A k \in Key : WF_vars(concurrent /\ Expire(k))
  /\ \A q \in Request : WF_usersVars(setup = "crowd" /\ Users!Step(q))
  /\ \A i \in Users!Id, k \in Users!Key : WF_usersVars(setup = "crowd" /\ Users!Expire(i, k))

MCSpec == MCInit /\ [][MCNext]_<<vars, setup, usersVars>> /\ MCFairness

(***************************************************************************)
(* Two requests, one of which may fail, and moderators: once a note or a   *)
(* profile has stopped changing, every copy of it is and stays right, and  *)
(* one who is gone has none (note_service.go:59-60, feed_service.go:545,   *)
(* 858, note_handler.go:222, user_service.go:100-117).                     *)
(***************************************************************************)
ConcurrentEventuallyFresh ==
  /\ \A k \in Key : <>[](concurrent => Fresh(k))
  /\ \A i \in Users!Id, k \in Users!Key : <>[](setup = "crowd" => Users!Fresh(i, k))

(***************************************************************************)
(* Registrations of a name at the same time make one account; and whoever  *)
(* changes his profile sees the new one, also when a call fails that is    *)
(* not the DEL of UserKey, until he is looked at while he changes it       *)
(* (user_service.go:60-83, 180-195, user_handler.go:280-290).              *)
(***************************************************************************)
AccountsRight == Users!TypeOK /\ Users!NamesUnique /\ Users!ProfilesFresh
=============================================================================
