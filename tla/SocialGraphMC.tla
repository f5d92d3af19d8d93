---------------------------- MODULE SocialGraphMC ----------------------------
(***************************************************************************)
(* Small instances of what users do about each other: SocialGraph and      *)
(* Reports.  A behaviour is one of a single module; the state of the other *)
(* stays as it was.                                                        *)
(*   readers     SocialGraph: one that writes beside one that interacts    *)
(*   lookups     one that writes beside one that asks MySQL whom a user    *)
(*               follows, of which two calls fail; comments in between     *)
(*   all         two that write at once, or one beside one that interacts, *)
(*               and a call may fail, or a user is deleted; where nothing  *)
(*               is promised any more, two writes, or one and a failing    *)
(*               call.  The first to write is q1: requests are alike       *)
(*   cases       Reports: anything beside anything                         *)
(* The third user is in lookups only: he is on one side of what is written *)
(* there, and whom he follows is what is asked for.  The other two are     *)
(* alike; the reporter is none of them.                                    *)
(***************************************************************************)
EXTENDS SocialGraph, FiniteSets, TLC

CONSTANTS u1, u2, u3, q1, q2, l1,
          Reporter, Target, MaxDaily, MaxFilings, MaxWork  \* of Reports

ASSUME ReportsAssumption ==
  /\ Target \subseteq {"note", "comment", "user", "message"}
  /\ MaxDaily \in Nat /\ MaxFilings \in Nat \ {0} /\ MaxWork \in Nat

ThreeUsers == {u1, u2, u3}
TwoRequests == {q1, q2}
OneLookup == {l1}

Alike == Permutations({u1, u2})

VARIABLES setup,
          target, reports, today, handling, protected, disposed, crossed,
          work, failed \* Reports

caseVars == <<target, reports, today, handling, protected, disposed, crossed, work, failed>>

OneReporter == {"reporter"}
TwoTargets == {"comment", "user"}

Case == INSTANCE Reports WITH request <- handling, faults <- failed

MCInit ==
  /\ setup \in {"readers", "lookups", "all", "cases"}
  /\ Init /\ Case!Init
  /\ protected => setup = "cases"

GraphNext ==
  /\ setup # "cases"
  /\ Next
  /\ LET active == {q \in Request : request'[q] # NoRequest}
         writing == {q \in active : request'[q].op \notin Reads}
     IN  /\ \A q \in active : u3 \in ToSet(request'[q].pair) <=> setup = "lookups"
         /\ (active \ writing) \subseteq {q2}
         /\ setup # "all" => writing \subseteq {q1}
         /\ setup = "all" /\ q2 \in active /\ request[q2] = NoRequest =>
              request'[q2].op = "interact" \/ (q2 \in writing /\ q1 \in active)
         /\ setup # "lookups" => lookup' = lookup
         /\ setup # "all" => ~disturbed'
         /\ setup = "readers" => faults' = 0
         /\ setup = "lookups" =>
              /\ writes' <= 3
              /\ lookup'[l1] # NoLookup => lookup'[l1].of = u3
              /\ active # writing =>
                   request'[q2].op = "comment" /\ writing = {} /\ lookup'[l1] = NoLookup
         /\ setup = "all" => /\ writes' <= 2 /\ faults' <= 1
                             /\ disturbed' => writes' + faults' <= 2

CaseNext ==
  /\ setup = "cases"
  /\ Case!Next
  /\ failed' <= 1

MCNext ==
  /\ \/ GraphNext /\ UNCHANGED caseVars
     \/ CaseNext /\ UNCHANGED vars
  /\ UNCHANGED setup

MCSpec == MCInit /\ [][MCNext]_<<vars, setup, caseVars>>

(***************************************************************************)
(* Until two requests handle one report at a time or one reporter files    *)
(* two, a decision is about the report as filed last, an approved one has  *)
(* been acted on, whatever fails, and nobody files more than he may; and,  *)
(* whatever overlaps, a user of the moderators' own rank is touched by an  *)
(* approved report only (report_service.go:69-153,                         *)
(* admin_service.go:54-78).                                                *)
(***************************************************************************)
ReportsRight ==
  Case!TypeOK /\ Case!DecidedOnCurrent /\ Case!QuotaKept /\ Case!RankRespected
=============================================================================
