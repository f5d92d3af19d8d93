----------------------------- MODULE SocialGraph -----------------------------
(***************************************************************************)
(* Follows and blocks: the rows in MySQL, the sets Redis keeps of them,    *)
(* and the requests that change or consult them                            *)
(* (internal/service/user_service.go, block_service.go, checkBlocked of    *)
(* note_service.go).                                                       *)
(*                                                                         *)
(* A request is a sequence of calls to MySQL and Redis; each call is a     *)
(* step, requests interleave between them.  follow:following:<u> is what   *)
(* Isfollow and the following feed answer from (a missing set is an empty  *)
(* one to SMEMBERS and SISMEMBER).  Only when Redis does not answer is     *)
(* MySQL asked; the ids it gives are then put into the set, which from     *)
(* there on expires after 30 minutes.                                      *)
(* block:blocked:<u> never expires; block:blockedflag:<u>, which says that *)
(* the set may be used, does after 30 minutes.  Clearing feed pages and    *)
(* the outbox events of a follow are left out.                             *)
(***************************************************************************)
EXTENDS Naturals, SequencesExt

CONSTANTS User,
          Request,   \* API requests in progress at the same time
          Lookup,    \* requests that ask MySQL whom a user follows
          MaxWrites, \* bound: requests that write
          MaxFaults  \* bound: calls that fail

ASSUME SocialGraphAssumption == MaxWrites \in Nat /\ MaxFaults \in Nat

VARIABLES follows,   \* rows of follows: <<user_id, follow_id>>
          blocks,    \* rows of blocks: <<user_id, blocked_id>>
          following, \* follow:following:<user>
          blocked,   \* block:blocked:<user>
          flag,      \* users with a block:blockedflag:<user>
          expiring,  \* sets of following that have a time to live
          endless,   \* history: those a look-up filled and could not give one
          lapsed,    \* history: pairs gone with a set that expired
          lookup,    \* look-ups in progress
          request,   \* requests in progress
          writes, faults,
          ever,      \* history: pairs that have been blocked
          disturbed  \* history: two requests wrote on one pair of users at the
                     \* same time, a call of one that writes failed, or a
                     \* moderator deleted a user

rows == <<follows, blocks, ever>>
sets == <<following, blocked, flag>>
ages == <<expiring, endless, lapsed>>
fills == <<ages, lookup>>
bounds == <<writes, faults, disturbed>>
vars == <<rows, sets, fills, request, bounds>>

\* Mutant: a user may follow and block himself.
AnyPair == User \X User

Pair == {p \in User \X User : p[1] # p[2]}

Back(p) == <<p[2], p[1]>>

\* The calls a request makes when none fails and no check stops it.
Calls ==
  [follow   |-> <<"checkEitherWay", "insertFollow", "saddFollowing">>,
   unfollow |-> <<"deleteFollow", "sremFollowing">>,
   block    |-> <<"checkBlocked", "insertBlock", "deleteFollow", "deleteFollowBack",
                  "sremFollowing", "sremFollowingBack", "saddBlocked", "setFlag">>,
   unblock  |-> <<"deleteBlock", "sremBlocked", "setFlag">>,
   interact |-> <<"exists", "contains", "exists", "contains", "allowed">>,
   comment  |-> <<"allowed">>]

Op == DOMAIN Calls

\* Those that write neither follows nor blocks: a like or a favourite asks for
\* a block first, a comment (all of them are CreateReply) does not.
Reads == {"interact", "comment"}

ReadThrough == <<"readBlocked", "saddRead", "setReadFlag">>

Call == (UNION {ToSet(Calls[op]) : op \in Op}) \cup ToSet(ReadThrough)
          \cup {"smembers", "refused"}

NoRequest == [op |-> "none"]
NoLookup == [next |-> "none"]

\* of: whose blocked set it consults, ids: what it has read of it.  must
\* (history): a block was in force when it came and was not lifted since.
RequestState == [op: Op, pair: Pair, todo: Seq(Call) \ {<<>>}, of: User,
                 ids: SUBSET User, must: BOOLEAN]

\* A look-up of whom user of follows: its next call, and the ids it asks for
\* or has read.
LookupState == [next: {"exists", "read", "sadd", "expire"}, of: User, ids: SUBSET User]

Active == {q \in Request : request[q] # NoRequest}

TypeOK ==
  /\ follows \subseteq Pair /\ blocks \subseteq ever /\ ever \subseteq Pair
  /\ \A p \in follows \cup ever : p[1] # p[2]
  /\ following \in [User -> SUBSET User]
  /\ blocked \in [User -> SUBSET User]
  /\ flag \subseteq User
  /\ expiring \subseteq User /\ endless \subseteq User /\ lapsed \subseteq User \X User
  /\ lookup \in [Lookup -> {NoLookup} \cup LookupState]
  /\ request \in [Request -> {NoRequest} \cup RequestState]
  /\ writes \in 0..MaxWrites /\ faults \in 0..MaxFaults
  /\ disturbed \in BOOLEAN

Init ==
  /\ follows = {} /\ blocks = {} /\ ever = {}
  /\ following = [u \in User |-> {}]
  /\ blocked = [u \in User |-> {}]
  /\ flag = {}
  /\ expiring = {} /\ endless = {} /\ lapsed = {}
  /\ lookup = [l \in Lookup |-> NoLookup]
  /\ request = [q \in Request |-> NoRequest]
  /\ writes = 0 /\ faults = 0 /\ disturbed = FALSE
-----------------------------------------------------------------------------
Writing(p) ==
  \E q \in Active : request[q].op \notin Reads /\ request[q].pair \in {p, Back(p)}

\* A block of the pair is in force and no request on the pair is under way.
InForce(p) == {p, Back(p)} \cap blocks # {} /\ ~Writing(p)

\* A request arrives.
Start(q, op, p) ==
  /\ request[q] = NoRequest
  /\ op \notin Reads => writes < MaxWrites
  /\ writes' = IF op \in Reads THEN writes ELSE writes + 1
  /\ disturbed' = (disturbed \/ (op \notin Reads /\ Writing(p)))
  /\ LET new == [op |-> op, pair |-> p, todo |-> Calls[op], of |-> p[1], ids |-> {},
                 must |-> InForce(p)]
         lifted(r) == op = "unblock" /\ r # NoRequest /\ r.pair \in {p, Back(p)}
     IN  request' = [r \in Request |->
                       CASE r = q -> new
                         [] r # q /\ lifted(request[r]) -> [request[r] EXCEPT !.must = FALSE]
                         [] OTHER -> request[r]]
  /\ UNCHANGED <<rows, sets, fills, faults>>

At(q, call) == q \in Active /\ Head(request[q].todo) = call

\* Request q goes on with the calls todo, or is over.
GoOn(q, todo) ==
  request' = [request EXCEPT ![q] = IF todo = <<>> THEN NoRequest ELSE [@ EXCEPT !.todo = todo]]

Proceed(q) == GoOn(q, Tail(request[q].todo))

Stop(q) == GoOn(q, <<>>)

\* IsBlockedEitherWay in Follow, IsBlocked in Block.
Check(q) ==
  LET p == request[q].pair
  IN  /\ \/ /\ At(q, "checkEitherWay")
            /\ IF {p, Back(p)} \cap blocks # {} THEN Stop(q) ELSE Proceed(q)
         \/ /\ At(q, "checkBlocked")
            /\ IF p \in blocks THEN Stop(q) ELSE Proceed(q)
      /\ UNCHANGED <<rows, sets, fills, bounds>>

\* A follow that exists already leaves the cache alone.
InsertFollow(q) ==
  /\ At(q, "insertFollow")
  /\ follows' = follows \cup {request[q].pair}
  /\ IF request[q].pair \in follows THEN Stop(q) ELSE Proceed(q)
  /\ UNCHANGED <<blocks, ever, sets, fills, bounds>>

DeleteFollow(q, back) ==
  /\ At(q, IF back THEN "deleteFollowBack" ELSE "deleteFollow")
  /\ follows' = follows \ {IF back THEN Back(request[q].pair) ELSE request[q].pair}
  /\ Proceed(q)
  /\ UNCHANGED <<blocks, ever, sets, fills, bounds>>

InsertBlock(q) ==
  /\ At(q, "insertBlock")
  /\ blocks' = blocks \cup {request[q].pair}
  /\ ever' = ever \cup {request[q].pair}
  /\ Proceed(q)
  /\ UNCHANGED <<follows, sets, fills, bounds>>

DeleteBlock(q) ==
  /\ At(q, "deleteBlock")
  /\ blocks' = blocks \ {request[q].pair}
  /\ Proceed(q)
  /\ UNCHANGED <<follows, ever, sets, fills, bounds>>

SAddFollowing(q) ==
  /\ At(q, "saddFollowing")
  /\ LET p == request[q].pair
     IN  /\ following' = [following EXCEPT ![p[1]] = @ \cup {p[2]}]
         /\ lapsed' = lapsed \ {p}
  /\ Proceed(q)
  /\ UNCHANGED <<rows, blocked, flag, expiring, endless, lookup, bounds>>

\* A set that becomes empty is gone, and its time to live with it.
StillThere(U) == {u \in U : following'[u] # {}}

SRemFollowing(q, back) ==
  /\ At(q, IF back THEN "sremFollowingBack" ELSE "sremFollowing")
  /\ LET p == IF back THEN Back(request[q].pair) ELSE request[q].pair
     IN  following' = [following EXCEPT ![p[1]] = @ \ {p[2]}]
  /\ expiring' = StillThere(expiring) /\ endless' = StillThere(endless)
  /\ Proceed(q)
  /\ UNCHANGED <<rows, blocked, flag, lapsed, lookup, bounds>>

\* Mutant: the cached blocked set is left to be read again, which it is not
\* while its flag is there.
KeepBlocked(q) ==
  /\ At(q, "saddBlocked") \/ At(q, "sremBlocked")
  /\ Proceed(q)
  /\ UNCHANGED <<rows, sets, fills, bounds>>

ChangeBlocked(q) ==
  /\ LET p == request[q].pair
     IN  \/ At(q, "saddBlocked") /\ blocked' = [blocked EXCEPT ![p[1]] = @ \cup {p[2]}]
         \/ At(q, "sremBlocked") /\ blocked' = [blocked EXCEPT ![p[1]] = @ \ {p[2]}]
  /\ Proceed(q)
  /\ UNCHANGED <<rows, following, flag, fills, bounds>>

\* Block and Unblock say that the set may be used, whatever it holds.
SetFlag(q) ==
  /\ At(q, "setFlag")
  /\ flag' = flag \cup {request[q].pair[1]}
  /\ Proceed(q)
  /\ UNCHANGED <<rows, following, blocked, fills, bounds>>
-----------------------------------------------------------------------------
(***************************************************************************)
(* checkBlocked: GetBlockedIDs of the actor, then of the author.           *)
(***************************************************************************)
Remaining(q) == Tail(request[q].todo)

ExistsFlag(q) ==
  /\ At(q, "exists")
  /\ GoOn(q, (IF request[q].of \in flag THEN <<"smembers">> ELSE ReadThrough) \o Remaining(q))
  /\ UNCHANGED <<rows, sets, fills, bounds>>

\* Request q has read the blocked ids S.
Learn(q, S) ==
  request' = [request EXCEPT ![q].ids = S, ![q].todo = Remaining(q)]

SMembers(q) ==
  /\ At(q, "smembers")
  /\ Learn(q, blocked[request[q].of])
  /\ UNCHANGED <<rows, sets, fills, bounds>>

\* The query has no WHERE: the blocked ids of every user.
ReadBlockedIDs(q) ==
  /\ At(q, "readBlocked")
  /\ Learn(q, {p[2] : p \in blocks})
  /\ UNCHANGED <<rows, sets, fills, bounds>>

SAddRead(q) ==
  /\ At(q, "saddRead")
  /\ blocked' = [blocked EXCEPT ![request[q].of] = @ \cup request[q].ids]
  /\ Proceed(q)
  /\ UNCHANGED <<rows, following, flag, fills, bounds>>

SetReadFlag(q) ==
  /\ At(q, "setReadFlag")
  /\ flag' = flag \cup {request[q].of}
  /\ Proceed(q)
  /\ UNCHANGED <<rows, following, blocked, fills, bounds>>

ContainsID(q) ==
  /\ At(q, "contains")
  /\ LET r == request[q]
         other == IF r.of = r.pair[1] THEN r.pair[2] ELSE r.pair[1]
     IN  request' = [request EXCEPT ![q].todo = IF other \in r.ids THEN <<"refused">>
                                                                   ELSE Tail(r.todo),
                                    ![q].of = other,
                                    ![q].ids = {}]
  /\ UNCHANGED <<rows, sets, fills, bounds>>

Answer(q) ==
  /\ At(q, "allowed") \/ At(q, "refused")
  /\ Stop(q)
  /\ UNCHANGED <<rows, sets, fills, bounds>>
-----------------------------------------------------------------------------
\* Calls whose error ends the request.  Of the others the error is dropped.
EndsRequest(q) ==
  \/ Head(request[q].todo) \in {"insertFollow", "insertBlock", "deleteBlock", "readBlocked"}
  \/ At(q, "deleteFollow") /\ request[q].op = "unfollow"

\* A call fails.  A failed check counts as passed; without Redis the blocked
\* ids come from MySQL.
Fail(q) ==
  /\ faults < MaxFaults /\ faults' = faults + 1
  /\ q \in Active
  /\ Head(request[q].todo) \notin {"contains", "allowed", "refused"}
  /\ IF EndsRequest(q) THEN Stop(q)
     ELSE IF At(q, "exists") \/ At(q, "smembers") THEN GoOn(q, ReadThrough \o Remaining(q))
     ELSE Proceed(q)
  /\ disturbed' = (disturbed \/ request[q].op \notin Reads)
  /\ UNCHANGED <<rows, sets, fills, writes>>

\* 30 minutes.
ExpireFlag(u) ==
  /\ u \in flag
  /\ flag' = flag \ {u}
  /\ UNCHANGED <<rows, following, blocked, fills, request, bounds>>
-----------------------------------------------------------------------------
(***************************************************************************)
(* Isfollow and getFollowingIDs.  One that Redis answers changes nothing;  *)
(* one that it does not asks MySQL, and may put what it reads into a set   *)
(* others have changed meanwhile.                                          *)
(***************************************************************************)
Asking(l, call) == lookup[l] # NoLookup /\ lookup[l].next = call

Later(l, call, S) == lookup' = [lookup EXCEPT ![l].next = call, ![l].ids = S]
Over(l) == lookup' = [lookup EXCEPT ![l] = NoLookup]

FollowedBy(u) == {i \in User : <<u, i>> \in follows}

\* SISMEMBER of Isfollow (one) or SMEMBERS of getFollowingIDs fails.
Unanswered(l, p, one) ==
  /\ lookup[l] = NoLookup
  /\ faults < MaxFaults /\ faults' = faults + 1
  /\ lookup' = [lookup EXCEPT ![l] = [next |-> IF one THEN "exists" ELSE "read",
                                      of |-> p[1], ids |-> {p[2]}]]
  /\ UNCHANGED <<rows, sets, ages, request, writes, disturbed>>

\* Isfollow reads the other rows only if it finds the one it asks for.
ExistsFollow(l) ==
  /\ Asking(l, "exists")
  /\ LET r == lookup[l]
     IN  IF r.ids \cap FollowedBy(r.of) = {} THEN Over(l) ELSE Later(l, "read", {})
  /\ UNCHANGED <<rows, sets, ages, request, bounds>>

ReadFollows(l) ==
  /\ Asking(l, "read")
  /\ LET S == FollowedBy(lookup[l].of)
     IN  IF S = {} THEN Over(l) ELSE Later(l, "sadd", S)
  /\ UNCHANGED <<rows, sets, ages, request, bounds>>

\* Mutant: what was read takes the place of the set.
ReplaceFollows(l) ==
  /\ Asking(l, "sadd")
  /\ following' = [following EXCEPT ![lookup[l].of] = lookup[l].ids]
  /\ Later(l, "expire", {})
  /\ UNCHANGED <<rows, blocked, flag, ages, request, bounds>>

SAddFollows(l) ==
  /\ Asking(l, "sadd")
  /\ LET r == lookup[l]
     IN  /\ following' = [following EXCEPT ![r.of] = @ \cup r.ids]
         /\ lapsed' = lapsed \ ({r.of} \X r.ids)
  /\ Later(l, "expire", {})
  /\ UNCHANGED <<rows, blocked, flag, expiring, endless, request, bounds>>

\* EXPIRE of a set that is gone does nothing.
SetExpiry(l) ==
  /\ Asking(l, "expire")
  /\ LET u == lookup[l].of
     IN  /\ expiring' = IF following[u] = {} THEN expiring ELSE expiring \cup {u}
         /\ endless' = endless \ {u}
  /\ Over(l)
  /\ UNCHANGED <<rows, sets, lapsed, request, bounds>>

\* The error of a query ends the look-up, that of SADD or EXPIRE is dropped.
FailLookup(l) ==
  /\ faults < MaxFaults /\ faults' = faults + 1
  /\ \/ /\ Asking(l, "exists") \/ Asking(l, "read")
        /\ Over(l)
        /\ UNCHANGED ages
     \/ /\ Asking(l, "sadd")
        /\ Later(l, "expire", {})
        /\ UNCHANGED ages
     \/ /\ Asking(l, "expire")
        /\ LET u == lookup[l].of
           IN  endless' = IF following[u] = {} THEN endless ELSE endless \cup {u}
        /\ Over(l)
        /\ UNCHANGED <<expiring, lapsed>>
  /\ UNCHANGED <<rows, sets, request, writes, disturbed>>

\* A moderator deletes user u and the rows that name him; the sets stay.
DeleteUser(u) ==
  /\ writes < MaxWrites /\ writes' = writes + 1
  /\ follows' = {p \in follows : u \notin {p[1], p[2]}}
  /\ blocks' = {p \in blocks : u \notin {p[1], p[2]}}
  /\ disturbed' = TRUE
  /\ UNCHANGED <<ever, sets, fills, request, faults>>

\* 30 minutes.
ExpireFollowing(u) ==
  /\ u \in expiring
  /\ following' = [following EXCEPT ![u] = {}]
  /\ expiring' = expiring \ {u} /\ endless' = endless \ {u}
  /\ lapsed' = lapsed \cup ({u} \X following[u])
  /\ UNCHANGED <<rows, blocked, flag, lookup, request, bounds>>
-----------------------------------------------------------------------------
Step(q) ==
  \/ Check(q)
  \/ InsertFollow(q) \/ \E back \in BOOLEAN : DeleteFollow(q, back) \/ SRemFollowing(q, back)
  \/ InsertBlock(q) \/ DeleteBlock(q)
  \/ SAddFollowing(q) \/ ChangeBlocked(q) \/ SetFlag(q)
  \/ ExistsFlag(q) \/ SMembers(q) \/ ReadBlockedIDs(q) \/ SAddRead(q) \/ SetReadFlag(q)
  \/ ContainsID(q) \/ Answer(q)

LookupStep(l) == ExistsFollow(l) \/ ReadFollows(l) \/ SAddFollows(l) \/ SetExpiry(l)

Next ==
  \/ \E q \in Request, op \in Op, p \in Pair : Start(q, op, p)
  \/ \E q \in Request : Step(q) \/ Fail(q)
  \/ \E u \in User : ExpireFlag(u) \/ ExpireFollowing(u) \/ DeleteUser(u)
  \/ \E l \in Lookup, p \in Pair, one \in BOOLEAN : Unanswered(l, p, one)
  \/ \E l \in Lookup : LookupStep(l) \/ FailLookup(l)

Spec == Init /\ [][Next]_vars
-----------------------------------------------------------------------------
\* The set of u was filled by a look-up: it expires, or its EXPIRE is still to
\* come or has failed.
Filled(u) ==
  \/ u \in expiring \cup endless
  \/ \E l \in Lookup : Asking(l, "expire") /\ lookup[l].of = u

Agrees(p) ==
  /\ p \in follows => p[2] \in following[p[1]] \/ p \in lapsed
  /\ p[2] \in following[p[1]] => p \in follows \/ Filled(p[1])

(***************************************************************************)
(* The cached following set of a user against the user's rows, but for     *)
(* those somebody is writing: Isfollow and the following feed answer from  *)
(* it alone as long as Redis answers (user_service.go:159-179,             *)
(* feed_service.go:464-483).  One who is followed is in the set unless he  *)
(* was in one that expired and has not been put back since; one who is     *)
(* not followed is in it only if a look-up without Redis has filled the    *)
(* set, with what it read before he was unfollowed.                        *)
(***************************************************************************)
FollowingAgrees == \A p \in Pair : ~Writing(p) => Agrees(p)

(***************************************************************************)
(* "Blocking ends the follows in both directions" (docs/api-summary.md:    *)
(* 254, block_service.go:34): nobody follows across a block, unless        *)
(* somebody is writing on the two.                                         *)
(***************************************************************************)
NoFollowAcrossBlock ==
  \A p \in blocks : ~Writing(p) => {p, Back(p)} \cap follows = {}

\* Both, as long as the requests that write on two users come one after the
\* other, no call of them fails and no user has been deleted, whose sets stay;
\* calls of look-ups may fail.
FollowsRight == ~disturbed => FollowingAgrees /\ NoFollowAcrossBlock

(***************************************************************************)
(* A like or a favourite, which asks for a block first (checkBlocked,      *)
(* note_service.go:448-468) after Block has returned is refused, unless    *)
(* the block is lifted meanwhile: the cached set never lacks a block in    *)
(* force, whatever readers are in the middle of filling it and whichever   *)
(* of their calls fail, as long as the requests that write on the two      *)
(* users come one after the other, none of their calls fails and nobody    *)
(* has been deleted.  Nothing of the kind holds of a comment, which does   *)
(* not ask.                                                                *)
(***************************************************************************)
BlockEnforced ==
  ~disturbed =>
    \A q \in Request : At(q, "allowed") /\ request[q].op = "interact" => ~request[q].must

(***************************************************************************)
(* Blocking is between two users (docs/api-summary.md:254): an interaction *)
(* is refused only if one of the two has blocked the other at some time.   *)
(***************************************************************************)
OnlyBlockedRefused ==
  \A q \in Request : At(q, "refused") => {request[q].pair, Back(request[q].pair)} \cap ever # {}
=============================================================================
