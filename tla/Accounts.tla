------------------------------- MODULE Accounts -------------------------------
(***************************************************************************)
(* Users: registration, profiles and their copies in Redis                 *)
(* (internal/service/user_service.go, internal/handler/user_handler.go,    *)
(* batchGetUsers of internal/service/feed_service.go, DeleteUser of        *)
(* internal/service/admin_service.go).                                     *)
(*                                                                         *)
(* A request is a sequence of calls to MySQL and Redis; requests           *)
(* interleave between them and a call may fail.  The keys of a user:       *)
(*   user  UserKey, filled for profiles and for authors in the feed 1 hour *)
(*   raw   UserProfileRawKey, the answer to who opens the profile   1 min  *)
(* A profile is the number of the change that wrote it.  Passwords, roles, *)
(* tokens and the status, which no copy shows, are left out.               *)
(***************************************************************************)
EXTENDS Naturals, FiniteSets, SequencesExt

CONSTANTS Name,
          Request,      \* requests in progress at the same time
          MaxAccounts,  \* bound: rows
          MaxWrites,    \* bound: changes of profiles and deletions
          MaxFaults     \* bound: calls that fail

VARIABLES users,    \* the table; AUTO_INCREMENT makes the id the position
          cached,   \* the keys
          request,  \* requests in progress
          crossed,  \* history: a user was read while a request changed his profile
          kept,     \* history: how often the DEL of a key has failed
          writes, faults

bounds == <<writes, faults>>
vars == <<users, cached, request, crossed, kept, bounds>>

Id == 1..MaxAccounts
Key == {"user", "raw"}
Text == 0..MaxWrites

\* A copy is a set of one profile, or missing.
Missing == {}
Copy == {Missing} \cup {{t} : t \in Text}

Exists(i) == i \in DOMAIN users /\ ~users[i].gone

\* The calls a request makes when it finds its keys missing and none fails.
\* Both the service and the handler drop the answer after a change.
Calls ==
  [register |-> <<"find", "create">>,
   profile  |-> <<"getRaw", "getUser", "setRaw">>,
   authors  |-> <<"getUser">>,
   update   |-> <<"writeRow", "dropUser", "dropRaw", "dropRaw">>,
   remove   |-> <<"select", "delete">>]

Op == DOMAIN Calls
Changes == {"update", "remove"}
Reads == {"profile", "authors"}
Call == (UNION {ToSet(Calls[op]) : op \in Op}) \cup {"loadUser", "setUser"}

NoRequest == [op |-> "none"]
Active == {q \in Request : request[q] # NoRequest}

TypeOK ==
  /\ users \in Seq([name: Name, text: Text, gone: BOOLEAN]) /\ Len(users) <= MaxAccounts
  /\ cached \in [Id -> [Key -> Copy]]
  /\ DOMAIN request = Request
  /\ \A q \in Active : \E todo \in {request[q].todo} :
       /\ request[q] \in [op: Op, todo: {todo}, name: Name, id: Id,
                          got: Copy, to: Text]
       /\ todo \in Seq(Call) /\ todo # <<>>
  /\ writes \in 0..MaxWrites
  /\ faults \in 0..MaxFaults
  /\ kept \in [Key -> 0..MaxFaults] /\ crossed \in BOOLEAN

Init ==
  /\ users = <<>>
  /\ cached = [i \in Id |-> [k \in Key |-> Missing]]
  /\ request = [q \in Request |-> NoRequest]
  /\ crossed = FALSE /\ kept = [k \in Key |-> 0]
  /\ writes = 0 /\ faults = 0
-----------------------------------------------------------------------------
\* A request about user i, or for the name n.
Start(q, op, n, i) ==
  /\ request[q] = NoRequest
  /\ op = "register" => Len(users) + Cardinality({p \in Active : request[p].op = op}) < MaxAccounts
  /\ op = "update" => i \in DOMAIN users   \* the token names an account
  /\ op \in Changes => writes < MaxWrites
  /\ writes' = IF op \in Changes THEN writes + 1 ELSE writes
  /\ request' = [request EXCEPT ![q] = [op |-> op, todo |-> Calls[op], name |-> n, id |-> i,
                                        got |-> Missing, to |-> writes']]
  /\ crossed' = (crossed \/ \E p \in Active :
                               /\ request[p].id = i
                               /\ \/ op = "update" /\ request[p].op \in Reads
                                  \/ op \in Reads /\ request[p].op = "update")
  /\ UNCHANGED <<users, cached, kept, faults>>

At(q, call) == q \in Active /\ Head(request[q].todo) = call

Remaining(q) == Tail(request[q].todo)

GoOn(q, todo) ==
  request' = [request EXCEPT ![q] = IF todo = <<>> THEN NoRequest ELSE [@ EXCEPT !.todo = todo]]

Proceed(q) == GoOn(q, Remaining(q))
Stop(q) == GoOn(q, <<>>)

\* Request q has got a copy.
Learn(q, copy) ==
  request' = [request EXCEPT ![q] = IF Remaining(q) = <<>> THEN NoRequest
                                    ELSE [@ EXCEPT !.todo = Remaining(q), !.got = copy]]

NameTaken(n) == \E i \in DOMAIN users : Exists(i) /\ users[i].name = n
-----------------------------------------------------------------------------
\* FindByUsername: a name that is there is refused.
Find(q) ==
  /\ At(q, "find")
  /\ IF NameTaken(request[q].name) THEN Stop(q) ELSE Proceed(q)
  /\ UNCHANGED <<users, cached, crossed, kept, bounds>>

\* The row goes in, or the unique index on the name stops it.
CreateUser(q) ==
  /\ At(q, "create")
  /\ users' = IF NameTaken(request[q].name) THEN users
              ELSE Append(users, [name |-> request[q].name, text |-> 0, gone |-> FALSE])
  /\ Stop(q)
  /\ UNCHANGED <<cached, crossed, kept, bounds>>
-----------------------------------------------------------------------------
\* The answer in Redis is sent as it is.
GetRaw(q) ==
  /\ At(q, "getRaw")
  /\ IF cached[request[q].id]["raw"] = Missing THEN Proceed(q) ELSE Stop(q)
  /\ UNCHANGED <<users, cached, crossed, kept, bounds>>

\* GetProfile and batchGetUsers look at UserKey first.
GetUser(q) ==
  /\ At(q, "getUser")
  /\ LET found == cached[request[q].id]["user"]
     IN  IF found = Missing THEN GoOn(q, <<"loadUser", "setUser">> \o Remaining(q))
         ELSE Learn(q, found)
  /\ UNCHANGED <<users, cached, crossed, kept, bounds>>

\* A user who is not there is not cached.
LoadUser(q) ==
  /\ At(q, "loadUser")
  /\ LET i == request[q].id
     IN  IF Exists(i) THEN Learn(q, {users[i].text}) ELSE Stop(q)
  /\ UNCHANGED <<users, cached, crossed, kept, bounds>>

SetKey(q) ==
  /\ \E k \in Key :
       /\ At(q, IF k = "user" THEN "setUser" ELSE "setRaw")
       /\ cached' = [cached EXCEPT ![request[q].id][k] = request[q].got]
  /\ Proceed(q)
  /\ UNCHANGED <<users, crossed, kept, bounds>>

\* Updata: a user who is gone is not found, and nothing is dropped then.
WriteRow(q) ==
  /\ At(q, "writeRow")
  /\ LET i == request[q].id
     IN  IF Exists(i) THEN users' = [users EXCEPT ![i].text = request[q].to] /\ Proceed(q)
         ELSE Stop(q) /\ UNCHANGED users
  /\ UNCHANGED <<cached, crossed, kept, bounds>>

\* Mutant: a change drops what the page shows, not the copy it is made from.
DropRawOnly(q) ==
  /\ At(q, "dropUser") \/ At(q, "dropRaw")
  /\ cached' = [cached EXCEPT ![request[q].id]["raw"] = Missing]
  /\ Proceed(q)
  /\ UNCHANGED <<users, crossed, kept, bounds>>

DropKey(q) ==
  /\ \E k \in Key :
       /\ At(q, IF k = "user" THEN "dropUser" ELSE "dropRaw")
       /\ cached' = [cached EXCEPT ![request[q].id][k] = Missing]
  /\ Proceed(q)
  /\ UNCHANGED <<users, crossed, kept, bounds>>

\* DeleteUser reads the user for his role, then deletes him in a transaction;
\* his copies stay.
SelectUser(q) ==
  /\ At(q, "select")
  /\ IF Exists(request[q].id) THEN Proceed(q) ELSE Stop(q)
  /\ UNCHANGED <<users, cached, crossed, kept, bounds>>

DeleteUser(q) ==
  /\ At(q, "delete")
  /\ users' = [users EXCEPT ![request[q].id].gone = TRUE]
  /\ Stop(q)
  /\ UNCHANGED <<cached, crossed, kept, bounds>>
-----------------------------------------------------------------------------
\* A call fails: a key that cannot be read counts as missing, a name that
\* cannot be looked up as free, errors of SET and DEL are dropped, and the
\* others end the request.
Fail(q) ==
  /\ q \in Active
  /\ faults < MaxFaults /\ faults' = faults + 1
  /\ kept' = [k \in Key |-> IF At(q, IF k = "user" THEN "dropUser" ELSE "dropRaw")
                            THEN kept[k] + 1 ELSE kept[k]]
  /\ IF At(q, "getUser") THEN GoOn(q, <<"loadUser", "setUser">> \o Remaining(q))
     ELSE IF \E call \in {"create", "loadUser", "writeRow", "select", "delete"} : At(q, call)
     THEN Stop(q)
     ELSE Proceed(q)
  /\ UNCHANGED <<users, cached, crossed, writes>>

\* Its time to live is over.
Expire(i, k) ==
  /\ cached[i][k] # Missing
  /\ cached' = [cached EXCEPT ![i][k] = Missing]
  /\ UNCHANGED <<users, request, crossed, kept, bounds>>

Step(q) ==
  \/ Find(q) \/ CreateUser(q)
  \/ GetRaw(q) \/ GetUser(q) \/ LoadUser(q) \/ SetKey(q)
  \/ WriteRow(q) \/ DropKey(q)
  \/ SelectUser(q) \/ DeleteUser(q)

Next ==
  \/ \E q \in Request, op \in Op, n \in Name, i \in Id : Start(q, op, n, i)
  \/ \E q \in Request : Step(q) \/ Fail(q)
  \/ \E i \in Id, k \in Key : Expire(i, k)

Spec == Init /\ [][Next]_vars
-----------------------------------------------------------------------------
Fresh(i, k) == cached[i][k] # Missing => Exists(i) /\ cached[i][k] = {users[i].text}

(***************************************************************************)
(* Two registrations of a name at the same time, one of which may not even *)
(* be able to look the name up, make one account (user_service.go:60-83).  *)
(***************************************************************************)
NamesUnique ==
  \A i, j \in DOMAIN users :
    Exists(i) /\ Exists(j) /\ users[i].name = users[j].name => i = j

(***************************************************************************)
(* A user who has changed his profile sees the new one, and so does        *)
(* everybody else, also when calls fail, unless that is the DEL of UserKey *)
(* or the DEL of the other key, which is done twice, fails twice; and      *)
(* until he is looked at while he changes it (user_service.go:180-195,     *)
(* user_handler.go:280-290).                                               *)
(***************************************************************************)
ProfilesFresh ==
  Active = {} /\ ~crossed /\ kept["user"] = 0 /\ kept["raw"] <= 1 =>
    \A i \in Id, k \in Key : Exists(i) => Fresh(i, k)
=============================================================================
