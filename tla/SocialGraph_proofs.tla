------------------------- MODULE SocialGraph_proofs -------------------------
(***************************************************************************)
(* Proofs about follows and blocks, for every set of users, and about      *)
(* reports, for any reporters and targets; for any number of requests in   *)
(* progress, of writes and of failing calls.                               *)
(***************************************************************************)
EXTENDS SocialGraphMC, FiniteSetTheorems, TLAPS

(***************************************************************************)
(* The calls a request may have left.                                      *)
(***************************************************************************)
F1 == <<"checkEitherWay", "insertFollow", "saddFollowing">>
F2 == <<"insertFollow", "saddFollowing">>
F3 == <<"saddFollowing">>

U1 == <<"deleteFollow", "sremFollowing">>
U2 == <<"sremFollowing">>

B1 == <<"checkBlocked", "insertBlock", "deleteFollow", "deleteFollowBack", "sremFollowing",
        "sremFollowingBack", "saddBlocked", "setFlag">>
B2 == <<"insertBlock", "deleteFollow", "deleteFollowBack", "sremFollowing", "sremFollowingBack",
        "saddBlocked", "setFlag">>
B3 == <<"deleteFollow", "deleteFollowBack", "sremFollowing", "sremFollowingBack", "saddBlocked",
        "setFlag">>
B4 == <<"deleteFollowBack", "sremFollowing", "sremFollowingBack", "saddBlocked", "setFlag">>
B5 == <<"sremFollowing", "sremFollowingBack", "saddBlocked", "setFlag">>
B6 == <<"sremFollowingBack", "saddBlocked", "setFlag">>
B7 == <<"saddBlocked", "setFlag">>
B8 == <<"setFlag">>

N1 == <<"deleteBlock", "sremBlocked", "setFlag">>
N2 == <<"sremBlocked", "setFlag">>
N3 == <<"setFlag">>

\* An interaction looks at the set of the actor, then at that of the author.
E1 == <<"exists", "contains", "exists", "contains", "allowed">>
C1 == <<"contains", "exists", "contains", "allowed">>
E2 == <<"exists", "contains", "allowed">>
C2 == <<"contains", "allowed">>
A == <<"allowed">>
X == <<"refused">>

\* It reads the set from Redis or from MySQL, before k.
Cached(k) == <<"smembers">> \o k
Read1(k) == ReadThrough \o k
Read2(k) == <<"saddRead", "setReadFlag">> \o k
Read3(k) == <<"setReadFlag">> \o k

BeforeC1 == {E1, Cached(C1), Read1(C1)}
BeforeC2 == {E2, Cached(C2), Read1(C2)}
AtC1 == {Read2(C1), Read3(C1), C1}
AtC2 == {Read2(C2), Read3(C2), C2}

\* The calls t are the rest of what operation op does.
Left(op, t) ==
  \/ op = "follow" /\ t \in {F1, F2, F3}
  \/ op = "unfollow" /\ t \in {U1, U2}
  \/ op = "block" /\ t \in {B1, B2, B3, B4, B5, B6, B7, B8}
  \/ op = "unblock" /\ t \in {N1, N2, N3}
  \/ op = "interact" /\ t \in BeforeC1 \cup AtC1 \cup BeforeC2 \cup AtC2 \cup {A, X}
  \/ op = "comment" /\ t = A
-----------------------------------------------------------------------------
LEMMA OpIs ==
  /\ Op = {"follow", "unfollow", "block", "unblock", "interact", "comment"}
  /\ Reads = {"interact", "comment"}
  BY DEF Op, Calls, Reads

LEMMA CallHas ==
  {"checkEitherWay", "insertFollow", "saddFollowing", "deleteFollow", "sremFollowing",
   "checkBlocked", "insertBlock", "deleteFollowBack", "sremFollowingBack", "saddBlocked",
   "setFlag", "deleteBlock", "sremBlocked", "exists", "contains", "allowed", "refused",
   "smembers", "readBlocked", "saddRead", "setReadFlag"} \subseteq Call
  <1>1. \A op \in Op : ToSet(Calls[op]) \subseteq Call
    BY DEF Call
  <1>2. /\ ToSet(Calls["follow"]) = {"checkEitherWay", "insertFollow", "saddFollowing"}
        /\ ToSet(Calls["unfollow"]) = {"deleteFollow", "sremFollowing"}
    BY DEF Calls, ToSet
  <1>3. ToSet(Calls["block"]) =
          {"checkBlocked", "insertBlock", "deleteFollow", "deleteFollowBack", "sremFollowing",
           "sremFollowingBack", "saddBlocked", "setFlag"}
    BY DEF Calls, ToSet
  <1>4. /\ ToSet(Calls["unblock"]) = {"deleteBlock", "sremBlocked", "setFlag"}
        /\ ToSet(Calls["interact"]) = {"exists", "contains", "allowed"}
    BY DEF Calls, ToSet
  <1>5. ToSet(ReadThrough) = {"readBlocked", "saddRead", "setReadFlag"}
    BY DEF ReadThrough, ToSet
  <1>6. ASSUME NEW c \in {"smembers", "refused"} \cup ToSet(ReadThrough) PROVE c \in Call
    <2> DEFINE ofOps == UNION {ToSet(Calls[op]) : op \in Op}
    <2>1. Call = ofOps \cup ToSet(ReadThrough) \cup {"smembers", "refused"}
      BY DEF Call
    <2> HIDE DEF ofOps
    <2> QED BY <2>1
  <1> QED BY <1>1, <1>2, <1>3, <1>4, <1>5, <1>6, OpIs

LEMMA FollowTodo ==
  /\ Calls["follow"] = F1
  /\ Head(F1) = "checkEitherWay" /\ Tail(F1) = F2
  /\ Head(F2) = "insertFollow" /\ Tail(F2) = F3
  /\ Head(F3) = "saddFollowing" /\ Tail(F3) = <<>>
  /\ F1 # <<>> /\ F2 # <<>> /\ F3 # <<>>
  BY DEF Calls, F1, F2, F3

LEMMA UnfollowTodo ==
  /\ Calls["unfollow"] = U1
  /\ Head(U1) = "deleteFollow" /\ Tail(U1) = U2
  /\ Head(U2) = "sremFollowing" /\ Tail(U2) = <<>>
  /\ U1 # <<>> /\ U2 # <<>>
  BY DEF Calls, U1, U2

LEMMA BlockTodo ==
  /\ Calls["block"] = B1
  /\ Head(B1) = "checkBlocked" /\ Tail(B1) = B2
  /\ Head(B2) = "insertBlock" /\ Tail(B2) = B3
  /\ Head(B3) = "deleteFollow" /\ Tail(B3) = B4
  /\ Head(B4) = "deleteFollowBack" /\ Tail(B4) = B5
  /\ Head(B5) = "sremFollowing" /\ Tail(B5) = B6
  /\ Head(B6) = "sremFollowingBack" /\ Tail(B6) = B7
  /\ Head(B7) = "saddBlocked" /\ Tail(B7) = B8
  /\ Head(B8) = "setFlag" /\ Tail(B8) = <<>>
  /\ B1 # <<>> /\ B2 # <<>> /\ B3 # <<>> /\ B4 # <<>>
  /\ B5 # <<>> /\ B6 # <<>> /\ B7 # <<>> /\ B8 # <<>>
  BY DEF Calls, B1, B2, B3, B4, B5, B6, B7, B8

LEMMA UnblockTodo ==
  /\ Calls["unblock"] = N1
  /\ Head(N1) = "deleteBlock" /\ Tail(N1) = N2
  /\ Head(N2) = "sremBlocked" /\ Tail(N2) = N3
  /\ Head(N3) = "setFlag" /\ Tail(N3) = <<>>
  /\ N1 # <<>> /\ N2 # <<>> /\ N3 # <<>>
  BY DEF Calls, N1, N2, N3

LEMMA InteractTodo ==
  /\ Calls["interact"] = E1 /\ Calls["comment"] = A
  /\ Head(E1) = "exists" /\ Tail(E1) = C1
  /\ Head(C1) = "contains" /\ Tail(C1) = E2
  /\ Head(E2) = "exists" /\ Tail(E2) = C2
  /\ Head(C2) = "contains" /\ Tail(C2) = A
  /\ Head(A) = "allowed" /\ Tail(A) = <<>>
  /\ Head(X) = "refused" /\ Tail(X) = <<>>
  /\ E1 # <<>> /\ C1 # <<>> /\ E2 # <<>> /\ C2 # <<>> /\ A # <<>> /\ X # <<>>
  BY DEF Calls, E1, C1, E2, C2, A, X

\* In front of a sequence.
LEMMA InFront ==
  ASSUME NEW S, NEW s \in Seq(S), NEW a \in S, NEW b \in S, NEW c \in S
  PROVE  /\ <<a>> \o s \in Seq(S) /\ <<a>> \o s # <<>>
         /\ Head(<<a>> \o s) = a /\ Tail(<<a>> \o s) = s
         /\ <<a, b>> \o s \in Seq(S) /\ <<a, b>> \o s # <<>>
         /\ Head(<<a, b>> \o s) = a /\ Tail(<<a, b>> \o s) = <<b>> \o s
         /\ <<a, b, c>> \o s \in Seq(S) /\ <<a, b, c>> \o s # <<>>
         /\ Head(<<a, b, c>> \o s) = a /\ Tail(<<a, b, c>> \o s) = <<b, c>> \o s
  <1>1. <<a>> \o s \in Seq(S) /\ <<a, b>> \o s \in Seq(S) /\ <<a, b, c>> \o s \in Seq(S)
    OBVIOUS
  <1>2. <<a>> \o s # <<>> /\ <<a, b>> \o s # <<>> /\ <<a, b, c>> \o s # <<>>
    OBVIOUS
  <1>3. Head(<<a>> \o s) = a /\ Head(<<a, b>> \o s) = a /\ Head(<<a, b, c>> \o s) = a
    OBVIOUS
  <1>4. Tail(<<a>> \o s) = s
    OBVIOUS
  <1>5. Tail(<<a, b>> \o s) = <<b>> \o s
    OBVIOUS
  <1>6. Tail(<<a, b, c>> \o s) = <<b, c>> \o s
    OBVIOUS
  <1> QED BY <1>1, <1>2, <1>3, <1>4, <1>5, <1>6

LEMMA CallsTyped ==
  /\ \A t \in {F1, F2, F3, U1, U2, N1, N2, N3, E1, C1, E2, C2, A, X} : t \in Seq(Call)
  /\ \A t \in {B1, B2, B3, B4, B5, B6, B7, B8} : t \in Seq(Call)
  <1>1. F1 \in Seq(Call) /\ F2 \in Seq(Call) /\ F3 \in Seq(Call)
    BY CallHas DEF F1, F2, F3
  <1>2. U1 \in Seq(Call) /\ U2 \in Seq(Call)
    BY CallHas DEF U1, U2
  <1>3. N1 \in Seq(Call) /\ N2 \in Seq(Call) /\ N3 \in Seq(Call)
    BY CallHas DEF N1, N2, N3
  <1>4. E1 \in Seq(Call) /\ C1 \in Seq(Call) /\ E2 \in Seq(Call) /\ C2 \in Seq(Call)
    BY CallHas DEF E1, C1, E2, C2
  <1>5. A \in Seq(Call) /\ X \in Seq(Call)
    BY CallHas DEF A, X
  <1>6. B1 \in Seq(Call) /\ B2 \in Seq(Call) /\ B3 \in Seq(Call) /\ B4 \in Seq(Call)
    BY CallHas DEF B1, B2, B3, B4
  <1>7. B5 \in Seq(Call) /\ B6 \in Seq(Call) /\ B7 \in Seq(Call) /\ B8 \in Seq(Call)
    BY CallHas DEF B5, B6, B7, B8
  <1> QED BY <1>1, <1>2, <1>3, <1>4, <1>5, <1>6, <1>7

LEMMA ReadTodo ==
  ASSUME NEW k \in {C1, C2}
  PROVE  /\ Cached(k) \in Seq(Call) /\ Cached(k) # <<>>
         /\ Head(Cached(k)) = "smembers" /\ Tail(Cached(k)) = k
         /\ Read1(k) \in Seq(Call) /\ Read1(k) # <<>>
         /\ Head(Read1(k)) = "readBlocked" /\ Tail(Read1(k)) = Read2(k)
         /\ Read2(k) \in Seq(Call) /\ Read2(k) # <<>>
         /\ Head(Read2(k)) = "saddRead" /\ Tail(Read2(k)) = Read3(k)
         /\ Read3(k) \in Seq(Call) /\ Read3(k) # <<>>
         /\ Head(Read3(k)) = "setReadFlag" /\ Tail(Read3(k)) = k
  <1>1. k \in Seq(Call)
    BY CallsTyped
  <1>2. /\ "smembers" \in Call /\ "readBlocked" \in Call
        /\ "saddRead" \in Call /\ "setReadFlag" \in Call
    BY CallHas
  <1>3. ReadThrough = <<"readBlocked", "saddRead", "setReadFlag">>
    BY DEF ReadThrough
  <1> QED BY <1>1, <1>2, <1>3, InFront DEF Cached, Read1, Read2, Read3
-----------------------------------------------------------------------------
(***************************************************************************)
(* Types, and where requests are.                                          *)
(***************************************************************************)
UpTo == {r \in RequestState : Left(r.op, r.todo)}

Typed == TypeOK /\ request \in [Request -> {NoRequest} \cup UpTo]

LEMMA NotARequest == NoRequest \notin RequestState
  <1>1. "none" \notin Op
    BY OpIs
  <1> QED BY <1>1 DEF NoRequest, RequestState

\* The calls a request has left after the first of them.
LEMMA TailLeft ==
  ASSUME NEW r \in UpTo, Tail(r.todo) # <<>>
  PROVE  Tail(r.todo) \in Seq(Call) \ {<<>>} /\ Left(r.op, Tail(r.todo))
  <1>1. r.todo \in Seq(Call) \ {<<>>} /\ Left(r.op, r.todo)
    BY DEF UpTo, RequestState
  <1>2. Tail(r.todo) \in Seq(Call)
    BY <1>1
  <1>3. CASE r.op = "follow"
    <2>1. r.todo \in {F1, F2, F3}
      BY <1>1, <1>3 DEF Left
    <2>2. Tail(r.todo) \in {F2, F3}
      BY <2>1, FollowTodo
    <2> QED BY <1>2, <1>3, <2>2 DEF Left
  <1>4. CASE r.op = "unfollow"
    <2>1. r.todo \in {U1, U2}
      BY <1>1, <1>4 DEF Left
    <2>2. Tail(r.todo) = U2
      BY <2>1, UnfollowTodo
    <2> QED BY <1>2, <1>4, <2>2 DEF Left
  <1>5. CASE r.op = "block"
    <2>1. r.todo \in {B1, B2, B3, B4, B5, B6, B7, B8}
      BY <1>1, <1>5 DEF Left
    <2>2. Tail(r.todo) \in {B2, B3, B4, B5, B6, B7, B8}
      BY <2>1, BlockTodo
    <2> QED BY <1>2, <1>5, <2>2 DEF Left
  <1>6. CASE r.op = "unblock"
    <2>1. r.todo \in {N1, N2, N3}
      BY <1>1, <1>6 DEF Left
    <2>2. Tail(r.todo) \in {N2, N3}
      BY <2>1, UnblockTodo
    <2> QED BY <1>2, <1>6, <2>2 DEF Left
  <1>7. CASE r.op = "interact"
    <2>1. r.todo \in BeforeC1 \cup AtC1 \cup BeforeC2 \cup AtC2 \cup {A, X}
      BY <1>1, <1>7 DEF Left
    <2>2. Tail(r.todo) \in {C1, E2, C2, A} \cup AtC1 \cup AtC2
      <3>1. CASE r.todo \in {E1, C1, E2, C2, A, X}
        BY <3>1, InteractTodo
      <3>2. CASE \E k \in {C1, C2} : r.todo \in {Cached(k), Read1(k), Read2(k), Read3(k)}
        <4> PICK k \in {C1, C2} : r.todo \in {Cached(k), Read1(k), Read2(k), Read3(k)}
          BY <3>2
        <4>1. Tail(r.todo) \in {k, Read2(k), Read3(k)}
          BY ReadTodo
        <4> QED BY <4>1 DEF AtC1, AtC2
      <3> QED BY <2>1, <3>1, <3>2 DEF BeforeC1, AtC1, BeforeC2, AtC2
    <2> QED BY <1>2, <1>7, <2>2 DEF Left, BeforeC2, AtC1, AtC2
  <1>8. CASE r.op = "comment"
    BY <1>1, <1>8, InteractTodo DEF Left
  <1> QED BY <1>1, <1>3, <1>4, <1>5, <1>6, <1>7, <1>8, OpIs DEF Left

\* The next call of a request says what it is and how far it has come.
LEMMA Where ==
  ASSUME NEW r \in UpTo
  PROVE  /\ Head(r.todo) = "checkEitherWay" => r.todo = F1
         /\ Head(r.todo) = "insertFollow" => r.todo = F2
         /\ Head(r.todo) = "saddFollowing" => r.todo = F3
         /\ Head(r.todo) = "deleteFollow" =>
              \/ r.op = "unfollow" /\ r.todo = U1
              \/ r.op = "block" /\ r.todo = B3
         /\ Head(r.todo) = "sremFollowing" =>
              \/ r.op = "unfollow" /\ r.todo = U2
              \/ r.op = "block" /\ r.todo = B5
         /\ Head(r.todo) = "checkBlocked" => r.todo = B1
         /\ Head(r.todo) = "insertBlock" => r.todo = B2 /\ r.op = "block"
         /\ Head(r.todo) = "deleteFollowBack" => r.todo = B4 /\ r.op = "block"
         /\ Head(r.todo) = "sremFollowingBack" => r.todo = B6 /\ r.op = "block"
         /\ Head(r.todo) = "saddBlocked" => r.todo = B7 /\ r.op = "block"
         /\ Head(r.todo) = "deleteBlock" => r.todo = N1 /\ r.op = "unblock"
         /\ Head(r.todo) = "sremBlocked" => r.todo = N2 /\ r.op = "unblock"
         /\ Head(r.todo) = "setFlag" => r.todo \in {B8, N3}
         /\ r.op \in Reads
              <=> Head(r.todo) \in {"exists", "contains", "allowed", "refused", "smembers",
                                    "readBlocked", "saddRead", "setReadFlag"}
         /\ r.op \in Reads /\ Head(r.todo) # "allowed" => r.op = "interact"
         /\ Head(r.todo) = "exists" => r.todo \in {E1, E2}
         /\ Head(r.todo) = "contains" => r.todo \in {C1, C2}
         /\ Head(r.todo) = "allowed" => r.todo = A
         /\ Head(r.todo) = "refused" => r.todo = X
         /\ Head(r.todo) = "smembers" => r.todo \in {Cached(C1), Cached(C2)}
         /\ Head(r.todo) = "readBlocked" => r.todo \in {Read1(C1), Read1(C2)}
         /\ Head(r.todo) = "saddRead" => r.todo \in {Read2(C1), Read2(C2)}
         /\ Head(r.todo) = "setReadFlag" => r.todo \in {Read3(C1), Read3(C2)}
  <1>1. Left(r.op, r.todo)
    BY DEF UpTo
  <1>2. CASE r.op = "follow"
    <2>1. r.todo \in {F1, F2, F3}
      BY <1>1, <1>2 DEF Left
    <2> QED BY <1>2, <2>1, FollowTodo, OpIs
  <1>3. CASE r.op = "unfollow"
    <2>1. r.todo \in {U1, U2}
      BY <1>1, <1>3 DEF Left
    <2> QED BY <1>3, <2>1, UnfollowTodo, OpIs
  <1>4. CASE r.op = "block"
    <2>1. r.todo \in {B1, B2, B3, B4, B5, B6, B7, B8}
      BY <1>1, <1>4 DEF Left
    <2> QED BY <1>4, <2>1, BlockTodo, OpIs
  <1>5. CASE r.op = "unblock"
    <2>1. r.todo \in {N1, N2, N3}
      BY <1>1, <1>5 DEF Left
    <2> QED BY <1>5, <2>1, UnblockTodo, OpIs
  <1>6. CASE r.op = "interact"
    <2>1. r.todo \in BeforeC1 \cup AtC1 \cup BeforeC2 \cup AtC2 \cup {A, X}
      BY <1>1, <1>6 DEF Left
    <2>2. CASE r.todo \in {E1, C1, E2, C2, A, X}
      BY <1>6, <2>2, InteractTodo, OpIs
    <2>3. CASE \E k \in {C1, C2} : r.todo \in {Cached(k), Read1(k), Read2(k), Read3(k)}
      <3> PICK k \in {C1, C2} : r.todo \in {Cached(k), Read1(k), Read2(k), Read3(k)}
        BY <2>3
      <3> QED BY <1>6, ReadTodo, OpIs
    <2> QED BY <2>1, <2>2, <2>3 DEF BeforeC1, AtC1, BeforeC2, AtC2
  <1>7. CASE r.op = "comment"
    BY <1>1, <1>7, InteractTodo, OpIs DEF Left
  <1> QED BY <1>1, <1>2, <1>3, <1>4, <1>5, <1>6, <1>7 DEF Left

\* What a step of q that is no arrival makes of its request r: it is over, or
\* it goes on with other calls.
Becomes(q, r, w) ==
  /\ request' = [request EXCEPT ![q] = w]
  /\ w \in {NoRequest} \cup UpTo
  /\ w # NoRequest => w.op = r.op /\ w.pair = r.pair /\ w.must = r.must

MayGoOn(r, t) == t # <<>> => t \in Seq(Call) /\ Left(r.op, t)

WentOn(q, r, t) ==
  \E w : /\ Becomes(q, r, w)
         /\ t = <<>> <=> w = NoRequest
         /\ t # <<>> => w.todo = t /\ w.of = r.of /\ w.ids = r.ids

LEMMA GoesOn ==
  ASSUME Typed, NEW q \in Active, NEW r \in UpTo, r = request[q], NEW t, GoOn(q, t),
         MayGoOn(r, t)
  PROVE  WentOn(q, r, t)
  <1>1. CASE t = <<>>
    BY <1>1 DEF Typed, GoOn, Becomes, WentOn
  <1>2. CASE t # <<>>
    <2> PICK w : w = [r EXCEPT !.todo = t]
      OBVIOUS
    <2>1. t \in Seq(Call) \ {<<>>} /\ Left(r.op, t)
      BY <1>2 DEF MayGoOn
    <2>2. /\ w \in RequestState
          /\ w.op = r.op /\ w.pair = r.pair /\ w.must = r.must
          /\ w.todo = t /\ w.of = r.of /\ w.ids = r.ids
      BY <2>1 DEF UpTo, RequestState
    <2>3. w \in UpTo
      BY <2>1, <2>2 DEF UpTo
    <2>4. request' = [request EXCEPT ![q] = w]
      BY <1>2 DEF GoOn, Active, Typed
    <2>5. w # NoRequest
      BY <2>2, NotARequest
    <2> QED BY <1>2, <2>2, <2>3, <2>4, <2>5 DEF Becomes, WentOn
  <1> QED BY <1>1, <1>2

LEMMA Proceeds ==
  ASSUME Typed, NEW q \in Active, NEW r \in UpTo, r = request[q], Proceed(q)
  PROVE  \E w : /\ Becomes(q, r, w)
                /\ Tail(r.todo) = <<>> <=> w = NoRequest
                /\ w # NoRequest => w.todo = Tail(r.todo) /\ w.of = r.of /\ w.ids = r.ids
  <1> PICK t : t = Tail(r.todo)
    OBVIOUS
  <1>1. GoOn(q, t)
    BY DEF Proceed
  <1>2. MayGoOn(r, t)
    BY TailLeft DEF MayGoOn
  <1>3. WentOn(q, r, t)
    BY <1>1, <1>2, GoesOn
  <1> QED BY <1>3 DEF WentOn

LEMMA Stops ==
  ASSUME Typed, NEW q \in Active, NEW r \in UpTo, r = request[q], Stop(q)
  PROVE  Becomes(q, r, NoRequest)
  BY DEF Stop, GoOn, Becomes, Typed

LEMMA ActiveUpTo ==
  ASSUME Typed, NEW q \in Active
  PROVE  q \in Request /\ request[q] \in UpTo
  BY DEF Typed, Active

\* A request looks into Redis, or reads MySQL instead, before it goes on with k.
LEMMA Looks ==
  ASSUME Typed, NEW q \in Active, NEW r \in UpTo, r = request[q],
         NEW k \in {C1, C2}, Tail(r.todo) = k,
         Head(r.todo) \in {"exists", "smembers"},
         \/ GoOn(q, <<"smembers">> \o Remaining(q))
         \/ GoOn(q, ReadThrough \o Remaining(q))
  PROVE  \E w : /\ Becomes(q, r, w) /\ w # NoRequest
                /\ w.todo \in {Cached(k), Read1(k)}
                /\ w.of = r.of /\ w.ids = r.ids
  <1>1. r.op = "interact"
    BY Where
  <1> PICK t : t \in {Cached(k), Read1(k)} /\ GoOn(q, t)
    BY DEF Remaining, Cached, Read1
  <1>2. t # <<>> /\ t \in Seq(Call)
    BY ReadTodo
  <1>3. MayGoOn(r, t)
    BY <1>1, <1>2 DEF MayGoOn, Left, BeforeC1, BeforeC2
  <1>4. WentOn(q, r, t)
    BY <1>3, GoesOn
  <1> QED BY <1>2, <1>4 DEF WentOn

LEMMA LooksWhere ==
  ASSUME NEW r \in UpTo, Head(r.todo) \in {"exists", "smembers"}
  PROVE  /\ Tail(r.todo) \in {C1, C2}
         /\ Tail(r.todo) = C1 => r.todo \in BeforeC1
         /\ Tail(r.todo) = C2 => r.todo \in BeforeC2
  <1>1. r.todo \in {E1, E2, Cached(C1), Cached(C2)}
    BY Where
  <1>2. C1 # C2
    BY InteractTodo DEF E2, A
  <1>3. CASE r.todo \in {E1, E2}
    BY <1>2, <1>3, InteractTodo DEF BeforeC1, BeforeC2
  <1>4. CASE \E k \in {C1, C2} : r.todo = Cached(k)
    BY <1>2, <1>4, ReadTodo DEF BeforeC1, BeforeC2
  <1> QED BY <1>1, <1>3, <1>4

LEMMA Learns ==
  ASSUME Typed, NEW q \in Active, NEW r \in UpTo, r = request[q], NEW S \in SUBSET User,
         Learn(q, S), Head(r.todo) \in {"smembers", "readBlocked"}
  PROVE  \E w : /\ Becomes(q, r, w) /\ w # NoRequest
                /\ w.todo = Tail(r.todo) /\ w.of = r.of /\ w.ids = S
  <1> PICK k \in {C1, C2} : r.todo \in {Cached(k), Read1(k)}
    BY Where
  <1>1. Tail(r.todo) # <<>> /\ r.op = "interact"
    <2>1. k # <<>>
      BY InteractTodo
    <2>2. Tail(r.todo) # <<>>
      BY <2>1, ReadTodo
    <2>3. r.op = "interact"
      BY Where
    <2> QED BY <2>2, <2>3
  <1>2. Tail(r.todo) \in Seq(Call) \ {<<>>} /\ Left(r.op, Tail(r.todo))
    BY <1>1, TailLeft
  <1> PICK w : w = [r EXCEPT !.ids = S, !.todo = Tail(r.todo)]
    OBVIOUS
  <1>3. /\ w \in RequestState
        /\ w.op = r.op /\ w.pair = r.pair /\ w.must = r.must
        /\ w.todo = Tail(r.todo) /\ w.of = r.of /\ w.ids = S
    BY <1>2 DEF UpTo, RequestState
  <1>4. w \in UpTo
    BY <1>2, <1>3 DEF UpTo
  <1>5. request' = [request EXCEPT ![q] = w]
    BY DEF Learn, Remaining, Active, Typed
  <1>6. w # NoRequest
    BY <1>3, NotARequest
  <1> QED BY <1>3, <1>4, <1>5, <1>6 DEF Becomes

LEMMA Compares ==
  ASSUME Typed, NEW q \in Active, NEW r \in UpTo, r = request[q], ContainsID(q),
         NEW o, o = IF r.of = r.pair[1] THEN r.pair[2] ELSE r.pair[1]
  PROVE  \E w : /\ Becomes(q, r, w) /\ w # NoRequest
                /\ w.todo = IF o \in r.ids THEN X ELSE Tail(r.todo)
                /\ w.of = o
  <1>1. r.todo \in {C1, C2} /\ r.op = "interact"
    BY Where DEF ContainsID, At
  <1>2. Tail(r.todo) # <<>>
    BY <1>1, InteractTodo
  <1>3. Tail(r.todo) \in Seq(Call) \ {<<>>} /\ Left(r.op, Tail(r.todo))
    BY <1>2, TailLeft
  <1>4. X \in Seq(Call) \ {<<>>} /\ Left(r.op, X)
    BY <1>1, CallsTyped, InteractTodo DEF Left
  <1> PICK t : t = IF o \in r.ids THEN X ELSE Tail(r.todo)
    OBVIOUS
  <1>5. t \in Seq(Call) \ {<<>>} /\ Left(r.op, t)
    BY <1>3, <1>4
  <1>6. o \in User
    BY DEF UpTo, RequestState, Pair
  <1> PICK w : w = [r EXCEPT !.todo = t, !.of = o, !.ids = {}]
    OBVIOUS
  <1>7. /\ w \in RequestState
        /\ w.op = r.op /\ w.pair = r.pair /\ w.must = r.must
        /\ w.todo = t /\ w.of = o
    BY <1>5, <1>6 DEF UpTo, RequestState
  <1>8. w \in UpTo
    BY <1>5, <1>7 DEF UpTo
  <1>9. request' = [request EXCEPT ![q] = w]
    BY DEF ContainsID, Active, Typed, X
  <1>10. w # NoRequest
    BY <1>7, NotARequest
  <1> QED BY <1>7, <1>8, <1>9, <1>10 DEF Becomes

\* Every step of a request leaves it somewhere in what it does.
LEMMA Outcome ==
  ASSUME Typed, NEW q \in Request, Step(q) \/ Fail(q)
  PROVE  q \in Active /\ \E w : Becomes(q, request[q], w)
  <1>1. q \in Active
    BY DEF Step, Fail, Check, InsertFollow, DeleteFollow, SRemFollowing, InsertBlock, DeleteBlock,
           SAddFollowing, ChangeBlocked, SetFlag, ExistsFlag, SMembers, ReadBlockedIDs, SAddRead,
           SetReadFlag, ContainsID, Answer, At
  <1> PICK r \in UpTo : r = request[q]
    BY <1>1, ActiveUpTo
  <1>2. CASE Proceed(q)
    BY <1>1, <1>2, Proceeds
  <1>3. CASE Stop(q)
    BY <1>1, <1>3, Stops
  <1>4. ASSUME Head(r.todo) \in {"exists", "smembers"},
               GoOn(q, <<"smembers">> \o Remaining(q)) \/ GoOn(q, ReadThrough \o Remaining(q))
        PROVE  \E w : Becomes(q, request[q], w)
    <2>1. Tail(r.todo) \in {C1, C2}
      BY <1>4, LooksWhere
    <2> QED BY <1>1, <1>4, <2>1, Looks
  <1>5. CASE ExistsFlag(q)
    BY <1>4, <1>5 DEF ExistsFlag, At
  <1>6. CASE SMembers(q)
    <2>1. r.of \in User
      BY DEF UpTo, RequestState
    <2>2. blocked[r.of] \in SUBSET User
      BY <2>1 DEF Typed, TypeOK
    <2>3. Learn(q, blocked[r.of]) /\ Head(r.todo) = "smembers"
      BY <1>6 DEF SMembers, At
    <2> QED BY <1>1, <2>2, <2>3, Learns
  <1>7. CASE ReadBlockedIDs(q)
    <2>1. {p[2] : p \in blocks} \in SUBSET User
      BY DEF Typed, TypeOK, Pair
    <2>2. Learn(q, {p[2] : p \in blocks}) /\ Head(r.todo) = "readBlocked"
      BY <1>7 DEF ReadBlockedIDs, At
    <2> QED BY <1>1, <2>1, <2>2, Learns
  <1>8. CASE ContainsID(q)
    BY <1>1, <1>8, Compares
  <1>9. CASE Fail(q)
    BY <1>2, <1>3, <1>4, <1>9 DEF Fail, At
  <1>10. CASE Step(q)
    BY <1>2, <1>3, <1>5, <1>6, <1>7, <1>8, <1>10
       DEF Step, Check, InsertFollow, DeleteFollow, SRemFollowing, InsertBlock, DeleteBlock,
           SAddFollowing, ChangeBlocked, SetFlag, SAddRead, SetReadFlag, Answer
  <1> QED BY <1>1, <1>9, <1>10
-----------------------------------------------------------------------------
\* What a request is when it comes.
LEMMA Arrives ==
  ASSUME Typed, NEW q \in Request, NEW op \in Op, NEW p \in Pair, Start(q, op, p)
  PROVE  /\ \E w : /\ request'[q] = w /\ w \in UpTo
                   /\ w.op = op /\ w.pair = p /\ w.todo = Calls[op] /\ w.of = p[1]
                   /\ w.must = InForce(p)
         /\ \A r \in Request \ {q} :
              IF op = "unblock" /\ request[r] # NoRequest /\ request[r].pair \in {p, Back(p)}
              THEN request'[r] = [request[r] EXCEPT !.must = FALSE]
              ELSE request'[r] = request[r]
         /\ request' \in [Request -> {NoRequest} \cup UpTo]
  <1> DEFINE new == [op |-> op, pair |-> p, todo |-> Calls[op], of |-> p[1], ids |-> {},
                     must |-> InForce(p)]
  <1> DEFINE lifted(r) == op = "unblock" /\ r # NoRequest /\ r.pair \in {p, Back(p)}
  <1>1. request' = [r \in Request |->
                      CASE r = q -> new
                        [] r # q /\ lifted(request[r]) -> [request[r] EXCEPT !.must = FALSE]
                        [] OTHER -> request[r]]
    BY DEF Start
  <1> PICK w : w = new
    OBVIOUS
  <1>2. w \in UpTo /\ w.op = op /\ w.pair = p /\ w.todo = Calls[op] /\ w.of = p[1]
    <2>1. Calls[op] \in Seq(Call) \ {<<>>} /\ Left(op, Calls[op])
      <3>1. CASE op = "follow"
        BY <3>1, CallsTyped, FollowTodo DEF Left
      <3>2. CASE op = "unfollow"
        BY <3>2, CallsTyped, UnfollowTodo DEF Left
      <3>3. CASE op = "block"
        BY <3>3, CallsTyped, BlockTodo DEF Left
      <3>4. CASE op = "unblock"
        BY <3>4, CallsTyped, UnblockTodo DEF Left
      <3>5. CASE op = "interact"
        BY <3>5, CallsTyped, InteractTodo DEF Left, BeforeC1
      <3>6. CASE op = "comment"
        BY <3>6, CallsTyped, InteractTodo DEF Left
      <3> QED BY <3>1, <3>2, <3>3, <3>4, <3>5, <3>6, OpIs
    <2>2. p[1] \in User
      BY DEF Pair
    <2>3. InForce(p) \in BOOLEAN
      BY DEF InForce
    <2>4. w \in RequestState
      BY <2>1, <2>2, <2>3 DEF RequestState
    <2>5. w.op = op /\ w.pair = p /\ w.todo = Calls[op] /\ w.of = p[1]
      OBVIOUS
    <2> QED BY <2>1, <2>4, <2>5 DEF UpTo
  <1>3. w.must = InForce(p)
    OBVIOUS
  <1>4. request'[q] = w
    BY <1>1
  <1>5. \A r \in Request \ {q} :
          request'[r] = IF lifted(request[r]) THEN [request[r] EXCEPT !.must = FALSE]
                                             ELSE request[r]
    BY <1>1
  <1>6. ASSUME NEW r \in Request \ {q} PROVE request'[r] \in {NoRequest} \cup UpTo
    <2>1. CASE lifted(request[r])
      <3> PICK v : v = request[r]
        OBVIOUS
      <3>1. v \in UpTo
        BY <2>1 DEF Typed
      <3> PICK u : u = [v EXCEPT !.must = FALSE]
        OBVIOUS
      <3>2. u \in RequestState /\ u.op = v.op /\ u.todo = v.todo
        BY <3>1 DEF UpTo, RequestState
      <3>3. u \in UpTo
        BY <3>1, <3>2 DEF UpTo
      <3> QED BY <1>5, <2>1, <3>3
    <2>2. CASE ~lifted(request[r])
      BY <1>5, <2>2 DEF Typed
    <2> QED BY <2>1, <2>2
  <1>7. request' \in [Request -> {NoRequest} \cup UpTo]
    <2>1. \A r \in Request : request'[r] \in {NoRequest} \cup UpTo
      BY <1>2, <1>4, <1>6
    <2>2. request' = [r \in Request |-> request'[r]]
      BY <1>1
    <2> QED BY <2>1, <2>2
  <1> QED BY <1>2, <1>3, <1>4, <1>5, <1>7

LEMMA TypedInit == Init => Typed
  <1> SUFFICES ASSUME Init PROVE Typed
    OBVIOUS
  <1>1. request = [q \in Request |-> NoRequest]
    BY DEF Init
  <1>2. /\ request \in [Request -> {NoRequest} \cup UpTo]
        /\ request \in [Request -> {NoRequest} \cup RequestState]
    BY <1>1
  <1>3. writes \in 0..MaxWrites /\ faults \in 0..MaxFaults
    BY SocialGraphAssumption DEF Init
  <1>4. lookup \in [Lookup -> {NoLookup} \cup LookupState]
    BY DEF Init
  <1> QED BY <1>2, <1>3, <1>4 DEF Init, Typed, TypeOK

\* The sets' ages and the look-ups that fill them.
FillsTyped ==
  /\ expiring \subseteq User /\ endless \subseteq User /\ lapsed \subseteq User \X User
  /\ lookup \in [Lookup -> {NoLookup} \cup LookupState]

Filling ==
  \/ \E l \in Lookup, p \in Pair, one \in BOOLEAN : Unanswered(l, p, one)
  \/ \E l \in Lookup : LookupStep(l) \/ FailLookup(l)

LEMMA LookupMoves ==
  ASSUME FillsTyped, NEW l \in Lookup, NEW c, Asking(l, c)
  PROVE  /\ lookup[l] \in LookupState
         /\ Over(l) => lookup' \in [Lookup -> {NoLookup} \cup LookupState]
         /\ \A S \in SUBSET User, d \in {"read", "sadd", "expire"} :
              Later(l, d, S) => /\ lookup' \in [Lookup -> {NoLookup} \cup LookupState]
                                /\ lookup'[l] # NoLookup
                                /\ lookup'[l].next = d /\ lookup'[l].of = lookup[l].of
  <1>1. lookup[l] \in LookupState /\ lookup \in [Lookup -> {NoLookup} \cup LookupState]
    BY DEF Asking, FillsTyped
  <1>2. Over(l) => lookup' \in [Lookup -> {NoLookup} \cup LookupState]
    BY <1>1 DEF Over
  <1>3. ASSUME NEW S \in SUBSET User, NEW d \in {"read", "sadd", "expire"}, Later(l, d, S)
        PROVE  /\ lookup' \in [Lookup -> {NoLookup} \cup LookupState]
               /\ lookup'[l] # NoLookup
               /\ lookup'[l].next = d /\ lookup'[l].of = lookup[l].of
    <2> PICK r \in LookupState : r = lookup[l]
      BY <1>1
    <2> PICK w : w = [r EXCEPT !.next = d, !.ids = S]
      OBVIOUS
    <2>1. w \in LookupState /\ w.next = d /\ w.of = r.of
      BY DEF LookupState
    <2>2. lookup' = [lookup EXCEPT ![l] = w]
      BY <1>1, <1>3 DEF Later
    <2>3. w # NoLookup
      BY <2>1 DEF NoLookup
    <2> QED BY <1>1, <2>1, <2>2, <2>3
  <1> QED BY <1>1, <1>2, <1>3

LEMMA FillsStep ==
  ASSUME FillsTyped, following \in [User -> SUBSET User], Filling
  PROVE  FillsTyped' /\ following' \in [User -> SUBSET User]
  <1>1. CASE \E l \in Lookup, p \in Pair, one \in BOOLEAN : Unanswered(l, p, one)
    <2> PICK l \in Lookup, p \in Pair, one \in BOOLEAN : Unanswered(l, p, one)
      BY <1>1
    <2> PICK w : w = [next |-> IF one THEN "exists" ELSE "read", of |-> p[1], ids |-> {p[2]}]
      OBVIOUS
    <2>1. w \in LookupState
      BY DEF LookupState, Pair
    <2>2. lookup' = [lookup EXCEPT ![l] = w] /\ UNCHANGED <<ages, following>>
      BY DEF Unanswered, sets
    <2> QED BY <2>1, <2>2 DEF FillsTyped, ages
  <1>2. ASSUME NEW l \in Lookup, LookupStep(l) \/ FailLookup(l)
        PROVE  FillsTyped' /\ following' \in [User -> SUBSET User]
    <2>1. {} \in SUBSET User /\ FollowedBy(lookup[l].of) \in SUBSET User
      BY DEF FollowedBy
    <2>2. CASE ExistsFollow(l)
      BY <2>1, <2>2, LookupMoves DEF ExistsFollow, FillsTyped, sets, ages
    <2>3. CASE ReadFollows(l)
      BY <2>1, <2>3, LookupMoves DEF ReadFollows, FillsTyped, sets, ages
    <2>4. CASE SAddFollows(l)
      <3>1. lookup[l] \in LookupState /\ lookup' \in [Lookup -> {NoLookup} \cup LookupState]
        BY <2>1, <2>4, LookupMoves DEF SAddFollows
      <3>2. lookup[l].of \in User /\ lookup[l].ids \subseteq User
        BY <3>1 DEF LookupState
      <3>3. following' \in [User -> SUBSET User]
        BY <2>4, <3>2 DEF SAddFollows
      <3> QED BY <2>4, <3>1, <3>3 DEF SAddFollows, FillsTyped
    <2>5. CASE SetExpiry(l)
      <3>1. lookup[l] \in LookupState /\ lookup' \in [Lookup -> {NoLookup} \cup LookupState]
        BY <2>5, LookupMoves DEF SetExpiry
      <3> QED BY <2>5, <3>1 DEF SetExpiry, FillsTyped, LookupState, sets
    <2>6. CASE FailLookup(l)
      <3>1. CASE Asking(l, "expire") /\ Over(l)
        <4>1. lookup[l] \in LookupState /\ lookup' \in [Lookup -> {NoLookup} \cup LookupState]
          BY <3>1, LookupMoves
        <4> QED BY <2>6, <3>1, <4>1 DEF FailLookup, FillsTyped, LookupState, sets, ages
      <3>2. CASE ~(Asking(l, "expire") /\ Over(l))
        BY <2>1, <2>6, <3>2, LookupMoves DEF FailLookup, FillsTyped, sets, ages
      <3> QED BY <3>1, <3>2
    <2> QED BY <1>2, <2>2, <2>3, <2>4, <2>5, <2>6 DEF LookupStep
  <1> QED BY <1>1, <1>2 DEF Filling

LEMMA TypedStep == Typed /\ [Next]_vars => Typed'
  <1> SUFFICES ASSUME Typed, [Next]_vars PROVE Typed'
    OBVIOUS
  <1>1. ASSUME request' \in [Request -> {NoRequest} \cup UpTo],
               follows' \subseteq Pair, blocks' \subseteq ever', ever' \subseteq Pair,
               following' \in [User -> SUBSET User], blocked' \in [User -> SUBSET User],
               flag' \subseteq User, FillsTyped',
               writes' \in 0..MaxWrites, faults' \in 0..MaxFaults, disturbed' \in BOOLEAN
        PROVE  Typed'
    <2>1. request' \in [Request -> {NoRequest} \cup RequestState]
      BY <1>1 DEF UpTo
    <2>2. \A p \in follows' \cup ever' : p[1] # p[2]
      BY <1>1 DEF Pair
    <2> QED BY <1>1, <2>1, <2>2 DEF Typed, TypeOK, FillsTyped
  <1>2. /\ request \in [Request -> {NoRequest} \cup UpTo]
        /\ follows \subseteq Pair /\ blocks \subseteq ever /\ ever \subseteq Pair
        /\ following \in [User -> SUBSET User] /\ blocked \in [User -> SUBSET User]
        /\ flag \subseteq User /\ FillsTyped
        /\ writes \in 0..MaxWrites /\ faults \in 0..MaxFaults /\ disturbed \in BOOLEAN
    BY DEF Typed, TypeOK, FillsTyped
  <1>0. UNCHANGED fills => FillsTyped'
    BY <1>2 DEF FillsTyped, fills, ages
  <1>3. ASSUME NEW q \in Request, NEW op \in Op, NEW p \in Pair, Start(q, op, p) PROVE Typed'
    <2>1. request' \in [Request -> {NoRequest} \cup UpTo]
      BY <1>3, Arrives
    <2>2. writes' \in 0..MaxWrites
      BY <1>2, <1>3, SocialGraphAssumption DEF Start
    <2>3. disturbed' \in BOOLEAN
      BY <1>2, <1>3 DEF Start
    <2>4. UNCHANGED <<rows, sets, fills, faults>>
      BY <1>3 DEF Start
    <2> QED BY <1>0, <1>1, <1>2, <2>1, <2>2, <2>3, <2>4 DEF rows, sets
  <1>4. ASSUME NEW q \in Request, Step(q) \/ Fail(q) PROVE Typed'
    <2>1. q \in Active /\ \E w : Becomes(q, request[q], w)
      BY <1>4, Outcome
    <2>2. request' \in [Request -> {NoRequest} \cup UpTo]
      BY <1>2, <2>1 DEF Becomes
    <2> PICK r \in UpTo : r = request[q]
      BY <2>1, ActiveUpTo
    <2> PICK p : p = r.pair
      OBVIOUS
    <2>3. /\ p \in Pair /\ Back(p) \in Pair /\ p[1] \in User /\ p[2] \in User
          /\ r.of \in User /\ r.ids \subseteq User
      BY DEF UpTo, RequestState, Pair, Back
    <2>4. CASE Step(q)
      <3>1. CASE Check(q)
        BY <1>0, <1>1, <1>2, <2>2, <3>1 DEF Check, rows, sets, bounds
      <3>2. CASE InsertFollow(q)
        BY <1>0, <1>1, <1>2, <2>2, <2>3, <3>2 DEF InsertFollow, sets, bounds
      <3>3. CASE \E back \in BOOLEAN : DeleteFollow(q, back)
        BY <1>0, <1>1, <1>2, <2>2, <3>3 DEF DeleteFollow, sets, bounds
      <3>4. ASSUME NEW back \in BOOLEAN, SRemFollowing(q, back) PROVE Typed'
        <4>1. following' \in [User -> SUBSET User]
          BY <1>2, <2>3, <3>4 DEF SRemFollowing, Back
        <4>2. FillsTyped'
          BY <1>2, <3>4 DEF SRemFollowing, StillThere, FillsTyped
        <4> QED BY <1>1, <1>2, <2>2, <3>4, <4>1, <4>2 DEF SRemFollowing, rows, bounds
      <3>5. CASE InsertBlock(q)
        BY <1>0, <1>1, <1>2, <2>2, <2>3, <3>5 DEF InsertBlock, sets, bounds
      <3>6. CASE DeleteBlock(q)
        BY <1>0, <1>1, <1>2, <2>2, <3>6 DEF DeleteBlock, sets, bounds
      <3>7. CASE SAddFollowing(q)
        <4>1. following' \in [User -> SUBSET User]
          BY <1>2, <2>3, <3>7 DEF SAddFollowing
        <4>2. FillsTyped'
          BY <1>2, <3>7 DEF SAddFollowing, FillsTyped
        <4> QED BY <1>1, <1>2, <2>2, <3>7, <4>1, <4>2 DEF SAddFollowing, rows, bounds
      <3>8. CASE ChangeBlocked(q)
        <4>1. blocked' \in [User -> SUBSET User]
          BY <1>2, <2>3, <3>8 DEF ChangeBlocked
        <4> QED BY <1>0, <1>1, <1>2, <2>2, <3>8, <4>1 DEF ChangeBlocked, rows, bounds
      <3>9. CASE SetFlag(q)
        BY <1>0, <1>1, <1>2, <2>2, <2>3, <3>9 DEF SetFlag, rows, bounds
      <3>10. CASE ExistsFlag(q) \/ SMembers(q) \/ ReadBlockedIDs(q) \/ ContainsID(q) \/ Answer(q)
        BY <1>0, <1>1, <1>2, <2>2, <3>10
           DEF ExistsFlag, SMembers, ReadBlockedIDs, ContainsID, Answer, rows, sets, bounds
      <3>11. CASE SAddRead(q)
        <4>1. blocked' \in [User -> SUBSET User]
          BY <1>2, <2>3, <3>11 DEF SAddRead
        <4> QED BY <1>0, <1>1, <1>2, <2>2, <3>11, <4>1 DEF SAddRead, rows, bounds
      <3>12. CASE SetReadFlag(q)
        BY <1>0, <1>1, <1>2, <2>2, <2>3, <3>12 DEF SetReadFlag, rows, bounds
      <3> QED BY <2>4, <3>1, <3>2, <3>3, <3>4, <3>5, <3>6, <3>7, <3>8, <3>9, <3>10, <3>11, <3>12
              DEF Step
    <2>5. CASE Fail(q)
      <3>1. faults' \in 0..MaxFaults
        BY <1>2, <2>5, SocialGraphAssumption DEF Fail
      <3>2. disturbed' \in BOOLEAN
        BY <1>2, <2>5 DEF Fail
      <3> QED BY <1>0, <1>1, <1>2, <2>2, <2>5, <3>1, <3>2 DEF Fail, rows, sets
    <2> QED BY <1>4, <2>4, <2>5
  <1>5. CASE \E u \in User : ExpireFlag(u)
    BY <1>0, <1>1, <1>2, <1>5 DEF ExpireFlag, rows, bounds
  <1>6. CASE \E u \in User : ExpireFollowing(u)
    <2> PICK u \in User : ExpireFollowing(u)
      BY <1>6
    <2>1. following' \in [User -> SUBSET User]
      BY <1>2 DEF ExpireFollowing
    <2>2. following[u] \subseteq User
      BY <1>2
    <2>3. FillsTyped'
      BY <1>2, <2>2 DEF ExpireFollowing, FillsTyped
    <2> QED BY <1>1, <1>2, <2>1, <2>3 DEF ExpireFollowing, rows, bounds
  <1>7. CASE Filling
    <2>1. FillsTyped' /\ following' \in [User -> SUBSET User]
      BY <1>2, <1>7, FillsStep
    <2>2. UNCHANGED <<rows, blocked, flag, request, writes, disturbed>>
      BY <1>7 DEF Filling, LookupStep, Unanswered, ExistsFollow, ReadFollows, SAddFollows, SetExpiry,
                  FailLookup, sets, bounds
    <2>3. faults' \in 0..MaxFaults
      BY <1>2, <1>7, SocialGraphAssumption
         DEF Filling, LookupStep, Unanswered, ExistsFollow, ReadFollows, SAddFollows, SetExpiry,
             FailLookup, bounds
    <2> QED BY <1>1, <1>2, <2>1, <2>2, <2>3 DEF rows
  <1>8. CASE UNCHANGED vars
    BY <1>0, <1>1, <1>2, <1>8 DEF vars, rows, sets, bounds
  <1>9. CASE \E u \in User : DeleteUser(u)
    <2>1. writes' \in 0..MaxWrites
      BY <1>2, <1>9, SocialGraphAssumption DEF DeleteUser
    <2> QED BY <1>0, <1>1, <1>2, <1>9, <2>1 DEF DeleteUser, sets
  <1> QED BY <1>3, <1>4, <1>5, <1>6, <1>7, <1>8, <1>9 DEF Next, Filling

(***************************************************************************)
(* The type invariant, of which where a request may be is a part.          *)
(***************************************************************************)
THEOREM TypeCorrect == Spec => []TypeOK
  <1>1. Typed => TypeOK
    BY DEF Typed
  <1> QED BY <1>1, TypedInit, TypedStep, PTL DEF Spec
-----------------------------------------------------------------------------
(***************************************************************************)
(* What holds between two users on whom nobody writes, and what one who    *)
(* does has made of it so far.                                             *)
(***************************************************************************)
Synced(p) == Agrees(p)

Held(p) == p \in blocks => p[2] \in blocked[p[1]]

NoFollow(p) == p \notin follows /\ Back(p) \notin follows
NoBlock(p) == p \notin blocks /\ Back(p) \notin blocks

Good(p) ==
  /\ Synced(p) /\ Synced(Back(p))
  /\ Held(p) /\ Held(Back(p))
  /\ NoBlock(p) \/ NoFollow(p)

\* Before the call c of op nothing is half done.
AtRest(op, c) ==
  \/ c \in {"checkEitherWay", "insertFollow", "checkBlocked", "insertBlock", "deleteBlock",
            "sremBlocked", "setFlag"}
  \/ op = "unfollow" /\ c = "deleteFollow"

\* A request that does op and writes on the pair p is about to make the call c.
Stage(p, op, c) ==
  /\ AtRest(op, c) => Good(p)
  /\ c \in {"insertFollow", "saddFollowing"} => NoBlock(p)
  /\ c = "saddFollowing" => p \in follows /\ Synced(Back(p))
  /\ op = "unfollow" /\ c = "sremFollowing" =>
       /\ p \notin follows /\ Synced(Back(p))
       /\ Held(p) /\ Held(Back(p))
       /\ NoBlock(p) \/ NoFollow(p)
  /\ op = "block" =>
       /\ c \in {"deleteFollow", "deleteFollowBack", "sremFollowing", "sremFollowingBack",
                 "saddBlocked"} => Held(Back(p))
       /\ c \in {"deleteFollow", "deleteFollowBack", "saddBlocked"} => Synced(Back(p))
       /\ c \in {"deleteFollow", "sremFollowingBack", "saddBlocked"} => Synced(p)
       /\ c \in {"deleteFollowBack", "sremFollowing", "sremFollowingBack", "saddBlocked"} =>
            p \notin follows
       /\ c \in {"sremFollowing", "sremFollowingBack", "saddBlocked"} => Back(p) \notin follows
  /\ c = "sremBlocked" => p \notin blocks

Writer(q) == q \in Active /\ request[q].op \notin Reads

OneWriter ==
  \A q, r \in Request :
    Writer(q) /\ Writer(r) /\ request[r].pair \in {request[q].pair, Back(request[q].pair)}
      => r = q

Calm == \A p \in Pair : ~Writing(p) => Good(p)

Staged ==
  \A q \in Request :
    Writer(q) => Stage(request[q].pair, request[q].op, Head(request[q].todo))

PairsInv == OneWriter /\ Calm /\ Staged

LEMMA BackBack ==
  ASSUME NEW p \in Pair
  PROVE  Back(p) \in Pair /\ Back(Back(p)) = p /\ Back(p) # p
  BY DEF Pair, Back

\* A step leaves what is said of the pair x alone.
Kept(x) ==
  /\ x \in follows' <=> x \in follows
  /\ x \in blocks' <=> x \in blocks
  /\ Synced(x) => Synced(x)'
  /\ x[2] \in blocked[x[1]] => x[2] \in blocked'[x[1]]

LEMMA SyncedStep ==
  ASSUME NEW x, Synced(x), x \in follows' <=> x \in follows,
         x[2] \in following'[x[1]] <=> x[2] \in following[x[1]],
         x \in lapsed => x \in lapsed',
         x[2] \in following'[x[1]] /\ Filled(x[1]) => Filled(x[1])'
  PROVE  Synced(x)'
  BY DEF Synced, Agrees

LEMMA SyncedSame ==
  ASSUME NEW x, Synced(x), UNCHANGED <<following, fills>>, x \in follows' <=> x \in follows
  PROVE  Synced(x)'
  <1>1. Filled(x[1]) => Filled(x[1])'
    BY DEF Filled, Asking, fills, ages
  <1> QED BY <1>1, SyncedStep DEF fills, ages

LEMMA GoodKept ==
  ASSUME NEW p \in Pair, Good(p), Kept(p), Kept(Back(p))
  PROVE  Good(p)'
  BY DEF Good, Kept, Held, NoFollow, NoBlock

LEMMA StageKept ==
  ASSUME NEW p \in Pair, NEW op, NEW c, Stage(p, op, c), Kept(p), Kept(Back(p))
  PROVE  Stage(p, op, c)'
  <1>1. Good(p) => Good(p)'
    BY GoodKept
  <1>2. /\ Synced(p) => Synced(p)'
        /\ Synced(Back(p)) => Synced(Back(p))'
        /\ Held(p) => Held(p)'
        /\ Held(Back(p)) => Held(Back(p))'
        /\ NoBlock(p) => NoBlock(p)'
        /\ NoFollow(p) => NoFollow(p)'
    BY DEF Kept, Held, NoFollow, NoBlock
  <1>3. /\ p \in follows' <=> p \in follows
        /\ Back(p) \in follows' <=> Back(p) \in follows
        /\ p \in blocks' <=> p \in blocks
    BY DEF Kept
  <1> QED BY <1>1, <1>2, <1>3 DEF Stage

LEMMA GoodBack ==
  ASSUME NEW p \in Pair, Good(p)'
  PROVE  Good(Back(p))'
  BY BackBack DEF Good, Synced, Agrees, Filled, Asking, Held, NoFollow, NoBlock

\* A step of q, whose request r becomes w.
LEMMA PairsMove ==
  ASSUME Typed, PairsInv, NEW q \in Active, NEW r \in UpTo, r = request[q],
         NEW w, Becomes(q, r, w),
         \A x \in Pair : Kept(x) \/ (r.op \notin Reads /\ x \in {r.pair, Back(r.pair)}),
         r.op \notin Reads => IF w = NoRequest THEN Good(r.pair)' ELSE Stage(r.pair, r.op, Head(w.todo))'
  PROVE  PairsInv'
  <1> PICK p : p = r.pair
    OBVIOUS
  <1>1. p \in Pair /\ Back(p) \in Pair /\ Back(Back(p)) = p /\ q \in Request
    BY BackBack DEF UpTo, RequestState, Active
  <1>2. /\ request'[q] = w
        /\ \A j \in Request : j # q => request'[j] = request[j]
        /\ w # NoRequest => w.op = r.op /\ w.pair = p
    BY <1>1 DEF Becomes, Typed
  <1>3. \A j \in Request : Writer(j)' => Writer(j) /\ request'[j].pair = request[j].pair
    BY <1>2 DEF Writer, Active
  <1>4. OneWriter'
    BY <1>3 DEF OneWriter, PairsInv
  <1>5. ASSUME NEW y \in Pair, ~Writing(y)' PROVE Good(y)'
    <2>1. Back(y) \in Pair /\ Back(Back(y)) = y
      BY BackBack
    <2>2. CASE r.op \notin Reads /\ y \in {p, Back(p)}
      <3>1. w = NoRequest
        <4> SUFFICES ASSUME w # NoRequest PROVE FALSE
          OBVIOUS
        <4>1. request'[q].op \notin Reads /\ request'[q].pair \in {y, Back(y)}
          BY <1>1, <1>2, <2>1, <2>2
        <4>2. request'[q] # NoRequest
          BY <1>2
        <4> QED BY <1>1, <1>5, <4>1, <4>2 DEF Writing, Active
      <3> QED BY <1>1, <2>2, <3>1, GoodBack
    <2>3. CASE ~(r.op \notin Reads /\ y \in {p, Back(p)})
      <3>1. Kept(y) /\ Kept(Back(y))
        BY <1>1, <2>1, <2>3
      <3>2. ~Writing(y)
        <4> SUFFICES ASSUME NEW j \in Active, request[j].op \notin Reads,
                            request[j].pair \in {y, Back(y)}
                     PROVE  FALSE
          BY DEF Writing
        <4>1. j # q
          BY <1>1, <2>1, <2>3
        <4>2. j \in Request /\ request'[j] = request[j] /\ request'[j] # NoRequest
          BY <1>2, <4>1 DEF Active
        <4> QED BY <1>5, <4>2 DEF Writing, Active
      <3>3. Good(y)
        BY <3>2 DEF PairsInv, Calm
      <3> QED BY <3>1, <3>3, GoodKept
    <2> QED BY <2>2, <2>3
  <1>6. ASSUME NEW j \in Request, Writer(j)'
        PROVE  Stage(request[j].pair, request[j].op, Head(request[j].todo))'
    <2>1. CASE j = q
      <3>1. w # NoRequest /\ r.op \notin Reads
        BY <1>2, <1>6, <2>1 DEF Writer, Active
      <3>2. Stage(p, r.op, Head(w.todo))'
        BY <3>1
      <3>3. request'[j].pair = p /\ request'[j].op = r.op /\ request'[j].todo = w.todo
        BY <1>2, <2>1, <3>1
      <3> QED BY <3>2, <3>3 DEF Stage, Good, Synced, Agrees, Filled, Asking, Held, NoFollow,
                                   NoBlock
    <2>2. CASE j # q
      <3> PICK v : v = request[j]
        OBVIOUS
      <3>1. request'[j] = v /\ Writer(j)
        BY <1>2, <1>3, <1>6, <2>2
      <3>2. v \in UpTo
        BY <3>1 DEF Writer, Active, Typed
      <3> PICK y, op, c : y = v.pair /\ op = v.op /\ c = Head(v.todo)
        OBVIOUS
      <3>3. y \in Pair /\ Back(y) \in Pair /\ Back(Back(y)) = y
        BY <3>2, BackBack DEF UpTo, RequestState
      <3>4. Kept(y) /\ Kept(Back(y))
        <4>1. r.op \notin Reads => Writer(q)
          BY DEF Writer
        <4>2. r.op \notin Reads => y \notin {p, Back(p)}
          BY <1>1, <2>2, <3>1, <4>1 DEF PairsInv, OneWriter
        <4>3. r.op \notin Reads => Back(y) \notin {p, Back(p)}
          BY <1>1, <3>3, <4>2
        <4> QED BY <3>3, <4>2, <4>3
      <3>5. Stage(y, op, c)
        BY <3>1 DEF PairsInv, Staged
      <3>6. Stage(y, op, c)'
        BY <3>3, <3>4, <3>5, StageKept
      <3> QED BY <3>1, <3>6 DEF Stage, Good, Synced, Agrees, Filled, Asking, Held, NoFollow,
                                   NoBlock
    <2> QED BY <2>1, <2>2
  <1> QED BY <1>4, <1>5, <1>6 DEF PairsInv, Calm, Staged

\* A request comes.
LEMMA PairsStart ==
  ASSUME Typed, ~disturbed => PairsInv, ~disturbed',
         NEW q \in Request, NEW op \in Op, NEW p \in Pair, Start(q, op, p)
  PROVE  PairsInv'
  <1>1. ~disturbed /\ (op \in Reads \/ ~Writing(p))
    BY DEF Start
  <1>2. PairsInv
    BY <1>1
  <1>3. UNCHANGED <<rows, sets, fills>> /\ request[q] = NoRequest
    BY DEF Start
  <1> PICK w : /\ request'[q] = w /\ w \in UpTo
               /\ w.op = op /\ w.pair = p /\ w.todo = Calls[op]
    BY Arrives
  <1>4. ASSUME NEW j \in Request, j # q
        PROVE  /\ request'[j] = NoRequest <=> request[j] = NoRequest
               /\ request[j] # NoRequest =>
                    /\ request'[j].op = request[j].op
                    /\ request'[j].pair = request[j].pair
                    /\ request'[j].todo = request[j].todo
    <2>1. CASE request'[j] = request[j]
      BY <2>1
    <2>2. CASE request'[j] = [request[j] EXCEPT !.must = FALSE] /\ request[j] # NoRequest
      <3> PICK v : v = request[j]
        OBVIOUS
      <3>1. v \in UpTo
        BY <2>2 DEF Typed
      <3> PICK u : u = [v EXCEPT !.must = FALSE]
        OBVIOUS
      <3>2. u \in RequestState /\ u.op = v.op /\ u.pair = v.pair /\ u.todo = v.todo
        BY <3>1 DEF UpTo, RequestState
      <3>3. request'[j] = u /\ u # NoRequest
        BY <2>2, <3>2, NotARequest
      <3> QED BY <2>2, <3>2, <3>3
    <2> QED BY <1>4, <2>1, <2>2, Arrives
  <1>5. w # NoRequest
    BY NotARequest DEF UpTo
  <1>6. ASSUME NEW j \in Request, Writer(j)'
        PROVE  \/ j = q /\ op \notin Reads
               \/ /\ j # q /\ Writer(j)
                  /\ request'[j].pair = request[j].pair /\ request'[j].todo = request[j].todo
    BY <1>4, <1>6 DEF Writer, Active
  <1>7. ASSUME NEW j \in Request, Writer(j), op \notin Reads
        PROVE  request[j].pair \notin {p, Back(p)}
    BY <1>1, <1>7 DEF Writer, Writing
  <1>8. \A j \in Request : Writer(j) => request[j].pair \in Pair
    BY DEF Typed, Writer, Active, UpTo, RequestState
  <1>9. OneWriter'
    <2> SUFFICES ASSUME NEW i \in Request, NEW j \in Request, Writer(i)', Writer(j)',
                        request'[j].pair \in {request'[i].pair, Back(request'[i].pair)}
                 PROVE  j = i
      BY DEF OneWriter
    <2>1. CASE i # q /\ j # q
      BY <1>2, <1>6, <2>1 DEF PairsInv, OneWriter
    <2>2. CASE i = q /\ j # q
      BY <1>6, <1>7, <2>2
    <2>3. CASE i # q /\ j = q
      <3>1. Writer(i) /\ op \notin Reads /\ request[i].pair = request'[i].pair
        BY <1>6, <2>3
      <3>2. p \in {request[i].pair, Back(request[i].pair)}
        BY <2>3, <3>1
      <3> QED BY <1>7, <1>8, <3>1, <3>2, BackBack
    <2> QED BY <2>1, <2>2, <2>3
  <1>10. \A y : Writing(y) => Writing(y)'
    BY <1>3, <1>4 DEF Writing, Active
  <1>11. \A y : Kept(y)
    BY <1>3, SyncedSame DEF Kept, rows, sets
  <1>12. Calm'
    <2> SUFFICES ASSUME NEW y \in Pair, ~Writing(y)' PROVE Good(y)'
      BY DEF Calm
    <2>1. Good(y)
      BY <1>2, <1>10 DEF PairsInv, Calm
    <2> QED BY <1>11, <2>1, GoodKept
  <1>13. ASSUME NEW j \in Request, Writer(j)'
         PROVE  Stage(request[j].pair, request[j].op, Head(request[j].todo))'
    <2>1. CASE j = q
      <3>1. op \notin Reads
        BY <1>6, <1>13, <2>1
      <3>2. Good(p)
        BY <1>1, <1>2, <3>1 DEF PairsInv, Calm
      <3> PICK c : c = Head(Calls[op])
        OBVIOUS
      <3>3. \/ c \in {"checkEitherWay", "checkBlocked", "deleteBlock"}
            \/ op = "unfollow" /\ c = "deleteFollow"
        <4>1. CASE op = "follow"
          BY <4>1, FollowTodo
        <4>2. CASE op = "unfollow"
          BY <4>2, UnfollowTodo
        <4>3. CASE op = "block"
          BY <4>3, BlockTodo
        <4>4. CASE op = "unblock"
          BY <4>4, UnblockTodo
        <4> QED BY <3>1, OpIs, <4>1, <4>2, <4>3, <4>4
      <3>4. Stage(p, op, c)
        BY <3>2, <3>3 DEF Stage
      <3>5. Stage(p, op, c)'
        BY <1>11, <3>4, StageKept
      <3>6. request'[j].pair = p /\ request'[j].op = op /\ Head(request'[j].todo) = c
        BY <2>1
      <3> QED BY <3>5, <3>6 DEF Stage, Good, Synced, Agrees, Filled, Asking, Held, NoFollow,
                                   NoBlock
    <2>2. CASE j # q
      <3> PICK y, o, c : y = request[j].pair /\ o = request[j].op /\ c = Head(request[j].todo)
        OBVIOUS
      <3>1. /\ Writer(j)
            /\ request'[j].pair = y /\ request'[j].op = o /\ Head(request'[j].todo) = c
        BY <1>4, <1>6, <1>13, <2>2 DEF Writer, Active
      <3>2. Stage(y, o, c) /\ y \in Pair
        BY <1>2, <1>8, <3>1 DEF PairsInv, Staged
      <3>3. Stage(y, o, c)'
        BY <1>11, <3>2, StageKept
      <3> QED BY <3>1, <3>3 DEF Stage, Good, Synced, Agrees, Filled, Asking, Held, NoFollow,
                                   NoBlock
    <2> QED BY <2>1, <2>2
  <1> QED BY <1>9, <1>12, <1>13 DEF PairsInv, Staged

LEMMA SamePair ==
  ASSUME NEW x \in Pair, NEW p \in Pair, x[1] = p[1], x[2] = p[2]
  PROVE  x = p
  BY DEF Pair

\* One user is put into the set of another, or taken out.
LEMMA PutIn ==
  ASSUME NEW f \in [User -> SUBSET User], NEW p \in Pair, NEW g,
         g = [f EXCEPT ![p[1]] = @ \cup {p[2]}]
  PROVE  /\ p[2] \in g[p[1]]
         /\ \A x \in Pair : x # p => (x[2] \in g[x[1]] <=> x[2] \in f[x[1]])
  <1>1. p[1] \in User /\ \A x \in Pair : x[1] \in User
    BY DEF Pair
  <1> QED BY <1>1, SamePair

LEMMA TakenOut ==
  ASSUME NEW f \in [User -> SUBSET User], NEW p \in Pair, NEW g,
         g = [f EXCEPT ![p[1]] = @ \ {p[2]}]
  PROVE  /\ p[2] \notin g[p[1]]
         /\ \A x \in Pair : x # p => (x[2] \in g[x[1]] <=> x[2] \in f[x[1]])
  <1>1. p[1] \in User /\ \A x \in Pair : x[1] \in User
    BY DEF Pair
  <1> QED BY <1>1, SamePair

\* What a step of a request r that writes makes of it and of its pair.
Wrote(q, r) ==
  \E w : /\ Becomes(q, r, w)
         /\ \A x \in Pair : Kept(x) \/ x \in {r.pair, Back(r.pair)}
         /\ IF w = NoRequest THEN Good(r.pair)' ELSE Stage(r.pair, r.op, Head(w.todo))'

LEMMA CheckWrites ==
  ASSUME Typed, NEW q \in Active, NEW r \in UpTo, r = request[q],
         Stage(r.pair, r.op, Head(r.todo)), Check(q)
  PROVE  Wrote(q, r)
  <1> PICK p : p = r.pair
    OBVIOUS
  <1>1. p \in Pair /\ Back(p) \in Pair
    BY BackBack DEF UpTo, RequestState
  <1>2. \A x : Kept(x)
    BY SyncedSame DEF Check, Kept, rows, sets
  <1>3. r.todo = F1 \/ r.todo = B1
    BY Where DEF Check, At
  <1>4. Good(p)
    BY <1>3, FollowTodo, BlockTodo DEF Stage, AtRest
  <1>5. Good(p)'
    BY <1>1, <1>2, <1>4, GoodKept
  <1>6. CASE Stop(q)
    BY <1>2, <1>5, <1>6, Stops DEF Wrote
  <1>7. CASE ~Stop(q)
    <2>1. Proceed(q) /\ (Head(r.todo) = "checkEitherWay" => {p, Back(p)} \cap blocks = {})
      BY <1>7 DEF Check, At
    <2> PICK w : /\ Becomes(q, r, w)
                 /\ Tail(r.todo) = <<>> <=> w = NoRequest
                 /\ w # NoRequest => w.todo = Tail(r.todo)
      BY <2>1, Proceeds
    <2>2. w # NoRequest /\ Head(w.todo) \in {"insertFollow", "insertBlock"}
      <3>1. CASE r.todo = F1
        BY <3>1, FollowTodo
      <3>2. CASE r.todo = B1
        BY <3>2, BlockTodo
      <3> QED BY <1>3, <3>1, <3>2
    <2>3. Head(w.todo) = "insertFollow" => {p, Back(p)} \cap blocks = {}
      BY <1>3, <2>1, <2>2, FollowTodo, BlockTodo
    <2>4. NoBlock(p) => NoBlock(p)'
      BY <1>2 DEF NoBlock, Kept
    <2>5. Head(w.todo) = "insertFollow" => NoBlock(p)'
      BY <2>3, <2>4 DEF NoBlock
    <2> PICK c : c = Head(w.todo)
      OBVIOUS
    <2>6. Stage(p, r.op, c)'
      BY <1>5, <2>2, <2>5 DEF Stage
    <2>7. Stage(r.pair, r.op, Head(w.todo))'
      BY <2>6
    <2> QED BY <1>2, <2>2, <2>7 DEF Wrote
  <1> QED BY <1>6, <1>7

LEMMA Written ==
  ASSUME Typed, NEW q \in Active, NEW r \in UpTo, r = request[q], Proceed(q),
         \A x \in Pair : Kept(x) \/ x \in {r.pair, Back(r.pair)},
         NEW c, c = Head(Tail(r.todo)),
         IF Tail(r.todo) = <<>> THEN Good(r.pair)' ELSE Stage(r.pair, r.op, c)'
  PROVE  Wrote(q, r)
  <1> PICK w : /\ Becomes(q, r, w)
               /\ Tail(r.todo) = <<>> <=> w = NoRequest
               /\ w # NoRequest => w.todo = Tail(r.todo)
    BY Proceeds
  <1>1. CASE w = NoRequest
    BY <1>1 DEF Wrote
  <1>2. CASE w # NoRequest
    <2>1. Head(w.todo) = c
      BY <1>2
    <2>2. Stage(r.pair, r.op, Head(w.todo))'
      BY <1>2, <2>1
    <2> QED BY <1>2, <2>2 DEF Wrote
  <1> QED BY <1>1, <1>2

LEMMA FollowWrites ==
  ASSUME Typed, NEW q \in Active, NEW r \in UpTo, r = request[q],
         Stage(r.pair, r.op, Head(r.todo)), InsertFollow(q) \/ SAddFollowing(q)
  PROVE  Wrote(q, r)
  <1> PICK p : p = r.pair
    OBVIOUS
  <1>1. p \in Pair /\ Back(p) \in Pair /\ Back(p) # p
    BY BackBack DEF UpTo, RequestState
  <1>2. CASE InsertFollow(q)
    <2>1. r.todo = F2
      BY <1>2, Where DEF InsertFollow, At
    <2>2. Good(p) /\ NoBlock(p)
      BY <2>1, FollowTodo DEF Stage, AtRest
    <2>3. follows' = follows \cup {p} /\ UNCHANGED <<blocks, ever, sets, fills, bounds>>
      BY <1>2 DEF InsertFollow
    <2>4. \A x \in Pair : x # p => Kept(x)
      BY <2>3, SyncedSame DEF Kept, sets
    <2>5. CASE p \in follows
      <3>1. Stop(q)
        BY <1>2, <2>5 DEF InsertFollow
      <3>2. Kept(p)
        BY <2>3, <2>5, SyncedSame DEF Kept, sets
      <3>3. Good(p)'
        BY <1>1, <2>2, <2>4, <3>2, GoodKept
      <3> QED BY <2>4, <3>1, <3>3, Stops DEF Wrote
    <2>6. CASE p \notin follows
      <3>1. Proceed(q)
        BY <1>2, <2>6 DEF InsertFollow
      <3>2. NoBlock(p)' /\ p \in follows' /\ Synced(Back(p))'
        BY <1>1, <2>2, <2>3, <2>4 DEF NoBlock, Good, Kept
      <3>3. Stage(p, r.op, "saddFollowing")'
        BY <2>1, <3>2, Where, FollowTodo DEF Stage, AtRest
      <3>4. Tail(r.todo) # <<>> /\ Head(Tail(r.todo)) = "saddFollowing"
        BY <2>1, FollowTodo
      <3> QED BY <2>4, <3>1, <3>3, <3>4, Written
    <2> QED BY <2>5, <2>6
  <1>3. CASE SAddFollowing(q)
    <2>1. r.todo = F3
      BY <1>3, Where DEF SAddFollowing, At
    <2>2. NoBlock(p) /\ p \in follows /\ Synced(Back(p))
      BY <2>1, FollowTodo DEF Stage
    <2>3. following' = [following EXCEPT ![p[1]] = @ \cup {p[2]}]
      BY <1>3 DEF SAddFollowing
    <2>4. Proceed(q) /\ UNCHANGED <<rows, blocked, expiring, endless, lookup>> /\ lapsed' = lapsed \ {p}
      BY <1>3 DEF SAddFollowing
    <2>5. following \in [User -> SUBSET User]
      BY DEF Typed, TypeOK
    <2>6. /\ p[2] \in following'[p[1]]
          /\ \A x \in Pair : x # p => (x[2] \in following'[x[1]] <=> x[2] \in following[x[1]])
      BY <1>1, <2>3, <2>5, SamePair DEF Pair
    <2>7. ASSUME NEW x \in Pair, x # p PROVE Kept(x)
      <3>1. Filled(x[1]) => Filled(x[1])'
        BY <2>4 DEF Filled, Asking
      <3>2. Synced(x) => Synced(x)'
        BY <2>4, <2>6, <2>7, <3>1, SyncedStep DEF rows
      <3> QED BY <2>4, <3>2 DEF Kept, rows
    <2>8. Synced(p)' /\ Synced(Back(p))'
      BY <1>1, <2>2, <2>4, <2>6, <2>7 DEF Synced, Agrees, Kept, rows
    <2>10. Good(p)'
      BY <1>1, <2>2, <2>4, <2>8 DEF Good, Held, NoBlock, rows
    <2>9. Tail(r.todo) = <<>>
      BY <2>1, FollowTodo
    <2> QED BY <2>4, <2>7, <2>9, <2>10, Written
  <1> QED BY <1>2, <1>3

LEMMA DeleteWrites ==
  ASSUME Typed, NEW q \in Active, NEW r \in UpTo, r = request[q],
         Stage(r.pair, r.op, Head(r.todo)), NEW back \in BOOLEAN, DeleteFollow(q, back)
  PROVE  Wrote(q, r)
  <1> PICK p : p = r.pair
    OBVIOUS
  <1>1. p \in Pair /\ Back(p) \in Pair /\ Back(p) # p
    BY BackBack DEF UpTo, RequestState
  <1>2. Proceed(q) /\ UNCHANGED <<blocks, ever, sets, fills, bounds>>
    BY DEF DeleteFollow
  <1>3. follows' = follows \ {IF back THEN Back(p) ELSE p}
    BY DEF DeleteFollow
  <1>4. \A x \in Pair : x \notin {p, Back(p)} => Kept(x)
    BY <1>2, <1>3, SyncedSame DEF Kept, sets
  <1>5. CASE r.todo \in {U1, B3} /\ ~back
    <2>1. /\ p \notin follows' /\ (Synced(Back(p)) => Synced(Back(p))')
          /\ (Held(p) => Held(p)') /\ (Held(Back(p)) => Held(Back(p))')
          /\ (NoBlock(p) => NoBlock(p)') /\ (NoFollow(p) => NoFollow(p)')
      BY <1>1, <1>2, <1>3, <1>5, SyncedSame DEF Held, NoBlock, NoFollow, sets
    <2>2. CASE r.op = "unfollow" /\ r.todo = U1
      <3>1. Good(p)
        BY <2>2, UnfollowTodo DEF Stage, AtRest
      <3>2. Stage(p, r.op, "sremFollowing")'
        BY <2>1, <2>2, <3>1 DEF Stage, AtRest, Good
      <3>3. Tail(r.todo) # <<>> /\ Head(Tail(r.todo)) = "sremFollowing"
        BY <2>2, UnfollowTodo
      <3> QED BY <1>2, <1>4, <3>2, <3>3, Written
    <2>3. CASE r.op = "block" /\ r.todo = B3
      <3>1. Held(Back(p)) /\ Synced(Back(p))
        BY <2>3, BlockTodo DEF Stage
      <3>2. Stage(p, r.op, "deleteFollowBack")'
        BY <2>1, <2>3, <3>1 DEF Stage, AtRest
      <3>3. Tail(r.todo) # <<>> /\ Head(Tail(r.todo)) = "deleteFollowBack"
        BY <2>3, BlockTodo
      <3> QED BY <1>2, <1>4, <3>2, <3>3, Written
    <2>4. Head(r.todo) = "deleteFollow"
      BY <1>5, UnfollowTodo, BlockTodo
    <2> QED BY <2>2, <2>3, <2>4, Where
  <1>6. CASE r.todo = B4 /\ r.op = "block" /\ back
    <2>1. Held(Back(p)) /\ p \notin follows
      BY <1>6, BlockTodo DEF Stage
    <2>2. Held(Back(p))' /\ p \notin follows' /\ Back(p) \notin follows'
      BY <1>1, <1>2, <1>3, <1>6, <2>1 DEF Held, sets
    <2>3. Stage(p, r.op, "sremFollowing")'
      BY <1>6, <2>2 DEF Stage, AtRest
    <2>4. Tail(r.todo) # <<>> /\ Head(Tail(r.todo)) = "sremFollowing"
      BY <1>6, BlockTodo
    <2> QED BY <1>2, <1>4, <2>3, <2>4, Written
  <1>7. Head(r.todo) = IF back THEN "deleteFollowBack" ELSE "deleteFollow"
    BY DEF DeleteFollow, At
  <1> QED BY <1>5, <1>6, <1>7, Where

LEMMA SRemWrites ==
  ASSUME Typed, NEW q \in Active, NEW r \in UpTo, r = request[q],
         Stage(r.pair, r.op, Head(r.todo)), NEW back \in BOOLEAN, SRemFollowing(q, back)
  PROVE  Wrote(q, r)
  <1> PICK p : p = r.pair
    OBVIOUS
  <1> PICK y : y = IF back THEN Back(p) ELSE p
    OBVIOUS
  <1>1. p \in Pair /\ Back(p) \in Pair /\ Back(p) # p /\ Back(Back(p)) = p
    BY BackBack DEF UpTo, RequestState
  <1>2. /\ Proceed(q) /\ UNCHANGED <<rows, blocked, lapsed, lookup>>
        /\ expiring' = StillThere(expiring) /\ endless' = StillThere(endless)
    BY DEF SRemFollowing
  <1>3. following' = [following EXCEPT ![y[1]] = @ \ {y[2]}]
    BY DEF SRemFollowing
  <1>4. following \in [User -> SUBSET User] /\ y \in Pair
    BY <1>1 DEF Typed, TypeOK
  <1>5. /\ y[2] \notin following'[y[1]]
        /\ \A x \in Pair : x # y => (x[2] \in following'[x[1]] <=> x[2] \in following[x[1]])
    BY <1>3, <1>4, SamePair DEF Pair
  <1>6. ASSUME NEW x \in Pair, x # y PROVE Kept(x)
    <2>1. following' \in [User -> SUBSET User] /\ x[1] \in User /\ expiring \subseteq User
      BY <1>3, <1>4 DEF Pair, Typed, TypeOK
    <2>2. x[2] \in following'[x[1]] /\ Filled(x[1]) => Filled(x[1])'
      BY <1>2, <2>1 DEF Filled, Asking, StillThere
    <2>3. Synced(x) => Synced(x)'
      BY <1>2, <1>5, <1>6, <2>2, SyncedStep DEF rows
    <2> QED BY <1>2, <2>3 DEF Kept, rows
  <1>7. \A x \in Pair : Kept(x) \/ x \in {p, Back(p)}
    BY <1>6
  <1>8. /\ y \notin follows => Synced(y)'
        /\ Synced(Back(y)) => Synced(Back(y))'
    <2>1. y \notin follows => Synced(y)'
      BY <1>2, <1>5 DEF Synced, Agrees, rows
    <2>2. Kept(Back(y))
      BY <1>1, <1>4, <1>6, BackBack
    <2> QED BY <2>1, <2>2 DEF Kept
  <1>9. /\ Held(p) => Held(p)'
        /\ Held(Back(p)) => Held(Back(p))'
        /\ NoBlock(p) => NoBlock(p)'
        /\ NoFollow(p) => NoFollow(p)'
        /\ follows' = follows
    BY <1>2 DEF Held, NoBlock, NoFollow, rows
  <1>10. CASE r.op = "unfollow" /\ r.todo = U2 /\ ~back
    <2>1. /\ p \notin follows /\ Synced(Back(p)) /\ Held(p) /\ Held(Back(p))
          /\ NoBlock(p) \/ NoFollow(p)
      BY <1>10, UnfollowTodo DEF Stage
    <2>2. Synced(p)' /\ Synced(Back(p))'
      BY <1>8, <1>10, <2>1
    <2>3. Good(p)'
      BY <1>9, <2>1, <2>2 DEF Good
    <2>4. Tail(r.todo) = <<>>
      BY <1>10, UnfollowTodo
    <2> QED BY <1>2, <1>7, <2>3, <2>4, Written
  <1>11. CASE r.op = "block" /\ r.todo = B5 /\ ~back
    <2>1. Held(Back(p)) /\ p \notin follows /\ Back(p) \notin follows
      BY <1>11, BlockTodo DEF Stage
    <2>2. Synced(p)'
      BY <1>8, <1>11, <2>1
    <2>3. Stage(p, r.op, "sremFollowingBack")'
      BY <1>9, <1>11, <2>1, <2>2 DEF Stage, AtRest
    <2>4. Tail(r.todo) # <<>> /\ Head(Tail(r.todo)) = "sremFollowingBack"
      BY <1>11, BlockTodo
    <2> QED BY <1>2, <1>7, <2>3, <2>4, Written
  <1>12. CASE r.op = "block" /\ r.todo = B6 /\ back
    <2>1. Held(Back(p)) /\ Synced(p) /\ p \notin follows /\ Back(p) \notin follows
      BY <1>12, BlockTodo DEF Stage
    <2>2. Synced(p)' /\ Synced(Back(p))'
      BY <1>1, <1>8, <1>12, <2>1
    <2>3. Stage(p, r.op, "saddBlocked")'
      BY <1>9, <1>12, <2>1, <2>2 DEF Stage, AtRest
    <2>4. Tail(r.todo) # <<>> /\ Head(Tail(r.todo)) = "saddBlocked"
      BY <1>12, BlockTodo
    <2> QED BY <1>2, <1>7, <2>3, <2>4, Written
  <1>13. Head(r.todo) = IF back THEN "sremFollowingBack" ELSE "sremFollowing"
    BY DEF SRemFollowing, At
  <1> QED BY <1>10, <1>11, <1>12, <1>13, Where

LEMMA BlockWrites ==
  ASSUME Typed, NEW q \in Active, NEW r \in UpTo, r = request[q],
         Stage(r.pair, r.op, Head(r.todo)), InsertBlock(q) \/ DeleteBlock(q)
  PROVE  Wrote(q, r)
  <1> PICK p : p = r.pair
    OBVIOUS
  <1>1. p \in Pair /\ Back(p) \in Pair /\ Back(p) # p
    BY BackBack DEF UpTo, RequestState
  <1>2. CASE InsertBlock(q)
    <2>1. r.todo = B2 /\ r.op = "block"
      BY <1>2, Where DEF InsertBlock, At
    <2>2. Good(p)
      BY <2>1, BlockTodo DEF Stage, AtRest
    <2>3. Proceed(q) /\ blocks' = blocks \cup {p} /\ UNCHANGED <<follows, sets, fills>>
      BY <1>2 DEF InsertBlock
    <2>4. \A x \in Pair : x # p => Kept(x)
      BY <2>3, SyncedSame DEF Kept, sets
    <2>5. Held(Back(p))' /\ Synced(p)' /\ Synced(Back(p))'
      BY <1>1, <2>2, <2>3, SyncedSame DEF Good, Held, sets
    <2>6. Stage(p, r.op, "deleteFollow")'
      BY <2>1, <2>5 DEF Stage, AtRest
    <2>7. Tail(r.todo) # <<>> /\ Head(Tail(r.todo)) = "deleteFollow"
      BY <2>1, BlockTodo
    <2> QED BY <2>3, <2>4, <2>6, <2>7, Written
  <1>3. CASE DeleteBlock(q)
    <2>1. r.todo = N1 /\ r.op = "unblock"
      BY <1>3, Where DEF DeleteBlock, At
    <2>2. Good(p)
      BY <2>1, UnblockTodo DEF Stage, AtRest
    <2>3. Proceed(q) /\ blocks' = blocks \ {p} /\ UNCHANGED <<follows, sets, fills>>
      BY <1>3 DEF DeleteBlock
    <2>4. \A x \in Pair : x # p => Kept(x)
      BY <2>3, SyncedSame DEF Kept, sets
    <2>5. Good(p)' /\ p \notin blocks'
      BY <1>1, <2>2, <2>3, SyncedSame DEF Good, Held, NoBlock, NoFollow, sets
    <2>6. Stage(p, r.op, "sremBlocked")'
      BY <2>1, <2>5 DEF Stage, AtRest
    <2>7. Tail(r.todo) # <<>> /\ Head(Tail(r.todo)) = "sremBlocked"
      BY <2>1, UnblockTodo
    <2> QED BY <2>3, <2>4, <2>6, <2>7, Written
  <1> QED BY <1>2, <1>3

LEMMA BlockedWrites ==
  ASSUME Typed, NEW q \in Active, NEW r \in UpTo, r = request[q],
         Stage(r.pair, r.op, Head(r.todo)), ChangeBlocked(q) \/ SetFlag(q)
  PROVE  Wrote(q, r)
  <1> PICK p : p = r.pair
    OBVIOUS
  <1>1. p \in Pair /\ Back(p) \in Pair /\ Back(p) # p
    BY BackBack DEF UpTo, RequestState
  <1>2. Proceed(q) /\ UNCHANGED <<rows, following, fills>>
    BY DEF ChangeBlocked, SetFlag
  <1>3. blocked \in [User -> SUBSET User]
    BY DEF Typed, TypeOK
  <1>4. CASE At(q, "saddBlocked") /\ blocked' = [blocked EXCEPT ![p[1]] = @ \cup {p[2]}]
    <2>1. r.todo = B7 /\ r.op = "block"
      BY <1>4, Where DEF At
    <2>2. /\ Held(Back(p)) /\ Synced(p) /\ Synced(Back(p))
          /\ p \notin follows /\ Back(p) \notin follows
      BY <2>1, BlockTodo DEF Stage
    <2>3. /\ p[2] \in blocked'[p[1]]
          /\ \A x \in Pair : x # p => (x[2] \in blocked'[x[1]] <=> x[2] \in blocked[x[1]])
      BY <1>1, <1>3, <1>4, SamePair DEF Pair
    <2>4. \A x \in Pair : x # p => Kept(x)
      BY <1>2, <2>3, SyncedSame DEF Kept, rows
    <2>5. Good(p)'
      BY <1>1, <1>2, <2>2, <2>3, SyncedSame DEF Good, Held, NoFollow, rows
    <2>6. Stage(p, r.op, "setFlag")'
      BY <2>5 DEF Stage
    <2>7. Tail(r.todo) # <<>> /\ Head(Tail(r.todo)) = "setFlag"
      BY <2>1, BlockTodo
    <2> QED BY <1>2, <2>4, <2>6, <2>7, Written
  <1>5. CASE At(q, "sremBlocked") /\ blocked' = [blocked EXCEPT ![p[1]] = @ \ {p[2]}]
    <2>1. r.todo = N2 /\ r.op = "unblock"
      BY <1>5, Where DEF At
    <2>2. Good(p) /\ p \notin blocks
      BY <2>1, UnblockTodo DEF Stage, AtRest
    <2>3. \A x \in Pair : x # p => (x[2] \in blocked'[x[1]] <=> x[2] \in blocked[x[1]])
      BY <1>1, <1>3, <1>5, SamePair DEF Pair
    <2>4. \A x \in Pair : x # p => Kept(x)
      BY <1>2, <2>3, SyncedSame DEF Kept, rows
    <2>5. Good(p)'
      BY <1>1, <1>2, <2>2, <2>3, SyncedSame DEF Good, Held, NoFollow, NoBlock, rows
    <2>6. Stage(p, r.op, "setFlag")'
      BY <2>5 DEF Stage
    <2>7. Tail(r.todo) # <<>> /\ Head(Tail(r.todo)) = "setFlag"
      BY <2>1, UnblockTodo
    <2> QED BY <1>2, <2>4, <2>6, <2>7, Written
  <1>6. CASE SetFlag(q)
    <2>1. r.todo \in {B8, N3} /\ Head(r.todo) = "setFlag"
      BY <1>6, Where DEF SetFlag, At
    <2>2. Good(p)
      BY <2>1 DEF Stage, AtRest
    <2>3. \A x : Kept(x)
      BY <1>2, <1>6, SyncedSame DEF Kept, SetFlag, rows
    <2>4. Good(p)'
      BY <1>1, <2>2, <2>3, GoodKept
    <2>5. Tail(r.todo) = <<>>
      BY <2>1, BlockTodo, UnblockTodo
    <2> QED BY <1>2, <2>3, <2>4, <2>5, Written
  <1> QED BY <1>4, <1>5, <1>6 DEF ChangeBlocked

\* The calls of one that interacts or comments.
Looking(q) ==
  ExistsFlag(q) \/ SMembers(q) \/ ReadBlockedIDs(q) \/ SAddRead(q) \/ SetReadFlag(q)
    \/ ContainsID(q) \/ Answer(q)

LEMMA StepKind ==
  ASSUME Typed, NEW q \in Active, NEW r \in UpTo, r = request[q], Step(q)
  PROVE  IF r.op \in Reads
         THEN Looking(q)
         ELSE \/ Check(q) \/ InsertFollow(q) \/ SAddFollowing(q)
              \/ \E back \in BOOLEAN : DeleteFollow(q, back) \/ SRemFollowing(q, back)
              \/ InsertBlock(q) \/ DeleteBlock(q) \/ ChangeBlocked(q) \/ SetFlag(q)
  <1>1. CASE Looking(q)
    <2>1. Head(r.todo) \in {"exists", "contains", "allowed", "refused", "smembers",
                            "readBlocked", "saddRead", "setReadFlag"}
      BY <1>1 DEF Looking, ExistsFlag, SMembers, ReadBlockedIDs, SAddRead, SetReadFlag,
                  ContainsID, Answer, At
    <2> QED BY <1>1, <2>1, Where
  <1>2. CASE ~Looking(q)
    <2>1. \/ Check(q) \/ InsertFollow(q) \/ SAddFollowing(q)
          \/ \E back \in BOOLEAN : DeleteFollow(q, back) \/ SRemFollowing(q, back)
          \/ InsertBlock(q) \/ DeleteBlock(q) \/ ChangeBlocked(q) \/ SetFlag(q)
      BY <1>2 DEF Step, Looking
    <2>2. Head(r.todo) \in {"checkEitherWay", "checkBlocked", "insertFollow", "saddFollowing",
                            "deleteFollow", "deleteFollowBack", "sremFollowing",
                            "sremFollowingBack", "insertBlock", "deleteBlock", "saddBlocked",
                            "sremBlocked", "setFlag"}
      BY <2>1 DEF Check, InsertFollow, SAddFollowing, DeleteFollow, SRemFollowing, InsertBlock,
                  DeleteBlock, ChangeBlocked, SetFlag, At
    <2>3. r.op \notin Reads
      BY <2>2, Where
    <2> QED BY <2>1, <2>3
  <1> QED BY <1>1, <1>2

LEMMA LookingKeeps ==
  ASSUME Typed, NEW q \in Active, Looking(q) \/ Fail(q)
  PROVE  \A x \in Pair : Kept(x)
  <1>1. CASE SAddRead(q)
    <2>1. \A x \in Pair : x[1] \in User
      BY DEF Pair
    <2>2. blocked \in [User -> SUBSET User]
      BY DEF Typed, TypeOK
    <2>3. blocked' = [blocked EXCEPT ![request[q].of] = @ \cup request[q].ids]
      BY <1>1 DEF SAddRead
    <2>4. \A x \in Pair : x[2] \in blocked[x[1]] => x[2] \in blocked'[x[1]]
      BY <2>1, <2>2, <2>3
    <2> QED BY <1>1, <2>4, SyncedSame DEF SAddRead, Kept, rows
  <1>2. CASE ~SAddRead(q)
    <2>1. UNCHANGED <<follows, blocks, following, blocked, fills>>
      BY <1>2 DEF Looking, Fail, ExistsFlag, SMembers, ReadBlockedIDs, SetReadFlag, ContainsID,
                  Answer, rows, sets
    <2> QED BY <2>1, SyncedSame DEF Kept
  <1> QED BY <1>1, <1>2

\* A step of no request.
LEMMA PairsStay ==
  ASSUME Typed, PairsInv, request' = request, \A x \in Pair : Kept(x)
  PROVE  PairsInv'
  <1>1. OneWriter'
    BY DEF PairsInv, OneWriter, Writer, Active
  <1>2. ASSUME NEW y \in Pair, ~Writing(y)' PROVE Good(y)'
    <2>1. Good(y)
      BY <1>2 DEF Writing, Active, PairsInv, Calm
    <2> QED BY <2>1, GoodKept, BackBack
  <1>3. ASSUME NEW q \in Request, Writer(q)'
        PROVE  Stage(request[q].pair, request[q].op, Head(request[q].todo))'
    <2> PICK v : v = request[q]
      OBVIOUS
    <2> PICK y, op, c : y = v.pair /\ op = v.op /\ c = Head(v.todo)
      OBVIOUS
    <2>1. Writer(q) /\ v \in UpTo
      BY <1>3 DEF Writer, Active, Typed
    <2>2. y \in Pair /\ Stage(y, op, c)
      BY <2>1 DEF PairsInv, Staged, UpTo, RequestState
    <2>3. Stage(y, op, c)'
      BY <2>2, StageKept, BackBack
    <2> QED BY <2>3 DEF Stage, Good, Synced, Agrees, Filled, Asking, Held, NoFollow, NoBlock
  <1> QED BY <1>1, <1>2, <1>3 DEF PairsInv, Calm, Staged

\* A set stays filled through the steps of a look-up that is not at its end.
LEMMA FilledStays ==
  ASSUME NEW l \in Lookup, ~Asking(l, "expire"),
         \A m \in Lookup : m # l => lookup'[m] = lookup[m],
         UNCHANGED <<expiring, endless>>, NEW u, Filled(u)
  PROVE  Filled(u)'
  BY DEF Filled, Asking

LEMMA FillingKeeps ==
  ASSUME Typed, Filling
  PROVE  \A x \in Pair : Kept(x)
  <1> SUFFICES ASSUME NEW x \in Pair PROVE Kept(x)
    OBVIOUS
  <1>1. x[1] \in User /\ x[2] \in User /\ x = <<x[1], x[2]>>
    BY DEF Pair
  <1>2. FillsTyped /\ following \in [User -> SUBSET User]
    BY DEF Typed, TypeOK, FillsTyped
  <1>3. UNCHANGED <<rows, blocked>>
    BY DEF Filling, LookupStep, Unanswered, ExistsFollow, ReadFollows, SAddFollows, SetExpiry,
           FailLookup, sets
  <1>4. SUFFICES ASSUME Synced(x) PROVE Synced(x)'
    BY <1>3 DEF Kept, rows
  <1>5. ASSUME NEW l \in Lookup, ~Asking(l, "expire"),
               \A m \in Lookup : m # l => lookup'[m] = lookup[m],
               UNCHANGED <<following, ages>>
        PROVE  Synced(x)'
    <2>1. Filled(x[1]) => Filled(x[1])'
      BY <1>5, FilledStays DEF ages
    <2> QED BY <1>3, <1>4, <1>5, <2>1, SyncedStep DEF rows, ages
  <1>6. \A l \in Lookup :
          /\ Over(l) => \A m \in Lookup : m # l => lookup'[m] = lookup[m]
          /\ \A d, S : Later(l, d, S) => \A m \in Lookup : m # l => lookup'[m] = lookup[m]
    BY <1>2 DEF Over, Later, FillsTyped
  <1>7. CASE \E l \in Lookup, p \in Pair, one \in BOOLEAN : Unanswered(l, p, one)
    <2> PICK l \in Lookup, p \in Pair, one \in BOOLEAN : Unanswered(l, p, one)
      BY <1>7
    <2>1. ~Asking(l, "expire")
      BY DEF Unanswered, Asking
    <2>2. \A m \in Lookup : m # l => lookup'[m] = lookup[m]
      BY <1>2 DEF Unanswered, FillsTyped
    <2> QED BY <1>5, <2>1, <2>2 DEF Unanswered, sets
  <1>8. ASSUME NEW l \in Lookup, ExistsFollow(l) \/ ReadFollows(l) PROVE Synced(x)'
    <2>1. ~Asking(l, "expire")
      BY <1>8 DEF ExistsFollow, ReadFollows, Asking
    <2>2. \A m \in Lookup : m # l => lookup'[m] = lookup[m]
      BY <1>6, <1>8 DEF ExistsFollow, ReadFollows
    <2> QED BY <1>5, <1>8, <2>1, <2>2 DEF ExistsFollow, ReadFollows, sets
  <1>9. ASSUME NEW l \in Lookup, SAddFollows(l) PROVE Synced(x)'
    <2> PICK r \in LookupState : r = lookup[l]
      BY <1>2, <1>9, LookupMoves DEF SAddFollows
    <2>1. r.of \in User /\ r.ids \subseteq User
      BY DEF LookupState
    <2>2. /\ following' = [following EXCEPT ![r.of] = @ \cup r.ids]
          /\ lapsed' = lapsed \ ({r.of} \X r.ids)
          /\ UNCHANGED <<expiring, endless>> /\ Later(l, "expire", {})
      BY <1>9 DEF SAddFollows
    <2>3. CASE x[1] = r.of
      <3>1. lookup'[l] # NoLookup /\ lookup'[l].next = "expire" /\ lookup'[l].of = r.of
        BY <1>2, <1>9, <2>2, LookupMoves DEF SAddFollows
      <3>2. Filled(x[1])'
        BY <2>3, <3>1 DEF Filled, Asking
      <3>3. following'[x[1]] = following[x[1]] \cup r.ids
        BY <1>1, <1>2, <2>2, <2>3
      <3>4. x \in lapsed => x \in lapsed' \/ x[2] \in r.ids
        BY <1>1, <2>2
      <3> QED BY <1>3, <1>4, <3>2, <3>3, <3>4 DEF Synced, Agrees, rows
    <2>4. CASE x[1] # r.of
      <3>1. following'[x[1]] = following[x[1]] /\ (x \in lapsed => x \in lapsed')
        BY <1>1, <1>2, <2>1, <2>2, <2>4
      <3>2. Filled(x[1]) => Filled(x[1])'
        BY <1>6, <1>9, <2>2, FilledStays DEF SAddFollows, Asking
      <3> QED BY <1>3, <1>4, <3>1, <3>2, SyncedStep DEF rows
    <2> QED BY <2>3, <2>4
  \* The set of u is filled by nobody any more, it expires or is left for good.
  <1>10. ASSUME NEW l \in Lookup, Asking(l, "expire"), Over(l), UNCHANGED <<following, lapsed>>,
                following[lookup[l].of] # {} => lookup[l].of \in expiring' \cup endless',
                \A u \in User : u # lookup[l].of =>
                   (u \in expiring \cup endless => u \in expiring' \cup endless')
         PROVE  Synced(x)'
    <2>1. x[2] \in following'[x[1]] /\ Filled(x[1]) => Filled(x[1])'
      <3> SUFFICES ASSUME x[2] \in following[x[1]], Filled(x[1]) PROVE Filled(x[1])'
        BY <1>10
      <3>1. CASE x[1] = lookup[l].of
        BY <1>10, <3>1 DEF Filled
      <3>2. CASE x[1] # lookup[l].of
        <4>1. CASE x[1] \in expiring \cup endless
          BY <1>1, <1>10, <3>2, <4>1 DEF Filled
        <4>2. CASE \E m \in Lookup : Asking(m, "expire") /\ lookup[m].of = x[1]
          <5> PICK m \in Lookup : Asking(m, "expire") /\ lookup[m].of = x[1]
            BY <4>2
          <5>1. lookup'[m] = lookup[m]
            BY <1>6, <1>10, <3>2
          <5> QED BY <5>1 DEF Filled, Asking
        <4> QED BY <4>1, <4>2 DEF Filled
      <3> QED BY <3>1, <3>2
    <2> QED BY <1>3, <1>4, <1>10, <2>1, SyncedStep DEF rows
  <1>11. ASSUME NEW l \in Lookup, SetExpiry(l) PROVE Synced(x)'
    BY <1>10, <1>11 DEF SetExpiry, sets
  <1>12. ASSUME NEW l \in Lookup, FailLookup(l) PROVE Synced(x)'
    <2>1. CASE Asking(l, "expire")
      <3>1. /\ Over(l) /\ UNCHANGED <<following, expiring, lapsed>>
            /\ endless' = IF following[lookup[l].of] = {} THEN endless
                                                         ELSE endless \cup {lookup[l].of}
        BY <1>12, <2>1 DEF FailLookup, Asking, sets
      <3> QED BY <1>10, <2>1, <3>1
    <2>2. CASE ~Asking(l, "expire")
      <3>1. UNCHANGED <<following, ages>>
        BY <1>12, <2>2 DEF FailLookup, sets
      <3>2. \A m \in Lookup : m # l => lookup'[m] = lookup[m]
        BY <1>6, <1>12, <2>2 DEF FailLookup
      <3> QED BY <1>5, <2>2, <3>1, <3>2
    <2> QED BY <2>1, <2>2
  <1> QED BY <1>7, <1>8, <1>9, <1>11, <1>12 DEF Filling, LookupStep

LEMMA ExpiryKeeps ==
  ASSUME Typed, NEW u \in User, ExpireFollowing(u)
  PROVE  \A x \in Pair : Kept(x)
  <1> SUFFICES ASSUME NEW x \in Pair PROVE Kept(x)
    OBVIOUS
  <1>1. x[1] \in User /\ x[2] \in User /\ x = <<x[1], x[2]>>
    BY DEF Pair
  <1>2. following \in [User -> SUBSET User]
    BY DEF Typed, TypeOK
  <1>3. /\ following' = [following EXCEPT ![u] = {}]
        /\ expiring' = expiring \ {u} /\ endless' = endless \ {u}
        /\ lapsed' = lapsed \cup ({u} \X following[u])
        /\ UNCHANGED <<rows, blocked, lookup>>
    BY DEF ExpireFollowing
  <1>4. SUFFICES ASSUME Synced(x) PROVE Synced(x)'
    BY <1>3 DEF Kept, rows
  <1>5. CASE x[1] = u
    <2>1. following'[x[1]] = {} /\ (x[2] \in following[x[1]] => x \in lapsed')
      BY <1>1, <1>2, <1>3, <1>5
    <2> QED BY <1>3, <1>4, <2>1 DEF Synced, Agrees, rows
  <1>6. CASE x[1] # u
    <2>1. following'[x[1]] = following[x[1]] /\ (x \in lapsed => x \in lapsed')
      BY <1>1, <1>2, <1>3, <1>6
    <2>2. Filled(x[1]) => Filled(x[1])'
      BY <1>3, <1>6 DEF Filled, Asking
    <2> QED BY <1>3, <1>4, <2>1, <2>2, SyncedStep DEF rows
  <1> QED BY <1>5, <1>6

LEMMA PairsInit == Init => PairsInv
  <1> SUFFICES ASSUME Init PROVE PairsInv
    OBVIOUS
  <1>1. Active = {}
    BY DEF Init, Active
  <1>2. OneWriter /\ Staged
    BY <1>1 DEF OneWriter, Staged, Writer
  <1>3. Calm
    <2> SUFFICES ASSUME NEW p \in Pair PROVE Good(p)
      BY DEF Calm
    <2>1. p[1] \in User /\ Back(p)[1] \in User
      BY DEF Pair, Back
    <2> QED BY <2>1 DEF Init, Good, Synced, Agrees, Held, NoBlock
  <1> QED BY <1>2, <1>3 DEF PairsInv

PairsIfCalm == ~disturbed => PairsInv

LEMMA PairsStep == Typed /\ PairsIfCalm /\ [Next]_vars => PairsIfCalm'
  <1> SUFFICES ASSUME Typed, PairsIfCalm, [Next]_vars, ~disturbed'
               PROVE  PairsInv'
    BY DEF PairsIfCalm
  <1>1. ASSUME NEW q \in Request, NEW op \in Op, NEW p \in Pair, Start(q, op, p)
        PROVE  PairsInv'
    BY <1>1, PairsStart DEF PairsIfCalm
  <1>2. ASSUME NEW q \in Request, Step(q) \/ Fail(q) PROVE PairsInv'
    <2>1. q \in Active /\ \E w : Becomes(q, request[q], w)
      BY <1>2, Outcome
    <2> PICK r \in UpTo : r = request[q]
      BY <2>1, ActiveUpTo
    <2>2. ~disturbed
      BY <1>2 DEF Step, Fail, Check, InsertFollow, DeleteFollow, SRemFollowing, InsertBlock,
                  DeleteBlock, SAddFollowing, ChangeBlocked, SetFlag, ExistsFlag, SMembers,
                  ReadBlockedIDs, SAddRead, SetReadFlag, ContainsID, Answer, bounds
    <2>3. PairsInv
      BY <2>2 DEF PairsIfCalm
    <2>4. CASE r.op \in Reads
      <3>1. Looking(q) \/ Fail(q)
        BY <1>2, <2>1, <2>4, StepKind
      <3>2. \A x \in Pair : Kept(x)
        BY <2>1, <3>1, LookingKeeps
      <3> PICK w : Becomes(q, r, w)
        BY <2>1
      <3> QED BY <2>1, <2>3, <2>4, <3>2, PairsMove
    <2>5. CASE r.op \notin Reads
      <3>1. Step(q)
        BY <1>2, <2>5 DEF Fail
      <3>2. Stage(r.pair, r.op, Head(r.todo))
        BY <2>1, <2>3, <2>5 DEF PairsInv, Staged, Writer, Active
      <3>3. Wrote(q, r)
        BY <2>1, <2>5, <3>1, <3>2, StepKind, CheckWrites, FollowWrites, DeleteWrites, SRemWrites,
           BlockWrites, BlockedWrites
      <3> PICK w : /\ Becomes(q, r, w)
                   /\ \A x \in Pair : Kept(x) \/ x \in {r.pair, Back(r.pair)}
                   /\ IF w = NoRequest THEN Good(r.pair)'
                                       ELSE Stage(r.pair, r.op, Head(w.todo))'
        BY <3>3 DEF Wrote
      <3> QED BY <2>1, <2>3, <2>5, PairsMove
    <2> QED BY <2>4, <2>5
  <1>3. CASE \/ \E u \in User : ExpireFlag(u) \/ ExpireFollowing(u)
             \/ Filling \/ UNCHANGED vars
    <2>1. \A x \in Pair : Kept(x)
      <3>1. CASE (\E u \in User : ExpireFlag(u)) \/ UNCHANGED vars
        <4>1. UNCHANGED <<rows, following, blocked, fills>>
          BY <3>1 DEF ExpireFlag, vars, sets
        <4> QED BY <4>1, SyncedSame DEF Kept, rows
      <3> QED BY <1>3, <3>1, FillingKeeps, ExpiryKeeps
    <2>2. UNCHANGED <<request, disturbed>>
      BY <1>3 DEF ExpireFlag, ExpireFollowing, Filling, LookupStep, Unanswered, ExistsFollow,
                  ReadFollows, SAddFollows, SetExpiry, FailLookup, vars, bounds
    <2>3. PairsInv
      BY <2>2 DEF PairsIfCalm
    <2> QED BY <2>1, <2>2, <2>3, PairsStay
  <1>4. ~\E u \in User : DeleteUser(u)
    BY DEF DeleteUser
  <1> QED BY <1>1, <1>2, <1>3, <1>4 DEF Next, Filling

(***************************************************************************)
(* Until two requests write on the same two users at a time or a call of   *)
(* one that writes fails: wherever nobody is writing, a cached following   *)
(* set lacks a follow only if it expired with it, holds one that is no     *)
(* more only if a look-up filled it, and nobody follows across a block;    *)
(* whatever calls of look-ups fail.                                        *)
(***************************************************************************)
THEOREM FollowsRightHolds == Spec => []FollowsRight
  <1>1. Init => Typed /\ PairsIfCalm
    BY TypedInit, PairsInit DEF PairsIfCalm
  <1>2. Typed /\ PairsIfCalm /\ [Next]_vars => (Typed /\ PairsIfCalm)'
    BY TypedStep, PairsStep
  <1>3. Typed /\ PairsIfCalm => FollowsRight
    <2> SUFFICES ASSUME Typed, PairsInv PROVE FollowingAgrees /\ NoFollowAcrossBlock
      BY DEF PairsIfCalm, FollowsRight
    <2>1. FollowingAgrees
      BY DEF PairsInv, Calm, Good, Synced, FollowingAgrees
    <2>2. blocks \subseteq Pair
      BY DEF Typed, TypeOK
    <2>3. NoFollowAcrossBlock
      BY <2>2 DEF PairsInv, Calm, Good, NoBlock, NoFollow, NoFollowAcrossBlock
    <2> QED BY <2>1, <2>3
  <1> QED BY <1>1, <1>2, <1>3, PTL DEF Spec
-----------------------------------------------------------------------------
(***************************************************************************)
(* What an interaction that must be refused knows.                         *)
(***************************************************************************)
\* The block is on record, and in the set of the one who has blocked.
Settled(p) == p \in blocks /\ p[2] \in blocked[p[1]]

First == BeforeC1 \cup AtC1   \* it looks at the set of the actor
Second == BeforeC2 \cup AtC2  \* it looks at the set of the author

Warned(r) ==
  LET p == r.pair
      c == Head(r.todo)
  IN  /\ r.todo \in First => r.of = p[1]
      /\ r.todo \in Second => r.of = p[2]
      /\ c \in {"exists", "smembers", "readBlocked"} =>
           Settled(Back(p)) \/ (r.of = p[1] /\ Settled(p))
      /\ c \in {"saddRead", "setReadFlag", "contains"} =>
           IF r.of = p[1] THEN p[2] \in r.ids \/ Settled(Back(p)) ELSE p[1] \in r.ids
      /\ c # "allowed"

Must(q) == q \in Active /\ request[q].op = "interact" /\ request[q].must

\* Nobody is lifting the block of x.
Unlifted(x) == \A q \in Active : request[q].op = "unblock" => request[q].pair \notin {x, Back(x)}

MustInv ==
  \A q \in Request : Must(q) => Warned(request[q]) /\ Unlifted(request[q].pair)

LEMMA Phases ==
  /\ First \cap Second = {}
  /\ \A r \in UpTo : Head(r.todo) \in {"exists", "smembers", "readBlocked", "saddRead",
                                       "setReadFlag", "contains"}
                       => r.todo \in First \cup Second
  /\ A \notin First \cup Second /\ X \notin First \cup Second
  <1>1. /\ Head(Cached(C1)) = "smembers" /\ Head(Cached(C2)) = "smembers"
        /\ Head(Read1(C1)) = "readBlocked" /\ Head(Read1(C2)) = "readBlocked"
        /\ Head(Read2(C1)) = "saddRead" /\ Head(Read2(C2)) = "saddRead"
        /\ Head(Read3(C1)) = "setReadFlag" /\ Head(Read3(C2)) = "setReadFlag"
    BY ReadTodo
  <1>2. /\ Head(E1) = "exists" /\ Head(E2) = "exists"
        /\ Head(C1) = "contains" /\ Head(C2) = "contains"
    BY InteractTodo
  <1>3. ASSUME NEW t \in First, t \in Second PROVE FALSE
    <2>1. C1 # C2
      BY InteractTodo DEF E2, A
    <2>2. Read3(C1) # Read3(C2)
      BY <2>1, ReadTodo
    <2>3. Read2(C1) # Read2(C2)
      BY <2>2, ReadTodo
    <2>4. Read1(C1) # Read1(C2) /\ Cached(C1) # Cached(C2)
      BY <2>1, <2>3, ReadTodo
    <2>5. E1 # E2
      BY <2>1, InteractTodo
    <2>6. t \in {E1, Cached(C1), Read1(C1), Read2(C1), Read3(C1), C1}
      BY <1>3 DEF First, BeforeC1, AtC1
    <2>7. t \in {E2, Cached(C2), Read1(C2), Read2(C2), Read3(C2), C2}
      BY <1>3 DEF Second, BeforeC2, AtC2
    <2>8. /\ Head(t) = "exists" => t = E1 /\ t = E2
          /\ Head(t) = "smembers" => t = Cached(C1) /\ t = Cached(C2)
          /\ Head(t) = "readBlocked" => t = Read1(C1) /\ t = Read1(C2)
          /\ Head(t) = "saddRead" => t = Read2(C1) /\ t = Read2(C2)
          /\ Head(t) = "setReadFlag" => t = Read3(C1) /\ t = Read3(C2)
          /\ Head(t) = "contains" => t = C1 /\ t = C2
          /\ Head(t) \in {"exists", "smembers", "readBlocked", "saddRead", "setReadFlag",
                          "contains"}
      BY <1>1, <1>2, <2>6, <2>7
    <2> QED BY <2>1, <2>2, <2>3, <2>4, <2>5, <2>8
  <1>4. ASSUME NEW r \in UpTo,
               Head(r.todo) \in {"exists", "smembers", "readBlocked", "saddRead", "setReadFlag",
                                 "contains"}
        PROVE  r.todo \in First \cup Second
    BY <1>4, Where DEF First, Second, BeforeC1, AtC1, BeforeC2, AtC2
  <1>5. \A t \in First \cup Second :
          Head(t) \in {"exists", "smembers", "readBlocked", "saddRead", "setReadFlag", "contains"}
    BY <1>1, <1>2 DEF First, Second, BeforeC1, AtC1, BeforeC2, AtC2
  <1>6. A \notin First \cup Second /\ X \notin First \cup Second
    BY <1>5, InteractTodo
  <1> QED BY <1>3, <1>4, <1>6

\* Only the request that lifts it ends a block, and takes it out of the set.
LEMMA SettledStays ==
  ASSUME Typed, NEW q \in Active, NEW r \in UpTo, r = request[q], Step(q) \/ Fail(q),
         NEW x \in Pair, Settled(x), ~(r.op = "unblock" /\ r.pair = x)
  PROVE  Settled(x)'
  <1>1. x \in blocks /\ x[2] \in blocked[x[1]]
    BY DEF Settled
  <1>2. r.pair \in Pair /\ x[1] \in User
    BY DEF UpTo, RequestState, Pair
  <1>3. x \in blocks'
    <2>1. CASE DeleteBlock(q)
      <3>1. r.op = "unblock"
        BY <2>1, Where DEF DeleteBlock, At
      <3> QED BY <1>1, <2>1, <3>1 DEF DeleteBlock
    <2>2. CASE InsertBlock(q)
      BY <1>1, <2>2 DEF InsertBlock
    <2>3. CASE ~DeleteBlock(q) /\ ~InsertBlock(q)
      BY <1>1, <2>3 DEF Step, Fail, Check, InsertFollow, DeleteFollow, SRemFollowing,
              SAddFollowing, ChangeBlocked, SetFlag, ExistsFlag, SMembers, ReadBlockedIDs,
              SAddRead, SetReadFlag, ContainsID, Answer, rows
    <2> QED BY <2>1, <2>2, <2>3
  <1>4. x[2] \in blocked'[x[1]]
    <2>1. blocked \in [User -> SUBSET User]
      BY DEF Typed, TypeOK
    <2>2. CASE ChangeBlocked(q)
      <3>1. CASE /\ At(q, "saddBlocked")
                 /\ blocked' = [blocked EXCEPT ![r.pair[1]] = @ \cup {r.pair[2]}]
        BY <1>1, <1>2, <2>1, <3>1
      <3>2. CASE /\ At(q, "sremBlocked")
                 /\ blocked' = [blocked EXCEPT ![r.pair[1]] = @ \ {r.pair[2]}]
        <4>1. r.op = "unblock"
          BY <3>2, Where DEF At
        <4>2. ~(x[1] = r.pair[1] /\ x[2] = r.pair[2])
          BY <1>2, <4>1, SamePair
        <4> QED BY <1>1, <1>2, <2>1, <3>2, <4>2
      <3> QED BY <2>2, <3>1, <3>2 DEF ChangeBlocked
    <2>3. CASE SAddRead(q)
      BY <1>1, <1>2, <2>1, <2>3 DEF SAddRead
    <2>4. CASE ~ChangeBlocked(q) /\ ~SAddRead(q)
      BY <1>1, <2>4 DEF Step, Fail, Check, InsertFollow, DeleteFollow, SRemFollowing,
              SAddFollowing, InsertBlock, DeleteBlock, SetFlag, ExistsFlag, SMembers,
              ReadBlockedIDs, SetReadFlag, ContainsID, Answer, sets
    <2> QED BY <2>2, <2>3, <2>4
  <1> QED BY <1>3, <1>4 DEF Settled

\* What the next call is, the calls after it say too.
LEMMA NextPhase ==
  ASSUME NEW r \in UpTo
  PROVE  /\ Head(r.todo) \in {"exists", "smembers"} =>
              \E k \in {C1, C2} :
                /\ Tail(r.todo) = k
                /\ k = C1 <=> r.todo \in First
                /\ \A t \in {Cached(k), Read1(k)} :
                     t \in First \cup Second /\ (t \in First <=> r.todo \in First)
         /\ Head(r.todo) \in {"smembers", "readBlocked", "saddRead", "setReadFlag"} =>
              /\ Tail(r.todo) \in First \cup Second
              /\ Tail(r.todo) \in First <=> r.todo \in First
              /\ Head(Tail(r.todo)) \in {"contains", "saddRead", "setReadFlag"}
  <1>1. ASSUME NEW k \in {C1, C2}
        PROVE  /\ {k, Cached(k), Read1(k), Read2(k), Read3(k)} \subseteq First \cup Second
               /\ \A t \in {Cached(k), Read1(k), Read2(k), Read3(k)} : t \in First <=> k \in First
    <2>1. CASE k = C1
      BY <2>1 DEF First, BeforeC1, AtC1
    <2>2. CASE k = C2
      <3>1. {k, Cached(k), Read1(k), Read2(k), Read3(k)} \subseteq Second
        BY <2>2 DEF Second, BeforeC2, AtC2
      <3> QED BY <3>1, Phases
    <2> QED BY <2>1, <2>2
  <1>2. E1 \in First /\ E2 \in Second /\ C1 \in First /\ C2 \in Second
    BY DEF First, Second, BeforeC1, BeforeC2, AtC1, AtC2
  <1>3. ASSUME Head(r.todo) \in {"exists", "smembers"}
        PROVE  \E k \in {C1, C2} :
                /\ Tail(r.todo) = k
                /\ k = C1 <=> r.todo \in First
                /\ \A t \in {Cached(k), Read1(k)} :
                     t \in First \cup Second /\ (t \in First <=> r.todo \in First)
    <2> PICK k \in {C1, C2} : Tail(r.todo) = k
      BY <1>3, LooksWhere
    <2>1. r.todo \in First <=> k \in First
      <3>1. CASE Head(r.todo) = "exists"
        <4>1. (r.todo = E1 /\ k = C1) \/ (r.todo = E2 /\ k = C2)
          BY <3>1, Where, InteractTodo
        <4> QED BY <1>2, <4>1, Phases
      <3>2. CASE Head(r.todo) = "smembers"
        <4> PICK j \in {C1, C2} : r.todo = Cached(j)
          BY <3>2, Where
        <4>1. j = k
          BY ReadTodo
        <4> QED BY <1>1, <4>1
      <3> QED BY <1>3, <3>1, <3>2
    <2>2. k = C1 <=> k \in First
      BY <1>2, Phases
    <2> QED BY <1>1, <2>1, <2>2
  <1>4. ASSUME Head(r.todo) \in {"smembers", "readBlocked", "saddRead", "setReadFlag"}
        PROVE  /\ Tail(r.todo) \in First \cup Second
               /\ Tail(r.todo) \in First <=> r.todo \in First
               /\ Head(Tail(r.todo)) \in {"contains", "saddRead", "setReadFlag"}
    <2> PICK k \in {C1, C2} : r.todo \in {Cached(k), Read1(k), Read2(k), Read3(k)}
      BY <1>4, Where
    <2>1. Tail(r.todo) \in {k, Read2(k), Read3(k)}
      BY ReadTodo
    <2>2. Head(k) = "contains"
      BY InteractTodo
    <2>3. Head(Tail(r.todo)) \in {"contains", "saddRead", "setReadFlag"}
      BY <2>1, <2>2, ReadTodo
    <2> QED BY <1>1, <2>1, <2>3
  <1> QED BY <1>3, <1>4

\* A step of an interaction that must be refused.
LEMMA WarnedStep ==
  ASSUME Typed, NEW q \in Active, NEW r \in UpTo, r = request[q], r.op = "interact",
         Warned(r), Step(q) \/ Fail(q)
  PROVE  \E w : Becomes(q, r, w) /\ (w # NoRequest => Warned(w)')
  <1> PICK p, c : p = r.pair /\ c = Head(r.todo)
    OBVIOUS
  <1>1. /\ p \in Pair /\ Back(p) \in Pair
        /\ p[1] \in User /\ p[2] \in User /\ p[1] # p[2]
        /\ Back(p)[1] = p[2] /\ Back(p)[2] = p[1]
    BY BackBack DEF UpTo, RequestState, Pair, Back
  <1>2. /\ Settled(p) => Settled(p)'
        /\ Settled(Back(p)) => Settled(Back(p))'
    BY <1>1, SettledStays
  <1>3. /\ r.todo \in First => r.of = p[1]
        /\ r.todo \in Second => r.of = p[2]
        /\ c \in {"exists", "smembers", "readBlocked"} =>
             Settled(Back(p)) \/ (r.of = p[1] /\ Settled(p))
        /\ c \in {"saddRead", "setReadFlag", "contains"} =>
             IF r.of = p[1] THEN p[2] \in r.ids \/ Settled(Back(p)) ELSE p[1] \in r.ids
        /\ c # "allowed"
    BY DEF Warned
  <1>4. c \in {"exists", "smembers", "readBlocked", "saddRead", "setReadFlag", "contains"} =>
          \/ r.todo \in First /\ r.todo \notin Second /\ r.of = p[1]
          \/ r.todo \in Second /\ r.todo \notin First /\ r.of = p[2]
    BY <1>3, Phases
  <1>5. CASE Stop(q)
    BY <1>5, Stops
  <1>6. ASSUME c \in {"exists", "smembers"},
               GoOn(q, <<"smembers">> \o Remaining(q)) \/ GoOn(q, ReadThrough \o Remaining(q))
        PROVE  \E w : Becomes(q, r, w) /\ Warned(w)'
    <2> PICK k \in {C1, C2} :
           /\ Tail(r.todo) = k
           /\ \A t \in {Cached(k), Read1(k)} :
                t \in First \cup Second /\ (t \in First <=> r.todo \in First)
      BY <1>6, NextPhase
    <2> PICK w : /\ Becomes(q, r, w) /\ w # NoRequest
                 /\ w.todo \in {Cached(k), Read1(k)}
                 /\ w.of = r.of /\ w.ids = r.ids
      BY <1>6, Looks
    <2>1. Head(w.todo) \in {"smembers", "readBlocked"}
      BY ReadTodo
    <2>2. w.pair = p
      BY DEF Becomes
    <2>3. /\ w.todo \in First => w.of = p[1]
          /\ w.todo \in Second => w.of = p[2]
      BY <1>4, <1>6, Phases
    <2>4. Settled(Back(p))' \/ (w.of = p[1] /\ Settled(p)')
      BY <1>2, <1>3, <1>6
    <2>5. Warned(w)'
      BY <2>1, <2>2, <2>3, <2>4 DEF Warned
    <2> QED BY <2>5
  <1>7. ASSUME NEW S \in SUBSET User, Learn(q, S), c \in {"smembers", "readBlocked"},
               IF r.of = p[1] THEN Settled(p) => p[2] \in S ELSE Settled(Back(p)) => p[1] \in S
        PROVE  \E w : Becomes(q, r, w) /\ Warned(w)'
    <2> PICK w : /\ Becomes(q, r, w) /\ w # NoRequest
                 /\ w.todo = Tail(r.todo) /\ w.of = r.of /\ w.ids = S
      BY <1>7, Learns
    <2>1. /\ Head(w.todo) \in {"contains", "saddRead", "setReadFlag"}
          /\ w.todo \in First \cup Second
          /\ w.todo \in First <=> r.todo \in First
      BY <1>7, NextPhase
    <2>2. w.pair = p
      BY DEF Becomes
    <2>3. /\ w.todo \in First => w.of = p[1]
          /\ w.todo \in Second => w.of = p[2]
      BY <1>4, <1>7, <2>1, Phases
    <2>4. IF w.of = p[1] THEN p[2] \in w.ids \/ Settled(Back(p))' ELSE p[1] \in w.ids
      BY <1>2, <1>3, <1>7
    <2>5. Warned(w)'
      BY <2>1, <2>2, <2>3, <2>4 DEF Warned
    <2> QED BY <2>5
  <1>8. ASSUME Proceed(q), c \in {"saddRead", "setReadFlag"}
        PROVE  \E w : Becomes(q, r, w) /\ (w # NoRequest => Warned(w)')
    <2> PICK w : /\ Becomes(q, r, w)
                 /\ w # NoRequest => w.todo = Tail(r.todo) /\ w.of = r.of /\ w.ids = r.ids
      BY <1>8, Proceeds
    <2>1. CASE w # NoRequest
      <3>1. /\ Head(w.todo) \in {"contains", "saddRead", "setReadFlag"}
            /\ w.todo \in First \cup Second
            /\ w.todo \in First <=> r.todo \in First
        BY <1>8, <2>1, NextPhase
      <3>2. w.pair = p
        BY <2>1 DEF Becomes
      <3>3. /\ w.todo \in First => w.of = p[1]
            /\ w.todo \in Second => w.of = p[2]
        BY <1>4, <1>8, <2>1, <3>1, Phases
      <3>4. IF w.of = p[1] THEN p[2] \in w.ids \/ Settled(Back(p))' ELSE p[1] \in w.ids
        BY <1>2, <1>3, <1>8, <2>1
      <3>5. Warned(w)'
        BY <3>1, <3>2, <3>3, <3>4 DEF Warned
      <3> QED BY <3>5
    <2> QED BY <2>1
  <1>9. CASE ContainsID(q)
    <2> PICK o : o = IF r.of = r.pair[1] THEN r.pair[2] ELSE r.pair[1]
      OBVIOUS
    <2> PICK w : /\ Becomes(q, r, w) /\ w # NoRequest
                 /\ w.todo = IF o \in r.ids THEN X ELSE Tail(r.todo)
                 /\ w.of = o
      BY <1>9, Compares
    <2>1. w.pair = p /\ c = "contains"
      BY <1>9 DEF Becomes, ContainsID, At
    <2>2. CASE o \in r.ids
      <3>1. w.todo = X
        BY <2>2
      <3>2. Head(w.todo) = "refused" /\ w.todo \notin First \cup Second
        BY <3>1, InteractTodo, Phases
      <3>3. Warned(w)'
        BY <3>2 DEF Warned
      <3> QED BY <3>3
    <2>3. CASE o \notin r.ids
      <3>1. r.of = p[1] /\ o = p[2] /\ Settled(Back(p))'
        BY <1>1, <1>2, <1>3, <2>1, <2>3
      <3>2. r.todo \notin Second
        BY <1>1, <1>3, <3>1
      <3>3. C2 \in Second /\ E2 \in Second
        BY DEF Second, BeforeC2, AtC2
      <3>4. r.todo = C1
        BY <2>1, <3>2, <3>3, Where
      <3>5. w.todo = E2 /\ Head(w.todo) = "exists" /\ w.todo \notin First
        BY <2>3, <3>3, <3>4, InteractTodo, Phases
      <3>6. Warned(w)'
        BY <2>1, <3>1, <3>5 DEF Warned
      <3> QED BY <3>6
    <2> QED BY <2>2, <2>3
  <1>10. CASE Fail(q)
    <2>1. CASE c \in {"exists", "smembers"}
      BY <1>6, <1>5, <1>10, <2>1 DEF Fail, At
    <2>2. CASE c = "readBlocked"
      BY <1>5, <1>10, <2>2 DEF Fail, EndsRequest
    <2>3. CASE c \in {"saddRead", "setReadFlag"}
      BY <1>5, <1>8, <1>10, <2>3 DEF Fail, At
    <2>4. c \in {"exists", "smembers", "readBlocked", "saddRead", "setReadFlag"}
      BY <1>10, Where, OpIs DEF Fail
    <2> QED BY <2>1, <2>2, <2>3, <2>4
  <1>11. CASE Step(q)
    <2>1. Looking(q)
      BY <1>11, StepKind, OpIs
    <2>2. CASE ExistsFlag(q)
      BY <1>6, <2>2 DEF ExistsFlag, At
    <2>3. CASE SMembers(q)
      <3>1. r.of \in User
        BY DEF UpTo, RequestState
      <3>2. blocked[r.of] \in SUBSET User
        BY <3>1 DEF Typed, TypeOK
      <3>3. Learn(q, blocked[r.of]) /\ c = "smembers"
        BY <2>3 DEF SMembers, At
      <3>4. IF r.of = p[1] THEN Settled(p) => p[2] \in blocked[r.of]
                           ELSE Settled(Back(p)) => p[1] \in blocked[r.of]
        BY <1>1, <1>4, <3>3 DEF Settled
      <3> QED BY <1>7, <3>2, <3>3, <3>4
    <2>4. CASE ReadBlockedIDs(q)
      <3> PICK S : S = {x[2] : x \in blocks}
        OBVIOUS
      <3>1. S \in SUBSET User
        BY DEF Typed, TypeOK, Pair
      <3>2. Learn(q, S) /\ c = "readBlocked"
        BY <2>4 DEF ReadBlockedIDs, At
      <3>3. /\ Settled(p) => p[2] \in S
            /\ Settled(Back(p)) => p[1] \in S
        BY <1>1 DEF Settled
      <3> QED BY <1>7, <3>1, <3>2, <3>3
    <2>5. CASE SAddRead(q)
      BY <1>8, <2>5 DEF SAddRead, At
    <2>6. CASE SetReadFlag(q)
      BY <1>8, <2>6 DEF SetReadFlag, At
    <2>7. CASE Answer(q)
      BY <1>5, <2>7 DEF Answer
    <2> QED BY <1>9, <2>1, <2>2, <2>3, <2>4, <2>5, <2>6, <2>7 DEF Looking
  <1> QED BY <1>10, <1>11

MustIfCalm == ~disturbed => MustInv

LEMMA WarnedKept ==
  ASSUME NEW v, Warned(v),
         Settled(v.pair) => Settled(v.pair)',
         Settled(Back(v.pair)) => Settled(Back(v.pair))'
  PROVE  Warned(v)'
  BY DEF Warned

LEMMA MustStart ==
  ASSUME Typed, PairsIfCalm, MustIfCalm, ~disturbed',
         NEW q \in Request, NEW op \in Op, NEW p \in Pair, Start(q, op, p)
  PROVE  MustInv'
  <1>1. PairsInv /\ MustInv /\ UNCHANGED <<follows, blocks, following, blocked>>
    BY DEF Start, PairsIfCalm, MustIfCalm, rows, sets
  <1> PICK w : /\ request'[q] = w /\ w \in UpTo
               /\ w.op = op /\ w.pair = p /\ w.todo = Calls[op] /\ w.of = p[1]
               /\ w.must = InForce(p)
    BY Arrives
  <1>2. request[q] = NoRequest
    BY DEF Start
  <1>3. p \in Pair /\ Back(p) \in Pair /\ Back(Back(p)) = p
    BY BackBack
  <1>4. ASSUME NEW j \in Request, j # q,
               ~(op = "unblock" /\ request[j] # NoRequest /\ request[j].pair \in {p, Back(p)})
        PROVE  request'[j] = request[j]
    <2>1. IF op = "unblock" /\ request[j] # NoRequest /\ request[j].pair \in {p, Back(p)}
          THEN request'[j] = [request[j] EXCEPT !.must = FALSE]
          ELSE request'[j] = request[j]
      BY <1>4, Arrives
    <2> QED BY <1>4, <2>1
  <1>5. ASSUME NEW j \in Request, j # q,
               op = "unblock", request[j] # NoRequest, request[j].pair \in {p, Back(p)}
        PROVE  /\ request'[j].op = request[j].op /\ request'[j].pair = request[j].pair
               /\ ~request'[j].must
    <2>1. request'[j] = [request[j] EXCEPT !.must = FALSE]
      BY <1>5, Arrives
    <2> PICK v \in UpTo : v = request[j]
      BY <1>5 DEF Typed
    <2> PICK u : u = [v EXCEPT !.must = FALSE]
      OBVIOUS
    <2>2. u.op = v.op /\ u.pair = v.pair /\ u.must = FALSE
      BY DEF UpTo, RequestState
    <2> QED BY <2>1, <2>2
  \* Who unblocks did so before, or has just come.
  <1>6. ASSUME NEW i \in Request, request'[i] # NoRequest, request'[i].op = "unblock"
        PROVE  \/ i = q /\ op = "unblock" /\ request'[i].pair = p
               \/ /\ i \in Active /\ request[i].op = "unblock"
                  /\ request'[i].pair = request[i].pair
    BY <1>4, <1>5, <1>6 DEF Active
  <1>7. ASSUME NEW j \in Request, Must(j)'
        PROVE  Warned(request[j])' /\ Unlifted(request[j].pair)'
    <2>1. CASE j = q
      <3>1. op = "interact" /\ InForce(p)
        BY <1>7, <2>1 DEF Must
      <3>2. Good(p) /\ (p \in blocks \/ Back(p) \in blocks) /\ ~Writing(p)
        BY <1>1, <3>1 DEF InForce, PairsInv, Calm
      <3>3. Settled(p) \/ Settled(Back(p))
        BY <3>2 DEF Good, Held, Settled
      <3>4. Settled(p)' \/ Settled(Back(p))'
        BY <1>1, <3>3 DEF Settled
      <3>5. w.todo \in First /\ w.todo \notin Second /\ Head(w.todo) = "exists"
        BY <3>1, InteractTodo, Phases DEF First, BeforeC1
      <3>6. Warned(w)'
        BY <3>4, <3>5 DEF Warned
      <3>7. Unlifted(p)'
        <4> SUFFICES ASSUME NEW i \in Request, request'[i] # NoRequest,
                            request'[i].op = "unblock", request'[i].pair \in {p, Back(p)}
                     PROVE  FALSE
          BY DEF Unlifted, Active
        <4>1. i \in Active /\ request[i].op = "unblock" /\ request[i].pair \in {p, Back(p)}
          BY <1>6, <3>1
        <4> QED BY <3>2, <4>1, OpIs DEF Writing
      <3> QED BY <2>1, <3>6, <3>7 DEF Warned, Unlifted, Settled, Active
    <2>2. CASE j # q
      <3>1. request'[j] = request[j] /\ Must(j)
            /\ ~(op = "unblock" /\ request[j].pair \in {p, Back(p)})
        BY <1>4, <1>5, <1>7, <2>2 DEF Must, Active
      <3> PICK v : v = request[j]
        OBVIOUS
      <3> PICK y : y = v.pair
        OBVIOUS
      <3>2. Warned(v) /\ Unlifted(y)
        BY <1>1, <3>1 DEF MustInv
      <3>3. v \in UpTo
        BY <3>1 DEF Must, Active, Typed
      <3>4. Warned(v)'
        BY <1>1, <3>2, WarnedKept DEF Settled
      <3>5. y \in Pair
        BY <3>3 DEF UpTo, RequestState
      <3>6. Unlifted(y)'
        <4> SUFFICES ASSUME NEW i \in Request, request'[i] # NoRequest,
                            request'[i].op = "unblock", request'[i].pair \in {y, Back(y)}
                     PROVE  FALSE
          BY DEF Unlifted, Active
        <4>1. CASE i \in Active /\ request[i].op = "unblock" /\ request'[i].pair = request[i].pair
          BY <3>2, <4>1 DEF Unlifted
        <4>2. CASE i = q /\ op = "unblock" /\ request'[i].pair = p
          <5>1. y \in {p, Back(p)}
            BY <3>5, <4>2, BackBack
          <5> QED BY <3>1, <4>2, <5>1
        <4> QED BY <1>6, <4>1, <4>2
      <3> QED BY <3>1, <3>4, <3>6 DEF Warned, Unlifted, Settled, Active
    <2> QED BY <2>1, <2>2
  <1> QED BY <1>7 DEF MustInv

LEMMA MustMove ==
  ASSUME Typed, MustInv, NEW q \in Request, Step(q) \/ Fail(q)
  PROVE  MustInv'
  <1>1. q \in Active /\ \E w : Becomes(q, request[q], w)
    BY Outcome
  <1> PICK r \in UpTo : r = request[q]
    BY <1>1, ActiveUpTo
  <1>2. \A i \in Request :
          /\ i # q => request'[i] = request[i]
          /\ request'[i] # NoRequest =>
               /\ request[i] # NoRequest
               /\ request'[i].op = request[i].op /\ request'[i].pair = request[i].pair
               /\ request'[i].must = request[i].must
    BY <1>1 DEF Becomes, Typed, Active
  <1>3. \A y : Unlifted(y) => Unlifted(y)'
    BY <1>2 DEF Unlifted, Active
  <1>4. ASSUME NEW j \in Request, Must(j)'
        PROVE  Warned(request[j])' /\ Unlifted(request[j].pair)'
    <2>1. Must(j) /\ request'[j].pair = request[j].pair
      BY <1>2, <1>4 DEF Must, Active
    <2> PICK v : v = request[j]
      OBVIOUS
    <2> PICK y : y = v.pair
      OBVIOUS
    <2>2. Warned(v) /\ Unlifted(y)
      BY <2>1 DEF MustInv
    <2>3. Unlifted(y)'
      BY <1>3, <2>2
    <2>4. CASE j = q
      <3>1. r.op = "interact" /\ Warned(r)
        BY <2>1, <2>2, <2>4 DEF Must
      <3> PICK w : Becomes(q, r, w) /\ (w # NoRequest => Warned(w)')
        BY <1>1, <3>1, WarnedStep
      <3>2. request'[j] = w
        BY <2>4 DEF Becomes, Typed
      <3>3. Warned(w)'
        BY <1>4, <3>2 DEF Must, Active
      <3> QED BY <2>1, <2>3, <3>2, <3>3 DEF Warned, Unlifted, Settled, Active
    <2>5. CASE j # q
      <3>1. v \in UpTo
        BY <2>1 DEF Must, Active, Typed
      <3>2. y \in Pair /\ Back(y) \in Pair
        BY <3>1, BackBack DEF UpTo, RequestState
      <3>3. ~(r.op = "unblock" /\ r.pair \in {y, Back(y)})
        BY <1>1, <2>2 DEF Unlifted
      <3>4. /\ Settled(y) => Settled(y)'
            /\ Settled(Back(y)) => Settled(Back(y))'
        BY <1>1, <3>2, <3>3, SettledStays
      <3>5. Warned(v)'
        BY <2>2, <3>4, WarnedKept
      <3>6. request'[j] = v
        BY <1>2, <2>5
      <3> QED BY <2>3, <3>5, <3>6 DEF Warned, Unlifted, Settled, Active
    <2> QED BY <2>4, <2>5
  <1> QED BY <1>4 DEF MustInv

LEMMA MustStep == Typed /\ PairsIfCalm /\ MustIfCalm /\ [Next]_vars => MustIfCalm'
  <1> SUFFICES ASSUME Typed, PairsIfCalm, MustIfCalm, [Next]_vars, ~disturbed'
               PROVE  MustInv'
    BY DEF MustIfCalm
  <1>1. ASSUME NEW q \in Request, NEW op \in Op, NEW p \in Pair, Start(q, op, p)
        PROVE  MustInv'
    BY <1>1, MustStart
  <1>2. ASSUME NEW q \in Request, Step(q) \/ Fail(q) PROVE MustInv'
    <2>1. ~disturbed
      BY <1>2 DEF Step, Fail, Check, InsertFollow, DeleteFollow, SRemFollowing, InsertBlock,
                  DeleteBlock, SAddFollowing, ChangeBlocked, SetFlag, ExistsFlag, SMembers,
                  ReadBlockedIDs, SAddRead, SetReadFlag, ContainsID, Answer, bounds
    <2> QED BY <1>2, <2>1, MustMove DEF MustIfCalm
  <1>3. CASE \/ \E u \in User : ExpireFlag(u) \/ ExpireFollowing(u)
             \/ Filling \/ UNCHANGED vars
    <2>1. UNCHANGED <<rows, blocked, request, disturbed>>
      BY <1>3 DEF ExpireFlag, ExpireFollowing, Filling, LookupStep, Unanswered, ExistsFollow,
                  ReadFollows, SAddFollows, SetExpiry, FailLookup, vars, sets, bounds
    <2>2. MustInv /\ UNCHANGED <<blocks, blocked, request>>
      BY <2>1 DEF MustIfCalm, rows
    <2> QED BY <2>2 DEF MustInv, Must, Active, Warned, Unlifted, Settled
  <1>4. ~\E u \in User : DeleteUser(u)
    BY DEF DeleteUser
  <1> QED BY <1>1, <1>2, <1>3, <1>4 DEF Next, Filling

(***************************************************************************)
(* Under the same condition a like or a favourite that comes while a block *)
(* of its two users is in force is not allowed unless somebody starts to   *)
(* lift it: what it reads, from Redis or from MySQL, holds the block.  A   *)
(* comment asks for nothing.                                               *)
(***************************************************************************)
THEOREM BlockEnforcedHolds == Spec => []BlockEnforced
  <1>1. Init => Typed /\ PairsIfCalm /\ MustIfCalm
    <2>1. Init => MustInv
      BY DEF Init, MustInv, Must, Active
    <2> QED BY <2>1, TypedInit, PairsInit DEF PairsIfCalm, MustIfCalm
  <1>2. Typed /\ PairsIfCalm /\ MustIfCalm /\ [Next]_vars => (Typed /\ PairsIfCalm /\ MustIfCalm)'
    BY TypedStep, PairsStep, MustStep
  <1>3. Typed /\ MustIfCalm => BlockEnforced
    <2> SUFFICES ASSUME Typed, MustInv, NEW q \in Request, At(q, "allowed"),
                        request[q].op = "interact", request[q].must
                 PROVE  FALSE
      BY DEF MustIfCalm, BlockEnforced
    <2> PICK r \in UpTo : r = request[q]
      BY ActiveUpTo DEF At
    <2>1. Head(r.todo) = "allowed" /\ r.op = "interact"
      BY Where DEF At
    <2>2. Must(q)
      BY <2>1 DEF Must, At
    <2>3. Warned(r)
      BY <2>2 DEF MustInv
    <2> QED BY <2>1, <2>3 DEF Warned
  <1> QED BY <1>1, <1>2, <1>3, PTL DEF Spec
-----------------------------------------------------------------------------
(***************************************************************************)
(* Reports.  What a request may have left.                                 *)
(***************************************************************************)
R1 == <<"snapshot", "count", "create">>
R2 == <<"count", "create">>
R3 == <<"create">>
R4 == <<"getExisting">>
R5 == <<"reset">>

H1 == <<"getReport">>
H2 == <<"dispose", "mark">>
H3 == <<"mark">>

S1 == <<"getUser", "setStatus">>
S2 == <<"setStatus">>

D1 == <<"getUser", "deleteUser">>
D2 == <<"deleteUser">>

Placed(r) ==
  \/ r.op = "report" /\ r.todo \in {R1, R2, R3, R4, R5}
  \/ r.op = "handle" /\ r.todo \in {H1, H3}
  \/ r.op = "handle" /\ r.todo = H2 /\ r.approve = TRUE
  \/ r.op = "ban" /\ r.todo \in {S1, S2}
  \/ r.op = "delete" /\ r.todo \in {D1, D2}

Known(r) ==
  r.op = "handle" \/ r.todo \in {R4, R5} => reports[r.key] # Case!NoReport

\* The snapshot a moderator decides on is one of the report's.
Looked(r) == r.todo \in {H2, H3} => r.rev \in 1..reports[r.key].rev

\* Nobody of the moderators' rank is banned or removed by request.
Allowed(r) == protected = TRUE => r.todo \notin {S2, D2}

CaseRequest == [op: {"report", "handle", "ban", "delete"}, key: Case!Key, approve: BOOLEAN,
                rev: 0..MaxFilings, banned: BOOLEAN,
                todo: {R1, R2, R3, R4, R5, H1, H2, H3, S1, S2, D1, D2}]

RequestsKnown ==
  /\ handling \in [Request -> {Case!NoRequest} \cup CaseRequest]
  /\ \A q \in Case!Active : /\ Placed(handling[q]) /\ Known(handling[q])
                            /\ Looked(handling[q]) /\ Allowed(handling[q])

CaseTyped ==
  /\ target \in [Target -> {"up", "down", "missing"}]
  /\ reports \in [Case!Key -> {Case!NoReport} \cup Case!Row]
  /\ today \subseteq {k \in Case!Key : reports[k] # Case!NoReport} /\ IsFiniteSet(today)
  /\ protected \in BOOLEAN
  /\ disposed \subseteq Case!Key \X (1..MaxFilings)
  /\ crossed \in BOOLEAN
  /\ work \in 0..MaxWork /\ failed \in 0..MaxFaults

\* What has been acted on is a snapshot of the report's.
ActedOn == \A k \in Case!Key : \A n \in 1..MaxFilings :
             <<k, n>> \in disposed => reports[k] # Case!NoReport /\ n <= reports[k].rev

Filing(q) == q \in Case!Active /\ handling[q].op = "report"
Handling(q) == q \in Case!Active /\ handling[q].op = "handle"

\* Each works on a report, or on the reports of a reporter, alone.
Alone == \A q, s \in Request :
  q # s => /\ Filing(q) /\ Filing(s) => handling[q].key[1] # handling[s].key[1]
           /\ Handling(q) /\ Handling(s) => handling[q].key # handling[s].key

\* While a moderator works on it the report stays as he saw it, and what he
\* approves is acted on before it is marked.
Pending(r) ==
  /\ r.todo \in {H2, H3} => reports[r.key].status = "pending" /\ reports[r.key].rev = r.rev
  /\ r.todo = H3 /\ r.approve = TRUE => <<r.key, r.rev>> \in disposed

\* A reporter files again what has been decided, and new reports within his quota.
Open(r) ==
  /\ r.todo = R5 => reports[r.key].status \in {"approved", "rejected"}
  /\ r.todo = R3 /\ failed = 0 => Case!CountTodayByReporter(r.key[1]) < MaxDaily

StillRight == \A q \in Case!Active : Pending(handling[q]) /\ Open(handling[q])

\* What has been acted on and is still pending is about to be marked.
AboutToMark == failed = 0 => \A k \in Case!Key :
  /\ reports[k].status = "pending"
  /\ <<k, reports[k].rev>> \in disposed
  => \E q \in Request : /\ Handling(q) /\ handling[q].key = k
                        /\ handling[q].todo = H3 /\ handling[q].approve = TRUE

\* DecidedOnCurrent and QuotaKept of one report and of one reporter.
Decided(k) ==
  /\ reports[k].status \in {"approved", "rejected"} => reports[k].by = reports[k].rev
  /\ reports[k].status = "approved" => <<k, reports[k].rev>> \in disposed
  /\ reports[k].status = "rejected" /\ failed = 0 => <<k, reports[k].rev>> \notin disposed

Within(r) == failed = 0 => Case!CountTodayByReporter(r) <= MaxDaily

CaseCalm ==
  /\ Alone /\ StillRight /\ AboutToMark
  /\ \A k \in Case!Key : Decided(k)
  /\ \A r \in Reporter : Within(r)

CaseInv ==
  /\ CaseTyped /\ RequestsKnown /\ ActedOn /\ Case!RankRespected
  /\ ~crossed => CaseCalm
-----------------------------------------------------------------------------
LEMMA CaseCalls ==
  /\ Case!Calls.report = R1 /\ Case!Calls.handle = H1
  /\ Case!Calls.ban = S1 /\ Case!Calls.delete = D1
  /\ Case!HandleCalls(TRUE) = H2 /\ Case!HandleCalls(FALSE) = H3
  BY DEF Case!Calls, Case!HandleCalls, R1, H1, H2, H3, S1, D1

LEMMA CaseHeads ==
  /\ Head(R1) = "snapshot" /\ Tail(R1) = R2 /\ R1 # <<>>
  /\ Head(R2) = "count" /\ Tail(R2) = R3 /\ R2 # <<>>
  /\ Head(R3) = "create" /\ Tail(R3) = <<>> /\ R3 # <<>>
  /\ Head(R4) = "getExisting" /\ Tail(R4) = <<>> /\ R4 # <<>>
  /\ Head(R5) = "reset" /\ Tail(R5) = <<>> /\ R5 # <<>>
  /\ Head(H1) = "getReport" /\ Tail(H1) = <<>> /\ H1 # <<>>
  /\ Head(H2) = "dispose" /\ Tail(H2) = H3 /\ H2 # <<>>
  /\ Head(H3) = "mark" /\ Tail(H3) = <<>> /\ H3 # <<>>
  /\ Head(S1) = "getUser" /\ Tail(S1) = S2 /\ S1 # <<>>
  /\ Head(S2) = "setStatus" /\ Tail(S2) = <<>> /\ S2 # <<>>
  /\ Head(D1) = "getUser" /\ Tail(D1) = D2 /\ D1 # <<>>
  /\ Head(D2) = "deleteUser" /\ Tail(D2) = <<>> /\ D2 # <<>>
  BY DEF R1, R2, R3, R4, R5, H1, H2, H3, S1, S2, D1, D2

LEMMA CaseApart ==
  /\ H2 # H3 /\ H2 # H1 /\ H3 # H1 /\ R3 # R5 /\ R4 # R5 /\ R3 # R4
  /\ S1 # S2 /\ S1 # D2 /\ D1 # S2 /\ D1 # D2
  /\ \A t \in {R1, R2, R3, R4, R5} : t \notin {H1, H2, H3, S2, D2}
  /\ \A t \in {R1, R2} : t \notin {R3, R4, R5}
  /\ \A t \in {H1, H2, H3} : t \notin {S2, D2, R3, R4, R5}
  /\ \A t \in {S1, S2, D1, D2} : t \notin {H1, H2, H3, R3, R4, R5}
  BY DEF R1, R2, R3, R4, R5, H1, H2, H3, S1, S2, D1, D2

\* The call a request is at says what it is and what it has left.
LEMMA CaseWhere ==
  ASSUME RequestsKnown, NEW q, NEW call, Case!At(q, call)
  PROVE  /\ q \in Request /\ handling[q] \in CaseRequest /\ q \in Case!Active
         /\ call = "snapshot" => handling[q].op = "report" /\ handling[q].todo = R1
         /\ call = "count" => handling[q].op = "report" /\ handling[q].todo = R2
         /\ call = "create" => handling[q].op = "report" /\ handling[q].todo = R3
         /\ call = "getExisting" => handling[q].op = "report" /\ handling[q].todo = R4
         /\ call = "reset" => handling[q].op = "report" /\ handling[q].todo = R5
         /\ call = "getReport" => handling[q].op = "handle" /\ handling[q].todo = H1
         /\ call = "dispose" => handling[q].op = "handle" /\ handling[q].todo = H2 /\ handling[q].approve = TRUE
         /\ call = "mark" => handling[q].op = "handle" /\ handling[q].todo = H3
         /\ call = "getUser" => \/ handling[q].op = "ban" /\ handling[q].todo = S1
                                \/ handling[q].op = "delete" /\ handling[q].todo = D1
         /\ call = "setStatus" => handling[q].op = "ban" /\ handling[q].todo = S2
         /\ call = "deleteUser" => handling[q].op = "delete" /\ handling[q].todo = D2
  <1>1. /\ q \in Request /\ handling[q] \in CaseRequest /\ q \in Case!Active
        /\ Placed(handling[q]) /\ Head(handling[q].todo) = call
    BY DEF RequestsKnown, Case!At, Case!Active
  <1> PICK r \in CaseRequest : r = handling[q]
    BY <1>1
  <1>2. \/ r.op = "report" /\ r.todo = R1
        \/ r.op = "report" /\ r.todo = R2
        \/ r.op = "report" /\ r.todo = R3
        \/ r.op = "report" /\ r.todo = R4
        \/ r.op = "report" /\ r.todo = R5
        \/ r.op = "handle" /\ r.todo = H1
        \/ r.op = "handle" /\ r.todo = H2 /\ r.approve = TRUE
        \/ r.op = "handle" /\ r.todo = H3
        \/ r.op = "ban" /\ r.todo = S1
        \/ r.op = "ban" /\ r.todo = S2
        \/ r.op = "delete" /\ r.todo = D1
        \/ r.op = "delete" /\ r.todo = D2
    BY <1>1 DEF Placed
  <1> QED BY <1>1, <1>2, CaseHeads

LEMMA CaseMoves ==
  ASSUME RequestsKnown, CaseTyped, NEW q \in Request, NEW x,
         handling' = [handling EXCEPT ![q] = x],
         UNCHANGED protected,
         \A k \in Case!Key : reports[k] # Case!NoReport =>
           reports'[k] \in Case!Row /\ reports[k].rev <= reports'[k].rev,
         \/ x = Case!NoRequest
         \/ /\ x \in CaseRequest /\ Placed(x) /\ Allowed(x)
            /\ x.op = "handle" \/ x.todo = R4 \/ x.todo = R5 => reports'[x.key] # Case!NoReport
            /\ x.todo = H2 \/ x.todo = H3 => x.rev \in 1..reports'[x.key].rev
  PROVE  RequestsKnown'
  <1>1. handling' \in [Request -> {Case!NoRequest} \cup CaseRequest]
    BY DEF RequestsKnown
  <1>2. ASSUME NEW s \in Request, handling'[s] # Case!NoRequest
        PROVE  /\ Placed(handling'[s]) /\ Allowed(handling'[s])
               /\ handling'[s].op = "handle" \/ handling'[s].todo \in {R4, R5} =>
                    reports'[handling'[s].key] # Case!NoReport
               /\ handling'[s].todo \in {H2, H3} =>
                    handling'[s].rev \in 1..reports'[handling'[s].key].rev
    <2>1. CASE s = q
      BY <1>2, <2>1 DEF RequestsKnown
    <2>2. CASE s # q
      <3>1. handling'[s] = handling[s]
        BY <2>2 DEF RequestsKnown
      <3> PICK r \in CaseRequest : r = handling[s]
        BY <1>2, <3>1 DEF RequestsKnown
      <3>2. Placed(r) /\ Allowed(r) /\ Known(r) /\ Looked(r)
        BY <1>2, <3>1 DEF RequestsKnown, Case!Active
      <3>3. r.key \in Case!Key /\ r.rev \in 0..MaxFilings
        BY DEF CaseRequest
      <3>4. Case!NoReport \notin Case!Row
        BY DEF Case!NoReport, Case!Row
      <3>5. r.op = "handle" \/ r.todo \in {R4, R5} => reports'[r.key] # Case!NoReport
        BY <3>2, <3>3, <3>4 DEF Known
      <3>6. r.todo \in {H2, H3} => r.rev \in 1..reports'[r.key].rev
        <4>1. SUFFICES ASSUME r.todo \in {H2, H3} PROVE r.rev \in 1..reports'[r.key].rev
          OBVIOUS
        <4>2. r.op = "handle"
          BY <3>2, <4>1, CaseApart DEF Placed
        <4>3. reports[r.key] # Case!NoReport /\ r.rev \in 1..reports[r.key].rev
          BY <3>2, <4>1, <4>2 DEF Known, Looked
        <4>4. reports[r.key].rev \in Nat /\ reports'[r.key].rev \in Nat
          BY <4>3, <3>3, ReportsAssumption DEF CaseTyped, Case!Row
        <4> QED BY <4>3, <4>4, <3>3
      <3> QED BY <3>1, <3>2, <3>5, <3>6
    <2> QED BY <2>1, <2>2
  <1> QED BY <1>1, <1>2 DEF RequestsKnown, Case!Active, Known, Looked, Placed, Allowed

\* What GoOn leaves of a request: nothing, or the calls it is given.
LEMMA CaseGoesOn ==
  ASSUME NEW q \in Request, NEW r, r = handling[q], NEW t, Case!GoOn(q, t)
  PROVE  /\ t = <<>> => handling' = [handling EXCEPT ![q] = Case!NoRequest]
         /\ t # <<>> => handling' = [handling EXCEPT ![q] = [r EXCEPT !.todo = t]]
  BY DEF Case!GoOn
-----------------------------------------------------------------------------
CaseSafe == CaseTyped /\ RequestsKnown /\ ActedOn /\ Case!RankRespected

LEMMA CaseQuiet ==
  ASSUME CaseSafe, UNCHANGED <<target, reports, disposed, protected>>,
         today' = today \/ today' = {}, crossed' \in BOOLEAN, work' \in 0..MaxWork,
         failed' \in 0..MaxFaults, RequestsKnown'
  PROVE  CaseSafe'
  <1>1. IsFiniteSet(today') /\ today' \subseteq {k \in Case!Key : reports'[k] # Case!NoReport}
    BY FS_EmptySet DEF CaseSafe, CaseTyped
  <1> QED BY <1>1 DEF CaseSafe, CaseTyped, ActedOn, Case!RankRespected, Case!Key

LEMMA RowsStay ==
  ASSUME CaseTyped, reports' = reports, NEW k \in Case!Key, reports[k] # Case!NoReport
  PROVE  reports'[k] \in Case!Row /\ reports[k].rev <= reports'[k].rev
  BY ReportsAssumption DEF CaseTyped, Case!Row

LEMMA CaseStarts ==
  ASSUME CaseSafe, NEW q \in Request, NEW op \in {"report", "handle", "ban", "delete"},
         NEW k \in Case!Key, NEW approve \in BOOLEAN, Case!Start(q, op, k, approve),
         op = "handle" => reports[k] # Case!NoReport,
         UNCHANGED <<target, reports, today, protected, disposed, failed>>,
         work' \in 0..MaxWork
  PROVE  CaseSafe'
  <1> DEFINE x == [op |-> op, key |-> k, approve |-> approve, rev |-> 0, banned |-> FALSE,
                   todo |-> Case!Calls[op]]
  <1>1. handling' = [handling EXCEPT ![q] = x] /\ crossed' \in BOOLEAN
    BY DEF Case!Start, CaseSafe, CaseTyped
  <1>2. /\ op = "report" => Case!Calls[op] = R1
        /\ op = "handle" => Case!Calls[op] = H1
        /\ op = "ban" => Case!Calls[op] = S1
        /\ op = "delete" => Case!Calls[op] = D1
    BY CaseCalls
  <1>3. x \in CaseRequest
    BY <1>2, ReportsAssumption DEF CaseRequest
  <1>4. /\ Placed(x) /\ x.todo \notin {H2, H3, R4, R5, S2, D2}
        /\ x.op = "handle" => reports'[x.key] # Case!NoReport
    BY <1>2, CaseApart DEF Placed
  <1>5. RequestsKnown'
    BY <1>1, <1>3, <1>4, CaseMoves, RowsStay DEF CaseSafe, Allowed
  <1> QED BY <1>1, <1>5, CaseQuiet DEF CaseSafe, CaseTyped

LEMMA CaseBegins ==
  ASSUME CaseSafe, NEW q \in Request, NEW k \in Case!Key, NEW approve \in BOOLEAN,
         \/ Case!Report(q, k) \/ Case!Handle(q, k, approve)
         \/ Case!Moderate(q, "ban", k, FALSE) \/ Case!Moderate(q, "delete", k, FALSE)
  PROVE  CaseSafe'
  <1>1. CASE Case!Report(q, k)
    BY <1>1, CaseStarts DEF Case!Report, Case!bounds, CaseSafe, CaseTyped
  <1>2. ASSUME NEW op \in {"handle", "ban", "delete"}, NEW a \in BOOLEAN,
               Case!Moderate(q, op, k, a), op = "handle" => reports[k] # Case!NoReport
        PROVE  CaseSafe'
    <2>1. /\ Case!Start(q, op, k, a)
          /\ UNCHANGED <<target, reports, today, protected, disposed, failed>>
      BY <1>2 DEF Case!Moderate
    <2>2. work' \in 0..MaxWork
      BY <1>2, ReportsAssumption DEF Case!Moderate, CaseSafe, CaseTyped
    <2> QED BY <1>2, <2>1, <2>2, CaseStarts
  <1>3. CASE Case!Handle(q, k, approve)
    BY <1>2, <1>3 DEF Case!Handle
  <1> QED BY <1>1, <1>2, <1>3

Fits(x) == x \in CaseRequest /\ Placed(x) /\ Allowed(x) /\ Known(x) /\ Looked(x)

\* A step that only moves a request on, or ends it.
LEMMA CaseReads ==
  ASSUME CaseSafe, NEW q \in Request,
         UNCHANGED <<target, reports, today, protected, disposed, crossed, work>>,
         failed' \in 0..MaxFaults,
         \/ handling' = [handling EXCEPT ![q] = Case!NoRequest]
         \/ \E x : Fits(x) /\ handling' = [handling EXCEPT ![q] = x]
  PROVE  CaseSafe'
  <1>1. CASE handling' = [handling EXCEPT ![q] = Case!NoRequest]
    <2>1. RequestsKnown'
      BY <1>1, CaseMoves, RowsStay DEF CaseSafe
    <2> QED BY <2>1, CaseQuiet DEF CaseSafe, CaseTyped
  <1>2. CASE \E x : Fits(x) /\ handling' = [handling EXCEPT ![q] = x]
    <2> PICK x : Fits(x) /\ handling' = [handling EXCEPT ![q] = x]
      BY <1>2
    <2>1. RequestsKnown'
      BY CaseMoves, RowsStay DEF CaseSafe, Fits, Known, Looked
    <2> QED BY <2>1, CaseQuiet DEF CaseSafe, CaseTyped
  <1> QED BY <1>1, <1>2

LEMMA CaseLooks ==
  ASSUME CaseSafe, NEW q \in Request,
         \/ Case!BuildSnapshot(q) \/ Case!CountToday(q) \/ Case!GetByReporterTarget(q)
         \/ Case!GetReport(q) \/ Case!GetUserByID(q)
  PROVE  CaseSafe'
  <1> USE CaseHeads, CaseApart
  <1>1. CASE Case!BuildSnapshot(q)
    <2>1. Case!At(q, "snapshot") /\ (Case!Stop(q) \/ Case!Proceed(q))
          /\ UNCHANGED <<target, reports, today, protected, disposed, crossed, work, failed>>
      BY <1>1 DEF Case!BuildSnapshot, Case!bounds
    <2> PICK r \in CaseRequest : r = handling[q]
      BY <2>1, CaseWhere DEF CaseSafe
    <2>2. r.op = "report" /\ r.todo = R1
      BY <2>1, CaseWhere DEF CaseSafe
    <2> DEFINE x == [r EXCEPT !.todo = R2]
    <2>3. handling' = [handling EXCEPT ![q] = Case!NoRequest] \/ handling' = [handling EXCEPT ![q] = x]
      BY <2>1, <2>2 DEF Case!Stop, Case!Proceed, Case!GoOn
    <2>4. Fits(x)
      BY <2>2, ZenonT(40) DEF CaseRequest, Fits, Placed, Known, Looked, Allowed
    <2> HIDE DEF x
    <2> QED BY <2>1, <2>3, <2>4, CaseReads DEF CaseSafe, CaseTyped
  <1>2. CASE Case!CountToday(q)
    <2>1. Case!At(q, "count") /\ (Case!Stop(q) \/ Case!Proceed(q))
          /\ UNCHANGED <<target, reports, today, protected, disposed, crossed, work, failed>>
      BY <1>2 DEF Case!CountToday, Case!bounds
    <2> PICK r \in CaseRequest : r = handling[q]
      BY <2>1, CaseWhere DEF CaseSafe
    <2>2. r.op = "report" /\ r.todo = R2
      BY <2>1, CaseWhere DEF CaseSafe
    <2> DEFINE x == [r EXCEPT !.todo = R3]
    <2>3. handling' = [handling EXCEPT ![q] = Case!NoRequest] \/ handling' = [handling EXCEPT ![q] = x]
      BY <2>1, <2>2 DEF Case!Stop, Case!Proceed, Case!GoOn
    <2>4. Fits(x)
      BY <2>2 DEF CaseRequest, Fits, Placed, Known, Looked, Allowed
    <2> HIDE DEF x
    <2> QED BY <2>1, <2>3, <2>4, CaseReads DEF CaseSafe, CaseTyped
  <1>3. CASE Case!GetByReporterTarget(q)
    <2>1. /\ Case!At(q, "getExisting") /\ (Case!Stop(q) \/ Case!GoOn(q, R5))
          /\ UNCHANGED <<target, reports, today, protected, disposed, crossed, work, failed>>
      BY <1>3 DEF Case!GetByReporterTarget, Case!bounds, R5
    <2> PICK r \in CaseRequest : r = handling[q]
      BY <2>1, CaseWhere DEF CaseSafe
    <2>2. r.op = "report" /\ r.todo = R4 /\ reports[r.key] # Case!NoReport
      BY <2>1, CaseWhere DEF CaseSafe, RequestsKnown, Known
    <2> DEFINE x == [r EXCEPT !.todo = R5]
    <2>3. handling' = [handling EXCEPT ![q] = Case!NoRequest] \/ handling' = [handling EXCEPT ![q] = x]
      BY <2>1, <2>2 DEF Case!Stop, Case!GoOn
    <2>4. Fits(x)
      BY <2>2 DEF CaseRequest, Fits, Placed, Known, Looked, Allowed
    <2> HIDE DEF x
    <2> QED BY <2>1, <2>3, <2>4, CaseReads DEF CaseSafe, CaseTyped
  <1>4. CASE Case!GetReport(q)
    <2>1. /\ Case!At(q, "getReport")
          /\ UNCHANGED <<target, reports, today, protected, disposed, crossed, work, failed>>
      BY <1>4 DEF Case!GetReport, Case!bounds
    <2> PICK r \in CaseRequest : r = handling[q]
      BY <2>1, CaseWhere DEF CaseSafe
    <2>2. r.op = "handle" /\ r.todo = H1 /\ reports[r.key] # Case!NoReport
      BY <2>1, CaseWhere DEF CaseSafe, RequestsKnown, Known
    <2> PICK row \in Case!Row : row = reports[r.key]
      BY <2>2 DEF CaseSafe, CaseTyped, CaseRequest
    <2> DEFINE x == [r EXCEPT !.rev = row.rev, !.todo = Case!HandleCalls(r.approve)]
    <2>3. handling' = [handling EXCEPT ![q] = Case!NoRequest] \/ handling' = [handling EXCEPT ![q] = x]
      BY <1>4 DEF Case!GetReport, Case!Stop, Case!GoOn
    <2>4. \/ Case!HandleCalls(r.approve) = H2 /\ r.approve = TRUE
          \/ Case!HandleCalls(r.approve) = H3
      BY CaseCalls DEF CaseRequest
    <2>5. row.rev \in 0..MaxFilings /\ row.rev \in 1..row.rev
      <3>1. row.rev \in 1..MaxFilings
        BY DEF Case!Row
      <3>2. \A n \in 1..MaxFilings : n \in 0..MaxFilings /\ n \in 1..n
        BY ReportsAssumption
      <3> QED BY <3>1, <3>2
    <2>6. x \in CaseRequest /\ x.op = "handle" /\ x.key = r.key /\ x.rev = row.rev
          /\ x.approve = r.approve /\ x.todo = Case!HandleCalls(r.approve)
      BY <2>2, <2>4, <2>5 DEF CaseRequest
    <2> HIDE DEF x
    <2>7. Fits(x)
      <3>1. Placed(x)
        BY <2>4, <2>6 DEF Placed
      <3>2. Known(x) /\ Looked(x)
        BY <2>2, <2>5, <2>6 DEF Known, Looked
      <3>3. x.todo \in {H2, H3}
        BY <2>4, <2>6
      <3>4. Allowed(x)
        BY <3>3 DEF Allowed
      <3> QED BY <2>6, <3>1, <3>2, <3>4 DEF Fits
    <2> QED BY <2>1, <2>3, <2>7, CaseReads DEF CaseSafe, CaseTyped
  <1>5. CASE Case!GetUserByID(q)
    <2>1. /\ Case!At(q, "getUser")
          /\ UNCHANGED <<target, reports, today, protected, disposed, crossed, work, failed>>
      BY <1>5 DEF Case!GetUserByID, Case!bounds
    <2> PICK r \in CaseRequest : r = handling[q]
      BY <2>1, CaseWhere DEF CaseSafe
    <2>2. \/ r.op = "ban" /\ r.todo = S1
          \/ r.op = "delete" /\ r.todo = D1
      BY <2>1, CaseWhere DEF CaseSafe
    <2> DEFINE x == [r EXCEPT !.banned = (target["user"] = "down"), !.todo = Tail(r.todo)]
    <2>3. \/ handling' = [handling EXCEPT ![q] = Case!NoRequest]
          \/ protected # TRUE /\ handling' = [handling EXCEPT ![q] = x]
      BY <1>5 DEF Case!GetUserByID, Case!Stop, Case!GoOn
    <2>4. x.todo = S2 \/ x.todo = D2
      BY <2>2 DEF CaseRequest
    <2>5. x \in CaseRequest /\ x.op = r.op
      BY <2>4 DEF CaseRequest
    <2>6. protected # TRUE => Fits(x)
      <3>1. x.todo = Tail(r.todo)
        BY DEF CaseRequest
      <3>2. Placed(x)
        BY <2>2, <2>5, <3>1 DEF Placed
      <3>3. Known(x) /\ Looked(x)
        BY <2>2, <2>4, <2>5 DEF Known, Looked
      <3> QED BY <2>5, <3>2, <3>3 DEF Fits, Allowed
    <2> HIDE DEF x
    <2> QED BY <2>1, <2>3, <2>6, CaseReads DEF CaseSafe, CaseTyped
  <1> QED BY <1>1, <1>2, <1>3, <1>4, <1>5

LEMMA CaseFails ==
  ASSUME CaseSafe, NEW q \in Request, Case!Fail(q) PROVE CaseSafe'
  <1>1. /\ UNCHANGED <<target, reports, today, protected, disposed, crossed, work>>
        /\ failed' \in 0..MaxFaults
    BY SocialGraphAssumption DEF Case!Fail, CaseSafe, CaseTyped
  <1>2. CASE ~Case!At(q, "count")
    <2>1. handling' = [handling EXCEPT ![q] = Case!NoRequest]
      BY <1>2 DEF Case!Fail, Case!Stop, Case!GoOn
    <2> QED BY <1>1, <2>1, CaseReads
  <1>3. CASE Case!At(q, "count")
    <2> PICK r \in CaseRequest : r = handling[q]
      BY <1>3, CaseWhere DEF CaseSafe
    <2>2. r.op = "report" /\ r.todo = R2
      BY <1>3, CaseWhere DEF CaseSafe
    <2> DEFINE x == [r EXCEPT !.todo = R3]
    <2>3. handling' = [handling EXCEPT ![q] = x]
      BY <1>3, <2>2, CaseHeads DEF Case!Fail, Case!Proceed, Case!GoOn
    <2>4. Fits(x)
      BY <2>2, CaseApart DEF CaseRequest, Fits, Placed, Known, Looked, Allowed
    <2> HIDE DEF x
    <2> QED BY <1>1, <2>3, <2>4, CaseReads
  <1> QED BY <1>2, <1>3

LEMMA CaseCreates ==
  ASSUME CaseSafe, NEW q \in Request, Case!Create(q) PROVE CaseSafe'
  <1>1. /\ Case!At(q, "create")
        /\ UNCHANGED <<target, protected, disposed, crossed, work, failed>>
    BY DEF Case!Create, Case!bounds
  <1> PICK r \in CaseRequest : r = handling[q]
    BY <1>1, CaseWhere DEF CaseSafe
  <1> PICK k \in Case!Key : k = r.key
    BY DEF CaseRequest
  <1>2. r.op = "report" /\ r.todo = R3
    BY <1>1, CaseWhere DEF CaseSafe
  <1>3. CASE reports[k] = Case!NoReport
    <2> DEFINE row == [status |-> "pending", rev |-> 1, by |-> 0]
    <2>1. /\ reports' = [reports EXCEPT ![k] = row] /\ today' = today \cup {k}
          /\ handling' = [handling EXCEPT ![q] = Case!NoRequest]
      BY <1>3 DEF Case!Create, Case!Stop, Case!GoOn
    <2>2. row \in Case!Row /\ Case!NoReport \notin Case!Row
      BY ReportsAssumption DEF Case!Row, Case!NoReport
    <2> HIDE DEF row
    <2>3. /\ reports' \in [Case!Key -> {Case!NoReport} \cup Case!Row] /\ reports'[k] = row
          /\ \A j \in Case!Key : j # k => reports'[j] = reports[j]
      BY <2>1, <2>2 DEF CaseSafe, CaseTyped
    <2>4. \A j \in Case!Key : reports[j] # Case!NoReport =>
             reports'[j] \in Case!Row /\ reports[j].rev <= reports'[j].rev
      BY <1>3, <2>3, ReportsAssumption DEF CaseSafe, CaseTyped, Case!Row
    <2>5. RequestsKnown'
      BY <1>1, <2>1, <2>4, CaseMoves DEF CaseSafe
    <2>6. today' \subseteq {j \in Case!Key : reports'[j] # Case!NoReport} /\ IsFiniteSet(today')
      BY <2>1, <2>2, <2>3, FS_AddElement DEF CaseSafe, CaseTyped
    <2>7. ActedOn'
      BY <1>1, <1>3, <2>3 DEF CaseSafe, ActedOn, Case!Key
    <2> QED BY <1>1, <2>3, <2>5, <2>6, <2>7 DEF CaseSafe, CaseTyped, Case!RankRespected, Case!Key
  <1>4. CASE reports[k] # Case!NoReport
    <2> DEFINE x == [r EXCEPT !.todo = R4]
    <2>1. UNCHANGED <<reports, today>> /\ handling' = [handling EXCEPT ![q] = x]
      BY <1>4, CaseHeads DEF Case!Create, Case!GoOn, R4
    <2>2. Fits(x)
      BY <1>2, <1>4, CaseApart DEF CaseRequest, Fits, Placed, Known, Looked, Allowed
    <2> HIDE DEF x
    <2> QED BY <1>1, <2>1, <2>2, CaseReads DEF CaseSafe, CaseTyped
  <1> QED BY <1>3, <1>4

LEMMA CaseResets ==
  ASSUME CaseSafe, NEW q \in Request, Case!ResetForReporter(q) PROVE CaseSafe'
  <1>1. /\ Case!At(q, "reset") /\ Case!Stop(q)
        /\ UNCHANGED <<target, today, protected, disposed, crossed, work, failed>>
    BY DEF Case!ResetForReporter, Case!bounds
  <1> PICK r \in CaseRequest : r = handling[q]
    BY <1>1, CaseWhere DEF CaseSafe
  <1> PICK k \in Case!Key : k = r.key
    BY DEF CaseRequest
  <1>2. r.op = "report" /\ r.todo = R5 /\ reports[k] # Case!NoReport
    BY <1>1, CaseWhere DEF CaseSafe, RequestsKnown, Known
  <1> PICK row \in Case!Row : row = reports[k]
    BY <1>2 DEF CaseSafe, CaseTyped
  <1> PICK n \in 1..MaxFilings : n = row.rev
    BY DEF Case!Row
  <1> DEFINE new == [status |-> "pending", rev |-> n + 1, by |-> 0]
  <1>3. n < MaxFilings /\ reports' = [reports EXCEPT ![k] = new]
    BY DEF Case!ResetForReporter
  <1>4. new \in Case!Row /\ Case!NoReport \notin Case!Row /\ new.rev = n + 1
    BY <1>3, ReportsAssumption DEF Case!Row, Case!NoReport
  <1> HIDE DEF new
  <1>5. /\ reports' \in [Case!Key -> {Case!NoReport} \cup Case!Row] /\ reports'[k] = new
        /\ \A j \in Case!Key : j # k => reports'[j] = reports[j]
    BY <1>3, <1>4 DEF CaseSafe, CaseTyped
  <1>6. \A j \in Case!Key : reports[j] # Case!NoReport =>
           reports'[j] \in Case!Row /\ reports[j].rev <= reports'[j].rev
    BY <1>4, <1>5, ReportsAssumption DEF CaseSafe, CaseTyped, Case!Row
  <1>7. RequestsKnown'
    BY <1>1, <1>6, CaseMoves DEF CaseSafe, Case!Stop, Case!GoOn
  <1>8. today' \subseteq {j \in Case!Key : reports'[j] # Case!NoReport}
    BY <1>1, <1>4, <1>5 DEF CaseSafe, CaseTyped
  <1>9. ActedOn'
    BY <1>1, <1>4, <1>5, ReportsAssumption DEF CaseSafe, ActedOn, Case!Key
  <1> QED BY <1>1, <1>5, <1>7, <1>8, <1>9 DEF CaseSafe, CaseTyped, Case!RankRespected, Case!Key

LEMMA CaseDisposes ==
  ASSUME CaseSafe, NEW q \in Request, Case!Dispose(q) PROVE CaseSafe'
  <1>1. /\ Case!At(q, "dispose")
        /\ UNCHANGED <<reports, today, protected, crossed, work, failed>>
    BY DEF Case!Dispose, Case!bounds
  <1> PICK r \in CaseRequest : r = handling[q]
    BY <1>1, CaseWhere DEF CaseSafe
  <1> PICK k \in Case!Key : k = r.key
    BY DEF CaseRequest
  <1>2. r.op = "handle" /\ r.todo = H2 /\ r.approve = TRUE /\ reports[k] # Case!NoReport
    BY <1>1, CaseWhere DEF CaseSafe, RequestsKnown, Known
  <1>3. CASE Case!Stop(q) /\ UNCHANGED <<target, disposed>>
    BY <1>1, <1>3, CaseReads DEF Case!Stop, Case!GoOn, CaseSafe, CaseTyped
  <1>4. CASE /\ target' = [target EXCEPT ![k[2]] = IF @ = "up" THEN "down" ELSE @]
             /\ disposed' = disposed \cup {<<k, r.rev>>}
             /\ Case!Proceed(q)
    <2> DEFINE x == [r EXCEPT !.todo = H3]
    <2>1. handling' = [handling EXCEPT ![q] = x]
      BY <1>2, <1>4, CaseHeads DEF Case!Proceed, Case!GoOn
    <2>2. Looked(r)
      BY <1>1, CaseWhere DEF CaseSafe, RequestsKnown
    <2>3. r.rev \in 1..reports[k].rev
      BY <1>2, <2>2 DEF Looked
    <2>4. Fits(x)
      BY <1>2, <2>3, CaseApart DEF CaseRequest, Fits, Placed, Known, Looked, Allowed
    <2> HIDE DEF x
    <2>5. RequestsKnown'
      BY <1>1, <2>1, <2>4, CaseMoves, RowsStay DEF CaseSafe, Fits, Known, Looked
    <2>6. r.rev \in 1..MaxFilings /\ r.rev <= reports[k].rev
      <3> PICK n \in 1..MaxFilings : n = reports[k].rev
        BY <1>2 DEF CaseSafe, CaseTyped, Case!Row
      <3> QED BY <2>3, ReportsAssumption
    <2>7. ActedOn' /\ disposed' \subseteq Case!Key \X (1..MaxFilings)
      BY <1>1, <1>2, <1>4, <2>6 DEF CaseSafe, CaseTyped, ActedOn, Case!Key
    <2>8. target' \in [Target -> {"up", "down", "missing"}]
      BY <1>4 DEF CaseSafe, CaseTyped
    <2>9. Case!RankRespected'
      <3> SUFFICES ASSUME protected', "user" \in Target, target'["user"] # "up"
                   PROVE  \E d \in disposed' : d[1][2] = "user"
        BY DEF Case!RankRespected
      <3>1. CASE k[2] = "user"
        <4>1. <<k, r.rev>> \in disposed' /\ <<k, r.rev>>[1][2] = "user"
          BY <1>4, <3>1
        <4> QED BY <4>1
      <3>2. CASE k[2] # "user"
        BY <1>1, <1>4, <3>2 DEF CaseSafe, CaseTyped, Case!RankRespected
      <3> QED BY <3>1, <3>2
    <2> QED BY <1>1, <2>5, <2>7, <2>8, <2>9 DEF CaseSafe, CaseTyped, Case!Key
  <1> QED BY <1>3, <1>4 DEF Case!Dispose

LEMMA CaseMarks ==
  ASSUME CaseSafe, NEW q \in Request, Case!UpdateStatus(q) PROVE CaseSafe'
  <1>1. /\ Case!At(q, "mark") /\ Case!Proceed(q)
        /\ UNCHANGED <<target, today, protected, disposed, crossed, work, failed>>
    BY DEF Case!UpdateStatus, Case!bounds
  <1> PICK r \in CaseRequest : r = handling[q]
    BY <1>1, CaseWhere DEF CaseSafe
  <1> PICK k \in Case!Key : k = r.key
    BY DEF CaseRequest
  <1>2. r.op = "handle" /\ r.todo = H3 /\ reports[k] # Case!NoReport
    BY <1>1, CaseWhere DEF CaseSafe, RequestsKnown, Known
  <1> PICK row \in Case!Row : row = reports[k]
    BY <1>2 DEF CaseSafe, CaseTyped
  <1> DEFINE new == [row EXCEPT !.status = IF r.approve THEN "approved" ELSE "rejected", !.by = r.rev]
  <1>3. reports' = [reports EXCEPT ![k] = new]
    BY DEF Case!UpdateStatus
  <1>4. new \in Case!Row /\ Case!NoReport \notin Case!Row /\ new.rev = row.rev
    BY DEF Case!Row, Case!NoReport, CaseRequest
  <1> HIDE DEF new
  <1>5. /\ reports' \in [Case!Key -> {Case!NoReport} \cup Case!Row] /\ reports'[k] = new
        /\ \A j \in Case!Key : j # k => reports'[j] = reports[j]
    BY <1>3, <1>4 DEF CaseSafe, CaseTyped
  <1>6. \A j \in Case!Key : reports[j] # Case!NoReport =>
           reports'[j] \in Case!Row /\ reports[j].rev <= reports'[j].rev
    BY <1>4, <1>5, ReportsAssumption DEF CaseSafe, CaseTyped, Case!Row
  <1>7. handling' = [handling EXCEPT ![q] = Case!NoRequest]
    BY <1>1, <1>2, CaseHeads DEF Case!Proceed, Case!GoOn
  <1>8. RequestsKnown'
    BY <1>1, <1>6, <1>7, CaseMoves DEF CaseSafe
  <1>9. today' \subseteq {j \in Case!Key : reports'[j] # Case!NoReport}
    BY <1>1, <1>4, <1>5 DEF CaseSafe, CaseTyped
  <1>10. ActedOn'
    BY <1>1, <1>4, <1>5, ReportsAssumption DEF CaseSafe, ActedOn, Case!Key
  <1> QED BY <1>1, <1>5, <1>8, <1>9, <1>10 DEF CaseSafe, CaseTyped, Case!RankRespected, Case!Key

LEMMA CaseTargets ==
  ASSUME CaseSafe, UNCHANGED <<reports, today, protected, disposed, crossed, work, failed>>,
         NEW t \in Target, NEW v \in {"up", "down", "missing"},
         target' = [target EXCEPT ![t] = v],
         t = "user" => protected # TRUE,
         RequestsKnown'
  PROVE  CaseSafe'
  <1>1. target' \in [Target -> {"up", "down", "missing"}]
    BY DEF CaseSafe, CaseTyped
  <1>2. Case!RankRespected'
    BY DEF CaseSafe, CaseTyped, Case!RankRespected
  <1> QED BY <1>1, <1>2 DEF CaseSafe, CaseTyped, ActedOn, Case!Key

LEMMA CaseRest ==
  ASSUME CaseSafe,
         \/ \E q \in Request : Case!UpdateUserStatus(q) \/ Case!DeleteUser(q)
         \/ \E t \in Target : Case!OwnDelete(t)
         \/ Case!NewDay
         \/ UNCHANGED Case!vars
  PROVE  CaseSafe'
  <1>1. CASE \E q \in Request : Case!UpdateUserStatus(q) \/ Case!DeleteUser(q)
    <2> PICK q \in Request : Case!UpdateUserStatus(q) \/ Case!DeleteUser(q)
      BY <1>1
    <2>1. /\ Case!At(q, "setStatus") \/ Case!At(q, "deleteUser")
          /\ handling' = [handling EXCEPT ![q] = Case!NoRequest]
          /\ UNCHANGED <<reports, today, protected, disposed, crossed, work, failed>>
      BY DEF Case!UpdateUserStatus, Case!DeleteUser, Case!bounds, Case!Stop, Case!GoOn
    <2>2. protected # TRUE
      <3>1. handling[q].todo \in {S2, D2} /\ q \in Case!Active
        BY <2>1, CaseWhere DEF CaseSafe
      <3> QED BY <3>1 DEF CaseSafe, RequestsKnown, Allowed
    <2>3. RequestsKnown'
      BY <2>1, CaseMoves, RowsStay DEF CaseSafe
    <2>4. CASE "user" \in Target
      <3>1. target["user"] \in {"up", "down", "missing"}
        BY <2>4 DEF CaseSafe, CaseTyped
      <3>2. PICK v \in {"up", "down", "missing"} : target' = [target EXCEPT !["user"] = v]
        BY <3>1 DEF Case!UpdateUserStatus, Case!DeleteUser
      <3> QED BY <2>1, <2>2, <2>3, <2>4, <3>2, CaseTargets
    <2>5. CASE "user" \notin Target
      <3>1. target' = target
        BY <2>5 DEF Case!UpdateUserStatus, Case!DeleteUser, CaseSafe, CaseTyped
      <3> QED BY <2>1, <2>3, <3>1, CaseQuiet DEF CaseSafe, CaseTyped
    <2> QED BY <2>4, <2>5
  <1>2. CASE \E t \in Target : Case!OwnDelete(t)
    <2> PICK t \in Target : Case!OwnDelete(t)
      BY <1>2
    <2>1. /\ t # "user" /\ target' = [target EXCEPT ![t] = "down"]
          /\ UNCHANGED <<reports, today, handling, protected, disposed, crossed, work, failed>>
      BY DEF Case!OwnDelete, Case!bounds
    <2>2. RequestsKnown'
      BY <2>1 DEF CaseSafe, RequestsKnown, Case!Active, Known, Looked, Allowed, Placed, Case!Key,
                  CaseRequest
    <2> QED BY <2>1, <2>2, CaseTargets
  <1>3. CASE Case!NewDay \/ UNCHANGED Case!vars
    <2>1. /\ UNCHANGED <<target, reports, handling, protected, disposed, crossed, failed>>
          /\ today' = today \/ today' = {}
          /\ work' \in 0..MaxWork
      BY <1>3, ReportsAssumption
      DEF Case!NewDay, Case!vars, Case!bounds, CaseSafe, CaseTyped
    <2>2. RequestsKnown'
      BY <2>1 DEF CaseSafe, RequestsKnown, Case!Active, Known, Looked, Allowed, Placed, Case!Key,
                  CaseRequest
    <2> QED BY <2>1, <2>2, CaseQuiet DEF CaseSafe, CaseTyped
  <1> QED BY <1>1, <1>2, <1>3

LEMMA CaseSafeStep ==
  ASSUME CaseSafe, [Case!Next]_(Case!vars) PROVE CaseSafe'
  <1>1. CASE UNCHANGED Case!vars
    BY <1>1, CaseRest
  <1>2. CASE Case!Next
    <2>1. \/ \E q \in Request : \E k \in Case!Key : \E approve \in BOOLEAN :
               \/ Case!Report(q, k) \/ Case!Handle(q, k, approve)
               \/ Case!Moderate(q, "ban", k, FALSE) \/ Case!Moderate(q, "delete", k, FALSE)
          \/ \E q \in Request : \/ Case!BuildSnapshot(q) \/ Case!CountToday(q)
                                \/ Case!GetByReporterTarget(q) \/ Case!GetReport(q)
                                \/ Case!GetUserByID(q)
          \/ \E q \in Request : \/ Case!Create(q) \/ Case!ResetForReporter(q)
                                \/ Case!Dispose(q) \/ Case!UpdateStatus(q) \/ Case!Fail(q)
          \/ \E q \in Request : \/ Case!UpdateUserStatus(q) \/ Case!DeleteUser(q)
          \/ \E t \in Target : Case!OwnDelete(t)
          \/ Case!NewDay
      BY <1>2 DEF Case!Next, Case!Act
    <2>2. CASE \E q \in Request : \E k \in Case!Key : \E approve \in BOOLEAN :
                 \/ Case!Report(q, k) \/ Case!Handle(q, k, approve)
                 \/ Case!Moderate(q, "ban", k, FALSE) \/ Case!Moderate(q, "delete", k, FALSE)
      BY <2>2, CaseBegins
    <2>3. CASE \E q \in Request : \/ Case!BuildSnapshot(q) \/ Case!CountToday(q)
                                  \/ Case!GetByReporterTarget(q) \/ Case!GetReport(q)
                                  \/ Case!GetUserByID(q)
      BY <2>3, CaseLooks
    <2>4. CASE \E q \in Request : \/ Case!Create(q) \/ Case!ResetForReporter(q)
                                  \/ Case!Dispose(q) \/ Case!UpdateStatus(q) \/ Case!Fail(q)
      BY <2>4, CaseCreates, CaseResets, CaseDisposes, CaseMarks, CaseFails
    <2> QED BY <2>1, <2>2, <2>3, <2>4, CaseRest
  <1> QED BY <1>1, <1>2
-----------------------------------------------------------------------------
LEMMA CountOf ==
  ASSUME NEW S, IsFiniteSet(S), NEW r
  PROVE  /\ Case!Cardinality({k \in S : k[1] = r}) = Cardinality({k \in S : k[1] = r})
         /\ IsFiniteSet({k \in S : k[1] = r})
         /\ Case!Cardinality({k \in S : k[1] = r}) \in Nat
  <1>1. Case!Cardinality({k \in S : k[1] = r}) = Cardinality({k \in S : k[1] = r})
    BY DEF Case!Cardinality, Cardinality
  <1>2. IsFiniteSet({k \in S : k[1] = r})
    BY FS_Subset
  <1> QED BY <1>1, <1>2, FS_CardinalityType

LEMMA CaseCount ==
  ASSUME CaseTyped, NEW r
  PROVE  /\ Case!CountTodayByReporter(r) = Cardinality({k \in today : k[1] = r})
         /\ IsFiniteSet({k \in today : k[1] = r})
         /\ Case!CountTodayByReporter(r) \in Nat
  BY CountOf DEF CaseTyped, Case!CountTodayByReporter

LEMMA AloneKept ==
  ASSUME RequestsKnown, Alone, NEW q \in Request, NEW x,
         handling' = [handling EXCEPT ![q] = x],
         \/ x = Case!NoRequest
         \/ q \in Case!Active /\ x.op = handling[q].op /\ x.key = handling[q].key
  PROVE  Alone'
  <1> SUFFICES ASSUME NEW s \in Request, NEW t \in Request, s # t
               PROVE  /\ (Filing(s) /\ Filing(t) => handling[s].key[1] # handling[t].key[1])'
                      /\ (Handling(s) /\ Handling(t) => handling[s].key # handling[t].key)'
    BY DEF Alone
  <1>1. \A p \in Request : /\ p # q => handling'[p] = handling[p]
                           /\ p = q => handling'[p] = x
    BY DEF RequestsKnown
  <1> QED BY <1>1 DEF Alone, Filing, Handling, Case!Active

StaysRight(r) ==
  /\ r.todo \in {H2, H3} => reports'[r.key].status = "pending" /\ reports'[r.key].rev = r.rev
  /\ r.todo = H3 /\ r.approve = TRUE => <<r.key, r.rev>> \in disposed'
  /\ r.todo = R5 => reports'[r.key].status \in {"approved", "rejected"}
  /\ r.todo = R3 /\ failed' = 0 => Case!CountTodayByReporter(r.key[1])' < MaxDaily

LEMMA RightKept ==
  ASSUME RequestsKnown, StillRight, NEW q \in Request, NEW x,
         handling' = [handling EXCEPT ![q] = x],
         x = Case!NoRequest \/ (Pending(x)' /\ Open(x)'),
         \A s \in Case!Active :
           s # q /\ Pending(handling[s]) /\ Open(handling[s]) => StaysRight(handling[s])
  PROVE  StillRight'
  <1> SUFFICES ASSUME NEW s \in Case!Active' PROVE (Pending(handling[s]) /\ Open(handling[s]))'
    BY DEF StillRight
  <1>1. s \in Request /\ handling'[s] # Case!NoRequest
    BY DEF Case!Active
  <1>2. CASE s = q
    <2>1. handling'[s] = x
      BY <1>1, <1>2 DEF RequestsKnown
    <2> QED BY <1>1, <2>1 DEF Pending, Open
  <1>3. CASE s # q
    <2>1. handling'[s] = handling[s] /\ s \in Case!Active
      BY <1>1, <1>3 DEF RequestsKnown, Case!Active
    <2> PICK r : r = handling[s]
      OBVIOUS
    <2>2. Pending(r) /\ Open(r)
      BY <2>1 DEF StillRight
    <2>3. Pending(r)' /\ Open(r)'
      <3>1. StaysRight(r)
        BY <1>3, <2>1, <2>2
      <3> QED BY <3>1 DEF StaysRight, Pending, Open
    <2> QED BY <2>1, <2>3 DEF Pending, Open
  <1> QED BY <1>2, <1>3

\* What a reporter has filed today does not grow when a day begins.
LEMMA CountFalls ==
  ASSUME CaseTyped, CaseTyped', today' = today \/ today' = {}, NEW r
  PROVE  /\ Case!CountTodayByReporter(r)' <= Case!CountTodayByReporter(r)
         /\ Case!CountTodayByReporter(r) \in Nat /\ Case!CountTodayByReporter(r)' \in Nat
  <1>1. Case!CountTodayByReporter(r) \in Nat /\ Case!CountTodayByReporter(r)' \in Nat
    BY CountOf DEF CaseTyped, Case!CountTodayByReporter
  <1>2. CASE today' = today
    BY <1>1, <1>2 DEF Case!CountTodayByReporter
  <1>3. CASE today' = {}
    <2>1. {k \in {} : k[1] = r} = {}
      OBVIOUS
    <2>2. Case!CountTodayByReporter(r)' = Cardinality({})
      BY <1>3, <2>1 DEF Case!CountTodayByReporter, Case!Cardinality, Cardinality
    <2> QED BY <1>1, <2>2, FS_EmptySet
  <1> QED BY <1>1, <1>2, <1>3

\* A step that reads, or starts or ends something, where the day may change.
LEMMA CalmQuiet ==
  ASSUME CaseSafe, CaseCalm, UNCHANGED <<reports, disposed>>,
         today' = today \/ today' = {}, failed' = 0 => failed = 0,
         NEW q \in Request, NEW x, handling' = [handling EXCEPT ![q] = x],
         Alone', x = Case!NoRequest \/ (Pending(x)' /\ Open(x)'),
         q \in Case!Active /\ handling[q].todo = H3 => failed' # 0,
         CaseSafe'
  PROVE  CaseCalm'
  <1>1. ASSUME NEW r PROVE Case!CountTodayByReporter(r)' <= Case!CountTodayByReporter(r)
    BY CountFalls DEF CaseSafe
  <1>2. ASSUME NEW r PROVE /\ Case!CountTodayByReporter(r) \in Nat
                           /\ Case!CountTodayByReporter(r)' \in Nat
    BY CountFalls DEF CaseSafe
  <1>3. StillRight'
    <2>1. ASSUME NEW s \in Case!Active, Pending(handling[s]), Open(handling[s])
          PROVE  StaysRight(handling[s])
      <3> PICK r : r = handling[s]
        OBVIOUS
      <3>1. r.todo = R3 /\ failed' = 0 => Case!CountTodayByReporter(r.key[1]) < MaxDaily
        BY <2>1 DEF Open
      <3>2. r.todo = R3 /\ failed' = 0 => Case!CountTodayByReporter(r.key[1])' < MaxDaily
        BY <1>1, <1>2, <3>1, ReportsAssumption
      <3>3. StaysRight(r)
        BY <2>1, <3>2 DEF Pending, Open, StaysRight
      <3> QED BY <3>3
    <2> QED BY <2>1, RightKept DEF CaseSafe, CaseCalm
  <1>4. AboutToMark'
    <2> SUFFICES ASSUME failed' = 0, NEW k \in Case!Key, reports[k].status = "pending",
                        <<k, reports[k].rev>> \in disposed
                 PROVE  (\E s \in Request : /\ Handling(s) /\ handling[s].key = k
                                            /\ handling[s].todo = H3 /\ handling[s].approve = TRUE)'
      BY DEF AboutToMark, Case!Key
    <2> PICK s \in Request : /\ Handling(s) /\ handling[s].key = k
                             /\ handling[s].todo = H3 /\ handling[s].approve = TRUE
      BY DEF CaseCalm, AboutToMark
    <2>1. handling'[s] = handling[s]
      BY DEF CaseSafe, RequestsKnown, Handling
    <2> QED BY <2>1 DEF Handling, Case!Active
  <1>5. \A r \in Reporter : Within(r)'
    BY <1>1, <1>2, ReportsAssumption DEF CaseCalm, Within
  <1>6. \A k \in Case!Key : Decided(k)'
    BY DEF CaseCalm, Decided
  <1> QED BY <1>3, <1>4, <1>5, <1>6 DEF CaseCalm, Case!Key

LEMMA CalmReads ==
  ASSUME CaseSafe, CaseCalm, UNCHANGED <<reports, disposed, today>>, failed' = 0 => failed = 0,
         NEW q \in Case!Active, NEW x, handling' = [handling EXCEPT ![q] = x],
         \/ x = Case!NoRequest
         \/ /\ x.op = handling[q].op /\ x.key = handling[q].key
            /\ Pending(x)' /\ Open(x)',
         handling[q].todo = H3 => failed' # 0,
         CaseSafe'
  PROVE  CaseCalm'
  <1>1. q \in Request
    BY DEF Case!Active
  <1>2. Alone'
    BY <1>1, AloneKept DEF CaseSafe, CaseCalm
  <1> QED BY <1>1, <1>2, CalmQuiet

LEMMA CalmLooks ==
  ASSUME CaseSafe, CaseCalm, CaseSafe', NEW q \in Request,
         \/ Case!BuildSnapshot(q) \/ Case!CountToday(q) \/ Case!GetByReporterTarget(q)
         \/ Case!GetReport(q) \/ Case!GetUserByID(q)
  PROVE  CaseCalm'
  <1>1. UNCHANGED <<reports, disposed, today, failed>>
    BY DEF Case!BuildSnapshot, Case!CountToday, Case!GetByReporterTarget, Case!GetReport,
           Case!GetUserByID, Case!bounds
  <1> USE CaseHeads, CaseApart
  <1>2. CASE Case!BuildSnapshot(q)
    <2>1. Case!At(q, "snapshot") /\ (Case!Stop(q) \/ Case!Proceed(q))
      BY <1>2 DEF Case!BuildSnapshot
    <2> PICK r \in CaseRequest : r = handling[q]
      BY <2>1, CaseWhere DEF CaseSafe
    <2>2. r.op = "report" /\ r.todo = R1 /\ q \in Case!Active
      BY <2>1, CaseWhere DEF CaseSafe
    <2> DEFINE x == [r EXCEPT !.todo = R2]
    <2>3. handling' = [handling EXCEPT ![q] = Case!NoRequest] \/ handling' = [handling EXCEPT ![q] = x]
      BY <2>1, <2>2 DEF Case!Stop, Case!Proceed, Case!GoOn
    <2>4. x.op = r.op /\ x.key = r.key /\ x.todo \notin {R3, R5, H2, H3}
      BY <2>2 DEF CaseRequest
    <2> HIDE DEF x
    <2>5. Pending(x)' /\ Open(x)'
      BY <2>4 DEF Pending, Open
    <2>6. r.todo # H3
      BY <2>2
    <2> QED BY <1>1, <2>2, <2>3, <2>4, <2>5, <2>6, CalmReads, ZenonT(40)
  <1>3. CASE Case!CountToday(q)
    <2>1. Case!At(q, "count")
      BY <1>3 DEF Case!CountToday
    <2> PICK r \in CaseRequest : r = handling[q]
      BY <2>1, CaseWhere DEF CaseSafe
    <2>2. r.op = "report" /\ r.todo = R2 /\ q \in Case!Active
      BY <2>1, CaseWhere DEF CaseSafe
    <2> DEFINE x == [r EXCEPT !.todo = R3]
    <2>3. \/ handling' = [handling EXCEPT ![q] = Case!NoRequest]
          \/ /\ handling' = [handling EXCEPT ![q] = x]
             /\ ~(Case!CountTodayByReporter(r.key[1]) >= MaxDaily)
      BY <1>3, <2>1, <2>2 DEF Case!CountToday, Case!Stop, Case!Proceed, Case!GoOn
    <2>4. x.op = r.op /\ x.key = r.key /\ x.todo = R3 /\ x.todo \notin {R5, H2, H3}
      BY <2>2 DEF CaseRequest
    <2> HIDE DEF x
    <2>5. Case!CountTodayByReporter(r.key[1]) \in Nat
      BY CaseCount DEF CaseSafe
    <2>6. Case!CountTodayByReporter(r.key[1])' = Case!CountTodayByReporter(r.key[1])
      BY <1>1 DEF Case!CountTodayByReporter
    <2>7. ~(Case!CountTodayByReporter(r.key[1]) >= MaxDaily) => Pending(x)' /\ Open(x)'
      BY <2>4, <2>5, <2>6, ReportsAssumption DEF Pending, Open
    <2>8. r.todo # H3
      BY <2>2
    <2> QED BY <1>1, <2>2, <2>3, <2>4, <2>7, <2>8, CalmReads
  <1>4. CASE Case!GetByReporterTarget(q)
    <2>1. Case!At(q, "getExisting")
      BY <1>4 DEF Case!GetByReporterTarget
    <2> PICK r \in CaseRequest : r = handling[q]
      BY <2>1, CaseWhere DEF CaseSafe
    <2>2. r.op = "report" /\ r.todo = R4 /\ q \in Case!Active /\ reports[r.key] # Case!NoReport
      BY <2>1, CaseWhere DEF CaseSafe, RequestsKnown, Known
    <2> DEFINE x == [r EXCEPT !.todo = R5]
    <2>3. \/ handling' = [handling EXCEPT ![q] = Case!NoRequest]
          \/ handling' = [handling EXCEPT ![q] = x] /\ reports[r.key].status # "pending"
      BY <1>4, <2>1, <2>2 DEF Case!GetByReporterTarget, Case!Stop, Case!GoOn, R5
    <2>4. x.op = r.op /\ x.key = r.key /\ x.todo \notin {R3, H2, H3}
      BY <2>2 DEF CaseRequest
    <2> HIDE DEF x
    <2>5. reports[r.key].status \in {"pending", "approved", "rejected"}
      BY <2>2 DEF CaseSafe, CaseTyped, CaseRequest, Case!Row
    <2>6. reports[r.key].status # "pending" => Pending(x)' /\ Open(x)'
      BY <1>1, <2>4, <2>5 DEF Pending, Open
    <2>7. r.todo # H3
      BY <2>2
    <2> QED BY <1>1, <2>2, <2>3, <2>4, <2>6, <2>7, CalmReads, ZenonT(40)
  <1>5. CASE Case!GetReport(q)
    <2>1. Case!At(q, "getReport")
      BY <1>5 DEF Case!GetReport
    <2> PICK r \in CaseRequest : r = handling[q]
      BY <2>1, CaseWhere DEF CaseSafe
    <2>2. r.op = "handle" /\ r.todo = H1 /\ q \in Case!Active
      BY <2>1, CaseWhere DEF CaseSafe
    <2> PICK n : n = reports[r.key].rev
      OBVIOUS
    <2> DEFINE x == [r EXCEPT !.rev = n, !.todo = Case!HandleCalls(r.approve)]
    <2>3. \/ handling' = [handling EXCEPT ![q] = Case!NoRequest]
          \/ handling' = [handling EXCEPT ![q] = x] /\ reports[r.key].status = "pending"
      BY <1>5 DEF Case!GetReport, Case!Stop, Case!GoOn
    <2>4. \/ Case!HandleCalls(r.approve) = H2
          \/ Case!HandleCalls(r.approve) = H3 /\ r.approve # TRUE
      BY CaseCalls DEF CaseRequest
    <2>5. /\ x.op = r.op /\ x.key = r.key /\ x.rev = n /\ x.approve = r.approve
          /\ x.todo = H2 \/ (x.todo = H3 /\ x.approve # TRUE)
      BY <2>2, <2>4 DEF CaseRequest
    <2> HIDE DEF x
    <2>6. reports[r.key].status = "pending" => Pending(x)' /\ Open(x)'
      BY <1>1, <2>5 DEF Pending, Open
    <2>7. r.todo # H3
      BY <2>2
    <2> QED BY <1>1, <2>2, <2>3, <2>5, <2>6, <2>7, CalmReads, ZenonT(40)
  <1>6. CASE Case!GetUserByID(q)
    <2>1. Case!At(q, "getUser")
      BY <1>6 DEF Case!GetUserByID
    <2> PICK r \in CaseRequest : r = handling[q]
      BY <2>1, CaseWhere DEF CaseSafe
    <2>2. r.todo \in {S1, D1} /\ q \in Case!Active
      BY <2>1, CaseWhere DEF CaseSafe
    <2> PICK b : b = (target["user"] = "down")
      OBVIOUS
    <2> DEFINE x == [r EXCEPT !.banned = b, !.todo = Tail(r.todo)]
    <2>3. handling' = [handling EXCEPT ![q] = Case!NoRequest] \/ handling' = [handling EXCEPT ![q] = x]
      BY <1>6 DEF Case!GetUserByID, Case!Stop, Case!GoOn
    <2>4. x.op = r.op /\ x.key = r.key /\ x.todo \notin {R3, R5, H2, H3}
      BY <2>2 DEF CaseRequest
    <2> HIDE DEF x
    <2>5. Pending(x)' /\ Open(x)'
      BY <2>4 DEF Pending, Open
    <2>6. r.todo # H3
      BY <2>2
    <2> QED BY <1>1, <2>2, <2>3, <2>4, <2>5, <2>6, CalmReads
  <1> QED BY <1>2, <1>3, <1>4, <1>5, <1>6

LEMMA CalmFails ==
  ASSUME CaseSafe, CaseCalm, CaseSafe', NEW q \in Request, Case!Fail(q)
  PROVE  CaseCalm'
  <1>1. UNCHANGED <<reports, disposed, today>> /\ failed' # 0 /\ q \in Case!Active
    <2>1. failed' = failed + 1 /\ failed \in Nat
      BY SocialGraphAssumption DEF Case!Fail, CaseSafe, CaseTyped
    <2> QED BY <2>1 DEF Case!Fail
  <1>2. CASE ~Case!At(q, "count")
    <2>1. handling' = [handling EXCEPT ![q] = Case!NoRequest]
      BY <1>2 DEF Case!Fail, Case!Stop, Case!GoOn
    <2> QED BY <1>1, <2>1, CalmReads
  <1>3. CASE Case!At(q, "count")
    <2> PICK r \in CaseRequest : r = handling[q]
      BY <1>3, CaseWhere DEF CaseSafe
    <2>1. r.op = "report" /\ r.todo = R2
      BY <1>3, CaseWhere DEF CaseSafe
    <2> DEFINE x == [r EXCEPT !.todo = R3]
    <2>2. handling' = [handling EXCEPT ![q] = x]
      BY <1>3, <2>1, CaseHeads DEF Case!Fail, Case!Proceed, Case!GoOn
    <2>3. x.op = r.op /\ x.key = r.key /\ x.todo \notin {R5, H2, H3}
      BY <2>1, CaseApart DEF CaseRequest
    <2> HIDE DEF x
    <2>4. Pending(x)' /\ Open(x)'
      BY <1>1, <2>3 DEF Pending, Open
    <2> QED BY <1>1, <2>2, <2>3, <2>4, CalmReads
  <1> QED BY <1>2, <1>3

LEMMA CalmStarts ==
  ASSUME CaseSafe, CaseCalm, CaseSafe', NEW q \in Request,
         NEW op \in {"report", "handle", "ban", "delete"},
         NEW k \in Case!Key, NEW approve \in BOOLEAN, Case!Start(q, op, k, approve),
         UNCHANGED <<reports, today, disposed, failed>>, ~crossed'
  PROVE  CaseCalm'
  <1> DEFINE x == [op |-> op, key |-> k, approve |-> approve, rev |-> 0, banned |-> FALSE,
                   todo |-> Case!Calls[op]]
  <1>1. /\ handling' = [handling EXCEPT ![q] = x] /\ q \notin Case!Active
        /\ \A s \in Case!Active : handling[s].op = op =>
             /\ op = "report" => handling[s].key[1] # k[1]
             /\ op = "handle" => handling[s].key # k
    BY DEF Case!Start, Case!Active
  <1>2. Case!Calls[op] \in {R1, H1, S1, D1}
    BY CaseCalls
  <1>3. x.op = op /\ x.key = k /\ x.todo \notin {R3, R5, H2, H3} /\ x # Case!NoRequest
    BY <1>2, CaseApart DEF Case!NoRequest
  <1> HIDE DEF x
  <1>4. Pending(x)' /\ Open(x)'
    BY <1>3 DEF Pending, Open
  <1>5. Alone'
    <2> SUFFICES ASSUME NEW s \in Request, NEW t \in Request, s # t
                 PROVE  /\ (Filing(s) /\ Filing(t) => handling[s].key[1] # handling[t].key[1])'
                        /\ (Handling(s) /\ Handling(t) => handling[s].key # handling[t].key)'
      BY DEF Alone
    <2>1. \A p \in Request : /\ p # q => handling'[p] = handling[p]
                             /\ p = q => handling'[p] = x
      BY <1>1 DEF CaseSafe, RequestsKnown
    <2>2. CASE s # q /\ t # q
      BY <2>1, <2>2 DEF CaseCalm, Alone, Filing, Handling, Case!Active
    <2>3. CASE s = q
      BY <1>1, <1>3, <2>1, <2>3 DEF Filing, Handling, Case!Active
    <2>4. CASE t = q
      BY <1>1, <1>3, <2>1, <2>4 DEF Filing, Handling, Case!Active
    <2> QED BY <2>2, <2>3, <2>4
  <1> QED BY <1>1, <1>4, <1>5, CalmQuiet

LEMMA CalmCreates ==
  ASSUME CaseSafe, CaseCalm, CaseSafe', NEW q \in Request, Case!Create(q)
  PROVE  CaseCalm'
  <1>1. Case!At(q, "create") /\ UNCHANGED <<disposed, failed>>
    BY DEF Case!Create, Case!bounds
  <1> PICK r \in CaseRequest : r = handling[q]
    BY <1>1, CaseWhere DEF CaseSafe
  <1> PICK k \in Case!Key : k = r.key
    BY DEF CaseRequest
  <1>2. r.op = "report" /\ r.todo = R3 /\ q \in Case!Active
    BY <1>1, CaseWhere DEF CaseSafe
  <1>3. CASE reports[k] # Case!NoReport
    <2> DEFINE x == [r EXCEPT !.todo = R4]
    <2>1. UNCHANGED <<reports, today>> /\ handling' = [handling EXCEPT ![q] = x]
      BY <1>3, CaseHeads DEF Case!Create, Case!GoOn, R4
    <2>2. x.op = r.op /\ x.key = r.key /\ x.todo \notin {R3, R5, H2, H3}
      BY <1>2, CaseApart DEF CaseRequest
    <2> HIDE DEF x
    <2>3. Pending(x)' /\ Open(x)'
      BY <2>2 DEF Pending, Open
    <2>4. r.todo # H3
      BY <1>2, CaseApart
    <2> QED BY <1>1, <1>2, <2>1, <2>2, <2>3, <2>4, CalmReads
  <1>4. CASE reports[k] = Case!NoReport
    <2>1. /\ reports' = [reports EXCEPT ![k] = [status |-> "pending", rev |-> 1, by |-> 0]]
          /\ today' = today \cup {k}
          /\ handling' = [handling EXCEPT ![q] = Case!NoRequest]
      BY <1>4 DEF Case!Create, Case!Stop, Case!GoOn
    <2>2. /\ reports'[k].status = "pending"
          /\ \A j \in Case!Key : j # k => reports'[j] = reports[j]
      BY <2>1 DEF CaseSafe, CaseTyped
    <2>3. \A n \in 1..MaxFilings : <<k, n>> \notin disposed
      BY <1>4 DEF CaseSafe, ActedOn
    <2>4. <<k, reports'[k].rev>> \notin disposed
      <3>1. reports'[k].rev = 1
        BY <2>1 DEF CaseSafe, CaseTyped
      <3> QED BY <2>3, <3>1, ReportsAssumption
    <2>5. Alone'
      BY <2>1, AloneKept DEF CaseSafe, CaseCalm
    <2>6. ASSUME NEW p
          PROVE  /\ Case!CountTodayByReporter(p) \in Nat /\ Case!CountTodayByReporter(p)' \in Nat
                 /\ p # k[1] => Case!CountTodayByReporter(p)' = Case!CountTodayByReporter(p)
                 /\ Case!CountTodayByReporter(p)' <= Case!CountTodayByReporter(p) + 1
      <3> PICK S : S = today'
        OBVIOUS
      <3> PICK old : old = {j \in today : j[1] = p}
        OBVIOUS
      <3> PICK new : new = {j \in S : j[1] = p}
        OBVIOUS
      <3>1. /\ Case!CountTodayByReporter(p) = Cardinality(old) /\ IsFiniteSet(old)
            /\ Cardinality(old) \in Nat
        BY CaseCount, FS_CardinalityType DEF CaseSafe
      <3> PICK n \in Nat : n = Cardinality(old)
        BY <3>1
      <3>2. Case!CountTodayByReporter(p)' = Cardinality(new)
        <4>1. IsFiniteSet(S)
          BY DEF CaseSafe, CaseTyped
        <4>2. Case!Cardinality({j \in S : j[1] = p}) = Cardinality({j \in S : j[1] = p})
          BY <4>1, CountOf
        <4> QED BY <4>2 DEF Case!CountTodayByReporter
      <3>3. CASE k[1] = p
        <4>1. new = old \cup {k}
          BY <2>1, <3>3
        <4>2. Cardinality(old \cup {k}) =
                IF k \in old THEN Cardinality(old) ELSE Cardinality(old) + 1
          BY <3>1, FS_AddElement
        <4>3. \/ Case!CountTodayByReporter(p)' = n
              \/ Case!CountTodayByReporter(p)' = n + 1
          BY <3>2, <4>1, <4>2
        <4> QED BY <3>1, <3>3, <4>3
      <3>4. CASE k[1] # p
        <4>1. new = old
          BY <2>1, <3>4
        <4>2. Case!CountTodayByReporter(p)' = n
          BY <3>2, <4>1
        <4> QED BY <3>1, <4>2
      <3> QED BY <3>3, <3>4
    <2>7. StillRight'
      <3>1. ASSUME NEW s \in Case!Active, s # q, Pending(handling[s]), Open(handling[s])
            PROVE  StaysRight(handling[s])
        <4> PICK t \in CaseRequest : t = handling[s]
          BY DEF CaseSafe, RequestsKnown, Case!Active
        <4>1. Placed(t) /\ Known(t) /\ Pending(t) /\ Open(t)
          BY <3>1 DEF CaseSafe, RequestsKnown
        <4>2. t.todo \in {R5, H2, H3} => t.key # k
          BY <1>4, <4>1, CaseApart DEF Known, Placed
        <4>3. t.todo = R3 => t.op = "report" /\ t.key[1] # k[1]
          <5>1. t.todo = R3 => t.op = "report"
            BY <4>1, CaseApart DEF Placed
          <5> QED BY <1>2, <3>1, <5>1 DEF CaseCalm, Alone, Filing, Case!Active
        <4>4. t.todo = R3 =>
                Case!CountTodayByReporter(t.key[1])' = Case!CountTodayByReporter(t.key[1])
          BY <2>6, <4>3
        <4>5. t.key \in Case!Key
          BY DEF CaseRequest
        <4>6. StaysRight(t)
          BY <1>1, <2>2, <4>1, <4>2, <4>4, <4>5 DEF StaysRight, Pending, Open
        <4> QED BY <4>6
      <3> QED BY <2>1, <3>1, RightKept DEF CaseSafe, CaseCalm
    <2>8. AboutToMark'
      <3> SUFFICES ASSUME failed' = 0, NEW j \in Case!Key, reports'[j].status = "pending",
                          <<j, reports'[j].rev>> \in disposed'
                   PROVE  (\E s \in Request : /\ Handling(s) /\ handling[s].key = j
                                              /\ handling[s].todo = H3 /\ handling[s].approve = TRUE)'
        BY DEF AboutToMark, Case!Key
      <3>1. j # k
        BY <1>1, <2>4
      <3> PICK s \in Request : /\ Handling(s) /\ handling[s].key = j
                               /\ handling[s].todo = H3 /\ handling[s].approve = TRUE
        BY <1>1, <2>2, <3>1 DEF CaseCalm, AboutToMark
      <3>2. s # q
        BY <1>2 DEF Handling
      <3>3. handling'[s] = handling[s]
        BY <2>1, <3>2 DEF CaseSafe, RequestsKnown
      <3> QED BY <3>3 DEF Handling, Case!Active
    <2>9. \A p \in Reporter : Within(p)'
      <3> SUFFICES ASSUME NEW p \in Reporter, failed' = 0
                   PROVE  Case!CountTodayByReporter(p)' <= MaxDaily
        BY DEF Within
      <3>1. CASE p = k[1]
        <4>1. Case!CountTodayByReporter(p) < MaxDaily
          BY <1>1, <1>2, <3>1 DEF CaseCalm, StillRight, Open
        <4> QED BY <2>6, <4>1, ReportsAssumption
      <3>2. CASE p # k[1]
        BY <1>1, <2>6, <3>2 DEF CaseCalm, Within
      <3> QED BY <3>1, <3>2
    <2>10. \A j \in Case!Key : Decided(j)'
      BY <1>1, <2>2 DEF CaseCalm, Decided
    <2> QED BY <2>5, <2>7, <2>8, <2>9, <2>10 DEF CaseCalm, Case!Key
  <1> QED BY <1>3, <1>4

LEMMA CalmResets ==
  ASSUME CaseSafe, CaseCalm, CaseSafe', NEW q \in Request, Case!ResetForReporter(q)
  PROVE  CaseCalm'
  <1>1. /\ Case!At(q, "reset") /\ UNCHANGED <<today, disposed, failed>>
        /\ handling' = [handling EXCEPT ![q] = Case!NoRequest]
    BY DEF Case!ResetForReporter, Case!bounds, Case!Stop, Case!GoOn
  <1> PICK r \in CaseRequest : r = handling[q]
    BY <1>1, CaseWhere DEF CaseSafe
  <1> PICK k \in Case!Key : k = r.key
    BY DEF CaseRequest
  <1>2. r.op = "report" /\ r.todo = R5 /\ q \in Case!Active /\ reports[k] # Case!NoReport
    BY <1>1, CaseWhere DEF CaseSafe, RequestsKnown, Known
  <1>3. reports[k].status # "pending"
    BY <1>2 DEF CaseCalm, StillRight, Open
  <1> PICK n \in 1..MaxFilings : n = reports[k].rev
    BY <1>2 DEF CaseSafe, CaseTyped, Case!Row
  <1>4. reports' = [reports EXCEPT ![k] = [status |-> "pending", rev |-> n + 1, by |-> 0]]
    BY DEF Case!ResetForReporter
  <1>5. /\ reports'[k].status = "pending" /\ reports'[k].rev = n + 1
        /\ \A j \in Case!Key : j # k => reports'[j] = reports[j]
    BY <1>4 DEF CaseSafe, CaseTyped
  <1>6. <<k, reports'[k].rev>> \notin disposed
    <2>1. n + 1 \in 1..MaxFilings => ~(n + 1 <= n)
      BY ReportsAssumption
    <2>2. <<k, n + 1>> \in disposed => n + 1 \in 1..MaxFilings
      BY DEF CaseSafe, CaseTyped
    <2> QED BY <1>5, <2>1, <2>2 DEF CaseSafe, ActedOn
  <1>7. Alone'
    BY <1>1, AloneKept DEF CaseSafe, CaseCalm
  <1>8. StillRight'
    <2>1. ASSUME NEW s \in Case!Active, s # q, Pending(handling[s]), Open(handling[s])
          PROVE  StaysRight(handling[s])
      <3> PICK t \in CaseRequest : t = handling[s]
        BY DEF CaseSafe, RequestsKnown, Case!Active
      <3>1. Placed(t) /\ Pending(t) /\ Open(t)
        BY <2>1 DEF CaseSafe, RequestsKnown
      <3>2. t.todo \in {H2, H3} => t.key # k
        BY <1>3, <3>1 DEF Pending
      <3>3. t.todo = R5 => t.key # k
        <4>1. t.todo = R5 => t.op = "report"
          BY <3>1, CaseApart DEF Placed
        <4> QED BY <1>2, <2>1, <4>1 DEF CaseCalm, Alone, Filing, Case!Active
      <3>4. Case!CountTodayByReporter(t.key[1])' = Case!CountTodayByReporter(t.key[1])
        BY <1>1 DEF Case!CountTodayByReporter
      <3>5. t.key \in Case!Key
        BY DEF CaseRequest
      <3>6. StaysRight(t)
        BY <1>1, <1>5, <3>1, <3>2, <3>3, <3>4, <3>5 DEF StaysRight, Pending, Open
      <3> QED BY <3>6
    <2> QED BY <1>1, <2>1, RightKept DEF CaseSafe, CaseCalm
  <1>9. AboutToMark'
    <2> SUFFICES ASSUME failed' = 0, NEW j \in Case!Key, reports'[j].status = "pending",
                        <<j, reports'[j].rev>> \in disposed'
                 PROVE  (\E s \in Request : /\ Handling(s) /\ handling[s].key = j
                                            /\ handling[s].todo = H3 /\ handling[s].approve = TRUE)'
      BY DEF AboutToMark, Case!Key
    <2>1. j # k
      BY <1>1, <1>6
    <2> PICK s \in Request : /\ Handling(s) /\ handling[s].key = j
                             /\ handling[s].todo = H3 /\ handling[s].approve = TRUE
      BY <1>1, <1>5, <2>1 DEF CaseCalm, AboutToMark
    <2>2. s # q
      BY <1>2 DEF Handling
    <2>3. handling'[s] = handling[s]
      BY <1>1, <2>2 DEF CaseSafe, RequestsKnown
    <2> QED BY <2>3 DEF Handling, Case!Active
  <1>10. \A p \in Reporter : Within(p)'
    BY <1>1 DEF CaseCalm, Within, Case!CountTodayByReporter
  <1>11. \A j \in Case!Key : Decided(j)'
    BY <1>1, <1>5 DEF CaseCalm, Decided
  <1> QED BY <1>7, <1>8, <1>9, <1>10, <1>11 DEF CaseCalm, Case!Key

LEMMA CalmDisposes ==
  ASSUME CaseSafe, CaseCalm, CaseSafe', NEW q \in Request, Case!Dispose(q)
  PROVE  CaseCalm'
  <1>1. Case!At(q, "dispose") /\ UNCHANGED <<reports, today, failed>>
    BY DEF Case!Dispose, Case!bounds
  <1> PICK r \in CaseRequest : r = handling[q]
    BY <1>1, CaseWhere DEF CaseSafe
  <1> PICK k \in Case!Key : k = r.key
    BY DEF CaseRequest
  <1>2. r.op = "handle" /\ r.todo = H2 /\ r.approve = TRUE /\ q \in Case!Active
    BY <1>1, CaseWhere DEF CaseSafe
  <1>3. CASE Case!Stop(q) /\ UNCHANGED disposed
    <2>1. handling' = [handling EXCEPT ![q] = Case!NoRequest]
      BY <1>3 DEF Case!Stop, Case!GoOn
    <2>2. r.todo # H3
      BY <1>2, CaseApart
    <2> QED BY <1>1, <1>2, <1>3, <2>1, <2>2, CalmReads
  <1>4. CASE disposed' = disposed \cup {<<k, r.rev>>} /\ Case!Proceed(q)
    <2> DEFINE x == [r EXCEPT !.todo = H3]
    <2>1. handling' = [handling EXCEPT ![q] = x]
      BY <1>2, <1>4, CaseHeads DEF Case!Proceed, Case!GoOn
    <2>2. /\ x.op = "handle" /\ x.key = k /\ x.rev = r.rev /\ x.approve = TRUE /\ x.todo = H3
          /\ x # Case!NoRequest
      BY <1>2 DEF CaseRequest, Case!NoRequest
    <2> HIDE DEF x
    <2>3. reports[k].status = "pending" /\ reports[k].rev = r.rev
      BY <1>2 DEF CaseCalm, StillRight, Pending
    <2>4. Pending(x)' /\ Open(x)'
      BY <1>1, <1>4, <2>2, <2>3, CaseApart DEF Pending, Open
    <2>5. Alone'
      BY <1>2, <2>1, <2>2, AloneKept DEF CaseSafe, CaseCalm
    <2>6. StillRight'
      <3>1. ASSUME NEW s \in Case!Active, s # q, Pending(handling[s]), Open(handling[s])
            PROVE  StaysRight(handling[s])
        <4> PICK t : t = handling[s]
          OBVIOUS
        <4>1. Case!CountTodayByReporter(t.key[1])' = Case!CountTodayByReporter(t.key[1])
          BY <1>1 DEF Case!CountTodayByReporter
        <4>2. StaysRight(t)
          BY <1>1, <1>4, <3>1, <4>1 DEF StaysRight, Pending, Open
        <4> QED BY <4>2
      <3> QED BY <2>1, <2>4, <3>1, RightKept DEF CaseSafe, CaseCalm
    <2>7. AboutToMark'
      <3> SUFFICES ASSUME failed' = 0, NEW j \in Case!Key, reports'[j].status = "pending",
                          <<j, reports'[j].rev>> \in disposed'
                   PROVE  (\E s \in Request : /\ Handling(s) /\ handling[s].key = j
                                              /\ handling[s].todo = H3 /\ handling[s].approve = TRUE)'
        BY DEF AboutToMark, Case!Key
      <3>1. handling'[q] = x /\ \A s \in Request : s # q => handling'[s] = handling[s]
        BY <2>1 DEF CaseSafe, RequestsKnown
      <3>2. CASE j = k
        BY <2>2, <3>1, <3>2 DEF Handling, Case!Active
      <3>3. CASE j # k
        <4> PICK s \in Request : /\ Handling(s) /\ handling[s].key = j
                                 /\ handling[s].todo = H3 /\ handling[s].approve = TRUE
          BY <1>1, <1>4, <3>3 DEF CaseCalm, AboutToMark
        <4>1. s # q
          BY <3>3
        <4> QED BY <3>1, <4>1 DEF Handling, Case!Active
      <3> QED BY <3>2, <3>3
    <2>8. \A p \in Reporter : Within(p)'
      BY <1>1 DEF CaseCalm, Within, Case!CountTodayByReporter
    <2>9. ASSUME NEW j \in Case!Key PROVE Decided(j)'
      <3>1. CASE j = k
        BY <1>1, <2>3, <3>1 DEF Decided
      <3>2. CASE j # k
        BY <1>1, <1>4, <3>2 DEF CaseCalm, Decided
      <3> QED BY <3>1, <3>2
    <2> QED BY <2>5, <2>6, <2>7, <2>8, <2>9 DEF CaseCalm, Case!Key
  <1> QED BY <1>3, <1>4 DEF Case!Dispose

LEMMA CalmMarks ==
  ASSUME CaseSafe, CaseCalm, CaseSafe', NEW q \in Request, Case!UpdateStatus(q)
  PROVE  CaseCalm'
  <1>1. /\ Case!At(q, "mark") /\ Case!Proceed(q)
        /\ UNCHANGED <<today, disposed, failed>>
    BY DEF Case!UpdateStatus, Case!bounds
  <1> PICK r \in CaseRequest : r = handling[q]
    BY <1>1, CaseWhere DEF CaseSafe
  <1> PICK k \in Case!Key : k = r.key
    BY DEF CaseRequest
  <1>2. r.op = "handle" /\ r.todo = H3 /\ q \in Case!Active /\ reports[k] # Case!NoReport
    BY <1>1, CaseWhere DEF CaseSafe, RequestsKnown, Known
  <1>3. handling' = [handling EXCEPT ![q] = Case!NoRequest]
    BY <1>1, <1>2, CaseHeads DEF Case!Proceed, Case!GoOn
  <1>4. /\ reports[k].status = "pending" /\ reports[k].rev = r.rev
        /\ r.approve = TRUE => <<k, r.rev>> \in disposed
    BY <1>2 DEF CaseCalm, StillRight, Pending
  <1> PICK v : v = IF r.approve THEN "approved" ELSE "rejected"
    OBVIOUS
  <1>5. reports' = [reports EXCEPT ![k].status = v, ![k].by = r.rev]
    BY DEF Case!UpdateStatus
  <1>6. /\ reports'[k].status = v /\ reports'[k].by = r.rev /\ reports'[k].rev = r.rev
        /\ \A j \in Case!Key : j # k => reports'[j] = reports[j]
    <2> PICK row \in Case!Row : row = reports[k]
      BY <1>2 DEF CaseSafe, CaseTyped
    <2>1. reports' = [reports EXCEPT ![k] = [row EXCEPT !.status = v, !.by = r.rev]]
      BY <1>5
    <2>2. reports'[k] = [row EXCEPT !.status = v, !.by = r.rev]
      BY <2>1 DEF CaseSafe, CaseTyped
    <2> QED BY <1>4, <2>1, <2>2 DEF CaseSafe, CaseTyped, Case!Row
  <1>7. /\ v = "approved" => r.approve = TRUE
        /\ v = "rejected" => r.approve # TRUE
        /\ v \in {"approved", "rejected"}
    BY DEF CaseRequest
  <1>8. Alone'
    BY <1>3, AloneKept DEF CaseSafe, CaseCalm
  <1>9. StillRight'
    <2>1. ASSUME NEW s \in Case!Active, s # q, Pending(handling[s]), Open(handling[s])
          PROVE  StaysRight(handling[s])
      <3> PICK t \in CaseRequest : t = handling[s]
        BY DEF CaseSafe, RequestsKnown, Case!Active
      <3>1. Placed(t) /\ Pending(t) /\ Open(t)
        BY <2>1 DEF CaseSafe, RequestsKnown
      <3>2. t.todo \in {H2, H3} => t.key # k
        <4>1. t.todo \in {H2, H3} => t.op = "handle"
          BY <3>1, CaseApart DEF Placed
        <4> QED BY <1>2, <2>1, <4>1 DEF CaseCalm, Alone, Handling, Case!Active
      <3>3. Case!CountTodayByReporter(t.key[1])' = Case!CountTodayByReporter(t.key[1])
        BY <1>1 DEF Case!CountTodayByReporter
      <3>4. t.key \in Case!Key
        BY DEF CaseRequest
      <3>5. StaysRight(t)
        BY <1>1, <1>6, <1>7, <3>1, <3>2, <3>3, <3>4 DEF StaysRight, Pending, Open
      <3> QED BY <3>5
    <2> QED BY <1>3, <2>1, RightKept DEF CaseSafe, CaseCalm
  <1>10. AboutToMark'
    <2> SUFFICES ASSUME failed' = 0, NEW j \in Case!Key, reports'[j].status = "pending",
                        <<j, reports'[j].rev>> \in disposed'
                 PROVE  (\E s \in Request : /\ Handling(s) /\ handling[s].key = j
                                            /\ handling[s].todo = H3 /\ handling[s].approve = TRUE)'
      BY DEF AboutToMark, Case!Key
    <2>1. j # k
      BY <1>6, <1>7
    <2> PICK s \in Request : /\ Handling(s) /\ handling[s].key = j
                             /\ handling[s].todo = H3 /\ handling[s].approve = TRUE
      BY <1>1, <1>6, <2>1 DEF CaseCalm, AboutToMark
    <2>2. s # q
      BY <2>1
    <2>3. handling'[s] = handling[s]
      BY <1>3, <2>2 DEF CaseSafe, RequestsKnown
    <2> QED BY <2>3 DEF Handling, Case!Active
  <1>11. \A p \in Reporter : Within(p)'
    BY <1>1 DEF CaseCalm, Within, Case!CountTodayByReporter
  <1>12. ASSUME NEW j \in Case!Key PROVE Decided(j)'
    <2>1. CASE j # k
      BY <1>1, <1>6, <2>1 DEF CaseCalm, Decided
    <2>2. CASE j = k
      <3>1. failed = 0 /\ r.approve # TRUE => <<k, r.rev>> \notin disposed
        <4> SUFFICES ASSUME failed = 0, r.approve # TRUE, <<k, r.rev>> \in disposed PROVE FALSE
          OBVIOUS
        <4> PICK s \in Request : /\ Handling(s) /\ handling[s].key = k
                                 /\ handling[s].todo = H3 /\ handling[s].approve = TRUE
          BY <1>4 DEF CaseCalm, AboutToMark
        <4>1. s # q
          OBVIOUS
        <4> QED BY <1>2, <4>1 DEF CaseCalm, Alone, Handling, Case!Active
      <3> QED BY <1>1, <1>4, <1>6, <1>7, <2>2, <3>1 DEF Decided
    <2> QED BY <2>1, <2>2
  <1> QED BY <1>8, <1>9, <1>10, <1>11, <1>12 DEF CaseCalm, Case!Key

LEMMA CalmRest ==
  ASSUME CaseSafe, CaseCalm, CaseSafe',
         \/ \E q \in Request : Case!UpdateUserStatus(q) \/ Case!DeleteUser(q)
         \/ \E t \in Target : Case!OwnDelete(t)
         \/ Case!NewDay
         \/ UNCHANGED Case!vars
  PROVE  CaseCalm'
  <1>1. CASE \E q \in Request : Case!UpdateUserStatus(q) \/ Case!DeleteUser(q)
    <2> PICK q \in Request : Case!UpdateUserStatus(q) \/ Case!DeleteUser(q)
      BY <1>1
    <2>1. /\ Case!At(q, "setStatus") \/ Case!At(q, "deleteUser")
          /\ handling' = [handling EXCEPT ![q] = Case!NoRequest]
          /\ UNCHANGED <<reports, today, disposed, failed>>
      BY DEF Case!UpdateUserStatus, Case!DeleteUser, Case!bounds, Case!Stop, Case!GoOn
    <2>2. handling[q].todo \in {S2, D2} /\ q \in Case!Active
      BY <2>1, CaseWhere DEF CaseSafe
    <2>3. handling[q].todo # H3
      BY <2>2, CaseApart
    <2> QED BY <2>1, <2>2, <2>3, CalmReads
  <1>2. CASE (\E t \in Target : Case!OwnDelete(t)) \/ Case!NewDay \/ UNCHANGED Case!vars
    <2>1. /\ UNCHANGED <<reports, handling, disposed, failed>>
          /\ today' = today \/ today' = {}
      BY <1>2 DEF Case!OwnDelete, Case!NewDay, Case!vars, Case!bounds
    <2>2. \A r : /\ Case!CountTodayByReporter(r)' <= Case!CountTodayByReporter(r)
                 /\ Case!CountTodayByReporter(r) \in Nat
                 /\ Case!CountTodayByReporter(r)' \in Nat
      BY <2>1, CountFalls DEF CaseSafe
    <2>3. \A r : /\ Case!CountTodayByReporter(r) < MaxDaily =>
                      Case!CountTodayByReporter(r)' < MaxDaily
                 /\ Case!CountTodayByReporter(r) <= MaxDaily =>
                      Case!CountTodayByReporter(r)' <= MaxDaily
      BY <2>2, ReportsAssumption
    <2>4. Alone' /\ AboutToMark'
      BY <2>1 DEF CaseCalm, Alone, AboutToMark, Filing, Handling, Case!Active, Case!Key
    <2>5. StillRight'
      <3> SUFFICES ASSUME NEW s \in Case!Active PROVE (Pending(handling[s]) /\ Open(handling[s]))'
        BY <2>1 DEF StillRight, Case!Active
      <3> PICK t : t = handling[s]
        OBVIOUS
      <3>1. Pending(t) /\ Open(t)
        BY DEF CaseCalm, StillRight
      <3> QED BY <2>1, <2>3, <3>1 DEF Pending, Open
    <2>6. /\ \A r \in Reporter : Within(r)'
          /\ \A k \in Case!Key : Decided(k)'
      BY <2>1, <2>3 DEF CaseCalm, Within, Decided
    <2> QED BY <2>4, <2>5, <2>6 DEF CaseCalm, Case!Key
  <1> QED BY <1>1, <1>2

LEMMA CaseCalmStep ==
  ASSUME CaseSafe, CaseSafe', ~crossed => CaseCalm, [Case!Next]_(Case!vars)
  PROVE  ~crossed' => CaseCalm'
  <1> SUFFICES ASSUME ~crossed' PROVE CaseCalm'
    OBVIOUS
  <1>1. ~crossed
    <2>1. crossed => crossed'
      BY DEF Case!Next, Case!vars, Case!bounds, Case!Report, Case!Handle, Case!Act, Case!Moderate,
             Case!Start, Case!BuildSnapshot, Case!CountToday, Case!Create,
             Case!GetByReporterTarget, Case!ResetForReporter, Case!GetReport, Case!Dispose,
             Case!UpdateStatus, Case!GetUserByID, Case!UpdateUserStatus, Case!DeleteUser,
             Case!OwnDelete, Case!NewDay, Case!Fail
    <2> QED BY <2>1
  <1>2. CaseCalm
    BY <1>1
  <1>3. CASE UNCHANGED Case!vars
    BY <1>2, <1>3, CalmRest
  <1>4. CASE Case!Next
    <2>1. \/ \E q \in Request : \E op \in {"report", "handle", "ban", "delete"} :
               \E k \in Case!Key : \E approve \in BOOLEAN :
                 /\ Case!Start(q, op, k, approve)
                 /\ UNCHANGED <<reports, today, disposed, failed>>
          \/ \E q \in Request : \/ Case!BuildSnapshot(q) \/ Case!CountToday(q)
                                \/ Case!GetByReporterTarget(q) \/ Case!GetReport(q)
                                \/ Case!GetUserByID(q)
          \/ \E q \in Request : \/ Case!Create(q) \/ Case!ResetForReporter(q)
                                \/ Case!Dispose(q) \/ Case!UpdateStatus(q) \/ Case!Fail(q)
          \/ \E q \in Request : \/ Case!UpdateUserStatus(q) \/ Case!DeleteUser(q)
          \/ \E t \in Target : Case!OwnDelete(t)
          \/ Case!NewDay
      BY <1>4 DEF Case!Next, Case!Act, Case!Report, Case!Handle, Case!Moderate, Case!bounds
    <2>2. CASE \E q \in Request : \E op \in {"report", "handle", "ban", "delete"} :
                 \E k \in Case!Key : \E approve \in BOOLEAN :
                   /\ Case!Start(q, op, k, approve)
                   /\ UNCHANGED <<reports, today, disposed, failed>>
      BY <1>2, <2>2, CalmStarts
    <2>3. CASE \E q \in Request : \/ Case!BuildSnapshot(q) \/ Case!CountToday(q)
                                  \/ Case!GetByReporterTarget(q) \/ Case!GetReport(q)
                                  \/ Case!GetUserByID(q)
      BY <1>2, <2>3, CalmLooks
    <2>4. CASE \E q \in Request : \/ Case!Create(q) \/ Case!ResetForReporter(q)
                                  \/ Case!Dispose(q) \/ Case!UpdateStatus(q) \/ Case!Fail(q)
      BY <1>2, <2>4, CalmCreates, CalmResets, CalmDisposes, CalmMarks, CalmFails
    <2> QED BY <1>2, <2>1, <2>2, <2>3, <2>4, CalmRest
  <1> QED BY <1>3, <1>4

\* What the invariant says of the requests is what TypeOK asks of them.
LEMMA CaseTypes == CaseSafe => Case!TypeOK
  <1> SUFFICES ASSUME CaseSafe PROVE Case!TypeOK
    OBVIOUS
  <1>1. /\ Case!Calls = [report |-> R1, handle |-> H1, ban |-> S1, delete |-> D1]
        /\ DOMAIN Case!Calls = {"report", "handle", "ban", "delete"}
    BY DEF Case!Calls, R1, H1, S1, D1
  <1>2. {"snapshot", "count", "create", "getReport", "getUser", "setStatus", "deleteUser",
         "getExisting", "reset", "dispose", "mark"} \subseteq Case!Step
    <2>1. /\ Case!ToSet(R1) = {"snapshot", "count", "create"} /\ Case!ToSet(H1) = {"getReport"}
          /\ Case!ToSet(S1) = {"getUser", "setStatus"} /\ Case!ToSet(D1) = {"getUser", "deleteUser"}
      BY DEF Case!ToSet, R1, H1, S1, D1
    <2>2. \A op \in {"report", "handle", "ban", "delete"} : Case!ToSet(Case!Calls[op]) \subseteq Case!Step
      BY <1>1 DEF Case!Step
    <2>3. {"getExisting", "reset", "dispose", "mark"} \subseteq Case!Step
      BY DEF Case!Step
    <2> QED BY <2>1, <2>2, <2>3, CaseCalls
  <1>3. ASSUME NEW q \in Case!Active
        PROVE  /\ handling[q].op \in DOMAIN Case!Calls /\ handling[q].todo # <<>>
               /\ Case!ToSet(handling[q].todo) \subseteq Case!Step
               /\ handling[q].key \in Case!Key
               /\ handling[q].rev \in 0..MaxFilings /\ handling[q].approve \in BOOLEAN
               /\ handling[q].banned \in BOOLEAN
    <2> PICK r \in CaseRequest : r = handling[q]
      BY DEF CaseSafe, RequestsKnown, Case!Active
    <2>1. \A t \in {R1, R2, R3, R4, R5, H1, H2, H3, S1, S2, D1, D2} :
            Case!ToSet(t) \subseteq
              {"snapshot", "count", "create", "getReport", "getUser", "setStatus", "deleteUser",
               "getExisting", "reset", "dispose", "mark"}
      BY DEF Case!ToSet, R1, R2, R3, R4, R5, H1, H2, H3, S1, S2, D1, D2
    <2>2. r.todo # <<>> /\ Case!ToSet(r.todo) \subseteq Case!Step
      BY <1>2, <2>1, CaseHeads, ZenonT(40) DEF CaseRequest
    <2>3. /\ r.op \in DOMAIN Case!Calls /\ r.key \in Case!Key /\ r.rev \in 0..MaxFilings
          /\ r.approve \in BOOLEAN /\ r.banned \in BOOLEAN
      BY <1>1 DEF CaseRequest
    <2> QED BY <2>2, <2>3
  <1> QED BY <1>3 DEF Case!TypeOK, CaseSafe, CaseTyped

(***************************************************************************)
(* Until two requests handle one report at a time or one reporter files    *)
(* two, a decision is about the report as filed last, an approved one has  *)
(* been acted on whatever fails, and nobody files more than he may; and a  *)
(* user of the moderators' own rank is touched by an approved report only  *)
(* (report_service.go:69-153, admin_service.go:54-78): for any reporters,  *)
(* targets and requests, and any number of filings, days and failures.     *)
(***************************************************************************)
THEOREM ReportsRightHolds == Case!Spec => []ReportsRight
  <1>1. Case!Init => CaseSafe /\ (~crossed => CaseCalm)
    <2> SUFFICES ASSUME Case!Init PROVE CaseSafe /\ CaseCalm
      OBVIOUS
    <2>1. Case!Active = {}
      BY DEF Case!Init, Case!Active
    <2>2. CaseTyped
      <3>1. target \in [Target -> {"up", "down", "missing"}]
        BY DEF Case!Init
      <3>2. reports \in [Case!Key -> {Case!NoReport} \cup Case!Row]
        BY DEF Case!Init, Case!Key
      <3>3. today = {} /\ disposed = {} /\ protected \in BOOLEAN /\ crossed \in BOOLEAN
        BY DEF Case!Init
      <3>4. work \in 0..MaxWork /\ failed \in 0..MaxFaults
        BY SocialGraphAssumption, ReportsAssumption DEF Case!Init
      <3> QED BY <3>1, <3>2, <3>3, <3>4, FS_EmptySet DEF CaseTyped
    <2>3. RequestsKnown /\ ActedOn /\ Case!RankRespected
      BY <2>1 DEF Case!Init, RequestsKnown, ActedOn, Case!RankRespected, Case!Key
    <2>4. \A r \in Reporter : Within(r)
      <3>1. \A r : {k \in {} : k[1] = r} = {}
        OBVIOUS
      <3>2. \A r : Case!CountTodayByReporter(r) = Cardinality({})
        BY <3>1 DEF Case!Init, Case!CountTodayByReporter, Case!Cardinality, Cardinality
      <3> QED BY <3>2, FS_EmptySet, ReportsAssumption DEF Within
    <2>5. \A k \in Case!Key : reports[k].status = "none"
      BY DEF Case!Init, Case!NoReport, Case!Key
    <2>6. CaseCalm
      BY <2>1, <2>4, <2>5
      DEF CaseCalm, Alone, StillRight, AboutToMark, Decided, Filing, Handling
    <2> QED BY <2>2, <2>3, <2>6 DEF CaseSafe
  <1>2. CaseSafe /\ (~crossed => CaseCalm) /\ [Case!Next]_(Case!vars) =>
          (CaseSafe /\ (~crossed => CaseCalm))'
    BY CaseSafeStep, CaseCalmStep
  <1>3. CaseSafe /\ (~crossed => CaseCalm) => ReportsRight
    BY CaseTypes DEF ReportsRight, CaseSafe, CaseCalm, Decided, Within, Case!DecidedOnCurrent,
                     Case!QuotaKept
  <1> QED BY <1>1, <1>2, <1>3, PTL DEF Case!Spec
=============================================================================
