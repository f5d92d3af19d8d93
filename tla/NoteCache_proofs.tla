-------------------------- MODULE NoteCache_proofs --------------------------
(***************************************************************************)
(* Proofs about the copies and the edit history of a note, and about users *)
(* and the copies of their profiles, for any number of requests in         *)
(* progress, of changes and of failing calls, and of versions kept.        *)
(***************************************************************************)
EXTENDS NoteCacheMC, FiniteSetTheorems, SequenceTheorems, TLAPS

(***************************************************************************)
(* The calls a request may have left.                                      *)
(***************************************************************************)
I1 == <<"insert", "dropNew", "dropLists">>
I2 == <<"dropNew", "dropLists">>
I3 == <<"dropLists">>

U1 == <<"getNote", "insertVersion", "trimVersions", "writeRow", "dropNote",
       "dropRaw", "dropNoteLists">>
U2 == <<"insertVersion", "trimVersions", "writeRow", "dropNote", "dropRaw",
       "dropNoteLists">>
U3 == <<"trimVersions", "writeRow", "dropNote", "dropRaw", "dropNoteLists">>
U4 == <<"writeRow", "dropNote", "dropRaw", "dropNoteLists">>
U5 == <<"dropNote", "dropRaw", "dropNoteLists">>
U6 == <<"dropRaw", "dropNoteLists">>
U7 == <<"dropNoteLists">>

R1 == <<"getNote", "pickVersion", "getNote", "insertVersion", "writeRow",
       "dropNote", "dropRaw", "dropLists">>
R2 == <<"pickVersion", "getNote", "insertVersion", "writeRow", "dropNote",
       "dropRaw", "dropLists">>
R3 == <<"getNote", "insertVersion", "writeRow", "dropNote", "dropRaw",
       "dropLists">>
R4 == <<"insertVersion", "writeRow", "dropNote", "dropRaw", "dropLists">>
R5 == <<"writeRow", "dropNote", "dropRaw", "dropLists">>
R6 == <<"dropNote", "dropRaw", "dropLists">>
R7 == <<"dropRaw", "dropLists">>
R8 == <<"dropLists">>

E1 == <<"erase", "dropNote", "dropNoteLists">>
E2 == <<"dropNote", "dropNoteLists">>
E3 == <<"dropNoteLists">>

A1 == <<"addCounters", "dropAll">>
A2 == <<"dropAll">>

N1 == <<"getNote", "dropAll">>
N2 == <<"dropAll">>

D1 == <<"getRaw", "getNote", "setRaw">>
D2 == <<"getNote", "setRaw">>
D3 == <<"setRaw">>

V1 == <<"getNote">>

F1 == <<"getFeed", "loadFeed", "setFeed">>
F2 == <<"loadFeed", "setFeed">>
F3 == <<"setFeed">>

G1 == <<"getList", "loadList", "setList">>
G2 == <<"loadList", "setList">>
G3 == <<"setList">>

W1 == <<"getWide", "loadList", "setWide">>
W2 == <<"loadList", "setWide">>
W3 == <<"setWide">>

\* Before the calls k, a request reads the row and fills NoteKey.
Load(k) == <<"loadNote", "setNote">> \o k
Fill(k) == <<"setNote">> \o k

\* What comes after GetByID.
AfterRead == {U2, R2, R4, N2, D3, <<>>}

\* The calls t are the rest of what operation op does.
Left(op, t) ==
  \/ op = "create" /\ t \in {I1, I2, I3}
  \/ op = "update" /\ t \in {U1, Load(U2), Fill(U2), U2, U3, U4, U5, U6, U7}
  \/ op = "restore" /\ t \in {R1, Load(R2), Fill(R2), R2, R3, Load(R4), Fill(R4),
                              R4, R5, R6, R7, R8}
  \/ op = "delete" /\ t \in {E1, E2, E3}
  \/ op = "flush" /\ t \in {A1, A2}
  \/ op = "interact" /\ t \in {N1, Load(N2), Fill(N2), N2}
  \/ op = "detail" /\ t \in {D1, D2, Load(D3), Fill(D3), D3}
  \/ op = "viewed" /\ t \in {V1, Load(<<>>), Fill(<<>>)}
  \/ op = "feed" /\ t \in {F1, F2, F3}
  \/ op = "list" /\ t \in {G1, G2, G3}
  \/ op = "wide" /\ t \in {W1, W2, W3}
-----------------------------------------------------------------------------
LEMMA OpIs ==
  Op = {"create", "update", "restore", "delete", "flush", "interact", "detail", "viewed",
        "feed", "list", "wide"}
  BY DEF Op, Calls

LEMMA CallHas ==
  {"insert", "dropNew", "dropLists", "getNote", "insertVersion", "trimVersions", "writeRow",
   "dropNote", "dropRaw", "dropNoteLists", "pickVersion", "erase", "addCounters", "dropAll",
   "getRaw", "setRaw", "getFeed", "loadFeed", "setFeed", "getList", "loadList", "setList",
   "getWide", "setWide", "loadNote", "setNote"} \subseteq Call
  <1>1. \A op \in Op : ToSet(Calls[op]) \subseteq Call
    BY DEF Call
  <1>2. /\ ToSet(Calls["create"]) = {"insert", "dropNew", "dropLists"}
        /\ ToSet(Calls["delete"]) = {"erase", "dropNote", "dropNoteLists"}
        /\ ToSet(Calls["flush"]) = {"addCounters", "dropAll"}
    BY DEF Calls, ToSet
  <1>3. ToSet(Calls["update"]) =
          {"getNote", "insertVersion", "trimVersions", "writeRow", "dropNote", "dropRaw",
           "dropNoteLists"}
    BY DEF Calls, ToSet
  <1>4. /\ ToSet(Calls["detail"]) = {"getRaw", "getNote", "setRaw"}
        /\ ToSet(Calls["feed"]) = {"getFeed", "loadFeed", "setFeed"}
        /\ ToSet(Calls["list"]) = {"getList", "loadList", "setList"}
        /\ ToSet(Calls["wide"]) = {"getWide", "loadList", "setWide"}
    BY DEF Calls, ToSet
  <1>5. "pickVersion" \in ToSet(Calls["restore"])
    <2>1. Calls["restore"][2] = "pickVersion" /\ 2 \in DOMAIN Calls["restore"]
      BY DEF Calls
    <2> QED BY <2>1 DEF ToSet
  <1>6. "loadNote" \in Call /\ "setNote" \in Call
    <2> DEFINE ofOps == UNION {ToSet(Calls[op]) : op \in Op}
    <2>1. Call = ofOps \cup {"loadNote", "setNote"}
      BY DEF Call
    <2> HIDE DEF ofOps
    <2> QED BY <2>1
  <1> QED BY <1>1, <1>2, <1>3, <1>4, <1>5, <1>6, OpIs

LEMMA CreateTodo ==
  /\ Calls["create"] = I1
  /\ Head(I1) = "insert" /\ Tail(I1) = I2 /\ I1 # <<>>
  /\ Head(I2) = "dropNew" /\ Tail(I2) = I3 /\ I2 # <<>>
  /\ Head(I3) = "dropLists" /\ Tail(I3) = <<>> /\ I3 # <<>>
  BY DEF Calls, I1, I2, I3

LEMMA UpdateTodo ==
  /\ Calls["update"] = U1
  /\ Head(U1) = "getNote" /\ Tail(U1) = U2 /\ U1 # <<>>
  /\ Head(U2) = "insertVersion" /\ Tail(U2) = U3 /\ U2 # <<>>
  /\ Head(U3) = "trimVersions" /\ Tail(U3) = U4 /\ U3 # <<>>
  /\ Head(U4) = "writeRow" /\ Tail(U4) = U5 /\ U4 # <<>>
  /\ Head(U5) = "dropNote" /\ Tail(U5) = U6 /\ U5 # <<>>
  /\ Head(U6) = "dropRaw" /\ Tail(U6) = U7 /\ U6 # <<>>
  /\ Head(U7) = "dropNoteLists" /\ Tail(U7) = <<>> /\ U7 # <<>>
  BY DEF Calls, U1, U2, U3, U4, U5, U6, U7

LEMMA RestoreTodo ==
  /\ Calls["restore"] = R1
  /\ Head(R1) = "getNote" /\ Tail(R1) = R2 /\ R1 # <<>>
  /\ Head(R2) = "pickVersion" /\ Tail(R2) = R3 /\ R2 # <<>>
  /\ Head(R3) = "getNote" /\ Tail(R3) = R4 /\ R3 # <<>>
  /\ Head(R4) = "insertVersion" /\ Tail(R4) = R5 /\ R4 # <<>>
  /\ Head(R5) = "writeRow" /\ Tail(R5) = R6 /\ R5 # <<>>
  /\ Head(R6) = "dropNote" /\ Tail(R6) = R7 /\ R6 # <<>>
  /\ Head(R7) = "dropRaw" /\ Tail(R7) = R8 /\ R7 # <<>>
  /\ Head(R8) = "dropLists" /\ Tail(R8) = <<>> /\ R8 # <<>>
  BY DEF Calls, R1, R2, R3, R4, R5, R6, R7, R8

LEMMA DeleteTodo ==
  /\ Calls["delete"] = E1
  /\ Head(E1) = "erase" /\ Tail(E1) = E2 /\ E1 # <<>>
  /\ Head(E2) = "dropNote" /\ Tail(E2) = E3 /\ E2 # <<>>
  /\ Head(E3) = "dropNoteLists" /\ Tail(E3) = <<>> /\ E3 # <<>>
  BY DEF Calls, E1, E2, E3

LEMMA FlushTodo ==
  /\ Calls["flush"] = A1
  /\ Head(A1) = "addCounters" /\ Tail(A1) = A2 /\ A1 # <<>>
  /\ Head(A2) = "dropAll" /\ Tail(A2) = <<>> /\ A2 # <<>>
  BY DEF Calls, A1, A2

LEMMA InteractTodo ==
  /\ Calls["interact"] = N1
  /\ Head(N1) = "getNote" /\ Tail(N1) = N2 /\ N1 # <<>>
  /\ Head(N2) = "dropAll" /\ Tail(N2) = <<>> /\ N2 # <<>>
  BY DEF Calls, N1, N2

LEMMA DetailTodo ==
  /\ Calls["detail"] = D1
  /\ Head(D1) = "getRaw" /\ Tail(D1) = D2 /\ D1 # <<>>
  /\ Head(D2) = "getNote" /\ Tail(D2) = D3 /\ D2 # <<>>
  /\ Head(D3) = "setRaw" /\ Tail(D3) = <<>> /\ D3 # <<>>
  BY DEF Calls, D1, D2, D3

LEMMA ViewedTodo ==
  /\ Calls["viewed"] = V1
  /\ Head(V1) = "getNote" /\ Tail(V1) = <<>> /\ V1 # <<>>
  BY DEF Calls, V1

LEMMA FeedTodo ==
  /\ Calls["feed"] = F1
  /\ Head(F1) = "getFeed" /\ Tail(F1) = F2 /\ F1 # <<>>
  /\ Head(F2) = "loadFeed" /\ Tail(F2) = F3 /\ F2 # <<>>
  /\ Head(F3) = "setFeed" /\ Tail(F3) = <<>> /\ F3 # <<>>
  BY DEF Calls, F1, F2, F3

LEMMA ListTodo ==
  /\ Calls["list"] = G1
  /\ Head(G1) = "getList" /\ Tail(G1) = G2 /\ G1 # <<>>
  /\ Head(G2) = "loadList" /\ Tail(G2) = G3 /\ G2 # <<>>
  /\ Head(G3) = "setList" /\ Tail(G3) = <<>> /\ G3 # <<>>
  BY DEF Calls, G1, G2, G3

LEMMA WideTodo ==
  /\ Calls["wide"] = W1
  /\ Head(W1) = "getWide" /\ Tail(W1) = W2 /\ W1 # <<>>
  /\ Head(W2) = "loadList" /\ Tail(W2) = W3 /\ W2 # <<>>
  /\ Head(W3) = "setWide" /\ Tail(W3) = <<>> /\ W3 # <<>>
  BY DEF Calls, W1, W2, W3

LEMMA RestsTyped ==
  /\ \A t \in {I1, I2, I3, A1, A2} : t \in Seq(Call)
  /\ \A t \in {U1, U2, U3, U4, U5, U6, U7} : t \in Seq(Call)
  /\ \A t \in {R1, R2, R3, R4, R5, R6, R7, R8} : t \in Seq(Call)
  /\ \A t \in {E1, E2, E3, N1, N2, V1} : t \in Seq(Call)
  /\ \A t \in {D1, D2, D3, F1, F2, F3} : t \in Seq(Call)
  /\ \A t \in {G1, G2, G3, W1, W2, W3} : t \in Seq(Call)
  <1>1. /\ I1 \in Seq(Call) /\ I2 \in Seq(Call) /\ I3 \in Seq(Call) /\ A1 \in Seq(Call)
        /\ A2 \in Seq(Call)
    BY CallHas DEF I1, I2, I3, A1, A2
  <1>2. /\ U1 \in Seq(Call) /\ U2 \in Seq(Call) /\ U3 \in Seq(Call) /\ U4 \in Seq(Call)
        /\ U5 \in Seq(Call) /\ U6 \in Seq(Call) /\ U7 \in Seq(Call)
    BY CallHas DEF U1, U2, U3, U4, U5, U6, U7
  <1>3. /\ R1 \in Seq(Call) /\ R2 \in Seq(Call) /\ R3 \in Seq(Call) /\ R4 \in Seq(Call)
        /\ R5 \in Seq(Call) /\ R6 \in Seq(Call) /\ R7 \in Seq(Call) /\ R8 \in Seq(Call)
    BY CallHas DEF R1, R2, R3, R4, R5, R6, R7, R8
  <1>4. /\ E1 \in Seq(Call) /\ E2 \in Seq(Call) /\ E3 \in Seq(Call) /\ N1 \in Seq(Call)
        /\ N2 \in Seq(Call) /\ V1 \in Seq(Call)
    BY CallHas DEF E1, E2, E3, N1, N2, V1
  <1>5. /\ D1 \in Seq(Call) /\ D2 \in Seq(Call) /\ D3 \in Seq(Call) /\ F1 \in Seq(Call)
        /\ F2 \in Seq(Call) /\ F3 \in Seq(Call)
    BY CallHas DEF D1, D2, D3, F1, F2, F3
  <1>6. /\ G1 \in Seq(Call) /\ G2 \in Seq(Call) /\ G3 \in Seq(Call) /\ W1 \in Seq(Call)
        /\ W2 \in Seq(Call) /\ W3 \in Seq(Call)
    BY CallHas DEF G1, G2, G3, W1, W2, W3
  <1> QED BY <1>1, <1>2, <1>3, <1>4, <1>5, <1>6

\* In front of a sequence.
LEMMA InFront ==
  ASSUME NEW S, NEW s \in Seq(S), NEW a \in S, NEW b \in S
  PROVE  /\ <<a>> \o s \in Seq(S) /\ <<a>> \o s # <<>>
         /\ Head(<<a>> \o s) = a /\ Tail(<<a>> \o s) = s
         /\ <<a, b>> \o s \in Seq(S) /\ <<a, b>> \o s # <<>>
         /\ Head(<<a, b>> \o s) = a /\ Tail(<<a, b>> \o s) = <<b>> \o s
  <1>1. <<a>> \o s \in Seq(S) /\ <<a, b>> \o s \in Seq(S)
    OBVIOUS
  <1>2. <<a>> \o s # <<>> /\ <<a, b>> \o s # <<>>
    OBVIOUS
  <1>3. Head(<<a>> \o s) = a /\ Head(<<a, b>> \o s) = a
    OBVIOUS
  <1>4. Tail(<<a>> \o s) = s
    OBVIOUS
  <1>5. Tail(<<a, b>> \o s) = <<b>> \o s
    OBVIOUS
  <1> QED BY <1>1, <1>2, <1>3, <1>4, <1>5

LEMMA ReadTodo ==
  ASSUME NEW k \in AfterRead
  PROVE  /\ Load(k) \in Seq(Call) /\ Load(k) # <<>>
         /\ Head(Load(k)) = "loadNote" /\ Tail(Load(k)) = Fill(k)
         /\ Fill(k) \in Seq(Call) /\ Fill(k) # <<>>
         /\ Head(Fill(k)) = "setNote" /\ Tail(Fill(k)) = k
  <1>1. k \in Seq(Call)
    <2>1. <<>> \in Seq(Call)
      OBVIOUS
    <2> QED BY <2>1, RestsTyped DEF AfterRead
  <1>2. "loadNote" \in Call /\ "setNote" \in Call
    BY CallHas
  <1> QED BY <1>1, <1>2, InFront DEF Load, Fill
-----------------------------------------------------------------------------
(***************************************************************************)
(* Types, and where requests are.  The texts there are, in the row, in     *)
(* copies and with requests, are those of the n changes so far.            *)
(***************************************************************************)
Known(n) == [status: {"none", "published", "deleted"}, text: 0..n, count: Nat]

\* A row may also be gone.
Rows(n) == Known(n) \cup [status: {"removed"}, text: 0..n, count: Nat]

UpTo(n) ==
  {r \in [op: Op, todo: Seq(Call) \ {<<>>}, got: Known(n) \cup {Missing}, to: 0..n] :
     /\ Left(r.op, r.todo)
     /\ r.op \notin {"list", "wide"} => r.got.status # "none"
     /\ r.op = "feed" => r.got.status # "deleted"}

Typed ==
  /\ row \in Rows(writes)
  /\ row.status = "none" => row = NoRow
  /\ row.status = "removed" => disturbed
  /\ versions \in Seq(0..writes)
  /\ cached \in [Key -> Known(writes) \cup {Missing}]
  /\ \A k \in {"note", "raw", "feed"} : cached[k].status # "none"
  /\ cached["feed"].status # "deleted"
  /\ request \in [Request -> {NoRequest} \cup UpTo(writes)]
  /\ \A q \in Active : request[q].op \notin {"create", "list", "wide"} => row # NoRow
  /\ writes \in 0..MaxWrites /\ faults \in 0..MaxFaults
  /\ disturbed \in BOOLEAN

\* What comes after the next call of a request.
Coming(r) == IF Tail(r.todo) = <<>> THEN "over" ELSE Head(Tail(r.todo))

\* In operation op, call d comes after call c.
Path(op, c, d) ==
  \/ /\ op = "create"
     /\ <<c, d>> \in {<<"insert", "dropNew">>, <<"dropNew", "dropLists">>,
                       <<"dropLists", "over">>}
  \/ /\ op = "update"
     /\ <<c, d>> \in {<<"getNote", "insertVersion">>,
                       <<"insertVersion", "trimVersions">>,
                       <<"trimVersions", "writeRow">>, <<"writeRow", "dropNote">>,
                       <<"dropNote", "dropRaw">>, <<"dropRaw", "dropNoteLists">>,
                       <<"dropNoteLists", "over">>, <<"loadNote", "setNote">>,
                       <<"setNote", "insertVersion">>}
  \/ /\ op = "restore"
     /\ <<c, d>> \in {<<"getNote", "pickVersion">>, <<"pickVersion", "getNote">>,
                       <<"getNote", "insertVersion">>,
                       <<"insertVersion", "writeRow">>, <<"writeRow", "dropNote">>,
                       <<"dropNote", "dropRaw">>, <<"dropRaw", "dropLists">>,
                       <<"dropLists", "over">>, <<"loadNote", "setNote">>,
                       <<"setNote", "pickVersion">>, <<"setNote", "insertVersion">>}
  \/ /\ op = "delete"
     /\ <<c, d>> \in {<<"erase", "dropNote">>, <<"dropNote", "dropNoteLists">>,
                       <<"dropNoteLists", "over">>}
  \/ /\ op = "flush"
     /\ <<c, d>> \in {<<"addCounters", "dropAll">>, <<"dropAll", "over">>}
  \/ /\ op = "interact"
     /\ <<c, d>> \in {<<"getNote", "dropAll">>, <<"dropAll", "over">>,
                       <<"loadNote", "setNote">>, <<"setNote", "dropAll">>}
  \/ /\ op = "detail"
     /\ <<c, d>> \in {<<"getRaw", "getNote">>, <<"getNote", "setRaw">>,
                       <<"setRaw", "over">>, <<"loadNote", "setNote">>,
                       <<"setNote", "setRaw">>}
  \/ /\ op = "viewed"
     /\ <<c, d>> \in {<<"getNote", "over">>, <<"loadNote", "setNote">>,
                       <<"setNote", "over">>}
  \/ /\ op = "feed"
     /\ <<c, d>> \in {<<"getFeed", "loadFeed">>, <<"loadFeed", "setFeed">>,
                       <<"setFeed", "over">>}
  \/ /\ op = "list"
     /\ <<c, d>> \in {<<"getList", "loadList">>, <<"loadList", "setList">>,
                       <<"setList", "over">>}
  \/ /\ op = "wide"
     /\ <<c, d>> \in {<<"getWide", "loadList">>, <<"loadList", "setWide">>,
                       <<"setWide", "over">>}

LEMMA NotARequest == \A n : NoRequest \notin UpTo(n)
  <1>1. "none" \notin Op
    BY OpIs
  <1> QED BY <1>1 DEF NoRequest, UpTo

\* The next two calls of a request say what it is.
LEMMA Where ==
  ASSUME NEW n, NEW r \in UpTo(n)
  PROVE  Path(r.op, Head(r.todo), Coming(r))
  <1>1. Left(r.op, r.todo)
    BY DEF UpTo
  <1>2. ASSUME NEW k \in AfterRead, r.todo = Load(k)
        PROVE  Head(r.todo) = "loadNote" /\ Coming(r) = "setNote"
    BY <1>2, ReadTodo DEF Coming
  <1>3. ASSUME NEW k \in AfterRead, r.todo = Fill(k)
        PROVE  /\ Head(r.todo) = "setNote"
               /\ Coming(r) = IF k = <<>> THEN "over" ELSE Head(k)
    BY <1>3, ReadTodo DEF Coming
  <1>4. CASE r.op = "create"
    <2>1. r.todo \in {I1, I2, I3}
      BY <1>1, <1>4 DEF Left
    <2> QED BY <1>4, <2>1, CreateTodo DEF Coming, Path
  <1>5. CASE r.op = "update"
    <2>1. CASE r.todo \in {U1, U2, U3, U4, U5, U6, U7}
      <3>1. ASSUME r.todo = U1 PROVE Head(r.todo) = "getNote" /\ Coming(r) = "insertVersion"
        BY <3>1, UpdateTodo DEF Coming
      <3>2. ASSUME r.todo = U2 PROVE Head(r.todo) = "insertVersion" /\ Coming(r) = "trimVersions"
        BY <3>2, UpdateTodo DEF Coming
      <3>3. ASSUME r.todo = U3 PROVE Head(r.todo) = "trimVersions" /\ Coming(r) = "writeRow"
        BY <3>3, UpdateTodo DEF Coming
      <3>4. ASSUME r.todo = U4 PROVE Head(r.todo) = "writeRow" /\ Coming(r) = "dropNote"
        BY <3>4, UpdateTodo DEF Coming
      <3>5. ASSUME r.todo = U5 PROVE Head(r.todo) = "dropNote" /\ Coming(r) = "dropRaw"
        BY <3>5, UpdateTodo DEF Coming
      <3>6. ASSUME r.todo = U6 PROVE Head(r.todo) = "dropRaw" /\ Coming(r) = "dropNoteLists"
        BY <3>6, UpdateTodo DEF Coming
      <3>7. ASSUME r.todo = U7 PROVE Head(r.todo) = "dropNoteLists" /\ Coming(r) = "over"
        BY <3>7, UpdateTodo DEF Coming
      <3> QED BY <1>5, <2>1, <3>1, <3>2, <3>3, <3>4, <3>5, <3>6, <3>7 DEF Path
    <2>2. CASE \E k \in {U2} : r.todo \in {Load(k), Fill(k)}
      BY <1>2, <1>3, <1>5, <2>2, UpdateTodo DEF AfterRead, Path
    <2> QED BY <1>1, <1>5, <2>1, <2>2 DEF Left
  <1>6. CASE r.op = "restore"
    <2>1. CASE r.todo \in {R1, R2, R3, R4, R5, R6, R7, R8}
      <3>1. ASSUME r.todo = R1 PROVE Head(r.todo) = "getNote" /\ Coming(r) = "pickVersion"
        BY <3>1, RestoreTodo DEF Coming
      <3>2. ASSUME r.todo = R2 PROVE Head(r.todo) = "pickVersion" /\ Coming(r) = "getNote"
        BY <3>2, RestoreTodo DEF Coming
      <3>3. ASSUME r.todo = R3 PROVE Head(r.todo) = "getNote" /\ Coming(r) = "insertVersion"
        BY <3>3, RestoreTodo DEF Coming
      <3>4. ASSUME r.todo = R4 PROVE Head(r.todo) = "insertVersion" /\ Coming(r) = "writeRow"
        BY <3>4, RestoreTodo DEF Coming
      <3>5. ASSUME r.todo = R5 PROVE Head(r.todo) = "writeRow" /\ Coming(r) = "dropNote"
        BY <3>5, RestoreTodo DEF Coming
      <3>6. ASSUME r.todo = R6 PROVE Head(r.todo) = "dropNote" /\ Coming(r) = "dropRaw"
        BY <3>6, RestoreTodo DEF Coming
      <3>7. ASSUME r.todo = R7 PROVE Head(r.todo) = "dropRaw" /\ Coming(r) = "dropLists"
        BY <3>7, RestoreTodo DEF Coming
      <3>8. ASSUME r.todo = R8 PROVE Head(r.todo) = "dropLists" /\ Coming(r) = "over"
        BY <3>8, RestoreTodo DEF Coming
      <3> QED BY <1>6, <2>1, <3>1, <3>2, <3>3, <3>4, <3>5, <3>6, <3>7, <3>8 DEF Path
    <2>2. CASE \E k \in {R2, R4} : r.todo \in {Load(k), Fill(k)}
      BY <1>2, <1>3, <1>6, <2>2, RestoreTodo DEF AfterRead, Path
    <2> QED BY <1>1, <1>6, <2>1, <2>2 DEF Left
  <1>7. CASE r.op = "delete"
    <2>1. r.todo \in {E1, E2, E3}
      BY <1>1, <1>7 DEF Left
    <2> QED BY <1>7, <2>1, DeleteTodo DEF Coming, Path
  <1>8. CASE r.op = "flush"
    <2>1. r.todo \in {A1, A2}
      BY <1>1, <1>8 DEF Left
    <2> QED BY <1>8, <2>1, FlushTodo DEF Coming, Path
  <1>9. CASE r.op = "interact"
    <2>1. CASE r.todo \in {N1, N2}
      BY <1>9, <2>1, InteractTodo DEF Coming, Path
    <2>2. CASE \E k \in {N2} : r.todo \in {Load(k), Fill(k)}
      BY <1>2, <1>3, <1>9, <2>2, InteractTodo DEF AfterRead, Path
    <2> QED BY <1>1, <1>9, <2>1, <2>2 DEF Left
  <1>10. CASE r.op = "detail"
    <2>1. CASE r.todo \in {D1, D2, D3}
      BY <1>10, <2>1, DetailTodo DEF Coming, Path
    <2>2. CASE \E k \in {D3} : r.todo \in {Load(k), Fill(k)}
      BY <1>2, <1>3, <1>10, <2>2, DetailTodo DEF AfterRead, Path
    <2> QED BY <1>1, <1>10, <2>1, <2>2 DEF Left
  <1>11. CASE r.op = "viewed"
    <2>1. CASE r.todo \in {V1}
      BY <1>11, <2>1, ViewedTodo DEF Coming, Path
    <2>2. CASE \E k \in {<<>>} : r.todo \in {Load(k), Fill(k)}
      BY <1>2, <1>3, <1>11, <2>2, ViewedTodo DEF AfterRead, Path
    <2> QED BY <1>1, <1>11, <2>1, <2>2 DEF Left
  <1>12. CASE r.op = "feed"
    <2>1. r.todo \in {F1, F2, F3}
      BY <1>1, <1>12 DEF Left
    <2> QED BY <1>12, <2>1, FeedTodo DEF Coming, Path
  <1>13. CASE r.op = "list"
    <2>1. r.todo \in {G1, G2, G3}
      BY <1>1, <1>13 DEF Left
    <2> QED BY <1>13, <2>1, ListTodo DEF Coming, Path
  <1>14. CASE r.op = "wide"
    <2>1. r.todo \in {W1, W2, W3}
      BY <1>1, <1>14 DEF Left
    <2> QED BY <1>14, <2>1, WideTodo DEF Coming, Path
  <1> QED BY <1>1, <1>4, <1>5, <1>6, <1>7, <1>8, <1>9, <1>10, <1>11, <1>12, <1>13, <1>14 DEF Left

\* The calls a request has left after the first of them.
LEMMA TailLeft ==
  ASSUME NEW n, NEW r \in UpTo(n), Tail(r.todo) # <<>>
  PROVE  Tail(r.todo) \in Seq(Call) \ {<<>>} /\ Left(r.op, Tail(r.todo))
  <1>1. r.todo \in Seq(Call) \ {<<>>} /\ Left(r.op, r.todo)
    BY DEF UpTo
  <1>2. Tail(r.todo) \in Seq(Call)
    BY <1>1
  <1>3. ASSUME NEW k \in AfterRead, r.todo \in {Load(k), Fill(k)}
        PROVE  Tail(r.todo) \in {Fill(k), k}
    BY <1>3, ReadTodo
  <1>4. CASE r.op = "create"
    <2>1. r.todo \in {I1, I2, I3}
      BY <1>1, <1>4 DEF Left
    <2> QED BY <1>2, <1>4, <2>1, CreateTodo DEF Left
  <1>5. CASE r.op = "update"
    <2>1. CASE r.todo \in {U1, U2, U3, U4, U5, U6, U7}
      BY <1>2, <1>5, <2>1, UpdateTodo DEF Left
    <2>2. CASE \E k \in {U2} : r.todo \in {Load(k), Fill(k)}
      BY <1>2, <1>3, <1>5, <2>2 DEF AfterRead, Left
    <2> QED BY <1>1, <1>5, <2>1, <2>2 DEF Left
  <1>6. CASE r.op = "restore"
    <2>1. CASE r.todo \in {R1, R2, R3, R4, R5, R6, R7, R8}
      BY <1>2, <1>6, <2>1, RestoreTodo DEF Left
    <2>2. CASE \E k \in {R2, R4} : r.todo \in {Load(k), Fill(k)}
      BY <1>2, <1>3, <1>6, <2>2 DEF AfterRead, Left
    <2> QED BY <1>1, <1>6, <2>1, <2>2 DEF Left
  <1>7. CASE r.op = "delete"
    <2>1. r.todo \in {E1, E2, E3}
      BY <1>1, <1>7 DEF Left
    <2> QED BY <1>2, <1>7, <2>1, DeleteTodo DEF Left
  <1>8. CASE r.op = "flush"
    <2>1. r.todo \in {A1, A2}
      BY <1>1, <1>8 DEF Left
    <2> QED BY <1>2, <1>8, <2>1, FlushTodo DEF Left
  <1>9. CASE r.op = "interact"
    <2>1. CASE r.todo \in {N1, N2}
      BY <1>2, <1>9, <2>1, InteractTodo DEF Left
    <2>2. CASE \E k \in {N2} : r.todo \in {Load(k), Fill(k)}
      BY <1>2, <1>3, <1>9, <2>2 DEF AfterRead, Left
    <2> QED BY <1>1, <1>9, <2>1, <2>2 DEF Left
  <1>10. CASE r.op = "detail"
    <2>1. CASE r.todo \in {D1, D2, D3}
      BY <1>2, <1>10, <2>1, DetailTodo DEF Left
    <2>2. CASE \E k \in {D3} : r.todo \in {Load(k), Fill(k)}
      BY <1>2, <1>3, <1>10, <2>2 DEF AfterRead, Left
    <2> QED BY <1>1, <1>10, <2>1, <2>2 DEF Left
  <1>11. CASE r.op = "viewed"
    <2>1. CASE r.todo \in {V1}
      BY <1>2, <1>11, <2>1, ViewedTodo DEF Left
    <2>2. CASE \E k \in {<<>>} : r.todo \in {Load(k), Fill(k)}
      BY <1>2, <1>3, <1>11, <2>2 DEF AfterRead, Left
    <2> QED BY <1>1, <1>11, <2>1, <2>2 DEF Left
  <1>12. CASE r.op = "feed"
    <2>1. r.todo \in {F1, F2, F3}
      BY <1>1, <1>12 DEF Left
    <2> QED BY <1>2, <1>12, <2>1, FeedTodo DEF Left
  <1>13. CASE r.op = "list"
    <2>1. r.todo \in {G1, G2, G3}
      BY <1>1, <1>13 DEF Left
    <2> QED BY <1>2, <1>13, <2>1, ListTodo DEF Left
  <1>14. CASE r.op = "wide"
    <2>1. r.todo \in {W1, W2, W3}
      BY <1>1, <1>14 DEF Left
    <2> QED BY <1>2, <1>14, <2>1, WideTodo DEF Left
  <1> QED BY <1>1, <1>4, <1>5, <1>6, <1>7, <1>8, <1>9, <1>10, <1>11, <1>12, <1>13, <1>14 DEF Left

\* GetByID puts the calls that read the row before those that come after it.
LEMMA ReadLeft ==
  ASSUME NEW n, NEW r \in UpTo(n)
  PROVE  /\ Head(r.todo) = "getNote" =>
              Tail(r.todo) \in AfterRead /\ Left(r.op, Load(Tail(r.todo)))
         /\ Head(r.todo) = "loadNote" =>
              \E k \in AfterRead : /\ r.todo = Load(k)
                                   /\ k = <<>> \/ Left(r.op, k)
  <1>1. Left(r.op, r.todo)
    BY DEF UpTo
  <1>2. ASSUME NEW k \in AfterRead, r.todo = Fill(k)
        PROVE  Head(r.todo) = "setNote"
    BY <1>2, ReadTodo
  <1>3. CASE r.op = "create"
    <2>1. r.todo \in {I1, I2, I3}
      BY <1>1, <1>3 DEF Left
    <2> QED BY <2>1, CreateTodo
  <1>4. CASE r.op = "update"
    <2>1. CASE r.todo \in {U1, U2, U3, U4, U5, U6, U7}
      BY <1>4, <2>1, UpdateTodo DEF AfterRead, Left
    <2>2. CASE \E k \in {U2} : r.todo \in {Load(k), Fill(k)}
      <3> PICK k \in {U2} : r.todo \in {Load(k), Fill(k)}
        BY <2>2
      <3>1. k \in AfterRead /\ (k = <<>> \/ Left(r.op, k))
        BY <1>4 DEF AfterRead, Left
      <3>2. Head(Load(k)) = "loadNote"
        BY <3>1, ReadTodo
      <3> QED BY <1>2, <3>1, <3>2
    <2> QED BY <1>1, <1>4, <2>1, <2>2 DEF Left
  <1>5. CASE r.op = "restore"
    <2>1. CASE r.todo \in {R1, R2, R3, R4, R5, R6, R7, R8}
      BY <1>5, <2>1, RestoreTodo DEF AfterRead, Left
    <2>2. CASE \E k \in {R2, R4} : r.todo \in {Load(k), Fill(k)}
      <3> PICK k \in {R2, R4} : r.todo \in {Load(k), Fill(k)}
        BY <2>2
      <3>1. k \in AfterRead /\ (k = <<>> \/ Left(r.op, k))
        BY <1>5 DEF AfterRead, Left
      <3>2. Head(Load(k)) = "loadNote"
        BY <3>1, ReadTodo
      <3> QED BY <1>2, <3>1, <3>2
    <2> QED BY <1>1, <1>5, <2>1, <2>2 DEF Left
  <1>6. CASE r.op = "delete"
    <2>1. r.todo \in {E1, E2, E3}
      BY <1>1, <1>6 DEF Left
    <2> QED BY <2>1, DeleteTodo
  <1>7. CASE r.op = "flush"
    <2>1. r.todo \in {A1, A2}
      BY <1>1, <1>7 DEF Left
    <2> QED BY <2>1, FlushTodo
  <1>8. CASE r.op = "interact"
    <2>1. CASE r.todo \in {N1, N2}
      BY <1>8, <2>1, InteractTodo DEF AfterRead, Left
    <2>2. CASE \E k \in {N2} : r.todo \in {Load(k), Fill(k)}
      <3> PICK k \in {N2} : r.todo \in {Load(k), Fill(k)}
        BY <2>2
      <3>1. k \in AfterRead /\ (k = <<>> \/ Left(r.op, k))
        BY <1>8 DEF AfterRead, Left
      <3>2. Head(Load(k)) = "loadNote"
        BY <3>1, ReadTodo
      <3> QED BY <1>2, <3>1, <3>2
    <2> QED BY <1>1, <1>8, <2>1, <2>2 DEF Left
  <1>9. CASE r.op = "detail"
    <2>1. CASE r.todo \in {D1, D2, D3}
      BY <1>9, <2>1, DetailTodo DEF AfterRead, Left
    <2>2. CASE \E k \in {D3} : r.todo \in {Load(k), Fill(k)}
      <3> PICK k \in {D3} : r.todo \in {Load(k), Fill(k)}
        BY <2>2
      <3>1. k \in AfterRead /\ (k = <<>> \/ Left(r.op, k))
        BY <1>9 DEF AfterRead, Left
      <3>2. Head(Load(k)) = "loadNote"
        BY <3>1, ReadTodo
      <3> QED BY <1>2, <3>1, <3>2
    <2> QED BY <1>1, <1>9, <2>1, <2>2 DEF Left
  <1>10. CASE r.op = "viewed"
    <2>1. CASE r.todo \in {V1}
      BY <1>10, <2>1, ViewedTodo DEF AfterRead, Left
    <2>2. CASE \E k \in {<<>>} : r.todo \in {Load(k), Fill(k)}
      <3> PICK k \in {<<>>} : r.todo \in {Load(k), Fill(k)}
        BY <2>2
      <3>1. k \in AfterRead /\ (k = <<>> \/ Left(r.op, k))
        BY <1>10 DEF AfterRead, Left
      <3>2. Head(Load(k)) = "loadNote"
        BY <3>1, ReadTodo
      <3> QED BY <1>2, <3>1, <3>2
    <2> QED BY <1>1, <1>10, <2>1, <2>2 DEF Left
  <1>11. CASE r.op = "feed"
    <2>1. r.todo \in {F1, F2, F3}
      BY <1>1, <1>11 DEF Left
    <2> QED BY <2>1, FeedTodo
  <1>12. CASE r.op = "list"
    <2>1. r.todo \in {G1, G2, G3}
      BY <1>1, <1>12 DEF Left
    <2> QED BY <2>1, ListTodo
  <1>13. CASE r.op = "wide"
    <2>1. r.todo \in {W1, W2, W3}
      BY <1>1, <1>13 DEF Left
    <2> QED BY <2>1, WideTodo
  <1> QED BY <1>1, <1>3, <1>4, <1>5, <1>6, <1>7, <1>8, <1>9, <1>10, <1>11, <1>12, <1>13 DEF Left
-----------------------------------------------------------------------------
\* What a step of q that is no arrival makes of its request r: it is over, or
\* it goes on with other calls.
Becomes(q, r, w) ==
  /\ request' = [request EXCEPT ![q] = w]
  /\ w \in {NoRequest} \cup UpTo(writes)
  /\ w # NoRequest => w.op = r.op

MayGoOn(r, t) == t # <<>> => t \in Seq(Call) /\ Left(r.op, t)

WentOn(q, r, t) ==
  \E w : /\ Becomes(q, r, w)
         /\ t = <<>> <=> w = NoRequest
         /\ t # <<>> => w.todo = t /\ w.got = r.got /\ w.to = r.to

\* It has read x.
Learnt(q, r, x) ==
  \E w : /\ Becomes(q, r, w)
         /\ Tail(r.todo) = <<>> <=> w = NoRequest
         /\ w # NoRequest => w.todo = Tail(r.todo) /\ w.got = x /\ w.to = r.to

LEMMA ActiveUpTo ==
  ASSUME Typed, NEW q \in Active
  PROVE  q \in Request /\ request[q] \in UpTo(writes)
  BY DEF Typed, Active

LEMMA GoesOn ==
  ASSUME Typed, NEW q \in Active, NEW r \in UpTo(writes), r = request[q], NEW t, GoOn(q, t),
         MayGoOn(r, t)
  PROVE  WentOn(q, r, t)
  <1>1. CASE t = <<>>
    BY <1>1 DEF Typed, GoOn, Becomes, WentOn
  <1>2. CASE t # <<>>
    <2> PICK w : w = [r EXCEPT !.todo = t]
      OBVIOUS
    <2>1. t \in Seq(Call) \ {<<>>} /\ Left(r.op, t)
      BY <1>2 DEF MayGoOn
    <2>2. /\ w \in [op: Op, todo: Seq(Call) \ {<<>>}, got: Known(writes) \cup {Missing},
                    to: 0..writes]
          /\ w.op = r.op /\ w.todo = t /\ w.got = r.got /\ w.to = r.to
      BY <2>1 DEF UpTo
    <2>3. w \in UpTo(writes)
      BY <2>1, <2>2 DEF UpTo
    <2>4. request' = [request EXCEPT ![q] = w]
      BY <1>2 DEF GoOn, Active, Typed
    <2>5. w # NoRequest
      BY <2>3, NotARequest
    <2> QED BY <1>2, <2>2, <2>3, <2>4, <2>5 DEF Becomes, WentOn
  <1> QED BY <1>1, <1>2

LEMMA Proceeds ==
  ASSUME Typed, NEW q \in Active, NEW r \in UpTo(writes), r = request[q], Proceed(q)
  PROVE  Learnt(q, r, r.got)
  <1> PICK t : t = Tail(r.todo)
    OBVIOUS
  <1>1. GoOn(q, t)
    BY DEF Proceed, Remaining
  <1>2. MayGoOn(r, t)
    BY TailLeft DEF MayGoOn
  <1>3. WentOn(q, r, t)
    BY <1>1, <1>2, GoesOn
  <1> QED BY <1>3 DEF WentOn, Learnt

LEMMA Stops ==
  ASSUME Typed, NEW q \in Active, NEW r \in UpTo(writes), r = request[q], Stop(q)
  PROVE  Becomes(q, r, NoRequest)
  BY DEF Stop, GoOn, Becomes, Typed

LEMMA Learns ==
  ASSUME Typed, NEW q \in Active, NEW r \in UpTo(writes), r = request[q],
         NEW x \in Known(writes) \cup {Missing}, Learn(q, x),
         r.op \notin {"list", "wide"} => x.status # "none",
         r.op = "feed" => x.status # "deleted"
  PROVE  Learnt(q, r, x)
  <1>1. CASE Tail(r.todo) = <<>>
    BY <1>1 DEF Typed, Learn, Remaining, Becomes, Learnt
  <1>2. CASE Tail(r.todo) # <<>>
    <2> PICK w : w = [r EXCEPT !.todo = Tail(r.todo), !.got = x]
      OBVIOUS
    <2>1. Tail(r.todo) \in Seq(Call) \ {<<>>} /\ Left(r.op, Tail(r.todo))
      BY <1>2, TailLeft
    <2>2. /\ w \in [op: Op, todo: Seq(Call) \ {<<>>}, got: Known(writes) \cup {Missing},
                    to: 0..writes]
          /\ w.op = r.op /\ w.todo = Tail(r.todo) /\ w.got = x /\ w.to = r.to
      BY <2>1 DEF UpTo
    <2>3. w \in UpTo(writes)
      BY <2>1, <2>2 DEF UpTo
    <2>4. request' = [request EXCEPT ![q] = w]
      BY <1>2 DEF Learn, Remaining, Active, Typed
    <2>5. w # NoRequest
      BY <2>3, NotARequest
    <2> QED BY <1>2, <2>2, <2>3, <2>4, <2>5 DEF Becomes, Learnt
  <1> QED BY <1>1, <1>2

\* GetByID, when NoteKey is missing or cannot be read.
LEMMA Reads ==
  ASSUME Typed, NEW q \in Active, NEW r \in UpTo(writes), r = request[q],
         Head(r.todo) = "getNote", GoOn(q, <<"loadNote", "setNote">> \o Remaining(q))
  PROVE  \E w : /\ Becomes(q, r, w) /\ w # NoRequest
                /\ Head(w.todo) = "loadNote" /\ w.got = r.got
  <1> PICK t : t = Load(Tail(r.todo))
    OBVIOUS
  <1>1. GoOn(q, t)
    BY DEF Remaining, Load
  <1>2. Tail(r.todo) \in AfterRead /\ Left(r.op, t)
    BY ReadLeft
  <1>3. t \in Seq(Call) /\ t # <<>> /\ Head(t) = "loadNote"
    BY <1>2, ReadTodo
  <1>4. WentOn(q, r, t)
    BY <1>1, <1>2, <1>3, GoesOn DEF MayGoOn
  <1> QED BY <1>3, <1>4 DEF WentOn

\* GetByID, when the row cannot be read and the request goes on all the same.
LEMMA Skips ==
  ASSUME Typed, NEW q \in Active, NEW r \in UpTo(writes), r = request[q],
         Head(r.todo) = "loadNote", GoOn(q, Tail(Remaining(q)))
  PROVE  \E w : Becomes(q, r, w)
  <1> PICK k \in AfterRead : r.todo = Load(k) /\ (k = <<>> \/ Left(r.op, k))
    BY ReadLeft
  <1>1. Tail(Tail(r.todo)) = k
    BY ReadTodo
  <1>2. k \in Seq(Call)
    <2>1. <<>> \in Seq(Call)
      OBVIOUS
    <2> QED BY <2>1, RestsTyped DEF AfterRead
  <1>3. WentOn(q, r, k)
    BY <1>1, <1>2, GoesOn DEF MayGoOn, Remaining
  <1> QED BY <1>3 DEF WentOn

\* RestoreVersion has found the version v.
LEMMA Picks ==
  ASSUME Typed, NEW q \in Active, NEW r \in UpTo(writes), r = request[q],
         Head(r.todo) = "pickVersion", NEW v \in ToSet(versions),
         request' = [request EXCEPT ![q].todo = Remaining(q), ![q].got = Missing, ![q].to = v]
  PROVE  \E w : /\ Becomes(q, r, w) /\ w # NoRequest
                /\ Head(w.todo) = "getNote"
  <1>1. Coming(r) = "getNote"
    BY Where DEF Path
  <1>2. Tail(r.todo) # <<>> /\ Head(Tail(r.todo)) = "getNote"
    BY <1>1 DEF Coming
  <1>3. Tail(r.todo) \in Seq(Call) \ {<<>>} /\ Left(r.op, Tail(r.todo))
    BY <1>2, TailLeft
  <1>4. v \in 0..writes
    BY DEF Typed, ToSet
  <1>5. Missing.status = "missing"
    BY DEF Missing
  <1> PICK w : w = [r EXCEPT !.todo = Tail(r.todo), !.got = Missing, !.to = v]
    OBVIOUS
  <1>6. /\ w \in [op: Op, todo: Seq(Call) \ {<<>>}, got: Known(writes) \cup {Missing},
                  to: 0..writes]
        /\ w.op = r.op /\ w.todo = Tail(r.todo) /\ w.got = Missing
    BY <1>3, <1>4 DEF UpTo
  <1>7. w \in UpTo(writes)
    BY <1>3, <1>5, <1>6 DEF UpTo
  <1>8. request' = [request EXCEPT ![q] = w]
    BY DEF Remaining, Active, Typed
  <1>9. w # NoRequest
    BY <1>7, NotARequest
  <1> QED BY <1>2, <1>6, <1>7, <1>8, <1>9 DEF Becomes

\* What the row looks like to who reads it.
LEMMA RowKnown ==
  ASSUME Typed
  PROVE  /\ row.status # "removed" \/ ~disturbed =>
              row \in Known(writes) /\ [row EXCEPT !.count = 0] \in Known(writes)
         /\ [row EXCEPT !.count = 0].status = row.status
         /\ [row EXCEPT !.count = 0].text = row.text
         /\ NoRow \in Known(writes) /\ NoRow.status = "none"
         /\ row # Missing /\ row.status # "missing"
  <1>1. row \in Rows(writes) /\ 0 \in 0..writes
    BY NoteCacheAssumption DEF Typed
  <1>2. Missing.status = "missing"
    BY DEF Missing
  <1>3. row.status # "removed" => row \in Known(writes)
    BY <1>1 DEF Rows
  <1>4. row.status # "removed" \/ ~disturbed => row \in Known(writes)
    BY <1>3 DEF Typed
  <1> QED BY <1>1, <1>2, <1>4 DEF Known, Rows, NoRow

\* Whoever reads a single note reads one there is.
LEMMA RowThere ==
  ASSUME Typed, NEW q \in Active, request[q].op \notin {"create", "list", "wide"}
  PROVE  row.status # "none"
  BY DEF Typed

\* Every step of a request leaves it somewhere in what it does.
LEMMA Outcome ==
  ASSUME Typed, NEW q \in Request, Step(q) \/ Fail(q)
  PROVE  q \in Active /\ \E w : Becomes(q, request[q], w)
  <1>1. q \in Active
    BY DEF Step, Fail, GetNote, LoadNote, Get, LoadFeed, LoadList, Set, Insert, InsertVersion,
           TrimVersions, PickVersion, WriteRow, Erase, AddCounters, Drop, At
  <1> PICK r \in UpTo(writes) : r = request[q]
    BY <1>1, ActiveUpTo
  <1>2. CASE Proceed(q)
    BY <1>1, <1>2, Proceeds DEF Learnt
  <1>3. CASE Stop(q)
    BY <1>1, <1>3, Stops
  <1>4. CASE Head(r.todo) = "getNote" /\ GoOn(q, <<"loadNote", "setNote">> \o Remaining(q))
    BY <1>1, <1>4, Reads
  <1>5. Path(r.op, Head(r.todo), Coming(r))
    BY Where
  <1>6. CASE GetNote(q)
    <2>1. CASE cached["note"] = Missing
      BY <1>4, <1>6, <2>1 DEF GetNote, At
    <2>2. CASE cached["note"] # Missing
      <3>1. Head(r.todo) = "getNote" /\ Learn(q, cached["note"])
        BY <1>6, <2>2 DEF GetNote, At
      <3>2. cached["note"] \in Known(writes) \cup {Missing} /\ cached["note"].status # "none"
        BY DEF Typed, Key
      <3>3. r.op # "feed"
        BY <1>5, <3>1 DEF Path
      <3> QED BY <1>1, <3>1, <3>2, <3>3, Learns DEF Learnt
    <2> QED BY <2>1, <2>2
  <1>7. CASE LoadNote(q)
    <2>1. Head(r.todo) = "loadNote"
      BY <1>7 DEF LoadNote, At
    <2>2. r.op \notin {"create", "list", "wide", "feed"}
      BY <1>5, <2>1 DEF Path
    <2>3. CASE row.status # "removed"
      <3>1. Learn(q, row)
        BY <1>7, <2>3 DEF LoadNote
      <3> QED BY <1>1, <2>1, <2>2, <2>3, <3>1, RowKnown, RowThere, Learns DEF Learnt
    <2>4. CASE Stop(q)
      BY <1>3, <2>4
    <2>5. CASE GoOn(q, Tail(Remaining(q)))
      BY <1>1, <2>1, <2>5, Skips
    <2> QED BY <1>7, <2>3, <2>4, <2>5 DEF LoadNote
  <1>8. CASE Get(q)
    BY <1>2, <1>3, <1>8 DEF Get
  <1>9. CASE LoadFeed(q)
    <2>1. CASE row.status = "published"
      <3>1. Learn(q, [row EXCEPT !.count = 0])
        BY <1>9, <2>1 DEF LoadFeed
      <3> QED BY <1>1, <2>1, <3>1, RowKnown, Learns DEF Learnt
    <2> QED BY <1>3, <1>9, <2>1 DEF LoadFeed
  <1>10. CASE LoadList(q)
    <2> PICK x : x = IF row.status = "published" THEN row ELSE NoRow
      OBVIOUS
    <2>1. Head(r.todo) = "loadList" /\ Learn(q, x)
      BY <1>10 DEF LoadList, At
    <2>2. r.op \in {"list", "wide"}
      BY <1>5, <2>1 DEF Path
    <2> QED BY <1>1, <2>1, <2>2, RowKnown, Learns DEF Learnt
  <1>11. CASE PickVersion(q)
    BY <1>1, <1>3, <1>11, Picks DEF PickVersion, At
  <1>12. CASE Fail(q)
    <2>1. CASE At(q, "loadNote") /\ GoOn(q, Tail(Remaining(q)))
      BY <1>1, <2>1, Skips DEF At
    <2> QED BY <1>2, <1>3, <1>4, <1>12, <2>1 DEF Fail, At
  <1>13. CASE Step(q)
    BY <1>2, <1>3, <1>6, <1>7, <1>8, <1>9, <1>10, <1>11, <1>13
       DEF Step, Set, Insert, InsertVersion, TrimVersions, WriteRow, Erase, AddCounters, Drop
  <1> QED BY <1>1, <1>12, <1>13
-----------------------------------------------------------------------------
LEMMA Grows ==
  ASSUME NEW m \in Nat, NEW n \in Nat, m <= n
  PROVE  Known(m) \subseteq Known(n) /\ UpTo(m) \subseteq UpTo(n) /\ Rows(m) \subseteq Rows(n)
  <1>1. 0..m \subseteq 0..n
    OBVIOUS
  <1>2. Known(m) \subseteq Known(n)
    BY <1>1 DEF Known
  <1>3. Rows(m) \subseteq Rows(n)
    BY <1>1, <1>2 DEF Rows
  <1> QED BY <1>1, <1>2, <1>3 DEF UpTo

LEMMA CallsLeft ==
  ASSUME NEW op \in Op
  PROVE  Calls[op] \in Seq(Call) \ {<<>>} /\ Left(op, Calls[op])
  <1>1. CASE op = "create"
    BY <1>1, RestsTyped, CreateTodo DEF Left
  <1>2. CASE op = "update"
    BY <1>2, RestsTyped, UpdateTodo DEF Left
  <1>3. CASE op = "restore"
    BY <1>3, RestsTyped, RestoreTodo DEF Left
  <1>4. CASE op = "delete"
    BY <1>4, RestsTyped, DeleteTodo DEF Left
  <1>5. CASE op = "flush"
    BY <1>5, RestsTyped, FlushTodo DEF Left
  <1>6. CASE op = "interact"
    BY <1>6, RestsTyped, InteractTodo DEF Left
  <1>7. CASE op = "detail"
    BY <1>7, RestsTyped, DetailTodo DEF Left
  <1>8. CASE op = "viewed"
    BY <1>8, RestsTyped, ViewedTodo DEF Left
  <1>9. CASE op = "feed"
    BY <1>9, RestsTyped, FeedTodo DEF Left
  <1>10. CASE op = "list"
    BY <1>10, RestsTyped, ListTodo DEF Left
  <1>11. CASE op = "wide"
    BY <1>11, RestsTyped, WideTodo DEF Left
  <1> QED BY OpIs, <1>1, <1>2, <1>3, <1>4, <1>5, <1>6, <1>7, <1>8, <1>9, <1>10, <1>11

\* What a request is when it comes.
LEMMA Arrives ==
  ASSUME Typed, NEW q \in Request, NEW op \in Op, Start(q, op)
  PROVE  /\ writes' \in 0..MaxWrites /\ writes <= writes'
         /\ \E w : /\ request' = [request EXCEPT ![q] = w]
                   /\ w \in UpTo(writes') /\ w # NoRequest
                   /\ w.op = op /\ w.todo = Calls[op] /\ w.got = Missing
  <1>1. writes \in 0..MaxWrites
    BY DEF Typed
  <1>2. writes' \in 0..MaxWrites /\ writes <= writes'
    BY <1>1, NoteCacheAssumption DEF Start
  <1> PICK w : w = [op |-> op, todo |-> Calls[op], got |-> Missing,
                    to |-> IF op = "update" THEN writes' ELSE 0]
    OBVIOUS
  <1>3. request' = [request EXCEPT ![q] = w]
    BY DEF Start
  <1>4. /\ w \in [op: Op, todo: Seq(Call) \ {<<>>}, got: Known(writes') \cup {Missing},
                  to: 0..writes']
        /\ w.op = op /\ w.todo = Calls[op] /\ w.got = Missing
    BY <1>1, <1>2, CallsLeft
  <1>5. Missing.status = "missing"
    BY DEF Missing
  <1>6. w \in UpTo(writes')
    BY <1>4, <1>5, CallsLeft DEF UpTo
  <1> QED BY <1>2, <1>3, <1>4, <1>6, NotARequest

LEMMA TypedInit == Init => Typed
  <1> SUFFICES ASSUME Init PROVE Typed
    OBVIOUS
  <1>1. NoRow \in Rows(0) /\ NoRow.status = "none"
    BY DEF NoRow, Known, Rows
  <1>2. Missing.status = "missing"
    BY DEF Missing
  <1>3. /\ request = [q \in Request |-> NoRequest] /\ cached = [k \in Key |-> Missing]
        /\ row = NoRow /\ versions = <<>> /\ writes = 0 /\ faults = 0 /\ disturbed = FALSE
    BY DEF Init
  <1>4. Active = {}
    BY <1>3 DEF Active
  <1>5. versions \in Seq(0..writes)
    BY <1>3
  <1>6. /\ cached \in [Key -> Known(writes) \cup {Missing}]
        /\ \A k \in Key : cached[k] = Missing
    BY <1>3
  <1>7. request \in [Request -> {NoRequest} \cup UpTo(writes)]
    BY <1>3
  <1>8. writes \in 0..MaxWrites /\ faults \in 0..MaxFaults
    BY <1>3, NoteCacheAssumption
  <1> QED BY <1>1, <1>2, <1>3, <1>4, <1>5, <1>6, <1>7, <1>8 DEF Typed, Key

LEMMA TypedStep == Typed /\ [Next]_vars => Typed'
  <1> SUFFICES ASSUME Typed, [Next]_vars PROVE Typed'
    OBVIOUS
  <1>1. /\ row \in Rows(writes) /\ (row.status = "none" => row = NoRow)
        /\ row.status = "removed" => disturbed
        /\ versions \in Seq(0..writes)
        /\ cached \in [Key -> Known(writes) \cup {Missing}]
        /\ \A k \in {"note", "raw", "feed"} : cached[k].status # "none"
        /\ cached["feed"].status # "deleted"
        /\ request \in [Request -> {NoRequest} \cup UpTo(writes)]
        /\ \A q \in Active : request[q].op \notin {"create", "list", "wide"} => row # NoRow
        /\ writes \in 0..MaxWrites /\ faults \in 0..MaxFaults /\ disturbed \in BOOLEAN
    BY DEF Typed
  <1>2. Missing.status = "missing"
    BY DEF Missing
  \* A step that leaves the requests as they are.
  <1>3. ASSUME UNCHANGED <<db, request, bounds>>,
               cached' \in [Key -> Known(writes) \cup {Missing}],
               \A k \in Key : cached'[k] \in {cached[k], Missing}
        PROVE  Typed'
    <2>1. \A k \in {"note", "raw", "feed"} : cached'[k].status # "none"
      BY <1>1, <1>2, <1>3 DEF Key
    <2>2. cached'["feed"].status # "deleted"
      BY <1>1, <1>2, <1>3 DEF Key
    <2> QED BY <1>1, <1>3, <2>1, <2>2 DEF Typed, Active, db, bounds
  <1>4. ASSUME NEW q \in Request, NEW op \in Op, Start(q, op) PROVE Typed'
    <2>1. writes' \in 0..MaxWrites /\ writes <= writes'
      BY <1>4, Arrives
    <2> PICK w : /\ request' = [request EXCEPT ![q] = w] /\ w \in UpTo(writes') /\ w.op = op
      BY <1>4, Arrives
    <2>2. /\ Known(writes) \subseteq Known(writes') /\ UpTo(writes) \subseteq UpTo(writes')
          /\ Rows(writes) \subseteq Rows(writes')
      BY <1>1, <2>1, NoteCacheAssumption, Grows
    <2>3. UNCHANGED <<row, versions, cached, faults>>
      BY <1>4 DEF Start, db
    <2>4. versions' \in Seq(0..writes')
      <3>1. 0..writes \subseteq 0..writes'
        BY <1>1, <2>1, NoteCacheAssumption
      <3> QED BY <1>1, <2>3, <3>1, SeqMonotonic
    <2>5. request' \in [Request -> {NoRequest} \cup UpTo(writes')]
      BY <1>1, <2>2
    <2>6. cached' \in [Key -> Known(writes') \cup {Missing}]
      BY <1>1, <2>2, <2>3
    <2>7. row # NoRow \/ op \in {"create", "list", "wide"}
      BY <1>4 DEF Start
    <2>8. \A p \in Active' : request'[p].op \notin {"create", "list", "wide"} => row' # NoRow
      BY <1>1, <2>3, <2>7 DEF Active
    <2>9. disturbed' \in BOOLEAN /\ (disturbed => disturbed')
      BY <1>4 DEF Start
    <2>10. /\ row' \in Rows(writes') /\ (row'.status = "none" => row' = NoRow)
           /\ row'.status = "removed" => disturbed'
      BY <1>1, <2>2, <2>3, <2>9
    <2> QED BY <1>1, <2>1, <2>3, <2>4, <2>5, <2>6, <2>8, <2>9, <2>10 DEF Typed
  <1>5. ASSUME NEW q \in Request, Step(q) \/ Fail(q) PROVE Typed'
    <2>1. q \in Active /\ \E w : Becomes(q, request[q], w)
      BY <1>5, Outcome
    <2> PICK r \in UpTo(writes) : r = request[q]
      BY <2>1, ActiveUpTo
    <2> PICK w : Becomes(q, r, w)
      BY <2>1
    <2>2. request' \in [Request -> {NoRequest} \cup UpTo(writes)]
      BY <1>1 DEF Becomes
    <2>3. Path(r.op, Head(r.todo), Coming(r))
      BY Where
    <2>4. /\ r.got \in Known(writes) \cup {Missing} /\ r.to \in 0..writes
          /\ r.op \notin {"list", "wide"} => r.got.status # "none"
          /\ r.op = "feed" => r.got.status # "deleted"
      BY DEF UpTo
    <2>5. ASSUME row' \in Rows(writes), row'.status = "none" => row' = NoRow,
                 row'.status = "removed" => disturbed',
                 row # NoRow => row' # NoRow,
                 versions' \in Seq(0..writes),
                 cached' \in [Key -> Known(writes) \cup {Missing}],
                 \A k \in {"note", "raw", "feed"} : cached'[k].status # "none",
                 cached'["feed"].status # "deleted",
                 writes' = writes, faults' \in 0..MaxFaults, disturbed' \in BOOLEAN
          PROVE  Typed'
      <3>1. \A p \in Active' : p \in Active /\ request'[p].op = request[p].op
        BY <1>1, <2>1 DEF Becomes, Active
      <3>2. \A p \in Active' : request'[p].op \notin {"create", "list", "wide"} => row' # NoRow
        BY <1>1, <2>5, <3>1
      <3>3. request' \in [Request -> {NoRequest} \cup UpTo(writes')]
        BY <2>2, <2>5
      <3> QED BY <1>1, <2>5, <3>2, <3>3 DEF Typed
    <2>6. CASE Step(q)
      <3>1. CASE UNCHANGED <<db, cached, bounds>>
        BY <1>1, <2>5, <3>1 DEF db, bounds
      <3>2. CASE Set(q)
        <4> PICK call \in {"setNote", "setRaw", "setFeed", "setList", "setWide"} :
                   /\ Head(r.todo) = call
                   /\ cached' = [cached EXCEPT ![KeyOf(call)] = r.got]
          BY <3>2 DEF Set, At
        <4>1. /\ KeyOf(call) \in Key
              /\ call \in {"setNote", "setRaw", "setFeed"} => r.op \notin {"list", "wide"}
              /\ KeyOf(call) = "feed" => r.op = "feed"
              /\ KeyOf(call) \in {"note", "raw", "feed"}
                   => call \in {"setNote", "setRaw", "setFeed"}
          BY <2>3 DEF KeyOf, Key, Path
        <4>2. cached' \in [Key -> Known(writes) \cup {Missing}]
          BY <1>1, <2>4, <4>1
        <4>3. \A k \in {"note", "raw", "feed"} : cached'[k].status # "none"
          BY <1>1, <2>4, <4>1 DEF Key
        <4>4. cached'["feed"].status # "deleted"
          BY <1>1, <2>4, <4>1 DEF Key
        <4> QED BY <1>1, <2>5, <3>2, <4>2, <4>3, <4>4 DEF Set, db, bounds
      <3>3. CASE Drop(q)
        <4> PICK call \in DOMAIN Drops :
                   cached' = [k \in Key |-> IF k \in Drops[call] THEN Missing ELSE cached[k]]
          BY <3>3 DEF Drop
        <4>1. cached' \in [Key -> Known(writes) \cup {Missing}]
          BY <1>1
        <4>2. \A k \in Key : cached'[k] \in {cached[k], Missing}
          OBVIOUS
        <4>3. \A k \in {"note", "raw", "feed"} : cached'[k].status # "none"
          BY <1>1, <1>2, <4>2 DEF Key
        <4>4. cached'["feed"].status # "deleted"
          BY <1>1, <1>2, <4>2 DEF Key
        <4> QED BY <1>1, <2>5, <3>3, <4>1, <4>3, <4>4 DEF Drop, db, bounds
      <3>4. CASE Insert(q)
        <4>1. row' = [NoRow EXCEPT !.status = "published"]
          BY <3>4 DEF Insert
        <4>2. row' \in Rows(writes) /\ row'.status = "published" /\ row' # NoRow
          BY <1>1, <4>1, NoteCacheAssumption DEF NoRow, Known, Rows
        <4> QED BY <1>1, <2>5, <3>4, <4>2 DEF Insert, bounds
      <3>5. CASE InsertVersion(q)
        <4>1. r.got # Missing => r.got.text \in 0..writes
          BY <2>4 DEF Known
        <4>2. \/ versions' = versions
              \/ r.got # Missing /\ versions' = Append(versions, r.got.text)
          BY <3>5 DEF InsertVersion
        <4>3. versions' \in Seq(0..writes)
          <5>1. r.got # Missing => Append(versions, r.got.text) \in Seq(0..writes)
            BY <1>1, <4>1, AppendProperties
          <5> QED BY <1>1, <4>2, <5>1
        <4> QED BY <1>1, <2>5, <3>5, <4>3 DEF InsertVersion, bounds
      <3>6. CASE TrimVersions(q)
        <4>1. versions' \in Seq(0..writes)
          <5>1. Len(versions) \in Nat /\ \A i \in 1..Len(versions) : versions[i] \in 0..writes
            BY <1>1
          <5> PICK m : m = Len(versions) - Keep + 1
            OBVIOUS
          <5>2. m \in Int /\ (Len(versions) > Keep => m >= 1)
            BY <5>1, NoteCacheAssumption
          <5>3. CASE Len(versions) > Keep
            <6>1. SubSeq(versions, m, Len(versions)) \in Seq(0..writes)
              BY <5>1, <5>2, <5>3, SubSeqProperties
            <6> QED BY <1>1, <3>6, <6>1 DEF TrimVersions
          <5>4. CASE ~(Len(versions) > Keep)
            BY <1>1, <3>6, <5>1, <5>4, NoteCacheAssumption DEF TrimVersions
          <5> QED BY <5>3, <5>4
        <4> QED BY <1>1, <2>5, <3>6, <4>1 DEF TrimVersions, bounds
      <3>7. CASE WriteRow(q)
        <4>1. \/ row' = row
              \/ row' = [row EXCEPT !.text = r.to] /\ row.status = "published"
          BY <3>7 DEF WriteRow
        <4>2. row' \in Rows(writes) /\ row'.status = row.status
          BY <1>1, <2>4, <4>1 DEF Known, Rows
        <4>3. row.status = "published" => row # NoRow /\ row' # NoRow
          BY <4>2 DEF NoRow
        <4>4. /\ row'.status = "none" => row' = NoRow
              /\ row # NoRow => row' # NoRow
          BY <1>1, <4>1, <4>2, <4>3
        <4> QED BY <1>1, <2>5, <3>7, <4>2, <4>4 DEF WriteRow, bounds
      <3>8. CASE Erase(q)
        <4>1. row' = [row EXCEPT !.status = IF @ = "published" THEN "deleted" ELSE @]
          BY <3>8 DEF Erase
        <4>2. CASE row.status = "published"
          <5>1. row' \in Rows(writes) /\ row'.status = "deleted"
            BY <1>1, <4>1, <4>2 DEF Known, Rows
          <5> QED BY <1>1, <2>5, <3>8, <5>1 DEF Erase, bounds, NoRow
        <4>3. CASE row.status # "published"
          <5>1. row' = row
            BY <1>1, <4>1, <4>3 DEF Known, Rows
          <5> QED BY <1>1, <2>5, <3>8, <5>1 DEF Erase, bounds
        <4> QED BY <4>2, <4>3
      <3>9. CASE AddCounters(q)
        <4>1. /\ row' = [row EXCEPT !.count = IF row.status = "removed" THEN @ ELSE @ + 1]
              /\ row.status # "none"
          <5>1. r.op = "flush"
            BY <2>3, <3>9 DEF AddCounters, At, Path
          <5> QED BY <2>1, <3>9, <5>1, RowThere DEF AddCounters
        <4>2. /\ row' \in Rows(writes) /\ row'.status = row.status
              /\ row'.status # "none" /\ row' # NoRow
          BY <1>1, <4>1 DEF Known, Rows, NoRow
        <4> QED BY <1>1, <2>5, <3>9, <4>2 DEF AddCounters, bounds
      <3> QED BY <2>6, <3>1, <3>2, <3>3, <3>4, <3>5, <3>6, <3>7, <3>8, <3>9
              DEF Step, GetNote, LoadNote, Get, LoadFeed, LoadList, PickVersion
    <2>7. CASE Fail(q)
      <3>1. faults' \in 0..MaxFaults
        BY <1>1, <2>7, NoteCacheAssumption DEF Fail
      <3>2. disturbed' \in BOOLEAN
        BY <1>1, <2>7 DEF Fail
      <3> QED BY <1>1, <2>5, <2>7, <3>1, <3>2 DEF Fail, db
    <2> QED BY <1>5, <2>6, <2>7
  <1>6. ASSUME NEW k \in Key, Expire(k) PROVE Typed'
    <2>1. cached' = [cached EXCEPT ![k] = Missing] /\ UNCHANGED <<db, request, bounds>>
      BY <1>6 DEF Expire
    <2>2. cached' \in [Key -> Known(writes) \cup {Missing}]
      BY <1>1, <2>1
    <2>3. \A l \in Key : cached'[l] \in {cached[l], Missing}
      BY <1>1, <2>1
    <2> QED BY <1>3, <2>1, <2>2, <2>3
  <1>7. CASE UNCHANGED vars
    <2>1. UNCHANGED <<db, request, bounds>> /\ cached' = cached
      BY <1>7 DEF vars
    <2> QED BY <1>1, <1>3, <2>1
  <1>8. ASSUME NEW r, Moderate(r), r \in Rows(writes), r.status \notin {"none", "missing"}
        PROVE  Typed'
    <2>1. /\ row' = r /\ disturbed' = TRUE /\ writes' = writes + 1 /\ writes < MaxWrites
          /\ UNCHANGED <<versions, cached, request, faults>>
      BY <1>8 DEF Moderate
    <2>2. writes' \in 0..MaxWrites /\ writes <= writes'
      BY <1>1, <2>1, NoteCacheAssumption
    <2>3. /\ Known(writes) \subseteq Known(writes') /\ UpTo(writes) \subseteq UpTo(writes')
          /\ Rows(writes) \subseteq Rows(writes')
      BY <1>1, <2>2, NoteCacheAssumption, Grows
    <2>4. versions' \in Seq(0..writes')
      <3>1. 0..writes \subseteq 0..writes'
        BY <1>1, <2>2, NoteCacheAssumption
      <3> QED BY <1>1, <2>1, <3>1, SeqMonotonic
    <2>5. /\ request' \in [Request -> {NoRequest} \cup UpTo(writes')]
          /\ cached' \in [Key -> Known(writes') \cup {Missing}]
      BY <1>1, <2>1, <2>3
    <2>6. row' \in Rows(writes') /\ row' # NoRow
      BY <1>8, <2>1, <2>3 DEF NoRow
    <2> QED BY <1>1, <1>8, <2>1, <2>2, <2>4, <2>5, <2>6 DEF Typed
  <1>9. ASSUME DeleteUser \/ DeleteNoteByID \/ DeleteCommentByID PROVE Typed'
    <2>1. row.status \in {"published", "deleted"}
      BY <1>9 DEF DeleteUser, DeleteNoteByID, DeleteCommentByID, Moderate
    <2>2. row \in Known(writes)
      BY <1>1, <2>1 DEF Rows
    <2>3. /\ [row EXCEPT !.status = "removed"] \in Rows(writes)
          /\ [row EXCEPT !.status = "removed"].status = "removed"
      BY <2>2 DEF Known, Rows
    <2>4. /\ [row EXCEPT !.status = "deleted"] \in Rows(writes)
          /\ [row EXCEPT !.status = "deleted"].status = "deleted"
      BY <2>2 DEF Known, Rows
    <2> DEFINE lowered == [row EXCEPT !.count = IF @ = 0 THEN 0 ELSE @ - 1]
    <2>5. lowered \in Rows(writes) /\ lowered.status = row.status
      BY <2>2 DEF Known, Rows
    <2> HIDE DEF lowered
    <2>6. CASE DeleteUser
      BY <1>8, <2>3, <2>6 DEF DeleteUser
    <2>7. CASE DeleteNoteByID
      BY <1>8, <2>4, <2>7 DEF DeleteNoteByID
    <2>8. CASE DeleteCommentByID
      <3>1. Moderate(lowered)
        BY <2>8 DEF DeleteCommentByID, lowered
      <3> QED BY <1>8, <2>1, <2>5, <3>1
    <2> QED BY <1>9, <2>6, <2>7, <2>8
  <1> QED BY <1>4, <1>5, <1>6, <1>7, <1>9 DEF Next

(***************************************************************************)
(* The type invariant.                                                     *)
(***************************************************************************)
THEOREM TypeCorrect == Spec => []TypeOK
  <1>1. ASSUME Typed PROVE TypeOK
    <2>1. writes \in 0..MaxWrites /\ 0..writes \subseteq Text
      BY <1>1, NoteCacheAssumption DEF Typed, Text
    <2>2. Known(writes) \subseteq Row /\ Rows(writes) \subseteq Row
      BY <2>1 DEF Known, Rows, Row
    <2>3. versions \in Seq(Text)
      BY <1>1, <2>1, SeqMonotonic DEF Typed
    <2>4. \A v \in ToSet(versions) : v <= writes
      BY <1>1, <2>1 DEF Typed, ToSet
    <2>5. /\ cached \in [Key -> Row \cup {Missing}]
          /\ \A k \in Key : cached[k].status # "removed"
      <3>1. \A c \in Known(writes) \cup {Missing} : c.status # "removed"
        BY DEF Known, Missing
      <3> QED BY <1>1, <2>2, <3>1 DEF Typed
    <2>6. ASSUME NEW q \in Active
          PROVE  \E todo \in {request[q].todo} :
                   /\ request[q] \in [op: Op, todo: {todo}, got: Row \cup {Missing}, to: Text]
                   /\ todo \in Seq(Call) /\ todo # <<>>
      <3> PICK r : r = request[q]
        OBVIOUS
      <3>1. r \in UpTo(writes)
        BY <1>1, ActiveUpTo
      <3>2. r \in [op: Op, todo: {r.todo}, got: Row \cup {Missing}, to: Text]
        BY <2>1, <2>2, <3>1 DEF UpTo
      <3>3. r.todo \in Seq(Call) /\ r.todo # <<>>
        BY <3>1 DEF UpTo
      <3> QED BY <3>2, <3>3
    <2> QED BY <1>1, <2>2, <2>3, <2>4, <2>5, <2>6 DEF Typed, TypeOK
  <1> QED BY <1>1, TypedInit, TypedStep, PTL DEF Spec
-----------------------------------------------------------------------------
(***************************************************************************)
(* While no change has run beside another request, none of its calls has   *)
(* failed and no moderator came: what requests hold, and which copies are still wrong.  A    *)
(* copy may be behind the row only as long as the one change under way has *)
(* its DEL before it; Until names the calls during which it has.  The      *)
(* anonymous reader's copy of a note that is gone is nobody's concern: a   *)
(* deletion leaves it.                                                     *)
(***************************************************************************)
Shared == {"note", "raw", "list"}

Right(k) == (k = "raw" => row.status = "published") => Fresh(k)

Until ==
  [note |-> {"dropNew", "dropNote", "dropAll"},
   raw  |-> {"dropNew", "dropNote", "dropRaw", "dropAll"},
   list |-> {"dropNew", "dropNote", "dropRaw", "dropLists", "dropNoteLists"}]

Behind(r, k) == r.op \in Changes /\ Head(r.todo) \in Until[k]

Shown == IF row.status = "published" THEN row ELSE NoRow

\* What request r has read, saved or done is so.
Grasps(r) ==
  /\ Head(r.todo) \in {"setNote", "insertVersion", "setRaw"} => r.got = row
  /\ Head(r.todo) = "setList" => r.got.status = Shown.status /\ r.got.text = Shown.text
  /\ Head(r.todo) \in {"trimVersions", "writeRow"} =>
       versions # <<>> /\ Last(versions) = row.text
  /\ r.op = "delete" /\ Head(r.todo) # "erase" => row.status # "published"

Alone == \A q \in Active : request[q].op \in Changes => Active = {q}

Grasped == \A q \in Active : Grasps(request[q])

UpToDate == \A k \in Shared : (\A q \in Active : ~Behind(request[q], k)) => Right(k)

NoteInv == ~disturbed => Alone /\ Grasped /\ UpToDate

\* What the invariant says of a request that takes a step.
LEMMA Holds ==
  ASSUME Typed, NoteInv, ~disturbed, NEW q \in Active, NEW r, r = request[q]
  PROVE  /\ r.op \in Changes => Active = {q}
         /\ Grasps(r)
         /\ \A k \in Shared : ~Behind(r, k) => Right(k)
  <1>1. Alone /\ Grasped /\ UpToDate
    BY DEF NoteInv
  <1>2. r.op \in Changes => Active = {q}
    BY <1>1 DEF Alone
  <1>3. Grasps(r)
    BY <1>1 DEF Grasped
  <1>4. ASSUME NEW k \in Shared, ~Behind(r, k) PROVE Right(k)
    <2>1. \A p \in Active : ~Behind(request[p], k)
      BY <1>1, <1>2, <1>4 DEF Alone, Behind
    <2> QED BY <1>1, <2>1 DEF UpToDate
  <1> QED BY <1>2, <1>3, <1>4

\* A step of q that makes w of its request r.
LEMMA NoteMoves ==
  ASSUME Typed, NoteInv, ~disturbed, NEW q \in Active, NEW r \in UpTo(writes), r = request[q],
         NEW w, Becomes(q, r, w),
         UNCHANGED db \/ r.op \in Changes,
         w # NoRequest => Grasps(w)',
         \A k \in Shared : ~(w # NoRequest /\ Behind(w, k)) => Right(k)'
  PROVE  NoteInv'
  <1>1. r.op \in Changes => Active = {q}
    BY Holds
  <1>2. /\ request' = [request EXCEPT ![q] = w] /\ DOMAIN request = Request /\ q \in Request
        /\ w # NoRequest => w.op = r.op
    BY DEF Becomes, Typed, Active
  <1>3. /\ \A p \in Active' : p \in Active /\ request'[p].op = request[p].op
        /\ \A p \in Active' \ {q} : request'[p] = request[p]
        /\ w # NoRequest => q \in Active' /\ request'[q] = w
        /\ q \in Active' => request'[q] = w /\ w # NoRequest
    BY <1>2 DEF Active
  <1>4. Alone'
    <2>1. ASSUME NEW p \in Active', request'[p].op \in Changes PROVE Active' = {p}
      <3>1. Active = {p}
        BY <1>3, <2>1 DEF NoteInv, Alone
      <3> QED BY <1>3, <3>1
    <2> QED BY <2>1 DEF Alone
  <1>5. ASSUME NEW p \in Active' PROVE Grasps(request[p])'
    <2>1. CASE p = q
      BY <1>3, <2>1
    <2>2. CASE p # q
      <3>1. p \in Active /\ request'[p] = request[p]
        BY <1>3, <2>2
      <3>2. UNCHANGED db
        BY <1>1, <2>2, <3>1
      <3>3. Grasps(request[p])
        BY <3>1 DEF NoteInv, Grasped
      <3> QED BY <3>1, <3>2, <3>3 DEF Grasps, Shown, db
    <2> QED BY <2>1, <2>2
  <1>6. UpToDate'
    <2>1. ASSUME NEW k \in Shared, \A p \in Active' : ~Behind(request'[p], k) PROVE Right(k)'
      BY <1>3, <2>1
    <2> QED BY <2>1 DEF UpToDate, Behind
  <1> QED BY <1>4, <1>5, <1>6 DEF NoteInv, Grasped

\* Copies that stay as they are or go stay right, while the row does not change.
LEMMA StaysRight ==
  ASSUME NEW k \in Shared, UNCHANGED row, cached'[k] \in {cached[k], Missing}, Right(k)
  PROVE  Right(k)'
  BY DEF Right, Fresh, Agrees

LEMMA Gone ==
  ASSUME NEW k \in Shared, cached'[k] = Missing
  PROVE  Right(k)'
  BY DEF Right, Fresh

\* A request that has not come to its DELs is behind nothing.
LEMMA NotBehind ==
  ASSUME NEW r, Head(r.todo) \notin {"dropNew", "dropNote", "dropRaw", "dropLists",
                                     "dropNoteLists", "dropAll"}
  PROVE  \A k \in Shared : ~Behind(r, k)
  BY DEF Behind, Until, Shared

\* The request w goes on with call c, at which it need not hold anything.
LEMMA NothingHeld ==
  ASSUME NEW w, w.op # "delete",
         Head(w.todo) \notin {"setNote", "insertVersion", "setRaw", "setList", "trimVersions",
                              "writeRow"}
  PROVE  Grasps(w)'
  BY DEF Grasps

LEMMA Next2 ==
  ASSUME NEW q, NEW r, NEW x, Learnt(q, r, x), NEW c, Coming(r) = c, c # "over"
  PROVE  \E w : /\ Becomes(q, r, w) /\ w # NoRequest
                /\ w.op = r.op /\ Head(w.todo) = c /\ w.got = x /\ w.to = r.to
  BY DEF Learnt, Becomes, Coming

LEMMA NoteInit == Init => NoteInv
  <1> SUFFICES ASSUME Init PROVE NoteInv
    OBVIOUS
  <1>1. Active = {}
    BY DEF Init, Active
  <1>2. \A k \in Key : cached[k] = Missing
    BY DEF Init
  <1>3. \A k \in Shared : Right(k)
    BY <1>2 DEF Right, Fresh, Shared, Key
  <1> QED BY <1>1, <1>3 DEF NoteInv, Alone, Grasped, UpToDate

\* Reading.
LEMMA NoteReads ==
  ASSUME Typed, NoteInv, ~disturbed, NEW q \in Request,
         \/ GetNote(q) \/ LoadNote(q) \/ Get(q) \/ LoadFeed(q) \/ LoadList(q)
         \/ PickVersion(q)
  PROVE  NoteInv'
  <1>1. q \in Active
    BY DEF GetNote, LoadNote, Get, LoadFeed, LoadList, PickVersion, At
  <1> PICK r \in UpTo(writes) : r = request[q]
    BY <1>1, ActiveUpTo
  <1>2. Path(r.op, Head(r.todo), Coming(r))
    BY Where
  <1>3. UNCHANGED <<db, cached, bounds>>
    BY DEF GetNote, LoadNote, Get, LoadFeed, LoadList, PickVersion
  <1>4. Head(r.todo) \in {"getNote", "loadNote", "getRaw", "getFeed", "getList", "getWide",
                          "loadFeed", "loadList", "pickVersion"}
    BY DEF GetNote, LoadNote, Get, LoadFeed, LoadList, PickVersion, At
  <1>5. \A k \in Shared : Right(k) /\ Right(k)'
    <2>1. \A k \in Shared : ~Behind(r, k)
      BY <1>4, NotBehind
    <2>2. \A k \in Shared : Right(k)
      BY <1>1, <2>1, Holds
    <2>3. UNCHANGED <<row, cached>>
      BY <1>3 DEF db
    <2> QED BY <2>2, <2>3, StaysRight
  <1>6. ASSUME NEW w, Becomes(q, r, w), w # NoRequest => Grasps(w)' PROVE NoteInv'
    BY <1>1, <1>3, <1>5, <1>6, NoteMoves
  <1>7. CASE Stop(q)
    BY <1>1, <1>6, <1>7, Stops
  <1>8. CASE GetNote(q)
    <2>1. Head(r.todo) = "getNote"
      BY <1>8 DEF GetNote, At
    <2>2. r.op # "delete" /\ r.op # "feed"
      BY <1>2, <2>1 DEF Path
    <2>3. CASE cached["note"] = Missing
      <3> PICK w : Becomes(q, r, w) /\ w # NoRequest /\ Head(w.todo) = "loadNote"
        BY <1>1, <1>8, <2>1, <2>3, Reads DEF GetNote
      <3>1. w.op = r.op
        BY DEF Becomes
      <3>2. Grasps(w)'
        BY <2>2, <3>1, NothingHeld
      <3> QED BY <1>6, <3>2
    <2>4. CASE cached["note"] # Missing
      <3>1. cached["note"] = row
        BY <1>5, <2>4 DEF Right, Fresh, Agrees, Shared
      <3>2. Learn(q, row)
        BY <1>8, <2>4, <3>1 DEF GetNote
      <3>3. row.status # "none"
        BY <3>1 DEF Typed
      <3>4. Learnt(q, r, row)
        BY <1>1, <2>2, <3>2, <3>3, RowKnown, Learns
      <3>5. CASE Coming(r) = "over"
        <4> PICK w : Becomes(q, r, w) /\ (w # NoRequest => Head(w.todo) = "over")
          BY <3>4, <3>5 DEF Learnt, Coming
        <4>1. w # NoRequest => w.op = r.op
          BY DEF Becomes
        <4>2. w # NoRequest => Grasps(w)'
          BY <2>2, <4>1, NothingHeld
        <4> QED BY <1>6, <4>2
      <3>6. CASE Coming(r) # "over"
        <4> PICK w : /\ Becomes(q, r, w) /\ w # NoRequest /\ w.op = r.op
                     /\ Head(w.todo) = Coming(r) /\ w.got = row
          BY <3>4, <3>6, Next2
        <4>1. Head(w.todo) \in {"insertVersion", "pickVersion", "dropAll", "setRaw"}
          BY <1>2, <2>1, <3>6 DEF Path
        <4>2. Grasps(w)'
          BY <1>3, <2>2, <4>1 DEF Grasps, db
        <4> QED BY <1>6, <4>2
      <3> QED BY <3>5, <3>6
    <2> QED BY <2>3, <2>4
  <1>9. CASE LoadNote(q)
    <2>1. Head(r.todo) = "loadNote" /\ Learn(q, row)
      BY <1>9 DEF LoadNote, At, Typed
    <2>2. r.op \notin {"create", "list", "wide", "feed", "delete"} /\ Coming(r) = "setNote"
      BY <1>2, <2>1 DEF Path
    <2>3. Learnt(q, r, row)
      BY <1>1, <2>1, <2>2, RowKnown, RowThere, Learns
    <2> PICK w : /\ Becomes(q, r, w) /\ w # NoRequest /\ w.op = r.op
                 /\ Head(w.todo) = "setNote" /\ w.got = row
      BY <2>2, <2>3, Next2
    <2>4. Grasps(w)'
      BY <1>3, <2>2 DEF Grasps, db
    <2> QED BY <1>6, <2>4
  <1>10. CASE Get(q) /\ Proceed(q)
    <2>1. Head(r.todo) \in {"getRaw", "getFeed", "getList", "getWide"}
      BY <1>10 DEF Get, At
    <2>2. r.op # "delete" /\ Coming(r) \in {"getNote", "loadFeed", "loadList"}
      BY <1>2, <2>1 DEF Path
    <2>3. Learnt(q, r, r.got)
      BY <1>1, <1>10, Proceeds
    <2> PICK w : /\ Becomes(q, r, w) /\ w # NoRequest /\ w.op = r.op
                 /\ Head(w.todo) = Coming(r)
      BY <2>2, <2>3, Next2
    <2>4. Grasps(w)'
      BY <2>2, NothingHeld
    <2> QED BY <1>6, <2>4
  <1>11. CASE LoadFeed(q) /\ row.status = "published"
    <2> PICK x : x = [row EXCEPT !.count = 0]
      OBVIOUS
    <2>1. Head(r.todo) = "loadFeed" /\ Learn(q, x)
      BY <1>11 DEF LoadFeed, At
    <2>2. r.op = "feed" /\ Coming(r) = "setFeed"
      BY <1>2, <2>1 DEF Path
    <2>3. Learnt(q, r, x)
      BY <1>1, <1>11, <2>1, RowKnown, Learns
    <2> PICK w : /\ Becomes(q, r, w) /\ w # NoRequest /\ w.op = r.op
                 /\ Head(w.todo) = "setFeed"
      BY <2>2, <2>3, Next2
    <2>4. Grasps(w)'
      BY <2>2, NothingHeld
    <2> QED BY <1>6, <2>4
  <1>12. CASE LoadList(q)
    <2>1. Head(r.todo) = "loadList" /\ Learn(q, Shown)
      BY <1>12 DEF LoadList, At, Shown
    <2>2. r.op \in {"list", "wide"} /\ Coming(r) \in {"setList", "setWide"}
      BY <1>2, <2>1 DEF Path
    <2>3. Shown \in Known(writes) /\ Shown.status # "deleted"
      BY RowKnown DEF Shown
    <2>4. Learnt(q, r, Shown)
      BY <1>1, <2>1, <2>2, <2>3, Learns
    <2> PICK w : /\ Becomes(q, r, w) /\ w # NoRequest /\ w.op = r.op
                 /\ Head(w.todo) = Coming(r) /\ w.got = Shown
      BY <2>2, <2>4, Next2
    <2>5. Grasps(w)'
      BY <1>3, <2>2 DEF Grasps, Shown, db
    <2> QED BY <1>6, <2>5
  <1>13. CASE PickVersion(q) /\ ~Stop(q)
    <2> PICK w : Becomes(q, r, w) /\ w # NoRequest /\ Head(w.todo) = "getNote"
      BY <1>1, <1>13, Picks DEF PickVersion, At
    <2>1. r.op = "restore" /\ w.op = r.op
      BY <1>2, <1>13 DEF PickVersion, At, Path, Becomes
    <2>2. Grasps(w)'
      BY <2>1, NothingHeld
    <2> QED BY <1>6, <2>2
  <1> QED BY <1>7, <1>8, <1>9, <1>10, <1>11, <1>12, <1>13 DEF Get, LoadFeed

\* Filling Redis.
LEMMA NoteFills ==
  ASSUME Typed, NoteInv, ~disturbed, NEW q \in Request, Set(q)
  PROVE  NoteInv'
  <1> PICK call \in {"setNote", "setRaw", "setFeed", "setList", "setWide"} :
             At(q, call) /\ cached' = [cached EXCEPT ![KeyOf(call)] = request[q].got]
    BY DEF Set
  <1>1. q \in Active
    BY DEF At
  <1> PICK r \in UpTo(writes) : r = request[q]
    BY <1>1, ActiveUpTo
  <1>2. Path(r.op, Head(r.todo), Coming(r))
    BY Where
  <1>3. /\ Head(r.todo) = call /\ cached' = [cached EXCEPT ![KeyOf(call)] = r.got]
        /\ Proceed(q) /\ UNCHANGED <<db, bounds>>
    BY DEF Set, At
  <1>4. \A k \in Shared : Right(k)
    BY <1>1, <1>3, NotBehind, Holds
  <1>5. Grasps(r)
    BY <1>1, Holds
  <1>6. ASSUME NEW k \in Shared PROVE Right(k)'
    <2>1. k \in Key /\ DOMAIN cached = Key
      BY DEF Shared, Key, Typed
    <2>2. CASE KeyOf(call) # k
      <3>1. cached'[k] = cached[k]
        BY <1>3, <2>1, <2>2
      <3> QED BY <1>3, <1>4, <3>1, StaysRight DEF db
    <2>3. CASE KeyOf(call) = k
      <3>1. cached'[k] = r.got
        BY <1>3, <2>1, <2>3
      <3>2. call = IF k = "note" THEN "setNote" ELSE IF k = "raw" THEN "setRaw" ELSE "setList"
        BY <2>3 DEF KeyOf, Shared
      <3>3. CASE k \in {"note", "raw"}
        <4>1. r.got = row
          BY <1>3, <1>5, <3>2, <3>3 DEF Grasps
        <4> QED BY <1>3, <3>1, <3>3, <4>1 DEF Right, Fresh, Agrees, db
      <3>4. CASE k = "list"
        <4>1. r.got.status = Shown.status /\ r.got.text = Shown.text
          BY <1>3, <1>5, <3>2, <3>4 DEF Grasps
        <4> QED BY <1>3, <3>1, <3>4, <4>1 DEF Right, Fresh, Agrees, Shown, db
      <3> QED BY <3>3, <3>4 DEF Shared
    <2> QED BY <2>2, <2>3
  <1>7. Learnt(q, r, r.got)
    BY <1>1, <1>3, Proceeds
  <1>8. CASE Coming(r) = "over"
    <2> PICK w : Becomes(q, r, w) /\ (w # NoRequest => Head(w.todo) = "over")
      BY <1>7, <1>8 DEF Learnt, Coming
    <2>1. r.op # "delete" /\ (w # NoRequest => w.op = r.op)
      BY <1>2, <1>3 DEF Path, Becomes
    <2>2. w # NoRequest => Grasps(w)'
      BY <2>1, NothingHeld
    <2> QED BY <1>1, <1>3, <1>6, <2>2, NoteMoves
  <1>9. CASE Coming(r) # "over"
    <2> PICK w : /\ Becomes(q, r, w) /\ w # NoRequest /\ w.op = r.op
                 /\ Head(w.todo) = Coming(r) /\ w.got = r.got
      BY <1>7, <1>9, Next2
    <2>1. /\ call = "setNote" /\ r.op # "delete"
          /\ Head(w.todo) \in {"insertVersion", "pickVersion", "dropAll", "setRaw"}
      BY <1>2, <1>3, <1>9 DEF Path
    <2>2. r.got = row
      BY <1>3, <1>5, <2>1 DEF Grasps
    <2>3. Grasps(w)'
      BY <1>3, <2>1, <2>2 DEF Grasps, db
    <2> QED BY <1>1, <1>3, <1>6, <2>3, NoteMoves
  <1> QED BY <1>8, <1>9

\* Changing the row and its history.
LEMMA NoteChanges ==
  ASSUME Typed, NoteInv, ~disturbed, NEW q \in Request,
         \/ Insert(q) \/ InsertVersion(q) \/ TrimVersions(q) \/ WriteRow(q) \/ Erase(q)
         \/ AddCounters(q)
  PROVE  NoteInv'
  <1>1. q \in Active
    BY DEF Insert, InsertVersion, TrimVersions, WriteRow, Erase, AddCounters, At
  <1> PICK r \in UpTo(writes) : r = request[q]
    BY <1>1, ActiveUpTo
  <1>2. Path(r.op, Head(r.todo), Coming(r))
    BY Where
  <1>3. cached' = cached
    BY DEF Insert, InsertVersion, TrimVersions, WriteRow, Erase, AddCounters
  <1>4. Head(r.todo) \in {"insert", "insertVersion", "trimVersions", "writeRow", "erase",
                          "addCounters"}
    BY DEF Insert, InsertVersion, TrimVersions, WriteRow, Erase, AddCounters, At
  <1>5. r.op \in Changes /\ Coming(r) # "over"
    BY <1>2, <1>4 DEF Path, Changes
  <1>6. Grasps(r) /\ \A k \in Shared : Right(k)
    BY <1>1, <1>4, NotBehind, Holds
  <1>7. ASSUME NEW w, Becomes(q, r, w), w # NoRequest => Grasps(w)',
               \A k \in Shared : ~(w # NoRequest /\ Behind(w, k)) => Right(k)'
        PROVE  NoteInv'
    BY <1>1, <1>5, <1>7, NoteMoves
  <1>8. CASE Stop(q) /\ row' = row
    <2>1. \A k \in Shared : Right(k)'
      BY <1>3, <1>6, <1>8, StaysRight
    <2> QED BY <1>1, <1>7, <1>8, <2>1, Stops
  <1>9. ASSUME Proceed(q)
        PROVE  \E w : /\ Becomes(q, r, w) /\ w # NoRequest
                      /\ w.op = r.op /\ Head(w.todo) = Coming(r)
    <2>1. Learnt(q, r, r.got)
      BY <1>1, <1>9, Proceeds
    <2> QED BY <1>5, <2>1, Next2
  <1>10. CASE Insert(q)
    <2> PICK w : Becomes(q, r, w) /\ w # NoRequest /\ w.op = r.op /\ Head(w.todo) = Coming(r)
      BY <1>9, <1>10 DEF Insert
    <2>1. w.op = "create" /\ Head(w.todo) = "dropNew"
      BY <1>2, <1>10 DEF Insert, At, Path
    <2>2. Grasps(w)'
      BY <2>1, NothingHeld
    <2>3. \A k \in Shared : Behind(w, k)
      BY <2>1 DEF Behind, Until, Shared, Changes
    <2> QED BY <1>7, <2>2, <2>3
  <1>11. CASE InsertVersion(q)
    <2> PICK w : Becomes(q, r, w) /\ w # NoRequest /\ w.op = r.op /\ Head(w.todo) = Coming(r)
      BY <1>9, <1>11 DEF InsertVersion
    <2>1. w.op # "delete" /\ Head(w.todo) \in {"trimVersions", "writeRow"}
      BY <1>2, <1>11 DEF InsertVersion, At, Path
    <2>2. r.got = row
      BY <1>6, <1>11 DEF InsertVersion, At, Grasps
    <2>3. versions' = Append(versions, row.text) /\ row' = row
      BY <1>11, <2>2, RowKnown DEF InsertVersion
    <2>4. versions' # <<>> /\ Last(versions') = row'.text
      <3>1. versions \in Seq(0..writes) /\ row.text \in 0..writes
        BY DEF Typed, Known, Rows
      <3> QED BY <2>3, <3>1, AppendProperties DEF Last
    <2>5. Grasps(w)'
      BY <2>1, <2>4 DEF Grasps
    <2>6. \A k \in Shared : Right(k)'
      BY <1>3, <1>6, <2>3, StaysRight
    <2> QED BY <1>7, <2>5, <2>6
  <1>12. CASE TrimVersions(q)
    <2> PICK w : Becomes(q, r, w) /\ w # NoRequest /\ w.op = r.op /\ Head(w.todo) = Coming(r)
      BY <1>9, <1>12 DEF TrimVersions
    <2>1. w.op # "delete" /\ Head(w.todo) = "writeRow"
      BY <1>2, <1>12 DEF TrimVersions, At, Path
    <2>2. versions # <<>> /\ Last(versions) = row.text /\ row' = row
      BY <1>6, <1>12 DEF TrimVersions, At, Grasps
    <2>3. versions' # <<>> /\ Last(versions') = Last(versions)
      <3> PICK n, m : n = Len(versions) /\ m = Len(versions) - Keep + 1
        OBVIOUS
      <3>1. versions \in Seq(0..writes) /\ n \in Nat /\ \A i \in 1..n : versions[i] \in 0..writes
        BY DEF Typed
      <3>2. CASE versions' = versions
        BY <2>2, <3>2
      <3>3. CASE n > Keep /\ versions' = SubSeq(versions, m, n)
        <4>1. m \in 1..n /\ n - m + 1 = Keep /\ Keep >= 1 /\ m + Keep - 1 = n
          BY <3>1, <3>3, NoteCacheAssumption
        <4>2. m \in Int /\ n \in Int /\ m <= n /\ \A i \in m..n : versions[i] \in 0..writes
          BY <3>1, <4>1
        <4> PICK s : s = SubSeq(versions, m, n)
          OBVIOUS
        <4>3. /\ s \in Seq(0..writes) /\ Len(s) = n - m + 1
              /\ \A i \in 1..n - m + 1 : s[i] = versions[m + i - 1]
          BY <4>2, SubSeqProperties
        <4>4. Len(s) = Keep /\ s[Keep] = versions[n] /\ s # <<>>
          <5>1. Keep \in 1..n - m + 1
            BY <3>1, <4>1, NoteCacheAssumption
          <5>2. s[Keep] = versions[m + Keep - 1]
            BY <4>3, <5>1
          <5>3. Len(s) = Keep /\ Keep >= 1
            BY <4>1, <4>3
          <5>4. s # <<>>
            BY <4>3, <5>3, NoteCacheAssumption
          <5> QED BY <4>1, <5>2, <5>3, <5>4
        <4>5. Last(s) = s[Keep] /\ Last(versions) = versions[n]
          BY <4>4 DEF Last
        <4> QED BY <3>3, <4>4, <4>5
      <3>4. versions' = IF r.got = Missing \/ n <= Keep THEN versions ELSE SubSeq(versions, m, n)
        BY <1>12 DEF TrimVersions
      <3>5. n <= Keep \/ n > Keep
        BY <3>1, NoteCacheAssumption
      <3> QED BY <3>2, <3>3, <3>4, <3>5
    <2>4. Grasps(w)'
      BY <2>1, <2>2, <2>3 DEF Grasps
    <2>5. \A k \in Shared : Right(k)'
      BY <1>3, <1>6, <2>2, StaysRight
    <2> QED BY <1>7, <2>4, <2>5
  <1>13. CASE WriteRow(q) /\ row.status = "published"
    <2> PICK w : Becomes(q, r, w) /\ w # NoRequest /\ w.op = r.op /\ Head(w.todo) = Coming(r)
      BY <1>9, <1>13 DEF WriteRow
    <2>1. w.op \in {"update", "restore"} /\ Head(w.todo) = "dropNote"
      BY <1>2, <1>13 DEF WriteRow, At, Path
    <2>2. Grasps(w)'
      BY <2>1, NothingHeld
    <2>3. \A k \in Shared : Behind(w, k)
      BY <2>1 DEF Behind, Until, Shared, Changes
    <2> QED BY <1>7, <2>2, <2>3
  <1>14. CASE Erase(q)
    <2> PICK w : Becomes(q, r, w) /\ w # NoRequest /\ w.op = r.op /\ Head(w.todo) = Coming(r)
      BY <1>9, <1>14 DEF Erase
    <2>1. w.op = "delete" /\ Head(w.todo) = "dropNote"
      BY <1>2, <1>14 DEF Erase, At, Path
    <2>2. row'.status # "published"
      BY <1>14 DEF Erase, Typed, Known, Rows
    <2>3. Grasps(w)'
      BY <2>1, <2>2 DEF Grasps
    <2>4. \A k \in Shared : Behind(w, k)
      BY <2>1 DEF Behind, Until, Shared, Changes
    <2> QED BY <1>7, <2>3, <2>4
  <1>15. CASE AddCounters(q)
    <2> PICK w : Becomes(q, r, w) /\ w # NoRequest /\ w.op = r.op /\ Head(w.todo) = Coming(r)
      BY <1>9, <1>15 DEF AddCounters
    <2>1. w.op = "flush" /\ Head(w.todo) = "dropAll"
      BY <1>2, <1>15 DEF AddCounters, At, Path
    <2>2. row'.status = row.status /\ row'.text = row.text
      BY <1>15 DEF AddCounters, Typed, Known, Rows
    <2>3. Grasps(w)'
      BY <2>1, NothingHeld
    <2>4. Behind(w, "note") /\ Behind(w, "raw")
      BY <2>1 DEF Behind, Until, Changes
    <2>5. Right("list")'
      BY <1>3, <1>6, <2>2 DEF Right, Fresh, Agrees, Shared
    <2> QED BY <1>7, <2>3, <2>4, <2>5 DEF Shared
  <1> QED BY <1>8, <1>10, <1>11, <1>12, <1>13, <1>14, <1>15 DEF WriteRow

\* Deleting from Redis.
LEMMA NoteDrops ==
  ASSUME Typed, NoteInv, ~disturbed, NEW q \in Request, Drop(q)
  PROVE  NoteInv'
  <1> PICK call \in DOMAIN Drops :
             /\ At(q, call)
             /\ cached' = [k \in Key |-> IF k \in Drops[call] THEN Missing ELSE cached[k]]
    BY DEF Drop
  <1>1. q \in Active /\ UNCHANGED <<db, bounds>> /\ Proceed(q)
    BY DEF At, Drop
  <1> PICK r \in UpTo(writes) : r = request[q]
    BY <1>1, ActiveUpTo
  <1>2. Path(r.op, Head(r.todo), Coming(r))
    BY Where
  <1>3. Head(r.todo) = call
    BY DEF At
  <1>4. Grasps(r) /\ \A k \in Shared : ~Behind(r, k) => Right(k)
    BY <1>1, Holds
  <1>5. Learnt(q, r, r.got)
    BY <1>1, Proceeds
  <1> PICK w : /\ Becomes(q, r, w)
               /\ w # NoRequest => w.op = r.op /\ Head(w.todo) = Coming(r)
               /\ Coming(r) # "over" => w # NoRequest
    BY <1>5 DEF Learnt, Becomes, Coming
  <1>6. w # NoRequest => Grasps(w)'
    <2>1. r.op # "delete" => Head(r.todo) \in DOMAIN Drops
      BY <1>3
    <2>2. Coming(r) \in {"dropLists", "dropRaw", "dropNoteLists", "over"}
      BY <1>2, <1>3 DEF Path, Drops
    <2>3. r.op = "delete" => row'.status # "published"
      BY <1>1, <1>3, <1>4 DEF Grasps, Drops, db
    <2> QED BY <2>2, <2>3 DEF Grasps
  <1>7. ASSUME NEW k \in Shared, ~(w # NoRequest /\ Behind(w, k)) PROVE Right(k)'
    <2>1. k \in Key
      BY DEF Shared, Key
    <2>2. CASE k \in Drops[call]
      BY <2>1, <2>2, Gone
    <2>3. CASE k \notin Drops[call] /\ ~Behind(r, k)
      <3>1. cached'[k] = cached[k] /\ row' = row
        BY <1>1, <2>1, <2>3 DEF db
      <3> QED BY <1>4, <2>3, <3>1, StaysRight
    <2>4. CASE k \notin Drops[call] /\ Behind(r, k)
      <3>1. \/ call = "dropNew" /\ k = "list"
            \/ call = "dropNote" /\ k \in {"raw", "list"}
            \/ call = "dropRaw" /\ k = "list"
        BY <1>3, <2>4 DEF Behind, Until, Drops, Shared
      <3>2. CASE call = "dropNote" /\ r.op = "delete" /\ k = "raw"
        <4>1. row'.status # "published"
          BY <1>1, <1>3, <1>4, <3>2 DEF Grasps, db
        <4> QED BY <3>2, <4>1 DEF Right
      <3>3. CASE ~(call = "dropNote" /\ r.op = "delete" /\ k = "raw")
        <4>1. Coming(r) # "over" /\ r.op \in Changes /\ Coming(r) \in Until[k]
          BY <1>2, <1>3, <2>4, <3>1, <3>3 DEF Path, Until, Behind
        <4>2. w # NoRequest /\ Behind(w, k)
          BY <4>1 DEF Behind
        <4> QED BY <1>7, <4>2
      <3> QED BY <3>2, <3>3
    <2> QED BY <2>2, <2>3, <2>4
  <1> QED BY <1>1, <1>6, <1>7, NoteMoves

\* A call of a request that only reads fails.
LEMMA NoteFails ==
  ASSUME Typed, NoteInv, ~disturbed, NEW q \in Request, Fail(q), request[q].op \notin Changes
  PROVE  NoteInv'
  <1>1. q \in Active /\ UNCHANGED <<db, cached>>
    BY DEF Fail
  <1> PICK r \in UpTo(writes) : r = request[q]
    BY <1>1, ActiveUpTo
  <1>2. Path(r.op, Head(r.todo), Coming(r))
    BY Where
  <1>3. r.op # "delete" /\ r.op \notin Changes
    BY DEF Changes
  <1>4. \A k \in Shared : Right(k)'
    <2>1. \A k \in Shared : ~Behind(r, k)
      BY <1>3 DEF Behind
    <2>2. \A k \in Shared : Right(k)
      BY <1>1, <2>1, Holds
    <2> QED BY <1>1, <2>2, StaysRight DEF db
  <1>5. ASSUME NEW w, Becomes(q, r, w), w # NoRequest => Grasps(w)' PROVE NoteInv'
    BY <1>1, <1>4, <1>5, NoteMoves
  <1>6. CASE Stop(q)
    BY <1>1, <1>5, <1>6, Stops
  <1>7. CASE At(q, "getNote") /\ GoOn(q, <<"loadNote", "setNote">> \o Remaining(q))
    <2> PICK w : Becomes(q, r, w) /\ w # NoRequest /\ Head(w.todo) = "loadNote"
      BY <1>1, <1>7, Reads DEF At
    <2>1. w.op = r.op
      BY DEF Becomes
    <2>2. Grasps(w)'
      BY <1>3, <2>1, NothingHeld
    <2> QED BY <1>5, <2>2
  <1>8. CASE ~EndsRequest(q) /\ At(q, "loadNote")
    <2>1. r.op \in {"interact", "detail", "viewed"}
      BY <1>2, <1>3, <1>8 DEF At, Path, Changes
    <2> QED BY <1>8, <2>1 DEF EndsRequest
  <1>9. CASE ~EndsRequest(q) /\ ~At(q, "getNote") /\ ~At(q, "loadNote") /\ Proceed(q)
    <2>1. Learnt(q, r, r.got)
      BY <1>1, <1>9, Proceeds
    <2> PICK w : /\ Becomes(q, r, w)
                 /\ w # NoRequest => w.op = r.op /\ Head(w.todo) = Coming(r) /\ w.got = r.got
      BY <2>1 DEF Learnt, Becomes, Coming
    <2>2. Head(r.todo) \notin {"getNote", "loadNote", "loadList", "loadFeed"}
      BY <1>1, <1>9 DEF At, EndsRequest
    <2>3. \/ Coming(r) \in {"over", "getNote", "dropAll", "loadFeed", "loadList"}
          \/ Coming(r) = "setRaw" /\ Head(r.todo) = "setNote"
      BY <1>2, <1>3, <2>2 DEF Path, Changes
    <2>4. Coming(r) = "setRaw" => r.got = row
      BY <1>1, <2>3, Holds DEF Grasps
    <2>5. w # NoRequest => Grasps(w)'
      BY <1>1, <1>3, <2>3, <2>4 DEF Grasps, db
    <2> QED BY <1>5, <2>5
  <1> QED BY <1>6, <1>7, <1>8, <1>9 DEF Fail

LEMMA NoteStarts ==
  ASSUME Typed, NoteInv, ~disturbed', NEW q \in Request, NEW op \in Op, Start(q, op)
  PROVE  NoteInv'
  <1>1. ~disturbed /\ ~Changing /\ (op \in Changes => Active = {})
    BY DEF Start
  <1>2. Alone /\ Grasped /\ UpToDate
    BY <1>1 DEF NoteInv
  <1> PICK w : /\ request' = [request EXCEPT ![q] = w] /\ w # NoRequest
               /\ w.op = op /\ w.todo = Calls[op]
    BY Arrives
  <1>3. Head(w.todo) \in {"insert", "getNote", "erase", "addCounters", "getRaw", "getFeed",
                          "getList", "getWide"}
    <2>1. op = "create" => Head(Calls[op]) = "insert"
      BY CreateTodo
    <2>2. op \in {"update", "restore", "interact", "viewed"} => Head(Calls[op]) = "getNote"
      <3>1. Head(Calls["update"]) = "getNote" /\ Head(Calls["restore"]) = "getNote"
        BY UpdateTodo, RestoreTodo
      <3>2. Head(Calls["interact"]) = "getNote" /\ Head(Calls["viewed"]) = "getNote"
        BY InteractTodo, ViewedTodo
      <3> QED BY <3>1, <3>2
    <2>3. /\ op = "delete" => Head(Calls[op]) = "erase"
          /\ op = "flush" => Head(Calls[op]) = "addCounters"
      BY DeleteTodo, FlushTodo
    <2>4. op \in {"detail", "feed", "list", "wide"} =>
            Head(Calls[op]) \in {"getRaw", "getFeed", "getList", "getWide"}
      BY DetailTodo, FeedTodo, ListTodo, WideTodo
    <2> QED BY <2>1, <2>2, <2>3, <2>4, OpIs
  <1>4. op = "delete" => Head(w.todo) = "erase"
    BY DeleteTodo
  <1>5. /\ q \notin Active /\ UNCHANGED <<db, cached>>
        /\ Active' = Active \cup {q} /\ request'[q] = w
        /\ \A p \in Active : request'[p] = request[p]
    BY DEF Start, Active, Typed
  <1>6. Alone'
    <2>1. \A p \in Active : request[p].op \notin Changes
      BY <1>1 DEF Changing
    <2> QED BY <1>1, <1>5, <2>1 DEF Alone
  <1>7. Grasped'
    <2>1. Grasps(w)'
      BY <1>3, <1>4 DEF Grasps
    <2>2. \A p \in Active : Grasps(request[p])'
      BY <1>2, <1>5 DEF Grasped, Grasps, Shown, db
    <2> QED BY <1>5, <2>1, <2>2 DEF Grasped
  <1>8. UpToDate'
    <2>1. ASSUME NEW k \in Shared PROVE Right(k)'
      <3>1. Right(k)
        BY <1>1, <1>2, <2>1 DEF UpToDate, Behind, Changing
      <3> QED BY <1>5, <3>1, StaysRight DEF db
    <2> QED BY <2>1 DEF UpToDate
  <1> QED BY <1>6, <1>7, <1>8 DEF NoteInv

LEMMA NoteStep == Typed /\ NoteInv /\ [Next]_vars => NoteInv'
  <1> SUFFICES ASSUME Typed, NoteInv, [Next]_vars, ~disturbed' PROVE NoteInv'
    BY DEF NoteInv
  <1>1. ASSUME NEW q \in Request, NEW op \in Op, Start(q, op) PROVE NoteInv'
    BY <1>1, NoteStarts
  <1>2. ASSUME NEW q \in Request, Step(q) PROVE NoteInv'
    <2>1. ~disturbed
      BY <1>2 DEF Step, GetNote, LoadNote, Get, LoadFeed, LoadList, Set, Insert, InsertVersion,
                  TrimVersions, PickVersion, WriteRow, Erase, AddCounters, Drop, bounds
    <2> QED BY <1>2, <2>1, NoteReads, NoteFills, NoteChanges, NoteDrops DEF Step
  <1>3. ASSUME NEW q \in Request, Fail(q) PROVE NoteInv'
    <2>1. ~disturbed /\ request[q].op \notin Changes
      BY <1>3 DEF Fail
    <2> QED BY <1>3, <2>1, NoteFails
  <1>4. ASSUME UNCHANGED <<db, request, bounds>>,
               \A k \in Shared : cached'[k] \in {cached[k], Missing}
        PROVE  NoteInv'
    <2>1. ~disturbed /\ UNCHANGED <<row, versions, request>>
      BY <1>4 DEF bounds, db
    <2>2. Alone /\ Grasped /\ UpToDate
      BY <2>1 DEF NoteInv
    <2>3. \A k \in Shared : Right(k) => Right(k)'
      BY <1>4, <2>1, StaysRight
    <2>4. Alone' /\ Grasped'
      BY <2>1, <2>2 DEF Alone, Grasped, Grasps, Shown, Active
    <2>5. UpToDate'
      BY <2>1, <2>2, <2>3 DEF UpToDate, Active, Behind
    <2> QED BY <2>4, <2>5 DEF NoteInv
  <1>5. ASSUME NEW l \in Key, Expire(l) PROVE NoteInv'
    <2>1. \A k \in Shared : cached'[k] \in {cached[k], Missing}
      BY <1>5 DEF Expire, Typed, Shared, Key
    <2> QED BY <1>4, <1>5, <2>1 DEF Expire
  <1>6. CASE UNCHANGED vars
    BY <1>4, <1>6 DEF vars
  <1>7. ~(DeleteUser \/ DeleteNoteByID \/ DeleteCommentByID)
    BY DEF DeleteUser, DeleteNoteByID, DeleteCommentByID, Moderate
  <1> QED BY <1>1, <1>2, <1>3, <1>5, <1>6, <1>7 DEF Next

(***************************************************************************)
(* Until a moderator changes the note, a request that changes it meets     *)
(* another one or a call of it fails, the caches a change is meant to      *)
(* clear agree with the row.                                               *)
(***************************************************************************)
THEOREM ClearedCorrect == Spec => []ClearedFresh
  <1>1. ASSUME NoteInv PROVE ClearedFresh
    <2> SUFFICES ASSUME ~disturbed, ~Changing
                 PROVE  /\ Fresh("note") /\ Fresh("list")
                        /\ row.status = "published" => Fresh("raw")
      BY DEF ClearedFresh
    <2>1. \A k \in Shared : Right(k)
      BY <1>1 DEF NoteInv, UpToDate, Behind, Changing
    <2> QED BY <2>1 DEF Shared, Right
  <1> QED BY <1>1, TypedInit, TypedStep, NoteInit, NoteStep, PTL DEF Spec

(***************************************************************************)
(* Under the same condition, what an edit or a restore overwrites is the   *)
(* newest version.                                                         *)
(***************************************************************************)
THEOREM HistoryCorrect == Spec => HistoryKept
  <1>1. ASSUME Typed, NoteInv, Next, ~disturbed, Overwrites
        PROVE  versions # <<>> /\ Last(versions) = row.text
    <2>1. ASSUME NEW q \in Request, WriteRow(q)
          PROVE  versions # <<>> /\ Last(versions) = row.text
      <3>1. q \in Active /\ Head(request[q].todo) = "writeRow"
        BY <2>1 DEF WriteRow, At
      <3>2. Grasps(request[q])
        BY <1>1, <3>1, Holds
      <3> QED BY <3>1, <3>2 DEF Grasps
    <2>2. \E q \in Request : WriteRow(q)
      <3>1. row.status = "published" /\ row'.text # row.text /\ row \in Known(writes)
        BY <1>1, RowKnown DEF Overwrites
      <3>2. ASSUME NEW q \in Request, Step(q) PROVE WriteRow(q)
        <4>1. ~Insert(q)
          BY <3>1 DEF Insert, NoRow
        <4>2. ~Erase(q)
          BY <3>1 DEF Erase, Known
        <4>3. ~AddCounters(q)
          BY <3>1 DEF AddCounters, Known
        <4> QED BY <3>1, <3>2, <4>1, <4>2, <4>3
                DEF Step, GetNote, LoadNote, Get, LoadFeed, LoadList, Set, InsertVersion,
                    TrimVersions, PickVersion, Drop, db
      <3>3. ~(DeleteUser \/ DeleteNoteByID \/ DeleteCommentByID)
        BY <3>1 DEF DeleteUser, DeleteNoteByID, DeleteCommentByID, Moderate, Known
      <3> QED BY <1>1, <3>1, <3>2, <3>3 DEF Next, Start, Fail, Expire, db
    <2> QED BY <2>1, <2>2
  <1>2. ASSUME Typed, NoteInv, [Next]_vars
        PROVE  [~disturbed /\ Overwrites => versions # <<>> /\ Last(versions) = row.text]_vars
    BY <1>1, <1>2
  <1> QED BY <1>2, TypedInit, TypedStep, NoteInit, NoteStep, PTL DEF Spec, HistoryKept
-----------------------------------------------------------------------------
(***************************************************************************)
(* Users and their profiles.  What a request may have left.                *)
(***************************************************************************)
Reg1 == <<"find", "create">>
Reg2 == <<"create">>

Pro1 == <<"getRaw", "getUser", "setRaw">>
Pro2 == <<"getUser", "setRaw">>
Pro3 == <<"loadUser", "setUser", "setRaw">>
Pro4 == <<"setUser", "setRaw">>
Pro5 == <<"setRaw">>

Aut1 == <<"getUser">>
Aut2 == <<"loadUser", "setUser">>
Aut3 == <<"setUser">>

Upd1 == <<"writeRow", "dropUser", "dropRaw", "dropRaw">>
Upd2 == <<"dropUser", "dropRaw", "dropRaw">>
Upd3 == <<"dropRaw", "dropRaw">>
Upd4 == <<"dropRaw">>

Rem1 == <<"select", "delete">>
Rem2 == <<"delete">>

Course(op, t) ==
  \/ op = "register" /\ t \in {Reg1, Reg2}
  \/ op = "profile" /\ t \in {Pro1, Pro2, Pro3, Pro4, Pro5}
  \/ op = "authors" /\ t \in {Aut1, Aut2, Aut3}
  \/ op = "update" /\ t \in {Upd1, Upd2, Upd3, Upd4}
  \/ op = "remove" /\ t \in {Rem1, Rem2}

UserRow == [name: Name, text: Users!Text, gone: BOOLEAN]

UserOp == {"register", "profile", "authors", "update", "remove"}

UserTodo == {Reg1, Reg2, Pro1, Pro2, Pro3, Pro4, Pro5, Aut1, Aut2, Aut3,
             Upd1, Upd2, Upd3, Upd4, Rem1, Rem2}

UserRequest == [op: UserOp, todo: UserTodo, name: Name, id: Users!Id, got: Users!Copy,
                to: Users!Text]

\* What a request has got is of a row that is, or was, in the table, and so is
\* what it is about to delete.
OfRow(r) == r.got # {} \/ r.todo = Rem2 => r.id \in DOMAIN users

Registering == {q \in Users!Active : serving[q].op = "register"}

UsersTyped ==
  /\ users \in Seq(UserRow)
  /\ Len(users) + Cardinality(Registering) <= MaxAccounts
  /\ copies \in [Users!Id -> [Users!Key -> Users!Copy]]
  /\ crossed \in BOOLEAN
  /\ changes \in 0..MaxChanges /\ mishaps \in 0..MaxMishaps
  /\ kept \in [Users!Key -> 0..MaxMishaps]
  /\ \A k \in Users!Key : kept[k] <= mishaps

ServingKnown ==
  /\ serving \in [Request -> {Users!NoRequest} \cup UserRequest]
  /\ \A q \in Users!Active : /\ Course(serving[q].op, serving[q].todo)
                             /\ OfRow(serving[q])

CopiesOfRows == \A i \in Users!Id, k \in Users!Key : copies[i][k] # {} => i \in DOMAIN users

UsersSafe == UsersTyped /\ ServingKnown /\ CopiesOfRows /\ Users!NamesUnique
-----------------------------------------------------------------------------
Reading(q, i) == q \in Users!Active /\ serving[q].op \in Users!Reads /\ serving[q].id = i
Updating(q, i) == q \in Users!Active /\ serving[q].op = "update" /\ serving[q].id = i

\* Nobody is looked at while he changes his profile.
UsersApart == \A p, q \in Request, i \in Users!Id : ~(Reading(p, i) /\ Updating(q, i))

\* Request q has written i's row and is still to drop the copy under key k; the
\* last chance for the raw one is there if only the first DEL has failed.
StillDrops(q, i, k) ==
  /\ Updating(q, i)
  /\ \/ serving[q].todo = Upd2
     \/ k = "raw" /\ serving[q].todo = Upd3
     \/ k = "raw" /\ serving[q].todo = Upd4 /\ kept["raw"] = 1

Outdated(i, k) ==
  Users!Exists(i) /\ copies[i][k] # {} /\ copies[i][k] # {users[i].text}

\* An old copy is about to go.
OldOnesGo == \A i \in Users!Id, k \in Users!Key :
  Outdated(i, k) => \E q \in Request : StillDrops(q, i, k)

\* What a reader holds is what the row says.
HoldsRight(r) ==
  r.op \in Users!Reads /\ r.got # {} /\ Users!Exists(r.id) => r.got = {users[r.id].text}

UsersCalm == /\ UsersApart /\ OldOnesGo
             /\ \A q \in Users!Active : HoldsRight(serving[q])

UsersQuiet == ~crossed /\ kept["user"] = 0 /\ kept["raw"] <= 1

UsersInv == UsersSafe /\ (UsersQuiet => UsersCalm)
-----------------------------------------------------------------------------
LEMMA UserCalls ==
  /\ Users!Calls.register = Reg1 /\ Users!Calls.profile = Pro1
  /\ Users!Calls.authors = Aut1 /\ Users!Calls.update = Upd1
  /\ Users!Calls.remove = Rem1
  /\ Users!Op = UserOp
  BY DEF Users!Calls, Users!Op, UserOp, Reg1, Pro1, Aut1, Upd1, Rem1

LEMMA UserHeads ==
  /\ Head(Reg1) = "find" /\ Tail(Reg1) = Reg2 /\ Reg1 # <<>>
  /\ Head(Reg2) = "create" /\ Tail(Reg2) = <<>> /\ Reg2 # <<>>
  /\ Head(Pro1) = "getRaw" /\ Tail(Pro1) = Pro2 /\ Pro1 # <<>>
  /\ Head(Pro2) = "getUser" /\ Tail(Pro2) = Pro5 /\ Pro2 # <<>>
  /\ Head(Pro3) = "loadUser" /\ Tail(Pro3) = Pro4 /\ Pro3 # <<>>
  /\ Head(Pro4) = "setUser" /\ Tail(Pro4) = Pro5 /\ Pro4 # <<>>
  /\ Head(Pro5) = "setRaw" /\ Tail(Pro5) = <<>> /\ Pro5 # <<>>
  /\ Head(Aut1) = "getUser" /\ Tail(Aut1) = <<>> /\ Aut1 # <<>>
  /\ Head(Aut2) = "loadUser" /\ Tail(Aut2) = Aut3 /\ Aut2 # <<>>
  /\ Head(Aut3) = "setUser" /\ Tail(Aut3) = <<>> /\ Aut3 # <<>>
  /\ Head(Upd1) = "writeRow" /\ Tail(Upd1) = Upd2 /\ Upd1 # <<>>
  /\ Head(Upd2) = "dropUser" /\ Tail(Upd2) = Upd3 /\ Upd2 # <<>>
  /\ Head(Upd3) = "dropRaw" /\ Tail(Upd3) = Upd4 /\ Upd3 # <<>>
  /\ Head(Upd4) = "dropRaw" /\ Tail(Upd4) = <<>> /\ Upd4 # <<>>
  /\ Head(Rem1) = "select" /\ Tail(Rem1) = Rem2 /\ Rem1 # <<>>
  /\ Head(Rem2) = "delete" /\ Tail(Rem2) = <<>> /\ Rem2 # <<>>
  BY DEF Reg1, Reg2, Pro1, Pro2, Pro3, Pro4, Pro5, Aut1, Aut2, Aut3,
         Upd1, Upd2, Upd3, Upd4, Rem1, Rem2

LEMMA UserLoads ==
  /\ <<"loadUser", "setUser">> \o Pro5 = Pro3
  /\ <<"loadUser", "setUser">> \o <<>> = Aut2
  <1> DEFINE W == {"loadUser", "setUser", "setRaw"}
  <1>1. /\ Pro5 \in Seq(W) /\ Pro3 \in Seq(W) /\ Aut2 \in Seq(W)
        /\ <<"loadUser", "setUser">> \in Seq(W) /\ <<>> \in Seq(W)
    BY DEF Pro5, Pro3, Aut2
  <1>2. /\ Len(Pro5) = 1 /\ Len(Pro3) = 3 /\ Len(Aut2) = 2 /\ Len(<<>>) = 0
        /\ Len(<<"loadUser", "setUser">>) = 2
        /\ Pro5[1] = "setRaw" /\ Pro3[1] = "loadUser" /\ Pro3[2] = "setUser" /\ Pro3[3] = "setRaw"
        /\ Aut2[1] = "loadUser" /\ Aut2[2] = "setUser"
    BY DEF Pro5, Pro3, Aut2
  <1>3. <<"loadUser", "setUser">> \o Pro5 = Pro3
    <2> DEFINE s == <<"loadUser", "setUser">> \o Pro5
    <2>1. s \in Seq(W) /\ Len(s) = 3
      BY <1>1, <1>2, ConcatProperties
    <2>2. \A i \in 1..3 : s[i] = Pro3[i]
      BY <1>1, <1>2, ConcatProperties
    <2> QED BY <1>1, <1>2, <2>1, <2>2, SeqEqual
  <1>4. <<"loadUser", "setUser">> \o <<>> = Aut2
    BY <1>1, ConcatEmptySeq DEF Aut2
  <1> QED BY <1>3, <1>4

\* What is left tells how far a request is.
LEMMA UserApart ==
  /\ Upd1 # Upd2 /\ Upd1 # Upd3 /\ Upd1 # Upd4
  /\ Upd2 # Upd3 /\ Upd2 # Upd4 /\ Upd3 # Upd4 /\ Rem1 # Rem2
  /\ \A t \in {Reg1, Reg2, Pro1, Pro2, Pro3, Pro4, Pro5, Aut1, Aut2, Aut3} :
       t \notin {Upd1, Upd2, Upd3, Upd4, Rem1, Rem2}
  /\ \A t \in {Upd1, Upd2, Upd3, Upd4} : t \notin {Rem1, Rem2}
  BY DEF Reg1, Reg2, Pro1, Pro2, Pro3, Pro4, Pro5, Aut1, Aut2, Aut3,
         Upd1, Upd2, Upd3, Upd4, Rem1, Rem2

LEMMA UserRests ==
  ASSUME NEW r \in UserRequest, Course(r.op, r.todo)
  PROVE  \/ Tail(r.todo) = <<>>
         \/ Course(r.op, Tail(r.todo)) /\ Tail(r.todo) \in UserTodo /\ Tail(r.todo) # <<>>
  <1>1. CASE r.op = "register" /\ r.todo \in {Reg1, Reg2}
    BY <1>1, UserHeads, ZenonT(30) DEF Course, UserTodo
  <1>2. CASE r.op = "profile" /\ r.todo \in {Pro1, Pro2, Pro3, Pro4, Pro5}
    BY <1>2, UserHeads, ZenonT(30) DEF Course, UserTodo
  <1>3. CASE r.op = "authors" /\ r.todo \in {Aut1, Aut2, Aut3}
    BY <1>3, UserHeads, ZenonT(30) DEF Course, UserTodo
  <1>4. CASE r.op = "update" /\ r.todo \in {Upd1, Upd2, Upd3, Upd4}
    BY <1>4, UserHeads, ZenonT(30) DEF Course, UserTodo
  <1>5. CASE r.op = "remove" /\ r.todo \in {Rem1, Rem2}
    BY <1>5, UserHeads, ZenonT(30) DEF Course, UserTodo
  <1> QED BY <1>1, <1>2, <1>3, <1>4, <1>5 DEF Course

\* The call a request is at says what it is and what it has left.
LEMMA UserWhere ==
  ASSUME ServingKnown, NEW q, NEW call, Users!At(q, call)
  PROVE  /\ q \in Request /\ serving[q] \in UserRequest /\ q \in Users!Active
         /\ Course(serving[q].op, serving[q].todo) /\ OfRow(serving[q])
         /\ call = "find" => serving[q].op = "register" /\ serving[q].todo = Reg1
         /\ call = "create" => serving[q].op = "register" /\ serving[q].todo = Reg2
         /\ call = "getRaw" => serving[q].op = "profile" /\ serving[q].todo = Pro1
         /\ call = "getUser" => \/ serving[q].op = "profile" /\ serving[q].todo = Pro2
                                \/ serving[q].op = "authors" /\ serving[q].todo = Aut1
         /\ call = "loadUser" => \/ serving[q].op = "profile" /\ serving[q].todo = Pro3
                                 \/ serving[q].op = "authors" /\ serving[q].todo = Aut2
         /\ call = "setUser" => \/ serving[q].op = "profile" /\ serving[q].todo = Pro4
                                \/ serving[q].op = "authors" /\ serving[q].todo = Aut3
         /\ call = "setRaw" => serving[q].op = "profile" /\ serving[q].todo = Pro5
         /\ call = "writeRow" => serving[q].op = "update" /\ serving[q].todo = Upd1
         /\ call = "dropUser" => serving[q].op = "update" /\ serving[q].todo = Upd2
         /\ call = "dropRaw" => serving[q].op = "update" /\ serving[q].todo \in {Upd3, Upd4}
         /\ call = "select" => serving[q].op = "remove" /\ serving[q].todo = Rem1
         /\ call = "delete" => serving[q].op = "remove" /\ serving[q].todo = Rem2
  <1>1. /\ q \in Request /\ serving[q] \in UserRequest /\ q \in Users!Active
        /\ Course(serving[q].op, serving[q].todo) /\ OfRow(serving[q])
        /\ Head(serving[q].todo) = call
    BY DEF ServingKnown, Users!At, Users!Active
  <1> PICK r \in UserRequest : r = serving[q]
    BY <1>1
  <1>2. \/ r.op = "register" /\ r.todo = Reg1
        \/ r.op = "register" /\ r.todo = Reg2
        \/ r.op = "profile" /\ r.todo = Pro1
        \/ r.op = "profile" /\ r.todo = Pro2
        \/ r.op = "profile" /\ r.todo = Pro3
        \/ r.op = "profile" /\ r.todo = Pro4
        \/ r.op = "profile" /\ r.todo = Pro5
        \/ r.op = "authors" /\ r.todo = Aut1
        \/ r.op = "authors" /\ r.todo = Aut2
        \/ r.op = "authors" /\ r.todo = Aut3
        \/ r.op = "update" /\ r.todo = Upd1
        \/ r.op = "update" /\ r.todo = Upd2
        \/ r.op = "update" /\ r.todo = Upd3
        \/ r.op = "update" /\ r.todo = Upd4
        \/ r.op = "remove" /\ r.todo = Rem1
        \/ r.op = "remove" /\ r.todo = Rem2
    BY <1>1 DEF Course
  <1> QED BY <1>1, <1>2, UserHeads

LEMMA NobodyServed == Users!NoRequest \notin UserRequest
  BY DEF Users!NoRequest, UserRequest, UserOp

LEMMA RowsOfUsers ==
  ASSUME UsersTyped
  PROVE  /\ Len(users) \in Nat /\ DOMAIN users = 1..Len(users)
         /\ \A i \in DOMAIN users : users[i] \in UserRow
  BY DEF UsersTyped

Fit(x) == x \in UserRequest /\ Course(x.op, x.todo) /\ OfRow(x)

LEMMA UserMoves ==
  ASSUME ServingKnown, NEW q \in Request, NEW x,
         serving' = [serving EXCEPT ![q] = x],
         DOMAIN users \subseteq DOMAIN users',
         x = Users!NoRequest \/ Fit(x)
  PROVE  ServingKnown'
  <1>1. serving' \in [Request -> {Users!NoRequest} \cup UserRequest]
    BY DEF ServingKnown, Fit
  <1>2. ASSUME NEW s \in Request, serving'[s] # Users!NoRequest
        PROVE  Course(serving'[s].op, serving'[s].todo) /\ (OfRow(serving[s]))'
    <2>1. CASE s = q
      BY <1>2, <2>1 DEF ServingKnown, Fit, OfRow
    <2>2. CASE s # q
      <3>1. serving'[s] = serving[s] /\ s \in Users!Active
        BY <1>2, <2>2 DEF ServingKnown, Users!Active
      <3> QED BY <3>1 DEF ServingKnown, OfRow
    <2> QED BY <2>1, <2>2
  <1> QED BY <1>1, <1>2 DEF ServingKnown, Users!Active, OfRow, Course

LEMMA UserCount ==
  ASSUME ServingKnown, NEW q \in Request, NEW x,
         serving' = [serving EXCEPT ![q] = x]
  PROVE  /\ IsFiniteSet(Registering) /\ Cardinality(Registering) \in Nat
         /\ Cardinality(Registering') \in Nat
         /\ Cardinality(Registering') <= Cardinality(Registering) + 1
         /\ ~(x # Users!NoRequest /\ x.op = "register" /\ q \notin Registering) =>
              Cardinality(Registering') <= Cardinality(Registering)
         /\ x = Users!NoRequest /\ q \in Registering =>
              Cardinality(Registering') = Cardinality(Registering) - 1
  <1>1. Registering \subseteq Request /\ Registering' \subseteq Request
    BY DEF Registering, Users!Active
  <1>2. IsFiniteSet(Registering) /\ IsFiniteSet(Registering')
    BY <1>1, FS_Subset, AccountsAssumption
  <1> PICK S : S = Registering'
    OBVIOUS
  <1>3. S \subseteq Registering \cup {q}
    BY DEF Registering, Users!Active, ServingKnown
  <1>4. ~(x # Users!NoRequest /\ x.op = "register" /\ q \notin Registering) => S \subseteq Registering
    BY DEF Registering, Users!Active, ServingKnown
  <1>5. x = Users!NoRequest => S = Registering \ {q}
    BY DEF Registering, Users!Active, ServingKnown
  <1>6. Cardinality(Registering) \in Nat /\ Cardinality(S) \in Nat
    BY <1>2, FS_CardinalityType
  <1>7. /\ IsFiniteSet(Registering \cup {q}) /\ Cardinality(Registering \cup {q}) \in Nat
        /\ Cardinality(Registering \cup {q}) <= Cardinality(Registering) + 1
    <2>1. /\ IsFiniteSet(Registering \cup {q})
          /\ \/ Cardinality(Registering \cup {q}) = Cardinality(Registering)
             \/ Cardinality(Registering \cup {q}) = Cardinality(Registering) + 1
      BY <1>2, FS_AddElement
    <2> QED BY <1>6, <2>1
  <1>8. Cardinality(S) <= Cardinality(Registering \cup {q})
    BY <1>3, <1>7, FS_Subset
  <1>9. S \subseteq Registering => Cardinality(S) <= Cardinality(Registering)
    BY <1>2, FS_Subset
  <1>10. x = Users!NoRequest /\ q \in Registering => Cardinality(S) = Cardinality(Registering) - 1
    BY <1>2, <1>5, FS_RemoveElement
  <1> QED BY <1>2, <1>4, <1>6, <1>7, <1>8, <1>9, <1>10
-----------------------------------------------------------------------------
\* A step of request q that leaves the table alone.
LEMMA UserSafeMoves ==
  ASSUME UsersSafe, NEW q \in Request, NEW x,
         serving' = [serving EXCEPT ![q] = x], UNCHANGED users,
         x = Users!NoRequest \/ Fit(x),
         \/ x = Users!NoRequest \/ x.op # "register" \/ q \in Registering
         \/ Len(users) + Cardinality(Registering) < MaxAccounts,
         copies' \in [Users!Id -> [Users!Key -> Users!Copy]],
         \A i \in Users!Id, k \in Users!Key : copies'[i][k] # {} => i \in DOMAIN users,
         crossed' \in BOOLEAN, changes' \in 0..MaxChanges, mishaps' \in 0..MaxMishaps,
         kept' \in [Users!Key -> 0..MaxMishaps], \A k \in Users!Key : kept'[k] <= mishaps'
  PROVE  UsersSafe'
  <1>1. ServingKnown'
    BY UserMoves DEF UsersSafe
  <1>2. Len(users) + Cardinality(Registering') <= MaxAccounts
    <2>1. /\ Cardinality(Registering) \in Nat /\ Cardinality(Registering') \in Nat
          /\ Cardinality(Registering') <= Cardinality(Registering) + 1
          /\ ~(x # Users!NoRequest /\ x.op = "register" /\ q \notin Registering) =>
               Cardinality(Registering') <= Cardinality(Registering)
      BY UserCount DEF UsersSafe
    <2>2. Len(users) \in Nat /\ Len(users) + Cardinality(Registering) <= MaxAccounts
      BY RowsOfUsers DEF UsersSafe, UsersTyped
    <2>3. CASE x # Users!NoRequest /\ x.op = "register" /\ q \notin Registering
      BY <2>1, <2>2, <2>3, AccountsAssumption
    <2>4. CASE ~(x # Users!NoRequest /\ x.op = "register" /\ q \notin Registering)
      BY <2>1, <2>2, <2>4, AccountsAssumption
    <2> QED BY <2>3, <2>4
  <1>3. Users!NamesUnique'
    BY DEF UsersSafe, Users!NamesUnique, Users!Exists
  <1>4. CopiesOfRows'
    BY DEF CopiesOfRows, Users!Id, Users!Key
  <1>5. UsersTyped'
    BY <1>2 DEF UsersSafe, UsersTyped, Users!Id, Users!Key, Users!Copy, Users!Text, Users!Missing,
                UserRow
  <1> QED BY <1>1, <1>3, <1>4, <1>5 DEF UsersSafe

LEMMA CountingRegistering ==
  Users!Cardinality({p \in Users!Active : serving[p].op = "register"}) = Cardinality(Registering)
  BY DEF Users!Cardinality, Cardinality, Registering

LEMMA UserStarts ==
  ASSUME UsersSafe, NEW q \in Request, NEW op \in UserOp, NEW n \in Name, NEW i \in Users!Id,
         Users!Start(q, op, n, i)
  PROVE  UsersSafe'
  <1> DEFINE x == [op |-> op, todo |-> Users!Calls[op], name |-> n, id |-> i,
                   got |-> Users!Missing, to |-> changes']
  <1>1. /\ serving' = [serving EXCEPT ![q] = x] /\ crossed' \in BOOLEAN
        /\ UNCHANGED <<users, copies, kept, mishaps>>
        /\ op = "register" => Len(users) + Cardinality(Registering) < MaxAccounts
    BY CountingRegistering DEF Users!Start, UsersSafe, UsersTyped
  <1>2. changes' \in 0..MaxChanges
    BY AccountsAssumption DEF Users!Start, UsersSafe, UsersTyped
  <1>3. /\ op = "register" => Users!Calls[op] = Reg1
        /\ op = "profile" => Users!Calls[op] = Pro1
        /\ op = "authors" => Users!Calls[op] = Aut1
        /\ op = "update" => Users!Calls[op] = Upd1
        /\ op = "remove" => Users!Calls[op] = Rem1
    BY UserCalls
  <1>4. Users!Calls[op] \in UserTodo /\ Users!Calls[op] # Rem2 /\ Course(op, Users!Calls[op])
    BY <1>3, UserApart DEF UserOp, UserTodo, Course
  <1>5. Fit(x)
    BY <1>2, <1>4 DEF Fit, UserRequest, OfRow, Users!Copy, Users!Missing, Users!Text
  <1>6. x.op = op
    OBVIOUS
  <1> HIDE DEF x
  <1> QED BY <1>1, <1>2, <1>5, <1>6, UserSafeMoves DEF UsersSafe, UsersTyped, CopiesOfRows

\* A request goes on to what it has left, or ends.
LEMMA UserProceeds ==
  ASSUME UsersSafe, NEW q \in Users!Active, NEW r \in UserRequest, r = serving[q],
         Course(r.op, r.todo), OfRow(r),
         \/ Users!Stop(q)
         \/ Users!Proceed(q) /\ (Tail(r.todo) = Rem2 => r.id \in DOMAIN users)
  PROVE  \E x : /\ serving' = [serving EXCEPT ![q] = x]
                /\ \/ x = Users!NoRequest
                   \/ /\ Fit(x) /\ x.op = r.op /\ x.id = r.id /\ x.got = r.got
                      /\ x.todo = Tail(r.todo)
                      /\ x.op = "register" => q \in Registering
  <1>1. CASE Users!Stop(q) \/ (Users!Proceed(q) /\ Tail(r.todo) = <<>>)
    BY <1>1 DEF Users!Stop, Users!Proceed, Users!GoOn, Users!Remaining
  <1>2. CASE Users!Proceed(q) /\ Tail(r.todo) # <<>> /\ (Tail(r.todo) = Rem2 => r.id \in DOMAIN users)
    <2> DEFINE x == [r EXCEPT !.todo = Tail(r.todo)]
    <2>1. serving' = [serving EXCEPT ![q] = x]
      BY <1>2 DEF Users!Proceed, Users!GoOn, Users!Remaining
    <2>2. Course(r.op, Tail(r.todo)) /\ Tail(r.todo) \in UserTodo
      BY <1>2, UserRests
    <2>3. Fit(x) /\ x.op = r.op /\ x.id = r.id /\ x.got = r.got /\ x.todo = Tail(r.todo)
      BY <1>2, <2>2 DEF Fit, UserRequest, OfRow
    <2>4. x.op = "register" => q \in Registering
      BY <2>3 DEF Registering
    <2> HIDE DEF x
    <2> QED BY <2>1, <2>3, <2>4
  <1> QED BY <1>1, <1>2
-----------------------------------------------------------------------------
\* A step keeps what always holds, and what holds while nothing has gone wrong.
UsersKept == UsersSafe' /\ (UsersCalm /\ UsersQuiet' => UsersCalm')

LEMMA StepDrops ==
  ASSUME ServingKnown, NEW q \in Request, NEW x, serving' = [serving EXCEPT ![q] = x],
         NEW s \in Request, s # q, kept["raw"] = 1 => kept'["raw"] = 1,
         NEW i, NEW k, StillDrops(s, i, k)
  PROVE  StillDrops(s, i, k)'
  BY DEF ServingKnown, StillDrops, Updating, Users!Active

\* Request q goes on about the same user.
LEMMA UserCalmMoves ==
  ASSUME UsersSafe, UsersCalm, NEW q \in Users!Active, NEW x,
         serving' = [serving EXCEPT ![q] = x], UNCHANGED users,
         \/ x = Users!NoRequest
         \/ x.op = serving[q].op /\ x.id = serving[q].id /\ HoldsRight(x),
         \A i \in Users!Id, k \in Users!Key :
           \/ copies'[i][k] = copies[i][k] \/ copies'[i][k] = {}
           \/ Users!Exists(i) => copies'[i][k] = {users[i].text},
         kept["raw"] = 1 => kept'["raw"] = 1,
         \A i \in Users!Id, k \in Users!Key :
           StillDrops(q, i, k) => copies'[i][k] = {} \/ StillDrops(q, i, k)'
  PROVE  UsersCalm'
  <1>1. /\ q \in Request /\ serving'[q] = x
        /\ \A s \in Request : s # q => serving'[s] = serving[s]
    BY DEF UsersSafe, ServingKnown, Users!Active
  <1>2. \A s \in Request, i \in Users!Id :
          (Reading(s, i)' => Reading(s, i)) /\ (Updating(s, i)' => Updating(s, i))
    BY <1>1 DEF Reading, Updating, Users!Active
  <1>3. UsersApart'
    BY <1>2 DEF UsersCalm, UsersApart, Users!Id
  <1>4. ASSUME NEW i \in Users!Id, NEW k \in Users!Key, Outdated(i, k)'
        PROVE  \E s \in Request : StillDrops(s, i, k)'
    <2>1. Outdated(i, k) /\ copies'[i][k] # {}
      BY <1>4 DEF Outdated, Users!Exists
    <2>2. PICK s \in Request : StillDrops(s, i, k)
      BY <2>1 DEF UsersCalm, OldOnesGo
    <2>3. CASE s = q
      BY <2>1, <2>2, <2>3
    <2>4. CASE s # q
      <3>1. StillDrops(s, i, k)'
        BY <1>1, <2>2, <2>4, StepDrops DEF UsersSafe
      <3> QED BY <3>1
    <2> QED BY <2>3, <2>4
  <1>5. ASSUME NEW s \in Request, serving'[s] # Users!NoRequest
        PROVE  (HoldsRight(serving[s]))'
    <2>1. CASE s = q
      BY <1>1, <1>5, <2>1 DEF HoldsRight, Users!Exists, Users!Reads
    <2>2. CASE s # q
      <3>1. HoldsRight(serving[s]) /\ serving'[s] = serving[s]
        BY <1>1, <1>5, <2>2 DEF UsersCalm, Users!Active
      <3> QED BY <3>1 DEF HoldsRight, Users!Exists, Users!Reads
    <2> QED BY <2>1, <2>2
  <1> QED BY <1>3, <1>4, <1>5 DEF UsersCalm, OldOnesGo, Users!Active, Users!Id, Users!Key


\* A step of request q that reads or calls in vain, and is about nothing it
\* would drop.
LEMMA UserLooksOn ==
  ASSUME UsersSafe, NEW q \in Users!Active, NEW r, r = serving[q], NEW x,
         serving' = [serving EXCEPT ![q] = x],
         UNCHANGED <<users, copies, kept, crossed, changes>>, mishaps' \in 0..MaxMishaps,
         mishaps <= mishaps',
         \/ x = Users!NoRequest
         \/ Fit(x) /\ x.op = r.op /\ x.id = r.id,
         r.todo \notin {Upd2, Upd3, Upd4},
         UsersCalm => x = Users!NoRequest \/ HoldsRight(x)
  PROVE  UsersKept
  <1>1. q \in Request /\ (r.op = "register" => q \in Registering)
    BY DEF Users!Active, Registering
  <1>2. UsersSafe'
    <2>1. \A k \in Users!Key : kept'[k] <= mishaps'
      <3>1. \A k \in Users!Key : kept[k] \in Nat /\ kept[k] <= mishaps
        BY AccountsAssumption DEF UsersSafe, UsersTyped
      <3> QED BY <3>1, AccountsAssumption DEF UsersSafe, UsersTyped
    <2>2. x = Users!NoRequest \/ Fit(x)
      OBVIOUS
    <2>3. x = Users!NoRequest \/ x.op # "register" \/ q \in Registering
      BY <1>1
    <2>4. \A i \in Users!Id, k \in Users!Key : copies'[i][k] # {} => i \in DOMAIN users
      BY DEF UsersSafe, CopiesOfRows
    <2> QED BY <1>1, <2>1, <2>2, <2>3, <2>4, UserSafeMoves DEF UsersSafe, UsersTyped
  <1>3. ASSUME UsersCalm PROVE UsersCalm'
    <2>1. \A i \in Users!Id, k \in Users!Key : ~StillDrops(q, i, k)
      BY DEF StillDrops
    <2> QED BY <1>3, <2>1, UserCalmMoves
  <1> QED BY <1>2, <1>3 DEF UsersKept

\* The calls that change nothing.
LEMMA UserLooks ==
  ASSUME UsersSafe, NEW q \in Request,
         Users!Find(q) \/ Users!GetRaw(q) \/ Users!SelectUser(q)
  PROVE  UsersKept
  <1>1. /\ Users!At(q, "find") \/ Users!At(q, "getRaw") \/ Users!At(q, "select")
        /\ UNCHANGED <<users, copies, kept, crossed, changes, mishaps>>
        /\ \/ Users!Stop(q)
           \/ Users!Proceed(q) /\ (Users!At(q, "select") => Users!Exists(serving[q].id))
    BY DEF Users!Find, Users!GetRaw, Users!SelectUser, Users!bounds, Users!At
  <1>2. q \in Users!Active /\ serving[q] \in UserRequest
        /\ Course(serving[q].op, serving[q].todo) /\ OfRow(serving[q])
    BY <1>1, UserWhere DEF UsersSafe
  <1> PICK r \in UserRequest : r = serving[q]
    BY <1>2
  <1>3. \/ r.op = "register" /\ r.todo = Reg1
        \/ r.op = "profile" /\ r.todo = Pro1
        \/ r.op = "remove" /\ r.todo = Rem1 /\ Users!At(q, "select")
    BY <1>1, UserWhere DEF UsersSafe
  <1>4. r.todo \notin {Upd2, Upd3, Upd4} /\ (Tail(r.todo) = Rem2 => Users!At(q, "select"))
    BY <1>3, UserHeads, UserApart
  <1>5. \/ Users!Stop(q)
        \/ Users!Proceed(q) /\ (Tail(r.todo) = Rem2 => r.id \in DOMAIN users)
    BY <1>1, <1>4 DEF Users!Exists
  <1> PICK x : /\ serving' = [serving EXCEPT ![q] = x]
               /\ \/ x = Users!NoRequest
                  \/ Fit(x) /\ x.op = r.op /\ x.id = r.id /\ x.got = r.got
    BY <1>2, <1>5, UserProceeds
  <1>6. UsersCalm => x = Users!NoRequest \/ HoldsRight(x)
    BY <1>2 DEF UsersCalm, HoldsRight
  <1>7. \/ x = Users!NoRequest
        \/ Fit(x) /\ x.op = r.op /\ x.id = r.id
    OBVIOUS
  <1>8. mishaps \in 0..MaxMishaps /\ mishaps <= mishaps
    BY AccountsAssumption DEF UsersSafe, UsersTyped
  <1> QED BY <1>1, <1>2, <1>4, <1>6, <1>7, <1>8, UserLooksOn

\* A reader goes on with a copy of the row.
LEMMA UserLearns ==
  ASSUME UsersSafe, NEW q \in Users!Active, NEW r \in UserRequest, r = serving[q],
         Course(r.op, r.todo), NEW c \in Users!Copy, Users!Learn(q, c),
         r.todo \in {Pro2, Pro3, Aut1, Aut2}, r.id \in DOMAIN users,
         UsersCalm /\ Users!Exists(r.id) => c = {users[r.id].text},
         UNCHANGED <<users, copies, kept, crossed, changes, mishaps>>
  PROVE  UsersKept
  <1> DEFINE y == [r EXCEPT !.todo = Tail(r.todo), !.got = c]
  <1>1. /\ Tail(r.todo) = <<>> => serving' = [serving EXCEPT ![q] = Users!NoRequest]
        /\ Tail(r.todo) # <<>> => serving' = [serving EXCEPT ![q] = y]
    BY DEF Users!Learn, Users!Remaining
  <1>2. Tail(r.todo) # <<>> => Fit(y) /\ y.op = r.op /\ y.id = r.id /\ y.got = c
    BY UserRests DEF Fit, UserRequest, OfRow
  <1> HIDE DEF y
  <1>3. UsersCalm /\ Tail(r.todo) # <<>> => HoldsRight(y)
    BY <1>2 DEF HoldsRight
  <1>4. r.todo \notin {Upd2, Upd3, Upd4}
    BY UserApart
  <1>5. mishaps \in 0..MaxMishaps /\ mishaps <= mishaps
    BY AccountsAssumption DEF UsersSafe, UsersTyped
  <1>6. CASE Tail(r.todo) = <<>>
    BY <1>1, <1>4, <1>5, <1>6, UserLooksOn
  <1>7. CASE Tail(r.todo) # <<>>
    BY <1>1, <1>2, <1>3, <1>4, <1>5, <1>7, UserLooksOn
  <1> QED BY <1>6, <1>7

\* To look for a copy that is not there, or cannot be read.
LEMMA UserMisses ==
  ASSUME UsersSafe, NEW q \in Request, Users!At(q, "getUser"),
         Users!GoOn(q, <<"loadUser", "setUser">> \o Users!Remaining(q)),
         UNCHANGED <<users, copies, kept, crossed, changes>>, mishaps' \in 0..MaxMishaps,
         mishaps <= mishaps'
  PROVE  UsersKept
  <1>1. q \in Users!Active /\ serving[q] \in UserRequest /\ OfRow(serving[q])
    BY UserWhere DEF UsersSafe
  <1> PICK r \in UserRequest : r = serving[q]
    BY <1>1
  <1>2. \/ r.op = "profile" /\ r.todo = Pro2
        \/ r.op = "authors" /\ r.todo = Aut1
    BY UserWhere DEF UsersSafe
  <1> PICK t : t = <<"loadUser", "setUser">> \o Users!Remaining(q)
    OBVIOUS
  <1>3. \/ r.op = "profile" /\ t = Pro3
        \/ r.op = "authors" /\ t = Aut2
    BY <1>2, UserHeads, UserLoads DEF Users!Remaining
  <1> DEFINE x == [r EXCEPT !.todo = t]
  <1>4. serving' = [serving EXCEPT ![q] = x]
    BY <1>3, UserHeads DEF Users!GoOn
  <1>5. Fit(x) /\ x.op = r.op /\ x.id = r.id /\ x.got = r.got
    BY <1>1, <1>3, UserApart DEF Fit, UserRequest, UserTodo, Course, OfRow
  <1> HIDE DEF x
  <1>6. UsersCalm => HoldsRight(x)
    BY <1>1, <1>5 DEF UsersCalm, HoldsRight
  <1>7. r.todo \notin {Upd2, Upd3, Upd4}
    BY <1>2, UserApart
  <1> QED BY <1>1, <1>4, <1>5, <1>6, <1>7, UserLooksOn

LEMMA UserGets ==
  ASSUME UsersSafe, NEW q \in Request, Users!GetUser(q) PROVE UsersKept
  <1>1. /\ Users!At(q, "getUser")
        /\ UNCHANGED <<users, copies, kept, crossed, changes, mishaps>>
    BY DEF Users!GetUser, Users!bounds
  <1>2. /\ q \in Users!Active /\ serving[q] \in UserRequest
        /\ Course(serving[q].op, serving[q].todo)
    BY <1>1, UserWhere DEF UsersSafe
  <1> PICK r \in UserRequest : r = serving[q]
    BY <1>2
  <1>3. \/ r.op = "profile" /\ r.todo = Pro2
        \/ r.op = "authors" /\ r.todo = Aut1
    BY <1>1, UserWhere DEF UsersSafe
  <1> PICK i \in Users!Id : i = r.id
    BY DEF UserRequest
  <1>4. "user" \in Users!Key
    BY DEF Users!Key
  <1> PICK c \in Users!Copy : c = copies[i]["user"]
    BY <1>4 DEF UsersSafe, UsersTyped
  <1>5. CASE c = {}
    <2>1. mishaps \in 0..MaxMishaps /\ mishaps <= mishaps
      BY AccountsAssumption DEF UsersSafe, UsersTyped
    <2> QED BY <1>1, <1>5, <2>1, UserMisses DEF Users!GetUser, Users!Missing
  <1>6. CASE c # {}
    <2>1. Users!Learn(q, c)
      BY <1>6 DEF Users!GetUser, Users!Missing
    <2>2. i \in DOMAIN users
      BY <1>4, <1>6 DEF UsersSafe, CopiesOfRows
    <2>3. UsersCalm /\ Users!Exists(i) => c = {users[i].text}
      <3> SUFFICES ASSUME UsersCalm, Users!Exists(i), c # {users[i].text} PROVE FALSE
        OBVIOUS
      <3>1. Outdated(i, "user")
        BY <1>6 DEF Outdated
      <3>2. PICK s \in Request : Updating(s, i)
        BY <3>1, <1>4 DEF UsersCalm, OldOnesGo, StillDrops
      <3>3. Reading(q, i)
        BY <1>2, <1>3 DEF Reading, Users!Reads
      <3> QED BY <3>2, <3>3 DEF UsersCalm, UsersApart
    <2>4. r.todo \in {Pro2, Aut1}
      BY <1>3
    <2> QED BY <1>1, <1>2, <2>1, <2>2, <2>3, <2>4, UserLearns
  <1> QED BY <1>5, <1>6

LEMMA UserLoadsRow ==
  ASSUME UsersSafe, NEW q \in Request, Users!LoadUser(q) PROVE UsersKept
  <1>1. /\ Users!At(q, "loadUser")
        /\ UNCHANGED <<users, copies, kept, crossed, changes, mishaps>>
    BY DEF Users!LoadUser, Users!bounds
  <1>2. /\ q \in Users!Active /\ serving[q] \in UserRequest
        /\ Course(serving[q].op, serving[q].todo)
    BY <1>1, UserWhere DEF UsersSafe
  <1> PICK r \in UserRequest : r = serving[q]
    BY <1>2
  <1>3. r.todo \in {Pro3, Aut2}
    BY <1>1, UserWhere DEF UsersSafe
  <1>4. CASE Users!Exists(r.id)
    <2>1. Users!Learn(q, {users[r.id].text})
      BY <1>4 DEF Users!LoadUser
    <2>2. r.id \in DOMAIN users /\ users[r.id].text \in Users!Text
      BY <1>4, RowsOfUsers DEF Users!Exists, UsersSafe, UserRow
    <2>3. {users[r.id].text} \in Users!Copy
      BY <2>2 DEF Users!Copy
    <2> QED BY <1>1, <1>2, <1>3, <2>1, <2>2, <2>3, UserLearns
  <1>5. CASE ~Users!Exists(r.id)
    <2>1. serving' = [serving EXCEPT ![q] = Users!NoRequest]
      BY <1>5 DEF Users!LoadUser, Users!Stop, Users!GoOn
    <2>2. r.todo \notin {Upd2, Upd3, Upd4}
      BY <1>3, UserApart
    <2>3. mishaps \in 0..MaxMishaps /\ mishaps <= mishaps
      BY AccountsAssumption DEF UsersSafe, UsersTyped
    <2> QED BY <1>1, <1>2, <2>1, <2>2, <2>3, UserLooksOn
  <1> QED BY <1>4, <1>5

\* Redis takes what a reader has got.
LEMMA UserSets ==
  ASSUME UsersSafe, NEW q \in Request, Users!SetKey(q) PROVE UsersKept
  <1> PICK key \in Users!Key :
        /\ Users!At(q, IF key = "user" THEN "setUser" ELSE "setRaw")
        /\ copies' = [copies EXCEPT ![serving[q].id][key] = serving[q].got]
    BY DEF Users!SetKey
  <1>1. Users!Proceed(q) /\ UNCHANGED <<users, kept, crossed, changes, mishaps>>
    BY DEF Users!SetKey, Users!bounds
  <1>2. /\ q \in Users!Active /\ serving[q] \in UserRequest
        /\ Course(serving[q].op, serving[q].todo) /\ OfRow(serving[q])
        /\ Users!At(q, "setUser") \/ Users!At(q, "setRaw")
    BY UserWhere DEF UsersSafe
  <1> PICK r \in UserRequest : r = serving[q]
    BY <1>2
  <1>3. \/ r.op = "profile" /\ r.todo = Pro4
        \/ r.op = "authors" /\ r.todo = Aut3
        \/ r.op = "profile" /\ r.todo = Pro5
    BY <1>2, UserWhere DEF UsersSafe
  <1> PICK j \in Users!Id : j = r.id
    BY DEF UserRequest
  <1> PICK c \in Users!Copy : c = r.got
    BY DEF UserRequest
  <1>4. /\ copies' \in [Users!Id -> [Users!Key -> Users!Copy]] /\ copies'[j][key] = c
        /\ \A i \in Users!Id, k \in Users!Key : <<i, k>> # <<j, key>> => copies'[i][k] = copies[i][k]
    BY DEF UsersSafe, UsersTyped
  <1>5. Tail(r.todo) # Rem2 /\ r.todo \notin {Upd2, Upd3, Upd4}
    <2>1. Tail(r.todo) \in {Pro5, <<>>}
      BY <1>3, UserHeads
    <2> QED BY <1>3, <2>1, UserHeads, UserApart
  <1> PICK x : /\ serving' = [serving EXCEPT ![q] = x]
               /\ \/ x = Users!NoRequest
                  \/ /\ Fit(x) /\ x.op = r.op /\ x.id = r.id /\ x.got = r.got
                     /\ x.op = "register" => q \in Registering
    BY <1>1, <1>2, <1>5, UserProceeds
  <1>6. \A i \in Users!Id, k \in Users!Key : copies'[i][k] # {} => i \in DOMAIN users
    BY <1>2, <1>4 DEF OfRow, UsersSafe, CopiesOfRows
  <1>7. UsersSafe'
    <2>1. /\ crossed' \in BOOLEAN /\ changes' \in 0..MaxChanges /\ mishaps' \in 0..MaxMishaps
          /\ kept' \in [Users!Key -> 0..MaxMishaps] /\ \A k \in Users!Key : kept'[k] <= mishaps'
      BY <1>1 DEF UsersSafe, UsersTyped
    <2> QED BY <1>1, <1>2, <1>4, <1>6, <2>1, UserSafeMoves DEF Users!Active
  <1>8. ASSUME UsersCalm PROVE UsersCalm'
    <2>1. HoldsRight(r) /\ r.op \in Users!Reads
      BY <1>2, <1>3, <1>8 DEF UsersCalm, Users!Reads
    <2>2. \A i \in Users!Id, k \in Users!Key :
            \/ copies'[i][k] = copies[i][k] \/ copies'[i][k] = {}
            \/ Users!Exists(i) => copies'[i][k] = {users[i].text}
      BY <1>4, <2>1 DEF HoldsRight
    <2>3. x = Users!NoRequest \/ HoldsRight(x)
      BY <2>1 DEF HoldsRight
    <2>4. \A i \in Users!Id, k \in Users!Key : ~StillDrops(q, i, k)
      BY <1>5 DEF StillDrops
    <2> QED BY <1>1, <1>2, <1>8, <2>2, <2>3, <2>4, UserCalmMoves DEF UsersSafe
  <1> QED BY <1>7, <1>8 DEF UsersKept

\* A change drops a copy.
LEMMA UserDrops ==
  ASSUME UsersSafe, NEW q \in Request, Users!DropKey(q) PROVE UsersKept
  <1> PICK key \in Users!Key :
        /\ Users!At(q, IF key = "user" THEN "dropUser" ELSE "dropRaw")
        /\ copies' = [copies EXCEPT ![serving[q].id][key] = {}]
    BY DEF Users!DropKey, Users!Missing
  <1>1. Users!Proceed(q) /\ UNCHANGED <<users, kept, crossed, changes, mishaps>>
    BY DEF Users!DropKey, Users!bounds
  <1>2. /\ q \in Users!Active /\ serving[q] \in UserRequest
        /\ Course(serving[q].op, serving[q].todo) /\ OfRow(serving[q])
    BY UserWhere DEF UsersSafe
  <1> PICK r \in UserRequest : r = serving[q]
    BY <1>2
  <1>3. /\ r.op = "update"
        /\ key = "user" => r.todo = Upd2
        /\ key # "user" => r.todo \in {Upd3, Upd4}
    BY <1>2, UserWhere DEF UsersSafe
  <1> PICK j \in Users!Id : j = r.id
    BY DEF UserRequest
  <1>4. /\ copies' \in [Users!Id -> [Users!Key -> Users!Copy]] /\ copies'[j][key] = {}
        /\ \A i \in Users!Id, k \in Users!Key : <<i, k>> # <<j, key>> => copies'[i][k] = copies[i][k]
    BY DEF UsersSafe, UsersTyped, Users!Copy, Users!Missing
  <1>5. Tail(r.todo) # Rem2
    BY <1>3, UserHeads, UserApart
  <1> PICK x : /\ serving' = [serving EXCEPT ![q] = x]
               /\ \/ x = Users!NoRequest
                  \/ /\ Fit(x) /\ x.op = r.op /\ x.id = r.id /\ x.got = r.got
                     /\ x.todo = Tail(r.todo)
                     /\ x.op = "register" => q \in Registering
    BY <1>1, <1>2, <1>5, UserProceeds
  <1>6. \A i \in Users!Id, k \in Users!Key : copies'[i][k] # {} => i \in DOMAIN users
    BY <1>4 DEF UsersSafe, CopiesOfRows
  <1>7. UsersSafe'
    <2>1. /\ crossed' \in BOOLEAN /\ changes' \in 0..MaxChanges /\ mishaps' \in 0..MaxMishaps
          /\ kept' \in [Users!Key -> 0..MaxMishaps] /\ \A k \in Users!Key : kept'[k] <= mishaps'
      BY <1>1 DEF UsersSafe, UsersTyped
    <2> QED BY <1>1, <1>2, <1>4, <1>6, <2>1, UserSafeMoves DEF Users!Active
  <1>8. ASSUME UsersCalm PROVE UsersCalm'
    <2>1. \A i \in Users!Id, k \in Users!Key : copies'[i][k] = copies[i][k] \/ copies'[i][k] = {}
      BY <1>4
    <2>2. x = Users!NoRequest \/ HoldsRight(x)
      BY <1>3 DEF HoldsRight, Users!Reads
    <2>3. ASSUME NEW i \in Users!Id, NEW k \in Users!Key, StillDrops(q, i, k)
          PROVE  copies'[i][k] = {} \/ StillDrops(q, i, k)'
      <3>1. i = j /\ k \in {"user", "raw"} /\ key \in {"user", "raw"}
        BY <2>3 DEF StillDrops, Updating, Users!Key
      <3>2. CASE k = key
        BY <1>4, <3>1, <3>2
      <3>3. CASE k # key
        <4>1. key = "user" /\ k = "raw" /\ r.todo = Upd2
          BY <1>3, <2>3, <3>1, <3>3, UserApart DEF StillDrops
        <4>2. serving' = [serving EXCEPT ![q] = [r EXCEPT !.todo = Upd3]]
          BY <1>1, <4>1, UserHeads DEF Users!Proceed, Users!GoOn, Users!Remaining
        <4>3. /\ serving'[q].op = "update" /\ serving'[q].id = i /\ serving'[q].todo = Upd3
              /\ serving'[q] # Users!NoRequest
          BY <1>3, <3>1, <4>2 DEF UsersSafe, ServingKnown, UserRequest, Users!NoRequest
        <4> QED BY <4>1, <4>3 DEF StillDrops, Updating, Users!Active
      <3> QED BY <3>2, <3>3
    <2> QED BY <1>1, <1>2, <1>8, <2>1, <2>2, <2>3, UserCalmMoves DEF UsersSafe
  <1> QED BY <1>7, <1>8 DEF UsersKept

\* A row goes in; no copy of it and no reader of it is older than it.
LEMMA UserCreates ==
  ASSUME UsersSafe, NEW q \in Request, Users!CreateUser(q) PROVE UsersKept
  <1>1. /\ Users!At(q, "create") /\ serving' = [serving EXCEPT ![q] = Users!NoRequest]
        /\ UNCHANGED <<copies, kept, crossed, changes, mishaps>>
    BY DEF Users!CreateUser, Users!bounds, Users!Stop, Users!GoOn
  <1>2. q \in Users!Active /\ serving[q] \in UserRequest
        /\ serving[q].op = "register" /\ serving[q].todo = Reg2
    BY <1>1, UserWhere DEF UsersSafe
  <1> PICK r \in UserRequest : r = serving[q]
    BY <1>2
  <1>3. CASE Users!NameTaken(r.name)
    <2>1. users' = users /\ r.todo \notin {Upd2, Upd3, Upd4}
      BY <1>2, <1>3, UserApart DEF Users!CreateUser
    <2>2. mishaps \in 0..MaxMishaps /\ mishaps <= mishaps
      BY AccountsAssumption DEF UsersSafe, UsersTyped
    <2> QED BY <1>1, <1>2, <2>1, <2>2, UserLooksOn
  <1>4. CASE ~Users!NameTaken(r.name)
    <2> DEFINE new == [name |-> r.name, text |-> 0, gone |-> FALSE]
    <2>1. users' = Append(users, new) /\ new \in UserRow /\ new.name = r.name
      BY <1>4, AccountsAssumption DEF Users!CreateUser, UserRow, UserRequest, Users!Text
    <2> HIDE DEF new
    <2> PICK n \in Nat : n = Len(users)
      BY RowsOfUsers DEF UsersSafe
    <2>2. users \in Seq(UserRow) /\ DOMAIN users = 1..n
      BY RowsOfUsers DEF UsersSafe, UsersTyped
    <2>3. /\ users' \in Seq(UserRow) /\ DOMAIN users' = 1..(n + 1) /\ Len(users') = n + 1
          /\ users'[n + 1] = new /\ \A i \in 1..n : users'[i] = users[i]
      BY <2>1, <2>2
    <2>4. DOMAIN users \subseteq DOMAIN users' /\ n + 1 \notin DOMAIN users
          /\ DOMAIN users' = DOMAIN users \cup {n + 1}
          /\ \A i \in DOMAIN users : users'[i] = users[i]
      BY <2>2, <2>3
    <2>5. ServingKnown'
      BY <1>1, <2>4, UserMoves DEF UsersSafe
    <2>6. Len(users') + Cardinality(Registering') <= MaxAccounts
      <3>1. q \in Registering
        BY <1>2 DEF Registering
      <3>2. Cardinality(Registering) \in Nat /\ Cardinality(Registering') = Cardinality(Registering) - 1
        BY <1>1, <3>1, UserCount DEF UsersSafe
      <3> QED BY <2>3, <3>2, AccountsAssumption DEF UsersSafe, UsersTyped
    <2>7. Users!NamesUnique'
      <3> SUFFICES ASSUME NEW i \in DOMAIN users', NEW j \in DOMAIN users', Users!Exists(i)',
                          Users!Exists(j)', users'[i].name = users'[j].name
                   PROVE  i = j
        BY DEF Users!NamesUnique
      <3>1. \A m \in DOMAIN users : Users!Exists(m)' => Users!Exists(m) /\ users[m].name # r.name
        BY <1>4, <2>4 DEF Users!NameTaken, Users!Exists
      <3> QED BY <2>1, <2>3, <2>4, <3>1 DEF UsersSafe, Users!NamesUnique
    <2>8. CopiesOfRows'
      BY <1>1, <2>4 DEF UsersSafe, CopiesOfRows, Users!Id, Users!Key
    <2>9. UsersTyped'
      BY <1>1, <2>3, <2>6 DEF UsersSafe, UsersTyped, Users!Id, Users!Key, Users!Copy, Users!Text,
                              Users!Missing, UserRow
    <2>10. \A i \in DOMAIN users : Users!Exists(i)' <=> Users!Exists(i)
      BY <2>4 DEF Users!Exists
    <2>11. ASSUME UsersCalm PROVE UsersCalm'
      <3>1. \A s \in Request : s # q => serving'[s] = serving[s]
        BY <1>1 DEF UsersSafe, ServingKnown
      <3>2. serving'[q] = Users!NoRequest
        BY <1>1 DEF UsersSafe, ServingKnown
      <3>3. UsersApart'
        <4>1. \A s \in Request, i \in Users!Id :
                (Reading(s, i)' => Reading(s, i)) /\ (Updating(s, i)' => Updating(s, i))
          BY <3>1, <3>2 DEF Reading, Updating, Users!Active
        <4> QED BY <2>11, <4>1 DEF UsersCalm, UsersApart, Users!Id
      <3>4. ASSUME NEW i \in Users!Id, NEW k \in Users!Key, Outdated(i, k)'
            PROVE  \E s \in Request : StillDrops(s, i, k)'
        <4>1. i \in DOMAIN users
          BY <1>1, <3>4 DEF Outdated, UsersSafe, CopiesOfRows
        <4>2. Outdated(i, k)
          BY <1>1, <2>4, <3>4, <4>1 DEF Outdated, Users!Exists
        <4>3. PICK s \in Request : StillDrops(s, i, k)
          BY <2>11, <4>2 DEF UsersCalm, OldOnesGo
        <4>4. s # q
          BY <1>2, <4>3, UserHeads, UserApart DEF StillDrops
        <4>5. StillDrops(s, i, k)'
          BY <1>1, <4>3, <4>4, StepDrops DEF UsersSafe
        <4> QED BY <4>5
      <3>5. ASSUME NEW s \in Request, serving'[s] # Users!NoRequest
            PROVE  (HoldsRight(serving[s]))'
        <4>1. s # q /\ serving'[s] = serving[s] /\ s \in Users!Active
          BY <3>1, <3>2, <3>5 DEF Users!Active
        <4>2. HoldsRight(serving[s]) /\ OfRow(serving[s])
          BY <2>11, <4>1 DEF UsersCalm, UsersSafe, ServingKnown
        <4> QED BY <2>4, <4>1, <4>2 DEF HoldsRight, OfRow, Users!Exists
      <3> QED BY <3>3, <3>4, <3>5 DEF UsersCalm, OldOnesGo, Users!Active, Users!Id, Users!Key
    <2> QED BY <2>5, <2>7, <2>8, <2>9, <2>11 DEF UsersSafe, UsersKept
  <1> QED BY <1>3, <1>4

\* Row j changes; q goes on with x.
LEMMA RowSafe ==
  ASSUME UsersSafe, NEW q \in Users!Active, NEW x, serving' = [serving EXCEPT ![q] = x],
         NEW j \in DOMAIN users, NEW new \in UserRow, new.name = users[j].name,
         users[j].gone => new.gone,
         users' = [users EXCEPT ![j] = new],
         UNCHANGED <<copies, kept, crossed, changes, mishaps>>,
         x = Users!NoRequest \/ Fit(x),
         x = Users!NoRequest \/ x.op # "register"
  PROVE  UsersSafe'
  <1> PICK n \in Nat : n = Len(users)
    BY RowsOfUsers DEF UsersSafe
  <1>1. users \in Seq(UserRow) /\ DOMAIN users = 1..n
    BY RowsOfUsers DEF UsersSafe, UsersTyped
  <1>2. /\ users' \in Seq(UserRow) /\ Len(users') = Len(users) /\ DOMAIN users' = DOMAIN users
        /\ users'[j] = new /\ \A i \in DOMAIN users : i # j => users'[i] = users[i]
    BY <1>1
  <1>3. ServingKnown'
    BY <1>2, UserMoves DEF UsersSafe, Users!Active
  <1>4. Len(users') + Cardinality(Registering') <= MaxAccounts
    <2>1. /\ Cardinality(Registering) \in Nat /\ Cardinality(Registering') \in Nat
          /\ Cardinality(Registering') <= Cardinality(Registering)
      BY UserCount DEF UsersSafe, Users!Active
    <2> QED BY <1>1, <1>2, <2>1, AccountsAssumption DEF UsersSafe, UsersTyped
  <1>5. Users!NamesUnique'
    <2>1. \A m \in DOMAIN users : Users!Exists(m)' => Users!Exists(m)
      BY <1>2 DEF Users!Exists
    <2>2. \A m \in DOMAIN users : users'[m].name = users[m].name
      BY <1>2
    <2> QED BY <1>2, <2>1, <2>2 DEF UsersSafe, Users!NamesUnique
  <1>6. CopiesOfRows'
    BY <1>2 DEF UsersSafe, CopiesOfRows, Users!Id, Users!Key
  <1>7. UsersTyped'
    BY <1>2, <1>4 DEF UsersSafe, UsersTyped, Users!Id, Users!Key, Users!Copy, Users!Text,
                      Users!Missing, UserRow
  <1> QED BY <1>3, <1>5, <1>6, <1>7 DEF UsersSafe

\* The row of a user whom nobody looks at meanwhile.
LEMMA UserWrites ==
  ASSUME UsersSafe, NEW q \in Request, Users!WriteRow(q) PROVE UsersKept
  <1>1. /\ Users!At(q, "writeRow")
        /\ UNCHANGED <<copies, kept, crossed, changes, mishaps>>
    BY DEF Users!WriteRow, Users!bounds
  <1>2. /\ q \in Users!Active /\ serving[q] \in UserRequest /\ OfRow(serving[q])
        /\ serving[q].op = "update" /\ serving[q].todo = Upd1
    BY <1>1, UserWhere DEF UsersSafe
  <1> PICK r \in UserRequest : r = serving[q]
    BY <1>2
  <1> PICK j \in Users!Id : j = r.id
    BY DEF UserRequest
  <1>3. CASE ~Users!Exists(j)
    <2>1. users' = users /\ serving' = [serving EXCEPT ![q] = Users!NoRequest]
      BY <1>3 DEF Users!WriteRow, Users!Stop, Users!GoOn
    <2>2. r.todo \notin {Upd2, Upd3, Upd4}
      BY <1>2, UserApart
    <2>3. mishaps \in 0..MaxMishaps /\ mishaps <= mishaps
      BY AccountsAssumption DEF UsersSafe, UsersTyped
    <2> QED BY <1>1, <1>2, <2>1, <2>2, <2>3, UserLooksOn
  <1>4. CASE Users!Exists(j)
    <2> PICK old \in UserRow : old = users[j]
      BY <1>4, RowsOfUsers DEF UsersSafe, Users!Exists
    <2> DEFINE new == [old EXCEPT !.text = r.to]
               x == [r EXCEPT !.todo = Upd2]
    <2>1. users' = [users EXCEPT ![j] = new]
      BY <1>4 DEF Users!WriteRow
    <2>2. serving' = [serving EXCEPT ![q] = x]
      BY <1>2, <1>4, UserHeads DEF Users!WriteRow, Users!Proceed, Users!GoOn, Users!Remaining
    <2>3. new \in UserRow /\ new.name = old.name /\ new.gone = old.gone
      BY DEF UserRow, UserRequest
    <2>4. Fit(x) /\ x.op = "update" /\ x.id = j /\ x.todo = Upd2 /\ x # Users!NoRequest
      BY <1>2, UserApart, NobodyServed DEF Fit, UserRequest, UserTodo, Course, OfRow
    <2>5. j \in DOMAIN users
      BY <1>4 DEF Users!Exists
    <2> HIDE DEF new, x
    <2>6. UsersSafe'
      BY <1>1, <1>2, <2>1, <2>2, <2>3, <2>4, <2>5, RowSafe
    <2>7. ASSUME UsersCalm PROVE UsersCalm'
      <3>1. /\ \A s \in Request : s # q => serving'[s] = serving[s]
            /\ serving'[q] = x
        BY <2>2 DEF UsersSafe, ServingKnown
      <3>2. /\ DOMAIN users' = DOMAIN users /\ users'[j] = new
            /\ \A i \in DOMAIN users : i # j => users'[i] = users[i]
        BY <2>1, <2>5
      <3>3. UsersApart'
        <4>1. \A s \in Request, i \in Users!Id :
                (Reading(s, i)' => Reading(s, i)) /\ (Updating(s, i)' => Updating(s, i))
          BY <1>2, <2>4, <3>1 DEF Reading, Updating, Users!Active, Users!Reads
        <4> QED BY <2>7, <4>1 DEF UsersCalm, UsersApart, Users!Id
      <3>4. ASSUME NEW i \in Users!Id, NEW k \in Users!Key, Outdated(i, k)'
            PROVE  \E s \in Request : StillDrops(s, i, k)'
        <4>1. CASE i = j
          <5>1. StillDrops(q, i, k)'
            BY <2>4, <3>1, <4>1 DEF StillDrops, Updating, Users!Active
          <5> QED BY <5>1
        <4>2. CASE i # j
          <5>1. Outdated(i, k)
            BY <1>1, <3>2, <3>4, <4>2 DEF Outdated, Users!Exists
          <5>2. PICK s \in Request : StillDrops(s, i, k)
            BY <2>7, <5>1 DEF UsersCalm, OldOnesGo
          <5>3. s # q
            BY <4>2, <5>2 DEF StillDrops, Updating
          <5>4. StillDrops(s, i, k)'
            BY <1>1, <2>2, <5>2, <5>3, StepDrops DEF UsersSafe
          <5> QED BY <5>4
        <4> QED BY <4>1, <4>2
      <3>5. ASSUME NEW s \in Request, serving'[s] # Users!NoRequest
            PROVE  (HoldsRight(serving[s]))'
        <4>1. CASE s = q
          BY <2>4, <3>1, <4>1 DEF HoldsRight, Users!Reads
        <4>2. CASE s # q
          <5>1. s \in Users!Active /\ serving'[s] = serving[s] /\ HoldsRight(serving[s])
            BY <2>7, <3>1, <3>5, <4>2 DEF UsersCalm, Users!Active
          <5>2. ~(serving[s].op \in Users!Reads /\ serving[s].id = j)
            BY <1>2, <2>7, <5>1 DEF UsersCalm, UsersApart, Reading, Updating, Users!Active
          <5> QED BY <3>2, <5>1, <5>2 DEF HoldsRight, Users!Exists, Users!Reads
        <4> QED BY <4>1, <4>2
      <3> QED BY <3>3, <3>4, <3>5 DEF UsersCalm, OldOnesGo, Users!Active, Users!Id, Users!Key
    <2> QED BY <2>6, <2>7 DEF UsersKept
  <1> QED BY <1>3, <1>4

\* The copies of a user who is gone stay.
LEMMA UserDeletes ==
  ASSUME UsersSafe, NEW q \in Request, Users!DeleteUser(q) PROVE UsersKept
  <1>1. /\ Users!At(q, "delete") /\ serving' = [serving EXCEPT ![q] = Users!NoRequest]
        /\ UNCHANGED <<copies, kept, crossed, changes, mishaps>>
    BY DEF Users!DeleteUser, Users!bounds, Users!Stop, Users!GoOn
  <1>2. /\ q \in Users!Active /\ serving[q] \in UserRequest /\ OfRow(serving[q])
        /\ serving[q].op = "remove" /\ serving[q].todo = Rem2
    BY <1>1, UserWhere DEF UsersSafe
  <1> PICK r \in UserRequest : r = serving[q]
    BY <1>2
  <1> PICK j \in DOMAIN users : j = r.id
    BY <1>2 DEF OfRow
  <1> PICK old \in UserRow : old = users[j]
    BY RowsOfUsers DEF UsersSafe
  <1> DEFINE new == [old EXCEPT !.gone = TRUE]
  <1>3. users' = [users EXCEPT ![j] = new]
    BY DEF Users!DeleteUser
  <1>4. new \in UserRow /\ new.name = old.name /\ new.gone = TRUE
    BY DEF UserRow
  <1> HIDE DEF new
  <1>5. UsersSafe'
    BY <1>1, <1>2, <1>3, <1>4, RowSafe
  <1>6. ASSUME UsersCalm PROVE UsersCalm'
    <2>1. /\ \A s \in Request : s # q => serving'[s] = serving[s]
          /\ serving'[q] = Users!NoRequest
      BY <1>1 DEF UsersSafe, ServingKnown
    <2>2. /\ DOMAIN users' = DOMAIN users
          /\ \A i \in DOMAIN users : Users!Exists(i)' => i # j /\ users'[i] = users[i]
      BY <1>3, <1>4 DEF Users!Exists
    <2>3. UsersApart'
      <3>1. \A s \in Request, i \in Users!Id :
              (Reading(s, i)' => Reading(s, i)) /\ (Updating(s, i)' => Updating(s, i))
        BY <2>1 DEF Reading, Updating, Users!Active
      <3> QED BY <1>6, <3>1 DEF UsersCalm, UsersApart, Users!Id
    <2>4. ASSUME NEW i \in Users!Id, NEW k \in Users!Key, Outdated(i, k)'
          PROVE  \E s \in Request : StillDrops(s, i, k)'
      <3>1. Outdated(i, k)
        BY <1>1, <2>2, <2>4 DEF Outdated, Users!Exists
      <3>2. PICK s \in Request : StillDrops(s, i, k)
        BY <1>6, <3>1 DEF UsersCalm, OldOnesGo
      <3>3. s # q
        BY <1>2, <3>2 DEF StillDrops, Updating
      <3>4. StillDrops(s, i, k)'
        BY <1>1, <3>2, <3>3, StepDrops DEF UsersSafe
      <3> QED BY <3>4
    <2>5. ASSUME NEW s \in Request, serving'[s] # Users!NoRequest
          PROVE  (HoldsRight(serving[s]))'
      <3>1. serving'[s] = serving[s] /\ HoldsRight(serving[s])
        BY <1>6, <2>1, <2>5 DEF UsersCalm, Users!Active
      <3> QED BY <2>2, <3>1 DEF HoldsRight, Users!Exists
    <2> QED BY <2>3, <2>4, <2>5 DEF UsersCalm, OldOnesGo, Users!Active, Users!Id, Users!Key
  <1> QED BY <1>5, <1>6 DEF UsersKept

LEMMA UserExpires ==
  ASSUME UsersSafe, NEW i \in Users!Id, NEW k \in Users!Key, Users!Expire(i, k)
  PROVE  UsersKept
  <1>1. /\ copies' = [copies EXCEPT ![i][k] = {}]
        /\ UNCHANGED <<users, serving, kept, crossed, changes, mishaps>>
    BY DEF Users!Expire, Users!bounds, Users!Missing
  <1>2. /\ copies' \in [Users!Id -> [Users!Key -> Users!Copy]]
        /\ \A j \in Users!Id, l \in Users!Key : copies'[j][l] = copies[j][l] \/ copies'[j][l] = {}
    BY <1>1 DEF UsersSafe, UsersTyped, Users!Copy, Users!Missing
  <1>3. UsersSafe'
    <2>1. CopiesOfRows'
      BY <1>1, <1>2 DEF UsersSafe, CopiesOfRows, Users!Id, Users!Key
    <2>2. Users!NamesUnique' /\ ServingKnown'
      BY <1>1 DEF UsersSafe, Users!NamesUnique, Users!Exists, ServingKnown, Users!Active, OfRow, Course
    <2>3. UsersTyped'
      BY <1>1, <1>2 DEF UsersSafe, UsersTyped, Registering, Users!Active, Users!Id, Users!Key,
                        Users!Copy, Users!Text, Users!Missing, UserRow
    <2> QED BY <2>1, <2>2, <2>3 DEF UsersSafe
  <1>4. ASSUME UsersCalm PROVE UsersCalm'
    <2>1. UsersApart' /\ \A q \in Users!Active' : (HoldsRight(serving[q]))'
      BY <1>1, <1>4 DEF UsersCalm, UsersApart, Reading, Updating, HoldsRight, Users!Exists,
                        Users!Active, Users!Id
    <2>2. ASSUME NEW j \in Users!Id, NEW l \in Users!Key, Outdated(j, l)'
          PROVE  \E s \in Request : StillDrops(s, j, l)'
      <3>1. Outdated(j, l)
        BY <1>1, <1>2, <2>2 DEF Outdated, Users!Exists
      <3>2. PICK s \in Request : StillDrops(s, j, l)
        BY <1>4, <3>1 DEF UsersCalm, OldOnesGo
      <3>3. StillDrops(s, j, l)'
        BY <1>1, <3>2 DEF StillDrops, Updating, Users!Active
      <3> QED BY <3>3
    <2> QED BY <2>1, <2>2 DEF UsersCalm, OldOnesGo, Users!Id, Users!Key
  <1> QED BY <1>3, <1>4 DEF UsersKept

\* A request begins; unless it crosses another, nobody is looked at by one and
\* changed by the other.
LEMMA UserBegins ==
  ASSUME UsersSafe, NEW q \in Request, NEW op \in UserOp, NEW n \in Name, NEW i \in Users!Id,
         Users!Start(q, op, n, i)
  PROVE  UsersKept
  <1>1. UsersSafe'
    BY UserStarts
  <1>2. ASSUME UsersCalm, ~crossed' PROVE UsersCalm'
    <2>1. UNCHANGED <<users, copies, kept, mishaps>> /\ serving[q] = Users!NoRequest
      BY DEF Users!Start
    <2>2. /\ \A s \in Request : s # q => serving'[s] = serving[s]
          /\ serving'[q].op = op /\ serving'[q].id = i /\ serving'[q].got = {}
      BY DEF Users!Start, UsersSafe, ServingKnown, Users!Missing
    <2>3. UsersApart'
      <3> SUFFICES ASSUME NEW p \in Request, NEW s \in Request, NEW j \in Users!Id,
                          Reading(p, j)', Updating(s, j)'
                   PROVE  FALSE
        BY DEF UsersApart, Users!Id
      <3>1. p # s
        BY DEF Reading, Updating, Users!Reads
      <3>2. CASE p # q /\ s # q
        <4>1. Reading(p, j) /\ Updating(s, j)
          BY <2>2, <3>2 DEF Reading, Updating, Users!Active
        <4> QED BY <1>2, <4>1 DEF UsersCalm, UsersApart
      <3>3. CASE p = q
        <4>1. op \in Users!Reads /\ i = j
          BY <2>2, <3>3 DEF Reading, Users!Reads
        <4>2. s \in Users!Active /\ serving[s].op = "update" /\ serving[s].id = i
          BY <2>2, <3>1, <3>3, <4>1 DEF Updating, Users!Active
        <4> QED BY <1>2, <4>1, <4>2 DEF Users!Start
      <3>4. CASE s = q
        <4>1. op = "update" /\ i = j
          BY <2>2, <3>4 DEF Updating
        <4>2. p \in Users!Active /\ serving[p].op \in Users!Reads /\ serving[p].id = i
          BY <2>2, <3>1, <3>4, <4>1 DEF Reading, Users!Active, Users!Reads
        <4> QED BY <1>2, <4>1, <4>2 DEF Users!Start
      <3> QED BY <3>2, <3>3, <3>4
    <2>4. ASSUME NEW j \in Users!Id, NEW k \in Users!Key, Outdated(j, k)'
          PROVE  \E s \in Request : StillDrops(s, j, k)'
      <3>1. Outdated(j, k)
        BY <2>1, <2>4 DEF Outdated, Users!Exists
      <3>2. PICK s \in Request : StillDrops(s, j, k)
        BY <1>2, <3>1 DEF UsersCalm, OldOnesGo
      <3>3. s # q
        BY <2>1, <3>2 DEF StillDrops, Updating, Users!Active
      <3>4. StillDrops(s, j, k)'
        BY <2>1, <2>2, <3>2, <3>3 DEF StillDrops, Updating, Users!Active
      <3> QED BY <3>4
    <2>5. ASSUME NEW s \in Request, serving'[s] # Users!NoRequest
          PROVE  (HoldsRight(serving[s]))'
      <3>1. CASE s = q
        BY <2>2, <3>1 DEF HoldsRight
      <3>2. CASE s # q
        <4>1. serving'[s] = serving[s] /\ HoldsRight(serving[s])
          BY <1>2, <2>2, <2>5, <3>2 DEF UsersCalm, Users!Active
        <4> QED BY <2>1, <4>1 DEF HoldsRight, Users!Exists, Users!Reads
      <3> QED BY <3>1, <3>2
    <2> QED BY <2>3, <2>4, <2>5 DEF UsersCalm, OldOnesGo, Users!Active, Users!Id, Users!Key
  <1> QED BY <1>1, <1>2 DEF UsersKept, UsersQuiet

\* A call fails: DELs that fail are counted, and the raw copy has a second
\* chance.
LEMMA UserFails ==
  ASSUME UsersSafe, NEW q \in Request, Users!Fail(q) PROVE UsersKept
  <1>1. /\ q \in Users!Active /\ serving[q] \in UserRequest
        /\ Course(serving[q].op, serving[q].todo) /\ OfRow(serving[q])
    BY DEF Users!Fail, UsersSafe, ServingKnown, Users!Active
  <1> PICK r \in UserRequest : r = serving[q]
    BY <1>1
  <1>2. /\ UNCHANGED <<users, copies, crossed, changes>>
        /\ mishaps' \in 0..MaxMishaps /\ mishaps' = mishaps + 1 /\ mishaps \in Nat
        /\ mishaps <= mishaps'
    BY AccountsAssumption DEF Users!Fail, UsersSafe, UsersTyped
  <1>3. \A k \in Users!Key : /\ kept[k] \in Nat /\ kept[k] <= mishaps
                             /\ kept'[k] = kept[k] \/ kept'[k] = kept[k] + 1
    BY DEF Users!Fail, UsersSafe, UsersTyped
  <1>4. /\ kept' \in [Users!Key -> 0..MaxMishaps]
        /\ \A k \in Users!Key : kept'[k] <= mishaps'
    <2>1. kept' = [k \in Users!Key |-> kept'[k]]
      BY DEF Users!Fail
    <2>2. \A k \in Users!Key : kept'[k] \in 0..MaxMishaps /\ kept'[k] <= mishaps'
      BY <1>2, <1>3, AccountsAssumption
    <2> QED BY <2>1, <2>2
  <1>5. CASE Users!At(q, "getUser")
    <2>1. ~Users!At(q, "dropUser") /\ ~Users!At(q, "dropRaw")
      BY <1>5 DEF Users!At
    <2>2. kept' = kept
      BY <2>1 DEF Users!Fail, UsersSafe, UsersTyped
    <2>3. Users!GoOn(q, <<"loadUser", "setUser">> \o Users!Remaining(q))
      BY <1>5 DEF Users!Fail
    <2> QED BY <1>2, <1>5, <2>2, <2>3, UserMisses
  <1>6. CASE ~Users!At(q, "getUser")
    <2>1. \/ Users!Stop(q)
          \/ Users!Proceed(q) /\ ~Users!At(q, "select")
      BY <1>6 DEF Users!Fail
    <2>2. Tail(r.todo) = Rem2 => Users!At(q, "select")
      <3>1. Tail(r.todo) = Rem2 => r.todo = Rem1
        BY <1>1, UserHeads, UserApart, ZenonT(40) DEF Course
      <3> QED BY <1>1, <3>1, UserHeads DEF Users!At
    <2> PICK x : /\ serving' = [serving EXCEPT ![q] = x]
                 /\ \/ x = Users!NoRequest
                    \/ /\ Fit(x) /\ x.op = r.op /\ x.id = r.id /\ x.got = r.got
                       /\ x.todo = Tail(r.todo)
                       /\ x.op = "register" => q \in Registering
      BY <1>1, <2>1, <2>2, UserProceeds
    <2>3. UsersCalm => x = Users!NoRequest \/ HoldsRight(x)
      BY <1>1 DEF UsersCalm, HoldsRight
    <2>4. UsersSafe'
      <3>1. \A i \in Users!Id, k \in Users!Key : copies'[i][k] # {} => i \in DOMAIN users
        BY <1>2 DEF UsersSafe, CopiesOfRows
      <3>2. crossed' \in BOOLEAN /\ changes' \in 0..MaxChanges
            /\ copies' \in [Users!Id -> [Users!Key -> Users!Copy]]
        BY <1>2 DEF UsersSafe, UsersTyped
      <3> QED BY <1>1, <1>2, <1>4, <3>1, <3>2, UserSafeMoves DEF Users!Active
    <2>5. ASSUME UsersCalm, UsersQuiet' PROVE UsersCalm'
      <3>1. "raw" \in Users!Key /\ "user" \in Users!Key
        BY DEF Users!Key
      <3>2. kept["raw"] = 1 => kept'["raw"] = 1
        BY <1>3, <2>5, <3>1 DEF UsersQuiet
      <3>3. ASSUME NEW i \in Users!Id, NEW k \in Users!Key, StillDrops(q, i, k)
            PROVE  StillDrops(q, i, k)'
        <4>1. r.op = "update" /\ r.id = i
          BY <3>3 DEF StillDrops, Updating
        <4>2. ~Users!At(q, "dropUser")
          <5>1. Users!At(q, "dropUser") => kept'["user"] = kept["user"] + 1
            BY <3>1 DEF Users!Fail
          <5> QED BY <1>3, <2>5, <3>1, <5>1 DEF UsersQuiet
        <4>3. k = "raw" /\ r.todo \in {Upd3, Upd4} /\ Users!At(q, "dropRaw")
              /\ (r.todo = Upd4 => kept["raw"] = 1)
          BY <1>1, <3>3, <4>2, UserHeads, UserApart DEF StillDrops, Users!At
        <4>4. kept'["raw"] = kept["raw"] + 1
          BY <3>1, <4>3 DEF Users!Fail
        <4>5. kept["raw"] = 0 /\ kept'["raw"] = 1
          BY <1>3, <2>5, <3>1, <4>4 DEF UsersQuiet
        <4>6. r.todo = Upd3
          BY <4>3, <4>5
        <4>7. Users!Proceed(q)
          BY <1>6, <4>3 DEF Users!Fail, Users!At
        <4>8. serving' = [serving EXCEPT ![q] = [r EXCEPT !.todo = Upd4]]
          BY <4>6, <4>7, UserHeads DEF Users!Proceed, Users!GoOn, Users!Remaining
        <4>9. /\ serving'[q].op = "update" /\ serving'[q].id = i /\ serving'[q].todo = Upd4
              /\ serving'[q] # Users!NoRequest
          BY <1>1, <4>1, <4>8 DEF UsersSafe, ServingKnown, UserRequest, Users!NoRequest, Users!Active
        <4> QED BY <1>1, <4>3, <4>5, <4>9 DEF StillDrops, Updating, Users!Active
      <3>4. /\ \A i \in Users!Id, k \in Users!Key : copies'[i][k] = copies[i][k]
            /\ \/ x = Users!NoRequest
               \/ x.op = serving[q].op /\ x.id = serving[q].id /\ HoldsRight(x)
        BY <1>2, <2>3, <2>5
      <3> QED BY <1>1, <1>2, <2>5, <3>2, <3>3, <3>4, UserCalmMoves
    <2> QED BY <2>4, <2>5 DEF UsersKept
  <1> QED BY <1>5, <1>6

LEMMA UserQuietly == ASSUME UsersQuiet', [Users!Next]_(Users!vars), UsersSafe PROVE UsersQuiet
  <1>1. crossed => crossed'
    BY DEF Users!Next, Users!Step, Users!vars, Users!bounds, Users!Start, Users!Find,
           Users!CreateUser, Users!GetRaw, Users!GetUser, Users!LoadUser, Users!SetKey,
           Users!WriteRow, Users!DropKey, Users!SelectUser, Users!DeleteUser, Users!Fail,
           Users!Expire
  <1>2. kept' = kept \/ \E q \in Request : Users!Fail(q)
    BY DEF Users!Next, Users!Step, Users!vars, Users!bounds, Users!Start, Users!Find,
           Users!CreateUser, Users!GetRaw, Users!GetUser, Users!LoadUser, Users!SetKey,
           Users!WriteRow, Users!DropKey, Users!SelectUser, Users!DeleteUser, Users!Expire
  <1>3. \A k \in Users!Key : kept[k] \in Nat
    BY AccountsAssumption DEF UsersSafe, UsersTyped
  <1>4. \A k \in Users!Key : kept'[k] = kept[k] \/ kept'[k] = kept[k] + 1
    BY <1>2 DEF Users!Fail
  <1> QED BY <1>1, <1>3, <1>4 DEF UsersQuiet, Users!Key

LEMMA UsersStep ==
  ASSUME UsersSafe, UsersQuiet => UsersCalm, [Users!Next]_(Users!vars)
  PROVE  UsersSafe' /\ (UsersQuiet' => UsersCalm')
  <1>1. CASE UNCHANGED Users!vars
    <2>1. /\ UNCHANGED <<users, copies, serving, kept, crossed, changes, mishaps>>
      BY <1>1 DEF Users!vars, Users!bounds
    <2>2. UsersSafe'
      BY <2>1 DEF UsersSafe, UsersTyped, ServingKnown, CopiesOfRows, Users!NamesUnique, Users!Exists,
                  Registering, Users!Active, OfRow, Course, Users!Id, Users!Key, Users!Copy,
                  Users!Text, Users!Missing, UserRow
    <2>3. UsersQuiet' = UsersQuiet /\ (UsersCalm => UsersCalm')
      BY <2>1 DEF UsersQuiet, UsersCalm, UsersApart, OldOnesGo, Outdated, StillDrops, Reading,
                  Updating, HoldsRight, Users!Exists, Users!Active, Users!Id, Users!Key
    <2> QED BY <2>2, <2>3
  <1>2. CASE Users!Next
    <2>1. UsersKept
      <3>1. CASE \E q \in Request, op \in Users!Op, n \in Name, i \in Users!Id : Users!Start(q, op, n, i)
        BY <3>1, UserBegins, UserCalls
      <3>2. CASE \E q \in Request : Users!Fail(q)
        BY <3>2, UserFails
      <3>3. CASE \E q \in Request : Users!Step(q)
        <4> PICK q \in Request : Users!Step(q)
          BY <3>3
        <4>1. CASE Users!Find(q) \/ Users!GetRaw(q) \/ Users!SelectUser(q)
          BY <4>1, UserLooks
        <4>2. CASE Users!GetUser(q) \/ Users!LoadUser(q)
          BY <4>2, UserGets, UserLoadsRow
        <4>3. CASE Users!SetKey(q) \/ Users!DropKey(q)
          BY <4>3, UserSets, UserDrops
        <4>4. CASE Users!CreateUser(q) \/ Users!WriteRow(q) \/ Users!DeleteUser(q)
          BY <4>4, UserCreates, UserWrites, UserDeletes
        <4> QED BY <4>1, <4>2, <4>3, <4>4 DEF Users!Step
      <3>4. CASE \E i \in Users!Id, k \in Users!Key : Users!Expire(i, k)
        BY <3>4, UserExpires
      <3> QED BY <1>2, <3>1, <3>2, <3>3, <3>4 DEF Users!Next
    <2> QED BY <1>2, <2>1, UserQuietly DEF UsersKept
  <1> QED BY <1>1, <1>2

LEMMA UsersStart == Users!Init => UsersSafe /\ UsersCalm
  <1> SUFFICES ASSUME Users!Init PROVE UsersSafe /\ UsersCalm
    OBVIOUS
  <1>1. Users!Active = {} /\ Registering = {}
    BY DEF Users!Init, Users!Active, Registering
  <1>2. users = <<>> /\ Len(users) = 0 /\ DOMAIN users = {} /\ users \in Seq(UserRow)
    BY DEF Users!Init
  <1>3. Cardinality(Registering) = 0
    BY <1>1, FS_EmptySet
  <1>4. UsersTyped
    <2>1. copies \in [Users!Id -> [Users!Key -> Users!Copy]]
      BY DEF Users!Init, Users!Copy, Users!Missing
    <2>2. /\ kept \in [Users!Key -> 0..MaxMishaps] /\ \A k \in Users!Key : kept[k] <= mishaps
          /\ crossed \in BOOLEAN /\ changes \in 0..MaxChanges /\ mishaps \in 0..MaxMishaps
      <3>1. \A n \in Nat : 0 \in 0..n
        OBVIOUS
      <3>2. 0 \in 0..MaxMishaps /\ 0 \in 0..MaxChanges /\ 0 <= 0
        BY <3>1, AccountsAssumption
      <3>3. /\ kept = [k \in Users!Key |-> 0] /\ crossed = FALSE /\ changes = 0 /\ mishaps = 0
        BY DEF Users!Init
      <3>4. \A k \in Users!Key : kept[k] = 0
        BY <3>3
      <3>5. kept \in [Users!Key -> 0..MaxMishaps]
        BY <3>2, <3>3
      <3> QED BY <3>2, <3>3, <3>4, <3>5
    <2>3. Len(users) + Cardinality(Registering) <= MaxAccounts
      BY <1>2, <1>3, AccountsAssumption
    <2> QED BY <1>2, <2>1, <2>2, <2>3 DEF UsersTyped
  <1>5. ServingKnown /\ CopiesOfRows /\ Users!NamesUnique
    BY <1>1, <1>2 DEF Users!Init, ServingKnown, CopiesOfRows, Users!NamesUnique, Users!Missing
  <1>6. UsersCalm
    BY <1>1, <1>2 DEF UsersCalm, UsersApart, OldOnesGo, Outdated, Users!Exists, Reading
  <1> QED BY <1>4, <1>5, <1>6 DEF UsersSafe

\* What the invariant says of the requests is what TypeOK asks of them.
LEMMA UsersTypes == UsersSafe => Users!TypeOK
  <1> SUFFICES ASSUME UsersSafe PROVE Users!TypeOK
    OBVIOUS
  <1> DEFINE W == {"find", "create", "getRaw", "getUser", "setRaw", "writeRow", "dropUser",
                   "dropRaw", "select", "delete", "loadUser", "setUser"}
  <1>1. W \subseteq Users!Call
    <2>1. /\ Users!ToSet(Reg1) = {"find", "create"}
          /\ Users!ToSet(Pro1) = {"getRaw", "getUser", "setRaw"}
          /\ Users!ToSet(Upd1) = {"writeRow", "dropUser", "dropRaw"}
          /\ Users!ToSet(Rem1) = {"select", "delete"}
      BY DEF Users!ToSet, Reg1, Pro1, Upd1, Rem1
    <2>2. \A op \in UserOp : Users!ToSet(Users!Calls[op]) \subseteq Users!Call
      BY UserCalls DEF Users!Call
    <2>3. {"loadUser", "setUser"} \subseteq Users!Call
      BY DEF Users!Call
    <2> QED BY <2>1, <2>2, <2>3, UserCalls DEF UserOp
  <1>2. \A t \in UserTodo : t \in Seq(Users!Call) /\ t # <<>>
    <2>1. Reg1 \in Seq(W) /\ Reg2 \in Seq(W) /\ Rem1 \in Seq(W) /\ Rem2 \in Seq(W)
      BY DEF Reg1, Reg2, Rem1, Rem2
    <2>2. /\ Pro1 \in Seq(W) /\ Pro2 \in Seq(W) /\ Pro3 \in Seq(W) /\ Pro4 \in Seq(W)
          /\ Pro5 \in Seq(W)
      BY DEF Pro1, Pro2, Pro3, Pro4, Pro5
    <2>3. Aut1 \in Seq(W) /\ Aut2 \in Seq(W) /\ Aut3 \in Seq(W)
      BY DEF Aut1, Aut2, Aut3
    <2>4. Upd1 \in Seq(W) /\ Upd2 \in Seq(W) /\ Upd3 \in Seq(W) /\ Upd4 \in Seq(W)
      BY DEF Upd1, Upd2, Upd3, Upd4
    <2> HIDE DEF W
    <2>5. Seq(W) \subseteq Seq(Users!Call)
      BY <1>1
    <2>6. \A t \in UserTodo : t \in Seq(W)
      BY <2>1, <2>2, <2>3, <2>4 DEF UserTodo
    <2>7. \A t \in UserTodo : t # <<>>
      BY UserHeads DEF UserTodo
    <2> QED BY <2>5, <2>6, <2>7
  <1>3. ASSUME NEW q \in Users!Active
        PROVE  /\ serving[q] \in [op: Users!Op, todo: {serving[q].todo}, name: Name, id: Users!Id,
                                  got: Users!Copy, to: Users!Text]
               /\ serving[q].todo \in Seq(Users!Call) /\ serving[q].todo # <<>>
    <2> PICK r \in UserRequest : r = serving[q]
      BY DEF UsersSafe, ServingKnown, Users!Active
    <2>1. r \in [op: Users!Op, todo: {r.todo}, name: Name, id: Users!Id, got: Users!Copy, to: Users!Text]
      BY UserCalls DEF UserRequest
    <2>2. r.todo \in UserTodo
      BY DEF UserRequest
    <2> QED BY <1>2, <2>1, <2>2
  <1>4. Len(users) <= MaxAccounts
    <2>1. IsFiniteSet(Registering)
      BY FS_Subset, AccountsAssumption DEF Registering, Users!Active
    <2>2. Cardinality(Registering) \in Nat
      BY <2>1, FS_CardinalityType
    <2> QED BY <2>2, RowsOfUsers, AccountsAssumption DEF UsersSafe, UsersTyped
  <1>5. DOMAIN serving = Request
    BY DEF UsersSafe, ServingKnown
  <1> QED BY <1>3, <1>4, <1>5 DEF Users!TypeOK, UsersSafe, UsersTyped, UserRow

(***************************************************************************)
(* Registrations of a name at the same time make one account; and whoever  *)
(* changes his profile sees the new one, whatever fails but the DEL of     *)
(* UserKey or both DELs of the other key, until he is looked at while he   *)
(* changes it (user_service.go:60-83, 180-195, user_handler.go:280-290):   *)
(* for any names, accounts and requests, and any number of changes and of  *)
(* calls that fail.                                                        *)
(***************************************************************************)
THEOREM AccountsRightHolds == Users!Spec => []AccountsRight
  <1>1. Users!Init => UsersSafe /\ (UsersQuiet => UsersCalm)
    BY UsersStart
  <1>2. UsersSafe /\ (UsersQuiet => UsersCalm) /\ [Users!Next]_(Users!vars) =>
          (UsersSafe /\ (UsersQuiet => UsersCalm))'
    BY UsersStep
  <1>3. UsersSafe /\ (UsersQuiet => UsersCalm) => AccountsRight
    <2> SUFFICES ASSUME UsersSafe, UsersQuiet => UsersCalm PROVE AccountsRight
      OBVIOUS
    <2>1. ASSUME Users!Active = {}, UsersCalm, NEW i \in Users!Id, NEW k \in Users!Key, Users!Exists(i)
          PROVE  Users!Fresh(i, k)
      BY <2>1 DEF UsersCalm, OldOnesGo, Outdated, StillDrops, Updating, Users!Fresh, Users!Missing
    <2>2. Users!ProfilesFresh
      BY <2>1 DEF Users!ProfilesFresh, UsersQuiet
    <2> QED BY <2>2, UsersTypes DEF AccountsRight, UsersSafe
  <1> QED BY <1>1, <1>2, <1>3, PTL DEF Users!Spec
=============================================================================
