------------------------------- MODULE FeedPages -------------------------------
(***************************************************************************)
(* The For You pages of one user: a ranking cached for ten seconds, pages  *)
(* cut from it by position and cached as bytes, and the notes the user has *)
(* hidden (internal/service/feed_service.go, internal/handler/             *)
(* feed_handler.go, InvalidateFeedRawForUser of internal/cache/redis.go).  *)
(*                                                                         *)
(* What sorting the candidates gives is a sequence that changes as it      *)
(* pleases (scores, follows, blocks, new notes; FeedEngine and DiverseRank *)
(* say what is in it), before the hidden notes are taken out.  The numbers *)
(* of hides per type only move this order and are left out.  Follows,      *)
(* blocks and the worker delete keys of the user too: a key may go away at *)
(* any moment here.                                                        *)
(***************************************************************************)
EXTENDS Naturals, FiniteSets, SequencesExt

CONSTANTS Note,       \* ids: a set of numbers
          Order,      \* what sorting the candidates may give
          Gone,       \* what a page may have to drop
          Client,     \* tabs of the user, each with a request in progress or none
          Limit,      \* notes of a page
          MaxChanges, \* bound: changes of order, gone and hides
          MaxFaults   \* bound: calls that fail

VARIABLES order,     \* the sorted candidates
          gone,      \* notes deleted, or of a blocked author, since they were ranked
          hides,     \* feed_hides
          hidden,    \* user:<u>:hidden; a missing set reads as an empty one
          rank,      \* feed:user:<u>:rank: note -> score, the members only
          raw,       \* the cached page of each position; NoPage where there is none
          client,    \* the requests in progress
          walk,      \* what each tab has shown, and where its next page starts
          forgotten, \* history: hides that went away with the set since
          amiss,     \* history: a call that changes something failed, or a note was
                     \* hidden or shown again beside another request
          settled,   \* history: nothing has changed since the caches were empty
          quiet,     \* history: the tabs for whose walk that was so from its start
          changes, faults

redis == <<hidden, rank, raw>>
history == <<forgotten, settled, quiet>>
bounds == <<changes, faults>>
vars == <<order, gone, hides, redis, client, walk, history, amiss, bounds>>

\* Mutant: the pages after the first are not deleted.
KeepPages == <<"delHome", "delRank">>

InvalidateFeedRawForUser == <<"delHome", "delPages", "delRank">>

Calls ==
  [page |-> <<"getRaw">>,
   hide |-> <<"addRow", "sadd">> \o InvalidateFeedRawForUser,
   undo |-> <<"removeRow", "srem">> \o InvalidateFeedRawForUser]

Step == UNION {ToSet(Calls[op]) : op \in DOMAIN Calls}
          \cup {"getRank", "members", "loadHidden", "addHidden", "rebuild", "zadd",
                "fill", "setRaw"}

Start == {p \in 0..Cardinality(Note) : p % Limit = 0}
NoPage == [notes |-> <<>>, next |-> Limit]
Idle == [todo |-> <<>>]
Active == {c \in Client : client[c] # Idle}

Pages == [notes: UNION {[1..k -> Note] : k \in 0..Limit}, next: Start]

TypeOK ==
  /\ order \in Order /\ gone \in Gone
  /\ hides \subseteq Note /\ hidden \subseteq Note
  /\ DOMAIN rank \subseteq Note /\ \A n \in DOMAIN rank : rank[n] \in 0..Cardinality(Note)
  /\ \A p \in Start : raw[p] = NoPage \/ raw[p] \in Pages
  /\ \A c \in Active :
       /\ ToSet(client[c].todo) \subseteq Step
       /\ client[c].op \in {"hide", "undo"} => client[c].note \in Note
       /\ client[c].op = "page" =>
            /\ client[c].at \in Start /\ client[c].ids \in Seq(Note)
            /\ client[c].next \in Start /\ client[c].without \subseteq Note
  /\ \A c \in Client : walk[c].seen \in Seq(Note) /\ walk[c].next \in Start /\ walk[c].over \in BOOLEAN
  /\ forgotten \subseteq Note
  /\ amiss \in BOOLEAN /\ settled \in BOOLEAN /\ quiet \subseteq Client
  /\ changes \in 0..MaxChanges /\ faults \in 0..MaxFaults

Init ==
  /\ order \in Order /\ gone = {}
  /\ hides = {} /\ hidden = {}
  /\ rank = <<>> /\ raw = [p \in Start |-> NoPage]
  /\ client = [c \in Client |-> Idle]
  /\ walk = [c \in Client |-> [seen |-> <<>>, next |-> 0, over |-> TRUE]]
  /\ forgotten = {} /\ amiss = FALSE /\ settled = TRUE /\ quiet = {}
  /\ changes = 0 /\ faults = 0
-----------------------------------------------------------------------------
At(c, call) == c \in Active /\ Head(client[c].todo) = call

\* The request of c goes on as r.
Become(c, r) == client' = [client EXCEPT ![c] = IF r.todo = <<>> THEN Idle ELSE r]

GoOn(c, todo) == Become(c, [client[c] EXCEPT !.todo = todo])
Proceed(c) == GoOn(c, Tail(client[c].todo))
Stop(c) == GoOn(c, <<>>)

\* Something the pages depend on changes.
Unsettle == settled' = FALSE /\ quiet' = {}

Clean(c) == rank = <<>> /\ Active \subseteq {c} /\ \A p \in Start : raw[p] = NoPage

\* A hide is taken back, or made, beside another request.
Overlap(crossing) == amiss' = (amiss \/ crossing)

\* A tab asks for the page after the one it has, or for the first one again.
List(c, at) ==
  /\ client[c] = Idle
  /\ at \in {0, walk[c].next}
  /\ client' = [client EXCEPT ![c] = [op |-> "page", at |-> at, ids |-> <<>>, next |-> 0,
                                      without |-> {}, todo |-> Calls.page]]
  /\ IF at > 0 THEN UNCHANGED <<walk, settled, quiet>>
     ELSE /\ walk' = [walk EXCEPT ![c] = [seen |-> <<>>, next |-> 0, over |-> FALSE]]
          /\ settled' = (settled \/ Clean(c))
          /\ quiet' = IF settled' THEN quiet \cup {c} ELSE quiet \ {c}
  /\ Overlap(\E d \in Active : client[d].op # "page")
  /\ UNCHANGED <<order, gone, hides, redis, forgotten, bounds>>

\* The tab gets a page.
Answer(c, page) ==
  walk' = [walk EXCEPT ![c] = [seen |-> @.seen \o page.notes, next |-> page.next,
                               over |-> page.next = 0]]

GetRaw(c) ==
  /\ At(c, "getRaw")
  /\ LET page == raw[client[c].at]
     IN  IF page = NoPage THEN GoOn(c, <<"getRank">>) /\ UNCHANGED walk
         ELSE Stop(c) /\ Answer(c, page)
  /\ UNCHANGED <<order, gone, hides, redis, history, amiss, bounds>>

\* Request c goes on with the ids of its page: those of a ranking from its
\* position on.  There is a next page if this one is full, before the notes
\* that are gone are dropped.
Cut(c, ranking, todo) ==
  LET at == client[c].at
      ids == SubSeq(ranking, at + 1, Min({at + Limit, Len(ranking)}))
  IN  Become(c, [client[c] EXCEPT !.ids = ids, !.without = {}, !.todo = todo])

\* The notes of a sequence that are not in T.
Without(s, T) ==
  LET kept[i \in 0..Len(s)] ==
        IF i = 0 THEN <<>>
        ELSE IF s[i] \in T THEN kept[i - 1] ELSE Append(kept[i - 1], s[i])
  IN  kept[Len(s)]

\* ZRANGEBYSCORE: equal scores in the order of their members.  A note is where
\* as many come before it.
Ahead(n) == {k \in DOMAIN rank : rank[k] < rank[n] \/ (rank[k] = rank[n] /\ k < n)}

Ranking ==
  [i \in 1..Cardinality(DOMAIN rank) |-> CHOOSE n \in DOMAIN rank : Cardinality(Ahead(n)) = i - 1]

GetRank(c) ==
  /\ At(c, "getRank")
  /\ IF rank = <<>> THEN GoOn(c, <<"members">>)
     ELSE Cut(c, Ranking, <<"fill", "setRaw">>)
  /\ UNCHANGED <<order, gone, hides, redis, walk, history, amiss, bounds>>

Members(c) ==
  /\ At(c, "members")
  /\ Become(c, [client[c] EXCEPT !.without = hidden, !.todo = <<"rebuild">>])
  /\ UNCHANGED <<order, gone, hides, redis, walk, history, amiss, bounds>>

\* Only when Redis could not be asked for the set.
GetHiddenNoteIDs(c) ==
  /\ At(c, "loadHidden")
  /\ Become(c, [client[c] EXCEPT !.without = hides,
                  !.todo = IF hides = {} THEN <<"rebuild">> ELSE <<"addHidden", "rebuild">>])
  /\ IF hides = hidden THEN UNCHANGED <<settled, quiet>> ELSE Unsettle
  /\ UNCHANGED <<order, gone, hides, redis, walk, forgotten, amiss, bounds>>

AddHidden(c) ==
  /\ At(c, "addHidden")
  /\ hidden' = hidden \cup client[c].without
  /\ IF hidden' = hidden THEN UNCHANGED <<settled, quiet>> ELSE Unsettle
  /\ Proceed(c)
  /\ UNCHANGED <<order, gone, hides, rank, raw, walk, forgotten, amiss, bounds>>

\* The candidates without the hidden ones; nothing is cached when none is left.
Rebuild(c) ==
  /\ At(c, "rebuild")
  /\ LET ranking == Without(order, client[c].without)
     IN  IF ranking = <<>> THEN Cut(c, ranking, <<"setRaw">>)
         ELSE Become(c, [client[c] EXCEPT !.ids = ranking, !.without = {}, !.todo = <<"zadd">>])
  /\ UNCHANGED <<order, gone, hides, redis, walk, history, amiss, bounds>>

Place(n, s) == CHOOSE i \in DOMAIN s : s[i] = n

\* Added to the members that are there.
ZAddRank(c) ==
  /\ At(c, "zadd")
  /\ LET ranking == client[c].ids
     IN  /\ rank' = [n \in ToSet(ranking) \cup DOMAIN rank |->
                       IF n \in ToSet(ranking) THEN Place(n, ranking) - 1 ELSE rank[n]]
         /\ Cut(c, ranking, <<"fill", "setRaw">>)
  /\ UNCHANGED <<order, gone, hides, hidden, raw, walk, history, amiss, bounds>>

\* Mutant: there is a next page if this one shows Limit notes.
NextCursorIfShown(at, ids, shown) == IF Len(shown) = Limit THEN at + Limit ELSE 0

\* 0 is the empty cursor, which a page that shows nothing has as well.
NextCursor(at, ids, shown) == IF Len(ids) = Limit /\ shown # <<>> THEN at + Limit ELSE 0

\* getNotesByIDs and filterBlockedNotes
Fill(c) ==
  /\ At(c, "fill")
  /\ LET r == client[c]
         shown == Without(r.ids, gone)
     IN  Become(c, [r EXCEPT !.ids = shown, !.next = NextCursor(r.at, r.ids, shown), !.todo = Tail(@)])
  /\ UNCHANGED <<order, gone, hides, redis, walk, history, amiss, bounds>>

SetRaw(c) ==
  /\ At(c, "setRaw")
  /\ LET page == [notes |-> client[c].ids, next |-> client[c].next]
     IN  raw' = [raw EXCEPT ![client[c].at] = page] /\ Answer(c, page)
  /\ Stop(c)
  /\ UNCHANGED <<order, gone, hides, hidden, rank, history, amiss, bounds>>
-----------------------------------------------------------------------------
Request(c, op, n) ==
  /\ client[c] = Idle
  /\ changes < MaxChanges /\ changes' = changes + 1
  /\ client' = [client EXCEPT ![c] = [op |-> op, note |-> n, todo |-> Calls[op]]]
  /\ Overlap(Active # {})
  /\ UNCHANGED <<order, gone, hides, redis, walk, history, faults>>

Hide(c, n) == Request(c, "hide", n)
UndoHide(c, n) == Request(c, "undo", n)

\* Only a published note can be hidden; hiding it again is no error.
AddFeedHide(c) ==
  /\ At(c, "addRow")
  /\ \/ hides' = hides \cup {client[c].note} /\ Proceed(c)
     \/ client[c].note \in gone /\ UNCHANGED hides /\ Stop(c)
  /\ UNCHANGED <<order, gone, redis, walk, history, amiss, bounds>>

RemoveFeedHide(c) ==
  /\ At(c, "removeRow")
  /\ hides' = hides \ {client[c].note}
  /\ Proceed(c)
  /\ UNCHANGED <<order, gone, redis, walk, history, amiss, bounds>>

SAdd(c) ==
  /\ At(c, "sadd")
  /\ hidden' = hidden \cup {client[c].note}
  /\ forgotten' = forgotten \ {client[c].note}
  /\ Unsettle
  /\ Proceed(c)
  /\ UNCHANGED <<order, gone, hides, rank, raw, walk, amiss, bounds>>

SRem(c) ==
  /\ At(c, "srem")
  /\ hidden' = hidden \ {client[c].note}
  /\ Unsettle
  /\ Proceed(c)
  /\ UNCHANGED <<order, gone, hides, rank, raw, walk, forgotten, amiss, bounds>>

DeleteHome(c) ==
  /\ At(c, "delHome")
  /\ raw' = [raw EXCEPT ![0] = NoPage]
  /\ Proceed(c)
  /\ UNCHANGED <<order, gone, hides, hidden, rank, walk, history, amiss, bounds>>

DeletePages(c) ==
  /\ At(c, "delPages")
  /\ raw' = [p \in Start |-> IF p = 0 THEN raw[0] ELSE NoPage]
  /\ Proceed(c)
  /\ UNCHANGED <<order, gone, hides, hidden, rank, walk, history, amiss, bounds>>

DeleteRank(c) ==
  /\ At(c, "delRank")
  /\ rank' = <<>>
  /\ Proceed(c)
  /\ UNCHANGED <<order, gone, hides, hidden, raw, walk, history, amiss, bounds>>
-----------------------------------------------------------------------------
ExpireRaw(p) ==
  /\ raw[p] # NoPage /\ raw' = [raw EXCEPT ![p] = NoPage]
  /\ UNCHANGED <<order, gone, hides, hidden, rank, client, walk, history, amiss, bounds>>

ExpireRank ==
  /\ rank # <<>> /\ rank' = <<>>
  /\ UNCHANGED <<order, gone, hides, hidden, raw, client, walk, history, amiss, bounds>>

\* 30 minutes after the last note was hidden.
ExpireHidden ==
  /\ hidden # {} /\ hidden' = {}
  /\ forgotten' = forgotten \cup hidden
  /\ Unsettle
  /\ UNCHANGED <<order, gone, hides, rank, raw, client, walk, amiss, bounds>>

\* The order changes, or notes are deleted or come back.
ChangeFeed(o, g) ==
  /\ <<o, g>> # <<order, gone>>
  /\ changes < MaxChanges /\ changes' = changes + 1
  /\ order' = o /\ gone' = g
  /\ Unsettle
  /\ UNCHANGED <<hides, redis, client, walk, forgotten, amiss, faults>>

\* A read that fails is a miss, a write to a cache that fails is skipped, and
\* so is the SAdd of a hide; a statement or a deletion that fails ends the
\* request with an error.  When notes cannot be loaded the page has only those
\* that are cached.
Fail(c) ==
  /\ faults < MaxFaults /\ faults' = faults + 1
  /\ c \in Active
  /\ \/ At(c, "getRaw") /\ GoOn(c, <<"getRank">>) /\ UNCHANGED <<walk, amiss, settled, quiet>>
     \/ At(c, "getRank") /\ GoOn(c, <<"members">>) /\ UNCHANGED <<walk, amiss, settled, quiet>>
     \/ At(c, "members") /\ GoOn(c, <<"loadHidden">>) /\ UNCHANGED <<walk, amiss, settled, quiet>>
     \/ At(c, "addHidden") /\ Proceed(c) /\ UNCHANGED <<walk, amiss, settled, quiet>>
     \/ At(c, "zadd") /\ Cut(c, client[c].ids, <<"fill", "setRaw">>) /\ UNCHANGED <<walk, amiss, settled, quiet>>
     \/ /\ At(c, "setRaw") /\ Stop(c)
        /\ Answer(c, [notes |-> client[c].ids, next |-> client[c].next])
        /\ UNCHANGED <<amiss, settled, quiet>>
     \/ /\ At(c, "fill")
        /\ \E shown \in {<<>>, SubSeq(client[c].ids, 1, Min({1, Len(client[c].ids)})), client[c].ids} :
             Become(c, [client[c] EXCEPT !.ids = shown,
                          !.next = NextCursor(client[c].at, client[c].ids, shown), !.todo = Tail(@)])
        /\ Unsettle /\ UNCHANGED <<walk, amiss>>
     \/ At(c, "rebuild") /\ Stop(c) /\ UNCHANGED <<walk, amiss, settled, quiet>>
     \/ (At(c, "sadd") \/ At(c, "srem")) /\ Proceed(c) /\ amiss' = TRUE /\ UNCHANGED <<walk, settled, quiet>>
     \/ /\ \E call \in {"addRow", "removeRow"} \cup ToSet(InvalidateFeedRawForUser) : At(c, call)
        /\ Stop(c) /\ amiss' = TRUE /\ UNCHANGED <<walk, settled, quiet>>
  /\ UNCHANGED <<order, gone, hides, redis, forgotten, changes>>

Next ==
  \/ \E c \in Client :
       \/ \E at \in Start : List(c, at)
       \/ \E n \in Note : Hide(c, n) \/ UndoHide(c, n)
       \/ GetRaw(c) \/ GetRank(c) \/ Members(c) \/ GetHiddenNoteIDs(c) \/ AddHidden(c)
       \/ Rebuild(c) \/ ZAddRank(c) \/ Fill(c) \/ SetRaw(c)
       \/ AddFeedHide(c) \/ RemoveFeedHide(c) \/ SAdd(c) \/ SRem(c)
       \/ DeleteHome(c) \/ DeletePages(c) \/ DeleteRank(c)
       \/ Fail(c)
  \/ \E p \in Start : ExpireRaw(p)
  \/ ExpireRank \/ ExpireHidden
  \/ \E o \in Order, g \in Gone : ChangeFeed(o, g)

Spec == Init /\ [][Next]_vars
-----------------------------------------------------------------------------
(***************************************************************************)
(* As long as notes are hidden, or shown again, one request at a time:     *)
(* when none is in progress, a note that is hidden is in no cached page    *)
(* and in no cached ranking, whatever was cached before it was hidden;     *)
(* unless the set it was in has expired since (feed_service.go:718-737,    *)
(* README.md:53).                                                          *)
(***************************************************************************)
HiddenRespected ==
  Active = {} /\ ~amiss =>
    \A n \in hides \ forgotten :
      /\ n \notin DOMAIN rank
      /\ \A p \in Start : n \notin ToSet(raw[p].notes)

(***************************************************************************)
(* "The order is stable, nothing twice, nothing left out" (README.md:52,   *)
(* feed_service.go:126): as long as nothing changes, however often the     *)
(* ranking expires and is rebuilt under it and whatever the other tabs do, *)
(* a walk shows the notes of its pages in the order of the ranking, each   *)
(* once, and ends after the last, or at a page that has none to show.      *)
(***************************************************************************)
WalkExact ==
  LET ranking == Without(order, hidden)
      Upto(k) == Without(SubSeq(ranking, 1, Min({k, Len(ranking)})), gone)
      EmptyAt(p) == p < Len(ranking) /\ Upto(p + Limit) = Upto(p)
  IN  \A c \in quiet \ Active :
        IF ~walk[c].over THEN walk[c].seen = Upto(walk[c].next)
        ELSE \/ walk[c].seen = Upto(Len(ranking))
             \/ \E p \in Start : EmptyAt(p) /\ walk[c].seen = Upto(p)
=============================================================================
