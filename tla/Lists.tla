--------------------------------- MODULE Lists ---------------------------------
(***************************************************************************)
(* The lists a client reads page by page: each page is the newest rows     *)
(* below a cursor, the cursor comes from the page before, and rows come    *)
(* and go between the pages (the list queries of internal/repo and what    *)
(* their callers in internal/service and internal/handler return).         *)
(*                                                                         *)
(* The lists differ in what they are sorted by, what they compare with the *)
(* cursor, and which row of a page the next cursor is.  A row has an id    *)
(* and a key: the second it is from, or a number of its own.  The first    *)
(* page of a user's notes may come from a cache, which NoteCache is about. *)
(***************************************************************************)
EXTENDS Naturals, FiniteSets, FiniteSetsExt

CONSTANTS MaxRow,    \* bound: rows of the list
          MaxKey,    \* bound: keys
          Limit,     \* rows of a page
          MaxChanges \* bound: rows that go, move, or change sides

VARIABLES list,    \* which list is read
          rows,    \* the rows there are: records of id and key
          dropped, \* ids the code takes out of a page after the query
          last,    \* how many rows there have been
          cursor,  \* key and id below which the next page is
          over,    \* has the walk come to its end?
          seen,    \* history: how often the walk has shown each id
          stable,  \* history: rows shown and unchanged since the walk began
          skipped, \* history: rows as old as the last row of a page, not on it
          early,   \* history: the walk ended at a page with nothing to show
          changes

history == <<seen, stable, skipped, early>>
vars == <<list, rows, dropped, last, cursor, over, history, changes>>

\* ties: several rows may have one key; byId: those are told apart by their
\* ids; drops: rows are taken out after the query; moves: a row gets a newer
\* key; from: is the cursor the last row of the page or the last shown?
FeedListFollowing ==
  [ties |-> TRUE, byId |-> TRUE, drops |-> TRUE, moves |-> FALSE, from |-> "shown"]
FeedListByTopic == FeedListFollowing

UserListFollowing ==
  [ties |-> TRUE, byId |-> FALSE, drops |-> TRUE, moves |-> FALSE, from |-> "row"]
UserListFollowers == UserListFollowing

FavoriteList == [ties |-> FALSE, byId |-> FALSE, drops |-> TRUE, moves |-> FALSE, from |-> "row"]

ListConversations ==
  [ties |-> FALSE, byId |-> FALSE, drops |-> FALSE, moves |-> TRUE, from |-> "row"]

ListByAuthorID == [ties |-> FALSE, byId |-> FALSE, drops |-> FALSE, moves |-> FALSE, from |-> "row"]
ListCommentsByNoteID == ListByAuthorID
ListNoteVersions == ListByAuthorID
ListNotifications == ListByAuthorID
ListMessages == ListByAuthorID
ListReports == ListByAuthorID
ListUsers == ListByAuthorID

List == {FeedListFollowing, FeedListByTopic, UserListFollowing, UserListFollowers, FavoriteList,
         ListConversations, ListByAuthorID, ListCommentsByNoteID, ListNoteVersions,
         ListNotifications, ListMessages, ListReports, ListUsers}

Id == 1..MaxRow
Row == [id: Id, key: 1..MaxKey]
Top == [id |-> MaxRow + 1, key |-> MaxKey + 1]

TypeOK ==
  /\ list \in List
  /\ rows \subseteq Row /\ \A x, y \in rows : x.id = y.id => x = y
  /\ ~list.ties => \A x, y \in rows : x.key = y.key => x = y
  /\ dropped \subseteq Id /\ last \in 0..MaxRow
  /\ cursor \in Row \cup {Top} /\ over \in BOOLEAN
  /\ seen \in [Id -> Nat]
  /\ stable \subseteq rows /\ skipped \subseteq Row /\ early \in BOOLEAN
  /\ changes \in 0..MaxChanges

Init ==
  /\ list \in List
  /\ rows = {} /\ dropped = {} /\ last = 0
  /\ cursor = Top /\ over = TRUE
  /\ seen = [i \in Id |-> 0] /\ stable = {} /\ skipped = {} /\ early = FALSE
  /\ changes = 0
-----------------------------------------------------------------------------
\* (published_at < ?) OR (published_at = ? AND id < ?), or one of the two
\* columns alone.
Below(x, c) == x.key < c.key \/ (list.byId /\ x.key = c.key /\ x.id < c.id)

\* The rows of S that no row of S is below.
Lowest(S) == {x \in S : \A y \in S : ~Below(y, x)}

\* The client asks for the list from its top.
Open ==
  /\ over
  /\ cursor' = Top /\ over' = FALSE
  /\ seen' = [i \in Id |-> 0] /\ skipped' = {} /\ early' = FALSE
  /\ stable' = {x \in rows : x.id \notin dropped}
  /\ UNCHANGED <<list, rows, dropped, last, changes>>

\* The client gets a page of the rows found.
Turn(page, found) ==
  LET shown == {x \in page : x.id \notin dropped}
      from == IF list.from = "row" THEN page ELSE shown
  IN  /\ \A x \in page, y \in found \ page : ~Below(x, y)
      /\ seen' = [i \in Id |-> IF \E x \in shown : x.id = i THEN seen[i] + 1 ELSE seen[i]]
      /\ IF from = {} THEN over' = TRUE /\ UNCHANGED <<cursor, skipped>>
         ELSE /\ \E x \in Lowest(from) :
                   /\ cursor' = x
                   /\ skipped' = skipped \cup {y \in found \ page : ~Below(y, x)}
              /\ UNCHANGED over
      /\ early' = (from = {} /\ page # {})

\* The first Limit rows below the cursor; MySQL orders rows of one key as it
\* likes unless they are sorted by id too.  The client goes on until it gets no
\* cursor.
NextPage ==
  /\ ~over
  /\ LET found == {x \in rows : Below(x, cursor)}
     IN  \E page \in SUBSET found :
           Cardinality(page) = Min({Limit, Cardinality(found)}) /\ Turn(page, found)
  /\ UNCHANGED <<list, rows, dropped, last, stable, changes>>

\* A new row is the newest, or one of the newest.
Insert(key) ==
  /\ last < MaxRow /\ last' = last + 1
  /\ \A x \in rows : x.key < key \/ (list.ties /\ x.key = key)
  /\ rows' = rows \cup {[id |-> last + 1, key |-> key]}
  /\ UNCHANGED <<list, dropped, cursor, over, history, changes>>

Change(x) ==
  /\ changes < MaxChanges /\ changes' = changes + 1
  /\ stable' = stable \ {x}
  /\ UNCHANGED <<list, last, cursor, over, seen, skipped, early>>

Remove(x) == Change(x) /\ rows' = rows \ {x} /\ UNCHANGED dropped

\* A note is deleted or an author blocked, or the other way round.
Drop(x) ==
  /\ list.drops /\ Change(x)
  /\ dropped' = IF x.id \in dropped THEN dropped \ {x.id} ELSE dropped \cup {x.id}
  /\ UNCHANGED rows

\* A message makes a conversation the newest.
Move(x, key) ==
  /\ list.moves /\ \A y \in rows : y.key < key
  /\ Change(x)
  /\ rows' = (rows \ {x}) \cup {[x EXCEPT !.key = key]}
  /\ UNCHANGED dropped

Next ==
  \/ Open \/ NextPage
  \/ \E key \in 1..MaxKey : Insert(key) \/ \E x \in rows : Move(x, key)
  \/ \E x \in rows : Remove(x) \/ Drop(x)

Spec == Init /\ [][Next]_vars
-----------------------------------------------------------------------------
(***************************************************************************)
(* However rows come and go between the pages, a walk shows no row twice,  *)
(* and when it is over it has shown every row that was there from its      *)
(* start on.  Two kinds of list do less: the feeds end where every note of *)
(* a page is dropped (feed_service.go:147, 371-435), and the lists of      *)
(* follows skip those of the second in which a page ends                   *)
(* (user_repo.go:173, 186).                                                *)
(***************************************************************************)
ShownOnce ==
  /\ \A i \in Id : seen[i] <= 1
  /\ over /\ ~early => \A x \in stable : seen[x.id] = 1 <=> x \notin skipped
  /\ early => list.from = "shown"
  /\ skipped # {} => list.ties /\ ~list.byId
=============================================================================
