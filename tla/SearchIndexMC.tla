---------------------------- MODULE SearchIndexMC ----------------------------
(***************************************************************************)
(* Small instances of what readers look through: SearchIndex, FeedPages,   *)
(* Lists and DiverseRank.  A behaviour is one of a single module; the      *)
(* state of the others stays as it was.  SearchIndex comes in three        *)
(* setups, FeedPages in two:                                               *)
(*   alone      the recover loop does not run and nothing fails            *)
(*   recover    it does and something may                                  *)
(*   others     moderators, and others than the author, delete a note too  *)
(*   one        the pages of a user with a single tab                      *)
(*   two        two tabs, the second of which only reads, and a hide of    *)
(*              any note but the first; nothing else changes and nothing   *)
(*              fails                                                      *)
(*   lists      any of the lists                                           *)
(*   ranking    any four notes                                             *)
(* The two notes of SearchIndex are alike: the first event is n1's.        *)
(***************************************************************************)
EXTENDS SearchIndex, FiniteSets

CONSTANTS n1, n2,
          Post, Orders, Dropped, Tab, PostsPerPage, MaxMoves, MaxFails, \* of FeedPages
          MaxRow, MaxKey, RowsPerPage, MaxChanges                       \* of Lists

\* An order has a note once; a page has room for one; the bounds are counts.
ASSUME PagesAssumption ==
  /\ Post \subseteq Nat /\ IsFiniteSet(Post)
  /\ \A o \in Orders : /\ o \in Seq(Post)
                       /\ \A i, j \in DOMAIN o : o[i] = o[j] => i = j
  /\ {} \in Dropped /\ \A g \in Dropped : g \subseteq Post
  /\ PostsPerPage \in Nat \ {0} /\ MaxMoves \in Nat /\ MaxFails \in Nat

ASSUME ListsAssumption ==
  MaxRow \in Nat /\ MaxKey \in Nat /\ RowsPerPage \in Nat \ {0} /\ MaxChanges \in Nat

TwoNotes == {n1, n2}
ThreePosts == 1..3
TwoOrders == {<<3, 2, 1>>, <<1, 3, 2>>}
SomeDropped == {{}, {2}, {2, 3}}
TwoTabs == 1..2

VARIABLES setup,
          order, gone, hides, hidden, rank, raw, client, walk,
          forgotten, amiss, settled, quiet, moves, fails,         \* FeedPages
          list, rows, dropped, newest, cursor, over,
          seen, stable, skipped, early, changes,                  \* Lists
          item, ranking                                           \* DiverseRank

pagesVars == <<order, gone, hides, hidden, rank, raw, client, walk,
               forgotten, amiss, settled, quiet, moves, fails>>
listVars == <<list, rows, dropped, newest, cursor, over, seen, stable, skipped, early, changes>>
rankingVars == <<item, ranking>>

Msgs == [alone |-> 4, recover |-> 3, others |-> 2]
-----------------------------------------------------------------------------
Pages == INSTANCE FeedPages WITH Note <- Post, Order <- Orders, Gone <- Dropped, Client <- Tab,
           Limit <- PostsPerPage, MaxChanges <- MaxMoves, MaxFaults <- MaxFails,
           changes <- moves, faults <- fails

Page == INSTANCE Lists WITH Limit <- RowsPerPage, last <- newest

\* The reader and an author he follows; he has hidden a note of type 2.
SomeItem == {i \in [author: {"me", "a"}, type: {1, 2}, topics: {{}, {1}}, score: {1, 2}] :
               i.type = 2 => i.topics = {}}
Boost(author) == IF author = "a" THEN 3 ELSE 2
Pref(type) == IF type = 2 THEN 6 ELSE 10

Ranking == INSTANCE DiverseRank WITH Note <- 1..4, Item <- SomeItem, Reader <- "me",
             FollowBoost <- Boost, TypePref <- Pref, feedScoreMult <- 5,
             FeedCandidateLimit <- 3, MaxPerAuthor <- 2, note <- item
-----------------------------------------------------------------------------
MCInit ==
  /\ setup \in DOMAIN Msgs \cup {"one", "two", "lists", "ranking"}
  /\ Init
  /\ order = <<3, 2, 1>> /\ Pages!Init
  /\ list \in (IF setup = "lists" THEN Page!List ELSE {Page!ListUsers}) /\ Page!Init
  /\ item \in [1..4 -> IF setup = "ranking" THEN SomeItem
                       ELSE {[author |-> "a", type |-> 1, topics |-> {}, score |-> 1]}]
  /\ Ranking!Init

SearchNext ==
  /\ setup \in DOMAIN Msgs
  /\ Next
  /\ length' <= Msgs[setup]
  /\ setup = "alone" => faults' = 0 /\ ripe' = {} /\ ~thread'["recover"].busy
  /\ setup # "others" => \A n \in Note : ~DeleteByModerator(n) /\ ~DeleteMatchless(n)
  /\ \A m \in DOMAIN evts' : setup = "others" \/ m = 1 => evts'[m].note = n1

PagesNext ==
  /\ setup \in {"one", "two"}
  /\ Pages!Next
  /\ setup = "one" => \A c \in Tab \ {1} : client'[c] = Pages!Idle
  /\ setup = "two" =>
       /\ moves' <= 1 /\ fails' = 0 /\ UNCHANGED <<order, gone>>
       /\ \A c \in Pages!Active' :
            client'[c].op = "page" \/ (c = 1 /\ client'[c].op = "hide" /\ client'[c].note < 3)

MCNext ==
  /\ \/ SearchNext /\ UNCHANGED <<pagesVars, listVars, rankingVars>>
     \/ PagesNext /\ UNCHANGED <<vars, listVars, rankingVars>>
     \/ setup = "lists" /\ Page!Next /\ UNCHANGED <<vars, pagesVars, rankingVars>>
     \/ setup = "ranking" /\ Ranking!Next /\ UNCHANGED <<vars, pagesVars, listVars>>
  /\ UNCHANGED setup

\* Fairness as in SearchIndex, for the setups the liveness property is about.
Recovers == setup \in {"recover", "others"}

MCFairness ==
  /\ WF_vars(Recovers /\ GroupRead)
  /\ WF_vars(Recovers /\ GroupClaim)
  /\ \A m \in 1..MaxMsg : WF_vars(Recovers /\ GroupRipen(m))
  /\ \A t \in Thread : WF_vars(Recovers /\ (HandlerStep(t) \/ GroupAck(t)))

MCSpec ==
  MCInit /\ [][MCNext]_<<vars, setup, pagesVars, listVars, rankingVars>> /\ MCFairness
-----------------------------------------------------------------------------
TypesOK == TypeOK /\ Pages!TypeOK /\ Page!TypeOK /\ Ranking!TypeOK

(***************************************************************************)
(* With the recover loop each event of a written note puts it into the     *)
(* index, unless it is deleted, through failures of MySQL, Meilisearch and *)
(* the worker and whoever else asks to delete it: no event can block the   *)
(* search group, since a note that is gone counts as handled               *)
(* (main.go:167-197).                                                      *)
(***************************************************************************)
RecoverNoteIndexed ==
  \A n \in Note :
    (Recovers /\ note[n].status = "published" /\ Awaited(n)) ~>
      (index[n] # NoDocument \/ note[n].status # "published")

(***************************************************************************)
(* A user does not meet a note again that he has hidden, in no page and no *)
(* ranking that was cached before he did so, unless he hid it while a page *)
(* was made, or the set of his hidden notes has expired                    *)
(* (feed_service.go:718-749, 783-803; feed_handler.go:170-204).            *)
(***************************************************************************)
HiddenStaysOut == Pages!HiddenRespected

(***************************************************************************)
(* Page after page, a reader gets each row that is there all the time once *)
(* and none twice: in the feed by position, as long as its order does not  *)
(* change (feed_service.go:122-131, 153-184), and in every list by cursor, *)
(* whatever comes and goes.                                                *)
(***************************************************************************)
WalksExact == Pages!WalkExact /\ Page!ShownOnce

(***************************************************************************)
(* The order of the feed is the one diverseRank promises, from the folded  *)
(* scores on (feed_diversity.go:25-92, feed_service.go:52-60).             *)
(***************************************************************************)
RankedRight == Ranking!RankedRight
=============================================================================
