------------------------------ MODULE DiverseRank ------------------------------
(***************************************************************************)
(* The order of a reader's For You feed: the notes with the best scores of *)
(* the shared ZSET, weighted for the reader, with penalties for what the   *)
(* pool has much of and a limit for each author (the candidates of         *)
(* getFeedPage in internal/service/feed_service.go, diverseRank in         *)
(* feed_diversity.go, personalizedScore in feed_scorer.go).                *)
(*                                                                         *)
(* A score is a whole number here, which in the code is rounded to four    *)
(* places; factors are fractions and compared exactly.  Notes carry as     *)
(* their id their place in the order of ids.  The set of followed topics   *)
(* is read from a key that is filled only when Redis could not be asked    *)
(* for it (feed_service.go:485-501), so the boost for them is left out;    *)
(* hidden notes are in FeedPages.                                          *)
(***************************************************************************)
EXTENDS Naturals, FiniteSets, FiniteSetsExt, SequencesExt

CONSTANTS Note,               \* ids: a set of numbers
          Item,               \* what a note may be: author, type, topics, score
          Reader,             \* SkipLimitAuthorID
          FollowBoost(_),     \* of an author, in halves: 3 if he is followed, else 2
          TypePref(_),        \* of a type, in tenths: 10 without preference
          feedScoreMult,
          FeedCandidateLimit,
          MaxPerAuthor

VARIABLES note,    \* the published notes
          ranking  \* feed:user:<u>:rank as the reader gets it; <<>> if there is none

vars == <<note, ranking>>

TypeOK ==
  /\ note \in [Note -> Item]
  /\ ranking \in Seq(Note) /\ Len(ranking) <= FeedCandidateLimit

Init == note \in [Note -> Item] /\ ranking = <<>>
-----------------------------------------------------------------------------
\* A member of the ZSET, and what is read back from it.
foldScore(n) == note[n].score * feedScoreMult + n
unfoldScore(z) == z \div feedScoreMult

\* ZREVRANGEBYSCORE with a limit.
Candidates ==
  {n \in Note : Cardinality({k \in Note : foldScore(k) > foldScore(n)}) < FeedCandidateLimit}

personalizedScore(n) ==
  unfoldScore(foldScore(n)) * FollowBoost(note[n].author) * TypePref(note[n].type)

\* How often the factor of each kind of penalty is applied to a note of a pool:
\* once for every note of the pool that shares the trait, itself included.
Penalties(pool, n) ==
  LET it == note[n]
      WithTopic(t) == Cardinality({k \in pool : t \in note[k].topics})
  IN  [author |-> IF it.author = Reader THEN 0
                  ELSE Min({MaxPerAuthor, Cardinality({k \in pool : note[k].author = it.author})}),
       topic  |-> MapThenSumSet(WithTopic, it.topics),
       type   |-> Cardinality({k \in pool : note[k].type = it.type})]

\* The final score of n in units in which it compares with that of k: of the
\* factors 7/20 (author), 7/10 (topic) and 17/20 (type) those both have cancel.
FinalScore(pool, n, k) ==
  LET p == Penalties(pool, n)
      r == Penalties(pool, k)
      More(a, b) == IF a > b THEN a - b ELSE 0
      Part(num, den, a, b) == num ^ More(a, b) * den ^ More(b, a)
  IN  personalizedScore(n) * Part(7, 20, p.author, r.author)
        * Part(7, 10, p.topic, r.topic) * Part(17, 20, p.type, r.type)

Before(pool, n, k) ==
  LET a == FinalScore(pool, n, k)
      b == FinalScore(pool, k, n)
  IN  a > b \/ (a = b /\ n > k)

\* Mutant: one more of an author goes in.
FullAfter(author, out) ==
  author # Reader /\ Cardinality({i \in DOMAIN out : note[out[i]].author = author}) > MaxPerAuthor

Full(author, out) ==
  author # Reader /\ Cardinality({i \in DOMAIN out : note[out[i]].author = author}) >= MaxPerAuthor

\* One note has no rivals; else best final score first, and each author's notes
\* up to the limit.
diverseRank(pool) ==
  IF Cardinality(pool) <= 1 THEN SetToSeq(pool)
  ELSE FoldLeft(LAMBDA out, n : IF Full(note[n].author, out) THEN out ELSE Append(out, n),
                <<>>, SetToSortSeq(pool, LAMBDA n, k : Before(pool, n, k)))

\* A page is asked for and nothing is cached.
Rebuild == ranking = <<>> /\ ranking' = diverseRank(Candidates) /\ UNCHANGED note

Expire == ranking # <<>> /\ ranking' = <<>> /\ UNCHANGED note

Next == Rebuild \/ Expire

Spec == Init /\ [][Next]_vars
-----------------------------------------------------------------------------
\* n is better than k before anything is folded or weighted.
Better(n, k) == note[n].score > note[k].score \/ (note[n].score = note[k].score /\ n > k)

Alike(n, k) == [note[n] EXCEPT !.score = 0] = [note[k] EXCEPT !.score = 0]

Place(n) == CHOOSE i \in DOMAIN ranking : ranking[i] = n

(***************************************************************************)
(* What a reader is shown: only notes that FeedCandidateLimit others are   *)
(* not better than, each once, and all of those except what an author has  *)
(* over MaxPerAuthor (feed_diversity.go:84-91), the reader himself without *)
(* limit; of two notes that differ in nothing else the better one comes    *)
(* first and is not left out for the other, whatever the pool has of their *)
(* kind; and folding the id into the score has changed neither             *)
(* (feed_service.go:52-60), for ids below feedScoreMult.                   *)
(***************************************************************************)
RankedRight ==
  LET shown == ToSet(ranking)
      best == {n \in Note : Cardinality({k \in Note : Better(k, n)}) < FeedCandidateLimit}
      OfAuthor(n) == {k \in shown : note[k].author = note[n].author}
  IN  ranking # <<>> /\ (\A n \in Note : n < feedScoreMult) =>
        /\ Cardinality(shown) = Len(ranking) /\ shown \subseteq best
        /\ \A n \in best \ shown :
             note[n].author # Reader /\ Cardinality(OfAuthor(n)) = MaxPerAuthor
        /\ \A n \in shown : note[n].author # Reader => Cardinality(OfAuthor(n)) <= MaxPerAuthor
        /\ \A n, k \in best : Alike(n, k) /\ Better(n, k) /\ k \in shown =>
             n \in shown /\ Place(n) < Place(k)
=============================================================================
