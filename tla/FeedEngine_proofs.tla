------------------------- MODULE FeedEngine_proofs -------------------------
(***************************************************************************)
(* Proofs about the feed engine, for every set of notes, number of events, *)
(* size of batches and claims, and number of faults: its types, what holds *)
(* until the rescorer runs (the group with its two loops, the flusher and  *)
(* the readers that rebuild a missing ZSET), and what holds while the read *)
(* loop is alone.                                                          *)
(***************************************************************************)
EXTENDS FeedEngine, TLAPS

\* The rescorer has not run, and every delete has matched its row.
Regular == "rescorer" \notin ran /\ ~stray

(***************************************************************************)
(* The inductive invariant.  Either every published note is a member or an *)
(* event of it is due (Kept), or the ZSET is missing since the start, and  *)
(* nobody has passed the check that it exists and whatever is about to be  *)
(* added holds every published note without a due event (Missing).  Events *)
(* may cease to be due since those handled have done their work, and       *)
(* members stay since what is taken out is deleted in the table.           *)
(***************************************************************************)
Entry == [type: {"created", "updated", "deleted"}, note: Note]

GroupSound ==
  /\ length \in Nat /\ last \in 0..length
  /\ evts \in Seq(Entry) /\ Len(evts) = length
  /\ ripe \subseteq pel /\ Group!Pending \subseteq 1..last /\ handled \subseteq 1..last
  /\ thread \in [Thread -> [busy: BOOLEAN, batch: SUBSET (1..last), done: SUBSET handled]]

EngineTyped ==
  /\ note \in [Note -> {"none", "published", "deleted"}]
  /\ zset \subseteq Note
  /\ work \in [Actor -> Work]

RescorerRests == work["rescorer"] = Rest

\* A thread that is about to score a note has an event of it in hand.
WorkOnEvent ==
  \A t \in Thread : work[t].pc # "idle" =>
    \E n \in Note, type \in {"created", "updated"} :
      Handles(t, [type |-> type, note |-> n]) /\ work[t].for = {n}

\* An event is of a note there is, or was.
EventsTrue ==
  \A m \in DOMAIN evts :
    /\ note[evts[m].note] # "none"
    /\ evts[m].type = "deleted" => note[evts[m].note] = "deleted"

HandledIn ==
  \A m \in handled : Scores(evts[m]) /\ evts[m].note \in Published => evts[m].note \in zset

DueFor(n) == \E m \in Due : evts[m].note = n /\ Scores(evts[m])

Kept == \A n \in Published : n \in zset \/ DueFor(n)

Missing ==
  /\ zset = {}
  /\ \A a \in Actor :
       /\ work[a].pc \in {"idle", "list", "add"}
       /\ work[a].pc = "add" => \A n \in Published : n \in work[a].list \/ DueFor(n)

FeedInv ==
  /\ GroupSound /\ EngineTyped /\ RescorerRests
  /\ WorkOnEvent /\ EventsTrue /\ HandledIn
  /\ Kept \/ Missing
-----------------------------------------------------------------------------
(***************************************************************************)
(* What a step of the engine needs for Kept or Missing to last: published  *)
(* members stay, and an event that is no longer due is handled.            *)
(***************************************************************************)
LEMMA KeptStays ==
  ASSUME Kept, HandledIn', UNCHANGED <<note, evts>>,
         zset \cap Published \subseteq zset', Due \subseteq Due' \cup handled'
  PROVE  Kept'
  <1> SUFFICES ASSUME NEW n \in Published PROVE n \in zset' \/ DueFor(n)'
    BY DEF Kept, Published
  <1>1. CASE n \in zset
    BY <1>1
  <1>2. CASE DueFor(n)
    <2>1. PICK m \in Due : evts[m].note = n /\ Scores(evts[m])
      BY <1>2 DEF DueFor
    <2>2. CASE m \in Due'
      BY <2>1, <2>2 DEF DueFor, Scores
    <2>3. CASE m \in handled'
      BY <2>1, <2>3 DEF HandledIn, Scores, Published
    <2> QED BY <2>2, <2>3
  <1> QED BY <1>1, <1>2 DEF Kept

LEMMA MissingStays ==
  ASSUME Missing, HandledIn', UNCHANGED <<note, evts, zset>>, Due \subseteq Due' \cup handled',
         \A a \in Actor : \/ work'[a] = work[a]
                          \/ work'[a].pc \in {"idle", "list"}
                          \/ work'[a].pc = "add" /\ work'[a].list = Published
  PROVE  Missing'
  <1> SUFFICES ASSUME NEW a \in Actor
               PROVE  /\ work'[a].pc \in {"idle", "list", "add"}
                      /\ work'[a].pc = "add" =>
                           \A n \in Published : n \in work'[a].list \/ DueFor(n)'
    BY DEF Missing, Published
  <1>1. \A n \in Published : DueFor(n) => DueFor(n)'
    <2> SUFFICES ASSUME NEW n \in Published, DueFor(n) PROVE DueFor(n)'
      OBVIOUS
    <2>1. PICK m \in Due : evts[m].note = n /\ Scores(evts[m])
      BY DEF DueFor
    <2>2. m \notin handled'
      BY <2>1 DEF HandledIn, Scores, Published, Missing
    <2> QED BY <2>1, <2>2 DEF DueFor, Scores
  <1> QED BY <1>1 DEF Missing

\* Once a list is added, or when a single note may be, all are kept.
LEMMA ListCompletes ==
  ASSUME Kept \/ Missing, NEW a \in Actor, work[a].pc = "add"
  PROVE  \A n \in Published : n \in zset \cup work[a].list \/ DueFor(n)
  BY DEF Kept, Missing

LEMMA ScorerKept ==
  ASSUME Kept \/ Missing, NEW a \in Actor, work[a].pc \in {"score", "zadd"}
  PROVE  Kept
  BY DEF Missing
-----------------------------------------------------------------------------
\* An element of a sequence is of its kind.
LEMMA ElementOfSeq == ASSUME NEW S, NEW s \in Seq(S), NEW i \in DOMAIN s PROVE s[i] \in S
  OBVIOUS

(***************************************************************************)
(* The group: what each of its steps does to its threads and its entries.  *)
(***************************************************************************)
LEMMA UnionWithout ==
  ASSUME NEW cohorts, NEW S
  PROVE  UNION Group!Without(cohorts, S) = (UNION cohorts) \ S
  <1>1. ASSUME NEW m \in UNION Group!Without(cohorts, S)
        PROVE  m \in (UNION cohorts) \ S
    BY <1>1 DEF Group!Without
  <1>2. ASSUME NEW m \in (UNION cohorts) \ S
        PROVE  m \in UNION Group!Without(cohorts, S)
    <2>1. PICK c \in cohorts : m \in c
      BY <1>2
    <2>2. c \ S \in Group!Without(cohorts, S)
      BY <1>2, <2>1 DEF Group!Without
    <2> QED BY <1>2, <2>1, <2>2
  <1> QED BY <1>1, <1>2

\* The first event in hand is the one that is handled.
LEMMA HandlesFirst ==
  ASSUME GroupSound, NEW t \in Thread, NEW e, Handles(t, e), Group!HandleOk(t)
  PROVE  \E m \in thread[t].batch :
           /\ evts[m] = e /\ handled' = handled \cup {m}
           /\ thread' = [thread EXCEPT ![t].done = @ \cup {m}]
           /\ UNCHANGED <<length, last, pel, ripe>>
  <1>1. PICK m \in thread[t].batch \ thread[t].done :
          /\ \A k \in thread[t].batch \ thread[t].done : m <= k
          /\ e = evts[m]
    BY DEF Handles
  <1>2. PICK k \in thread[t].batch \ thread[t].done :
          /\ \A j \in thread[t].batch \ thread[t].done : k <= j
          /\ handled' = handled \cup {k}
          /\ thread' = [thread EXCEPT ![t].done = @ \cup {k}]
    BY DEF Group!HandleOk
  <1>3. m = k
    <2>1. thread[t].batch \subseteq Nat
      BY DEF GroupSound
    <2>2. m <= k /\ k <= m /\ m \in Nat /\ k \in Nat
      BY <1>1, <1>2, <2>1
    <2> QED BY <2>2
  <1> QED BY <1>1, <1>2, <1>3 DEF Group!HandleOk

\* Success on an event.
LEMMA HandleSound ==
  ASSUME GroupSound, NEW t \in Thread, NEW m \in thread[t].batch,
         handled' = handled \cup {m}, thread' = [thread EXCEPT ![t].done = @ \cup {m}],
         UNCHANGED <<length, last, pel, ripe, evts>>
  PROVE  GroupSound' /\ Due' = Due
  <1>1. m \in 1..last
    BY DEF GroupSound
  <1>2. thread' \in [Thread -> [busy: BOOLEAN, batch: SUBSET (1..last), done: SUBSET handled']]
    BY DEF GroupSound
  <1> QED BY <1>1, <1>2 DEF GroupSound, Due, Group!Due, Group!Pending

\* XACK of what was handled.
LEMMA AckSound ==
  ASSUME GroupSound, NEW t \in Thread, Group!AckDone(t), UNCHANGED evts
  PROVE  GroupSound' /\ Due \subseteq Due' \cup handled'
  <1>1. Group!Pending' = Group!Pending \ thread[t].done
    BY UnionWithout DEF Group!AckDone, Group!Pending
  <1>2. ripe' \subseteq pel'
    BY DEF Group!AckDone, Group!Without, GroupSound
  <1>3. UNCHANGED <<length, last, handled>> /\ thread' = [thread EXCEPT ![t] = Group!Resting]
    BY DEF Group!AckDone
  <1>4. thread' \in [Thread -> [busy: BOOLEAN, batch: SUBSET (1..last), done: SUBSET handled]]
    BY <1>3 DEF GroupSound, Group!Resting
  <1>5. thread[t].done \subseteq handled
    BY DEF GroupSound
  <1> QED BY <1>1, <1>2, <1>3, <1>4, <1>5 DEF GroupSound, Due, Group!Due

\* A read moves entries from those to come to those pending.
LEMMA ReadSound ==
  ASSUME GroupSound, Group!ReadGroup, UNCHANGED evts
  PROVE  GroupSound' /\ Due' = Due
  <1>1. last \in Nat /\ length \in Nat /\ last < length
    BY DEF Group!ReadGroup, GroupSound
  <1>2. PICK n \in Nat \ {0} :
          /\ n <= length - last /\ last' = last + n
          /\ pel' = pel \cup {(last + 1)..(last + n)}
          /\ thread' = [thread EXCEPT !["read"] = Group!Working((last + 1)..(last + n))]
    <2> DEFINE n == IF length - last < BatchSize THEN length - last ELSE BatchSize
    <2>1. n \in Nat \ {0} /\ n <= length - last
      BY <1>1, FeedAssumption
    <2> QED BY <2>1 DEF Group!ReadGroup
  <1>3. last' \in 0..length /\ 1..last \subseteq 1..last' /\ (last + 1)..last' \subseteq 1..last'
    BY <1>1, <1>2
  <1>4. Group!Pending' = Group!Pending \cup (last + 1)..last'
    BY <1>2 DEF Group!Pending
  <1>5. UNCHANGED <<length, ripe, handled>>
    BY DEF Group!ReadGroup
  <1>6. thread' \in [Thread -> [busy: BOOLEAN, batch: SUBSET (1..last'), done: SUBSET handled]]
    BY <1>2, <1>3 DEF GroupSound, Group!Working
  <1>7. (last + 1)..length = (last + 1)..last' \cup (last' + 1)..length
    BY <1>1, <1>2
  <1>8. GroupSound'
    BY <1>2, <1>3, <1>4, <1>5, <1>6 DEF GroupSound
  <1> QED BY <1>4, <1>5, <1>7, <1>8 DEF Due, Group!Due

\* XAUTOCLAIM leaves all that is pending so.
LEMMA ClaimSound ==
  ASSUME GroupSound, Group!AutoClaim, UNCHANGED evts
  PROVE  GroupSound' /\ Due' = Due
  <1> DEFINE claimed == Group!FirstOf(ClaimCount, UNION ripe)
  <1>1. /\ pel' = Group!Without(pel, claimed) \cup {claimed}
        /\ ripe' = Group!Without(ripe, claimed)
        /\ thread' = [thread EXCEPT !["recover"] = Group!Working(claimed)]
        /\ UNCHANGED <<length, last, handled>>
    BY DEF Group!AutoClaim
  <1>2. claimed \subseteq Group!Pending
    BY DEF Group!FirstOf, Group!Pending, GroupSound
  <1> HIDE DEF claimed
  <1>3. Group!Pending' = Group!Pending
    <2>1. Group!Pending' = (UNION Group!Without(pel, claimed)) \cup claimed
      BY <1>1 DEF Group!Pending
    <2>2. UNION Group!Without(pel, claimed) = Group!Pending \ claimed
      BY UnionWithout DEF Group!Pending
    <2> QED BY <2>1, <2>2, <1>2
  <1>4. ripe' \subseteq pel'
    BY <1>1 DEF Group!Without, GroupSound
  <1>5. thread' \in [Thread -> [busy: BOOLEAN, batch: SUBSET (1..last), done: SUBSET handled]]
    BY <1>1, <1>2 DEF GroupSound, Group!Working
  <1> QED BY <1>1, <1>3, <1>4, <1>5 DEF GroupSound, Due, Group!Due

\* Threads that start over.
LEMMA RestSound ==
  ASSUME GroupSound, UNCHANGED <<length, last, pel, ripe, handled, evts>>,
         \/ thread' = [t \in Group!Thread |-> Group!Resting]
         \/ \E t \in Thread : thread' = [thread EXCEPT ![t] = Group!Resting]
  PROVE  GroupSound' /\ Due' = Due
  <1> DEFINE State == [busy: BOOLEAN, batch: SUBSET (1..last), done: SUBSET handled]
  <1>1. Group!Resting \in State
    BY DEF Group!Resting
  <1>2. Group!Thread = Thread /\ thread \in [Thread -> State]
    BY DEF Group!Thread, Thread, GroupSound
  <1> HIDE DEF State
  <1>3. thread' \in [Thread -> State]
    BY <1>1, <1>2
  <1> QED BY <1>3 DEF State, GroupSound, Due, Group!Due, Group!Pending

\* A thread that is busy with an event keeps it while the group moves on.
LEMMA GroupStepSound ==
  ASSUME GroupSound, GroupStep \/ RecoverStep
  PROVE  /\ GroupSound' /\ Due \subseteq Due' \cup handled' /\ UNCHANGED handled
         /\ \A t \in Thread : work[t] # Rest /\ thread[t].busy /\ thread[t].batch # thread[t].done
                                => thread'[t] = thread[t]
  <1>0. UNCHANGED <<evts, work>>
    BY DEF GroupStep, RecoverStep, elsewhere
  <1> DEFINE Stays(t) == work[t] # Rest /\ thread[t].busy /\ thread[t].batch # thread[t].done
                           => thread'[t] = thread[t]
  <1>1. CASE Group!ReadGroup
    <2>1. \E w : thread' = [thread EXCEPT !["read"] = w] /\ ~thread["read"].busy
      BY <1>1 DEF Group!ReadGroup
    <2>2. \A t \in Thread : Stays(t)
      BY <2>1 DEF GroupSound, Thread
    <2> QED BY <1>0, <1>1, <2>2, ReadSound DEF Group!ReadGroup
  <1>2. CASE Group!AutoClaim
    <2>1. \E w : thread' = [thread EXCEPT !["recover"] = w] /\ ~thread["recover"].busy
      BY <1>2 DEF Group!AutoClaim
    <2>2. \A t \in Thread : Stays(t)
      BY <2>1 DEF GroupSound, Thread
    <2> QED BY <1>0, <1>2, <2>2, ClaimSound DEF Group!AutoClaim
  <1>3. CASE \E t \in Thread : Group!AckBatch(t)
    <2> PICK t \in Thread : Group!AckBatch(t)
      BY <1>3
    <2>1. Group!AckDone(t) /\ thread[t].batch = thread[t].done
      BY DEF Group!AckBatch
    <2>2. \A u \in Thread : Stays(u)
      BY <2>1 DEF Group!AckDone, GroupSound
    <2> QED BY <1>0, <2>1, <2>2, AckSound DEF Group!AckDone
  <1>4. CASE \E t \in Thread : Group!AckFail(t) /\ work[t] = Rest
    <2> PICK t \in Thread : Group!AckFail(t) /\ work[t] = Rest
      BY <1>4
    <2>1. /\ thread' = [thread EXCEPT ![t] = Group!Resting]
          /\ UNCHANGED <<length, last, pel, ripe, handled>>
      BY DEF Group!AckFail
    <2>2. \A u \in Thread : Stays(u)
      BY <2>1 DEF GroupSound
    <2> QED BY <1>0, <2>1, <2>2, RestSound
  <1>5. CASE \E c \in pel : Group!Ripen(c)
    <2>1. UNCHANGED <<length, last, pel, thread, handled>> /\ ripe' \subseteq pel
      BY <1>5 DEF Group!Ripen, GroupSound
    <2> QED BY <1>0, <2>1 DEF GroupSound, Due, Group!Due, Group!Pending
  <1>6. CASE Group!ReadNothing
    <2>1. UNCHANGED <<length, last, pel, ripe, thread, handled>>
      BY <1>6 DEF Group!ReadNothing, Group!vars
    <2> QED BY <1>0, <2>1 DEF GroupSound, Due, Group!Due, Group!Pending
  <1> QED BY <1>1, <1>2, <1>3, <1>4, <1>5, <1>6 DEF GroupStep, RecoverStep
-----------------------------------------------------------------------------
(***************************************************************************)
(* Transactions.                                                           *)
(***************************************************************************)
LEMMA EntriesInside ==
  ASSUME GroupSound
  PROVE  /\ Due \subseteq DOMAIN evts /\ handled \subseteq DOMAIN evts
         /\ \A t \in Thread : thread[t].batch \subseteq DOMAIN evts
  BY DEF GroupSound, Due, Group!Due

LEMMA EntryTyped ==
  ASSUME GroupSound, NEW m \in DOMAIN evts PROVE evts[m] \in Entry /\ evts[m].note \in Note
  <1>1. evts \in Seq(Entry)
    BY DEF GroupSound
  <1>2. evts[m] \in Entry
    BY <1>1, ElementOfSeq
  <1> QED BY <1>2 DEF Entry

\* A new event is due.
LEMMA EmitSound ==
  ASSUME GroupSound, NEW type \in {"created", "updated", "deleted"}, NEW n \in Note, Emit(type, n)
  PROVE  /\ GroupSound' /\ UNCHANGED <<thread, handled>>
         /\ \A m \in DOMAIN evts : m \in DOMAIN evts' /\ evts'[m] = evts[m]
         /\ DOMAIN evts' = DOMAIN evts \cup {length'}
         /\ evts'[length'] = [type |-> type, note |-> n]
         /\ Due' = Due \cup {length'}
  <1> DEFINE e == [type |-> type, note |-> n]
  <1>1. /\ length' = length + 1 /\ UNCHANGED <<last, pel, ripe, thread, handled>>
        /\ evts' = Append(evts, e)
    BY DEF Emit, Group!Publish
  <1>2. e \in Entry
    BY DEF Entry
  <1> HIDE DEF e
  <1>3. /\ evts' \in Seq(Entry) /\ Len(evts') = length'
        /\ \A m \in DOMAIN evts : m \in DOMAIN evts' /\ evts'[m] = evts[m]
        /\ DOMAIN evts' = DOMAIN evts \cup {length'} /\ evts'[length'] = e
    <2>1. evts \in Seq(Entry) /\ Len(evts) = length
      BY DEF GroupSound
    <2> QED BY <2>1, <1>1, <1>2
  <1>4. (last + 1)..length' = (last + 1)..length \cup {length'}
    BY <1>1 DEF GroupSound
  <1>5. GroupSound'
    BY <1>1, <1>3 DEF GroupSound, Group!Pending
  <1> QED BY <1>1, <1>3, <1>4, <1>5 DEF Due, Group!Due, Group!Pending, e

\* It is true when its note is as it says, and no note it is beside comes
\* back or is forgotten.
LEMMA NewEventTrue ==
  ASSUME GroupSound, EventsTrue, NEW type \in {"created", "updated", "deleted"}, NEW n \in Note,
         Emit(type, n), note'[n] # "none", type = "deleted" => note'[n] = "deleted",
         \A k \in Note : \/ note'[k] = note[k] \/ note[k] = "none"
                        \/ note'[k] = "deleted"
  PROVE  EventsTrue'
  <1> SUFFICES ASSUME NEW m \in DOMAIN evts'
               PROVE  /\ note'[evts'[m].note] # "none"
                      /\ evts'[m].type = "deleted" => note'[evts'[m].note] = "deleted"
    BY DEF EventsTrue
  <1>1. CASE m \in DOMAIN evts
    <2>1. evts'[m] = evts[m] /\ evts[m].note \in Note
      BY <1>1, EmitSound, EntryTyped
    <2>2. note[evts[m].note] # "none"
      BY <1>1 DEF EventsTrue
    <2> QED BY <1>1, <2>1, <2>2 DEF EventsTrue
  <1>2. CASE m = length'
    BY <1>2, EmitSound
  <1>3. DOMAIN evts' = DOMAIN evts \cup {length'}
    BY EmitSound
  <1> QED BY <1>1, <1>2, <1>3

\* A transaction publishes a note with an event that is due, or deletes one.
LEMMA NotesMove ==
  ASSUME FeedInv, UNCHANGED <<zset, work, thread, handled>>, GroupSound', EngineTyped', EventsTrue',
         \A m \in DOMAIN evts : m \in DOMAIN evts' /\ evts'[m] = evts[m],
         Due \subseteq Due',
         \A n \in Note : note'[n] = "published" =>
                           \/ note[n] = "published"
                           \/ note[n] = "none" /\ DueFor(n)'
  PROVE  FeedInv'
  <1> USE DEF FeedInv
  <1>1. \A m \in DOMAIN evts : evts[m].note \in Note
    BY EntryTyped
  <1>2. \A n : DueFor(n) => DueFor(n)'
    BY EntriesInside DEF DueFor, Scores
  <1>3. \A n \in Published' : n \in Published \/ (note[n] = "none" /\ DueFor(n)')
    BY DEF Published
  <1>4. RescorerRests'
    BY DEF RescorerRests
  <1>5. WorkOnEvent'
    BY EntriesInside DEF WorkOnEvent, Handles
  <1>6. HandledIn'
    BY <1>1, <1>3, EntriesInside DEF HandledIn, EventsTrue, Scores
  <1>7. Kept' \/ Missing'
    BY <1>2, <1>3 DEF Kept, Missing
  <1> QED BY <1>4, <1>5, <1>6, <1>7

LEMMA TransactionKeeps ==
  ASSUME FeedInv, Transaction, ~stray' PROVE FeedInv'
  <1> USE DEF FeedInv
  <1> PICK n \in Note : \/ Create(n) \/ Updata(n) \/ DeleteByID(n) \/ DeleteMatchless(n)
                        \/ DeleteNoteByID(n)
    BY DEF Transaction
  <1>0. \A m \in DOMAIN evts : evts[m].note \in Note
    BY EntryTyped
  <1>1. CASE Create(n)
    <2>1. /\ note[n] = "none" /\ note' = [note EXCEPT ![n] = "published"]
          /\ Emit("created", n) /\ UNCHANGED <<zset, work>>
      BY <1>1 DEF Create
    <2>2. EngineTyped'
      BY <2>1 DEF EngineTyped
    <2>3. DueFor(n)'
      <3>1. length' \in Due' /\ evts'[length'] = [type |-> "created", note |-> n]
        BY <2>1, EmitSound
      <3> QED BY <3>1 DEF DueFor, Scores
    <2>4. EventsTrue'
      <3>1. \A k \in Note : note'[k] = IF k = n THEN "published" ELSE note[k]
        BY <2>1 DEF EngineTyped
      <3> QED BY <2>1, <3>1, NewEventTrue
    <2>5. \A k \in Note : note'[k] = "published" => note[k] = "published" \/ k = n
      BY <2>1 DEF EngineTyped
    <2> QED BY <2>1, <2>2, <2>3, <2>4, <2>5, EmitSound, NotesMove
  <1>2. CASE Updata(n)
    <2>1. /\ note[n] = "published" /\ note' = note
          /\ Emit("updated", n) /\ UNCHANGED <<zset, work>>
      BY <1>2 DEF Updata
    <2>2. EngineTyped'
      BY <2>1 DEF EngineTyped
    <2>3. EventsTrue'
      BY <2>1, NewEventTrue
    <2> QED BY <2>1, <2>2, <2>3, EmitSound, NotesMove
  <1>3. CASE DeleteByID(n)
    <2>1. /\ note[n] = "published" /\ note' = [note EXCEPT ![n] = "deleted"]
          /\ Emit("deleted", n) /\ UNCHANGED <<zset, work>>
      BY <1>3 DEF DeleteByID
    <2>2. EngineTyped' /\ \A k \in Note : note'[k] = IF k = n THEN "deleted" ELSE note[k]
      BY <2>1 DEF EngineTyped
    <2>3. EventsTrue'
      BY <2>1, <2>2, NewEventTrue
    <2> QED BY <2>1, <2>2, <2>3, EmitSound, NotesMove
  <1>4. CASE DeleteNoteByID(n)
    <2>1. /\ note' = [note EXCEPT ![n] = "deleted"] /\ note[n] = "published"
          /\ UNCHANGED <<length, last, pel, ripe, thread, handled, evts, zset, work>>
      BY <1>4 DEF DeleteNoteByID, groupVars
    <2>2. EngineTyped' /\ \A k \in Note : note'[k] = IF k = n THEN "deleted" ELSE note[k]
      BY <2>1 DEF EngineTyped
    <2>3. EventsTrue'
      BY <1>0, <2>1, <2>2 DEF EventsTrue
    <2>4. GroupSound' /\ Due' = Due
      BY <2>1 DEF GroupSound, Due, Group!Due, Group!Pending
    <2> QED BY <2>1, <2>2, <2>3, <2>4, NotesMove
  <1>5. ~DeleteMatchless(n)
    BY DEF DeleteMatchless
  <1> QED BY <1>1, <1>2, <1>3, <1>4, <1>5
-----------------------------------------------------------------------------
(***************************************************************************)
(* Steps that only move an actor on: nothing is added yet.                 *)
(***************************************************************************)
LEMMA ActorMoves ==
  ASSUME FeedInv, UNCHANGED <<groupVars, note, evts, zset>>,
         NEW a \in Actor \ {"rescorer"}, NEW w \in Work, work' = [work EXCEPT ![a] = w],
         Missing => w.pc \in {"idle", "list"} \/ (w.pc = "add" /\ w.list = Published),
         (a \in Thread /\ w.pc # "idle") =>
           \E n \in Note, type \in {"created", "updated"} :
             Handles(a, [type |-> type, note |-> n]) /\ w.for = {n}
  PROVE  FeedInv'
  <1> USE DEF FeedInv
  <1>1. UNCHANGED <<length, last, pel, ripe, thread, handled>>
    BY DEF groupVars
  <1>2. GroupSound' /\ EventsTrue' /\ HandledIn' /\ Due' = Due
    BY <1>1 DEF GroupSound, EventsTrue, HandledIn, Published, Scores, Due, Group!Due, Group!Pending
  <1>3. EngineTyped' /\ \A b \in Actor : work'[b] = IF b = a THEN w ELSE work[b]
    BY DEF EngineTyped
  <1>4. RescorerRests'
    BY <1>3 DEF RescorerRests, Actor, Loop
  <1>5. WorkOnEvent'
    <2>1. \A t, e : Handles(t, e)' <=> Handles(t, e)
      BY <1>1 DEF Handles
    <2>2. SUFFICES ASSUME NEW t \in Thread, work'[t].pc # "idle"
                   PROVE  \E n \in Note, type \in {"created", "updated"} :
                            Handles(t, [type |-> type, note |-> n]) /\ work'[t].for = {n}
      BY <2>1 DEF WorkOnEvent
    <2>3. CASE t = a
      BY <2>2, <2>3, <1>3
    <2>4. CASE t # a
      <3>1. work'[t] = work[t]
        BY <2>4, <1>3 DEF Thread, Actor, Loop
      <3> QED BY <2>2, <3>1 DEF WorkOnEvent
    <2> QED BY <2>3, <2>4
  <1>6. Kept' \/ Missing'
    <2>1. CASE Kept
      BY <2>1, <1>2, KeptStays
    <2>2. CASE Missing
      BY <2>2, <1>2, <1>3, MissingStays
    <2> QED BY <2>1, <2>2
  <1> QED BY <1>2, <1>3, <1>4, <1>5, <1>6

LEMMA UpsertKeeps ==
  ASSUME FeedInv, NEW t \in Thread, UpsertNoteScore(t) PROVE FeedInv'
  <1>1. PICK n \in Note, type \in {"created", "updated"} :
          Handles(t, [type |-> type, note |-> n]) /\ Ensure(t, {n}, "score")
    BY DEF UpsertNoteScore
  <1> DEFINE w == [pc |-> IF zset = {} THEN "list" ELSE "score", for |-> {n}, list |-> {}]
  <1>2. w \in Work /\ w.for = {n} /\ (Missing => w.pc = "list")
    BY DEF Work, Missing
  <1>3. work' = [work EXCEPT ![t] = w] /\ UNCHANGED <<groupVars, note, evts, zset>>
    BY <1>1 DEF UpsertNoteScore, Ensure
  <1>4. t \in Actor \ {"rescorer"}
    BY DEF Thread, Actor, Loop
  <1> HIDE DEF w
  <1> QED BY <1>1, <1>2, <1>3, <1>4, ActorMoves

LEMMA UpsertFlushedKeeps ==
  ASSUME FeedInv, NEW n \in Note, UpsertFlushed(n) PROVE FeedInv'
  <1> DEFINE w == [pc |-> IF zset = {} THEN "list" ELSE "score", for |-> {n}, list |-> {}]
  <1>1. w \in Work /\ (Missing => w.pc = "list")
    BY DEF Work, Missing
  <1>2. work' = [work EXCEPT !["flusher"] = w] /\ UNCHANGED <<groupVars, note, evts, zset>>
    BY DEF UpsertFlushed, Ensure
  <1>3. "flusher" \in Actor \ {"rescorer"} /\ "flusher" \notin Thread
    BY DEF Thread, Actor, Loop
  <1> HIDE DEF w
  <1> QED BY <1>1, <1>2, <1>3, ActorMoves

LEMMA GetFeedPageKeeps == ASSUME FeedInv, GetFeedPage PROVE FeedInv'
  <1> DEFINE w == [pc |-> "list", for |-> {}, list |-> {}]
  <1>1. w \in Work /\ w.pc = "list"
    BY DEF Work
  <1>2. work' = [work EXCEPT !["api"] = w] /\ UNCHANGED <<groupVars, note, evts, zset>>
    BY DEF GetFeedPage, Ensure
  <1>3. "api" \in Actor \ {"rescorer"} /\ "api" \notin Thread
    BY DEF Thread, Actor, Loop
  <1> HIDE DEF w
  <1> QED BY <1>1, <1>2, <1>3, ActorMoves

\* An actor that is busy is not the rescorer, and a thread has its event.
LEMMA BusyActor ==
  ASSUME FeedInv, NEW a \in Actor, work[a].pc # "idle"
  PROVE  /\ a \in Actor \ {"rescorer"} /\ work[a] \in Work
         /\ AfterEnsure(a) \in {"idle", "score"}
         /\ a \in Thread => \E n \in Note, type \in {"created", "updated"} :
                              Handles(a, [type |-> type, note |-> n]) /\ work[a].for = {n}
  <1>1. a # "rescorer"
    BY DEF FeedInv, RescorerRests, Rest
  <1> QED BY <1>1 DEF FeedInv, EngineTyped, WorkOnEvent, AfterEnsure

LEMMA ListAllKeeps ==
  ASSUME FeedInv, NEW a \in Actor, ListAllPublished(a) PROVE FeedInv'
  <1>1. work[a].pc = "list" /\ UNCHANGED <<groupVars, note, evts, zset>>
    BY DEF ListAllPublished
  <1>2. /\ a \in Actor \ {"rescorer"} /\ work[a] \in Work
        /\ AfterEnsure(a) \in {"idle", "score"}
        /\ a \in Thread => \E n \in Note, type \in {"created", "updated"} :
                             Handles(a, [type |-> type, note |-> n]) /\ work[a].for = {n}
    BY <1>1, BusyActor
  <1>3. CASE zset = {}
    <2> DEFINE w == [work[a] EXCEPT !.pc = "add", !.list = Published]
    <2>1. work' = [work EXCEPT ![a] = w]
      BY <1>3 DEF ListAllPublished
    <2>2. w \in Work /\ w.pc = "add" /\ w.list = Published /\ w.for = work[a].for
      BY <1>2 DEF Work, Published
    <2> HIDE DEF w
    <2> QED BY <1>1, <1>2, <2>1, <2>2, ActorMoves
  <1>4. CASE zset # {}
    <2> DEFINE w == [work[a] EXCEPT !.pc = AfterEnsure(a)]
    <2>1. work' = [work EXCEPT ![a] = w]
      BY <1>4 DEF ListAllPublished
    <2>2. w \in Work /\ w.for = work[a].for
      BY <1>2 DEF Work
    <2>3. ~Missing
      BY <1>4 DEF Missing
    <2> HIDE DEF w
    <2> QED BY <1>1, <1>2, <2>1, <2>2, <2>3, ActorMoves
  <1> QED BY <1>3, <1>4

LEMMA GetScoringKeeps ==
  ASSUME FeedInv, NEW a \in Actor, GetScoringFields(a) PROVE FeedInv'
  <1>1. work[a].pc = "score" /\ UNCHANGED <<groupVars, note, evts, zset>>
    BY DEF GetScoringFields
  <1>2. /\ a \in Actor \ {"rescorer"} /\ work[a] \in Work
        /\ a \in Thread => \E n \in Note, type \in {"created", "updated"} :
                             Handles(a, [type |-> type, note |-> n]) /\ work[a].for = {n}
    BY <1>1, BusyActor
  <1> DEFINE w == [work[a] EXCEPT !.pc = "zadd"]
  <1>3. work' = [work EXCEPT ![a] = w]
    BY DEF GetScoringFields
  <1>4. w \in Work /\ w.for = work[a].for
    BY <1>2 DEF Work
  <1>5. ~Missing
    BY <1>1 DEF Missing
  <1> HIDE DEF w
  <1> QED BY <1>1, <1>2, <1>3, <1>4, <1>5, ActorMoves
-----------------------------------------------------------------------------
(***************************************************************************)
(* Steps that change the ZSET or the group.                                *)
(***************************************************************************)
\* An actor rests, or goes on with its event; the other threads keep theirs.
LEMMA WorkStays ==
  ASSUME FeedInv, UNCHANGED <<note, evts>>, zset' \subseteq Note,
         NEW a \in Actor \ {"rescorer"}, NEW w \in Work, work' = [work EXCEPT ![a] = w],
         \A t \in Thread \ {a} : thread'[t] = thread[t],
         a \in Thread => \/ w.pc = "idle"
                         \/ thread'[a] = thread[a] /\ work[a].pc # "idle" /\ w.for = work[a].for
  PROVE  EngineTyped' /\ RescorerRests' /\ WorkOnEvent' /\ EventsTrue'
  <1> USE DEF FeedInv
  <1>1. EngineTyped' /\ \A b \in Actor : work'[b] = IF b = a THEN w ELSE work[b]
    BY DEF EngineTyped
  <1>2. RescorerRests' /\ EventsTrue'
    BY <1>1 DEF RescorerRests, Actor, Loop, EventsTrue
  <1>3. SUFFICES ASSUME NEW t \in Thread, work'[t].pc # "idle"
                 PROVE  \E n \in Note, type \in {"created", "updated"} :
                          Handles(t, [type |-> type, note |-> n])' /\ work'[t].for = {n}
    BY <1>1, <1>2 DEF WorkOnEvent
  <1>4. t \in Actor
    BY DEF Thread, Actor, Loop
  <1>5. thread'[t] = thread[t] /\ work[t].pc # "idle" /\ work'[t].for = work[t].for
    BY <1>1, <1>3, <1>4
  <1>6. \A e : Handles(t, e)' <=> Handles(t, e)
    BY <1>5 DEF Handles
  <1> QED BY <1>5, <1>6 DEF WorkOnEvent

\* The events a thread is about to handle are one.
LEMMA HandlesOne ==
  ASSUME GroupSound, NEW t \in Thread, NEW e, NEW f, Handles(t, e), Handles(t, f)
  PROVE  e = f
  <1>1. PICK m \in thread[t].batch \ thread[t].done :
          /\ \A k \in thread[t].batch \ thread[t].done : m <= k
          /\ e = evts[m]
    BY DEF Handles
  <1>2. PICK j \in thread[t].batch \ thread[t].done :
          /\ \A k \in thread[t].batch \ thread[t].done : j <= k
          /\ f = evts[j]
    BY DEF Handles
  <1>3. thread[t].batch \subseteq Nat
    BY DEF GroupSound
  <1>4. m <= j /\ j <= m /\ m \in Nat /\ j \in Nat
    BY <1>1, <1>2, <1>3
  <1> QED BY <1>1, <1>2, <1>4

\* The list of a rebuild completes the ZSET.
LEMMA ZAddFeedKeeps ==
  ASSUME FeedInv, NEW a \in Actor, ZAddFeed(a) PROVE FeedInv'
  <1> USE DEF FeedInv
  <1>1. /\ work[a].pc = "add" /\ zset' = zset \cup work[a].list
        /\ UNCHANGED <<groupVars, note, evts>>
    BY DEF ZAddFeed
  <1>2. /\ a \in Actor \ {"rescorer"} /\ work[a] \in Work
        /\ AfterEnsure(a) \in {"idle", "score"}
    BY <1>1, BusyActor
  <1> DEFINE w == [work[a] EXCEPT !.pc = AfterEnsure(a), !.list = {}]
  <1>3. work' = [work EXCEPT ![a] = w]
    BY DEF ZAddFeed
  <1>4. w \in Work /\ w.for = work[a].for /\ work[a].list \subseteq Note
    BY <1>2 DEF Work
  <1> HIDE DEF w
  <1>5. UNCHANGED <<length, last, pel, ripe, thread, handled>>
    BY <1>1 DEF groupVars
  <1>6. GroupSound' /\ Due' = Due
    BY <1>1, <1>5 DEF GroupSound, Due, Group!Due, Group!Pending
  <1>7. zset' \subseteq Note
    BY <1>1, <1>4 DEF EngineTyped
  <1>8. EngineTyped' /\ RescorerRests' /\ WorkOnEvent' /\ EventsTrue'
    BY <1>1, <1>2, <1>3, <1>4, <1>5, <1>7, WorkStays
  <1>9. HandledIn'
    BY <1>1, <1>5 DEF HandledIn, Published, Scores
  <1>10. Kept'
    BY <1>1, <1>6, ListCompletes DEF Kept, Published, DueFor, Scores
  <1> QED BY <1>6, <1>8, <1>9, <1>10

\* A single ZADD comes from somebody who knows that the ZSET exists.
LEMMA ZAddNoteKeeps ==
  ASSUME FeedInv, NEW a \in Actor, ZAddNote(a) PROVE FeedInv'
  <1> USE DEF FeedInv
  <1>1. /\ work[a].pc = "zadd" /\ zset' = zset \cup work[a].for
        /\ work' = [work EXCEPT ![a] = Rest]
        /\ UNCHANGED <<note, evts>>
    BY DEF ZAddNote
  <1>2. /\ a \in Actor \ {"rescorer"} /\ work[a] \in Work
        /\ a \in Thread => \E n \in Note, type \in {"created", "updated"} :
                             Handles(a, [type |-> type, note |-> n]) /\ work[a].for = {n}
    BY <1>1, BusyActor
  <1>3. Rest \in Work /\ Rest.pc = "idle"
    BY DEF Rest, Work
  <1>4. zset' \subseteq Note
    BY <1>1, <1>2 DEF EngineTyped, Work
  <1>5. /\ GroupSound' /\ Due' = Due /\ \A t \in Thread \ {a} : thread'[t] = thread[t]
        /\ \A m \in handled' : m \in handled \/ evts[m].note \in work[a].for
    <2>1. CASE a \in Thread
      <3>1. Group!HandleOk(a)
        BY <2>1 DEF ZAddNote
      <3>2. PICK n \in Note, type \in {"created", "updated"} :
              Handles(a, [type |-> type, note |-> n]) /\ work[a].for = {n}
        BY <2>1, <1>2
      <3>3. PICK m \in thread[a].batch :
              /\ evts[m] = [type |-> type, note |-> n] /\ handled' = handled \cup {m}
              /\ thread' = [thread EXCEPT ![a].done = @ \cup {m}]
              /\ UNCHANGED <<length, last, pel, ripe>>
        BY <2>1, <3>1, <3>2, HandlesFirst
      <3>4. GroupSound' /\ Due' = Due
        BY <2>1, <3>3, <1>1, HandleSound
      <3>5. \A t \in Thread \ {a} : thread'[t] = thread[t]
        BY <3>3 DEF GroupSound
      <3> QED BY <3>2, <3>3, <3>4, <3>5
    <2>2. CASE a \notin Thread
      <3>1. UNCHANGED <<length, last, pel, ripe, thread, handled>>
        BY <2>2 DEF ZAddNote, groupVars
      <3> QED BY <1>1, <3>1 DEF GroupSound, Due, Group!Due, Group!Pending
    <2> QED BY <2>1, <2>2
  <1>6. EngineTyped' /\ RescorerRests' /\ WorkOnEvent' /\ EventsTrue'
    BY <1>1, <1>2, <1>3, <1>4, <1>5, WorkStays
  <1>7. HandledIn'
    BY <1>1, <1>5 DEF HandledIn, Published, Scores
  <1>8. Kept
    BY <1>1, ScorerKept
  <1>9. Kept'
    BY <1>1, <1>5, <1>7, <1>8, KeptStays
  <1> QED BY <1>5, <1>6, <1>7, <1>9

\* A thread gives up at an event, and what it has handled is acked.
LEMMA GiveUpKeeps ==
  ASSUME FeedInv, NEW t \in Thread, Group!AckDone(t), UNCHANGED <<note, evts>>,
         work' = [work EXCEPT ![t] = Rest], zset' \subseteq Note,
         zset \cap Published \subseteq zset', Missing => zset' = {}
  PROVE  FeedInv'
  <1> USE DEF FeedInv
  <1>1. GroupSound' /\ Due \subseteq Due' \cup handled'
    BY AckSound
  <1>2. UNCHANGED handled /\ \A u \in Thread \ {t} : thread'[u] = thread[u]
    BY DEF Group!AckDone, GroupSound
  <1>3. t \in Actor \ {"rescorer"} /\ Rest \in Work /\ Rest.pc = "idle"
    BY DEF Thread, Actor, Loop, Rest, Work
  <1>4. EngineTyped' /\ RescorerRests' /\ WorkOnEvent' /\ EventsTrue'
    BY <1>2, <1>3, WorkStays
  <1>5. HandledIn'
    BY <1>2 DEF HandledIn, Published, Scores
  <1>6. CASE Kept
    BY <1>1, <1>4, <1>5, <1>6, KeptStays
  <1>7. CASE Missing
    <2>1. \A a \in Actor : work'[a] = work[a] \/ work'[a].pc = "idle"
      BY <1>3 DEF EngineTyped
    <2>2. UNCHANGED zset
      BY <1>7 DEF Missing
    <2> QED BY <1>1, <1>4, <1>5, <1>7, <2>1, <2>2, MissingStays
  <1> QED BY <1>6, <1>7

LEMMA NotFoundKeeps ==
  ASSUME FeedInv, NEW a \in Actor, ScoringFieldsNotFound(a) PROVE FeedInv'
  <1> USE DEF FeedInv
  <1>1. /\ work[a].pc = "score" /\ work' = [work EXCEPT ![a] = Rest]
        /\ UNCHANGED <<note, evts, zset>>
    BY DEF ScoringFieldsNotFound
  <1>2. zset' \subseteq Note /\ zset \cap Published \subseteq zset' /\ (Missing => zset' = {})
    BY <1>1 DEF EngineTyped, Missing
  <1>3. CASE a \in Thread
    <2>1. Group!AckDone(a)
      BY <1>3 DEF ScoringFieldsNotFound
    <2> QED BY <1>1, <1>2, <1>3, <2>1, GiveUpKeeps
  <1>4. CASE a \notin Thread
    <2>1. UNCHANGED groupVars
      BY <1>4 DEF ScoringFieldsNotFound
    <2>2. a \in Actor \ {"rescorer"}
      BY <1>1, BusyActor
    <2>3. Rest \in Work /\ Rest.pc = "idle"
      BY DEF Rest, Work
    <2> QED BY <1>1, <1>4, <2>1, <2>2, <2>3, ActorMoves
  <1> QED BY <1>3, <1>4

\* What a deletion takes out is deleted in the table.
LEMMA RemovalSpares ==
  ASSUME FeedInv, NEW t \in Thread, NEW n, Handles(t, [type |-> "deleted", note |-> n])
  PROVE  n \notin Published
  <1>1. PICK m \in thread[t].batch : evts[m] = [type |-> "deleted", note |-> n]
    BY DEF Handles
  <1>2. m \in DOMAIN evts
    BY EntriesInside DEF FeedInv
  <1> QED BY <1>1, <1>2 DEF FeedInv, EventsTrue, Published

LEMMA RemoveKeeps ==
  ASSUME FeedInv, NEW t \in Thread, RemoveNoteScore(t) PROVE FeedInv'
  <1> USE DEF FeedInv
  <1>1. PICK n \in Note : /\ Handles(t, [type |-> "deleted", note |-> n])
                          /\ zset' = zset \ {n}
    BY DEF RemoveNoteScore
  <1>2. Group!HandleOk(t) /\ UNCHANGED <<note, evts, work>>
    BY DEF RemoveNoteScore
  <1>3. PICK m \in thread[t].batch :
          /\ evts[m] = [type |-> "deleted", note |-> n] /\ handled' = handled \cup {m}
          /\ thread' = [thread EXCEPT ![t].done = @ \cup {m}]
          /\ UNCHANGED <<length, last, pel, ripe>>
    BY <1>1, <1>2, HandlesFirst
  <1>4. GroupSound' /\ Due' = Due
    BY <1>2, <1>3, HandleSound
  <1>5. zset' \subseteq Note /\ zset \cap Published \subseteq zset' /\ (Missing => zset' = zset)
    BY <1>1, RemovalSpares DEF EngineTyped, Missing
  <1>6. work[t].pc = "idle"
    <2> SUFFICES ASSUME work[t].pc # "idle" PROVE FALSE
      OBVIOUS
    <2>1. PICK k \in Note, type \in {"created", "updated"} : Handles(t, [type |-> type, note |-> k])
      BY DEF WorkOnEvent
    <2>2. [type |-> type, note |-> k] = [type |-> "deleted", note |-> n]
      BY <1>1, <2>1, HandlesOne
    <2> QED BY <2>2
  <1>7. t \in Actor \ {"rescorer"}
    BY DEF Thread, Actor, Loop
  <1>8. work' = [work EXCEPT ![t] = work[t]] /\ work[t] \in Work
    BY <1>2, <1>7 DEF EngineTyped
  <1>9. \A u \in Thread \ {t} : thread'[u] = thread[u]
    BY <1>3 DEF GroupSound
  <1>10. EngineTyped' /\ RescorerRests' /\ WorkOnEvent' /\ EventsTrue'
    BY <1>2, <1>5, <1>6, <1>7, <1>8, <1>9, WorkStays
  <1>11. HandledIn'
    BY <1>2, <1>3, <1>5 DEF HandledIn, Published, Scores
  <1>12. CASE Kept
    BY <1>2, <1>4, <1>5, <1>10, <1>11, <1>12, KeptStays
  <1>13. CASE Missing
    BY <1>2, <1>4, <1>5, <1>10, <1>11, <1>13, MissingStays
  <1> QED BY <1>12, <1>13

LEMMA HandleFailKeeps ==
  ASSUME FeedInv, NEW t \in Thread, HandleFail(t) PROVE FeedInv'
  <1> USE DEF FeedInv
  <1>1. /\ Group!AckDone(t) /\ work' = [work EXCEPT ![t] = Rest] /\ UNCHANGED <<note, evts>>
    BY DEF HandleFail, Group!HandleFail
  <1>2. zset' \subseteq Note /\ zset \cap Published \subseteq zset' /\ (Missing => zset' = {})
    <2>1. t \in Actor
      BY DEF Thread, Actor, Loop
    <2>2. CASE zset' = zset
      BY <2>2 DEF EngineTyped, Missing
    <2>3. CASE work[t].pc = "zadd" /\ zset' = zset \cup work[t].for
      BY <2>1, <2>3 DEF EngineTyped, Work, Missing
    <2>4. CASE \E n \in Note : Handles(t, [type |-> "deleted", note |-> n]) /\ zset' = zset \ {n}
      BY <2>4, RemovalSpares DEF EngineTyped, Missing
    <2> QED BY <2>2, <2>3, <2>4 DEF HandleFail
  <1> QED BY <1>1, <1>2, GiveUpKeeps

LEMMA GroupKeeps == ASSUME FeedInv, GroupStep \/ RecoverStep PROVE FeedInv'
  <1> USE DEF FeedInv
  <1>1. UNCHANGED <<note, evts, zset, work>>
    BY DEF GroupStep, RecoverStep, elsewhere
  <1>2. /\ GroupSound' /\ Due \subseteq Due' \cup handled' /\ UNCHANGED handled
        /\ \A t \in Thread : work[t] # Rest /\ thread[t].busy /\ thread[t].batch # thread[t].done
                               => thread'[t] = thread[t]
    BY GroupStepSound
  <1>3. EngineTyped' /\ RescorerRests' /\ EventsTrue' /\ HandledIn'
    BY <1>1, <1>2 DEF EngineTyped, RescorerRests, EventsTrue, HandledIn, Published, Scores
  <1>4. WorkOnEvent'
    <2> SUFFICES ASSUME NEW t \in Thread, work[t].pc # "idle"
                 PROVE  \E n \in Note, type \in {"created", "updated"} :
                          Handles(t, [type |-> type, note |-> n])' /\ work[t].for = {n}
      BY <1>1 DEF WorkOnEvent
    <2>1. PICK n \in Note, type \in {"created", "updated"} :
            Handles(t, [type |-> type, note |-> n]) /\ work[t].for = {n}
      BY DEF WorkOnEvent
    <2>2. work[t] # Rest /\ thread[t].busy /\ thread[t].batch # thread[t].done
      BY <2>1 DEF Rest, Handles
    <2>3. thread'[t] = thread[t]
      BY <2>2, <1>2
    <2> QED BY <1>1, <2>1, <2>3 DEF Handles
  <1>5. Kept' \/ Missing'
    <2>1. CASE Kept
      BY <2>1, <1>1, <1>2, <1>3, KeptStays
    <2>2. CASE Missing
      BY <2>2, <1>1, <1>2, <1>3, MissingStays
    <2> QED BY <2>1, <2>2
  <1> QED BY <1>2, <1>3, <1>4, <1>5

LEMMA CrashKeeps == ASSUME FeedInv, Crash PROVE FeedInv'
  <1> USE DEF FeedInv
  <1>1. /\ work' = [a \in Actor |-> IF a = "api" THEN work[a] ELSE Rest]
        /\ thread' = [t \in Group!Thread |-> Group!Resting]
        /\ UNCHANGED <<length, last, pel, ripe, handled, note, evts, zset>>
    BY DEF Crash, Group!Crash
  <1>2. GroupSound' /\ Due' = Due
    BY <1>1, RestSound
  <1>3. Rest \in Work /\ Rest.pc = "idle"
    BY DEF Rest, Work
  <1>4. EngineTyped' /\ \A a \in Actor : work'[a] = work[a] \/ work'[a] = Rest
    BY <1>1, <1>3 DEF EngineTyped
  <1>5. \A a \in Actor \ {"api"} : work'[a] = Rest
    BY <1>1
  <1>6. RescorerRests' /\ WorkOnEvent'
    BY <1>3, <1>5 DEF RescorerRests, WorkOnEvent, Thread, Actor, Loop
  <1>7. EventsTrue' /\ HandledIn'
    BY <1>1 DEF EventsTrue, HandledIn, Published, Scores
  <1>8. Kept' \/ Missing'
    <2>1. CASE Kept
      BY <2>1, <1>1, <1>2, <1>7, KeptStays
    <2>2. CASE Missing
      BY <2>2, <1>1, <1>2, <1>3, <1>4, <1>7, MissingStays
    <2> QED BY <2>1, <2>2
  <1> QED BY <1>2, <1>4, <1>6, <1>7, <1>8
-----------------------------------------------------------------------------
(***************************************************************************)
(* No published note is left out, until the rescorer runs.                 *)
(***************************************************************************)
LEMMA FeedInvInit == ASSUME Init PROVE FeedInv
  <1>1. /\ length = 0 /\ last = 0 /\ pel = {} /\ ripe = {} /\ handled = {} /\ evts = <<>>
        /\ thread = [t \in Group!Thread |-> Group!Resting]
        /\ note \in [Note -> {"none", "published"}] /\ zset \in {{}, Published}
        /\ work = [a \in Actor |-> Rest]
    BY DEF Init, Group!Init
  <1>2. GroupSound
    <2>1. Group!Pending = {}
      BY <1>1 DEF Group!Pending
    <2>2. thread \in [Thread -> [busy: BOOLEAN, batch: SUBSET (1..last), done: SUBSET handled]]
      BY <1>1 DEF Group!Thread, Group!Resting, Thread
    <2>3. evts \in Seq(Entry) /\ Len(evts) = length
      BY <1>1
    <2>4. length \in Nat /\ last \in 0..length
      BY <1>1
    <2> QED BY <1>1, <2>1, <2>2, <2>3, <2>4 DEF GroupSound
  <1>3. Rest \in Work /\ Rest.pc = "idle"
    BY DEF Rest, Work
  <1>4. \A a \in Actor : work[a] = Rest
    BY <1>1
  <1>5. EngineTyped
    BY <1>1, <1>3 DEF EngineTyped, Published
  <1>6. RescorerRests /\ WorkOnEvent
    BY <1>3, <1>4 DEF RescorerRests, WorkOnEvent, Thread, Actor, Loop
  <1>7. EventsTrue /\ HandledIn
    BY <1>1 DEF EventsTrue, HandledIn
  <1>8. Kept \/ Missing
    BY <1>1, <1>3, <1>4 DEF Kept, Missing
  <1> QED BY <1>2, <1>5, <1>6, <1>7, <1>8 DEF FeedInv

LEMMA FeedInvStutter == ASSUME FeedInv, UNCHANGED vars PROVE FeedInv'
  <1>1. UNCHANGED <<length, last, pel, ripe, thread, handled, note, evts, zset, work>>
    BY DEF vars, groupVars, elsewhere
  <1>2. GroupSound' /\ EngineTyped' /\ RescorerRests' /\ EventsTrue' /\ HandledIn' /\ Due' = Due
    <2>1. GroupSound' /\ Due' = Due
      BY <1>1 DEF FeedInv, GroupSound, Due, Group!Due, Group!Pending
    <2>2. EngineTyped' /\ RescorerRests' /\ EventsTrue'
      BY <1>1 DEF FeedInv, EngineTyped, RescorerRests, EventsTrue
    <2>3. HandledIn'
      BY <1>1 DEF FeedInv, HandledIn, Published, Scores
    <2> QED BY <2>1, <2>2, <2>3
  <1>3. WorkOnEvent'
    <2>1. \A t, e : Handles(t, e)' <=> Handles(t, e)
      BY <1>1 DEF Handles
    <2> QED BY <1>1, <2>1 DEF FeedInv, WorkOnEvent
  <1>4. (\A n : DueFor(n)' = DueFor(n)) /\ Published' = Published
    BY <1>1, <1>2 DEF DueFor, Scores, Published
  <1>5. Kept' \/ Missing'
    BY <1>1, <1>4 DEF FeedInv, Kept, Missing
  <1> QED BY <1>2, <1>3, <1>5 DEF FeedInv

\* What has happened stays in the histories.
LEMMA HistoryGrows == ASSUME [Next]_vars PROVE ran \subseteq ran' /\ (stray => stray')
  <1>1. CASE Transaction
    BY <1>1 DEF Transaction, Create, Updata, DeleteByID, DeleteMatchless, DeleteNoteByID, history
  <1>2. CASE \E t \in Thread : UpsertNoteScore(t) \/ RemoveNoteScore(t) \/ HandleFail(t)
    BY <1>2 DEF UpsertNoteScore, RemoveNoteScore, HandleFail, history
  <1>3. CASE \E a \in Actor : EngineStep(a)
    BY <1>3 DEF EngineStep, ListAllPublished, ZAddFeed, GetScoringFields, ScoringFieldsNotFound,
                ZAddNote, history
  <1>4. CASE \E n \in Note : UpsertFlushed(n) \/ RescoreNote(n)
    BY <1>4 DEF UpsertFlushed, RescoreNote, history
  <1>5. CASE ZCard \/ CountPublished \/ DeleteEngine \/ EnsureDeleted \/ ListSince
    BY <1>5 DEF ZCard, CountPublished, DeleteEngine, EnsureDeleted, ListSince, history
  <1>6. CASE GetFeedPage \/ GroupStep \/ RecoverStep \/ Crash
    BY <1>6 DEF GetFeedPage, GroupStep, RecoverStep, Crash, history, elsewhere
  <1>7. CASE UNCHANGED vars
    BY <1>7 DEF vars, elsewhere, history
  <1> QED BY <1>1, <1>2, <1>3, <1>4, <1>5, <1>6, <1>7 DEF Next

LEMMA FeedInvKept == ASSUME FeedInv, [Next]_vars, Regular' PROVE FeedInv'
  <1>1. CASE Transaction
    BY <1>1, TransactionKeeps DEF Regular
  <1>2. CASE \E t \in Thread : UpsertNoteScore(t) \/ RemoveNoteScore(t) \/ HandleFail(t)
    BY <1>2, UpsertKeeps, RemoveKeeps, HandleFailKeeps
  <1>3. CASE \E a \in Actor : EngineStep(a)
    BY <1>3, ListAllKeeps, ZAddFeedKeeps, GetScoringKeeps, NotFoundKeeps, ZAddNoteKeeps
       DEF EngineStep
  <1>4. CASE \E n \in Note : UpsertFlushed(n)
    BY <1>4, UpsertFlushedKeeps
  <1>5. CASE GetFeedPage
    BY <1>5, GetFeedPageKeeps
  <1>6. CASE GroupStep \/ RecoverStep
    BY <1>6, GroupKeeps
  <1>7. CASE Crash
    BY <1>7, CrashKeeps
  <1>8. CASE UNCHANGED vars
    BY <1>8, FeedInvStutter
  <1>9. /\ ~ \E n \in Note : RescoreNote(n)
        /\ ~ ZCard /\ ~ CountPublished /\ ~ DeleteEngine /\ ~ EnsureDeleted /\ ~ ListSince
    BY DEF FeedInv, RescorerRests, Rest, Regular, RescoreNote, ZCard, CountPublished,
           DeleteEngine, EnsureDeleted, ListSince
  <1> QED
    BY <1>1, <1>2, <1>3, <1>4, <1>5, <1>6, <1>7, <1>8, <1>9 DEF Next

LEMMA FeedInvariant == Spec => [](Regular => FeedInv)
  <1>1. Init => (Regular => FeedInv)
    BY FeedInvInit
  <1>2. (Regular => FeedInv) /\ [Next]_vars => (Regular => FeedInv)'
    BY HistoryGrows, FeedInvKept DEF Regular
  <1> QED BY <1>1, <1>2, PTL DEF Spec

(***************************************************************************)
(* Until the rescorer runs or a delete matches no row, no published note   *)
(* is left out of a ZSET there is, however the two loops of the group, the *)
(* flusher and the readers that rebuild it interleave, fail or restart     *)
(* (README.md:46, feed_service.go:621-637).                                *)
(***************************************************************************)
THEOREM NoneForgottenHolds == Spec => []NoneForgotten
  <1>1. (Regular => FeedInv) => NoneForgotten
    BY DEF Regular, FeedInv, Kept, Missing, DueFor, NoneForgotten, OnItsWay
  <1> QED BY <1>1, FeedInvariant, PTL
-----------------------------------------------------------------------------
(***************************************************************************)
(* What is removed stays out, while the read loop is alone: until another  *)
(* loop has done something entries are handled once and in their order, a  *)
(* deletion is the last event of its note, and neither the list of a       *)
(* rebuild nor the note in hand is one whose deletion is handled.          *)
(***************************************************************************)
Undisturbed == ran = {} /\ ~stray

OthersRest == (\A a \in Actor \ {"read"} : work[a] = Rest) /\ ~thread["recover"].busy

InOrder == \A m \in handled, k \in thread["read"].batch \ thread["read"].done : m < k

DeletedLast ==
  \A m, k \in DOMAIN evts : m < k /\ evts[m].type = "deleted" => evts[k].note # evts[m].note

\* Notes whose deletion is handled.
Gone == {evts[m].note : m \in {k \in handled : evts[k].type = "deleted"}}

RemovedOut ==
  /\ Gone \cap zset = {} /\ Gone \cap work["read"].list = {}
  /\ work["read"].pc # "add" => work["read"].list = {}

AloneInv == OthersRest /\ InOrder /\ DeletedLast /\ RemovedOut

LEMMA OnlyRead ==
  ASSUME OthersRest
  PROVE  /\ \A t \in Thread : thread[t].busy => t = "read"
         /\ \A a \in Actor : work[a].pc # "idle" => a = "read"
  BY DEF OthersRest, Thread, Rest

\* A note in hand is none of them.
LEMMA HandNotGone ==
  ASSUME FeedInv, AloneInv, NEW e, Handles("read", e), NEW n, e.note = n
  PROVE  n \notin Gone
  <1>1. PICK m \in thread["read"].batch \ thread["read"].done : e = evts[m]
    BY DEF Handles
  <1>2. SUFFICES ASSUME NEW j \in handled, evts[j].type = "deleted", evts[j].note = n
                 PROVE  FALSE
    BY DEF Gone
  <1>3. j < m
    BY <1>1, <1>2 DEF AloneInv, InOrder
  <1>4. j \in DOMAIN evts /\ m \in DOMAIN evts
    BY <1>1, EntriesInside DEF FeedInv, Thread
  <1> QED BY <1>1, <1>2, <1>3, <1>4 DEF AloneInv, DeletedLast

\* Nor is one that is published.
LEMMA PublishedNotGone == ASSUME FeedInv PROVE Gone \cap Published = {}
  <1> SUFFICES ASSUME NEW j \in handled, evts[j].type = "deleted", evts[j].note \in Published
               PROVE  FALSE
    BY DEF Gone
  <1>1. j \in DOMAIN evts
    BY EntriesInside DEF FeedInv
  <1> QED BY <1>1 DEF FeedInv, EventsTrue, Published

LEMMA AloneMoves ==
  ASSUME FeedInv, AloneInv, UNCHANGED evts, NEW w, work' = [work EXCEPT !["read"] = w],
         ~thread'["recover"].busy, InOrder', Gone' \cap zset' = {}, Gone' \cap w.list = {},
         w.pc # "add" => w.list = {}
  PROVE  AloneInv'
  <1>1. \A a \in Actor : work'[a] = IF a = "read" THEN w ELSE work[a]
    BY DEF FeedInv, EngineTyped
  <1>2. "read" \in Actor
    BY DEF Actor
  <1>3. OthersRest'
    BY <1>1 DEF AloneInv, OthersRest
  <1>4. DeletedLast'
    BY DEF AloneInv, DeletedLast
  <1>5. RemovedOut'
    BY <1>1, <1>2 DEF RemovedOut
  <1> QED BY <1>3, <1>4, <1>5 DEF AloneInv

\* The group is as it was.
LEMMA AloneWorks ==
  ASSUME FeedInv, AloneInv, UNCHANGED <<groupVars, evts>>, NEW w,
         work' = [work EXCEPT !["read"] = w], Gone \cap zset' = {}, Gone \cap w.list = {},
         w.pc # "add" => w.list = {}
  PROVE  AloneInv'
  <1>1. UNCHANGED <<thread, handled>>
    BY DEF groupVars
  <1>2. ~thread'["recover"].busy /\ InOrder' /\ Gone' = Gone
    BY <1>1 DEF AloneInv, OthersRest, InOrder, Gone
  <1> QED BY <1>2, AloneMoves

\* The read loop is through with its batch.
LEMMA AloneRests ==
  ASSUME FeedInv, AloneInv, UNCHANGED <<handled, evts>>, NEW t \in Thread, t = "read",
         thread' = [thread EXCEPT ![t] = Group!Resting], NEW w, w = Rest,
         work' = [work EXCEPT !["read"] = w], Gone \cap zset' = {}
  PROVE  AloneInv'
  <1>1. thread'["read"].batch = {} /\ thread'["recover"] = thread["recover"]
    BY DEF FeedInv, GroupSound, Group!Resting, Thread
  <1>2. ~thread'["recover"].busy /\ InOrder' /\ Gone' = Gone
    BY <1>1 DEF AloneInv, OthersRest, InOrder, Gone
  <1>3. w.list = {}
    BY DEF Rest
  <1> QED BY <1>2, <1>3, AloneMoves

\* The next event is handled.
LEMMA AloneHandles ==
  ASSUME FeedInv, AloneInv, UNCHANGED evts, NEW e, Handles("read", e), Group!HandleOk("read"),
         NEW w, w.list = {}, work' = [work EXCEPT !["read"] = w],
         zset' \cap Gone = {}, e.type = "deleted" => e.note \notin zset'
  PROVE  AloneInv'
  <1>1. "read" \in Thread
    BY DEF Thread
  <1>2. PICK m \in thread["read"].batch \ thread["read"].done :
          /\ \A k \in thread["read"].batch \ thread["read"].done : m <= k
          /\ handled' = handled \cup {m}
          /\ thread' = [thread EXCEPT !["read"].done = @ \cup {m}]
    BY DEF Group!HandleOk
  <1>3. e = evts[m]
    <2>1. Handles("read", evts[m])
      BY <1>2 DEF Handles, Group!HandleOk
    <2> QED BY <1>1, <2>1, HandlesOne DEF FeedInv
  <1>4. /\ thread'["recover"] = thread["recover"]
        /\ thread'["read"].batch = thread["read"].batch
        /\ thread'["read"].done = thread["read"].done \cup {m}
        /\ thread["read"].batch \subseteq Nat
    BY <1>2 DEF FeedInv, GroupSound, Thread
  <1>5. InOrder'
    BY <1>2, <1>4 DEF AloneInv, InOrder
  <1>6. Gone' \cap zset' = {}
    BY <1>2, <1>3 DEF Gone
  <1>7. ~thread'["recover"].busy
    BY <1>4 DEF AloneInv, OthersRest
  <1> QED BY <1>5, <1>6, <1>7, AloneMoves

LEMMA AloneTransaction ==
  ASSUME FeedInv, AloneInv, Transaction, ~stray'
  PROVE  AloneInv'
  <1> PICK n \in Note : \/ Create(n) \/ Updata(n) \/ DeleteByID(n) \/ DeleteMatchless(n)
                        \/ DeleteNoteByID(n)
    BY DEF Transaction
  <1>1. ~DeleteMatchless(n)
    BY DEF DeleteMatchless
  <1>2. CASE DeleteNoteByID(n)
    <2>1. UNCHANGED <<thread, handled, evts, zset, work>>
      BY <1>2 DEF DeleteNoteByID, groupVars
    <2> QED BY <2>1 DEF AloneInv, OthersRest, InOrder, DeletedLast, RemovedOut, Gone
  <1>3. CASE Create(n) \/ Updata(n) \/ DeleteByID(n)
    <2>1. PICK type \in {"created", "updated", "deleted"} : Emit(type, n)
      BY <1>3 DEF Create, Updata, DeleteByID
    <2>2. note[n] # "deleted" /\ UNCHANGED <<zset, work>>
      BY <1>3 DEF Create, Updata, DeleteByID
    <2>3. /\ UNCHANGED <<thread, handled>> /\ DOMAIN evts' = DOMAIN evts \cup {length'}
          /\ \A m \in DOMAIN evts : evts'[m] = evts[m]
          /\ evts'[length'] = [type |-> type, note |-> n]
      BY <2>1, EmitSound DEF FeedInv
    <2>4. length' = length + 1 /\ length \in Nat /\ DOMAIN evts = 1..length
      BY <2>1 DEF Emit, Group!Publish, FeedInv, GroupSound
    <2>5. DeletedLast'
      <3> SUFFICES ASSUME NEW m \in DOMAIN evts', NEW k \in DOMAIN evts', m < k,
                          evts'[m].type = "deleted"
                   PROVE  evts'[k].note # evts'[m].note
        BY DEF DeletedLast
      <3>1. m \in DOMAIN evts /\ evts'[m] = evts[m]
        BY <2>3, <2>4
      <3>2. CASE k \in DOMAIN evts
        BY <2>3, <3>1, <3>2 DEF AloneInv, DeletedLast
      <3>3. CASE k = length'
        BY <2>2, <2>3, <3>1, <3>3 DEF FeedInv, EventsTrue
      <3> QED BY <2>3, <3>2, <3>3
    <2>6. Gone' = Gone
      BY <2>3, EntriesInside DEF Gone, FeedInv
    <2> QED BY <2>2, <2>3, <2>5, <2>6 DEF AloneInv, OthersRest, InOrder, RemovedOut
  <1> QED BY <1>1, <1>2, <1>3

LEMMA AloneThread ==
  ASSUME FeedInv, AloneInv, NEW t \in Thread,
         UpsertNoteScore(t) \/ RemoveNoteScore(t) \/ HandleFail(t)
  PROVE  AloneInv'
  <1>1. t = "read"
    BY OnlyRead DEF AloneInv, UpsertNoteScore, RemoveNoteScore, HandleFail, Handles,
                    Group!HandleFail
  <1>2. CASE UpsertNoteScore(t)
    <2>1. PICK n \in Note : Ensure(t, {n}, "score")
      BY <1>2 DEF UpsertNoteScore
    <2> DEFINE w == [pc |-> IF zset = {} THEN "list" ELSE "score", for |-> {n}, list |-> {}]
    <2>2. work' = [work EXCEPT !["read"] = w] /\ w.list = {}
      BY <1>1, <2>1 DEF Ensure
    <2>3. UNCHANGED <<groupVars, evts, zset>>
      BY <1>2 DEF UpsertNoteScore
    <2> HIDE DEF w
    <2> QED BY <2>2, <2>3, AloneWorks DEF AloneInv, RemovedOut
  <1>3. CASE RemoveNoteScore(t)
    <2>1. PICK n \in Note : /\ Handles("read", [type |-> "deleted", note |-> n])
                            /\ zset' = zset \ {n}
      BY <1>1, <1>3 DEF RemoveNoteScore
    <2>2. Group!HandleOk("read") /\ UNCHANGED <<evts, work>>
      BY <1>1, <1>3 DEF RemoveNoteScore
    <2>3. work["read"].pc = "idle"
      <3> SUFFICES ASSUME work["read"].pc # "idle" PROVE FALSE
        OBVIOUS
      <3>1. PICK k \in Note, type \in {"created", "updated"} :
              Handles("read", [type |-> type, note |-> k])
        BY <1>1 DEF FeedInv, WorkOnEvent
      <3>2. [type |-> type, note |-> k] = [type |-> "deleted", note |-> n]
        BY <1>1, <2>1, <3>1, HandlesOne DEF FeedInv
      <3> QED BY <3>2
    <2>4. work' = [work EXCEPT !["read"] = work["read"]] /\ work["read"].list = {}
      BY <2>2, <2>3 DEF FeedInv, EngineTyped, AloneInv, RemovedOut
    <2>5. zset' \cap Gone = {} /\ n \notin zset'
      BY <2>1 DEF AloneInv, RemovedOut
    <2>6. PICK e : e = [type |-> "deleted", note |-> n]
      OBVIOUS
    <2>7. Handles("read", e) /\ (e.type = "deleted" => e.note \notin zset')
      BY <2>1, <2>5, <2>6
    <2> QED BY <2>2, <2>4, <2>5, <2>7, AloneHandles
  <1>4. CASE HandleFail(t)
    <2>1. /\ thread' = [thread EXCEPT ![t] = Group!Resting] /\ UNCHANGED <<handled, evts>>
          /\ work' = [work EXCEPT !["read"] = Rest]
      BY <1>1, <1>4 DEF HandleFail, Group!HandleFail, Group!AckDone
    <2>2. Gone \cap zset' = {}
      <3>1. CASE work[t].pc = "zadd" /\ zset' = zset \cup work[t].for
        <4>1. PICK n \in Note, type \in {"created", "updated"} :
                Handles(t, [type |-> type, note |-> n]) /\ work[t].for = {n}
          BY <3>1 DEF FeedInv, WorkOnEvent
        <4> QED BY <1>1, <3>1, <4>1, HandNotGone DEF AloneInv, RemovedOut
      <3>2. CASE zset' \subseteq zset
        BY <3>2 DEF AloneInv, RemovedOut
      <3> QED BY <1>4, <3>1, <3>2 DEF HandleFail
    <2> QED BY <1>1, <2>1, <2>2, AloneRests
  <1> QED BY <1>2, <1>3, <1>4

LEMMA AloneEngine ==
  ASSUME FeedInv, AloneInv, NEW a \in Actor, EngineStep(a)
  PROVE  AloneInv'
  <1>1. work[a].pc # "idle"
    BY DEF EngineStep, ListAllPublished, ZAddFeed, GetScoringFields, ScoringFieldsNotFound, ZAddNote
  <1>2. a = "read" /\ a \in Thread
    BY <1>1, OnlyRead DEF AloneInv, Thread
  <1>3. PICK n \in Note, type \in {"created", "updated"} :
          Handles("read", [type |-> type, note |-> n]) /\ work[a].for = {n}
    BY <1>1, <1>2 DEF FeedInv, WorkOnEvent
  <1>4. n \notin Gone
    BY <1>3, HandNotGone
  <1>5. work[a] \in Work
    BY DEF FeedInv, EngineTyped
  <1>6. Gone \cap zset = {} /\ (work[a].pc # "add" => work[a].list = {})
        /\ Gone \cap work[a].list = {}
    BY <1>2 DEF AloneInv, RemovedOut
  <1>7. CASE ListAllPublished(a)
    <2> DEFINE w == IF zset = {} THEN [work[a] EXCEPT !.pc = "add", !.list = Published]
                                 ELSE [work[a] EXCEPT !.pc = AfterEnsure(a)]
    <2>1. work' = [work EXCEPT !["read"] = w] /\ UNCHANGED <<groupVars, evts, zset>>
      BY <1>2, <1>7 DEF ListAllPublished
    <2>2. AfterEnsure(a) # "add" /\ work[a].list = {}
      BY <1>2, <1>6, <1>7 DEF AfterEnsure, ListAllPublished
    <2>3. Gone \cap w.list = {} /\ (w.pc # "add" => w.list = {})
      BY <1>5, <2>2, PublishedNotGone DEF Work
    <2> HIDE DEF w
    <2> QED BY <1>6, <2>1, <2>3, AloneWorks
  <1>8. CASE ZAddFeed(a)
    <2> DEFINE w == [work[a] EXCEPT !.pc = AfterEnsure(a), !.list = {}]
    <2>1. /\ work' = [work EXCEPT !["read"] = w] /\ UNCHANGED <<groupVars, evts>>
          /\ zset' = zset \cup work[a].list
      BY <1>2, <1>8 DEF ZAddFeed
    <2>2. w.list = {} /\ Gone \cap zset' = {}
      BY <1>5, <1>6, <2>1 DEF Work
    <2> HIDE DEF w
    <2> QED BY <2>1, <2>2, AloneWorks
  <1>9. CASE GetScoringFields(a)
    <2> DEFINE w == [work[a] EXCEPT !.pc = "zadd"]
    <2>1. work' = [work EXCEPT !["read"] = w] /\ UNCHANGED <<groupVars, evts, zset>>
      BY <1>2, <1>9 DEF GetScoringFields
    <2>2. w.list = {}
      BY <1>5, <1>6, <1>9 DEF Work, GetScoringFields
    <2> HIDE DEF w
    <2> QED BY <1>6, <2>1, <2>2, AloneWorks
  <1>10. CASE ScoringFieldsNotFound(a)
    <2>1. /\ thread' = [thread EXCEPT ![a] = Group!Resting] /\ UNCHANGED <<handled, evts, zset>>
          /\ work' = [work EXCEPT !["read"] = Rest]
      BY <1>2, <1>10 DEF ScoringFieldsNotFound, Group!AckDone
    <2> QED BY <1>2, <1>6, <2>1, AloneRests
  <1>11. CASE ZAddNote(a)
    <2>1. /\ work' = [work EXCEPT !["read"] = Rest] /\ UNCHANGED evts
          /\ zset' = zset \cup {n} /\ Group!HandleOk("read")
      BY <1>2, <1>3, <1>11 DEF ZAddNote
    <2>2. Rest.list = {} /\ zset' \cap Gone = {}
      BY <1>4, <1>6, <2>1 DEF Rest
    <2>3. [type |-> type, note |-> n].type # "deleted"
      OBVIOUS
    <2> QED BY <1>3, <2>1, <2>2, <2>3, AloneHandles
  <1> QED BY <1>7, <1>8, <1>9, <1>10, <1>11 DEF EngineStep

LEMMA AloneGroup == ASSUME FeedInv, AloneInv, GroupStep PROVE AloneInv'
  <1>1. UNCHANGED <<evts, zset, work>>
    BY DEF GroupStep, elsewhere
  <1>2. UNCHANGED handled /\ Gone' = Gone
    <2>1. UNCHANGED handled
      BY GroupStepSound DEF FeedInv
    <2> QED BY <1>1, <2>1 DEF Gone
  <1>3. ~thread'["recover"].busy /\ InOrder'
    <2>1. CASE Group!ReadGroup
      <3>1. PICK n : thread' = [thread EXCEPT !["read"] = Group!Working((last + 1)..(last + n))]
        BY <2>1 DEF Group!ReadGroup
      <3>2. /\ thread'["recover"] = thread["recover"] /\ thread'["read"].batch = (last + 1)..(last + n)
            /\ handled \subseteq 1..last /\ last \in Nat
        BY <3>1 DEF FeedInv, GroupSound, Group!Working, Thread
      <3> QED BY <1>2, <3>2 DEF InOrder, AloneInv, OthersRest
    <2>2. CASE \E t \in Thread : Group!AckBatch(t) \/ Group!AckFail(t)
      <3>1. thread' = [thread EXCEPT !["read"] = Group!Resting]
        BY <2>2, OnlyRead DEF AloneInv, Group!AckBatch, Group!AckDone, Group!AckFail
      <3>2. thread'["recover"] = thread["recover"] /\ thread'["read"].batch = {}
        BY <3>1 DEF FeedInv, GroupSound, Group!Resting, Thread
      <3> QED BY <3>2 DEF InOrder, AloneInv, OthersRest
    <2>3. CASE Group!ReadNothing \/ \E c \in pel : Group!Ripen(c)
      <3>1. UNCHANGED thread
        BY <2>3 DEF Group!ReadNothing, Group!Ripen, Group!vars
      <3> QED BY <1>2, <3>1 DEF InOrder, AloneInv, OthersRest
    <2> QED BY <2>1, <2>2, <2>3 DEF GroupStep
  <1> QED BY <1>1, <1>2, <1>3 DEF AloneInv, OthersRest, DeletedLast, RemovedOut

LEMMA AloneCrash == ASSUME FeedInv, AloneInv, Crash PROVE AloneInv'
  <1>1. /\ work' = [a \in Actor |-> IF a = "api" THEN work[a] ELSE Rest]
        /\ thread' = [t \in Group!Thread |-> Group!Resting]
        /\ UNCHANGED <<handled, evts, zset>>
    BY DEF Crash, Group!Crash
  <1>2. /\ \A t \in Thread : ~thread'[t].busy /\ thread'[t].batch = {}
        /\ "read" \in Thread /\ "recover" \in Thread
    BY <1>1 DEF Group!Thread, Group!Resting, Thread
  <1>3. \A a \in Actor : work'[a] = Rest \/ work'[a] = work[a]
    BY <1>1
  <1>4. work'["read"] = Rest /\ Rest.list = {}
    BY <1>1 DEF Actor, Rest
  <1> QED BY <1>1, <1>2, <1>3, <1>4 DEF AloneInv, OthersRest, InOrder, DeletedLast, RemovedOut, Gone

LEMMA AloneInit == ASSUME Init PROVE AloneInv
  <1>1. /\ handled = {} /\ evts = <<>> /\ work = [a \in Actor |-> Rest]
        /\ thread = [t \in Group!Thread |-> Group!Resting]
    BY DEF Init, Group!Init
  <1>2. ~thread["recover"].busy
    BY <1>1 DEF Group!Thread, Group!Resting
  <1>3. work["read"] = Rest /\ Rest.list = {}
    BY <1>1 DEF Actor, Rest
  <1> QED BY <1>1, <1>2, <1>3 DEF AloneInv, OthersRest, InOrder, DeletedLast, RemovedOut, Gone

LEMMA AloneKept == ASSUME FeedInv, AloneInv, [Next]_vars, Undisturbed' PROVE AloneInv'
  <1>1. CASE Transaction
    BY <1>1, AloneTransaction DEF Undisturbed
  <1>2. CASE \E t \in Thread : UpsertNoteScore(t) \/ RemoveNoteScore(t) \/ HandleFail(t)
    BY <1>2, AloneThread
  <1>3. CASE \E a \in Actor : EngineStep(a)
    BY <1>3, AloneEngine
  <1>4. CASE GroupStep
    BY <1>4, AloneGroup
  <1>5. CASE Crash
    BY <1>5, AloneCrash
  <1>6. CASE UNCHANGED vars
    <2>1. UNCHANGED <<thread, handled, evts, zset, work>>
      BY <1>6 DEF vars, groupVars, elsewhere
    <2> QED BY <2>1 DEF AloneInv, OthersRest, InOrder, DeletedLast, RemovedOut, Gone
  <1>7. /\ \A n \in Note : ~UpsertFlushed(n)
        /\ ~ ZCard /\ ~ GetFeedPage /\ ~ RecoverStep
    BY DEF Undisturbed, UpsertFlushed, ZCard, GetFeedPage, RecoverStep
  <1>8. /\ \A n \in Note : ~RescoreNote(n)
        /\ ~ CountPublished /\ ~ DeleteEngine /\ ~ EnsureDeleted /\ ~ ListSince
    BY DEF FeedInv, RescorerRests, Rest, RescoreNote, CountPublished, DeleteEngine, EnsureDeleted, ListSince
  <1> QED BY <1>1, <1>2, <1>3, <1>4, <1>5, <1>6, <1>7, <1>8 DEF Next

(***************************************************************************)
(* While the read loop of the group is alone, and every delete matches its *)
(* row, a note whose deletion is handled does not come back into the ZSET, *)
(* through failures and restarts (feedHandler, main.go:145-149,            *)
(* README.md:54).                                                          *)
(***************************************************************************)
THEOREM RemovedStaysOutHolds == Spec => []RemovedStaysOut
  <1>1. Init => (Undisturbed => AloneInv)
    BY AloneInit
  <1>2. (Regular => FeedInv) /\ (Undisturbed => AloneInv) /\ [Next]_vars
          => (Undisturbed => AloneInv)'
    BY HistoryGrows, AloneKept DEF Regular, Undisturbed
  <1>3. (Undisturbed => AloneInv) => RemovedStaysOut
    BY DEF Undisturbed, AloneInv, RemovedOut, Gone, RemovedStaysOut
  <1> QED BY <1>1, <1>2, <1>3, FeedInvariant, PTL DEF Spec
-----------------------------------------------------------------------------
(***************************************************************************)
(* Types, with everything that may run beside the group.                   *)
(***************************************************************************)
\* A part of the group's entries handled or acked.
LEMMA WithoutTyped ==
  ASSUME Group!TypeOK, NEW S
  PROVE  /\ Group!Without(pel, S) \in SUBSET (SUBSET Group!Msg)
         /\ Group!Without(ripe, S) \in SUBSET Group!Without(pel, S)
  BY DEF Group!TypeOK, Group!Without

LEMMA RestingTyped == Group!Resting \in Group!ThreadState
  BY DEF Group!Resting, Group!ThreadState

LEMMA AckTyped ==
  ASSUME Group!TypeOK, NEW t \in Thread, Group!AckDone(t), faults' \in 0..MaxFaults
  PROVE  Group!TypeOK'
  <1>1. pel' \in SUBSET (SUBSET Group!Msg) /\ ripe' \in SUBSET pel'
    BY WithoutTyped DEF Group!AckDone
  <1>2. thread' \in [Group!Thread -> Group!ThreadState]
    BY RestingTyped DEF Group!AckDone, Group!TypeOK
  <1> QED BY <1>1, <1>2 DEF Group!AckDone, Group!TypeOK

LEMMA HandleOkTyped ==
  ASSUME Group!TypeOK, NEW t \in Thread, Group!HandleOk(t)
  PROVE  Group!TypeOK'
  <1>1. PICK m \in thread[t].batch : /\ handled' = handled \cup {m}
                                     /\ thread' = [thread EXCEPT ![t].done = @ \cup {m}]
    BY DEF Group!HandleOk
  <1>2. thread[t] \in Group!ThreadState /\ m \in Group!Msg
    BY DEF Group!TypeOK, Group!ThreadState, Group!Thread, Thread
  <1>3. [thread[t] EXCEPT !.done = @ \cup {m}] \in Group!ThreadState
    BY <1>2 DEF Group!ThreadState
  <1>4. thread' = [thread EXCEPT ![t] = [thread[t] EXCEPT !.done = @ \cup {m}]]
    BY <1>1
  <1>5. thread' \in [Group!Thread -> Group!ThreadState]
    BY <1>3, <1>4 DEF Group!TypeOK
  <1> QED BY <1>1, <1>2, <1>5 DEF Group!HandleOk, Group!TypeOK

LEMMA FaultTyped == ASSUME Group!TypeOK, Group!Fault PROVE faults' \in 0..MaxFaults
  BY FeedAssumption DEF Group!TypeOK, Group!Fault

LEMMA GroupTyped ==
  ASSUME Group!TypeOK, GroupStep \/ RecoverStep \/ Crash
  PROVE  Group!TypeOK'
  <1>1. CASE Group!ReadGroup
    <2>1. /\ last \in Nat /\ length \in Nat /\ last < length /\ length <= MaxMsg
          /\ UNCHANGED <<length, ripe, handled, faults>>
      BY <1>1, FeedAssumption DEF Group!ReadGroup, Group!TypeOK
    <2>2. PICK n \in Nat \ {0} :
            /\ n <= length - last /\ last' = last + n
            /\ pel' = pel \cup {(last + 1)..(last + n)}
            /\ thread' = [thread EXCEPT !["read"] = Group!Working((last + 1)..(last + n))]
      <3> DEFINE n == IF length - last < BatchSize THEN length - last ELSE BatchSize
      <3>1. n \in Nat \ {0} /\ n <= length - last
        BY <2>1, FeedAssumption
      <3> QED BY <1>1, <3>1 DEF Group!ReadGroup
    <2>3. (last + 1)..(last + n) \subseteq Group!Msg /\ last' \in 0..MaxMsg
      BY <2>1, <2>2, FeedAssumption DEF Group!Msg
    <2>4. thread' \in [Group!Thread -> Group!ThreadState]
      BY <2>2, <2>3 DEF Group!TypeOK, Group!Working, Group!ThreadState
    <2>5. pel' \in SUBSET (SUBSET Group!Msg) /\ ripe' \in SUBSET pel'
      BY <2>1, <2>2, <2>3 DEF Group!TypeOK
    <2> QED BY <2>1, <2>3, <2>4, <2>5 DEF Group!TypeOK
  <1>2. CASE Group!ReadNothing
    BY <1>2 DEF Group!ReadNothing, Group!vars, Group!TypeOK
  <1>3. CASE \E c \in pel : Group!Ripen(c)
    BY <1>3 DEF Group!Ripen, Group!TypeOK
  <1>4. CASE \E t \in Thread : Group!AckBatch(t)
    BY <1>4, AckTyped DEF Group!AckBatch, Group!TypeOK
  <1>5. CASE \E t \in Thread : Group!AckFail(t)
    BY <1>5, RestingTyped, FaultTyped DEF Group!AckFail, Group!TypeOK
  <1>6. CASE Group!AutoClaim
    <2> DEFINE claimed == Group!FirstOf(ClaimCount, UNION ripe)
    <2>1. /\ pel' = Group!Without(pel, claimed) \cup {claimed}
          /\ ripe' = Group!Without(ripe, claimed)
          /\ thread' = [thread EXCEPT !["recover"] = Group!Working(claimed)]
          /\ UNCHANGED <<length, last, handled, faults>>
      BY <1>6 DEF Group!AutoClaim
    <2>2. claimed \in SUBSET Group!Msg
      BY DEF Group!FirstOf, Group!TypeOK
    <2> HIDE DEF claimed
    <2>3. Group!Working(claimed) \in Group!ThreadState
      BY <2>2 DEF Group!Working, Group!ThreadState
    <2> QED BY <2>1, <2>2, <2>3, WithoutTyped DEF Group!TypeOK
  <1>7. CASE Group!Crash
    BY <1>7, RestingTyped, FaultTyped DEF Group!Crash, Group!TypeOK
  <1> QED BY <1>1, <1>2, <1>3, <1>4, <1>5, <1>6, <1>7 DEF GroupStep, RecoverStep, Crash

\* What the group does not share.
EngineOK ==
  /\ EngineTyped
  /\ evts \in Seq(Entry) /\ Len(evts) = length
  /\ ran \subseteq Loop /\ stray \in BOOLEAN

LEMMA TypeParts == TypeOK <=> Group!TypeOK /\ EngineOK
  BY DEF TypeOK, EngineOK, EngineTyped, Entry

LEMMA EmitTyped ==
  ASSUME TypeOK, NEW type \in {"created", "updated", "deleted"}, NEW n \in Note, Emit(type, n)
  PROVE  Group!TypeOK' /\ evts' \in Seq(Entry) /\ Len(evts') = length'
  <1>1. [type |-> type, note |-> n] \in Entry
    BY DEF Entry
  <1>2. length' = length + 1 /\ length < MaxMsg
        /\ UNCHANGED <<last, pel, ripe, thread, handled, faults>>
    BY DEF Emit, Group!Publish
  <1>3. Group!TypeOK'
    BY <1>2, FeedAssumption, TypeParts DEF Group!TypeOK
  <1>4. evts \in Seq(Entry) /\ Len(evts) = length
    BY TypeParts DEF EngineOK
  <1>5. evts' = Append(evts, [type |-> type, note |-> n])
    BY DEF Emit
  <1> QED BY <1>1, <1>2, <1>3, <1>4, <1>5

LEMMA TransactionTyped == ASSUME TypeOK, Transaction PROVE TypeOK'
  <1> PICK n \in Note : \/ Create(n) \/ Updata(n) \/ DeleteByID(n) \/ DeleteMatchless(n)
                        \/ DeleteNoteByID(n)
    BY DEF Transaction
  <1>1. Group!TypeOK /\ EngineOK
    BY TypeParts
  <1>2. Group!TypeOK' /\ evts' \in Seq(Entry) /\ Len(evts') = length'
    <2>1. CASE Create(n) \/ Updata(n) \/ DeleteByID(n) \/ DeleteMatchless(n)
      BY <2>1, EmitTyped DEF Create, Updata, DeleteByID, DeleteMatchless
    <2>2. CASE DeleteNoteByID(n)
      <3>1. UNCHANGED <<length, last, pel, ripe, thread, handled, faults, evts>>
        BY <2>2 DEF DeleteNoteByID, groupVars
      <3> QED BY <1>1, <3>1 DEF Group!TypeOK, EngineOK
    <2> QED BY <2>1, <2>2
  <1>3. /\ note' \in [Note -> {"none", "published", "deleted"}] /\ UNCHANGED <<zset, work, ran>>
        /\ stray' \in BOOLEAN
    BY <1>1 DEF EngineOK, EngineTyped, Create, Updata, DeleteByID, DeleteMatchless,
                DeleteNoteByID, history
  <1> QED BY <1>1, <1>2, <1>3 DEF TypeOK, EngineOK, EngineTyped, Entry

\* An actor moves, the group too or not.
LEMMA ActorTyped ==
  ASSUME TypeOK, Group!TypeOK', UNCHANGED <<length, note, evts>>, stray' = stray,
         NEW a \in Actor, NEW w \in Work, work' = [work EXCEPT ![a] = w],
         zset' \subseteq Note, ran' \subseteq Loop
  PROVE  TypeOK'
  <1>1. EngineOK
    BY TypeParts
  <1>2. work' \in [Actor -> Work]
    BY <1>1 DEF EngineOK, EngineTyped
  <1>3. stray' \in BOOLEAN
    BY <1>1 DEF EngineOK
  <1> QED BY <1>1, <1>2, <1>3 DEF TypeOK, EngineOK, EngineTyped, Entry

LEMMA SameGroup ==
  ASSUME TypeOK, UNCHANGED groupVars PROVE Group!TypeOK' /\ UNCHANGED length
  BY TypeParts DEF groupVars, Group!TypeOK

LEMMA RestTyped == Rest \in Work
  BY DEF Rest, Work

LEMMA ThreadTyped ==
  ASSUME TypeOK, NEW t \in Thread,
         UpsertNoteScore(t) \/ RemoveNoteScore(t) \/ HandleFail(t)
  PROVE  TypeOK'
  <1>1. Group!TypeOK /\ EngineOK /\ t \in Actor
    BY TypeParts DEF Thread, Actor, Loop
  <1>2. work[t] \in Work /\ stray' = stray /\ ran' \subseteq Loop
    BY <1>1 DEF EngineOK, EngineTyped, UpsertNoteScore, RemoveNoteScore, HandleFail, history
  <1>3. CASE UpsertNoteScore(t)
    <2>1. PICK n \in Note : Ensure(t, {n}, "score")
      BY <1>3 DEF UpsertNoteScore
    <2> DEFINE w == [pc |-> IF zset = {} THEN "list" ELSE "score", for |-> {n}, list |-> {}]
    <2>2. w \in Work /\ work' = [work EXCEPT ![t] = w]
      BY <2>1 DEF Ensure, Work
    <2>3. UNCHANGED <<groupVars, note, evts, zset>>
      BY <1>3 DEF UpsertNoteScore
    <2>4. zset' \subseteq Note
      BY <1>1, <2>3 DEF EngineOK, EngineTyped
    <2> HIDE DEF w
    <2> QED BY <1>1, <1>2, <2>2, <2>3, <2>4, SameGroup, ActorTyped
  <1>4. CASE RemoveNoteScore(t)
    <2>1. work' = [work EXCEPT ![t] = work[t]] /\ UNCHANGED <<length, note, evts>>
      BY <1>1, <1>4 DEF RemoveNoteScore, Group!HandleOk, EngineOK, EngineTyped
    <2>2. zset' \subseteq Note
      BY <1>1, <1>4 DEF RemoveNoteScore, EngineOK, EngineTyped
    <2>3. Group!TypeOK'
      BY <1>1, <1>4, HandleOkTyped DEF RemoveNoteScore
    <2> QED BY <1>1, <1>2, <2>1, <2>2, <2>3, ActorTyped
  <1>5. CASE HandleFail(t)
    <2>1. work' = [work EXCEPT ![t] = Rest] /\ UNCHANGED <<length, note, evts>>
      BY <1>5 DEF HandleFail, Group!HandleFail, Group!AckDone
    <2>2. zset' \subseteq Note
      BY <1>1, <1>2, <1>5 DEF HandleFail, EngineOK, EngineTyped, Work
    <2>3. Group!AckDone(t) /\ (Group!Fault \/ faults' = faults)
      BY <1>5 DEF HandleFail, Group!HandleFail
    <2>4. Group!TypeOK'
      BY <1>1, <2>3, AckTyped, FaultTyped DEF Group!TypeOK
    <2> QED BY <1>1, <1>2, <2>1, <2>2, <2>4, RestTyped, ActorTyped
  <1> QED BY <1>3, <1>4, <1>5

LEMMA EngineStepTyped == ASSUME TypeOK, NEW a \in Actor, EngineStep(a) PROVE TypeOK'
  <1>1. Group!TypeOK /\ EngineOK
    BY TypeParts
  <1>2. /\ work[a] \in Work /\ zset \subseteq Note /\ UNCHANGED <<note, evts>>
        /\ stray' = stray /\ ran' \subseteq Loop
    BY <1>1 DEF EngineOK, EngineTyped, EngineStep, ListAllPublished, ZAddFeed, GetScoringFields,
                ScoringFieldsNotFound, ZAddNote, history
  <1>3. AfterEnsure(a) \in {"idle", "recent", "score"}
    BY DEF AfterEnsure
  <1>4. CASE ListAllPublished(a) \/ ZAddFeed(a) \/ GetScoringFields(a)
    <2>1. \E w \in Work : work' = [work EXCEPT ![a] = w]
      <3>1. CASE ListAllPublished(a)
        <4> DEFINE u == [work[a] EXCEPT !.pc = "add", !.list = Published]
                   v == [work[a] EXCEPT !.pc = AfterEnsure(a)]
        <4>1. u \in Work /\ v \in Work
          BY <1>2, <1>3 DEF Work, Published
        <4>2. work' = [work EXCEPT ![a] = u] \/ work' = [work EXCEPT ![a] = v]
          BY <3>1 DEF ListAllPublished
        <4> HIDE DEF u, v
        <4> QED BY <4>1, <4>2
      <3>2. CASE ZAddFeed(a)
        <4> DEFINE w == [work[a] EXCEPT !.pc = AfterEnsure(a), !.list = {}]
        <4>1. w \in Work
          BY <1>2, <1>3 DEF Work
        <4>2. work' = [work EXCEPT ![a] = w]
          BY <3>2 DEF ZAddFeed
        <4> HIDE DEF w
        <4> QED BY <4>1, <4>2
      <3>3. CASE GetScoringFields(a)
        <4> DEFINE w == [work[a] EXCEPT !.pc = "zadd"]
        <4>1. w \in Work
          BY <1>2 DEF Work
        <4>2. work' = [work EXCEPT ![a] = w]
          BY <3>3 DEF GetScoringFields
        <4> HIDE DEF w
        <4> QED BY <4>1, <4>2
      <3> QED BY <1>4, <3>1, <3>2, <3>3
    <2>2. zset' \subseteq Note /\ UNCHANGED groupVars
      BY <1>2, <1>4 DEF ListAllPublished, ZAddFeed, GetScoringFields, Work
    <2>3. Group!TypeOK' /\ UNCHANGED length
      BY <2>2, SameGroup
    <2> QED BY <1>2, <2>1, <2>2, <2>3, ActorTyped
  <1>5. CASE ScoringFieldsNotFound(a) \/ ZAddNote(a)
    <2>1. work' = [work EXCEPT ![a] = Rest] /\ zset' \subseteq Note
      BY <1>2, <1>5 DEF ScoringFieldsNotFound, ZAddNote, Work
    <2>2. Group!TypeOK' /\ UNCHANGED length
      <3>1. CASE a \notin Thread
        BY <1>5, <3>1, SameGroup DEF ScoringFieldsNotFound, ZAddNote
      <3>2. CASE a \in Thread /\ ScoringFieldsNotFound(a)
        <4>1. Group!AckDone(a) /\ faults' = faults
          BY <3>2 DEF ScoringFieldsNotFound
        <4>2. faults' \in 0..MaxFaults
          BY <1>1, <4>1 DEF Group!TypeOK
        <4> QED BY <1>1, <3>2, <4>1, <4>2, AckTyped DEF Group!AckDone
      <3>3. CASE a \in Thread /\ ZAddNote(a)
        BY <1>1, <3>3, HandleOkTyped DEF ZAddNote, Group!HandleOk
      <3> QED BY <1>5, <3>1, <3>2, <3>3
    <2> QED BY <1>2, <2>1, <2>2, RestTyped, ActorTyped
  <1> QED BY <1>4, <1>5 DEF EngineStep

\* The loops beside the group.
LEMMA LoopTyped ==
  ASSUME TypeOK,
         \/ \E n \in Note : UpsertFlushed(n) \/ RescoreNote(n)
         \/ ZCard \/ CountPublished \/ DeleteEngine \/ EnsureDeleted \/ ListSince \/ GetFeedPage
  PROVE  TypeOK'
  <1>1. EngineOK
    BY TypeParts
  <1>2. /\ UNCHANGED <<groupVars, note, evts>> /\ stray' = stray /\ ran' \subseteq Loop
        /\ zset' \subseteq Note
    BY <1>1 DEF EngineOK, EngineTyped, UpsertFlushed, RescoreNote, ZCard, CountPublished,
                DeleteEngine, EnsureDeleted, ListSince, GetFeedPage, history, Loop
  <1>3. Group!TypeOK' /\ UNCHANGED length
    BY <1>2, SameGroup
  <1> DEFINE r == work["rescorer"]
  <1>4. r \in Work
    BY <1>1 DEF EngineOK, EngineTyped, Actor, Loop
  <1>5. \E a \in Actor, w \in Work : work' = [work EXCEPT ![a] = w]
    <2> USE DEF Actor, Loop
    <2>1. CASE (\E n \in Note : UpsertFlushed(n)) \/ EnsureDeleted \/ GetFeedPage
      <3>1. PICK a \in Actor, for \in SUBSET Note, pc \in {"score", "recent", "idle"} :
              Ensure(a, for, pc)
        BY <2>1 DEF UpsertFlushed, EnsureDeleted, GetFeedPage
      <3> DEFINE w == [pc |-> IF zset = {} THEN "list" ELSE pc, for |-> for, list |-> {}]
      <3>2. w \in Work /\ work' = [work EXCEPT ![a] = w]
        BY <3>1 DEF Ensure, Work
      <3> HIDE DEF w
      <3> QED BY <3>2
    <2>2. CASE ZCard
      <3> DEFINE w == [r EXCEPT !.pc = "count", !.list = zset]
      <3>1. w \in Work
        BY <1>1, <1>4 DEF Work, EngineOK, EngineTyped
      <3>2. work' = [work EXCEPT !["rescorer"] = w]
        BY <2>2 DEF ZCard
      <3> HIDE DEF w
      <3> QED BY <3>1, <3>2
    <2>6. CASE CountPublished
      <3> PICK pc \in {"drop", "recent"} :
            work' = [work EXCEPT !["rescorer"].pc = pc, !["rescorer"].list = {}]
        BY <2>6 DEF CountPublished
      <3> DEFINE w == [r EXCEPT !.pc = pc, !.list = {}]
      <3>1. w \in Work
        BY <1>4 DEF Work
      <3>2. work' = [work EXCEPT !["rescorer"] = w]
        OBVIOUS
      <3> HIDE DEF w
      <3> QED BY <3>1, <3>2
    <2>3. CASE DeleteEngine
      <3> DEFINE w == [r EXCEPT !.pc = "ensure"]
      <3>1. w \in Work
        BY <1>4 DEF Work
      <3>2. work' = [work EXCEPT !["rescorer"] = w]
        BY <2>3 DEF DeleteEngine
      <3> HIDE DEF w
      <3> QED BY <3>1, <3>2
    <2>4. CASE ListSince
      <3> DEFINE w == [pc |-> IF Published \cap Recent = {} THEN "idle" ELSE "rescore",
                       for |-> Published \cap Recent, list |-> {}]
      <3>1. w \in Work
        BY DEF Work, Published
      <3>2. work' = [work EXCEPT !["rescorer"] = w]
        BY <2>4 DEF ListSince
      <3> HIDE DEF w
      <3> QED BY <3>1, <3>2
    <2>5. ASSUME NEW n \in Note, RescoreNote(n)
          PROVE  \E a \in Actor, w \in Work : work' = [work EXCEPT ![a] = w]
      <3> DEFINE w == [r EXCEPT !.for = @ \ {n},
                                !.pc = IF r.for = {n} THEN "idle" ELSE "rescore"]
      <3>1. w \in Work
        BY <1>4 DEF Work
      <3>2. work' = [work EXCEPT !["rescorer"] = w]
        BY <2>5 DEF RescoreNote
      <3> HIDE DEF w
      <3> QED BY <3>1, <3>2
    <2> QED BY <2>1, <2>2, <2>3, <2>4, <2>5, <2>6
  <1> QED BY <1>2, <1>3, <1>5, ActorTyped

(***************************************************************************)
(* The state stays of its type, whatever runs beside the group.            *)
(***************************************************************************)
THEOREM TypeCorrect == Spec => []TypeOK
  <1>1. Init => TypeOK
    <2> SUFFICES ASSUME Init PROVE TypeOK
      OBVIOUS
    <2>1. /\ length = 0 /\ last = 0 /\ pel = {} /\ ripe = {} /\ handled = {} /\ faults = 0
          /\ thread = [t \in Group!Thread |-> Group!Resting]
      BY DEF Init, Group!Init
    <2>2. Group!TypeOK
      BY <2>1, RestingTyped, FeedAssumption DEF Group!TypeOK
    <2>3. /\ note \in [Note -> {"none", "published"}] /\ evts = <<>> /\ zset \in {{}, Published}
          /\ work = [a \in Actor |-> Rest] /\ ran = {} /\ stray = FALSE
      BY DEF Init
    <2>4. EngineOK
      <3>1. work \in [Actor -> Work] /\ zset \subseteq Note
        BY <2>3, RestTyped DEF Published
      <3>2. evts \in Seq(Entry) /\ Len(evts) = length
        BY <2>1, <2>3
      <3> QED BY <2>3, <3>1, <3>2 DEF EngineOK, EngineTyped
    <2> QED BY <2>2, <2>4, TypeParts
  <1>2. TypeOK /\ [Next]_vars => TypeOK'
    <2> SUFFICES ASSUME TypeOK, [Next]_vars PROVE TypeOK'
      OBVIOUS
    <2>1. CASE Transaction
      BY <2>1, TransactionTyped
    <2>2. CASE \E t \in Thread : UpsertNoteScore(t) \/ RemoveNoteScore(t) \/ HandleFail(t)
      BY <2>2, ThreadTyped
    <2>3. CASE \E a \in Actor : EngineStep(a)
      BY <2>3, EngineStepTyped
    <2>4. CASE \/ \E n \in Note : UpsertFlushed(n) \/ RescoreNote(n)
               \/ ZCard \/ CountPublished \/ DeleteEngine \/ EnsureDeleted \/ ListSince
               \/ GetFeedPage
      BY <2>4, LoopTyped
    <2>5. CASE GroupStep \/ RecoverStep \/ Crash
      <3>1. Group!TypeOK /\ EngineOK
        BY TypeParts
      <3>2. Group!TypeOK'
        BY <2>5, <3>1, GroupTyped
      <3>3. /\ UNCHANGED <<length, note, evts, zset>> /\ stray' = stray /\ ran' \subseteq Loop
            /\ \/ work' = work
               \/ work' = [a \in Actor |-> IF a = "api" THEN work[a] ELSE Rest]
        BY <2>5, <3>1 DEF EngineOK, GroupStep, RecoverStep, Crash, elsewhere, history, Loop,
             Group!ReadGroup, Group!ReadNothing, Group!vars, Group!Ripen, Group!AckBatch,
             Group!AckDone, Group!AckFail, Group!AutoClaim, Group!Crash
      <3>4. work' \in [Actor -> Work]
        BY <3>1, <3>3, RestTyped DEF EngineOK, EngineTyped
      <3>5. stray' \in BOOLEAN
        BY <3>1, <3>3 DEF EngineOK
      <3> QED BY <3>1, <3>2, <3>3, <3>4, <3>5 DEF TypeOK, EngineOK, EngineTyped, Entry
    <2>6. CASE UNCHANGED vars
      <3>1. /\ UNCHANGED <<length, last, pel, ripe, thread, handled, faults>>
            /\ UNCHANGED <<note, evts, zset, work, ran>> /\ stray' = stray
        BY <2>6 DEF vars, groupVars, elsewhere, history
      <3> QED BY <3>1 DEF TypeOK, Group!TypeOK
    <2> QED BY <2>1, <2>2, <2>3, <2>4, <2>5, <2>6 DEF Next
  <1> QED BY <1>1, <1>2, PTL DEF Spec
=============================================================================
