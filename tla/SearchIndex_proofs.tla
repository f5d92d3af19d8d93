------------------------- MODULE SearchIndex_proofs -------------------------
(***************************************************************************)
(* Proofs about what readers look through: the search index ends up as the *)
(* table says, what a user hid stays out of his pages, and who walks a     *)
(* list page after page gets each row once; for every set of notes, number *)
(* of events, tabs and faults, and every size of batches and pages.        *)
(***************************************************************************)
EXTENDS SearchIndexMC, SequenceTheorems, WellFoundedInduction, FiniteSetTheorems, TLAPS

(***************************************************************************)
(* The inductive invariant.  Entry m is the one that loop t works on; an   *)
(* event is open until it is handled for the first time.  What a loop has  *)
(* read is what the table says or there is another open event of the note  *)
(* (ReadCurrent), and a note without open events has the document it       *)
(* should have (ClosedRight).                                              *)
(***************************************************************************)
At(t, m) ==
  /\ thread[t].busy /\ m \in thread[t].batch \ thread[t].done
  /\ \A k \in thread[t].batch \ thread[t].done : m <= k

Open == Group!Due \ handled

OpenFor(n) == \E k \in Open : evts[k].note = n

Event == [type: {"written", "deleted"}, note: Note]

GroupSound ==
  /\ length \in Nat /\ last \in 0..length
  /\ evts \in Seq(Event) /\ Len(evts) = length
  /\ ripe \subseteq pel /\ Group!Pending \subseteq 1..last /\ handled \subseteq 1..last
  /\ thread \in [Thread -> [busy: BOOLEAN, batch: SUBSET (1..last), done: SUBSET handled]]

NoteRow == [status: {"none", "published", "deleted", "gone"}, text: Nat]

NotesTyped == note \in [Note -> NoteRow] /\ DOMAIN index = Note /\ DOMAIN read = Thread

\* A note whose deletion has been recorded stays deleted.
DeletedGone ==
  \A m \in DOMAIN evts :
    evts[m].type = "deleted" => note[evts[m].note].status \in {"deleted", "gone"}

ReadCurrent ==
  \A t \in Thread : read[t] # Nothing =>
    \E m \in DOMAIN evts :
      /\ At(t, m) /\ evts[m].type = "written"
      /\ \/ read[t] = note[evts[m].note]
         \/ \E k \in Open \ {m} : evts[k].note = evts[m].note

ClosedRight == \A n \in Note : OpenFor(n) \/ index[n] = DocumentOf(note[n])

BaseInv == GroupSound /\ NotesTyped /\ DeletedGone

SearchInv == BaseInv /\ ReadCurrent /\ ClosedRight
-----------------------------------------------------------------------------
(***************************************************************************)
(* The group.                                                              *)
(***************************************************************************)
\* An element of a sequence is of its kind.
LEMMA EventOfSeq == ASSUME NEW S, NEW s \in Seq(S), NEW i \in DOMAIN s PROVE s[i] \in S
  OBVIOUS

(***************************************************************************)
(* The group: what each of its steps does to its threads and its entries.  *)
(***************************************************************************)
LEMMA UnionWithout ==
  ASSUME NEW cohorts, NEW S
  PROVE  UNION Group!Without(cohorts, S) = (UNION cohorts) \ S
  <1>1. ASSUME NEW m \in UNION Group!Without(cohorts, S)
        PROVE  m \in (UNION cohorts) \ S
    BY <1>1 DEF Group!Without
  <1>2. ASSUME NEW m \in (UNION cohorts) \ S
        PROVE  m \in UNION Group!Without(cohorts, S)
    <2>1. PICK c \in cohorts : m \in c
      BY <1>2
    <2>2. c \ S \in Group!Without(cohorts, S)
      BY <1>2, <2>1 DEF Group!Without
    <2> QED BY <1>2, <2>1, <2>2
  <1> QED BY <1>1, <1>2

LEMMA Inside ==
  ASSUME GroupSound
  PROVE  /\ Open \subseteq DOMAIN evts /\ DOMAIN evts = 1..length
         /\ \A t \in Thread : thread[t].batch \subseteq DOMAIN evts
         /\ \A m \in DOMAIN evts : evts[m] \in Event
  <1>1. evts \in Seq(Event) /\ DOMAIN evts = 1..length /\ last <= length /\ length \in Nat
    BY DEF GroupSound
  <1>2. \A m \in DOMAIN evts : evts[m] \in Event
    BY <1>1, EventOfSeq
  <1>3. 1..last \subseteq 1..length /\ (last + 1)..length \subseteq 1..length
    BY <1>1 DEF GroupSound
  <1>4. \A t \in Thread : thread[t].batch \subseteq DOMAIN evts
    BY <1>1, <1>3 DEF GroupSound
  <1>5. Open \subseteq DOMAIN evts
    BY <1>1, <1>3 DEF Open, Group!Due, GroupSound
  <1> QED BY <1>1, <1>2, <1>4, <1>5

\* A loop works on one entry.
LEMMA OneAt ==
  ASSUME GroupSound, NEW t \in Thread, NEW m, NEW k, At(t, m), At(t, k)
  PROVE  m = k
  <1>1. m \in thread[t].batch /\ k \in thread[t].batch /\ thread[t].batch \subseteq Nat
    BY DEF At, GroupSound
  <1>2. m <= k /\ k <= m
    BY DEF At
  <1> QED BY <1>1, <1>2

LEMMA HandlesAt ==
  ASSUME GroupSound, NEW t \in Thread, NEW e
  PROVE  Handles(t, e) <=> \E m \in DOMAIN evts : At(t, m) /\ e = evts[m]
  <1>1. \A m \in thread[t].batch : m \in DOMAIN evts
    BY Inside
  <1> QED BY <1>1 DEF Handles, At

\* The entry that is handled is no longer open.
LEMMA HandleSound ==
  ASSUME GroupSound, NEW t \in Thread, NEW m \in DOMAIN evts, At(t, m),
         Group!HandleOk(t), UNCHANGED evts
  PROVE  /\ GroupSound' /\ Open' = Open \ {m}
         /\ \A s \in Thread \ {t} : thread'[s] = thread[s]
  <1>1. PICK k \in thread[t].batch \ thread[t].done :
          /\ \A j \in thread[t].batch \ thread[t].done : k <= j
          /\ handled' = handled \cup {k}
          /\ thread' = [thread EXCEPT ![t].done = @ \cup {k}]
    BY DEF Group!HandleOk
  <1>2. At(t, k)
    BY <1>1 DEF At
  <1>3. k = m
    BY <1>2, OneAt
  <1>4. m \in 1..last
    BY DEF At, GroupSound
  <1>5. UNCHANGED <<length, last, pel, ripe, evts>>
    BY DEF Group!HandleOk
  <1>6. thread' \in [Thread -> [busy: BOOLEAN, batch: SUBSET (1..last), done: SUBSET handled']]
    BY <1>1, <1>3 DEF GroupSound
  <1>7. GroupSound'
    BY <1>1, <1>3, <1>4, <1>5, <1>6 DEF GroupSound, Group!Pending
  <1>8. Open' = Open \ {m}
    BY <1>1, <1>3, <1>5 DEF Open, Group!Due, Group!Pending
  <1> QED BY <1>1, <1>7, <1>8 DEF GroupSound

\* XACK removes what was handled.
LEMMA AckSound ==
  ASSUME GroupSound, NEW t \in Thread, Group!AckDone(t), UNCHANGED evts
  PROVE  /\ GroupSound' /\ Open' = Open /\ handled' = handled
         /\ \A s \in Thread \ {t} : thread'[s] = thread[s]
  <1>1. Group!Pending' = Group!Pending \ thread[t].done
    BY UnionWithout DEF Group!AckDone, Group!Pending
  <1>2. ripe' \subseteq pel'
    BY DEF Group!AckDone, Group!Without, GroupSound
  <1>3. UNCHANGED <<length, last, handled>> /\ thread' = [thread EXCEPT ![t] = Group!Resting]
    BY DEF Group!AckDone
  <1>4. thread' \in [Thread -> [busy: BOOLEAN, batch: SUBSET (1..last), done: SUBSET handled]]
    BY <1>3 DEF GroupSound, Group!Resting
  <1>5. thread[t].done \subseteq handled
    BY DEF GroupSound
  <1>6. GroupSound'
    BY <1>1, <1>2, <1>3, <1>4 DEF GroupSound
  <1>7. Open' = Open
    BY <1>1, <1>3, <1>5 DEF Open, Group!Due
  <1> QED BY <1>3, <1>6, <1>7 DEF GroupSound

\* A read moves entries from those to come to those pending.
LEMMA ReadSound ==
  ASSUME GroupSound, Group!ReadGroup, UNCHANGED evts
  PROVE  GroupSound' /\ Open' = Open /\ thread'["recover"] = thread["recover"]
  <1>1. last \in Nat /\ length \in Nat /\ last < length
    BY DEF Group!ReadGroup, GroupSound
  <1>2. PICK n \in Nat \ {0} :
          /\ n <= length - last /\ last' = last + n
          /\ pel' = pel \cup {(last + 1)..(last + n)}
          /\ thread' = [thread EXCEPT !["read"] = Group!Working((last + 1)..(last + n))]
    <2> DEFINE n == IF length - last < BatchSize THEN length - last ELSE BatchSize
    <2>1. n \in Nat \ {0} /\ n <= length - last
      BY <1>1, SearchAssumption
    <2> QED BY <2>1 DEF Group!ReadGroup
  <1>3. last' \in 0..length /\ 1..last \subseteq 1..last' /\ (last + 1)..last' \subseteq 1..last'
    BY <1>1, <1>2
  <1>4. Group!Pending' = Group!Pending \cup (last + 1)..last'
    BY <1>2 DEF Group!Pending
  <1>5. UNCHANGED <<length, ripe, handled>>
    BY DEF Group!ReadGroup
  <1>6. thread' \in [Thread -> [busy: BOOLEAN, batch: SUBSET (1..last'), done: SUBSET handled]]
    BY <1>2, <1>3 DEF GroupSound, Group!Working
  <1>7. (last + 1)..length = (last + 1)..last' \cup (last' + 1)..length
    BY <1>1, <1>2
  <1>8. GroupSound'
    BY <1>2, <1>3, <1>4, <1>5, <1>6 DEF GroupSound
  <1>9. Open' = Open
    BY <1>4, <1>5, <1>7 DEF Open, Group!Due
  <1> QED BY <1>2, <1>8, <1>9 DEF GroupSound, Thread

\* XAUTOCLAIM leaves all that is pending so.
LEMMA ClaimSound ==
  ASSUME GroupSound, Group!AutoClaim, UNCHANGED evts
  PROVE  GroupSound' /\ Open' = Open /\ thread'["read"] = thread["read"]
  <1> DEFINE claimed == Group!FirstOf(ClaimCount, UNION ripe)
  <1>1. /\ pel' = Group!Without(pel, claimed) \cup {claimed}
        /\ ripe' = Group!Without(ripe, claimed)
        /\ thread' = [thread EXCEPT !["recover"] = Group!Working(claimed)]
        /\ UNCHANGED <<length, last, handled>>
    BY DEF Group!AutoClaim
  <1>2. claimed \subseteq Group!Pending
    BY DEF Group!FirstOf, Group!Pending, GroupSound
  <1> HIDE DEF claimed
  <1>3. Group!Pending' = Group!Pending
    <2>1. Group!Pending' = (UNION Group!Without(pel, claimed)) \cup claimed
      BY <1>1 DEF Group!Pending
    <2>2. UNION Group!Without(pel, claimed) = Group!Pending \ claimed
      BY UnionWithout DEF Group!Pending
    <2> QED BY <2>1, <2>2, <1>2
  <1>4. ripe' \subseteq pel'
    BY <1>1 DEF Group!Without, GroupSound
  <1>5. thread' \in [Thread -> [busy: BOOLEAN, batch: SUBSET (1..last), done: SUBSET handled]]
    BY <1>1, <1>2 DEF GroupSound, Group!Working
  <1>6. GroupSound'
    BY <1>1, <1>3, <1>4, <1>5 DEF GroupSound
  <1>7. Open' = Open
    BY <1>1, <1>3 DEF Open, Group!Due
  <1> QED BY <1>1, <1>6, <1>7 DEF GroupSound, Thread

\* Loops that start over.
LEMMA RestSound ==
  ASSUME GroupSound, UNCHANGED <<length, last, pel, ripe, handled, evts>>,
         \/ thread' = [t \in Group!Thread |-> Group!Resting]
         \/ \E t \in Thread : thread' = [thread EXCEPT ![t] = Group!Resting]
  PROVE  GroupSound' /\ Open' = Open
  <1> DEFINE State == [busy: BOOLEAN, batch: SUBSET (1..last), done: SUBSET handled]
  <1>1. Group!Resting \in State
    BY DEF Group!Resting
  <1>2. Group!Thread = Thread /\ thread \in [Thread -> State]
    BY DEF Group!Thread, Thread, GroupSound
  <1> HIDE DEF State
  <1>3. thread' \in [Thread -> State]
    BY <1>1, <1>2
  <1> QED BY <1>3 DEF State, GroupSound, Open, Group!Due, Group!Pending

\* A new event is open.
LEMMA EmitSound ==
  ASSUME GroupSound, NEW type \in {"written", "deleted"}, NEW n \in Note, Emit(type, n)
  PROVE  /\ GroupSound' /\ UNCHANGED <<thread, handled>>
         /\ \A m \in DOMAIN evts : m \in DOMAIN evts' /\ evts'[m] = evts[m] /\ m # length'
         /\ DOMAIN evts' = DOMAIN evts \cup {length'}
         /\ evts'[length'] = [type |-> type, note |-> n]
         /\ Open' = Open \cup {length'}
  <1> DEFINE e == [type |-> type, note |-> n]
  <1>1. /\ length' = length + 1 /\ UNCHANGED <<last, pel, ripe, thread, handled>>
        /\ evts' = Append(evts, e)
    BY DEF Emit, Group!Publish
  <1>2. e \in Event
    BY DEF Event
  <1> HIDE DEF e
  <1>3. /\ evts' \in Seq(Event) /\ Len(evts') = length'
        /\ \A m \in DOMAIN evts : m \in DOMAIN evts' /\ evts'[m] = evts[m] /\ m # length'
        /\ DOMAIN evts' = DOMAIN evts \cup {length'} /\ evts'[length'] = e
    <2>1. evts \in Seq(Event) /\ Len(evts) = length
      BY DEF GroupSound
    <2> QED BY <2>1, <1>1, <1>2
  <1>4. (last + 1)..length' = (last + 1)..length \cup {length'} /\ length' \notin 1..last
    BY <1>1 DEF GroupSound
  <1>5. GroupSound'
    BY <1>1, <1>3 DEF GroupSound, Group!Pending
  <1>6. Open' = Open \cup {length'}
    BY <1>1, <1>4 DEF GroupSound, Open, Group!Due, Group!Pending
  <1> QED BY <1>1, <1>3, <1>5, <1>6 DEF e
-----------------------------------------------------------------------------
(***************************************************************************)
(* The index.                                                              *)
(***************************************************************************)
\* The group moves on, and loops that have read go on where they are or
\* forget what they have read.
LEMMA GroupKeeps ==
  ASSUME SearchInv, GroupSound', Open' = Open, UNCHANGED <<note, evts, index>>,
         DOMAIN read' = Thread,
         \A t \in Thread : \/ read'[t] = Nothing
                           \/ read'[t] = read[t] /\ thread'[t] = thread[t]
  PROVE  SearchInv'
  <1>1. \A n : OpenFor(n)' <=> OpenFor(n)
    BY DEF OpenFor
  <1>2. BaseInv'
    BY DEF SearchInv, BaseInv, NotesTyped, DeletedGone
  <1>3. ClosedRight'
    BY <1>1 DEF SearchInv, ClosedRight
  <1>4. ReadCurrent'
    <2> SUFFICES ASSUME NEW t \in Thread, read'[t] # Nothing
                 PROVE  \E m \in DOMAIN evts :
                          /\ At(t, m)' /\ evts[m].type = "written"
                          /\ \/ read'[t] = note[evts[m].note]
                             \/ \E k \in Open \ {m} : evts[k].note = evts[m].note
      BY DEF ReadCurrent
    <2>1. read'[t] = read[t] /\ thread'[t] = thread[t]
      OBVIOUS
    <2>2. PICK m \in DOMAIN evts :
            /\ At(t, m) /\ evts[m].type = "written"
            /\ \/ read[t] = note[evts[m].note]
               \/ \E k \in Open \ {m} : evts[k].note = evts[m].note
      BY <2>1 DEF SearchInv, ReadCurrent
    <2>3. At(t, m)'
      BY <2>1, <2>2 DEF At
    <2> QED BY <2>1, <2>2, <2>3
  <1> QED BY <1>2, <1>3, <1>4 DEF SearchInv

\* A transaction changes the row of a note and puts an event of it on the
\* stream.
LEMMA TransactionKeeps ==
  ASSUME SearchInv, NEW n \in Note, NEW type \in {"written", "deleted"}, NEW row \in NoteRow,
         note' = [note EXCEPT ![n] = row], Emit(type, n), UNCHANGED <<index, read>>,
         \A m \in DOMAIN evts :
           evts[m].type = "deleted" /\ evts[m].note = n => row.status \in {"deleted", "gone"},
         type = "deleted" => row.status \in {"deleted", "gone"}
  PROVE  SearchInv'
  <1> PICK new : new = length'
    OBVIOUS
  <1>1. /\ GroupSound' /\ UNCHANGED thread
        /\ \A m \in DOMAIN evts : m \in DOMAIN evts' /\ evts'[m] = evts[m] /\ m # new
        /\ DOMAIN evts' = DOMAIN evts \cup {new}
        /\ evts'[new] = [type |-> type, note |-> n]
        /\ Open' = Open \cup {new}
    BY EmitSound DEF SearchInv, BaseInv
  <1>2. Open \subseteq DOMAIN evts /\ \A m \in DOMAIN evts : evts[m] \in Event
    BY Inside DEF SearchInv, BaseInv
  <1>3. note'[n] = row /\ \A x \in Note \ {n} : note'[x] = note[x]
    BY DEF SearchInv, BaseInv, NotesTyped
  <1>4. NotesTyped'
    BY DEF SearchInv, BaseInv, NotesTyped
  <1>5. DeletedGone'
    <2> SUFFICES ASSUME NEW m \in DOMAIN evts', evts'[m].type = "deleted"
                 PROVE  note'[evts'[m].note].status \in {"deleted", "gone"}
      BY DEF DeletedGone
    <2>1. CASE m = new
      BY <1>1, <1>3, <2>1
    <2>2. CASE m # new
      <3>1. m \in DOMAIN evts /\ evts'[m] = evts[m] /\ evts[m].note \in Note
        BY <1>1, <1>2, <2>2 DEF Event
      <3>2. note[evts[m].note].status \in {"deleted", "gone"}
        BY <3>1 DEF SearchInv, BaseInv, DeletedGone
      <3> QED BY <1>3, <3>1, <3>2
    <2> QED BY <2>1, <2>2
  <1>6. \A x : OpenFor(x) => OpenFor(x)'
    BY <1>1, <1>2 DEF OpenFor
  <1>7. OpenFor(n)'
    BY <1>1 DEF OpenFor
  <1>8. ClosedRight'
    BY <1>3, <1>6, <1>7 DEF SearchInv, ClosedRight
  <1>9. ReadCurrent'
    <2> SUFFICES ASSUME NEW t \in Thread, read[t] # Nothing
                 PROVE  \E m \in DOMAIN evts' :
                          /\ At(t, m)' /\ evts'[m].type = "written"
                          /\ \/ read[t] = note'[evts'[m].note]
                             \/ \E k \in Open' \ {m} : evts'[k].note = evts'[m].note
      BY DEF ReadCurrent
    <2>1. PICK m \in DOMAIN evts :
            /\ At(t, m) /\ evts[m].type = "written"
            /\ \/ read[t] = note[evts[m].note]
               \/ \E k \in Open \ {m} : evts[k].note = evts[m].note
      BY DEF SearchInv, ReadCurrent
    <2>2. At(t, m)' /\ m \in DOMAIN evts' /\ evts'[m] = evts[m] /\ m # new
      BY <1>1, <2>1 DEF At
    <2>3. CASE evts[m].note = n
      BY <1>1, <2>1, <2>2, <2>3
    <2>4. CASE evts[m].note # n /\ read[t] = note[evts[m].note]
      <3>1. evts[m].note \in Note
        BY <1>2 DEF Event
      <3> QED BY <1>3, <2>1, <2>2, <2>4, <3>1
    <2>5. CASE \E k \in Open \ {m} : evts[k].note = evts[m].note
      <3>1. PICK k \in Open \ {m} : evts[k].note = evts[m].note
        BY <2>5
      <3>2. k \in Open' \ {m} /\ evts'[k] = evts[k]
        BY <1>1, <1>2, <3>1
      <3> QED BY <2>1, <2>2, <3>1, <3>2
    <2> QED BY <2>1, <2>3, <2>4, <2>5
  <1> QED BY <1>1, <1>4, <1>5, <1>8, <1>9 DEF SearchInv, BaseInv

\* A loop is done with an entry: the document of its note is right or the
\* note has another open event; and the other loop has not read its row.
LEMMA HandledKeeps ==
  ASSUME SearchInv, NEW t \in Thread, NEW m \in DOMAIN evts, At(t, m), NEW n, n = evts[m].note,
         Group!HandleOk(t), UNCHANGED <<note, evts>>, NEW d, index' = [index EXCEPT ![n] = d],
         DOMAIN read' = Thread, read'[t] = Nothing,
         \A s \in Thread \ {t} : read'[s] = read[s],
         ~Overlaps(t, n),
         \/ d = DocumentOf(note[n])
         \/ \E k \in Open \ {m} : evts[k].note = n
  PROVE  SearchInv'
  <1>1. /\ GroupSound' /\ Open' = Open \ {m}
        /\ \A s \in Thread \ {t} : thread'[s] = thread[s]
    BY HandleSound DEF SearchInv, BaseInv
  <1>2. BaseInv'
    BY <1>1 DEF SearchInv, BaseInv, NotesTyped, DeletedGone
  <1>3. ClosedRight'
    <2> SUFFICES ASSUME NEW x \in Note PROVE OpenFor(x)' \/ index'[x] = DocumentOf(note[x])
      BY DEF ClosedRight
    <2>1. CASE x = n
      <3>1. index'[n] = d
        BY <2>1 DEF SearchInv, BaseInv, NotesTyped
      <3> QED BY <1>1, <2>1, <3>1 DEF OpenFor
    <2>2. CASE x # n
      <3>1. OpenFor(x) => OpenFor(x)'
        BY <1>1, <2>2 DEF OpenFor
      <3>2. index'[x] = index[x]
        BY <2>2 DEF SearchInv, BaseInv, NotesTyped
      <3> QED BY <3>1, <3>2 DEF SearchInv, ClosedRight
    <2> QED BY <2>1, <2>2
  <1>4. ReadCurrent'
    <2> SUFFICES ASSUME NEW s \in Thread, read'[s] # Nothing
                 PROVE  \E j \in DOMAIN evts :
                          /\ At(s, j)' /\ evts[j].type = "written"
                          /\ \/ read'[s] = note[evts[j].note]
                             \/ \E k \in Open' \ {j} : evts[k].note = evts[j].note
      BY DEF ReadCurrent
    <2>1. s \in Thread \ {t} /\ read'[s] = read[s] /\ thread'[s] = thread[s]
      BY <1>1
    <2>2. PICK j \in DOMAIN evts :
            /\ At(s, j) /\ evts[j].type = "written"
            /\ \/ read[s] = note[evts[j].note]
               \/ \E k \in Open \ {j} : evts[k].note = evts[j].note
      BY <2>1 DEF SearchInv, ReadCurrent
    <2>3. At(s, j)'
      BY <2>1, <2>2 DEF At
    <2>4. evts[j].note # n
      <3> SUFFICES ASSUME evts[j].note = n PROVE FALSE
        OBVIOUS
      <3>1. evts[j] \in Event
        BY Inside DEF SearchInv, BaseInv
      <3>2. evts[j] = [type |-> "written", note |-> n]
        BY <2>2, <3>1 DEF Event
      <3>3. Handles(s, [type |-> "written", note |-> n])
        BY <2>1, <2>2, <3>2, HandlesAt DEF SearchInv, BaseInv
      <3> QED BY <2>1, <3>3 DEF Overlaps
    <2>5. \A k \in Open \ {j} : evts[k].note = evts[j].note => k \in Open' \ {j}
      BY <1>1, <2>4
    <2> QED BY <2>1, <2>2, <2>3, <2>5
  <1> QED BY <1>2, <1>3, <1>4 DEF SearchInv

LEMMA IndexKeeps ==
  ASSUME SearchInv, NEW t \in Thread, NEW n \in Note, Index(t, n), ~disturbed'
  PROVE  SearchInv'
  <1>1. PICK m \in DOMAIN evts : At(t, m) /\ evts[m] = [type |-> "written", note |-> n]
    BY HandlesAt DEF Index, SearchInv, BaseInv
  <1>2. PICK j \in DOMAIN evts :
          /\ At(t, j)
          /\ \/ read[t] = note[evts[j].note]
             \/ \E k \in Open \ {j} : evts[k].note = evts[j].note
    BY DEF SearchInv, ReadCurrent, Index
  <1>3. j = m
    BY <1>1, <1>2, OneAt DEF SearchInv, BaseInv
  <1>4. evts[m].note = n
    BY <1>1
  <1>5. \/ DocumentOf(read[t]) = DocumentOf(note[n])
        \/ \E k \in Open \ {m} : evts[k].note = n
    BY <1>2, <1>3, <1>4
  <1>6. /\ index' = [index EXCEPT ![n] = DocumentOf(read[t])]
        /\ Group!HandleOk(t) /\ UNCHANGED <<note, evts>> /\ ~Overlaps(t, n)
        /\ read' = [read EXCEPT ![t] = Nothing]
    BY DEF Index
  <1>7. /\ DOMAIN read' = Thread /\ read'[t] = Nothing
        /\ \A s \in Thread \ {t} : read'[s] = read[s]
    BY <1>6 DEF SearchInv, BaseInv, NotesTyped
  <1> QED BY <1>1, <1>4, <1>5, <1>6, <1>7, HandledKeeps

LEMMA DeleteKeeps ==
  ASSUME SearchInv, NEW t \in Thread, NEW n \in Note, Delete(t, n), ~disturbed'
  PROVE  SearchInv'
  <1>1. PICK m \in DOMAIN evts : At(t, m) /\ evts[m] = [type |-> "deleted", note |-> n]
    BY HandlesAt DEF Delete, SearchInv, BaseInv
  <1>2. evts[m].note = n /\ evts[m].type = "deleted"
    BY <1>1
  <1>3. note[n].status \in {"deleted", "gone"}
    BY <1>2 DEF SearchInv, BaseInv, DeletedGone
  <1>4. NoDocument = DocumentOf(note[n])
    BY <1>3 DEF DocumentOf
  <1>5. read[t] = Nothing
    <2> SUFFICES ASSUME read[t] # Nothing PROVE FALSE
      OBVIOUS
    <2>1. PICK j \in DOMAIN evts : At(t, j) /\ evts[j].type = "written"
      BY DEF SearchInv, ReadCurrent
    <2>2. j = m
      BY <1>1, <2>1, OneAt DEF SearchInv, BaseInv
    <2> QED BY <1>2, <2>1, <2>2
  <1>6. /\ index' = [index EXCEPT ![n] = NoDocument]
        /\ Group!HandleOk(t) /\ UNCHANGED <<note, evts, read>> /\ ~Overlaps(t, n)
    BY DEF Delete
  <1>7. DOMAIN read' = Thread
    BY <1>6 DEF SearchInv, BaseInv, NotesTyped
  <1> QED BY <1>1, <1>2, <1>4, <1>5, <1>6, <1>7, HandledKeeps

LEMMA GetByIDKeeps ==
  ASSUME SearchInv, NEW t \in Thread, NEW n \in Note, GetByID(t, n)
  PROVE  SearchInv'
  <1>1. PICK m \in DOMAIN evts : At(t, m) /\ evts[m] = [type |-> "written", note |-> n]
    BY HandlesAt DEF GetByID, SearchInv, BaseInv
  <1>2. /\ read' = [read EXCEPT ![t] = note[n]]
        /\ UNCHANGED <<length, last, pel, ripe, thread, handled, faults, note, evts, index>>
    BY DEF GetByID, groupVars
  <1>3. evts[m].note = n /\ evts[m].type = "written"
    BY <1>1
  <1>4. Open' = Open /\ GroupSound'
    BY <1>2 DEF Open, Group!Due, Group!Pending, SearchInv, BaseInv, GroupSound
  <1>5. NotesTyped' /\ read'[t] = note[n] /\ \A s \in Thread \ {t} : read'[s] = read[s]
    BY <1>2 DEF SearchInv, BaseInv, NotesTyped
  <1>6. DeletedGone'
    BY <1>2 DEF SearchInv, BaseInv, DeletedGone
  <1>7. ClosedRight'
    <2>1. \A x : OpenFor(x)' <=> OpenFor(x)
      BY <1>2, <1>4 DEF OpenFor
    <2> QED BY <1>2, <2>1 DEF SearchInv, ClosedRight
  <1>8. ReadCurrent'
    <2> SUFFICES ASSUME NEW s \in Thread, read'[s] # Nothing
                 PROVE  \E j \in DOMAIN evts :
                          /\ At(s, j) /\ evts[j].type = "written"
                          /\ \/ read'[s] = note[evts[j].note]
                             \/ \E k \in Open \ {j} : evts[k].note = evts[j].note
      BY <1>2, <1>4 DEF ReadCurrent, At
    <2>1. CASE s = t
      BY <1>1, <1>3, <1>5, <2>1
    <2>2. CASE s # t
      BY <1>5, <2>2 DEF SearchInv, ReadCurrent
    <2> QED BY <2>1, <2>2
  <1> QED BY <1>4, <1>5, <1>6, <1>7, <1>8 DEF SearchInv, BaseInv

LEMMA BusinessKeeps ==
  ASSUME SearchInv, NEW n \in Note, CreateOrUpdate(n) \/ DeleteByID(n) \/ DeleteMatchless(n),
         ~disturbed'
  PROVE  SearchInv'
  <1>1. CASE CreateOrUpdate(n)
    <2> PICK row : row = [status |-> "published", text |-> note[n].text + 1]
      OBVIOUS
    <2>0. row \in NoteRow /\ row.status = "published"
      BY DEF SearchInv, BaseInv, NotesTyped, NoteRow
    <2>1. /\ note' = [note EXCEPT ![n] = row] /\ Emit("written", n)
          /\ UNCHANGED <<index, read>> /\ note[n].status \in {"none", "published"}
      BY <1>1 DEF CreateOrUpdate
    <2>2. \A m \in DOMAIN evts : evts[m].type = "deleted" => evts[m].note # n
      BY <2>1 DEF SearchInv, BaseInv, DeletedGone
    <2>3. \A m \in DOMAIN evts :
            evts[m].type = "deleted" /\ evts[m].note = n => row.status \in {"deleted", "gone"}
      BY <2>2
    <2> QED BY <2>0, <2>1, <2>3, TransactionKeeps
  <1>2. CASE DeleteByID(n)
    <2> PICK row : row = [note[n] EXCEPT !.status = "deleted"]
      OBVIOUS
    <2>1. /\ note' = [note EXCEPT ![n] = row] /\ Emit("deleted", n)
          /\ UNCHANGED <<index, read>>
      BY <1>2 DEF DeleteByID
    <2>2. row.status = "deleted"
      <3>1. note[n] \in NoteRow
        BY DEF SearchInv, BaseInv, NotesTyped
      <3> QED BY <3>1 DEF NoteRow
    <2>3. row \in NoteRow
      BY DEF SearchInv, BaseInv, NotesTyped, NoteRow
    <2> QED BY <2>1, <2>2, <2>3, TransactionKeeps
  <1>3. CASE DeleteMatchless(n)
    <2> PICK row : row = note[n]
      OBVIOUS
    <2>1. row \in NoteRow /\ note = [note EXCEPT ![n] = row]
      BY DEF SearchInv, BaseInv, NotesTyped
    <2>2. row.status \in {"deleted", "gone"}
      BY <1>3, <2>1 DEF DeleteMatchless, NoteRow
    <2>3. Emit("deleted", n) /\ UNCHANGED <<note, index, read>>
      BY <1>3 DEF DeleteMatchless
    <2>4. note' = [note EXCEPT ![n] = row]
      BY <2>1, <2>3
    <2> QED BY <2>1, <2>2, <2>3, <2>4, TransactionKeeps
  <1> QED BY <1>1, <1>2, <1>3

\* What the group does on its own.
LEMMA GroupStepKeeps ==
  ASSUME SearchInv,
         \/ GroupRead \/ GroupClaim \/ Crash
         \/ \E m \in 1..MaxMsg : GroupRipen(m)
         \/ \E t \in Thread : GroupAck(t) \/ GroupAckFail(t) \/ HandleFail(t)
  PROVE  SearchInv'
  <1> USE DEF SearchInv, BaseInv
  <1>0. \A t \in Thread : read[t] # Nothing =>
                            thread[t].busy /\ thread[t].batch # thread[t].done
    BY DEF ReadCurrent, At
  <1>1. DOMAIN read = Thread /\ Thread = {"read", "recover"}
    BY DEF NotesTyped, Thread
  <1>2. CASE GroupRead
    <2>1. UNCHANGED <<note, evts, index, read>>
      BY <1>2 DEF GroupRead, Aside
    <2>2. CASE Group!ReadGroup
      <3>1. read["read"] = Nothing
        BY <1>0, <1>1, <2>2 DEF Group!ReadGroup
      <3> HIDE DEF SearchInv, BaseInv
      <3>2. GroupSound' /\ Open' = Open /\ thread'["recover"] = thread["recover"]
        BY <2>1, <2>2, ReadSound DEF SearchInv, BaseInv
      <3> QED BY <1>1, <2>1, <3>1, <3>2, GroupKeeps
    <2>3. CASE Group!ReadNothing
      <3>1. UNCHANGED <<length, last, pel, ripe, thread, handled>>
        BY <2>3 DEF Group!ReadNothing, Group!vars
      <3>2. GroupSound' /\ Open' = Open
        BY <2>1, <3>1 DEF GroupSound, Open, Group!Due, Group!Pending
      <3> HIDE DEF SearchInv, BaseInv
      <3> QED BY <1>1, <2>1, <3>1, <3>2, GroupKeeps
    <2> QED BY <1>2, <2>2, <2>3 DEF GroupRead
  <1>3. CASE GroupClaim
    <2>1. UNCHANGED <<note, evts, index, read>> /\ Group!AutoClaim
      BY <1>3 DEF GroupClaim, Aside
    <2>2. read["recover"] = Nothing
      BY <1>0, <1>1, <2>1 DEF Group!AutoClaim
    <2> HIDE DEF SearchInv, BaseInv
    <2>3. GroupSound' /\ Open' = Open /\ thread'["read"] = thread["read"]
      BY <2>1, ClaimSound DEF SearchInv, BaseInv
    <2> QED BY <1>1, <2>1, <2>2, <2>3, GroupKeeps
  <1>4. CASE Crash
    <2>1. /\ UNCHANGED <<length, last, pel, ripe, handled, note, evts, index>>
          /\ thread' = [t \in Group!Thread |-> Group!Resting]
          /\ read' = [t \in Thread |-> Nothing]
      BY <1>4 DEF Crash, Group!Crash
    <2>2. GroupSound' /\ Open' = Open
      BY <2>1, RestSound
    <2> HIDE DEF SearchInv, BaseInv
    <2> QED BY <2>1, <2>2, GroupKeeps
  <1>5. CASE \E m \in 1..MaxMsg : GroupRipen(m)
    <2>1. UNCHANGED <<length, last, pel, thread, handled, note, evts, index, read>> /\ ripe' \subseteq pel
      BY <1>5 DEF GroupRipen, Aside, Group!Ripen, GroupSound
    <2>2. GroupSound' /\ Open' = Open
      BY <2>1 DEF GroupSound, Open, Group!Due, Group!Pending
    <2> HIDE DEF SearchInv, BaseInv
    <2> QED BY <1>1, <2>1, <2>2, GroupKeeps
  <1>6. ASSUME NEW t \in Thread, GroupAck(t) PROVE SearchInv'
    <2>1. UNCHANGED <<note, evts, index, read>> /\ Group!AckDone(t) /\ thread[t].batch = thread[t].done
      BY <1>6 DEF GroupAck, Aside, Group!AckBatch
    <2>2. read[t] = Nothing
      BY <1>0, <2>1
    <2> HIDE DEF SearchInv, BaseInv
    <2>3. GroupSound' /\ Open' = Open /\ \A s \in Thread \ {t} : thread'[s] = thread[s]
      BY <2>1, AckSound DEF SearchInv, BaseInv
    <2> QED BY <1>1, <2>1, <2>2, <2>3, GroupKeeps
  <1>7. ASSUME NEW t \in Thread, GroupAckFail(t) PROVE SearchInv'
    <2>1. /\ UNCHANGED <<length, last, pel, ripe, handled, note, evts, index, read>>
          /\ thread' = [thread EXCEPT ![t] = Group!Resting] /\ read[t] = Nothing
      BY <1>7 DEF GroupAckFail, Aside, Group!AckFail
    <2>2. GroupSound' /\ Open' = Open /\ \A s \in Thread \ {t} : thread'[s] = thread[s]
      BY <2>1, RestSound DEF GroupSound
    <2> HIDE DEF SearchInv, BaseInv
    <2> QED BY <1>1, <2>1, <2>2, GroupKeeps
  <1>8. ASSUME NEW t \in Thread, HandleFail(t) PROVE SearchInv'
    <2>1. /\ UNCHANGED <<note, evts, index>> /\ Group!AckDone(t)
          /\ read' = [read EXCEPT ![t] = Nothing]
      BY <1>8 DEF HandleFail, Group!HandleFail
    <2> HIDE DEF SearchInv, BaseInv
    <2>2. GroupSound' /\ Open' = Open /\ \A s \in Thread \ {t} : thread'[s] = thread[s]
      BY <2>1, AckSound DEF SearchInv, BaseInv
    <2>3. DOMAIN read' = Thread /\ read'[t] = Nothing /\ \A s \in Thread \ {t} : read'[s] = read[s]
      BY <1>1, <2>1
    <2> QED BY <2>1, <2>2, <2>3, GroupKeeps
  <1> HIDE DEF SearchInv, BaseInv
  <1> QED BY <1>2, <1>3, <1>4, <1>5, <1>6, <1>7, <1>8

LEMMA SearchInit == ASSUME Init PROVE SearchInv
  <1>1. /\ length = 0 /\ last = 0 /\ pel = {} /\ ripe = {} /\ handled = {} /\ evts = <<>>
        /\ thread = [t \in Group!Thread |-> Group!Resting]
        /\ note = [n \in Note |-> NoRow] /\ index = [n \in Note |-> NoDocument]
        /\ read = [t \in Thread |-> Nothing]
    BY DEF Init, Group!Init
  <1>2. GroupSound
    <2>1. Group!Pending = {}
      BY <1>1 DEF Group!Pending
    <2>2. thread \in [Thread -> [busy: BOOLEAN, batch: SUBSET (1..last), done: SUBSET handled]]
      BY <1>1 DEF Group!Thread, Group!Resting, Thread
    <2>3. evts \in Seq(Event) /\ Len(evts) = length
      BY <1>1
    <2>4. length \in Nat /\ last \in 0..length
      BY <1>1
    <2> QED BY <1>1, <2>1, <2>2, <2>3, <2>4 DEF GroupSound
  <1>3. NotesTyped /\ DeletedGone /\ ReadCurrent
    BY <1>1 DEF NotesTyped, NoteRow, NoRow, DeletedGone, ReadCurrent
  <1>4. ClosedRight
    BY <1>1 DEF ClosedRight, DocumentOf, NoRow
  <1> QED BY <1>2, <1>3, <1>4 DEF SearchInv, BaseInv

LEMMA SearchKept == ASSUME SearchInv, [Next]_vars, ~disturbed' PROVE SearchInv'
  <1>1. CASE UNCHANGED vars
    <2>1. UNCHANGED <<length, last, pel, ripe, thread, handled, note, evts, index, read>>
      BY <1>1 DEF vars, groupVars
    <2>2. GroupSound' /\ Open' = Open
      BY <2>1 DEF SearchInv, BaseInv, GroupSound, Open, Group!Due, Group!Pending
    <2>3. DOMAIN read' = Thread
      BY <2>1 DEF SearchInv, BaseInv, NotesTyped
    <2> QED BY <2>1, <2>2, <2>3, GroupKeeps
  <1>2. ASSUME NEW n \in Note, DeleteByModerator(n) PROVE FALSE
    BY <1>2 DEF DeleteByModerator
  <1>3. ASSUME NEW t \in Thread, HandlerStep(t) PROVE SearchInv'
    BY <1>3, GetByIDKeeps, IndexKeeps, DeleteKeeps DEF HandlerStep
  <1> QED BY <1>1, <1>2, <1>3, BusinessKeeps, GroupStepKeeps DEF Next

\* What has gone wrong stays in the history.
LEMMA DisturbedStays == ASSUME [Next]_vars, disturbed PROVE disturbed'
  <1>1. CASE \E n \in Note :
               CreateOrUpdate(n) \/ DeleteByID(n) \/ DeleteMatchless(n) \/ DeleteByModerator(n)
    BY <1>1 DEF CreateOrUpdate, DeleteByID, DeleteMatchless, DeleteByModerator
  <1>2. CASE \E t \in Thread : HandlerStep(t)
    BY <1>2 DEF HandlerStep, GetByID, Index, Delete
  <1>3. CASE \E t \in Thread : GroupAck(t) \/ GroupAckFail(t) \/ HandleFail(t)
    BY <1>3 DEF GroupAck, GroupAckFail, HandleFail, Aside
  <1>4. CASE GroupRead \/ GroupClaim \/ Crash \/ \E m \in 1..MaxMsg : GroupRipen(m)
    BY <1>4 DEF GroupRead, GroupClaim, Crash, GroupRipen, Aside
  <1>5. CASE UNCHANGED vars
    BY <1>5 DEF vars
  <1> QED BY <1>1, <1>2, <1>3, <1>4, <1>5 DEF Next

(***************************************************************************)
(* Once the events of a note are handled the index says of it what the     *)
(* table says, through edits and deletions at any moment, failures,        *)
(* crashes and redeliveries by the recover loop, as long as the two loops  *)
(* do not work on one note at the same time, no request to delete a note   *)
(* that is there or comes yet matches no row, and no moderator deletes     *)
(* (searchHandler, main.go:165-197).                                       *)
(***************************************************************************)
THEOREM IndexConsistentHolds == Spec => []IndexConsistent
  <1> DEFINE Undisturbed == ~disturbed => SearchInv
  <1>1. Init => Undisturbed
    BY SearchInit
  <1>2. Undisturbed /\ [Next]_vars => Undisturbed'
    BY SearchKept, DisturbedStays
  <1>3. Undisturbed => IndexConsistent
    BY DEF SearchInv, ClosedRight, OpenFor, Open, IndexConsistent, IndexAgrees, Settled
  <1> QED BY <1>1, <1>2, <1>3, PTL DEF Spec
-----------------------------------------------------------------------------
(***************************************************************************)
(* Types.  The text of a note is the number of its edits, each of which    *)
(* has put an event on the stream.                                         *)
(***************************************************************************)
\* A part of the group's entries handled or acked.
LEMMA WithoutTyped ==
  ASSUME Group!TypeOK, NEW S
  PROVE  /\ Group!Without(pel, S) \in SUBSET (SUBSET Group!Msg)
         /\ Group!Without(ripe, S) \in SUBSET Group!Without(pel, S)
  BY DEF Group!TypeOK, Group!Without

LEMMA RestingTyped == Group!Resting \in Group!ThreadState
  BY DEF Group!Resting, Group!ThreadState

LEMMA AckTyped ==
  ASSUME Group!TypeOK, NEW t \in Thread, Group!AckDone(t), faults' \in 0..MaxFaults
  PROVE  Group!TypeOK'
  <1>1. pel' \in SUBSET (SUBSET Group!Msg) /\ ripe' \in SUBSET pel'
    BY WithoutTyped DEF Group!AckDone
  <1>2. thread' \in [Group!Thread -> Group!ThreadState]
    BY RestingTyped DEF Group!AckDone, Group!TypeOK
  <1> QED BY <1>1, <1>2 DEF Group!AckDone, Group!TypeOK

LEMMA HandleOkTyped ==
  ASSUME Group!TypeOK, NEW t \in Thread, Group!HandleOk(t)
  PROVE  Group!TypeOK'
  <1>1. PICK m \in thread[t].batch : /\ handled' = handled \cup {m}
                                     /\ thread' = [thread EXCEPT ![t].done = @ \cup {m}]
    BY DEF Group!HandleOk
  <1>2. thread[t] \in Group!ThreadState /\ m \in Group!Msg
    BY DEF Group!TypeOK, Group!ThreadState, Group!Thread, Thread
  <1>3. [thread[t] EXCEPT !.done = @ \cup {m}] \in Group!ThreadState
    BY <1>2 DEF Group!ThreadState
  <1>4. thread' = [thread EXCEPT ![t] = [thread[t] EXCEPT !.done = @ \cup {m}]]
    BY <1>1
  <1>5. thread' \in [Group!Thread -> Group!ThreadState]
    BY <1>3, <1>4 DEF Group!TypeOK
  <1> QED BY <1>1, <1>2, <1>5 DEF Group!HandleOk, Group!TypeOK

LEMMA FaultTyped == ASSUME Group!TypeOK, Group!Fault PROVE faults' \in 0..MaxFaults
  BY SearchAssumption DEF Group!TypeOK, Group!Fault

\* What the group does but for the success of a handler.
GroupMove ==
  \/ Group!ReadGroup \/ Group!ReadNothing \/ Group!AutoClaim \/ Group!Crash
  \/ \E c \in pel : Group!Ripen(c)
  \/ \E t \in Thread : Group!AckBatch(t) \/ Group!AckFail(t) \/ Group!HandleFail(t)

LEMMA GroupTyped ==
  ASSUME Group!TypeOK, GroupMove
  PROVE  Group!TypeOK'
  <1>1. CASE Group!ReadGroup
    <2>1. /\ last \in Nat /\ length \in Nat /\ last < length /\ length <= MaxMsg
          /\ UNCHANGED <<length, ripe, handled, faults>>
      BY <1>1, SearchAssumption DEF Group!ReadGroup, Group!TypeOK
    <2>2. PICK n \in Nat \ {0} :
            /\ n <= length - last /\ last' = last + n
            /\ pel' = pel \cup {(last + 1)..(last + n)}
            /\ thread' = [thread EXCEPT !["read"] = Group!Working((last + 1)..(last + n))]
      <3> DEFINE n == IF length - last < BatchSize THEN length - last ELSE BatchSize
      <3>1. n \in Nat \ {0} /\ n <= length - last
        BY <2>1, SearchAssumption
      <3> QED BY <1>1, <3>1 DEF Group!ReadGroup
    <2>3. (last + 1)..(last + n) \subseteq Group!Msg /\ last' \in 0..MaxMsg
      BY <2>1, <2>2, SearchAssumption DEF Group!Msg
    <2>4. thread' \in [Group!Thread -> Group!ThreadState]
      BY <2>2, <2>3 DEF Group!TypeOK, Group!Working, Group!ThreadState
    <2>5. pel' \in SUBSET (SUBSET Group!Msg) /\ ripe' \in SUBSET pel'
      BY <2>1, <2>2, <2>3 DEF Group!TypeOK
    <2> QED BY <2>1, <2>3, <2>4, <2>5 DEF Group!TypeOK
  <1>2. CASE Group!ReadNothing
    BY <1>2 DEF Group!ReadNothing, Group!vars, Group!TypeOK
  <1>3. CASE \E c \in pel : Group!Ripen(c)
    BY <1>3 DEF Group!Ripen, Group!TypeOK
  <1>4. CASE \E t \in Thread : Group!AckBatch(t)
    BY <1>4, AckTyped DEF Group!AckBatch, Group!TypeOK
  <1>5. CASE \E t \in Thread : Group!AckFail(t)
    BY <1>5, RestingTyped, FaultTyped DEF Group!AckFail, Group!TypeOK
  <1>6. CASE Group!AutoClaim
    <2> DEFINE claimed == Group!FirstOf(ClaimCount, UNION ripe)
    <2>1. /\ pel' = Group!Without(pel, claimed) \cup {claimed}
          /\ ripe' = Group!Without(ripe, claimed)
          /\ thread' = [thread EXCEPT !["recover"] = Group!Working(claimed)]
          /\ UNCHANGED <<length, last, handled, faults>>
      BY <1>6 DEF Group!AutoClaim
    <2>2. claimed \in SUBSET Group!Msg
      BY DEF Group!FirstOf, Group!TypeOK
    <2> HIDE DEF claimed
    <2>3. Group!Working(claimed) \in Group!ThreadState
      BY <2>2 DEF Group!Working, Group!ThreadState
    <2> QED BY <2>1, <2>2, <2>3, WithoutTyped DEF Group!TypeOK
  <1>7. CASE Group!Crash
    BY <1>7, RestingTyped, FaultTyped DEF Group!Crash, Group!TypeOK
  <1>8. ASSUME NEW t \in Thread, Group!HandleFail(t) PROVE Group!TypeOK'
    <2>1. Group!AckDone(t)
      BY <1>8 DEF Group!HandleFail
    <2>2. faults' \in 0..MaxFaults
      BY <1>8, FaultTyped DEF Group!HandleFail, Group!TypeOK
    <2> QED BY <2>1, <2>2, AckTyped
  <1> QED BY <1>1, <1>2, <1>3, <1>4, <1>5, <1>6, <1>7, <1>8 DEF GroupMove

TextsCounted == \A n \in Note : note[n].text \in 0..length

IndexOK ==
  /\ note \in [Note -> Row] /\ evts \in Seq(Event) /\ Len(evts) = length
  /\ index \in [Note -> Document] /\ read \in [Thread -> {Nothing} \cup Row]
  /\ disturbed \in BOOLEAN /\ TextsCounted

Typed == Group!TypeOK /\ IndexOK

LEMMA EmitTyped ==
  ASSUME Typed, NEW type \in {"written", "deleted"}, NEW n \in Note, Emit(type, n)
  PROVE  /\ Group!TypeOK' /\ evts' \in Seq(Event) /\ Len(evts') = length'
         /\ length \in Nat /\ length < MaxMsg /\ length' = length + 1
  <1>1. [type |-> type, note |-> n] \in Event
    BY DEF Event
  <1>2. length' = length + 1 /\ length < MaxMsg
        /\ UNCHANGED <<last, pel, ripe, thread, handled, faults>>
    BY DEF Emit, Group!Publish
  <1>3. Group!TypeOK' /\ length \in Nat
    BY <1>2, SearchAssumption DEF Typed, Group!TypeOK
  <1>4. evts \in Seq(Event) /\ Len(evts) = length
    BY DEF Typed, IndexOK
  <1>5. evts' = Append(evts, [type |-> type, note |-> n])
    BY DEF Emit
  <1> QED BY <1>1, <1>2, <1>3, <1>4, <1>5

LEMMA DocumentTyped == ASSUME NEW row \in Row PROVE DocumentOf(row) \in Document
  BY DEF DocumentOf, Document, Row, NoDocument

LEMMA TypedInit == ASSUME Init PROVE Typed
  <1>1. Group!TypeOK
    BY SearchAssumption
    DEF Init, Group!Init, Group!TypeOK, Group!Resting, Group!ThreadState, Group!Msg
  <1>2. NoRow \in Row /\ NoRow.text = 0
    BY SearchAssumption DEF NoRow, Row, Text
  <1>3. NoDocument \in Document
    BY DEF Document
  <1>4. IndexOK
    <2>1. /\ note = [n \in Note |-> NoRow] /\ index = [n \in Note |-> NoDocument]
          /\ read = [t \in Thread |-> Nothing] /\ disturbed = FALSE
          /\ length = 0 /\ evts = <<>>
      BY DEF Init
    <2>2. evts \in Seq(Event) /\ Len(evts) = length
      BY <2>1
    <2>3. note \in [Note -> Row] /\ index \in [Note -> Document]
      BY <1>2, <1>3, <2>1
    <2>4. read \in [Thread -> {Nothing} \cup Row] /\ disturbed \in BOOLEAN
      BY <2>1
    <2>5. TextsCounted
      <3>1. \A n \in Note : note[n].text = 0
        BY <1>2, <2>1
      <3>2. 0..length = {0}
        BY <2>1
      <3> QED BY <3>1, <3>2 DEF TextsCounted
    <2> QED BY <2>2, <2>3, <2>4, <2>5 DEF IndexOK
  <1> QED BY <1>1, <1>4 DEF Typed

LEMMA BusinessTyped ==
  ASSUME Typed, NEW n \in Note,
         CreateOrUpdate(n) \/ DeleteByID(n) \/ DeleteMatchless(n) \/ DeleteByModerator(n)
  PROVE  Typed'
  <1>1. Group!TypeOK /\ IndexOK
    BY DEF Typed
  <1>2. note[n] \in Row /\ note[n].text \in 0..length
    BY <1>1 DEF IndexOK, TextsCounted
  <1>3. CASE CreateOrUpdate(n)
    <2> PICK row : row = [status |-> "published", text |-> note[n].text + 1]
      OBVIOUS
    <2>1. note' = [note EXCEPT ![n] = row] /\ UNCHANGED <<index, read, disturbed>>
      BY <1>3 DEF CreateOrUpdate
    <2>2. /\ Group!TypeOK' /\ evts' \in Seq(Event) /\ Len(evts') = length'
          /\ length \in Nat /\ length < MaxMsg /\ length' = length + 1
      BY <1>3, EmitTyped DEF CreateOrUpdate
    <2>3. note[n].text \in Nat
      BY <1>2, SearchAssumption DEF Row, Text
    <2>4. row \in Row /\ row.text \in 0..length'
      BY <1>2, <2>2, <2>3, SearchAssumption DEF Row, Text
    <2>5. \A x \in Note : note[x].text \in 0..length
      BY <1>1, SearchAssumption DEF IndexOK, TextsCounted, Row, Text
    <2>6. TextsCounted'
      BY <1>1, <2>1, <2>2, <2>4, <2>5 DEF IndexOK, TextsCounted
    <2>7. IndexOK'
      BY <1>1, <2>1, <2>2, <2>4, <2>6 DEF IndexOK
    <2> QED BY <2>2, <2>7 DEF Typed
  <1>4. ASSUME NEW status \in {"deleted", "gone"}, note' = [note EXCEPT ![n].status = status]
        PROVE  note' \in [Note -> Row] /\ \A x \in Note : note'[x].text = note[x].text
    BY <1>1, <1>4 DEF IndexOK, Row
  <1>5. CASE DeleteByID(n)
    <2>1. note' = [note EXCEPT ![n].status = "deleted"] /\ UNCHANGED <<index, read, disturbed>>
      BY <1>5 DEF DeleteByID
    <2>2. /\ Group!TypeOK' /\ evts' \in Seq(Event) /\ Len(evts') = length'
          /\ length \in Nat /\ length' = length + 1
      BY <1>5, EmitTyped DEF DeleteByID
    <2>3. note' \in [Note -> Row] /\ \A x \in Note : note'[x].text = note[x].text
      BY <1>4, <2>1
    <2>4. \A x \in Note : note[x].text \in 0..length
      BY <1>1, SearchAssumption DEF IndexOK, TextsCounted, Row, Text
    <2>5. TextsCounted'
      BY <2>2, <2>3, <2>4 DEF TextsCounted
    <2>6. IndexOK'
      BY <1>1, <2>1, <2>2, <2>3, <2>5 DEF IndexOK
    <2> QED BY <2>2, <2>6 DEF Typed
  <1>6. CASE DeleteByModerator(n)
    <2>1. PICK status \in {"deleted", "gone"} : note' = [note EXCEPT ![n].status = status]
      BY <1>6 DEF DeleteByModerator
    <2>2. /\ UNCHANGED <<length, last, pel, ripe, thread, handled, faults, evts, index, read>>
          /\ disturbed' = TRUE
      BY <1>6 DEF DeleteByModerator, groupVars
    <2>3. note' \in [Note -> Row] /\ \A x \in Note : note'[x].text = note[x].text
      BY <1>4, <2>1
    <2>4. IndexOK'
      BY <1>1, <2>2, <2>3 DEF IndexOK, TextsCounted
    <2>5. Group!TypeOK'
      BY <1>1, <2>2 DEF Group!TypeOK
    <2> QED BY <2>4, <2>5 DEF Typed
  <1>7. CASE DeleteMatchless(n)
    <2>1. UNCHANGED <<note, index, read>> /\ disturbed' \in BOOLEAN
      BY <1>7 DEF DeleteMatchless
    <2>2. /\ Group!TypeOK' /\ evts' \in Seq(Event) /\ Len(evts') = length'
          /\ length \in Nat /\ length' = length + 1
      BY <1>7, EmitTyped DEF DeleteMatchless
    <2>3. \A x \in Note : note[x].text \in 0..length
      BY <1>1, SearchAssumption DEF IndexOK, TextsCounted, Row, Text
    <2>4. TextsCounted'
      BY <2>1, <2>2, <2>3 DEF TextsCounted
    <2>5. IndexOK'
      BY <1>1, <2>1, <2>2, <2>4 DEF IndexOK
    <2> QED BY <2>2, <2>5 DEF Typed
  <1> QED BY <1>3, <1>5, <1>6, <1>7

LEMMA HandlerTyped == ASSUME Typed, NEW t \in Thread, HandlerStep(t) PROVE Typed'
  <1> PICK n \in Note : GetByID(t, n) \/ Index(t, n) \/ Delete(t, n)
    BY DEF HandlerStep
  <1>1. Group!TypeOK /\ IndexOK
    BY DEF Typed
  <1>2. CASE GetByID(t, n)
    <2>1. /\ read' = [read EXCEPT ![t] = note[n]]
          /\ UNCHANGED <<length, last, pel, ripe, thread, handled, faults, note, evts, index, disturbed>>
      BY <1>2 DEF GetByID, groupVars
    <2>2. IndexOK'
      BY <1>1, <2>1 DEF IndexOK, TextsCounted
    <2>3. Group!TypeOK'
      BY <1>1, <2>1 DEF Group!TypeOK
    <2> QED BY <2>2, <2>3 DEF Typed
  <1>3. CASE Index(t, n) \/ Delete(t, n)
    <2>1. PICK d \in Document : index' = [index EXCEPT ![n] = d]
      <3>1. CASE Index(t, n)
        <4>1. read[t] \in Row
          BY <1>1, <3>1 DEF Index, IndexOK
        <4> QED BY <3>1, <4>1, DocumentTyped DEF Index
      <3>2. CASE Delete(t, n)
        BY <3>2 DEF Delete, Document
      <3> QED BY <1>3, <3>1, <3>2
    <2>2. /\ Group!HandleOk(t) /\ UNCHANGED <<note, evts>>
          /\ read' \in {read, [read EXCEPT ![t] = Nothing]}
      BY <1>3 DEF Index, Delete
    <2>3. disturbed' \in BOOLEAN
      <3>1. disturbed' = (disturbed \/ Overlaps(t, n))
        BY <1>3 DEF Index, Delete
      <3> QED BY <3>1
    <2>4. Group!TypeOK' /\ length' = length
      BY <1>1, <2>2, HandleOkTyped DEF Group!HandleOk
    <2>5. index' \in [Note -> Document] /\ read' \in [Thread -> {Nothing} \cup Row]
      BY <1>1, <2>1, <2>2 DEF IndexOK
    <2>6. IndexOK'
      BY <1>1, <2>2, <2>3, <2>4, <2>5 DEF IndexOK, TextsCounted
    <2> QED BY <2>4, <2>6 DEF Typed
  <1> QED BY <1>2, <1>3

LEMMA MoveTyped ==
  ASSUME Typed, GroupMove, UNCHANGED <<note, evts, index, disturbed>>,
         read' \in [Thread -> {Nothing} \cup Row]
  PROVE  Typed'
  <1>1. Group!TypeOK /\ IndexOK
    BY DEF Typed
  <1>2. Group!TypeOK'
    BY <1>1, GroupTyped
  <1>3. length' = length
    BY DEF GroupMove, Group!ReadGroup, Group!ReadNothing, Group!vars, Group!AutoClaim, Group!Crash,
           Group!Ripen, Group!AckBatch, Group!AckFail, Group!HandleFail, Group!AckDone
  <1>4. IndexOK'
    BY <1>1, <1>3 DEF IndexOK, TextsCounted
  <1> QED BY <1>2, <1>4 DEF Typed

(***************************************************************************)
(* Every reachable state is well typed, whatever fails and runs beside the *)
(* read loop (searchHandler, main.go:165-197).                             *)
(***************************************************************************)
THEOREM TypeCorrect == Spec => []TypeOK
  <1>1. Typed /\ [Next]_vars => Typed'
    <2> SUFFICES ASSUME Typed, [Next]_vars PROVE Typed'
      OBVIOUS
    <2>1. read \in [Thread -> {Nothing} \cup Row]
      BY DEF Typed, IndexOK
    <2>2. CASE UNCHANGED vars
      <3>1. UNCHANGED <<length, last, pel, ripe, thread, handled, faults, note, evts, index, read, disturbed>>
        BY <2>2 DEF vars, groupVars
      <3>2. Group!TypeOK'
        BY <3>1 DEF Typed, Group!TypeOK
      <3>3. IndexOK'
        BY <3>1 DEF Typed, IndexOK, TextsCounted
      <3> QED BY <3>2, <3>3 DEF Typed
    <2>3. CASE GroupRead \/ GroupClaim \/ \E m \in 1..MaxMsg : GroupRipen(m)
      <3>1. GroupMove /\ Aside
        BY <2>3 DEF GroupRead, GroupClaim, GroupRipen, GroupMove
      <3> QED BY <2>1, <3>1, MoveTyped DEF Aside
    <2>4. CASE \E t \in Thread : GroupAck(t) \/ GroupAckFail(t)
      <3>1. GroupMove /\ Aside
        BY <2>4 DEF GroupAck, GroupAckFail, GroupMove
      <3> QED BY <2>1, <3>1, MoveTyped DEF Aside
    <2>5. CASE Crash
      <3>1. GroupMove /\ UNCHANGED <<note, evts, index, disturbed>>
        BY <2>5 DEF Crash, GroupMove
      <3>2. read' \in [Thread -> {Nothing} \cup Row]
        BY <2>5 DEF Crash
      <3> QED BY <3>1, <3>2, MoveTyped
    <2>6. CASE \E t \in Thread : HandleFail(t)
      <3>1. GroupMove /\ UNCHANGED <<note, evts, index, disturbed>>
        BY <2>6 DEF HandleFail, GroupMove
      <3>2. read' \in [Thread -> {Nothing} \cup Row]
        BY <2>1, <2>6 DEF HandleFail
      <3> QED BY <3>1, <3>2, MoveTyped
    <2> QED BY <2>2, <2>3, <2>4, <2>5, <2>6, BusinessTyped, HandlerTyped DEF Next
  <1>2. Init => Typed
    BY TypedInit
  <1>3. Typed => TypeOK
    BY DEF Typed, IndexOK, Event, TypeOK
  <1> QED BY <1>1, <1>2, <1>3, PTL DEF Spec
-----------------------------------------------------------------------------
(***************************************************************************)
(* Lists.  A row of the walk is below the cursor, or the walk has shown    *)
(* it, or a page has ended in the middle of its second.                    *)
(***************************************************************************)
Coming(x) == ~Page!Below(x, cursor)

OneRowPerId == \A x, y \in rows : x.id = y.id => x = y

RowsTyped ==
  /\ list \in Page!List
  /\ rows \subseteq Page!Row /\ OneRowPerId
  /\ ~list.ties => \A x, y \in rows : x.key = y.key => x = y
  /\ newest \in 0..MaxRow /\ \A x \in rows : x.id <= newest
  /\ dropped \subseteq Page!Id
  /\ cursor \in Page!Row \cup {Page!Top} /\ over \in BOOLEAN
  /\ changes \in 0..MaxChanges

\* Rows that come later are newer than what is ahead of the cursor.
ShownAhead ==
  /\ \A x \in rows : seen[x.id] > 0 => Coming(x)
  /\ \A i \in Page!Id : i > newest => seen[i] = 0
  /\ \A x \in skipped : Coming(x)

StableRight ==
  \A x \in stable :
    /\ x.id \notin dropped
    /\ Coming(x) => (seen[x.id] = 1 <=> x \notin skipped)

WalkTyped ==
  /\ seen \in [Page!Id -> 0..1]
  /\ stable \subseteq rows /\ skipped \subseteq Page!Row /\ early \in BOOLEAN

EndRight == over /\ ~early => \A x \in stable : Coming(x)

Exceptions ==
  /\ early => list.from = "shown"
  /\ skipped # {} => list.ties /\ ~list.byId

ListsInv == RowsTyped /\ WalkTyped /\ ShownAhead /\ StableRight /\ EndRight /\ Exceptions
-----------------------------------------------------------------------------
\* What the lists have in common.
LEMMA ListKinds ==
  ASSUME list \in Page!List
  PROVE  /\ list.ties \in BOOLEAN /\ list.byId \in BOOLEAN /\ list.drops \in BOOLEAN
         /\ list.moves \in BOOLEAN /\ list.from \in {"row", "shown"}
         /\ list.byId => list.ties
  <1> DEFINE kind(k) == /\ k.ties \in BOOLEAN /\ k.byId \in BOOLEAN /\ k.drops \in BOOLEAN
                        /\ k.moves \in BOOLEAN /\ k.from \in {"row", "shown"}
                        /\ k.byId => k.ties
  <1>1. kind(Page!FeedListFollowing)
    BY DEF Page!FeedListFollowing
  <1>2. kind(Page!UserListFollowing)
    BY DEF Page!UserListFollowing
  <1>3. kind(Page!FavoriteList)
    BY DEF Page!FavoriteList
  <1>4. kind(Page!ListConversations)
    BY DEF Page!ListConversations
  <1>5. kind(Page!ListByAuthorID)
    BY DEF Page!ListByAuthorID
  <1>6. list \in {Page!FeedListFollowing, Page!UserListFollowing, Page!FavoriteList,
                 Page!ListConversations, Page!ListByAuthorID}
    BY DEF Page!List, Page!FeedListByTopic, Page!UserListFollowers, Page!ListCommentsByNoteID,
           Page!ListNoteVersions, Page!ListNotifications, Page!ListMessages, Page!ListReports,
           Page!ListUsers
  <1>7. kind(list)
    <2> HIDE DEF kind
    <2> QED BY <1>1, <1>2, <1>3, <1>4, <1>5, <1>6
  <1> QED BY <1>7

LEMMA BelowTransitive ==
  ASSUME list \in Page!List,
         NEW x \in Page!Row \cup {Page!Top}, NEW y \in Page!Row \cup {Page!Top},
         NEW c \in Page!Row \cup {Page!Top},
         Page!Below(x, c), ~Page!Below(y, c)
  PROVE  ~Page!Below(y, x)
  <1>1. \A z \in Page!Row \cup {Page!Top} : z.id \in Nat /\ z.key \in Nat
    BY ListsAssumption DEF Page!Row, Page!Top, Page!Id
  <1>2. list.byId \in BOOLEAN
    BY ListKinds
  <1> QED BY <1>1, <1>2 DEF Page!Below

\* Two rows of which none is below the other have one key, and are one row if
\* the list tells rows of one key apart.
LEMMA NotBelow ==
  ASSUME RowsTyped, NEW x \in rows, NEW y \in rows, x # y,
         ~Page!Below(x, y), ~Page!Below(y, x)
  PROVE  list.ties /\ ~list.byId
  <1>1. \A z \in rows : z.id \in Nat /\ z.key \in Nat
    BY ListsAssumption DEF RowsTyped, Page!Row, Page!Id
  <1>2. x.key = y.key
    BY <1>1 DEF Page!Below
  <1>3. x.id # y.id
    BY DEF RowsTyped, OneRowPerId
  <1>4. list.byId \in BOOLEAN /\ list.ties \in BOOLEAN
    BY ListKinds DEF RowsTyped
  <1>5. list.ties
    BY <1>2, <1>4 DEF RowsTyped
  <1> QED BY <1>1, <1>2, <1>3, <1>4, <1>5 DEF Page!Below

LEMMA RowsCounted == ASSUME NEW S PROVE Page!Cardinality(S) = Cardinality(S)
  BY DEF Page!Cardinality, Cardinality

\* A page is empty only where nothing is below the cursor.
LEMMA PageOfSome ==
  ASSUME RowsTyped, NEW found \in SUBSET rows,
         Page!Cardinality({}) = Page!Min({RowsPerPage, Page!Cardinality(found)})
  PROVE  found = {}
  <1>1. IsFiniteSet(found)
    <2> DEFINE f == [x \in found |-> x.id]
    <2>1. f \in Injection(found, 1..MaxRow)
      BY DEF RowsTyped, OneRowPerId, Page!Row, Page!Id, Injection, IsInjective
    <2>2. IsFiniteSet(1..MaxRow)
      BY ListsAssumption, FS_Interval
    <2> HIDE DEF f
    <2> QED BY <2>1, <2>2, FS_Injection
  <1>2. Page!Cardinality({}) = 0 /\ Page!Cardinality(found) = Cardinality(found)
    BY RowsCounted, FS_EmptySet
  <1>3. Cardinality(found) \in Nat
    BY <1>1, FS_CardinalityType
  <1>4. Page!Min({RowsPerPage, Cardinality(found)}) \in {RowsPerPage, Cardinality(found)}
    BY <1>3, ListsAssumption DEF Page!Min
  <1>5. Cardinality(found) = 0
    BY <1>2, <1>4, ListsAssumption
  <1> QED BY <1>1, <1>5, FS_EmptySet
-----------------------------------------------------------------------------
\* What the client has read of the list, and what a page adds to it.
WalkSound == WalkTyped /\ ShownAhead /\ StableRight

\* The rows shown are new to the walk and the cursor moves down to the last.
LEMMA PageTurned ==
  ASSUME RowsTyped, WalkSound, NEW page, NEW found,
         found = {x \in rows : Page!Below(x, cursor)}, page \in SUBSET found,
         Page!Turn(page, found), UNCHANGED <<list, rows, dropped, newest, stable, changes>>
  PROVE  /\ RowsTyped' /\ WalkSound'
         /\ skipped' # {} => skipped # {} \/ (list.ties /\ ~list.byId)
  <1> DEFINE shown == {x \in page : x.id \notin dropped}
             from == IF list.from = "row" THEN page ELSE shown
             missed == found \ page
  <1>1. /\ \A x \in page, y \in missed : ~Page!Below(x, y)
        /\ seen' = [i \in Page!Id |-> IF \E x \in shown : x.id = i THEN seen[i] + 1 ELSE seen[i]]
        /\ from = {} => over' = TRUE /\ cursor' = cursor /\ skipped' = skipped
        /\ from # {} => /\ \E x \in from :
                             /\ \A y \in from : ~Page!Below(y, x)
                             /\ cursor' = x
                             /\ skipped' = skipped \cup {y \in missed : ~Page!Below(y, x)}
                        /\ over' = over
        /\ early' = (from = {} /\ page # {})
    BY DEF Page!Turn, Page!Lowest
  <1>2. shown \subseteq page /\ shown \subseteq from /\ from \subseteq page /\ page \subseteq rows
        /\ missed \subseteq rows
    OBVIOUS
  <1>3. /\ rows \subseteq Page!Row /\ rows \subseteq Page!Row \cup {Page!Top}
        /\ cursor \in Page!Row \cup {Page!Top} /\ list \in Page!List
        /\ \A x \in rows : x.id \in Page!Id
    BY DEF RowsTyped, Page!Row
  <1>4. RowsTyped'
    BY <1>1, <1>2, <1>3, Zenon DEF RowsTyped, OneRowPerId, Page!List
  <1>5. \A x \in found : seen[x.id] = 0
    <2>1. \A x \in rows : seen[x.id] \in 0..1
      BY <1>3 DEF WalkSound, WalkTyped
    <2> QED BY <2>1 DEF WalkSound, ShownAhead, Coming
  <1>6. \A x \in rows : seen'[x.id] = IF x \in shown THEN 1 ELSE seen[x.id]
    <2> SUFFICES ASSUME NEW x \in rows PROVE seen'[x.id] = IF x \in shown THEN 1 ELSE seen[x.id]
      OBVIOUS
    <2>1. (\E y \in shown : y.id = x.id) <=> x \in shown
      BY <1>2 DEF RowsTyped, OneRowPerId
    <2>2. x \in shown => seen[x.id] = 0
      BY <1>2, <1>5
    <2>3. seen'[x.id] = IF \E y \in shown : y.id = x.id THEN seen[x.id] + 1 ELSE seen[x.id]
      BY <1>1, <1>3
    <2> QED BY <2>1, <2>2, <2>3
  \* What was ahead of the cursor stays so.
  <1>7. \A y \in Page!Row : Coming(y) => Coming(y)'
    <2> SUFFICES ASSUME NEW y \in Page!Row, Coming(y) PROVE Coming(y)'
      OBVIOUS
    <2>1. CASE from = {}
      BY <1>1, <2>1 DEF Coming, Page!Below
    <2>2. CASE from # {}
      <3>1. PICK x \in from : cursor' = x
        BY <1>1, <2>2
      <3>2. Page!Below(x, cursor) /\ x \in rows
        BY <1>2
      <3>3. ~Page!Below(y, x)
        BY <1>3, <3>2, BelowTransitive DEF Coming
      <3> QED BY <3>1, <3>3 DEF Coming, Page!Below
    <2> QED BY <2>1, <2>2
  <1>8. \A y \in from : Coming(y)'
    BY <1>1 DEF Coming, Page!Below
  <1>9. \A y \in missed : Coming(y)' <=> y \in skipped'
    <2> SUFFICES ASSUME NEW y \in missed PROVE Coming(y)' <=> y \in skipped'
      OBVIOUS
    <2>1. y \notin skipped
      BY DEF WalkSound, ShownAhead, Coming
    <2> QED BY <1>1, <2>1 DEF Coming, Page!Below
  <1> HIDE DEF shown, from, missed
  <1>10. WalkTyped'
    <2>1. seen' \in [Page!Id -> 0..1]
      <3>1. seen \in [Page!Id -> 0..1]
        BY DEF WalkSound, WalkTyped
      <3>2. \A i \in Page!Id : (\E x \in shown : x.id = i) => seen[i] = 0
        BY <1>2, <1>5 DEF missed
      <3> QED BY <1>1, <3>1, <3>2
    <2>2. skipped' \subseteq Page!Row
      BY <1>1, <1>2, <1>3 DEF WalkSound, WalkTyped
    <2> QED BY <1>1, <2>1, <2>2 DEF WalkSound, WalkTyped
  <1>11. ShownAhead'
    <2>1. \A x \in rows' : seen'[x.id] > 0 => Coming(x)'
      <3> SUFFICES ASSUME NEW x \in rows, seen'[x.id] > 0 PROVE Coming(x)'
        OBVIOUS
      <3>1. CASE x \in shown
        BY <1>2, <1>8, <3>1
      <3>2. CASE x \notin shown
        <4>1. seen[x.id] > 0
          BY <1>6, <3>2
        <4> QED BY <1>3, <1>7, <4>1 DEF WalkSound, ShownAhead
      <3> QED BY <3>1, <3>2
    <2>2. \A i \in Page!Id : i > newest' => seen'[i] = 0
      <3>1. \A x \in shown : x.id <= newest
        BY <1>2 DEF RowsTyped
      <3>2. \A i \in Page!Id : i \in Nat
        BY ListsAssumption DEF Page!Id
      <3>3. newest \in Nat
        BY ListsAssumption DEF RowsTyped
      <3>4. \A i \in Page!Id : i > newest => ~ \E x \in shown : x.id = i
        BY <3>1, <3>2, <3>3
      <3> QED BY <1>1, <3>4 DEF WalkSound, ShownAhead
    <2>3. \A x \in skipped' : Coming(x)'
      <3>1. \A x \in skipped' : x \in skipped \/ x \in missed
        BY <1>1
      <3>2. \A x \in skipped : Coming(x) /\ x \in Page!Row
        BY DEF WalkSound, WalkTyped, ShownAhead
      <3> QED BY <1>7, <1>9, <3>1, <3>2
    <2> QED BY <2>1, <2>2, <2>3 DEF ShownAhead
  <1>12. StableRight'
    <2> SUFFICES ASSUME NEW x \in stable
                 PROVE  /\ x.id \notin dropped
                        /\ Coming(x)' => (seen'[x.id] = 1 <=> x \notin skipped')
      BY DEF StableRight
    <2>1. x \in rows /\ x.id \notin dropped /\ (Coming(x) => (seen[x.id] = 1 <=> x \notin skipped))
      BY DEF WalkSound, WalkTyped, StableRight
    <2>2. x \in found <=> ~Coming(x)
      BY <2>1 DEF Coming
    <2>3. CASE x \in page
      <3>1. x \in shown /\ x \in from /\ x \notin missed /\ ~Coming(x)
        BY <1>2, <2>1, <2>2, <2>3 DEF shown, missed
      <3>2. x \notin skipped'
        BY <1>1, <3>1 DEF WalkSound, ShownAhead
      <3> QED BY <1>6, <2>1, <3>1, <3>2
    <2>4. CASE x \in missed
      <3>1. seen'[x.id] = 0
        BY <1>2, <1>5, <1>6, <2>1, <2>4 DEF missed
      <3> QED BY <1>9, <2>1, <2>4, <3>1
    <2>5. CASE x \notin found
      <3>1. x \notin shown /\ x \notin missed
        BY <2>5, <1>2 DEF missed
      <3>2. x \in skipped' <=> x \in skipped
        BY <1>1, <3>1
      <3> QED BY <1>6, <2>1, <2>2, <2>5, <3>1, <3>2
    <2> QED BY <2>3, <2>4, <2>5 DEF missed
  <1>13. skipped' # {} => skipped # {} \/ (list.ties /\ ~list.byId)
    <2> SUFFICES ASSUME NEW y \in skipped', y \notin skipped PROVE list.ties /\ ~list.byId
      OBVIOUS
    <2>1. from # {} /\ y \in missed
      BY <1>1
    <2>2. PICK x \in from : y \in skipped \cup {z \in missed : ~Page!Below(z, x)}
      BY <1>1, <2>1
    <2>3. x \in page /\ x \in rows /\ y \in rows /\ ~Page!Below(y, x) /\ ~Page!Below(x, y)
      BY <1>1, <1>2, <2>1, <2>2
    <2>4. x # y
      BY <2>1, <2>3 DEF missed
    <2> QED BY <2>3, <2>4, NotBelow
  <1> QED BY <1>4, <1>10, <1>11, <1>12, <1>13 DEF WalkSound

LEMMA ListsStart == Page!Init => ListsInv
  <1> SUFFICES ASSUME Page!Init PROVE ListsInv
    OBVIOUS
  <1>1. RowsTyped
    BY ListsAssumption DEF Page!Init, RowsTyped, OneRowPerId, Page!Top
  <1>2. WalkSound
    <2>1. /\ rows = {} /\ seen = [i \in Page!Id |-> 0] /\ stable = {} /\ skipped = {}
          /\ early = FALSE
      BY DEF Page!Init
    <2>2. seen \in [Page!Id -> 0..1]
      BY <2>1
    <2>3. WalkTyped
      BY <2>1, <2>2 DEF WalkTyped
    <2>4. ShownAhead /\ StableRight
      BY <2>1 DEF ShownAhead, StableRight
    <2> QED BY <2>3, <2>4 DEF WalkSound
  <1> QED BY <1>1, <1>2 DEF WalkSound, ListsInv, EndRight, Exceptions, Page!Init, Page!history

LEMMA ListsNextPage == ASSUME ListsInv, Page!NextPage PROVE ListsInv'
  <1> DEFINE found == {x \in rows : Page!Below(x, cursor)}
  <1>1. PICK page \in SUBSET found :
          /\ Page!Cardinality(page) = Page!Min({RowsPerPage, Page!Cardinality(found)})
          /\ Page!Turn(page, found)
    BY DEF Page!NextPage
  <1>2. ~over /\ UNCHANGED <<list, rows, dropped, newest, stable, changes>>
    BY DEF Page!NextPage
  <1> HIDE DEF found
  <1>3. RowsTyped' /\ WalkSound' /\ (skipped' # {} => skipped # {} \/ (list.ties /\ ~list.byId))
    BY <1>1, <1>2, PageTurned DEF ListsInv, WalkSound, found
  <1>4. EndRight'
    <2> SUFFICES ASSUME over', ~early', NEW x \in stable' PROVE Coming(x)'
      BY DEF EndRight
    <2>1. page = {} /\ UNCHANGED cursor
      BY <1>2 , <1>1 DEF Page!Turn
    <2>2. found = {}
      BY <1>1, <2>1, PageOfSome DEF ListsInv, found
    <2>3. x \in rows
      BY <1>2 DEF ListsInv, WalkTyped
    <2> QED BY <1>2, <2>1, <2>2, <2>3 DEF Coming, found, Page!Below
  <1>5. early' => list.from = "shown"
    <2>1. list.from \in {"row", "shown"}
      BY ListKinds DEF ListsInv, RowsTyped
    <2> QED BY <1>1, <2>1 DEF Page!Turn
  <1> QED BY <1>2, <1>3, <1>4, <1>5 DEF ListsInv, WalkSound, Exceptions

LEMMA ListsOpen == ASSUME ListsInv, Page!Open PROVE ListsInv'
  <1>1. RowsTyped'
    BY DEF ListsInv, RowsTyped, OneRowPerId, Page!Open
  <1>2. \A x \in rows : ~Coming(x)'
    BY ListsAssumption DEF ListsInv, RowsTyped, Page!Open, Coming, Page!Below, Page!Top, Page!Row
  <1>3. WalkSound'
    <2>1. WalkTyped'
      <3>1. /\ seen' = [i \in Page!Id |-> 0] /\ skipped' = {} /\ early' = FALSE
            /\ stable' \subseteq rows /\ rows' = rows
        BY DEF Page!Open
      <3>2. seen' \in [Page!Id -> 0..1]
        BY <3>1
      <3> QED BY <3>1, <3>2 DEF WalkTyped
    <2>2. ShownAhead'
      BY DEF ListsInv, RowsTyped, Page!Row, ShownAhead, Page!Open
    <2>3. StableRight'
      BY <1>2 DEF StableRight, Page!Open
    <2> QED BY <2>1, <2>2, <2>3 DEF WalkSound
  <1> QED BY <1>1, <1>3 DEF ListsInv, WalkSound, EndRight, Exceptions, Page!Open

LEMMA ListsInsert == ASSUME ListsInv, NEW key \in 1..MaxKey, Page!Insert(key) PROVE ListsInv'
  <1> DEFINE new == [id |-> newest + 1, key |-> key]
  <1>1. /\ newest < MaxRow /\ newest' = newest + 1 /\ rows' = rows \cup {new}
        /\ \A x \in rows : x.key < key \/ (list.ties /\ x.key = key)
        /\ UNCHANGED <<list, dropped, cursor, over, seen, stable, skipped, early, changes>>
    BY DEF Page!Insert, Page!history
  <1>2. new.id = newest + 1 /\ new.key = key /\ new \in Page!Row /\ newest \in Nat
    BY <1>1, ListsAssumption DEF ListsInv, RowsTyped, Page!Row, Page!Id
  <1>3. \A x \in rows : x.id \in Nat /\ x.key \in Nat /\ x.id <= newest
    BY ListsAssumption DEF ListsInv, RowsTyped, Page!Row, Page!Id
  <1>4. seen[new.id] = 0
    BY <1>2 DEF ListsInv, ShownAhead, Page!Row
  <1> HIDE DEF new
  <1>5. RowsTyped'
    <2>1. OneRowPerId'
      BY <1>1, <1>2, <1>3 DEF ListsInv, RowsTyped, OneRowPerId
    <2>2. ~list.ties => \A x, y \in rows' : x.key = y.key => x = y
      BY <1>1, <1>2, <1>3 DEF ListsInv, RowsTyped
    <2>3. newest' \in 0..MaxRow /\ \A x \in rows' : x.id <= newest'
      BY <1>1, <1>2, <1>3, ListsAssumption
    <2> QED BY <1>1, <1>2, <2>1, <2>2, <2>3 DEF ListsInv, RowsTyped
  <1>6. \A x : Coming(x)' <=> Coming(x)
    BY <1>1 DEF Coming, Page!Below
  <1>7. ShownAhead'
    <2>1. \A i \in Page!Id : i > newest + 1 => i > newest
      BY <1>2, ListsAssumption DEF Page!Id
    <2> QED BY <1>1, <1>4, <1>6, <2>1 DEF ListsInv, ShownAhead
  <1> QED BY <1>1, <1>5, <1>6, <1>7 DEF ListsInv, WalkTyped, StableRight, EndRight, Exceptions

LEMMA ListsRemove == ASSUME ListsInv, NEW x \in rows, Page!Remove(x) PROVE ListsInv'
  <1>1. /\ changes < MaxChanges /\ changes' = changes + 1 /\ stable' = stable \ {x}
        /\ rows' = rows \ {x}
        /\ UNCHANGED <<list, newest, cursor, over, seen, skipped, early, dropped>>
    BY DEF Page!Remove, Page!Change
  <1>2. RowsTyped'
    BY <1>1, ListsAssumption DEF ListsInv, RowsTyped, OneRowPerId
  <1>3. \A y : Coming(y)' <=> Coming(y)
    BY <1>1 DEF Coming, Page!Below
  <1> QED BY <1>1, <1>2, <1>3
          DEF ListsInv, WalkTyped, ShownAhead, StableRight, EndRight, Exceptions

LEMMA ListsDrop == ASSUME ListsInv, NEW x \in rows, Page!Drop(x) PROVE ListsInv'
  <1>1. /\ changes < MaxChanges /\ changes' = changes + 1 /\ stable' = stable \ {x}
        /\ dropped' = IF x.id \in dropped THEN dropped \ {x.id} ELSE dropped \cup {x.id}
        /\ UNCHANGED <<list, newest, cursor, over, seen, skipped, early, rows>>
    BY DEF Page!Drop, Page!Change
  <1>2. RowsTyped'
    <2>1. x.id \in Page!Id
      BY DEF ListsInv, RowsTyped, Page!Row
    <2> QED BY <1>1, <2>1, ListsAssumption DEF ListsInv, RowsTyped, OneRowPerId
  <1>3. \A y : Coming(y)' <=> Coming(y)
    BY <1>1 DEF Coming, Page!Below
  <1>4. StableRight'
    <2>1. \A y \in stable : y.id = x.id => y = x
      BY DEF ListsInv, WalkTyped, RowsTyped, OneRowPerId
    <2> QED BY <1>1, <1>3, <2>1 DEF ListsInv, StableRight
  <1> QED BY <1>1, <1>2, <1>3, <1>4 DEF ListsInv, WalkTyped, ShownAhead, EndRight, Exceptions

LEMMA ListsMove ==
  ASSUME ListsInv, NEW x \in rows, NEW key \in 1..MaxKey, Page!Move(x, key)
  PROVE  ListsInv'
  <1> DEFINE new == [x EXCEPT !.key = key]
  <1>1. /\ \A y \in rows : y.key < key
        /\ changes < MaxChanges /\ changes' = changes + 1 /\ stable' = stable \ {x}
        /\ rows' = (rows \ {x}) \cup {new}
        /\ UNCHANGED <<list, newest, cursor, over, seen, skipped, early, dropped>>
    BY DEF Page!Move, Page!Change
  <1>2. /\ x \in Page!Row /\ new \in Page!Row /\ new.id = x.id /\ new.key = key
        /\ \A y \in rows : y.id \in Nat /\ y.key \in Nat
    BY ListsAssumption DEF ListsInv, RowsTyped, Page!Row, Page!Id
  <1> HIDE DEF new
  <1>3. RowsTyped'
    <2>1. OneRowPerId'
      BY <1>1, <1>2 DEF ListsInv, RowsTyped, OneRowPerId
    <2>2. ~list.ties => \A y, z \in rows' : y.key = z.key => y = z
      BY <1>1, <1>2 DEF ListsInv, RowsTyped
    <2>3. \A y \in rows' : y.id <= newest
      BY <1>1, <1>2 DEF ListsInv, RowsTyped
    <2> QED BY <1>1, <1>2, <2>1, <2>2, <2>3, ListsAssumption DEF ListsInv, RowsTyped
  <1>4. \A y : Coming(y)' <=> Coming(y)
    BY <1>1 DEF Coming, Page!Below
  <1>5. Coming(x) => Coming(new)
    <2>1. cursor.id \in Nat /\ cursor.key \in Nat /\ list.byId \in BOOLEAN
      BY ListKinds, ListsAssumption DEF ListsInv, RowsTyped, Page!Row, Page!Id, Page!Top
    <2>2. x.key < key /\ key \in Nat /\ x.key \in Nat
      BY <1>1, <1>2
    <2> QED BY <1>2, <2>1, <2>2 DEF Coming, Page!Below
  <1>6. ShownAhead'
    BY <1>1, <1>2, <1>4, <1>5 DEF ListsInv, ShownAhead
  <1> QED BY <1>1, <1>3, <1>4, <1>6
          DEF ListsInv, WalkTyped, StableRight, EndRight, Exceptions

LEMMA ListsInvariant == Page!Spec => []ListsInv
  <1>1. ASSUME ListsInv, [Page!Next]_(Page!vars) PROVE ListsInv'
    <2>1. CASE UNCHANGED Page!vars
      BY <1>1, <2>1 DEF ListsInv, RowsTyped, OneRowPerId, WalkTyped, ShownAhead, StableRight, EndRight,
           Exceptions, Coming, Page!Below, Page!vars, Page!history
    <2>2. CASE Page!Next
      BY <1>1, <2>2, ListsNextPage, ListsOpen, ListsInsert, ListsRemove, ListsDrop, ListsMove
         DEF Page!Next
    <2> QED BY <1>1, <2>1, <2>2
  <1> QED BY <1>1, ListsStart, PTL DEF Page!Spec

LEMMA ShownOnceHolds == ListsInv => Page!ShownOnce /\ Page!TypeOK
  <1> SUFFICES ASSUME ListsInv PROVE Page!ShownOnce /\ Page!TypeOK
    OBVIOUS
  <1>1. \A i \in Page!Id : seen[i] \in 0..1
    BY DEF ListsInv, WalkTyped
  <1>2. Page!ShownOnce
    BY <1>1 DEF ListsInv, Page!ShownOnce, EndRight, StableRight, Exceptions
  <1>3. Page!TypeOK
    BY DEF ListsInv, RowsTyped, OneRowPerId, WalkTyped, Page!TypeOK
  <1> QED BY <1>2, <1>3
-----------------------------------------------------------------------------
(***************************************************************************)
(* What is left of a sequence without the elements of a set.               *)
(***************************************************************************)
\* Induction over the numbers up to n.
LEMMA UpToAll ==
  ASSUME NEW n \in Nat, NEW P \in SUBSET (0..n), 0 \in P,
         \A i \in 0..(n - 1) : i \in P => i + 1 \in P
  PROVE  \A i \in 0..n : i \in P
  <1> DEFINE T == (0..n) \ P
             R == {ss \in Nat \X Nat : ss[1] < ss[2]}
  <1>1. IsWellFoundedOn(R, Nat)
    BY NatLessThanWellFounded DEF OpToRel
  <1>2. SUFFICES ASSUME T # {} PROVE FALSE
    OBVIOUS
  <1>3. T \subseteq Nat
    OBVIOUS
  <1> HIDE DEF R
  <1>4. PICK i \in T : \A j \in T : <<j, i>> \notin R
    <2> HIDE DEF T
    <2> QED BY <1>1, <1>2, <1>3, WFMin
  <1>5. i \in 0..n /\ i # 0 /\ i - 1 \in 0..(n - 1) /\ i = (i - 1) + 1
    OBVIOUS
  <1>6. i - 1 \in T
    BY <1>5
  <1>7. <<i - 1, i>> \in R
    BY <1>5 DEF R
  <1> QED BY <1>4, <1>6, <1>7

\* What is kept of the first elements of s, and of how many.
Keeps(f, s, T, n) ==
  f = [i \in 0..n |-> IF i = 0 THEN <<>>
                      ELSE IF s[i] \in T THEN f[i - 1] ELSE Append(f[i - 1], s[i])]

LEMMA KeepsAt ==
  ASSUME NEW f, NEW s, NEW T, NEW n \in Nat, Keeps(f, s, T, n), NEW i \in 0..n
  PROVE  f[i] = IF i = 0 THEN <<>> ELSE IF s[i] \in T THEN f[i - 1] ELSE Append(f[i - 1], s[i])
  BY DEF Keeps

LEMMA KeepsSome ==
  ASSUME NEW s, NEW T, NEW n \in Nat
  PROVE  \E f : Keeps(f, s, T, n)
  <1> DEFINE P == {m \in 0..n : \E f : Keeps(f, s, T, m)}
  <1>1. 0 \in P
    <2> DEFINE f == [i \in 0..0 |-> <<>>]
    <2>1. Keeps(f, s, T, 0)
      BY DEF Keeps
    <2> QED BY <2>1
  <1>2. ASSUME NEW m \in 0..(n - 1), m \in P PROVE m + 1 \in P
    <2>1. PICK f : Keeps(f, s, T, m)
      BY <1>2
    <2> DEFINE x == IF s[m + 1] \in T THEN f[m] ELSE Append(f[m], s[m + 1])
               g == [i \in 0..(m + 1) |-> IF i <= m THEN f[i] ELSE x]
    <2>2. \A i \in 0..m : g[i] = f[i]
      OBVIOUS
    <2>3. g[m + 1] = x
      OBVIOUS
    <2>4. \A i \in 0..m : f[i] = IF i = 0 THEN <<>>
                                 ELSE IF s[i] \in T THEN f[i - 1] ELSE Append(f[i - 1], s[i])
      BY <2>1 DEF Keeps
    <2>5. \A i \in 0..(m + 1) :
            g[i] = IF i = 0 THEN <<>>
                   ELSE IF s[i] \in T THEN g[i - 1] ELSE Append(g[i - 1], s[i])
      <3> SUFFICES ASSUME NEW i \in 0..(m + 1)
                   PROVE  g[i] = IF i = 0 THEN <<>>
                                 ELSE IF s[i] \in T THEN g[i - 1] ELSE Append(g[i - 1], s[i])
        OBVIOUS
      <3> HIDE DEF g
      <3>1. CASE i = 0
        BY <2>2, <2>4, <3>1
      <3>2. CASE i \in 1..m
        <4>1. i - 1 \in 0..m /\ i \in 0..m /\ i # 0
          BY <3>2
        <4> QED BY <2>2, <2>4, <4>1
      <3>3. CASE i = m + 1
        <4>1. i - 1 = m /\ i # 0 /\ m \in 0..m
          BY <3>3
        <4> QED BY <2>2, <2>3, <3>3, <4>1
      <3> QED BY <3>1, <3>2, <3>3
    <2>6. Keeps(g, s, T, m + 1)
      <3>1. g = [i \in 0..(m + 1) |-> g[i]]
        OBVIOUS
      <3> HIDE DEF g
      <3> QED BY <2>5, <3>1 DEF Keeps
    <2> QED BY <2>6
  <1>3. P \in SUBSET (0..n)
    OBVIOUS
  <1> HIDE DEF P
  <1>4. n \in P
    BY <1>1, <1>2, <1>3, UpToAll
  <1> QED BY <1>4 DEF P

\* Sequences that begin alike keep the same.
LEMMA KeepsSame ==
  ASSUME NEW f, NEW g, NEW s, NEW t, NEW T, NEW n \in Nat, NEW m \in Nat, NEW k \in Nat,
         Keeps(f, s, T, n), Keeps(g, t, T, m), k <= n, k <= m,
         \A i \in 1..k : s[i] = t[i]
  PROVE  f[k] = g[k]
  <1> DEFINE P == {i \in 0..k : f[i] = g[i]}
  <1>1. 0 \in P
    BY KeepsAt
  <1>2. ASSUME NEW i \in 0..(k - 1), i \in P PROVE i + 1 \in P
    <2>1. i + 1 \in 1..k /\ (i + 1) - 1 = i /\ i + 1 # 0 /\ i + 1 \in 0..n /\ i + 1 \in 0..m
      OBVIOUS
    <2>2. f[i + 1] = IF s[i + 1] \in T THEN f[i] ELSE Append(f[i], s[i + 1])
      BY <2>1, KeepsAt
    <2>3. g[i + 1] = IF t[i + 1] \in T THEN g[i] ELSE Append(g[i], t[i + 1])
      BY <2>1, KeepsAt
    <2>4. f[i + 1] = g[i + 1]
      BY <1>2, <2>1, <2>2, <2>3
    <2> QED BY <2>1, <2>4
  <1>3. P \in SUBSET (0..k)
    OBVIOUS
  <1> HIDE DEF P
  <1>4. \A i \in 0..k : i \in P
    BY <1>1, <1>2, <1>3, UpToAll
  <1>5. k \in 0..k
    OBVIOUS
  <1> QED BY <1>4, <1>5 DEF P

LEMMA WithoutKeeps ==
  ASSUME NEW S, NEW s \in Seq(S), NEW T
  PROVE  \E f : Keeps(f, s, T, Len(s)) /\ Pages!Without(s, T) = f[Len(s)]
  <1> DEFINE f == CHOOSE f : Keeps(f, s, T, Len(s))
  <1>1. Keeps(f, s, T, Len(s))
    BY KeepsSome
  <1>2. Pages!Without(s, T) = f[Len(s)]
    BY DEF Pages!Without, Keeps
  <1> QED BY <1>1, <1>2

Distinct(s) == \A i, j \in DOMAIN s : s[i] = s[j] => i = j

\* What is left of s is of s, not in T, not longer than s, and has nothing twice
\* if s has not.
LEMMA WithoutOf ==
  ASSUME NEW S, NEW s \in Seq(S), NEW T
  PROVE  LET w == Pages!Without(s, T)
         IN  /\ w \in Seq(S) /\ Len(w) <= Len(s)
             /\ \A i \in DOMAIN w : w[i] \notin T /\ \E j \in DOMAIN s : w[i] = s[j]
             /\ Distinct(s) => Distinct(w)
  <1>1. PICK f : Keeps(f, s, T, Len(s)) /\ Pages!Without(s, T) = f[Len(s)]
    BY WithoutKeeps
  <1>2. Len(s) \in Nat /\ DOMAIN s = 1..Len(s)
    OBVIOUS
  <1> DEFINE Right(i) == /\ f[i] \in Seq(S) /\ Len(f[i]) <= i
                         /\ \A j \in DOMAIN f[i] : f[i][j] \notin T /\ \E k \in 1..i : f[i][j] = s[k]
                         /\ Distinct(s) => Distinct(f[i])
             P == {i \in 0..Len(s) : Right(i)}
  <1>3. 0 \in P
    <2>1. f[0] = <<>>
      BY <1>1, <1>2, KeepsAt
    <2>2. <<>> \in Seq(S) /\ Len(<<>>) = 0 /\ DOMAIN <<>> = {}
      OBVIOUS
    <2>3. Right(0)
      BY <2>1, <2>2 DEF Distinct
    <2> QED BY <1>2, <2>3
  <1>4. ASSUME NEW i \in 0..(Len(s) - 1), i \in P PROVE i + 1 \in P
    <2>1. /\ i + 1 \in 1..Len(s) /\ (i + 1) - 1 = i /\ i + 1 # 0 /\ i + 1 \in 0..Len(s)
          /\ i \in Nat /\ i < i + 1
      BY <1>2
    <2>2. f[i + 1] = IF s[i + 1] \in T THEN f[i] ELSE Append(f[i], s[i + 1])
      BY <1>1, <1>2, <2>1, KeepsAt
    <2>3. s[i + 1] \in S
      BY <2>1
    <2>4. Right(i)
      BY <1>4
    <2>5. CASE s[i + 1] \in T
      <3>1. f[i + 1] = f[i]
        BY <2>2, <2>5
      <3>2. \A k \in 1..i : k \in 1..(i + 1)
        BY <2>1
      <3>3. Right(i + 1)
        BY <2>1, <2>4, <3>1, <3>2
      <3> QED BY <2>1, <3>3
    <2>6. CASE s[i + 1] \notin T
      <3> DEFINE g == f[i]
                 h == f[i + 1]
                 x == s[i + 1]
      <3>1. h = Append(g, x) /\ g \in Seq(S) /\ x \in S /\ x \notin T
        BY <2>2, <2>3, <2>4, <2>6
      <3>2. /\ Len(g) <= i
            /\ \A j \in DOMAIN g : g[j] \notin T /\ \E k \in 1..i : g[j] = s[k]
            /\ Distinct(s) => Distinct(g)
        BY <2>4
      <3>3. x = s[i + 1]
        OBVIOUS
      <3> HIDE DEF g, h, x
      <3>4. /\ h \in Seq(S) /\ Len(h) = Len(g) + 1 /\ h[Len(g) + 1] = x
            /\ DOMAIN h = 1..(Len(g) + 1) /\ DOMAIN g = 1..Len(g) /\ Len(g) \in Nat
            /\ \A j \in 1..Len(g) : h[j] = g[j]
        BY <3>1
      <3>5. \A j \in DOMAIN h : h[j] \notin T /\ \E k \in 1..(i + 1) : h[j] = s[k]
        <4> SUFFICES ASSUME NEW j \in DOMAIN h
                     PROVE  h[j] \notin T /\ \E k \in 1..(i + 1) : h[j] = s[k]
          OBVIOUS
        <4>1. CASE j = Len(g) + 1
          BY <2>1, <3>1, <3>3, <3>4, <4>1
        <4>2. CASE j \in 1..Len(g)
          <5>1. PICK k \in 1..i : g[j] = s[k]
            BY <3>2, <3>4, <4>2
          <5>2. k \in 1..(i + 1)
            BY <2>1
          <5> QED BY <3>2, <3>4, <4>2, <5>1, <5>2
        <4> QED BY <3>4, <4>1, <4>2
      <3>6. ASSUME Distinct(s) PROVE Distinct(h)
        <4>1. \A j \in 1..Len(g) : g[j] # x
          <5> SUFFICES ASSUME NEW j \in 1..Len(g), g[j] = x PROVE FALSE
            OBVIOUS
          <5>1. PICK k \in 1..i : g[j] = s[k]
            BY <3>2, <3>4
          <5>2. k \in DOMAIN s /\ i + 1 \in DOMAIN s /\ k # i + 1
            BY <1>2, <2>1
          <5> QED BY <3>3, <3>6, <5>1, <5>2 DEF Distinct
        <4>2. \A j, k \in 1..Len(g) : g[j] = g[k] => j = k
          BY <3>2, <3>4, <3>6 DEF Distinct
        <4>3. \A j \in DOMAIN h : j \in 1..Len(g) \/ j = Len(g) + 1
          BY <3>4
        <4> QED BY <3>4, <4>1, <4>2, <4>3 DEF Distinct
      <3>7. Len(h) <= i + 1
        BY <2>1, <3>2, <3>4
      <3>8. Right(i + 1)
        BY <3>4, <3>5, <3>6, <3>7 DEF h
      <3> QED BY <2>1, <3>8
    <2> QED BY <2>5, <2>6
  <1>5. P \in SUBSET (0..Len(s))
    OBVIOUS
  <1> HIDE DEF P
  <1>6. Len(s) \in P
    <2>1. \A i \in 0..Len(s) : i \in P
      BY <1>2, <1>3, <1>4, <1>5, UpToAll
    <2> QED BY <1>2, <2>1
  <1>7. Right(Len(s))
    BY <1>6 DEF P
  <1> QED BY <1>1, <1>2, <1>7

LEMMA WithoutNone == ASSUME NEW T PROVE Pages!Without(<<>>, T) = <<>>
  <1>1. <<>> \in Seq({}) /\ Len(<<>>) = 0
    OBVIOUS
  <1>2. PICK f : Keeps(f, <<>>, T, Len(<<>>)) /\ Pages!Without(<<>>, T) = f[Len(<<>>)]
    BY <1>1, WithoutKeeps
  <1>3. f[0] = <<>>
    BY <1>1, <1>2, KeepsAt
  <1> QED BY <1>1, <1>2, <1>3

\* Sequences as the provers take them: without their elements.
Joined(s, t) == s \o t
Longer(s, e) == Append(s, e)

LEMMA LongerJoined ==
  ASSUME NEW S, NEW s \in Seq(S), NEW t \in Seq(S), NEW e \in S
  PROVE  Longer(Joined(s, t), e) = Joined(s, Longer(t, e))
  <1>1. Append(s \o t, e) = (s \o t) \o <<e>>
    OBVIOUS
  <1>2. Append(t, e) = t \o <<e>> /\ <<e>> \in Seq(S)
    OBVIOUS
  <1> QED BY <1>1, <1>2, ConcatAssociative DEF Joined, Longer

\* What is left of two sequences is left of them one after the other.
LEMMA WithoutConcat ==
  ASSUME NEW A, NEW a \in Seq(A), NEW b \in Seq(A), NEW X
  PROVE  Pages!Without(a \o b, X) = Pages!Without(a, X) \o Pages!Without(b, X)
  <1> DEFINE u == a \o b
             la == Len(a)
             lb == Len(b)
  <1>1. /\ u \in Seq(A) /\ Len(u) = la + lb /\ la \in Nat /\ lb \in Nat
        /\ \A i \in 1..la : u[i] = a[i]
        /\ \A i \in 1..lb : u[la + i] = b[i]
    <2>1. u \in Seq(A) /\ Len(u) = la + lb /\ la \in Nat /\ lb \in Nat
      OBVIOUS
    <2>2. \A i \in 1..(la + lb) : u[i] = IF i <= la THEN a[i] ELSE b[i - la]
      OBVIOUS
    <2>3. \A i \in 1..la : i \in 1..(la + lb) /\ i <= la
      OBVIOUS
    <2>4. \A i \in 1..lb : la + i \in 1..(la + lb) /\ ~(la + i <= la) /\ (la + i) - la = i
      OBVIOUS
    <2> QED BY <2>1, <2>2, <2>3, <2>4
  <1> HIDE DEF u, la, lb
  <1>2. PICK ka : Keeps(ka, a, X, la) /\ Pages!Without(a, X) = ka[la]
    BY WithoutKeeps DEF la
  <1>3. PICK kb : Keeps(kb, b, X, lb) /\ Pages!Without(b, X) = kb[lb]
    BY WithoutKeeps DEF lb
  <1>4. PICK ku : Keeps(ku, u, X, la + lb) /\ Pages!Without(u, X) = ku[la + lb]
    BY <1>1, WithoutKeeps
  <1>5. ku[la] = ka[la]
    <2>1. /\ Keeps(ku, u, X, la + lb) /\ Keeps(ka, a, X, la)
          /\ la \in Nat /\ la + lb \in Nat /\ la <= la + lb /\ la <= la
          /\ \A i \in 1..la : u[i] = a[i]
      BY <1>1, <1>2, <1>4
    <2> QED BY <2>1, KeepsSame
  <1> DEFINE P == {j \in 0..lb : kb[j] \in Seq(A) /\ ku[la + j] = ka[la] \o kb[j]}
  <1>6. ka[la] \in Seq(A)
    BY <1>2, WithoutOf
  <1>7. 0 \in P
    <2>1. kb[0] = <<>>
      BY <1>1, <1>3, KeepsAt
    <2>2. ka[la] \o <<>> = ka[la]
      BY <1>6
    <2>3. la + 0 = la /\ 0 \in 0..lb /\ <<>> \in Seq(A)
      BY <1>1
    <2> QED BY <1>5, <2>1, <2>2, <2>3
  <1>8. ASSUME NEW j \in 0..(lb - 1), j \in P PROVE j + 1 \in P
    <2>1. /\ j + 1 \in 1..lb /\ (j + 1) - 1 = j /\ j + 1 # 0 /\ j + 1 \in 0..lb
          /\ la + (j + 1) \in 0..(la + lb) /\ la + (j + 1) # 0 /\ (la + (j + 1)) - 1 = la + j
          /\ la + lb \in Nat
      BY <1>1
    <2>2. kb[j + 1] = IF b[j + 1] \in X THEN kb[j] ELSE Append(kb[j], b[j + 1])
      BY <1>1, <1>3, <2>1, KeepsAt
    <2>3. ku[la + (j + 1)] = IF u[la + (j + 1)] \in X THEN ku[la + j]
                             ELSE Append(ku[la + j], u[la + (j + 1)])
      BY <1>4, <2>1, KeepsAt
    <2>4. u[la + (j + 1)] = b[j + 1]
      BY <1>1, <2>1
    <2>5. b[j + 1] \in A
      BY <2>1 DEF lb
    <2>6. kb[j] \in Seq(A) /\ ku[la + j] = ka[la] \o kb[j]
      BY <1>8
    <2>7. Append(ka[la] \o kb[j], b[j + 1]) = ka[la] \o Append(kb[j], b[j + 1])
      <3>1. Longer(Joined(ka[la], kb[j]), b[j + 1]) = Joined(ka[la], Longer(kb[j], b[j + 1]))
        <4> HIDE DEF P
        <4> QED BY <1>6, <2>5, <2>6, LongerJoined
      <3> QED BY <3>1 DEF Joined, Longer
    <2>8. Append(kb[j], b[j + 1]) \in Seq(A)
      BY <2>5, <2>6
    <2>9. kb[j + 1] \in Seq(A) /\ ku[la + (j + 1)] = ka[la] \o kb[j + 1]
      BY <2>2, <2>3, <2>4, <2>6, <2>7, <2>8
    <2> QED BY <2>1, <2>9
  <1>9. P \in SUBSET (0..lb)
    OBVIOUS
  <1>10. lb \in P
    <2> HIDE DEF P
    <2>1. \A j \in 0..lb : j \in P
      BY <1>1, <1>7, <1>8, <1>9, UpToAll
    <2> QED BY <1>1, <2>1
  <1> QED BY <1>2, <1>3, <1>4, <1>10 DEF u
-----------------------------------------------------------------------------
LEMMA PostsCounted == ASSUME NEW S PROVE Pages!Cardinality(S) = Cardinality(S)
  BY DEF Pages!Cardinality, Cardinality

LEMMA StartsAt ==
  /\ 0 \in Pages!Start /\ Pages!Start \subseteq Nat /\ Cardinality(Post) \in Nat
  /\ \A p \in Pages!Start : p + PostsPerPage <= Cardinality(Post) => p + PostsPerPage \in Pages!Start
  <1>1. Cardinality(Post) \in Nat
    BY PagesAssumption, FS_CardinalityType
  <1>2. Pages!Start = {p \in 0..Cardinality(Post) : p % PostsPerPage = 0}
    BY PostsCounted DEF Pages!Start
  <1>3. ASSUME NEW p \in Nat, p % PostsPerPage = 0 PROVE (p + PostsPerPage) % PostsPerPage = 0
    <2> DEFINE L == PostsPerPage
               q == p \div L
               r == (p + L) \div L
               m == (p + L) % L
    <2>1. L \in Nat \ {0}
      BY PagesAssumption
    <2>2. q \in Int /\ r \in Int /\ m \in 0..(L - 1)
      BY <2>1
    <2>3. p = (L * q) + (p % L) /\ p + L = (L * r) + m
      BY <2>1
    <2>4. p % L = 0
      BY <1>3
    <2> HIDE DEF q, r, m, L
    <2>5. m = L * ((q + 1) - r)
      BY <2>1, <2>2, <2>3, <2>4
    <2>6. (q + 1) - r = 0
      BY <2>1, <2>2, <2>5
    <2>7. m = 0
      BY <2>1, <2>2, <2>5, <2>6
    <2> QED BY <2>7 DEF m, L
  <1>4. 0 % PostsPerPage = 0
    BY PagesAssumption
  <1> HIDE DEF Pages!Start
  <1>5. 0 \in Pages!Start /\ Pages!Start \subseteq Nat
    BY <1>1, <1>2, <1>4
  <1>6. ASSUME NEW p \in Pages!Start, p + PostsPerPage <= Cardinality(Post)
        PROVE  p + PostsPerPage \in Pages!Start
    BY <1>1, <1>2, <1>3, <1>6, PagesAssumption
  <1> QED BY <1>1, <1>5, <1>6

\* A sequence that has nothing twice is not longer than what it is of.
LEMMA DistinctShort ==
  ASSUME NEW S, IsFiniteSet(S), NEW s \in Seq(S), Distinct(s)
  PROVE  Len(s) <= Cardinality(S)
  <1>1. Len(s) \in Nat /\ DOMAIN s = 1..Len(s) /\ s \in [1..Len(s) -> S]
    OBVIOUS
  <1>2. s \in Injection(1..Len(s), S)
    BY <1>1 DEF Distinct, Injection, IsInjective
  <1>3. Cardinality(1..Len(s)) <= Cardinality(S)
    BY <1>2, FS_Injection
  <1>4. Cardinality(1..Len(s)) = Len(s)
    BY <1>1, FS_Interval
  <1> QED BY <1>3, <1>4

LEMMA ToSetOf == ASSUME NEW S, NEW s \in Seq(S)
  PROVE  /\ Pages!ToSet(s) \subseteq S /\ Pages!ToSet(s) = {s[i] : i \in 1..Len(s)}
  BY DEF Pages!ToSet

\* Where a note is in a sequence.
LEMMA PlaceOf ==
  ASSUME NEW S, NEW s \in Seq(S), Distinct(s), NEW i \in 1..Len(s)
  PROVE  Pages!Place(s[i], s) = i
  BY DEF Pages!Place, Distinct

(***************************************************************************)
(* The ranking a sorted set is read as.                                    *)
(***************************************************************************)
Scored == DOMAIN rank \subseteq Post /\ \A n \in DOMAIN rank : rank[n] \in Nat

Before(k, n) == rank[k] < rank[n] \/ (rank[k] = rank[n] /\ k < n)

LEMMA AheadOf ==
  ASSUME Scored
  PROVE  /\ IsFiniteSet(DOMAIN rank) /\ Cardinality(DOMAIN rank) \in Nat
         /\ \A n \in DOMAIN rank :
              /\ IsFiniteSet(Pages!Ahead(n))
              /\ Cardinality(Pages!Ahead(n)) \in 0..(Cardinality(DOMAIN rank) - 1)
         /\ \A n, k \in DOMAIN rank :
              n # k => Cardinality(Pages!Ahead(n)) # Cardinality(Pages!Ahead(k))
  <1>1. IsFiniteSet(DOMAIN rank) /\ Cardinality(DOMAIN rank) \in Nat
    BY PagesAssumption, FS_Subset, FS_CardinalityType DEF Scored
  <1>2. DOMAIN rank \subseteq Nat /\ \A n \in DOMAIN rank : rank[n] \in Nat
    BY PagesAssumption DEF Scored
  <1> DEFINE D == DOMAIN rank
             A(n) == Pages!Ahead(n)
  <1>3. \A n : A(n) = {k \in D : Before(k, n)}
    BY DEF Pages!Ahead, Before
  <1>4. \A n \in D : ~Before(n, n)
    BY <1>2 DEF Before
  <1>5. \A n, k \in D : n # k => Before(n, k) \/ Before(k, n)
    BY <1>2 DEF Before
  <1>6. \A n, k, l \in D : Before(n, k) /\ Before(k, l) => Before(n, l)
    BY <1>2 DEF Before
  <1> HIDE DEF A, D
  <1>7. ASSUME NEW n \in D
        PROVE  IsFiniteSet(A(n)) /\ Cardinality(A(n)) \in 0..(Cardinality(D) - 1)
    <2>1. A(n) \in SUBSET (D \ {n})
      BY <1>3, <1>4
    <2>2. IsFiniteSet(D \ {n}) /\ Cardinality(D \ {n}) = Cardinality(D) - 1
      BY <1>1, <1>7, FS_RemoveElement DEF D
    <2>3. IsFiniteSet(A(n)) /\ Cardinality(A(n)) <= Cardinality(D \ {n})
      BY <2>1, <2>2, FS_Subset
    <2>4. Cardinality(A(n)) \in Nat
      BY <2>3, FS_CardinalityType
    <2> QED BY <1>1, <2>2, <2>3, <2>4 DEF D
  <1>8. ASSUME NEW n \in D, NEW k \in D, Before(n, k)
        PROVE  Cardinality(A(n)) # Cardinality(A(k))
    <2>1. A(n) \in SUBSET A(k)
      BY <1>3, <1>6, <1>8
    <2>2. n \in A(k) /\ n \notin A(n)
      BY <1>3, <1>4, <1>8
    <2> QED BY <1>7, <2>1, <2>2, FS_Subset
  <1>9. \A n, k \in D : n # k => Cardinality(A(n)) # Cardinality(A(k))
    BY <1>5, <1>8
  <1> QED BY <1>1, <1>7, <1>9 DEF A, D

\* Each place has its note.
LEMMA RankingOf ==
  ASSUME Scored
  PROVE  /\ Pages!Ranking \in Seq(DOMAIN rank) /\ Len(Pages!Ranking) = Cardinality(DOMAIN rank)
         /\ \A i \in DOMAIN Pages!Ranking : Cardinality(Pages!Ahead(Pages!Ranking[i])) = i - 1
         /\ Distinct(Pages!Ranking)
  <1> DEFINE D == DOMAIN rank
             N == Cardinality(D)
             A(n) == Pages!Ahead(n)
             g == [n \in D |-> Cardinality(A(n))]
             r == Pages!Ranking
  <1>1. /\ IsFiniteSet(D) /\ N \in Nat
        /\ \A n \in D : Cardinality(A(n)) \in 0..(N - 1)
        /\ \A n, k \in D : n # k => Cardinality(A(n)) # Cardinality(A(k))
    BY AheadOf
  <1>2. r = [i \in 1..N |-> CHOOSE n \in D : Cardinality(A(n)) = i - 1]
    <2>1. Pages!Cardinality(DOMAIN rank) = N /\ \A n : Pages!Cardinality(Pages!Ahead(n)) = Cardinality(A(n))
      BY PostsCounted
    <2> QED BY <2>1 DEF Pages!Ranking
  <1> HIDE DEF D, N, A, r
  <1>3. g \in Injection(D, 0..(N - 1))
    <2>1. g \in [D -> 0..(N - 1)]
      BY <1>1
    <2>2. \A n, k \in D : g[n] = g[k] => n = k
      BY <1>1
    <2>3. DOMAIN g = D
      OBVIOUS
    <2> HIDE DEF g
    <2> QED BY <2>1, <2>2, <2>3 DEF Injection, IsInjective
  <1>4. IsFiniteSet(0..(N - 1)) /\ Cardinality(0..(N - 1)) = N
    <2>1. N - 1 \in Int /\ 0 \in Int
      BY <1>1
    <2>2. IsFiniteSet(0..(N - 1)) /\ Cardinality(0..(N - 1)) = IF 0 > N - 1 THEN 0 ELSE (N - 1) - 0 + 1
      BY <2>1, FS_Interval
    <2> QED BY <1>1, <2>2
  <1>5. g \in Surjection(D, 0..(N - 1))
    <2> HIDE DEF g
    <2>1. Cardinality(D) = Cardinality(0..(N - 1))
      BY <1>4 DEF N
    <2> QED BY <1>3, <1>4, <2>1, FS_Injection
  <1>6. \A j \in 0..(N - 1) : \E n \in D : g[n] = j
    BY <1>5 DEF Surjection
  <1>7. ASSUME NEW i \in 1..N PROVE r[i] \in D /\ Cardinality(A(r[i])) = i - 1
    <2>1. PICK n \in D : g[n] = i - 1
      <3>1. i - 1 \in 0..(N - 1)
        BY <1>1
      <3> HIDE DEF g
      <3> QED BY <1>6, <3>1
    <2>2. Cardinality(A(n)) = i - 1
      BY <2>1
    <2>3. r[i] = CHOOSE k \in D : Cardinality(A(k)) = i - 1
      BY <1>2
    <2> QED BY <2>2, <2>3
  <1>8. r \in Seq(D) /\ Len(r) = N /\ DOMAIN r = 1..N
    BY <1>1, <1>2, <1>7
  <1>9. Distinct(r)
    BY <1>1, <1>7, <1>8 DEF Distinct
  <1> QED BY <1>7, <1>8, <1>9 DEF D, N, A, r

\* The scores of a sequence are read back as the sequence.
LEMMA RankingBack ==
  ASSUME NEW s \in Seq(Post), Distinct(s),
         rank = [n \in Pages!ToSet(s) |-> Pages!Place(n, s) - 1]
  PROVE  Scored /\ Pages!Ranking = s
  <1> DEFINE D == DOMAIN rank
  <1>1. D = {s[i] : i \in 1..Len(s)} /\ Len(s) \in Nat /\ DOMAIN s = 1..Len(s)
    BY ToSetOf
  <1>2. \A i \in 1..Len(s) : rank[s[i]] = i - 1
    <2> SUFFICES ASSUME NEW i \in 1..Len(s) PROVE rank[s[i]] = i - 1
      OBVIOUS
    <2>1. s[i] \in Pages!ToSet(s)
      BY ToSetOf
    <2>2. Pages!Place(s[i], s) = i
      BY PlaceOf
    <2> QED BY <2>1, <2>2
  <1>3. Scored
    <2>1. D \subseteq Post
      BY <1>1
    <2>2. ASSUME NEW n \in D PROVE rank[n] \in Nat
      <3>1. PICK i \in 1..Len(s) : n = s[i]
        BY <1>1
      <3>2. rank[n] = i - 1
        BY <1>2, <3>1
      <3> QED BY <3>2
    <2> QED BY <2>1, <2>2 DEF Scored
  <1>4. ASSUME NEW i \in 1..Len(s)
        PROVE  s[i] \in D /\ Cardinality(Pages!Ahead(s[i])) = i - 1
    <2> DEFINE A == Pages!Ahead(s[i])
               f == [j \in 1..(i - 1) |-> s[j]]
    <2>1. A = {s[j] : j \in 1..(i - 1)}
      <3>1. A = {k \in D : rank[k] < i - 1 \/ (rank[k] = i - 1 /\ k < s[i])}
        BY <1>2 DEF Pages!Ahead
      <3>2. \A j \in 1..Len(s) : s[j] \in A <=> j \in 1..(i - 1)
        <4> SUFFICES ASSUME NEW j \in 1..Len(s) PROVE s[j] \in A <=> j \in 1..(i - 1)
          OBVIOUS
        <4>1. s[j] \in D /\ rank[s[j]] = j - 1
          BY <1>1, <1>2
        <4>2. s[i] \in Nat
          <5>1. s[i] \in Post
            OBVIOUS
          <5> QED BY <5>1, PagesAssumption
        <4>3. ~(s[i] < s[i])
          BY <4>2
        <4>4. s[j] \in A <=> (j - 1 < i - 1 \/ (j - 1 = i - 1 /\ s[j] < s[i]))
          BY <3>1, <4>1
        <4> QED BY <4>3, <4>4
      <3>3. A \subseteq D
        BY <3>1
      <3> HIDE DEF A
      <3>4. 1..(i - 1) \subseteq 1..Len(s)
        OBVIOUS
      <3> QED BY <1>1, <3>2, <3>3, <3>4
    <2>2. f \in Surjection(1..(i - 1), A)
      BY <2>1 DEF Surjection
    <2>3. f \in Injection(1..(i - 1), A)
      <3>1. \A j, k \in 1..(i - 1) : s[j] = s[k] => j = k
        BY <1>1 DEF Distinct
      <3>2. f \in [1..(i - 1) -> A]
        BY <2>1
      <3> QED BY <3>1, <3>2 DEF Injection, IsInjective
    <2>4. IsFiniteSet(1..(i - 1)) /\ Cardinality(1..(i - 1)) = i - 1
      <3>1. i - 1 \in Int /\ 1 \in Int
        OBVIOUS
      <3>2. /\ IsFiniteSet(1..(i - 1))
            /\ Cardinality(1..(i - 1)) = IF 1 > i - 1 THEN 0 ELSE (i - 1) - 1 + 1
        BY <3>1, FS_Interval
      <3> QED BY <3>2
    <2>5. Cardinality(A) = i - 1
      <3> HIDE DEF f, A
      <3>1. Cardinality(A) = Cardinality(1..(i - 1)) <=> f \in Injection(1..(i - 1), A)
        BY <2>2, <2>4, FS_Surjection
      <3> QED BY <2>3, <2>4, <3>1
    <2>6. s[i] \in D
      BY <1>1
    <2> QED BY <2>5, <2>6
  <1> DEFINE r == Pages!Ranking
  <1>5. /\ r \in Seq(D) /\ Len(r) = Cardinality(D)
        /\ \A i \in DOMAIN r : Cardinality(Pages!Ahead(r[i])) = i - 1
    BY <1>3, RankingOf
  <1>6. Cardinality(D) = Len(s)
    <2> DEFINE f == [i \in 1..Len(s) |-> s[i]]
    <2>1. f \in Surjection(1..Len(s), D)
      BY <1>1 DEF Surjection
    <2>2. f \in Injection(1..Len(s), D)
      BY <1>1 DEF Injection, IsInjective, Distinct
    <2>3. IsFiniteSet(1..Len(s)) /\ Cardinality(1..Len(s)) = Len(s)
      <3>1. 1 \in Int /\ Len(s) \in Int
        BY <1>1
      <3>2. /\ IsFiniteSet(1..Len(s))
            /\ Cardinality(1..Len(s)) = IF 1 > Len(s) THEN 0 ELSE Len(s) - 1 + 1
        BY <3>1, FS_Interval
      <3> QED BY <1>1, <3>2
    <2> HIDE DEF f, D
    <2>4. Cardinality(D) = Cardinality(1..Len(s)) <=> f \in Injection(1..Len(s), D)
      BY <2>1, <2>3, FS_Surjection
    <2> QED BY <2>2, <2>3, <2>4
  <1> HIDE DEF D, r
  <1>7. \A i \in 1..Len(s) : r[i] = s[i]
    <2> SUFFICES ASSUME NEW i \in 1..Len(s) PROVE r[i] = s[i]
      OBVIOUS
    <2>1. r[i] \in D /\ Cardinality(Pages!Ahead(r[i])) = i - 1
      <3>1. DOMAIN r = 1..Len(s) /\ r \in [1..Len(s) -> D]
        BY <1>5, <1>6
      <3> QED BY <1>5, <3>1
    <2>2. PICK k \in 1..Len(s) : r[i] = s[k]
      BY <1>1, <2>1
    <2>3. k - 1 = i - 1
      BY <1>4, <2>1, <2>2
    <2> QED BY <2>2, <2>3
  <1>8. r = s
    <2>1. Len(r) = Len(s) /\ r \in Seq(D) /\ s \in Seq(Post)
      BY <1>5, <1>6
    <2>2. r = [i \in 1..Len(s) |-> r[i]] /\ s = [i \in 1..Len(s) |-> s[i]]
      BY <2>1
    <2> QED BY <1>7, <2>2
  <1> QED BY <1>3, <1>8 DEF r
-----------------------------------------------------------------------------
\* The page of a ranking from p on, and the ranking up to there.
Slice(s, p) == SubSeq(s, p + 1, Pages!Min({p + PostsPerPage, Len(s)}))
Prefix(s, k) == SubSeq(s, 1, Pages!Min({k, Len(s)}))

LEMMA MinOfTwo ==
  ASSUME NEW a \in Nat, NEW b \in Nat
  PROVE  Pages!Min({a, b}) = IF a <= b THEN a ELSE b
  BY DEF Pages!Min

LEMMA SliceOf ==
  ASSUME NEW S, NEW s \in Seq(S), NEW p \in Nat
  PROVE  LET t == Slice(s, p)
         IN  /\ t \in Seq(S)
             /\ Len(t) = IF p + PostsPerPage <= Len(s) THEN PostsPerPage
                         ELSE IF p < Len(s) THEN Len(s) - p ELSE 0
             /\ \A i \in 1..Len(t) : p + i \in 1..Len(s) /\ t[i] = s[p + i]
             /\ Distinct(s) => Distinct(t)
  <1> DEFINE e == IF p + PostsPerPage <= Len(s) THEN p + PostsPerPage ELSE Len(s)
             t == SubSeq(s, p + 1, e)
             n == IF p + 1 <= e THEN e - p ELSE 0
  <1>1. PostsPerPage \in Nat \ {0} /\ Len(s) \in Nat /\ DOMAIN s = 1..Len(s)
    BY PagesAssumption
  <1>2. Slice(s, p) = t
    <2>1. p + PostsPerPage \in Nat
      BY <1>1
    <2> QED BY <1>1, <2>1, MinOfTwo DEF Slice
  <1>3. e \in Int /\ p + 1 \in Int /\ e <= Len(s)
    BY <1>1
  <1>4. \A i \in (p + 1)..e : i \in 1..Len(s) /\ s[i] \in S
    BY <1>1, <1>3
  <1> HIDE DEF e
  <1>5. /\ t \in Seq(S) /\ Len(t) = IF p + 1 <= e THEN e - (p + 1) + 1 ELSE 0
        /\ \A i \in 1..(e - (p + 1) + 1) : t[i] = s[(p + 1) + i - 1]
    BY <1>3, <1>4, SubSeqProperties
  <1> HIDE DEF t
  <1>6. Len(t) = n
    BY <1>3, <1>5
  <1>7. n = IF p + PostsPerPage <= Len(s) THEN PostsPerPage
            ELSE IF p < Len(s) THEN Len(s) - p ELSE 0
    BY <1>1 DEF e
  <1>8. ASSUME NEW i \in 1..n PROVE p + i \in 1..Len(s) /\ t[i] = s[p + i]
    <2>1. i \in 1..(e - (p + 1) + 1) /\ (p + 1) + i - 1 = p + i /\ p + i \in (p + 1)..e
      BY <1>3
    <2> QED BY <1>4, <1>5, <2>1
  <1>9. ASSUME Distinct(s) PROVE Distinct(t)
    <2>1. DOMAIN t = 1..n
      BY <1>5, <1>6
    <2> SUFFICES ASSUME NEW i \in 1..n, NEW j \in 1..n, t[i] = t[j] PROVE i = j
      BY <2>1 DEF Distinct
    <2>2. s[p + i] = s[p + j] /\ p + i \in DOMAIN s /\ p + j \in DOMAIN s
      BY <1>1, <1>8
    <2>3. p + i = p + j
      BY <1>9, <2>2 DEF Distinct
    <2>4. i \in Nat /\ j \in Nat
      OBVIOUS
    <2> QED BY <2>3, <2>4
  <1> HIDE DEF n
  <1> QED BY <1>2, <1>5, <1>6, <1>7, <1>8, <1>9

\* A page makes a prefix longer; after the last there is no more.
LEMMA PrefixOf ==
  ASSUME NEW S, NEW s \in Seq(S), NEW p \in Nat
  PROVE  /\ Prefix(s, p) \in Seq(S)
         /\ Prefix(s, p + PostsPerPage) = Prefix(s, p) \o Slice(s, p)
         /\ Len(s) <= p => Prefix(s, p) = Prefix(s, Len(s))
         /\ Prefix(s, 0) = <<>>
  <1>1. PostsPerPage \in Nat \ {0} /\ Len(s) \in Nat /\ DOMAIN s = 1..Len(s) /\ p + PostsPerPage \in Nat
    BY PagesAssumption
  <1>2. \A k \in Nat : Prefix(s, k) = SubSeq(s, 1, IF k <= Len(s) THEN k ELSE Len(s))
    BY <1>1, MinOfTwo DEF Prefix
  <1>3. Prefix(s, p) \in Seq(S)
    <2> DEFINE e == IF p <= Len(s) THEN p ELSE Len(s)
    <2>1. e \in Int /\ 1 \in Int /\ \A i \in 1..e : s[i] \in S
      BY <1>1
    <2> HIDE DEF e
    <2>2. SubSeq(s, 1, e) \in Seq(S)
      BY <2>1, SubSeqProperties
    <2> QED BY <1>2, <2>2 DEF e
  <1>4. ASSUME Len(s) <= p PROVE Prefix(s, p) = Prefix(s, Len(s))
    <2> DEFINE l == Len(s)
    <2>1. l \in Nat /\ l <= p
      BY <1>4
    <2>2. \A k \in Nat : Prefix(s, k) = SubSeq(s, 1, IF k <= l THEN k ELSE l)
      BY <1>2
    <2> HIDE DEF l
    <2>3. p <= l => p = l
      BY <2>1
    <2>4. Prefix(s, p) = SubSeq(s, 1, l)
      BY <2>2, <2>3
    <2>5. Prefix(s, l) = SubSeq(s, 1, l)
      BY <2>1, <2>2
    <2> QED BY <2>4, <2>5 DEF l
  <1>5. Prefix(s, 0) = <<>>
    <2>1. SubSeq(s, 1, 0) = <<>>
      BY SubSeqEmpty
    <2> QED BY <1>1, <1>2, <2>1
  <1>6. Prefix(s, p + PostsPerPage) = Prefix(s, p) \o Slice(s, p)
    <2>1. CASE p <= Len(s)
      <3> DEFINE e == IF p + PostsPerPage <= Len(s) THEN p + PostsPerPage ELSE Len(s)
      <3>1. 1 \in 1..(Len(s) + 1) /\ p \in (1 - 1)..Len(s) /\ e \in p..Len(s)
        BY <1>1, <2>1
      <3>2. Slice(s, p) = SubSeq(s, p + 1, e)
        BY <1>1, MinOfTwo DEF Slice
      <3>3. Prefix(s, p + PostsPerPage) = SubSeq(s, 1, e) /\ Prefix(s, p) = SubSeq(s, 1, p)
        BY <1>1, <1>2, <2>1
      <3> HIDE DEF e
      <3>4. SubSeq(s, 1, p) \o SubSeq(s, p + 1, e) = SubSeq(s, 1, e)
        BY <3>1, ConcatAdjacentSubSeq
      <3> QED BY <3>2, <3>3, <3>4
    <2>2. CASE ~(p <= Len(s))
      <3>1. Slice(s, p) \in Seq(S) /\ Len(Slice(s, p)) = 0
        BY <1>1, <2>2, SliceOf
      <3>2. Slice(s, p) = <<>>
        BY <3>1
      <3>3. Prefix(s, p + PostsPerPage) = Prefix(s, p)
        BY <1>1, <1>2, <2>2
      <3>4. Prefix(s, p) \o <<>> = Prefix(s, p)
        BY <1>3
      <3> QED BY <3>2, <3>3, <3>4
    <2> QED BY <2>1, <2>2
  <1> QED BY <1>3, <1>4, <1>5, <1>6
-----------------------------------------------------------------------------
(***************************************************************************)
(* The requests on the pages, and what a call makes of one.                *)
(***************************************************************************)
PageTodo ==
  {<<"getRaw">>, <<"getRank">>, <<"members">>, <<"loadHidden">>, <<"addHidden", "rebuild">>,
   <<"rebuild">>, <<"zadd">>, <<"fill", "setRaw">>, <<"setRaw">>}

PurgeTodo == {<<"delHome", "delPages", "delRank">>, <<"delPages", "delRank">>, <<"delRank">>}
HideTodo ==
  {<<"addRow", "sadd", "delHome", "delPages", "delRank">>,
   <<"sadd", "delHome", "delPages", "delRank">>} \cup PurgeTodo
UndoTodo ==
  {<<"removeRow", "srem", "delHome", "delPages", "delRank">>,
   <<"srem", "delHome", "delPages", "delRank">>} \cup PurgeTodo

PageRequest ==
  [op: {"page"}, at: Pages!Start, ids: Seq(Post), next: Pages!Start, without: SUBSET Post,
   todo: PageTodo]
HideRequest == [op: {"hide"}, note: Post, todo: HideTodo]
UndoRequest == [op: {"undo"}, note: Post, todo: UndoTodo]

\* The cursor of a request is set with its notes, which are at most a page.
PageRight(r) ==
  /\ Distinct(r.ids)
  /\ Head(r.todo) # "setRaw" => r.next = 0
  /\ Head(r.todo) \in {"fill", "setRaw"} => Len(r.ids) <= PostsPerPage
  /\ Head(r.todo) = "fill" /\ Len(r.ids) = PostsPerPage => r.at + PostsPerPage \in Pages!Start

RequestsTyped ==
  /\ client \in [Tab -> {Pages!Idle} \cup PageRequest \cup HideRequest \cup UndoRequest]
  /\ \A c \in Tab : client[c] \in PageRequest => PageRight(client[c])

CachesTyped ==
  /\ DOMAIN rank \subseteq Post /\ \A n \in DOMAIN rank : rank[n] \in Nat
  /\ raw \in [Pages!Start -> {Pages!NoPage} \cup Pages!Pages]

WalkRecord == [seen: Seq(Post), next: Pages!Start, over: BOOLEAN]

PagesTyped ==
  /\ order \in Orders /\ gone \in Dropped /\ hides \subseteq Post /\ hidden \subseteq Post
  /\ forgotten \subseteq Post
  /\ amiss \in BOOLEAN /\ settled \in BOOLEAN /\ quiet \subseteq Tab
  /\ RequestsTyped /\ CachesTyped /\ walk \in [Tab -> WalkRecord]
-----------------------------------------------------------------------------
LEMMA PageTodos ==
  ASSUME NEW t \in PageTodo
  PROVE  /\ t # <<>>
         /\ Head(t) \in {"getRaw", "getRank", "members", "loadHidden", "addHidden", "rebuild",
                         "zadd", "fill", "setRaw"}
         /\ Head(t) = "addHidden" => Tail(t) = <<"rebuild">>
         /\ Head(t) = "fill" => Tail(t) = <<"setRaw">>
  <1>1. CASE t = <<"addHidden", "rebuild">>
    BY <1>1
  <1>2. CASE t = <<"fill", "setRaw">>
    BY <1>2
  <1>3. CASE t \in {<<"getRaw">>, <<"getRank">>, <<"members">>, <<"loadHidden">>}
    BY <1>3
  <1>4. CASE t \in {<<"rebuild">>, <<"zadd">>, <<"setRaw">>}
    BY <1>4
  <1> QED BY <1>1, <1>2, <1>3, <1>4 DEF PageTodo

Purges == {"delHome", "delPages", "delRank"}

\* A change is made a call after another.
LEMMA ChangeTodos ==
  ASSUME NEW t \in HideTodo \cup UndoTodo
  PROVE  /\ t # <<>>
         /\ t \in HideTodo => Head(t) \in {"addRow", "sadd"} \cup Purges
         /\ t \in UndoTodo => Head(t) \in {"removeRow", "srem"} \cup Purges
         /\ Head(t) = "delRank" => Tail(t) = <<>>
         /\ Head(t) # "delRank" => Tail(t) # <<>>
         /\ Head(t) # "delRank" /\ t \in HideTodo => Tail(t) \in HideTodo
         /\ Head(t) # "delRank" /\ t \in UndoTodo => Tail(t) \in UndoTodo
         /\ Head(t) = "addRow" => Head(Tail(t)) = "sadd"
         /\ Head(t) = "removeRow" => Head(Tail(t)) = "srem"
         /\ Head(t) \in {"sadd", "srem"} => Head(Tail(t)) = "delHome"
         /\ Head(t) = "delHome" => Head(Tail(t)) = "delPages"
         /\ Head(t) = "delPages" => Head(Tail(t)) = "delRank"
  <1> DEFINE h1 == <<"addRow", "sadd", "delHome", "delPages", "delRank">>
             h2 == <<"sadd", "delHome", "delPages", "delRank">>
             u1 == <<"removeRow", "srem", "delHome", "delPages", "delRank">>
             u2 == <<"srem", "delHome", "delPages", "delRank">>
             p1 == <<"delHome", "delPages", "delRank">>
             p2 == <<"delPages", "delRank">>
             p3 == <<"delRank">>
  <1>1. /\ Head(h1) = "addRow" /\ Tail(h1) = h2 /\ h1 # <<>>
        /\ Head(h2) = "sadd" /\ Tail(h2) = p1 /\ h2 # <<>>
        /\ Head(u1) = "removeRow" /\ Tail(u1) = u2 /\ u1 # <<>>
        /\ Head(u2) = "srem" /\ Tail(u2) = p1 /\ u2 # <<>>
    OBVIOUS
  <1>2. /\ Head(p1) = "delHome" /\ Tail(p1) = p2 /\ p1 # <<>>
        /\ Head(p2) = "delPages" /\ Tail(p2) = p3 /\ p2 # <<>>
        /\ Head(p3) = "delRank" /\ Tail(p3) = <<>> /\ p3 # <<>>
    OBVIOUS
  <1>3. HideTodo = {h1, h2, p1, p2, p3} /\ UndoTodo = {u1, u2, p1, p2, p3}
    BY DEF HideTodo, UndoTodo, PurgeTodo
  <1> HIDE DEF h1, h2, u1, u2, p1, p2, p3
  <1> QED BY <1>1, <1>2, <1>3 DEF Purges

LEMMA PageOf ==
  ASSUME NEW r \in PageRequest
  PROVE  /\ r.op = "page" /\ r.at \in Pages!Start /\ r.ids \in Seq(Post) /\ r.next \in Pages!Start
         /\ r.without \in SUBSET Post /\ r.todo \in PageTodo
         /\ r \notin HideRequest /\ r \notin UndoRequest /\ r # Pages!Idle
  <1>1. /\ r.op = "page" /\ r.at \in Pages!Start /\ r.ids \in Seq(Post) /\ r.next \in Pages!Start
        /\ r.without \in SUBSET Post /\ r.todo \in PageTodo
    BY DEF PageRequest
  <1>2. r.todo # <<>>
    BY <1>1, PageTodos
  <1>3. Pages!Idle.todo = <<>>
    BY DEF Pages!Idle
  <1> QED BY <1>1, <1>2, <1>3 DEF HideRequest, UndoRequest

LEMMA ChangeOf ==
  ASSUME NEW r \in HideRequest \cup UndoRequest
  PROVE  /\ r.note \in Post /\ r.todo \in HideTodo \cup UndoTodo
         /\ r \in HideRequest => r.op = "hide" /\ r.todo \in HideTodo
         /\ r \in UndoRequest => r.op = "undo" /\ r.todo \in UndoTodo
         /\ r \notin PageRequest /\ r # Pages!Idle
  <1>1. /\ r.note \in Post /\ r.todo \in HideTodo \cup UndoTodo
        /\ r \in HideRequest => r.op = "hide" /\ r.todo \in HideTodo
        /\ r \in UndoRequest => r.op = "undo" /\ r.todo \in UndoTodo
    BY DEF HideRequest, UndoRequest
  <1>2. r.todo # <<>>
    BY <1>1, ChangeTodos
  <1>3. Pages!Idle.todo = <<>>
    BY DEF Pages!Idle
  <1>4. r.op # "page"
    BY <1>1
  <1> QED BY <1>1, <1>2, <1>3, <1>4, PageOf

\* x is the request r with these notes, cursor, hidden notes and calls.
Fields(x, r, ids, next, without, todo) ==
  /\ x \in PageRequest
  /\ x.op = "page" /\ x.at = r.at /\ x.ids = ids /\ x.next = next
  /\ x.without = without /\ x.todo = todo

LEMMA FieldsOf ==
  ASSUME NEW r \in PageRequest, NEW ids \in Seq(Post), NEW next \in Pages!Start,
         NEW without \in SUBSET Post, NEW todo \in PageTodo
  PROVE  /\ Fields([r EXCEPT !.todo = todo], r, r.ids, r.next, r.without, todo)
         /\ Fields([r EXCEPT !.without = without, !.todo = todo], r, r.ids, r.next, without, todo)
         /\ Fields([r EXCEPT !.ids = ids, !.without = without, !.todo = todo],
                   r, ids, r.next, without, todo)
         /\ Fields([r EXCEPT !.ids = ids, !.next = next, !.todo = todo],
                   r, ids, next, r.without, todo)
  BY DEF Fields, PageRequest

\* A call of request c makes x of it.
Turned(c, x) == client[c] \in PageRequest /\ client' = [client EXCEPT ![c] = x]

\* The calls that go on reading.
Looks(c, x) ==
  /\ Turned(c, x) /\ Head(client[c].todo) \in {"getRaw", "getRank", "members"}
  /\ \E todo \in {<<"getRank">>, <<"members">>, <<"loadHidden">>} :
       Fields(x, client[c], client[c].ids, client[c].next, client[c].without, todo)

\* It has the set of hidden notes T, or has put it back.
Knows(c, x, T) ==
  /\ Turned(c, x) /\ Head(client[c].todo) \in {"members", "loadHidden", "addHidden"}
  /\ \E todo \in {<<"rebuild">>, <<"addHidden", "rebuild">>} :
       Fields(x, client[c], client[c].ids, client[c].next, T, todo)

\* It has ranked the notes.
Ranks(c, x) ==
  /\ Turned(c, x) /\ Head(client[c].todo) = "rebuild"
  /\ Fields(x, client[c], Pages!Without(order, client[c].without), client[c].next, {}, <<"zadd">>)

\* It has its part of a ranking.
Cuts(c, x, s) ==
  /\ Turned(c, x) /\ Head(client[c].todo) \in {"getRank", "rebuild", "zadd"}
  /\ s \in Seq(Post) /\ Distinct(s)
  /\ \/ Fields(x, client[c], Slice(s, client[c].at), client[c].next, {}, <<"fill", "setRaw">>)
     \/ s = <<>> /\ Fields(x, client[c], <<>>, client[c].next, {}, <<"setRaw">>)

\* It has the notes to show.
Fills(c, x, shown) ==
  /\ Turned(c, x) /\ Head(client[c].todo) = "fill"
  /\ shown \in Seq(Post) /\ Distinct(shown) /\ Len(shown) <= Len(client[c].ids)
  /\ Fields(x, client[c], shown, Pages!NextCursor(client[c].at, client[c].ids, shown),
            client[c].without, <<"setRaw">>)

Ends(c) == Turned(c, Pages!Idle)
Answers(c, page) ==
  /\ Ends(c) /\ page \in Pages!Pages
  /\ walk' = [walk EXCEPT ![c] = [seen |-> @.seen \o page.notes, next |-> page.next,
                                  over |-> page.next = 0]]

LEMMA TurnedTyped ==
  ASSUME RequestsTyped, NEW c \in Tab, NEW x,
         Turned(c, x), x = Pages!Idle \/ (x \in PageRequest /\ PageRight(x))
  PROVE  /\ RequestsTyped' /\ client'[c] = x
         /\ \A d \in Tab \ {c} : client'[d] = client[d]
  <1>1. client'[c] = x /\ \A d \in Tab \ {c} : client'[d] = client[d]
    BY DEF Turned, RequestsTyped
  <1>2. client' \in [Tab -> {Pages!Idle} \cup PageRequest \cup HideRequest \cup UndoRequest]
    BY DEF Turned, RequestsTyped
  <1>3. ASSUME NEW d \in Tab, client'[d] \in PageRequest PROVE PageRight(client'[d])
    <2>1. CASE d = c
      BY <1>1, <1>3, <2>1, PageOf
    <2>2. CASE d # c
      BY <1>1, <1>3, <2>2 DEF RequestsTyped
    <2> QED BY <2>1, <2>2
  <1>4. RequestsTyped'
    BY <1>2, <1>3 DEF RequestsTyped, PageRight
  <1> QED BY <1>1, <1>4

LEMMA KindsTyped ==
  ASSUME PagesTyped, NEW c \in Tab, NEW x,
         \/ Looks(c, x) \/ \E T \in SUBSET Post : Knows(c, x, T)
         \/ Ranks(c, x) \/ \E s : Cuts(c, x, s)
         \/ \E shown : Fills(c, x, shown)
         \/ Ends(c) /\ x = Pages!Idle
  PROVE  /\ RequestsTyped' /\ client'[c] = x
         /\ \A d \in Tab \ {c} : client'[d] = client[d]
  <1> DEFINE r == client[c]
  <1>1. Turned(c, x)
    BY DEF Looks, Knows, Ranks, Cuts, Fills, Ends
  <1>2. r \in PageRequest /\ PageRight(r) /\ RequestsTyped
    BY <1>1 DEF PagesTyped, RequestsTyped, Turned
  <1>3. r.at \in Pages!Start /\ r.at \in Nat /\ 0 \in Pages!Start /\ r.ids \in Seq(Post)
    BY <1>2, PageOf, StartsAt
  <1>4. x = Pages!Idle \/ (x \in PageRequest /\ PageRight(x))
    <2>1. CASE Looks(c, x)
      <3>1. PICK todo \in {<<"getRank">>, <<"members">>, <<"loadHidden">>} :
              Fields(x, r, r.ids, r.next, r.without, todo)
        BY <2>1 DEF Looks
      <3>2. Head(todo) \notin {"fill", "setRaw"}
        BY <3>1
      <3>3. r.next = 0
        BY <1>2, <2>1 DEF Looks, PageRight
      <3> QED BY <1>2, <3>1, <3>2, <3>3 DEF Fields, PageRight
    <2>2. ASSUME NEW T \in SUBSET Post, Knows(c, x, T) PROVE x \in PageRequest /\ PageRight(x)
      <3>1. PICK todo \in {<<"rebuild">>, <<"addHidden", "rebuild">>} :
              Fields(x, r, r.ids, r.next, T, todo)
        BY <2>2 DEF Knows
      <3>2. Head(todo) \notin {"fill", "setRaw"}
        BY <3>1
      <3>3. r.next = 0
        BY <1>2, <2>2 DEF Knows, PageRight
      <3> QED BY <1>2, <3>1, <3>2, <3>3 DEF Fields, PageRight
    <2>3. CASE Ranks(c, x)
      <3> DEFINE w == Pages!Without(order, r.without)
      <3>1. Fields(x, r, w, r.next, {}, <<"zadd">>) /\ Head(<<"zadd">>) = "zadd"
        BY <2>3 DEF Ranks
      <3>2. r.next = 0
        BY <1>2, <2>3 DEF Ranks, PageRight
      <3>3. Distinct(w)
        <4>1. order \in Seq(Post) /\ Distinct(order)
          BY PagesAssumption DEF PagesTyped, Distinct
        <4> QED BY <4>1, WithoutOf
      <3> HIDE DEF w
      <3> QED BY <3>1, <3>2, <3>3 DEF Fields, PageRight
    <2>4. ASSUME NEW s, Cuts(c, x, s) PROVE x \in PageRequest /\ PageRight(x)
      <3>1. r.next = 0
        BY <1>2, <2>4 DEF Cuts, PageRight
      <3>2. CASE Fields(x, r, Slice(s, r.at), r.next, {}, <<"fill", "setRaw">>)
        <4> DEFINE t == Slice(s, r.at)
        <4>1. /\ Distinct(t)
              /\ Len(t) = IF r.at + PostsPerPage <= Len(s) THEN PostsPerPage
                          ELSE IF r.at < Len(s) THEN Len(s) - r.at ELSE 0
          BY <1>3, <2>4, SliceOf DEF Cuts
        <4>2. Len(s) \in Nat /\ Len(s) <= Cardinality(Post) /\ PostsPerPage \in Nat \ {0}
          BY <2>4, PagesAssumption, DistinctShort DEF Cuts
        <4>3. Len(t) <= PostsPerPage /\ (Len(t) = PostsPerPage => r.at + PostsPerPage <= Len(s))
          <5> DEFINE l == Len(s)
                     m == Len(t)
                     a == r.at
          <5> HIDE DEF l, m, a, t
          <5>1. /\ m = IF a + PostsPerPage <= l THEN PostsPerPage ELSE IF a < l THEN l - a ELSE 0
                /\ l \in Nat /\ a \in Nat /\ PostsPerPage \in Nat \ {0}
            BY <1>3, <4>1, <4>2 DEF l, m, a
          <5>2. m <= PostsPerPage /\ (m = PostsPerPage => a + PostsPerPage <= l)
            BY <5>1
          <5> QED BY <5>2 DEF l, m, a
        <4>4. Len(t) = PostsPerPage => r.at + PostsPerPage \in Pages!Start
          <5>1. r.at + PostsPerPage <= Len(s) => r.at + PostsPerPage <= Cardinality(Post)
            BY <1>3, <4>2, StartsAt
          <5> QED BY <1>3, <4>3, <5>1, StartsAt
        <4>5. Head(<<"fill", "setRaw">>) = "fill"
          OBVIOUS
        <4> HIDE DEF t
        <4> QED BY <3>1, <3>2, <4>1, <4>3, <4>4, <4>5 DEF Fields, PageRight, t
      <3>3. CASE Fields(x, r, <<>>, r.next, {}, <<"setRaw">>)
        <4>1. Distinct(<<>>) /\ Len(<<>>) <= PostsPerPage /\ Head(<<"setRaw">>) = "setRaw"
          BY PagesAssumption DEF Distinct
        <4> QED BY <3>3, <4>1 DEF Fields, PageRight
      <3> QED BY <2>4, <3>2, <3>3 DEF Cuts
    <2>5. ASSUME NEW shown, Fills(c, x, shown) PROVE x \in PageRequest /\ PageRight(x)
      <3>1. Fields(x, r, shown, Pages!NextCursor(r.at, r.ids, shown), r.without, <<"setRaw">>)
        BY <2>5 DEF Fills
      <3>2. Distinct(shown) /\ Len(shown) <= PostsPerPage /\ Head(<<"setRaw">>) = "setRaw"
        <4>1. Len(r.ids) <= PostsPerPage /\ Len(shown) <= Len(r.ids)
          BY <1>2, <2>5 DEF Fills, PageRight
        <4>2. Len(shown) \in Nat /\ Len(r.ids) \in Nat /\ PostsPerPage \in Nat
          BY <1>3, <2>5, PagesAssumption DEF Fills
        <4> QED BY <2>5, <4>1, <4>2 DEF Fills
      <3> QED BY <3>1, <3>2 DEF Fields, PageRight
    <2> QED BY <2>1, <2>2, <2>3, <2>4, <2>5
  <1> QED BY <1>1, <1>2, <1>4, TurnedTyped
-----------------------------------------------------------------------------
(***************************************************************************)
(* What a request for a page does, whether its calls succeed or fail.      *)
(***************************************************************************)
Untouched == UNCHANGED <<hidden, rank, raw, walk, settled, quiet>>
SettledUnless(changed) == IF changed THEN Pages!Unsettle ELSE UNCHANGED <<settled, quiet>>

ToLook(c) == \E x : Looks(c, x) /\ Untouched
ToMembers(c) == \E x : Knows(c, x, hidden) /\ Head(client[c].todo) = "members" /\ Untouched
ToLoad(c) ==
  /\ \E x : Knows(c, x, hides) /\ Head(client[c].todo) = "loadHidden"
  /\ SettledUnless(hides # hidden) /\ UNCHANGED <<hidden, rank, raw, walk>>
ToPutBack(c) ==
  /\ \E x : Knows(c, x, client[c].without) /\ Head(client[c].todo) = "addHidden"
  /\ hidden' \in {hidden, hidden \cup client[c].without}
  /\ SettledUnless(hidden' # hidden) /\ UNCHANGED <<rank, raw, walk>>
ToRank(c) == \E x : Ranks(c, x) /\ Untouched
ToNothing(c) ==
  /\ \E x : Cuts(c, x, <<>>) /\ Head(client[c].todo) = "rebuild"
  /\ Pages!Without(order, client[c].without) = <<>> /\ Untouched
ToCut(c) == \E x : Cuts(c, x, Pages!Ranking) /\ Head(client[c].todo) = "getRank" /\ rank # <<>> /\ Untouched

Added(ids) ==
  [n \in Pages!ToSet(ids) \cup DOMAIN rank |->
     IF n \in Pages!ToSet(ids) THEN Pages!Place(n, ids) - 1 ELSE rank[n]]

ToAdd(c) ==
  /\ \E x : Cuts(c, x, client[c].ids) /\ Head(client[c].todo) = "zadd"
  /\ rank' \in {rank, Added(client[c].ids)}
  /\ UNCHANGED <<hidden, raw, walk, settled, quiet>>
ToFill(c) ==
  \E x, shown :
    /\ Fills(c, x, shown) /\ Pages!ToSet(shown) \subseteq Pages!ToSet(client[c].ids)
    /\ \/ shown = Pages!Without(client[c].ids, gone) /\ UNCHANGED <<settled, quiet>>
       \/ Pages!Unsettle
    /\ UNCHANGED <<hidden, rank, raw, walk>>
ToCached(c) ==
  /\ Head(client[c].todo) = "getRaw" /\ raw[client[c].at] # Pages!NoPage
  /\ Answers(c, raw[client[c].at])
  /\ UNCHANGED <<hidden, rank, raw, settled, quiet>>
ToCache(c) ==
  LET page == [notes |-> client[c].ids, next |-> client[c].next]
  IN  /\ Head(client[c].todo) = "setRaw" /\ Answers(c, page)
      /\ raw' \in {raw, [raw EXCEPT ![client[c].at] = page]}
      /\ UNCHANGED <<hidden, rank, settled, quiet>>
ToEnd(c) == Ends(c) /\ Untouched

Reads(c) ==
  /\ UNCHANGED <<order, gone, hides, forgotten, amiss>>
  /\ \/ ToLook(c) \/ ToMembers(c) \/ ToLoad(c) \/ ToPutBack(c) \/ ToRank(c) \/ ToNothing(c)
     \/ ToCut(c) \/ ToAdd(c) \/ ToFill(c) \/ ToCached(c) \/ ToCache(c) \/ ToEnd(c)
-----------------------------------------------------------------------------
LEMMA AtPage ==
  ASSUME PagesTyped, NEW c \in Tab, NEW call, Pages!At(c, call),
         call \notin {"addRow", "removeRow", "sadd", "srem"} \cup Purges
  PROVE  client[c] \in PageRequest /\ PageRight(client[c]) /\ Head(client[c].todo) = call
  <1>1. client[c] # Pages!Idle /\ Head(client[c].todo) = call
    BY DEF Pages!At, Pages!Active
  <1>2. client[c] \notin HideRequest \cup UndoRequest
    BY <1>1, ChangeOf, ChangeTodos
  <1> QED BY <1>1, <1>2 DEF PagesTyped, RequestsTyped

LEMMA TurnedBy ==
  ASSUME NEW c, client[c] \in PageRequest, NEW x, Pages!Become(c, x)
  PROVE  /\ x \in PageRequest => Turned(c, x)
         /\ x.todo = <<>> => Turned(c, Pages!Idle)
  <1>1. x \in PageRequest => x.todo # <<>>
    BY PageOf, PageTodos
  <1> QED BY <1>1 DEF Pages!Become, Turned

LEMMA StoppedBy ==
  ASSUME NEW c, client[c] \in PageRequest, Pages!Stop(c)
  PROVE  Turned(c, Pages!Idle)
  <1> DEFINE x == [client[c] EXCEPT !.todo = <<>>]
  <1>1. x.todo = <<>>
    BY DEF PageRequest
  <1>2. Pages!Become(c, x)
    BY DEF Pages!Stop, Pages!GoOn
  <1> HIDE DEF x
  <1> QED BY <1>1, <1>2, TurnedBy

\* A request goes on with other calls.
LEMMA WentOn ==
  ASSUME NEW c, client[c] \in PageRequest, NEW todo \in PageTodo, Pages!GoOn(c, todo)
  PROVE  \E x : /\ Turned(c, x)
                /\ Fields(x, client[c], client[c].ids, client[c].next, client[c].without, todo)
  <1> DEFINE r == client[c]
             x == [r EXCEPT !.todo = todo]
  <1>1. r.ids \in Seq(Post) /\ r.next \in Pages!Start /\ r.without \in SUBSET Post
    BY PageOf
  <1>2. Fields(x, r, r.ids, r.next, r.without, todo)
    BY <1>1, FieldsOf, Zenon
  <1>3. Pages!Become(c, x)
    BY DEF Pages!GoOn
  <1> HIDE DEF x
  <1> QED BY <1>2, <1>3, TurnedBy DEF Fields

LEMMA CutBy ==
  ASSUME PagesTyped, NEW c \in Tab, client[c] \in PageRequest,
         Head(client[c].todo) \in {"getRank", "rebuild", "zadd"},
         NEW s \in Seq(Post), Distinct(s),
         \/ Pages!Cut(c, s, <<"fill", "setRaw">>)
         \/ s = <<>> /\ Pages!Cut(c, s, <<"setRaw">>)
  PROVE  \E x : Cuts(c, x, s)
  <1> DEFINE r == client[c]
             t == Slice(s, r.at)
             X(todo) == [r EXCEPT !.ids = t, !.without = {}, !.todo = todo]
  <1>1. r.at \in Nat /\ r.next \in Pages!Start /\ {} \in SUBSET Post
    BY PageOf, StartsAt
  <1>2. t \in Seq(Post) /\ (s = <<>> => t = <<>>)
    <2>1. t \in Seq(Post) /\ Len(t) = IF r.at + PostsPerPage <= Len(s) THEN PostsPerPage
                                      ELSE IF r.at < Len(s) THEN Len(s) - r.at ELSE 0
      BY <1>1, SliceOf
    <2>2. ASSUME s = <<>> PROVE t = <<>>
      <3>1. Len(s) = 0
        BY <2>2
      <3>2. ~(r.at + PostsPerPage <= 0) /\ ~(r.at < 0)
        BY <1>1, PagesAssumption
      <3>3. Len(t) = 0
        BY <2>1, <3>1, <3>2
      <3> QED BY <2>1, <3>3
    <2> QED BY <2>1, <2>2
  <1>3. \A todo \in PageTodo : Fields(X(todo), r, t, r.next, {}, todo)
    <2> HIDE DEF t
    <2> QED BY <1>1, <1>2, FieldsOf, Zenon
  <1>4. \A todo : Pages!Cut(c, s, todo) => Pages!Become(c, X(todo))
    BY DEF Pages!Cut, Slice
  <1>5. <<"fill", "setRaw">> \in PageTodo /\ <<"setRaw">> \in PageTodo
    BY DEF PageTodo
  <1> HIDE DEF X, t
  <1>6. \A todo \in PageTodo : Pages!Cut(c, s, todo) => Turned(c, X(todo))
    BY <1>3, <1>4, TurnedBy DEF Fields
  <1> QED BY <1>2, <1>3, <1>5, <1>6 DEF Cuts, t

LEMMA FilledBy ==
  ASSUME PagesTyped, NEW c \in Tab, client[c] \in PageRequest, PageRight(client[c]),
         Head(client[c].todo) = "fill",
         NEW shown \in Seq(Post), Distinct(shown), Len(shown) <= Len(client[c].ids),
         Pages!Become(c, [client[c] EXCEPT !.ids = shown,
                            !.next = Pages!NextCursor(client[c].at, client[c].ids, shown),
                            !.todo = Tail(@)])
  PROVE  \E x : Fills(c, x, shown)
  <1> DEFINE r == client[c]
             next == Pages!NextCursor(r.at, r.ids, shown)
             x == [r EXCEPT !.ids = shown, !.next = next, !.todo = <<"setRaw">>]
  <1>1. r.todo \in PageTodo /\ r.without \in SUBSET Post
    BY PageOf
  <1>2. Tail(r.todo) = <<"setRaw">>
    BY <1>1, PageTodos
  <1>3. next \in Pages!Start
    <2>1. Len(r.ids) = PostsPerPage => r.at + PostsPerPage \in Pages!Start
      BY DEF PageRight
    <2> QED BY <2>1, StartsAt DEF Pages!NextCursor
  <1>4. <<"setRaw">> \in PageTodo
    BY DEF PageTodo
  <1> HIDE DEF next
  <1>5. Fields(x, r, shown, next, r.without, <<"setRaw">>)
    BY <1>1, <1>3, <1>4, FieldsOf, Zenon
  <1>6. Pages!Become(c, x)
    BY <1>2 DEF next
  <1> HIDE DEF x
  <1>7. Turned(c, x)
    BY <1>5, <1>6, TurnedBy DEF Fields
  <1> QED BY <1>5, <1>7 DEF Fills, next

LEMMA AnswerTyped ==
  ASSUME NEW r \in PageRequest, PageRight(r), Head(r.todo) = "setRaw"
  PROVE  [notes |-> r.ids, next |-> r.next] \in Pages!Pages
  <1>1. r.ids \in Seq(Post) /\ Len(r.ids) \in 0..PostsPerPage /\ r.next \in Pages!Start
    BY PageOf, PagesAssumption DEF PageRight
  <1>2. r.ids \in [1..Len(r.ids) -> Post]
    BY <1>1
  <1>3. r.ids \in UNION {[1..k -> Post] : k \in 0..PostsPerPage}
    BY <1>1, <1>2
  <1> QED BY <1>1, <1>3 DEF Pages!Pages
-----------------------------------------------------------------------------
LEMMA GetRawReads ==
  ASSUME PagesTyped, NEW c \in Tab, Pages!GetRaw(c)
  PROVE  Reads(c)
  <1> DEFINE r == client[c]
  <1>1. r \in PageRequest /\ Head(r.todo) = "getRaw" /\ r.at \in Pages!Start
    BY AtPage, PageOf DEF Pages!GetRaw, Purges
  <1>2. UNCHANGED <<order, gone, hides, forgotten, amiss, hidden, rank, raw, settled, quiet>>
    BY DEF Pages!GetRaw, Pages!redis, Pages!history
  <1>3. CASE raw[r.at] = Pages!NoPage
    <2>1. Pages!GoOn(c, <<"getRank">>) /\ UNCHANGED walk
      BY <1>3 DEF Pages!GetRaw
    <2>2. <<"getRank">> \in PageTodo
      BY DEF PageTodo
    <2>3. \E x : Looks(c, x)
      BY <1>1, <2>1, <2>2, WentOn DEF Looks
    <2>4. ToLook(c)
      BY <1>2, <2>1, <2>3 DEF ToLook, Untouched
    <2> QED BY <1>2, <2>4 DEF Reads
  <1>4. CASE raw[r.at] # Pages!NoPage
    <2>1. Pages!Stop(c) /\ Pages!Answer(c, raw[r.at])
      BY <1>4 DEF Pages!GetRaw
    <2>2. raw[r.at] \in Pages!Pages
      BY <1>1, <1>4 DEF PagesTyped, CachesTyped
    <2>3. Answers(c, raw[r.at])
      BY <1>1, <2>1, <2>2, StoppedBy DEF Answers, Ends, Pages!Answer
    <2>4. ToCached(c)
      BY <1>1, <1>2, <1>4, <2>3 DEF ToCached
    <2> QED BY <1>2, <2>4 DEF Reads
  <1> QED BY <1>3, <1>4

LEMMA RankingDistinct ==
  ASSUME PagesTyped
  PROVE  Pages!Ranking \in Seq(Post) /\ Distinct(Pages!Ranking)
  <1>1. Scored
    BY DEF PagesTyped, CachesTyped, Scored
  <1>2. Pages!Ranking \in Seq(DOMAIN rank) /\ Distinct(Pages!Ranking) /\ DOMAIN rank \subseteq Post
    BY <1>1, RankingOf DEF Scored
  <1> QED BY <1>2

LEMMA GetRankReads ==
  ASSUME PagesTyped, NEW c \in Tab, Pages!GetRank(c)
  PROVE  Reads(c)
  <1> DEFINE r == client[c]
  <1>1. r \in PageRequest /\ Head(r.todo) = "getRank"
    BY AtPage DEF Pages!GetRank, Purges
  <1>2. /\ UNCHANGED <<order, gone, hides, forgotten, amiss>>
        /\ Untouched
    BY DEF Pages!GetRank, Pages!redis, Pages!history, Untouched
  <1>3. CASE rank = <<>>
    <2>1. Pages!GoOn(c, <<"members">>)
      BY <1>3 DEF Pages!GetRank
    <2>2. <<"members">> \in PageTodo
      BY DEF PageTodo
    <2>3. \E x : Looks(c, x)
      BY <1>1, <2>1, <2>2, WentOn DEF Looks
    <2>4. ToLook(c)
      BY <1>2, <2>3 DEF ToLook
    <2> QED BY <1>2, <2>4 DEF Reads
  <1>4. CASE rank # <<>>
    <2>1. Pages!Cut(c, Pages!Ranking, <<"fill", "setRaw">>)
      BY <1>4 DEF Pages!GetRank
    <2>2. \E x : Cuts(c, x, Pages!Ranking)
      BY <1>1, <2>1, CutBy, RankingDistinct
    <2>3. ToCut(c)
      BY <1>1, <1>2, <1>4, <2>2 DEF ToCut
    <2> QED BY <1>2, <2>3 DEF Reads
  <1> QED BY <1>3, <1>4

LEMMA MembersReads ==
  ASSUME PagesTyped, NEW c \in Tab, Pages!Members(c)
  PROVE  Reads(c)
  <1> DEFINE r == client[c]
             x == [r EXCEPT !.without = hidden, !.todo = <<"rebuild">>]
  <1>1. r \in PageRequest /\ Head(r.todo) = "members"
    BY AtPage DEF Pages!Members, Purges
  <1>2. UNCHANGED <<order, gone, hides, forgotten, amiss>> /\ Untouched
    BY DEF Pages!Members, Pages!redis, Pages!history, Untouched
  <1>3. /\ <<"rebuild">> \in PageTodo /\ hidden \in SUBSET Post /\ r.ids \in Seq(Post)
        /\ r.next \in Pages!Start
    BY <1>1, PageOf DEF PageTodo, PagesTyped
  <1>4. Fields(x, r, r.ids, r.next, hidden, <<"rebuild">>)
    BY <1>1, <1>3, FieldsOf, Zenon
  <1>5. Pages!Become(c, x)
    BY DEF Pages!Members
  <1> HIDE DEF x
  <1>6. Knows(c, x, hidden)
    BY <1>1, <1>4, <1>5, TurnedBy DEF Knows, Fields
  <1>7. ToMembers(c)
    BY <1>1, <1>2, <1>6 DEF ToMembers
  <1> QED BY <1>2, <1>7 DEF Reads

LEMMA GetHiddenReads ==
  ASSUME PagesTyped, NEW c \in Tab, Pages!GetHiddenNoteIDs(c)
  PROVE  Reads(c)
  <1> DEFINE r == client[c]
             todo == IF hides = {} THEN <<"rebuild">> ELSE <<"addHidden", "rebuild">>
             x == [r EXCEPT !.without = hides, !.todo = todo]
  <1>1. r \in PageRequest /\ Head(r.todo) = "loadHidden"
    BY AtPage DEF Pages!GetHiddenNoteIDs, Purges
  <1>2. /\ UNCHANGED <<order, gone, hides, forgotten, amiss, hidden, rank, raw, walk>>
        /\ SettledUnless(hides # hidden)
    BY DEF Pages!GetHiddenNoteIDs, Pages!redis, SettledUnless
  <1>3. /\ todo \in PageTodo /\ hides \in SUBSET Post /\ r.ids \in Seq(Post)
        /\ r.next \in Pages!Start
    BY <1>1, PageOf DEF PageTodo, PagesTyped
  <1>4. todo \in {<<"rebuild">>, <<"addHidden", "rebuild">>}
    OBVIOUS
  <1>5. Pages!Become(c, x)
    BY DEF Pages!GetHiddenNoteIDs
  <1> HIDE DEF todo
  <1>6. Fields(x, r, r.ids, r.next, hides, todo)
    BY <1>1, <1>3, FieldsOf, Zenon
  <1> HIDE DEF x
  <1>7. Knows(c, x, hides)
    BY <1>1, <1>4, <1>5, <1>6, TurnedBy DEF Knows, Fields
  <1>8. ToLoad(c)
    BY <1>1, <1>2, <1>7 DEF ToLoad
  <1> QED BY <1>2, <1>8 DEF Reads

LEMMA AddHiddenReads ==
  ASSUME PagesTyped, NEW c \in Tab,
         \/ Pages!AddHidden(c)
         \/ /\ Pages!At(c, "addHidden") /\ Pages!Proceed(c)
            /\ UNCHANGED <<order, gone, hides, hidden, rank, raw, forgotten, walk, amiss, settled, quiet>>
  PROVE  Reads(c)
  <1> DEFINE r == client[c]
  <1>1. r \in PageRequest /\ Head(r.todo) = "addHidden"
    BY AtPage DEF Pages!AddHidden, Purges
  <1>2. /\ UNCHANGED <<order, gone, hides, forgotten, amiss, rank, raw, walk>>
        /\ hidden' \in {hidden, hidden \cup r.without} /\ SettledUnless(hidden' # hidden)
    BY DEF Pages!AddHidden, SettledUnless
  <1>3. Tail(r.todo) = <<"rebuild">>
    BY <1>1, PageOf, PageTodos
  <1>4. Pages!GoOn(c, <<"rebuild">>)
    BY <1>3 DEF Pages!AddHidden, Pages!Proceed
  <1>5. <<"rebuild">> \in PageTodo
    BY DEF PageTodo
  <1>6. PICK x : Turned(c, x) /\ Fields(x, r, r.ids, r.next, r.without, <<"rebuild">>)
    BY <1>1, <1>4, <1>5, WentOn
  <1>7. Knows(c, x, r.without)
    BY <1>1, <1>6 DEF Knows
  <1>8. ToPutBack(c)
    BY <1>1, <1>2, <1>7 DEF ToPutBack
  <1> QED BY <1>2, <1>8 DEF Reads

LEMMA RebuildReads ==
  ASSUME PagesTyped, NEW c \in Tab, Pages!Rebuild(c)
  PROVE  Reads(c)
  <1> DEFINE r == client[c]
             w == Pages!Without(order, r.without)
             x == [r EXCEPT !.ids = w, !.without = {}, !.todo = <<"zadd">>]
  <1>1. r \in PageRequest /\ Head(r.todo) = "rebuild"
    BY AtPage DEF Pages!Rebuild, Purges
  <1>2. UNCHANGED <<order, gone, hides, forgotten, amiss>> /\ Untouched
    BY DEF Pages!Rebuild, Pages!redis, Pages!history, Untouched
  <1>3. w \in Seq(Post)
    <2>1. order \in Seq(Post)
      BY PagesAssumption DEF PagesTyped
    <2> QED BY <2>1, WithoutOf
  <1>4. CASE w = <<>>
    <2>1. Pages!Cut(c, <<>>, <<"setRaw">>)
      BY <1>4 DEF Pages!Rebuild
    <2>2. <<>> \in Seq(Post) /\ Distinct(<<>>)
      BY DEF Distinct
    <2>3. \E y : Cuts(c, y, <<>>)
      BY <1>1, <2>1, <2>2, CutBy
    <2>4. ToNothing(c)
      BY <1>1, <1>2, <1>4, <2>3 DEF ToNothing
    <2> QED BY <1>2, <2>4 DEF Reads
  <1>5. CASE w # <<>>
    <2>1. Pages!Become(c, x)
      BY <1>5 DEF Pages!Rebuild
    <2>2. <<"zadd">> \in PageTodo /\ {} \in SUBSET Post /\ r.next \in Pages!Start
      BY <1>1, PageOf DEF PageTodo
    <2> HIDE DEF w
    <2>3. Fields(x, r, w, r.next, {}, <<"zadd">>)
      BY <1>1, <1>3, <2>2, FieldsOf, Zenon
    <2> HIDE DEF x
    <2>4. Ranks(c, x)
      BY <1>1, <2>1, <2>3, TurnedBy DEF Ranks, Fields, w
    <2>5. ToRank(c)
      BY <1>2, <2>4 DEF ToRank
    <2> QED BY <1>2, <2>5 DEF Reads
  <1> QED BY <1>4, <1>5

LEMMA ZAddReads ==
  ASSUME PagesTyped, NEW c \in Tab,
         \/ Pages!ZAddRank(c)
         \/ /\ Pages!At(c, "zadd") /\ Pages!Cut(c, client[c].ids, <<"fill", "setRaw">>)
            /\ UNCHANGED <<order, gone, hides, hidden, rank, raw, forgotten, walk, amiss, settled, quiet>>
  PROVE  Reads(c)
  <1> DEFINE r == client[c]
  <1>1. r \in PageRequest /\ PageRight(r) /\ Head(r.todo) = "zadd"
    BY AtPage DEF Pages!ZAddRank, Purges
  <1>2. /\ UNCHANGED <<order, gone, hides, forgotten, amiss, hidden, raw, walk, settled, quiet>>
        /\ rank' \in {rank, Added(r.ids)}
    BY DEF Pages!ZAddRank, Added, Pages!history
  <1>3. Pages!Cut(c, r.ids, <<"fill", "setRaw">>)
    BY DEF Pages!ZAddRank
  <1>4. r.ids \in Seq(Post) /\ Distinct(r.ids)
    BY <1>1, PageOf DEF PageRight
  <1>5. \E x : Cuts(c, x, r.ids)
    BY <1>1, <1>3, <1>4, CutBy
  <1>6. ToAdd(c)
    BY <1>1, <1>2, <1>5 DEF ToAdd
  <1> QED BY <1>2, <1>6 DEF Reads

LEMMA FillReads ==
  ASSUME PagesTyped, NEW c \in Tab, Pages!Fill(c)
  PROVE  Reads(c)
  <1> DEFINE r == client[c]
             shown == Pages!Without(r.ids, gone)
  <1>1. r \in PageRequest /\ PageRight(r) /\ Head(r.todo) = "fill"
    BY AtPage DEF Pages!Fill, Purges
  <1>2. UNCHANGED <<order, gone, hides, forgotten, amiss, hidden, rank, raw, walk, settled, quiet>>
    BY DEF Pages!Fill, Pages!redis, Pages!history
  <1>3. r.ids \in Seq(Post) /\ Distinct(r.ids)
    BY <1>1, PageOf DEF PageRight
  <1>4. /\ shown \in Seq(Post) /\ Distinct(shown) /\ Len(shown) <= Len(r.ids)
        /\ \A i \in DOMAIN shown : \E j \in DOMAIN r.ids : shown[i] = r.ids[j]
    BY <1>3, WithoutOf
  <1>5. Pages!ToSet(shown) \subseteq Pages!ToSet(r.ids)
    BY <1>4 DEF Pages!ToSet
  <1>6. Pages!Become(c, [r EXCEPT !.ids = shown, !.next = Pages!NextCursor(r.at, r.ids, shown),
                           !.todo = Tail(@)])
    BY DEF Pages!Fill
  <1> HIDE DEF shown
  <1>7. \E x : Fills(c, x, shown)
    BY <1>1, <1>4, <1>6, FilledBy
  <1>8. ToFill(c)
    BY <1>2, <1>5, <1>7 DEF ToFill, shown
  <1> QED BY <1>2, <1>8 DEF Reads

LEMMA SetRawReads ==
  ASSUME PagesTyped, NEW c \in Tab,
         \/ Pages!SetRaw(c)
         \/ /\ Pages!At(c, "setRaw") /\ Pages!Stop(c)
            /\ Pages!Answer(c, [notes |-> client[c].ids, next |-> client[c].next])
            /\ UNCHANGED <<order, gone, hides, hidden, rank, raw, forgotten, amiss, settled, quiet>>
  PROVE  Reads(c)
  <1> DEFINE r == client[c]
             page == [notes |-> r.ids, next |-> r.next]
  <1>1. r \in PageRequest /\ PageRight(r) /\ Head(r.todo) = "setRaw"
    BY AtPage DEF Pages!SetRaw, Purges
  <1>2. /\ UNCHANGED <<order, gone, hides, forgotten, amiss, hidden, rank, settled, quiet>>
        /\ raw' \in {raw, [raw EXCEPT ![r.at] = page]}
    BY DEF Pages!SetRaw, Pages!history
  <1>3. page \in Pages!Pages
    BY <1>1, AnswerTyped
  <1>4. Pages!Stop(c) /\ Pages!Answer(c, page)
    BY DEF Pages!SetRaw
  <1> HIDE DEF page
  <1>5. Answers(c, page)
    BY <1>1, <1>3, <1>4, StoppedBy DEF Answers, Ends, Pages!Answer
  <1>6. ToCache(c)
    BY <1>1, <1>2, <1>5 DEF ToCache, page
  <1> QED BY <1>2, <1>6 DEF Reads
-----------------------------------------------------------------------------
\* A call on the notes that a user has hidden, which goes on or ends.
ChangeRequest == HideRequest \cup UndoRequest
Next1(r) == IF Head(r.todo) = "delRank" THEN Pages!Idle ELSE [r EXCEPT !.todo = Tail(@)]
Goes(c) == client[c] \in ChangeRequest /\ client' = [client EXCEPT ![c] = Next1(client[c])]
Leaves(c) == client[c] \in ChangeRequest /\ client' = [client EXCEPT ![c] = Pages!Idle]

ChangeCall == {"addRow", "removeRow", "sadd", "srem"} \cup Purges

\* A call of c on them fails.
Fails(c) ==
  /\ Goes(c) \/ Leaves(c)
  /\ UNCHANGED <<order, gone, hides, hidden, rank, raw, walk, forgotten, settled, quiet>>
  /\ amiss' = TRUE

LEMMA AtChange ==
  ASSUME PagesTyped, NEW c \in Tab, NEW call \in ChangeCall, Pages!At(c, call)
  PROVE  /\ client[c] \in ChangeRequest /\ Head(client[c].todo) = call
         /\ call \in {"addRow", "sadd"} => client[c] \in HideRequest
         /\ call \in {"removeRow", "srem"} => client[c] \in UndoRequest
  <1>1. client[c] # Pages!Idle /\ Head(client[c].todo) = call
    BY DEF Pages!At, Pages!Active
  <1>2. client[c] \notin PageRequest
    BY <1>1, PageOf, PageTodos DEF ChangeCall, Purges
  <1>3. client[c] \in ChangeRequest
    BY <1>1, <1>2 DEF PagesTyped, RequestsTyped, ChangeRequest
  <1>4. call \in {"addRow", "sadd"} => client[c] \notin UndoRequest
    BY <1>1, ChangeOf, ChangeTodos DEF Purges
  <1>5. call \in {"removeRow", "srem"} => client[c] \notin HideRequest
    BY <1>1, ChangeOf, ChangeTodos DEF Purges
  <1> QED BY <1>1, <1>3, <1>4, <1>5 DEF ChangeRequest

LEMMA Proceeds ==
  ASSUME NEW c, client[c] \in ChangeRequest
  PROVE  /\ Pages!Proceed(c) => Goes(c)
         /\ Pages!Stop(c) => Leaves(c)
  <1> DEFINE r == client[c]
             x == [r EXCEPT !.todo = Tail(r.todo)]
             y == [r EXCEPT !.todo = <<>>]
  <1>1. /\ x.todo = Tail(r.todo) /\ y.todo = <<>>
        /\ x = [r EXCEPT !.todo = Tail(@)]
    BY DEF ChangeRequest, HideRequest, UndoRequest
  <1>2. /\ Head(r.todo) = "delRank" => Tail(r.todo) = <<>>
        /\ Head(r.todo) # "delRank" => Tail(r.todo) # <<>>
    BY ChangeOf, ChangeTodos DEF ChangeRequest
  <1>3. Pages!Proceed(c) => Pages!Become(c, x)
    BY DEF Pages!Proceed, Pages!GoOn
  <1>4. Pages!Stop(c) => Pages!Become(c, y)
    BY DEF Pages!Stop, Pages!GoOn
  <1>5. Next1(r) = IF Head(r.todo) = "delRank" THEN Pages!Idle ELSE x
    BY <1>1 DEF Next1
  <1> HIDE DEF x, y
  <1>6. Pages!Become(c, y) => Leaves(c)
    BY <1>1 DEF Pages!Become, Leaves
  <1>7. Pages!Become(c, x) => Goes(c)
    BY <1>1, <1>2, <1>5 DEF Pages!Become, Goes
  <1> QED BY <1>3, <1>4, <1>6, <1>7

\* What a change is after a call.
LEMMA NextOf ==
  ASSUME NEW r \in ChangeRequest
  PROVE  /\ Head(r.todo) = "delRank" => Next1(r) = Pages!Idle
         /\ Head(r.todo) # "delRank" =>
              /\ Next1(r).note = r.note
              /\ r \in HideRequest => Next1(r) \in HideRequest
              /\ r \in UndoRequest => Next1(r) \in UndoRequest
              /\ Head(r.todo) = "addRow" => Head(Next1(r).todo) = "sadd"
              /\ Head(r.todo) = "removeRow" => Head(Next1(r).todo) = "srem"
              /\ Head(r.todo) \in {"sadd", "srem"} => Head(Next1(r).todo) = "delHome"
              /\ Head(r.todo) = "delHome" => Head(Next1(r).todo) = "delPages"
              /\ Head(r.todo) = "delPages" => Head(Next1(r).todo) = "delRank"
  <1>1. Head(r.todo) = "delRank" => Next1(r) = Pages!Idle
    BY DEF Next1
  <1>2. ASSUME Head(r.todo) # "delRank"
        PROVE  /\ Next1(r).note = r.note /\ Next1(r).todo = Tail(r.todo)
               /\ r \in HideRequest /\ Tail(r.todo) \in HideTodo => Next1(r) \in HideRequest
               /\ r \in UndoRequest /\ Tail(r.todo) \in UndoTodo => Next1(r) \in UndoRequest
    <2>1. Next1(r) = [r EXCEPT !.todo = Tail(r.todo)]
      BY <1>2 DEF Next1
    <2> DEFINE t == Tail(r.todo)
    <2>2. Next1(r) = [r EXCEPT !.todo = t]
      BY <2>1
    <2> HIDE DEF t
    <2>3. CASE r \in HideRequest
      <3>1. /\ Next1(r).note = r.note /\ Next1(r).todo = t
            /\ t \in HideTodo => Next1(r) \in HideRequest
        BY <2>2, <2>3 DEF HideRequest
      <3>2. r \notin UndoRequest
        BY <2>3 DEF HideRequest, UndoRequest
      <3> QED BY <3>1, <3>2 DEF t
    <2>4. CASE r \in UndoRequest
      <3>1. /\ Next1(r).note = r.note /\ Next1(r).todo = t
            /\ t \in UndoTodo => Next1(r) \in UndoRequest
        BY <2>2, <2>4 DEF UndoRequest
      <3>2. r \notin HideRequest
        BY <2>4 DEF HideRequest, UndoRequest
      <3> QED BY <3>1, <3>2 DEF t
    <2> QED BY <2>3, <2>4 DEF ChangeRequest
  <1>3. r.todo \in HideTodo \cup UndoTodo /\ (r \in HideRequest => r.todo \in HideTodo)
        /\ (r \in UndoRequest => r.todo \in UndoTodo)
    BY ChangeOf DEF ChangeRequest
  <1> HIDE DEF ChangeRequest
  <1> QED BY <1>1, <1>2, <1>3, ChangeTodos

LEMMA FailDoes ==
  ASSUME PagesTyped, NEW c \in Tab, Pages!Fail(c)
  PROVE  Reads(c) \/ Fails(c)
  <1> DEFINE r == client[c]
             F == UNCHANGED <<order, gone, hides, hidden, rank, raw, forgotten>>
             S == UNCHANGED <<walk, amiss, settled, quiet>>
  <1>1. F
    BY DEF Pages!Fail, Pages!redis
  <1>2. CASE Pages!At(c, "getRaw") /\ Pages!GoOn(c, <<"getRank">>) /\ S
    <2>1. r \in PageRequest /\ Head(r.todo) = "getRaw"
      BY <1>2, AtPage DEF Purges
    <2>2. <<"getRank">> \in PageTodo
      BY DEF PageTodo
    <2>3. \E x : Looks(c, x)
      BY <1>2, <2>1, <2>2, WentOn DEF Looks
    <2> QED BY <1>1, <1>2, <2>3 DEF Reads, ToLook, Untouched
  <1>3. CASE Pages!At(c, "getRank") /\ Pages!GoOn(c, <<"members">>) /\ S
    <2>1. r \in PageRequest /\ Head(r.todo) = "getRank"
      BY <1>3, AtPage DEF Purges
    <2>2. <<"members">> \in PageTodo
      BY DEF PageTodo
    <2>3. \E x : Looks(c, x)
      BY <1>3, <2>1, <2>2, WentOn DEF Looks
    <2> QED BY <1>1, <1>3, <2>3 DEF Reads, ToLook, Untouched
  <1>4. CASE Pages!At(c, "members") /\ Pages!GoOn(c, <<"loadHidden">>) /\ S
    <2>1. r \in PageRequest /\ Head(r.todo) = "members"
      BY <1>4, AtPage DEF Purges
    <2>2. <<"loadHidden">> \in PageTodo
      BY DEF PageTodo
    <2>3. \E x : Looks(c, x)
      BY <1>4, <2>1, <2>2, WentOn DEF Looks
    <2> QED BY <1>1, <1>4, <2>3 DEF Reads, ToLook, Untouched
  <1>5. CASE Pages!At(c, "addHidden") /\ Pages!Proceed(c) /\ S
    BY <1>1, <1>5, AddHiddenReads
  <1>6. CASE Pages!At(c, "zadd") /\ Pages!Cut(c, r.ids, <<"fill", "setRaw">>) /\ S
    BY <1>1, <1>6, ZAddReads
  <1>7. CASE /\ Pages!At(c, "setRaw") /\ Pages!Stop(c)
             /\ Pages!Answer(c, [notes |-> r.ids, next |-> r.next])
             /\ UNCHANGED <<amiss, settled, quiet>>
    BY <1>1, <1>7, SetRawReads
  <1>8. CASE /\ Pages!At(c, "fill")
             /\ \E shown \in {<<>>, SubSeq(r.ids, 1, Pages!Min({1, Len(r.ids)})), r.ids} :
                  Pages!Become(c, [r EXCEPT !.ids = shown,
                                     !.next = Pages!NextCursor(r.at, r.ids, shown), !.todo = Tail(@)])
             /\ Pages!Unsettle /\ UNCHANGED <<walk, amiss>>
    <2>1. r \in PageRequest /\ PageRight(r) /\ Head(r.todo) = "fill"
      BY <1>8, AtPage DEF Purges
    <2>2. r.ids \in Seq(Post) /\ Distinct(r.ids)
      BY <2>1, PageOf DEF PageRight
    <2>3. PICK shown \in {<<>>, SubSeq(r.ids, 1, Pages!Min({1, Len(r.ids)})), r.ids} :
            Pages!Become(c, [r EXCEPT !.ids = shown,
                               !.next = Pages!NextCursor(r.at, r.ids, shown), !.todo = Tail(@)])
      BY <1>8
    <2>4. /\ shown \in Seq(Post) /\ Distinct(shown) /\ Len(shown) <= Len(r.ids)
          /\ Pages!ToSet(shown) \subseteq Pages!ToSet(r.ids)
      <3>1. CASE shown = <<>>
        <4>1. Len(shown) = 0 /\ Len(r.ids) \in Nat /\ DOMAIN shown = {} /\ shown \in Seq(Post)
          BY <2>2, <3>1
        <4> QED BY <4>1 DEF Distinct, Pages!ToSet
      <3>2. CASE shown = r.ids
        BY <2>2, <3>2
      <3>3. CASE shown = SubSeq(r.ids, 1, Pages!Min({1, Len(r.ids)}))
        <4> DEFINE m == IF 1 <= Len(r.ids) THEN 1 ELSE Len(r.ids)
                   t == SubSeq(r.ids, 1, m)
        <4>1. Len(r.ids) \in Nat /\ DOMAIN r.ids = 1..Len(r.ids) /\ 1 \in Nat
          BY <2>2
        <4>2. Pages!Min({1, Len(r.ids)}) = m
          BY <4>1, MinOfTwo
        <4>3. shown = t
          BY <3>3, <4>2
        <4>4. m \in 0..1 /\ m <= Len(r.ids)
          BY <4>1
        <4> HIDE DEF m
        <4>5. 1 \in Int /\ m \in Int /\ \A i \in 1..m : i \in DOMAIN r.ids /\ r.ids[i] \in Post
          BY <2>2, <4>1, <4>4
        <4>6. /\ t \in Seq(Post) /\ Len(t) = IF 1 <= m THEN m - 1 + 1 ELSE 0
              /\ \A i \in 1..(m - 1 + 1) : t[i] = r.ids[1 + i - 1]
          BY <4>5, SubSeqProperties
        <4> HIDE DEF t
        <4>7. Len(t) = m /\ DOMAIN t = 1..m
          BY <4>4, <4>6
        <4>8. \A i \in 1..m : t[i] = r.ids[i]
          BY <4>4, <4>6
        <4>9. Distinct(t)
          BY <4>4, <4>7 DEF Distinct
        <4>10. Pages!ToSet(t) \subseteq Pages!ToSet(r.ids)
          BY <4>5, <4>7, <4>8 DEF Pages!ToSet
        <4> QED BY <4>1, <4>3, <4>4, <4>6, <4>7, <4>9, <4>10
      <3> QED BY <2>3, <3>1, <3>2, <3>3
    <2>5. \E x : Fills(c, x, shown)
      BY <2>1, <2>3, <2>4, FilledBy
    <2>6. ToFill(c)
      BY <1>1, <1>8, <2>4, <2>5 DEF ToFill
    <2> QED BY <1>1, <1>8, <2>6 DEF Reads
  <1>9. CASE Pages!At(c, "rebuild") /\ Pages!Stop(c) /\ S
    <2>1. r \in PageRequest
      BY <1>9, AtPage DEF Purges
    <2>2. Ends(c)
      BY <1>9, <2>1, StoppedBy DEF Ends
    <2> QED BY <1>1, <1>9, <2>2 DEF Reads, ToEnd, Untouched
  <1>10. CASE /\ Pages!At(c, "sadd") \/ Pages!At(c, "srem")
              /\ Pages!Proceed(c) /\ amiss' = TRUE /\ UNCHANGED <<walk, settled, quiet>>
    <2>1. r \in ChangeRequest
      BY <1>10, AtChange DEF ChangeCall
    <2> QED BY <1>1, <1>10, <2>1, Proceeds DEF Fails
  <1>11. CASE /\ \E call \in {"addRow", "removeRow"} \cup Pages!ToSet(Pages!InvalidateFeedRawForUser) :
                   Pages!At(c, call)
              /\ Pages!Stop(c) /\ amiss' = TRUE /\ UNCHANGED <<walk, settled, quiet>>
    <2>1. Pages!ToSet(Pages!InvalidateFeedRawForUser) \subseteq Purges
      BY DEF Pages!ToSet, Pages!InvalidateFeedRawForUser, Purges
    <2>2. r \in ChangeRequest
      BY <1>11, <2>1, AtChange DEF ChangeCall
    <2> QED BY <1>1, <1>11, <2>2, Proceeds DEF Fails
  <1> QED BY <1>2, <1>3, <1>4, <1>5, <1>6, <1>7, <1>8, <1>9, <1>10, <1>11 DEF Pages!Fail
-----------------------------------------------------------------------------
\* What a change does.
Changes(c) ==
  \/ Pages!AddFeedHide(c) \/ Pages!RemoveFeedHide(c) \/ Pages!SAdd(c) \/ Pages!SRem(c)
  \/ Pages!DeleteHome(c) \/ Pages!DeletePages(c) \/ Pages!DeleteRank(c) \/ Fails(c)

LEMMA ChangesTurn ==
  ASSUME PagesTyped, NEW c \in Tab, Changes(c)
  PROVE  /\ RequestsTyped' /\ client[c] \in ChangeRequest
         /\ client'[c] \in {Pages!Idle, Next1(client[c])}
         /\ \A d \in Tab \ {c} : client'[d] = client[d]
  <1> DEFINE r == client[c]
  <1>1. Goes(c) \/ Leaves(c)
    <2>1. CASE Pages!AddFeedHide(c)
      <3>1. r \in ChangeRequest /\ (Pages!Proceed(c) \/ Pages!Stop(c))
        BY <2>1, AtChange DEF Pages!AddFeedHide, ChangeCall
      <3> QED BY <3>1, Proceeds
    <2>2. CASE Pages!RemoveFeedHide(c)
      <3>1. r \in ChangeRequest /\ Pages!Proceed(c)
        BY <2>2, AtChange DEF Pages!RemoveFeedHide, ChangeCall
      <3> QED BY <3>1, Proceeds
    <2>3. CASE Pages!SAdd(c)
      <3>1. r \in ChangeRequest /\ Pages!Proceed(c)
        BY <2>3, AtChange DEF Pages!SAdd, ChangeCall
      <3> QED BY <3>1, Proceeds
    <2>4. CASE Pages!SRem(c)
      <3>1. r \in ChangeRequest /\ Pages!Proceed(c)
        BY <2>4, AtChange DEF Pages!SRem, ChangeCall
      <3> QED BY <3>1, Proceeds
    <2>5. CASE Pages!DeleteHome(c)
      <3>1. r \in ChangeRequest /\ Pages!Proceed(c)
        BY <2>5, AtChange DEF Pages!DeleteHome, ChangeCall, Purges
      <3> QED BY <3>1, Proceeds
    <2>6. CASE Pages!DeletePages(c)
      <3>1. r \in ChangeRequest /\ Pages!Proceed(c)
        BY <2>6, AtChange DEF Pages!DeletePages, ChangeCall, Purges
      <3> QED BY <3>1, Proceeds
    <2>7. CASE Pages!DeleteRank(c)
      <3>1. r \in ChangeRequest /\ Pages!Proceed(c)
        BY <2>7, AtChange DEF Pages!DeleteRank, ChangeCall, Purges
      <3> QED BY <3>1, Proceeds
    <2>8. CASE Fails(c)
      BY <2>8 DEF Fails
    <2> QED BY <2>1, <2>2, <2>3, <2>4, <2>5, <2>6, <2>7, <2>8 DEF Changes
  <1>2. r \in ChangeRequest
    BY <1>1 DEF Goes, Leaves
  <1>3. PICK x \in {Pages!Idle, Next1(r)} : client' = [client EXCEPT ![c] = x]
    BY <1>1 DEF Goes, Leaves
  <1>4. x = Pages!Idle \/ x \in HideRequest \cup UndoRequest
    <2>1. r \in HideRequest \/ r \in UndoRequest
      BY <1>2 DEF ChangeRequest
    <2> QED BY <1>2, <1>3, <2>1, NextOf
  <1>5. client'[c] = x /\ \A d \in Tab \ {c} : client'[d] = client[d]
    BY <1>3 DEF PagesTyped, RequestsTyped
  <1>6. client' \in [Tab -> {Pages!Idle} \cup PageRequest \cup HideRequest \cup UndoRequest]
    BY <1>3, <1>4 DEF PagesTyped, RequestsTyped
  <1>7. ASSUME NEW d \in Tab, client'[d] \in PageRequest PROVE PageRight(client'[d])
    <2>1. d # c
      BY <1>4, <1>5, <1>7, PageOf
    <2> QED BY <1>5, <1>7, <2>1 DEF PagesTyped, RequestsTyped
  <1>8. RequestsTyped'
    BY <1>6, <1>7 DEF RequestsTyped, PageRight
  <1> QED BY <1>2, <1>3, <1>5, <1>8

LEMMA ChangesTyped ==
  ASSUME PagesTyped, NEW c \in Tab, Changes(c)
  PROVE  PagesTyped'
  <1>1. RequestsTyped' /\ client[c].note \in Post
    BY ChangesTurn, ChangeOf DEF ChangeRequest
  <1>2. CASE Pages!AddFeedHide(c)
    BY <1>1, <1>2 DEF Pages!AddFeedHide, PagesTyped, CachesTyped, Pages!redis, Pages!history
  <1>3. CASE Pages!RemoveFeedHide(c)
    BY <1>1, <1>3 DEF Pages!RemoveFeedHide, PagesTyped, CachesTyped, Pages!redis, Pages!history
  <1>4. CASE Pages!SAdd(c)
    BY <1>1, <1>4 DEF Pages!SAdd, PagesTyped, CachesTyped, Pages!Unsettle
  <1>5. CASE Pages!SRem(c)
    BY <1>1, <1>5 DEF Pages!SRem, PagesTyped, CachesTyped, Pages!Unsettle
  <1>6. CASE Pages!DeleteHome(c)
    BY <1>1, <1>6 DEF Pages!DeleteHome, PagesTyped, CachesTyped, Pages!history
  <1>7. CASE Pages!DeletePages(c)
    <2>1. raw' \in [Pages!Start -> {Pages!NoPage} \cup Pages!Pages]
      BY <1>7, StartsAt DEF Pages!DeletePages, PagesTyped, CachesTyped
    <2> QED BY <1>1, <1>7, <2>1 DEF Pages!DeletePages, PagesTyped, CachesTyped, Pages!history
  <1>8. CASE Pages!DeleteRank(c)
    <2>1. DOMAIN rank' = {}
      BY <1>8 DEF Pages!DeleteRank
    <2> QED BY <1>1, <1>8, <2>1 DEF Pages!DeleteRank, PagesTyped, CachesTyped, Pages!history
  <1>9. CASE Fails(c)
    BY <1>1, <1>9 DEF Fails, PagesTyped, CachesTyped
  <1> QED BY <1>2, <1>3, <1>4, <1>5, <1>6, <1>7, <1>8, <1>9 DEF Changes
-----------------------------------------------------------------------------
LEMMA AddedTyped ==
  ASSUME CachesTyped, NEW s \in Seq(Post), Distinct(s)
  PROVE  /\ DOMAIN Added(s) = Pages!ToSet(s) \cup DOMAIN rank
         /\ DOMAIN Added(s) \subseteq Post
         /\ \A n \in DOMAIN Added(s) : Added(s)[n] \in Nat
  <1>1. DOMAIN Added(s) = Pages!ToSet(s) \cup DOMAIN rank
    BY DEF Added
  <1>2. Pages!ToSet(s) = {s[i] : i \in 1..Len(s)} /\ Pages!ToSet(s) \subseteq Post
    BY ToSetOf
  <1>3. ASSUME NEW n \in DOMAIN Added(s) PROVE Added(s)[n] \in Nat
    <2>1. CASE n \in Pages!ToSet(s)
      <3>1. PICK i \in 1..Len(s) : n = s[i]
        BY <1>2, <2>1
      <3>2. Pages!Place(n, s) = i
        BY <3>1, PlaceOf
      <3>3. Added(s)[n] = i - 1
        BY <1>1, <2>1, <3>2 DEF Added
      <3> QED BY <3>3
    <2>2. CASE n \notin Pages!ToSet(s)
      BY <1>1, <2>2 DEF Added, CachesTyped
    <2> QED BY <2>1, <2>2
  <1> QED BY <1>1, <1>2, <1>3 DEF CachesTyped

LEMMA AnswersTyped ==
  ASSUME PagesTyped, NEW c \in Tab, NEW page, Answers(c, page)
  PROVE  /\ walk' \in [Tab -> WalkRecord]
         /\ page.notes \in Seq(Post) /\ page.next \in Pages!Start
         /\ walk'[c] = [seen |-> walk[c].seen \o page.notes, next |-> page.next,
                        over |-> page.next = 0]
         /\ \A d \in Tab \ {c} : walk'[d] = walk[d]
  <1>1. page.notes \in Seq(Post) /\ page.next \in Pages!Start
    <2>1. PICK k \in 0..PostsPerPage : page.notes \in [1..k -> Post]
      BY DEF Answers, Pages!Pages
    <2>2. page.notes \in Seq(Post)
      BY <2>1, PagesAssumption
    <2> QED BY <2>2 DEF Answers, Pages!Pages
  <1> DEFINE w == [seen |-> walk[c].seen \o page.notes, next |-> page.next,
                   over |-> page.next = 0]
  <1>2. w \in WalkRecord
    <2>1. walk[c].seen \in Seq(Post)
      BY DEF PagesTyped, WalkRecord
    <2>2. walk[c].seen \o page.notes \in Seq(Post) /\ (page.next = 0) \in BOOLEAN
      BY <1>1, <2>1
    <2> QED BY <1>1, <2>2 DEF WalkRecord
  <1>3. walk' = [walk EXCEPT ![c] = w]
    BY DEF Answers
  <1> HIDE DEF w
  <1>4. walk' \in [Tab -> WalkRecord] /\ walk'[c] = w /\ \A d \in Tab \ {c} : walk'[d] = walk[d]
    BY <1>2, <1>3 DEF PagesTyped
  <1> QED BY <1>1, <1>4 DEF w

LEMMA ReadsTurn ==
  ASSUME PagesTyped, NEW c \in Tab, Reads(c)
  PROVE  /\ RequestsTyped' /\ client[c] \in PageRequest /\ PageRight(client[c])
         /\ \A d \in Tab \ {c} : client'[d] = client[d]
  <1>1. PICK x : \/ Looks(c, x) \/ \E T \in SUBSET Post : Knows(c, x, T)
                 \/ Ranks(c, x) \/ \E s : Cuts(c, x, s)
                 \/ \E shown : Fills(c, x, shown)
                 \/ Ends(c) /\ x = Pages!Idle
    <2>1. hidden \in SUBSET Post /\ hides \in SUBSET Post
      BY DEF PagesTyped
    <2>2. CASE ToPutBack(c)
      <3>1. client[c].without \in SUBSET Post
        BY <2>2, PageOf DEF ToPutBack, Knows, Turned
      <3> QED BY <2>2, <3>1 DEF ToPutBack
    <2>3. CASE ToLook(c) \/ ToMembers(c) \/ ToLoad(c) \/ ToRank(c) \/ ToNothing(c) \/ ToCut(c)
      BY <2>1, <2>3 DEF ToLook, ToMembers, ToLoad, ToRank, ToNothing, ToCut
    <2>4. CASE ToAdd(c) \/ ToFill(c) \/ ToCached(c) \/ ToCache(c) \/ ToEnd(c)
      BY <2>4 DEF ToAdd, ToFill, ToCached, ToCache, ToEnd, Answers
    <2> QED BY <2>2, <2>3, <2>4 DEF Reads
  <1>2. client[c] \in PageRequest
    BY <1>1 DEF Looks, Knows, Ranks, Cuts, Fills, Ends, Turned
  <1>3. PageRight(client[c])
    BY <1>2 DEF PagesTyped, RequestsTyped
  <1> QED BY <1>1, <1>2, <1>3, KindsTyped

LEMMA ReadsTyped ==
  ASSUME PagesTyped, NEW c \in Tab, Reads(c)
  PROVE  PagesTyped'
  <1>1. /\ RequestsTyped' /\ client[c] \in PageRequest /\ PageRight(client[c])
    BY ReadsTurn
  <1>2. client[c].without \subseteq Post /\ client[c].ids \in Seq(Post) /\ Distinct(client[c].ids)
        /\ client[c].at \in Pages!Start
    BY <1>1, PageOf DEF PageRight
  <1>3. UNCHANGED <<order, gone, hides, forgotten, amiss>>
    BY DEF Reads
  <1>4. ASSUME \/ ToLook(c) \/ ToMembers(c) \/ ToRank(c) \/ ToNothing(c) \/ ToCut(c) \/ ToEnd(c)
        PROVE  PagesTyped'
    <2>1. Untouched
      BY <1>4 DEF ToLook, ToMembers, ToRank, ToNothing, ToCut, ToEnd
    <2> QED BY <1>1, <1>3, <2>1 DEF Untouched, PagesTyped, CachesTyped
  <1>5. CASE ToLoad(c)
    BY <1>1, <1>3, <1>5 DEF ToLoad, PagesTyped, CachesTyped, SettledUnless, Pages!Unsettle
  <1>6. CASE ToPutBack(c)
    BY <1>1, <1>2, <1>3, <1>6 DEF ToPutBack, PagesTyped, CachesTyped, SettledUnless, Pages!Unsettle
  <1>7. CASE ToAdd(c)
    <2>1. DOMAIN rank' \subseteq Post /\ \A n \in DOMAIN rank' : rank'[n] \in Nat
      BY <1>2, <1>7, AddedTyped DEF ToAdd, PagesTyped, CachesTyped
    <2> QED BY <1>1, <1>3, <1>7, <2>1 DEF ToAdd, PagesTyped, CachesTyped
  <1>8. CASE ToFill(c)
    BY <1>1, <1>3, <1>8 DEF ToFill, PagesTyped, CachesTyped, Pages!Unsettle
  <1>9. CASE ToCached(c)
    <2>1. walk' \in [Tab -> WalkRecord]
      BY <1>9, AnswersTyped DEF ToCached
    <2> QED BY <1>1, <1>3, <1>9, <2>1 DEF ToCached, PagesTyped, CachesTyped
  <1>10. CASE ToCache(c)
    <2> DEFINE page == [notes |-> client[c].ids, next |-> client[c].next]
    <2>1. Answers(c, page) /\ raw' \in {raw, [raw EXCEPT ![client[c].at] = page]}
      BY <1>10 DEF ToCache
    <2>2. page \in Pages!Pages
      BY <2>1 DEF Answers
    <2>3. walk' \in [Tab -> WalkRecord]
      BY <2>1, AnswersTyped
    <2> HIDE DEF page
    <2>4. raw' \in [Pages!Start -> {Pages!NoPage} \cup Pages!Pages]
      BY <1>2, <2>1, <2>2 DEF PagesTyped, CachesTyped
    <2> QED BY <1>1, <1>3, <1>10, <2>3, <2>4 DEF ToCache, PagesTyped, CachesTyped
  <1> QED BY <1>4, <1>5, <1>6, <1>7, <1>8, <1>9, <1>10 DEF Reads
-----------------------------------------------------------------------------
NewRequest(c, r) ==
  /\ client[c] = Pages!Idle /\ client' = [client EXCEPT ![c] = r]

LEMMA RequestMade ==
  ASSUME PagesTyped, NEW c \in Tab, NEW r \in PageRequest \cup HideRequest \cup UndoRequest,
         NewRequest(c, r), r \in PageRequest => PageRight(r)
  PROVE  /\ RequestsTyped' /\ client'[c] = r
         /\ \A d \in Tab \ {c} : client'[d] = client[d]
  <1>1. client'[c] = r /\ \A d \in Tab \ {c} : client'[d] = client[d]
    BY DEF PagesTyped, RequestsTyped, NewRequest
  <1>2. client' \in [Tab -> {Pages!Idle} \cup PageRequest \cup HideRequest \cup UndoRequest]
    BY DEF PagesTyped, RequestsTyped, NewRequest
  <1>3. ASSUME NEW d \in Tab, client'[d] \in PageRequest PROVE PageRight(client'[d])
    <2>1. CASE d = c
      BY <1>1, <1>3, <2>1
    <2>2. CASE d # c
      BY <1>1, <1>3, <2>2 DEF PagesTyped, RequestsTyped
    <2> QED BY <2>1, <2>2
  <1>4. RequestsTyped'
    BY <1>2, <1>3 DEF RequestsTyped, PageRight
  <1> QED BY <1>1, <1>4

FirstCall(at) ==
  [op |-> "page", at |-> at, ids |-> <<>>, next |-> 0, without |-> {}, todo |-> <<"getRaw">>]

LEMMA ListMade ==
  ASSUME PagesTyped, NEW c \in Tab, NEW at \in Pages!Start, Pages!List(c, at)
  PROVE  /\ NewRequest(c, FirstCall(at)) /\ RequestsTyped' /\ client'[c] = FirstCall(at)
         /\ FirstCall(at) \in PageRequest /\ FirstCall(at).at = at
         /\ Head(FirstCall(at).todo) = "getRaw"
         /\ \A d \in Tab \ {c} : client'[d] = client[d]
  <1>1. FirstCall(at) \in PageRequest /\ FirstCall(at).at = at /\ FirstCall(at).ids = <<>>
        /\ FirstCall(at).next = 0 /\ FirstCall(at).todo = <<"getRaw">>
    <2>1. <<"getRaw">> \in PageTodo /\ <<>> \in Seq(Post) /\ {} \in SUBSET Post /\ 0 \in Pages!Start
      BY StartsAt DEF PageTodo
    <2> QED BY <2>1 DEF FirstCall, PageRequest
  <1>2. Head(FirstCall(at).todo) = "getRaw"
    BY <1>1
  <1>3. PageRight(FirstCall(at))
    BY <1>1, <1>2 DEF PageRight, Distinct
  <1>4. NewRequest(c, FirstCall(at))
    BY DEF Pages!List, NewRequest, FirstCall, Pages!Calls
  <1> QED BY <1>1, <1>2, <1>3, <1>4, RequestMade

LEMMA ListTyped ==
  ASSUME PagesTyped, NEW c \in Tab, NEW at \in Pages!Start, Pages!List(c, at)
  PROVE  PagesTyped'
  <1>1. RequestsTyped'
    BY ListMade
  <1>2. walk' \in [Tab -> WalkRecord]
    <2> DEFINE w == [seen |-> <<>>, next |-> 0, over |-> FALSE]
    <2>1. w \in WalkRecord
      BY StartsAt DEF WalkRecord
    <2> HIDE DEF w
    <2>2. walk' = walk \/ walk' = [walk EXCEPT ![c] = w]
      BY DEF Pages!List, w
    <2> QED BY <2>1, <2>2 DEF PagesTyped
  <1>3. settled' \in BOOLEAN /\ quiet' \subseteq Tab
    BY DEF Pages!List, PagesTyped
  <1>4. amiss' \in BOOLEAN
    BY DEF Pages!List, Pages!Overlap
  <1> QED BY <1>1, <1>2, <1>3, <1>4 DEF Pages!List, PagesTyped, CachesTyped, Pages!redis

\* A sequence in two parts.
LEMMA TwoAndThree ==
  ASSUME NEW a, NEW b, NEW c, NEW d, NEW e
  PROVE  Joined(<<a, b>>, <<c, d, e>>) = <<a, b, c, d, e>>
  <1> DEFINE S == {a, b, c, d, e}
             s == <<a, b>>
             t == <<c, d, e>>
             u == <<a, b, c, d, e>>
             v == s \o t
  <1>1. s \in Seq(S) /\ t \in Seq(S) /\ u \in Seq(S) /\ Len(s) = 2 /\ Len(t) = 3 /\ Len(u) = 5
    OBVIOUS
  <1>2. /\ s[1] = a /\ s[2] = b /\ t[1] = c /\ t[2] = d /\ t[3] = e
        /\ u[1] = a /\ u[2] = b /\ u[3] = c /\ u[4] = d /\ u[5] = e
    OBVIOUS
  <1> HIDE DEF S, s, t, u
  <1>3. v \in Seq(S) /\ Len(v) = 5 /\ \A i \in 1..5 : v[i] = IF i <= 2 THEN s[i] ELSE t[i - 2]
    <2>1. /\ v \in Seq(S) /\ Len(v) = Len(s) + Len(t)
          /\ \A i \in 1..(Len(s) + Len(t)) : v[i] = IF i <= Len(s) THEN s[i] ELSE t[i - Len(s)]
      BY <1>1, ConcatProperties
    <2> HIDE DEF v
    <2> QED BY <1>1, <2>1
  <1> HIDE DEF v
  <1>4. v[1] = a /\ v[2] = b /\ v[3] = c /\ v[4] = d /\ v[5] = e
    BY <1>2, <1>3
  <1>5. \A i \in 1..5 : i = 1 \/ i = 2 \/ i = 3 \/ i = 4 \/ i = 5
    OBVIOUS
  <1>6. \A i \in 1..5 : v[i] = u[i]
    BY <1>2, <1>4, <1>5
  <1>7. v = u
    <2>1. v = [i \in 1..5 |-> v[i]] /\ u = [i \in 1..5 |-> u[i]]
      BY <1>1, <1>3
    <2> QED BY <1>6, <2>1
  <1> QED BY <1>7 DEF v, s, t, u, Joined

ChangeMade(n, op) == [op |-> op, note |-> n, todo |-> Pages!Calls[op]]

LEMMA RequestChange ==
  ASSUME PagesTyped, NEW c \in Tab, NEW n \in Post, NEW op \in {"hide", "undo"},
         Pages!Request(c, op, n)
  PROVE  /\ NewRequest(c, ChangeMade(n, op)) /\ RequestsTyped' /\ client'[c] = ChangeMade(n, op)
         /\ \A d \in Tab \ {c} : client'[d] = client[d]
         /\ op = "hide" => /\ ChangeMade(n, op) \in HideRequest
                           /\ Head(ChangeMade(n, op).todo) = "addRow"
         /\ op = "undo" => /\ ChangeMade(n, op) \in UndoRequest
                           /\ Head(ChangeMade(n, op).todo) = "removeRow"
  <1> DEFINE h1 == <<"addRow", "sadd", "delHome", "delPages", "delRank">>
             u1 == <<"removeRow", "srem", "delHome", "delPages", "delRank">>
  <1>1. Pages!Calls["hide"] = h1 /\ Pages!Calls["undo"] = u1
    <2>1. Pages!Calls["hide"] = <<"addRow", "sadd">> \o <<"delHome", "delPages", "delRank">>
      BY DEF Pages!Calls, Pages!InvalidateFeedRawForUser
    <2>2. Pages!Calls["undo"] = <<"removeRow", "srem">> \o <<"delHome", "delPages", "delRank">>
      BY DEF Pages!Calls, Pages!InvalidateFeedRawForUser
    <2>3. Joined(<<"addRow", "sadd">>, <<"delHome", "delPages", "delRank">>) = h1
      BY TwoAndThree
    <2>4. Joined(<<"removeRow", "srem">>, <<"delHome", "delPages", "delRank">>) = u1
      BY TwoAndThree
    <2> QED BY <2>1, <2>2, <2>3, <2>4 DEF Joined
  <1>2. Head(h1) = "addRow" /\ Head(u1) = "removeRow"
    OBVIOUS
  <1>3. h1 \in HideTodo /\ u1 \in UndoTodo
    BY DEF HideTodo, UndoTodo
  <1> HIDE DEF h1, u1
  <1>4. op = "hide" => /\ ChangeMade(n, op) \in HideRequest
                       /\ Head(ChangeMade(n, op).todo) = "addRow"
    BY <1>1, <1>2, <1>3 DEF ChangeMade, HideRequest
  <1>5. op = "undo" => /\ ChangeMade(n, op) \in UndoRequest
                       /\ Head(ChangeMade(n, op).todo) = "removeRow"
    BY <1>1, <1>2, <1>3 DEF ChangeMade, UndoRequest
  <1>6. NewRequest(c, ChangeMade(n, op))
    BY DEF Pages!Request, NewRequest, ChangeMade
  <1>7. ChangeMade(n, op) \in HideRequest \cup UndoRequest
    BY <1>4, <1>5
  <1>8. ChangeMade(n, op) \notin PageRequest
    BY <1>7, ChangeOf
  <1> QED BY <1>4, <1>5, <1>6, <1>7, <1>8, RequestMade

LEMMA RequestTyped ==
  ASSUME PagesTyped, NEW c \in Tab, NEW n \in Post, NEW op \in {"hide", "undo"},
         Pages!Request(c, op, n)
  PROVE  PagesTyped'
  <1>1. RequestsTyped'
    BY RequestChange
  <1>2. amiss' \in BOOLEAN
    BY DEF Pages!Request, Pages!Overlap
  <1> QED BY <1>1, <1>2 DEF Pages!Request, PagesTyped, CachesTyped, Pages!redis, Pages!history

\* Keys that expire, and a feed that changes.
Drifts ==
  \/ \E p \in Pages!Start : Pages!ExpireRaw(p)
  \/ Pages!ExpireRank \/ Pages!ExpireHidden
  \/ \E o \in Orders, g \in Dropped : Pages!ChangeFeed(o, g)

LEMMA DriftsTyped ==
  ASSUME PagesTyped, Drifts
  PROVE  PagesTyped' /\ client' = client /\ walk' = walk
  <1>1. ASSUME NEW p \in Pages!Start, Pages!ExpireRaw(p)
        PROVE  PagesTyped' /\ client' = client /\ walk' = walk
    <2>1. raw' \in [Pages!Start -> {Pages!NoPage} \cup Pages!Pages]
      BY <1>1 DEF Pages!ExpireRaw, PagesTyped, CachesTyped
    <2> QED BY <1>1, <2>1
        DEF Pages!ExpireRaw, PagesTyped, RequestsTyped, PageRight, CachesTyped, Pages!history
  <1>2. CASE Pages!ExpireRank
    <2>1. DOMAIN rank' = {}
      BY <1>2 DEF Pages!ExpireRank
    <2> QED BY <1>2, <2>1
        DEF Pages!ExpireRank, PagesTyped, RequestsTyped, PageRight, CachesTyped, Pages!history
  <1>3. CASE Pages!ExpireHidden
    BY <1>3 DEF Pages!ExpireHidden, Pages!Unsettle, PagesTyped, RequestsTyped, PageRight, CachesTyped
  <1>4. ASSUME NEW o \in Orders, NEW g \in Dropped, Pages!ChangeFeed(o, g)
        PROVE  PagesTyped' /\ client' = client /\ walk' = walk
    BY <1>4 DEF Pages!ChangeFeed, Pages!Unsettle, PagesTyped, RequestsTyped, PageRight, CachesTyped,
                Pages!redis
  <1> QED BY <1>1, <1>2, <1>3, <1>4 DEF Drifts

LEMMA PagesStart == Pages!Init => PagesTyped
  <1> SUFFICES ASSUME Pages!Init PROVE PagesTyped
    OBVIOUS
  <1>1. [seen |-> <<>>, next |-> 0, over |-> TRUE] \in WalkRecord
    BY StartsAt DEF WalkRecord
  <1>2. Pages!Idle \notin PageRequest
    BY PageOf
  <1>3. RequestsTyped
    BY <1>2 DEF Pages!Init, RequestsTyped
  <1>4. CachesTyped
    <2>1. DOMAIN rank = {}
      BY DEF Pages!Init
    <2> QED BY <2>1 DEF Pages!Init, CachesTyped
  <1> QED BY <1>1, <1>3, <1>4, PagesAssumption DEF Pages!Init, PagesTyped

\* The steps of the pages, as the proofs take them.
LEMMA PagesSteps ==
  ASSUME PagesTyped, Pages!Next
  PROVE  \/ \E c \in Tab :
              \/ \E at \in Pages!Start : Pages!List(c, at)
              \/ \E n \in Post, op \in {"hide", "undo"} : Pages!Request(c, op, n)
              \/ Reads(c) \/ Changes(c)
         \/ Drifts
  <1>1. CASE Drifts
    BY <1>1
  <1>2. ASSUME NEW c \in Tab,
               \/ \E at \in Pages!Start : Pages!List(c, at)
               \/ \E n \in Post : Pages!Hide(c, n) \/ Pages!UndoHide(c, n)
               \/ Pages!GetRaw(c) \/ Pages!GetRank(c) \/ Pages!Members(c)
               \/ Pages!GetHiddenNoteIDs(c) \/ Pages!AddHidden(c)
               \/ Pages!Rebuild(c) \/ Pages!ZAddRank(c) \/ Pages!Fill(c) \/ Pages!SetRaw(c)
               \/ Pages!AddFeedHide(c) \/ Pages!RemoveFeedHide(c) \/ Pages!SAdd(c) \/ Pages!SRem(c)
               \/ Pages!DeleteHome(c) \/ Pages!DeletePages(c) \/ Pages!DeleteRank(c)
               \/ Pages!Fail(c)
        PROVE  \/ \E at \in Pages!Start : Pages!List(c, at)
               \/ \E n \in Post, op \in {"hide", "undo"} : Pages!Request(c, op, n)
               \/ Reads(c) \/ Changes(c)
    <2>1. \A n \in Post : Pages!Hide(c, n) \/ Pages!UndoHide(c, n) =>
                            \E op \in {"hide", "undo"} : Pages!Request(c, op, n)
      BY DEF Pages!Hide, Pages!UndoHide
    <2>2. CASE Pages!GetRaw(c) \/ Pages!GetRank(c) \/ Pages!Members(c) \/ Pages!GetHiddenNoteIDs(c)
      BY <2>2, GetRawReads, GetRankReads, MembersReads, GetHiddenReads
    <2>3. CASE Pages!AddHidden(c) \/ Pages!Rebuild(c) \/ Pages!ZAddRank(c) \/ Pages!Fill(c) \/ Pages!SetRaw(c)
      BY <2>3, AddHiddenReads, RebuildReads, ZAddReads, FillReads, SetRawReads
    <2>4. CASE \/ Pages!AddFeedHide(c) \/ Pages!RemoveFeedHide(c) \/ Pages!SAdd(c) \/ Pages!SRem(c)
               \/ Pages!DeleteHome(c) \/ Pages!DeletePages(c) \/ Pages!DeleteRank(c)
      BY <2>4 DEF Changes
    <2>5. CASE Pages!Fail(c)
      BY <2>5, FailDoes DEF Changes
    <2> QED BY <1>2, <2>1, <2>2, <2>3, <2>4, <2>5
  <1> QED BY <1>1, <1>2 DEF Pages!Next, Drifts

LEMMA PagesTypedStep == ASSUME PagesTyped, [Pages!Next]_(Pages!vars) PROVE PagesTyped'
  <1>1. CASE UNCHANGED Pages!vars
    BY <1>1 DEF Pages!vars, Pages!redis, Pages!history, PagesTyped, RequestsTyped, PageRight, CachesTyped
  <1>2. CASE Pages!Next
    BY <1>2, PagesSteps, ListTyped, RequestTyped, ReadsTyped, ChangesTyped, DriftsTyped
  <1> QED BY <1>1, <1>2
-----------------------------------------------------------------------------
(***************************************************************************)
(* Hidden notes.  Hides are made one at a time; a note that is hidden, and *)
(* whose set has not expired, is in the set, out of what is cached and out *)
(* of what is being read, but for what its hide has still to delete.       *)
(***************************************************************************)
HidingAt(n, calls) ==
  \E c \in Tab : client[c] \in HideRequest /\ client[c].note = n /\ Head(client[c].todo) \in calls

ChangesAlone ==
  \A c \in Tab : client[c] \in ChangeRequest => \A d \in Tab \ {c} : client[d] = Pages!Idle

HidesKept ==
  /\ \A n \in hides \ forgotten : n \in hidden \/ HidingAt(n, {"sadd"})
  /\ \A c \in Tab : client[c] \in UndoRequest /\ Head(client[c].todo) # "removeRow" =>
                      client[c].note \notin hides

OutOf(n, r) ==
  /\ Head(r.todo) \in {"addHidden", "rebuild"} => n \in r.without
  /\ Head(r.todo) \in {"zadd", "fill", "setRaw"} => n \notin Pages!ToSet(r.ids)

OutOfRank(n) == n \in DOMAIN rank => HidingAt(n, {"sadd", "delHome", "delPages", "delRank"})
OutOfRaw(n) ==
  /\ n \in Pages!ToSet(raw[0].notes) => HidingAt(n, {"sadd", "delHome"})
  /\ \A p \in Pages!Start :
       n \in Pages!ToSet(raw[p].notes) => HidingAt(n, {"sadd", "delHome", "delPages"})
OutOfReads(n) == \A c \in Tab : client[c] \in PageRequest => OutOf(n, client[c])

HidesOut == \A n \in hides \ forgotten : OutOfRank(n) /\ OutOfRaw(n) /\ OutOfReads(n)

HidesRight == ~amiss => ChangesAlone /\ HidesKept /\ HidesOut
-----------------------------------------------------------------------------
\* Who reads does so while nobody hides.
LEMMA ReadsAlone ==
  ASSUME ChangesAlone, NEW c \in Tab, client[c] \in PageRequest
  PROVE  /\ \A d \in Tab : client[d] \notin ChangeRequest
         /\ \A n, calls : ~HidingAt(n, calls)
  <1>1. ASSUME NEW d \in Tab, client[d] \in ChangeRequest PROVE FALSE
    <2>1. d # c
      BY <1>1, ChangeOf DEF ChangeRequest
    <2>2. client[c] = Pages!Idle
      BY <1>1, <2>1 DEF ChangesAlone
    <2> QED BY <2>2, PageOf
  <1> QED BY <1>1 DEF HidingAt, ChangeRequest

LEMMA NothingShown == Pages!NoPage.notes = <<>> /\ Pages!ToSet(<<>>) = {}
  BY DEF Pages!NoPage, Pages!ToSet

LEMMA SliceFrom ==
  ASSUME NEW s \in Seq(Post), NEW p \in Nat
  PROVE  Pages!ToSet(Slice(s, p)) \subseteq Pages!ToSet(s)
  <1> DEFINE t == Slice(s, p)
  <1>1. t \in Seq(Post) /\ \A i \in 1..Len(t) : p + i \in 1..Len(s) /\ t[i] = s[p + i]
    BY SliceOf
  <1> HIDE DEF t
  <1>2. Pages!ToSet(t) = {t[i] : i \in 1..Len(t)} /\ Pages!ToSet(s) = {s[i] : i \in 1..Len(s)}
    BY <1>1, ToSetOf
  <1> QED BY <1>1, <1>2 DEF t

\* What is cut from a sequence is of it.
LEMMA CutsFrom ==
  ASSUME PagesTyped, NEW c \in Tab, NEW x, NEW s, Cuts(c, x, s)
  PROVE  /\ x \in PageRequest /\ Pages!ToSet(x.ids) \subseteq Pages!ToSet(s)
         /\ Head(x.todo) \in {"fill", "setRaw"}
  <1>1. client[c].at \in Nat /\ s \in Seq(Post)
    BY PageOf, StartsAt DEF Cuts, Turned
  <1>2. Head(<<"fill", "setRaw">>) = "fill" /\ Head(<<"setRaw">>) = "setRaw"
    OBVIOUS
  <1> QED BY <1>1, <1>2, SliceFrom, NothingShown DEF Cuts, Fields

LEMMA ReadsHidden ==
  ASSUME PagesTyped, HidesRight, NEW c \in Tab, Reads(c)
  PROVE  HidesRight'
  <1> SUFFICES ASSUME ~amiss' PROVE ChangesAlone' /\ HidesKept' /\ HidesOut'
    BY DEF HidesRight
  <1> DEFINE r == client[c]
  <1>1. UNCHANGED <<order, gone, hides, forgotten, amiss>>
    BY DEF Reads
  <1>2. ChangesAlone /\ HidesKept /\ HidesOut
    BY <1>1 DEF HidesRight
  <1>3. r \in PageRequest /\ \A d \in Tab \ {c} : client'[d] = client[d]
    BY ReadsTurn
  <1>4. (\A d \in Tab : client[d] \notin ChangeRequest) /\ (\A n, calls : ~HidingAt(n, calls))
    BY <1>2, <1>3, ReadsAlone
  <1>5. PagesTyped'
    BY ReadsTyped
  <1>6. r.at \in Pages!Start /\ r.at \in Nat /\ r.ids \in Seq(Post) /\ Distinct(r.ids) /\ PageRight(r)
    BY <1>3, PageOf, StartsAt DEF PagesTyped, RequestsTyped, PageRight
  <1>7. ASSUME NEW n \in hides \ forgotten
        PROVE  /\ n \in hidden /\ n \notin DOMAIN rank
               /\ \A p \in Pages!Start : n \notin Pages!ToSet(raw[p].notes)
               /\ OutOf(n, r) /\ OutOfReads(n)
    BY <1>2, <1>3, <1>4 DEF HidesKept, HidesOut, OutOfRank, OutOfRaw, OutOfReads
  \* It is enough to know what becomes of the request and of the caches.
  <1>8. ASSUME NEW x, client'[c] = x,
               x = Pages!Idle \/ (x \in PageRequest /\ \A n \in hides \ forgotten : OutOf(n, x)),
               hidden \subseteq hidden',
               \A n \in hides \ forgotten :
                 /\ n \notin DOMAIN rank'
                 /\ \A p \in Pages!Start : n \notin Pages!ToSet(raw'[p].notes)
        PROVE  ChangesAlone' /\ HidesKept' /\ HidesOut'
    <2>1. \A d \in Tab : client'[d] \notin ChangeRequest
      BY <1>3, <1>4, <1>8, PageOf, ChangeOf DEF ChangeRequest
    <2>2. ChangesAlone'
      BY <2>1 DEF ChangesAlone
    <2>3. HidesKept'
      BY <1>1, <1>7, <1>8, <2>1 DEF HidesKept, ChangeRequest
    <2>4. ASSUME NEW n \in hides \ forgotten PROVE OutOfReads(n)'
      <3> SUFFICES ASSUME NEW d \in Tab, client'[d] \in PageRequest PROVE OutOf(n, client'[d])
        BY DEF OutOfReads, OutOf
      <3>1. CASE d = c
        BY <1>8, <3>1, PageOf
      <3>2. CASE d # c
        BY <1>3, <1>7, <3>2 DEF OutOfReads
      <3> QED BY <3>1, <3>2
    <2>5. HidesOut'
      BY <1>1, <1>8, <2>4, StartsAt DEF HidesOut, OutOfRank, OutOfRaw
    <2> QED BY <2>2, <2>3, <2>5
  <1>9. ASSUME NEW x, Looks(c, x)
        PROVE  client'[c] = x /\ x \in PageRequest /\ \A n \in hides \ forgotten : OutOf(n, x)
    <2>1. client'[c] = x
      BY <1>9, KindsTyped
    <2>2. PICK todo \in {<<"getRank">>, <<"members">>, <<"loadHidden">>} :
            Fields(x, r, r.ids, r.next, r.without, todo)
      BY <1>9 DEF Looks
    <2>3. Head(todo) \notin {"addHidden", "rebuild", "zadd", "fill", "setRaw"}
      BY <2>2
    <2> QED BY <2>1, <2>2, <2>3 DEF Fields, OutOf
  <1>10. ASSUME NEW T \in SUBSET Post, NEW x, Knows(c, x, T), hides \ forgotten \subseteq T
         PROVE  client'[c] = x /\ x \in PageRequest /\ \A n \in hides \ forgotten : OutOf(n, x)
    <2>1. client'[c] = x
      BY <1>10, KindsTyped
    <2>2. PICK todo \in {<<"rebuild">>, <<"addHidden", "rebuild">>} :
            Fields(x, r, r.ids, r.next, T, todo)
      BY <1>10 DEF Knows
    <2>3. Head(todo) \notin {"zadd", "fill", "setRaw"}
      BY <2>2
    <2> QED BY <1>10, <2>1, <2>2, <2>3 DEF Fields, OutOf
  <1>11. ASSUME NEW s, NEW x, Cuts(c, x, s), \A n \in hides \ forgotten : n \notin Pages!ToSet(s)
         PROVE  client'[c] = x /\ x \in PageRequest /\ \A n \in hides \ forgotten : OutOf(n, x)
    <2>1. client'[c] = x
      BY <1>11, KindsTyped
    <2> QED BY <1>11, <2>1, CutsFrom DEF OutOf
  <1>12. CASE ToLook(c)
    BY <1>7, <1>8, <1>9, <1>12 DEF ToLook, Untouched
  <1>13. CASE ToMembers(c)
    <2>1. hidden \in SUBSET Post /\ hides \ forgotten \subseteq hidden
      BY <1>7 DEF PagesTyped
    <2> QED BY <1>7, <1>8, <1>10, <1>13, <2>1 DEF ToMembers, Untouched
  <1>14. CASE ToLoad(c)
    <2>1. hides \in SUBSET Post /\ hides \ forgotten \subseteq hides
      BY DEF PagesTyped
    <2> QED BY <1>7, <1>8, <1>10, <1>14, <2>1 DEF ToLoad
  <1>15. CASE ToPutBack(c)
    <2>1. r.without \in SUBSET Post
      BY <1>3, PageOf
    <2>2. Head(r.todo) = "addHidden"
      BY <1>15 DEF ToPutBack
    <2>3. hides \ forgotten \subseteq r.without
      BY <1>7, <2>2 DEF OutOf
    <2> QED BY <1>7, <1>8, <1>10, <1>15, <2>1, <2>3 DEF ToPutBack
  <1>16. CASE ToRank(c)
    <2>1. PICK x : Ranks(c, x) /\ Untouched
      BY <1>16 DEF ToRank
    <2> DEFINE w == Pages!Without(order, r.without)
    <2>2. client'[c] = x /\ x \in PageRequest /\ x.ids = w /\ x.todo = <<"zadd">>
      BY <2>1, KindsTyped DEF Ranks, Fields
    <2>3. \A n \in hides \ forgotten : n \in r.without
      BY <1>7, <2>1 DEF Ranks, OutOf
    <2>4. order \in Seq(Post)
      BY PagesAssumption DEF PagesTyped
    <2>5. \A i \in DOMAIN w : w[i] \notin r.without
      BY <2>4, WithoutOf
    <2>6. \A n \in hides \ forgotten : n \notin Pages!ToSet(w)
      BY <2>3, <2>5 DEF Pages!ToSet
    <2>7. Head(x.todo) = "zadd"
      BY <2>2
    <2>8. \A n \in hides \ forgotten : OutOf(n, x)
      BY <2>2, <2>6, <2>7 DEF OutOf
    <2> QED BY <1>7, <1>8, <2>1, <2>2, <2>8 DEF Untouched
  <1>17. CASE ToNothing(c)
    BY <1>7, <1>8, <1>11, <1>17, NothingShown DEF ToNothing, Untouched
  <1>18. CASE ToCut(c)
    <2>1. Pages!ToSet(Pages!Ranking) \subseteq DOMAIN rank
      <3>1. Scored
        BY DEF Scored, PagesTyped, CachesTyped
      <3>2. Pages!Ranking \in Seq(DOMAIN rank)
        BY <3>1, RankingOf
      <3> QED BY <3>2, ToSetOf
    <2>2. \A n \in hides \ forgotten : n \notin Pages!ToSet(Pages!Ranking)
      BY <1>7, <2>1
    <2> QED BY <1>7, <1>8, <1>11, <1>18, <2>2 DEF ToCut, Untouched
  <1>19. CASE ToAdd(c)
    <2>1. PICK x : Cuts(c, x, r.ids) /\ Head(r.todo) = "zadd"
      BY <1>19 DEF ToAdd
    <2>2. \A n \in hides \ forgotten : n \notin Pages!ToSet(r.ids)
      BY <1>7, <2>1 DEF OutOf
    <2>3. client'[c] = x /\ x \in PageRequest /\ \A n \in hides \ forgotten : OutOf(n, x)
      BY <1>11, <2>1, <2>2
    <2>4. DOMAIN Added(r.ids) = Pages!ToSet(r.ids) \cup DOMAIN rank
      BY DEF Added
    <2>5. \A n \in hides \ forgotten : n \notin DOMAIN rank'
      BY <1>7, <1>19, <2>2, <2>4 DEF ToAdd
    <2> QED BY <1>7, <1>8, <1>19, <2>3, <2>5 DEF ToAdd
  <1>20. CASE ToFill(c)
    <2>1. PICK x, shown : Fills(c, x, shown) /\ Pages!ToSet(shown) \subseteq Pages!ToSet(r.ids)
      BY <1>20 DEF ToFill
    <2>2. client'[c] = x /\ x \in PageRequest /\ x.ids = shown /\ x.todo = <<"setRaw">>
      BY <2>1, KindsTyped DEF Fills, Fields
    <2>3. Head(r.todo) = "fill" /\ Head(x.todo) = "setRaw"
      BY <2>1, <2>2 DEF Fills
    <2>4. \A n \in hides \ forgotten : OutOf(n, x)
      BY <1>7, <2>1, <2>2, <2>3 DEF OutOf
    <2> QED BY <1>7, <1>8, <1>20, <2>2, <2>4 DEF ToFill
  <1>21. CASE ToCached(c)
    <2>1. client'[c] = Pages!Idle
      BY <1>21, KindsTyped DEF ToCached, Answers
    <2> QED BY <1>7, <1>8, <1>21, <2>1 DEF ToCached
  <1>22. CASE ToCache(c)
    <2> DEFINE page == [notes |-> r.ids, next |-> r.next]
    <2>1. client'[c] = Pages!Idle
      BY <1>22, KindsTyped DEF ToCache, Answers
    <2>2. \A n \in hides \ forgotten : n \notin Pages!ToSet(r.ids)
      BY <1>7, <1>22 DEF ToCache, OutOf
    <2>3. raw' = raw \/ raw' = [raw EXCEPT ![r.at] = page]
      BY <1>22 DEF ToCache
    <2>4. page.notes = r.ids
      OBVIOUS
    <2> HIDE DEF page
    <2>5. ASSUME NEW n \in hides \ forgotten, NEW p \in Pages!Start
          PROVE  n \notin Pages!ToSet(raw'[p].notes)
      <3>1. raw'[p] = raw[p] \/ raw'[p] = page
        BY <2>3 DEF PagesTyped, CachesTyped
      <3> QED BY <1>7, <2>2, <2>4, <3>1
    <2> QED BY <1>7, <1>8, <1>22, <2>1, <2>5 DEF ToCache
  <1>23. CASE ToEnd(c)
    <2>1. client'[c] = Pages!Idle
      BY <1>23, KindsTyped DEF ToEnd
    <2> QED BY <1>7, <1>8, <1>23, <2>1 DEF ToEnd, Untouched
  <1> QED BY <1>12, <1>13, <1>14, <1>15, <1>16, <1>17, <1>18, <1>19, <1>20, <1>21, <1>22, <1>23
      DEF Reads
-----------------------------------------------------------------------------
\* Nobody hides, and nothing that is hidden is cached or read.
Clear ==
  /\ \A n \in hides \ forgotten :
       /\ n \in hidden /\ n \notin DOMAIN rank
       /\ \A p \in Pages!Start : n \notin Pages!ToSet(raw[p].notes)
       /\ OutOfReads(n)

LEMMA ClearWithout ==
  ASSUME HidesKept, HidesOut, \A n, calls : ~HidingAt(n, calls)
  PROVE  Clear
  BY DEF HidesKept, HidesOut, OutOfRank, OutOfRaw, Clear

LEMMA ListHidden ==
  ASSUME PagesTyped, HidesRight, NEW c \in Tab, NEW at \in Pages!Start, Pages!List(c, at)
  PROVE  HidesRight'
  <1> SUFFICES ASSUME ~amiss' PROVE HidesRight'
    BY DEF HidesRight
  <1> DEFINE x == FirstCall(at)
  <1>1. /\ client'[c] = x /\ x \in PageRequest /\ Head(x.todo) = "getRaw"
        /\ \A d \in Tab \ {c} : client'[d] = client[d]
    BY ListMade
  <1>2. ~amiss /\ \A d \in Tab : client[d] # Pages!Idle => client[d].op = "page"
    BY DEF Pages!List, Pages!Overlap, Pages!Active
  <1>3. \A d \in Tab : client[d] \notin ChangeRequest
    BY <1>2, ChangeOf DEF ChangeRequest
  <1>4. Clear
    BY <1>2, <1>3, ClearWithout DEF HidesRight, HidingAt, ChangeRequest
  <1>5. \A d \in Tab : client'[d] \notin ChangeRequest
    BY <1>1, <1>3, PageOf DEF ChangeRequest
  <1>6. ASSUME NEW n, OutOfReads(n) PROVE OutOfReads(n)'
    <2> SUFFICES ASSUME NEW d \in Tab, client'[d] \in PageRequest PROVE OutOf(n, client'[d])
      BY DEF OutOfReads, OutOf
    <2>1. CASE d = c
      BY <1>1, <2>1 DEF OutOf
    <2>2. CASE d # c
      BY <1>1, <1>6, <2>2 DEF OutOfReads
    <2> QED BY <2>1, <2>2
  <1>7. UNCHANGED <<hides, forgotten, hidden, rank, raw>>
    BY DEF Pages!List, Pages!redis
  <1>8. Clear'
    BY <1>4, <1>6, <1>7 DEF Clear
  <1>9. ChangesAlone' /\ \A d \in Tab : client'[d] \notin UndoRequest
    BY <1>5 DEF ChangesAlone, ChangeRequest
  <1> QED BY <1>8, <1>9, StartsAt
      DEF Clear, HidesRight, HidesKept, HidesOut, OutOfRank, OutOfRaw

LEMMA RequestHidden ==
  ASSUME PagesTyped, HidesRight, NEW c \in Tab, NEW n \in Post, NEW op \in {"hide", "undo"},
         Pages!Request(c, op, n)
  PROVE  HidesRight'
  <1> SUFFICES ASSUME ~amiss' PROVE HidesRight'
    BY DEF HidesRight
  <1> DEFINE x == ChangeMade(n, op)
  <1>1. /\ client'[c] = x /\ x \in ChangeRequest
        /\ x \in UndoRequest => Head(x.todo) = "removeRow"
        /\ \A d \in Tab \ {c} : client'[d] = client[d]
    BY RequestChange, ChangeOf DEF ChangeRequest
  <1>2. ~amiss /\ \A d \in Tab : client[d] = Pages!Idle
    BY DEF Pages!Request, Pages!Overlap, Pages!Active
  <1>3. \A d \in Tab : client[d] \notin ChangeRequest
    BY <1>2, ChangeOf DEF ChangeRequest
  <1>4. Clear
    BY <1>2, <1>3, ClearWithout DEF HidesRight, HidingAt, ChangeRequest
  <1>5. \A d \in Tab : client'[d] \notin PageRequest /\ (d # c => client'[d] = Pages!Idle)
    BY <1>1, <1>2, ChangeOf, PageOf DEF ChangeRequest
  <1>6. UNCHANGED <<hides, forgotten, hidden, rank, raw>>
    BY DEF Pages!Request, Pages!redis, Pages!history
  <1>7. Clear'
    BY <1>4, <1>5, <1>6 DEF Clear, OutOfReads
  <1>8. ChangesAlone'
    BY <1>5, ChangeOf DEF ChangesAlone, ChangeRequest
  <1>9. \A d \in Tab : client'[d] \in UndoRequest => Head(client'[d].todo) = "removeRow"
    BY <1>1, <1>5, ChangeOf
  <1> QED BY <1>7, <1>8, <1>9, StartsAt
      DEF Clear, HidesRight, HidesKept, HidesOut, OutOfRank, OutOfRaw

\* While a note is hidden or shown again, that is all that goes on.
LEMMA OneChange ==
  ASSUME PagesTyped, ChangesAlone, NEW c \in Tab, client[c] \in ChangeRequest
  PROVE  /\ \A d \in Tab \ {c} : client[d] = Pages!Idle
         /\ \A n, calls : HidingAt(n, calls) <=> /\ client[c] \in HideRequest /\ client[c].note = n
                                                 /\ Head(client[c].todo) \in calls
  <1>1. \A d \in Tab \ {c} : client[d] = Pages!Idle
    BY DEF ChangesAlone
  <1>2. Pages!Idle \notin HideRequest
    BY ChangeOf
  <1> QED BY <1>1, <1>2 DEF HidingAt

LEMMA ChangesHidden ==
  ASSUME PagesTyped, HidesRight, NEW c \in Tab, Changes(c)
  PROVE  HidesRight'
  <1> SUFFICES ASSUME ~amiss' PROVE ChangesAlone' /\ HidesKept' /\ HidesOut'
    BY DEF HidesRight
  <1> DEFINE r == client[c]
             x == client'[c]
  <1>1. /\ r \in ChangeRequest /\ x \in {Pages!Idle, Next1(r)}
        /\ \A d \in Tab \ {c} : client'[d] = client[d]
    BY ChangesTurn
  <1>2. ~Fails(c)
    BY DEF Fails
  <1>3. ~amiss
    BY <1>2 DEF Changes, Pages!AddFeedHide, Pages!RemoveFeedHide, Pages!SAdd, Pages!SRem,
                Pages!DeleteHome, Pages!DeletePages, Pages!DeleteRank
  <1>4. ChangesAlone /\ HidesKept /\ HidesOut
    BY <1>3 DEF HidesRight
  <1>5. /\ \A d \in Tab \ {c} : client[d] = Pages!Idle /\ client'[d] = Pages!Idle
        /\ \A n, calls : HidingAt(n, calls) <=> /\ r \in HideRequest /\ r.note = n
                                                /\ Head(r.todo) \in calls
    BY <1>1, <1>4, OneChange
  <1>6. x = Pages!Idle \/ x \in HideRequest \/ x \in UndoRequest
    BY <1>1, NextOf DEF ChangeRequest
  <1>7. ChangesAlone'
    BY <1>5, ChangeOf DEF ChangesAlone, ChangeRequest
  <1>8. \A n : OutOfReads(n)'
    <2>1. \A d \in Tab : client'[d] \notin PageRequest
      BY <1>5, <1>6, PageOf, ChangeOf
    <2> QED BY <2>1 DEF OutOfReads
  <1>9. \A n, calls : x \in HideRequest /\ x.note = n /\ Head(x.todo) \in calls => HidingAt(n, calls)'
    BY DEF HidingAt
  <1>10. ASSUME (x \in UndoRequest /\ Head(x.todo) # "removeRow" => x.note \notin hides')
         PROVE  \A d \in Tab : client'[d] \in UndoRequest /\ Head(client'[d].todo) # "removeRow" =>
                                 client'[d].note \notin hides'
    BY <1>5, <1>10, ChangeOf
  <1>11. r.note \in Post /\ Pages!Idle \notin UndoRequest
    BY <1>1, ChangeOf DEF ChangeRequest
  <1>12. CASE Pages!AddFeedHide(c)
    <2>1. r \in HideRequest /\ Head(r.todo) = "addRow"
      BY <1>12, AtChange DEF Pages!AddFeedHide, ChangeCall
    <2>2. \A n \in hides \ forgotten :
            /\ n \in hidden /\ n \notin DOMAIN rank
            /\ n \notin Pages!ToSet(raw[0].notes)
            /\ \A p \in Pages!Start : n \notin Pages!ToSet(raw[p].notes)
      BY <1>4, <1>5, <2>1 DEF HidesKept, HidesOut, OutOfRank, OutOfRaw
    <2>3. UNCHANGED <<hidden, rank, raw, forgotten>>
      BY <1>12 DEF Pages!AddFeedHide, Pages!redis, Pages!history
    <2>4. x \notin UndoRequest
      <3>1. Next1(r) \in HideRequest
        BY <1>1, <2>1, NextOf
      <3> QED BY <1>1, <1>11, <3>1, ChangeOf
    <2>5. CASE hides' = hides
      BY <1>7, <1>8, <1>10, <2>2, <2>3, <2>4, <2>5 DEF HidesKept, HidesOut, OutOfRank, OutOfRaw
    <2>6. CASE hides' = hides \cup {r.note} /\ Pages!Proceed(c)
      <3>1. x = Next1(r)
        BY <1>1, <2>6, Proceeds DEF Goes, PagesTyped, RequestsTyped
      <3>2. x \in HideRequest /\ x.note = r.note /\ Head(x.todo) = "sadd"
        BY <1>1, <2>1, <3>1, NextOf
      <3>4. ASSUME NEW n \in hides' \ forgotten'
            PROVE  /\ (n \in hidden \/ HidingAt(n, {"sadd"}))'
                   /\ OutOfRank(n)' /\ OutOfRaw(n)'
        <4>1. CASE n = r.note
          <5>1. /\ HidingAt(n, {"sadd"})' /\ HidingAt(n, {"sadd", "delHome"})'
                /\ HidingAt(n, {"sadd", "delHome", "delPages"})'
                /\ HidingAt(n, {"sadd", "delHome", "delPages", "delRank"})'
            BY <1>9, <3>2, <4>1
          <5> QED BY <5>1 DEF OutOfRank, OutOfRaw
        <4>2. CASE n # r.note
          <5>1. n \in hides \ forgotten
            BY <2>3, <2>6, <3>4, <4>2
          <5> QED BY <2>2, <2>3, <5>1 DEF OutOfRank, OutOfRaw
        <4> QED BY <4>1, <4>2
      <3> QED BY <1>7, <1>8, <1>10, <2>4, <3>4 DEF HidesKept, HidesOut
    <2> QED BY <1>12, <2>5, <2>6 DEF Pages!AddFeedHide
  <1>13. CASE Pages!RemoveFeedHide(c)
    <2>1. r \in UndoRequest /\ Head(r.todo) = "removeRow"
      BY <1>13, AtChange DEF Pages!RemoveFeedHide, ChangeCall
    <2>2. r \notin HideRequest
      BY <2>1, ChangeOf, ChangeTodos DEF Purges
    <2>3. UNCHANGED <<hidden, rank, raw, forgotten>> /\ hides' = hides \ {r.note} /\ Pages!Proceed(c)
      BY <1>13 DEF Pages!RemoveFeedHide, Pages!redis, Pages!history
    <2>4. x = Next1(r)
      BY <1>1, <2>3, Proceeds DEF Goes, PagesTyped, RequestsTyped
    <2>5. x.note = r.note
      BY <1>1, <2>1, <2>4, NextOf
    <2> QED BY <1>4, <1>5, <1>7, <1>8, <1>10, <2>2, <2>3, <2>5
        DEF HidesKept, HidesOut, OutOfRank, OutOfRaw
  <1>14. CASE Pages!SAdd(c)
    <2>1. r \in HideRequest /\ Head(r.todo) = "sadd"
      BY <1>14, AtChange DEF Pages!SAdd, ChangeCall
    <2>2. /\ hidden' = hidden \cup {r.note} /\ forgotten' = forgotten \ {r.note}
          /\ UNCHANGED <<hides, rank, raw>> /\ Pages!Proceed(c)
      BY <1>14 DEF Pages!SAdd
    <2>3. x = Next1(r)
      BY <1>1, <2>2, Proceeds DEF Goes, PagesTyped, RequestsTyped
    <2>4. x \in HideRequest /\ x.note = r.note /\ Head(x.todo) = "delHome" /\ x \notin UndoRequest
      BY <1>1, <2>1, <2>3, NextOf, ChangeOf, ChangeTodos DEF Purges
    <2>6. ASSUME NEW n \in hides' \ forgotten' PROVE n \in hidden' /\ OutOfRank(n)' /\ OutOfRaw(n)'
      <3>1. CASE n = r.note
        <4>1. /\ HidingAt(n, {"sadd", "delHome"})' /\ HidingAt(n, {"sadd", "delHome", "delPages"})'
              /\ HidingAt(n, {"sadd", "delHome", "delPages", "delRank"})'
          BY <1>9, <2>4, <3>1
        <4>2. n \in hidden'
          BY <2>2, <3>1
        <4> QED BY <4>1, <4>2 DEF OutOfRank, OutOfRaw
      <3>2. CASE n # r.note
        <4>1. n \in hides \ forgotten
          BY <2>2, <2>6, <3>2
        <4> QED BY <1>4, <1>5, <2>2, <3>2, <4>1 DEF HidesKept, HidesOut, OutOfRank, OutOfRaw
      <3> QED BY <3>1, <3>2
    <2> QED BY <1>7, <1>8, <1>10, <2>4, <2>6 DEF HidesKept, HidesOut
  <1>15. CASE Pages!SRem(c)
    <2>1. r \in UndoRequest /\ Head(r.todo) = "srem"
      BY <1>15, AtChange DEF Pages!SRem, ChangeCall
    <2>2. r \notin HideRequest
      BY <2>1, ChangeOf, ChangeTodos DEF Purges
    <2>3. UNCHANGED <<hides, rank, raw, forgotten>> /\ hidden' = hidden \ {r.note} /\ Pages!Proceed(c)
      BY <1>15 DEF Pages!SRem
    <2>4. x = Next1(r)
      BY <1>1, <2>3, Proceeds DEF Goes, PagesTyped, RequestsTyped
    <2>5. x.note = r.note
      BY <1>1, <2>1, <2>4, NextOf
    <2>6. r.note \notin hides
      BY <1>4, <2>1 DEF HidesKept
    <2> QED BY <1>4, <1>5, <1>7, <1>8, <1>10, <2>2, <2>3, <2>5, <2>6
        DEF HidesKept, HidesOut, OutOfRank, OutOfRaw
  \* Deleting keys: a hide goes on, and what it has deleted is not there.
  <1>16. ASSUME Pages!DeleteHome(c) \/ Pages!DeletePages(c) \/ Pages!DeleteRank(c)
         PROVE  /\ UNCHANGED <<hides, hidden, forgotten>> /\ x = Next1(r)
                /\ \A n \in hides \ forgotten : n \in hidden
                /\ (x \in UndoRequest /\ Head(x.todo) # "removeRow" => x.note \notin hides')
                /\ Head(r.todo) \in Purges
    <2>1. UNCHANGED <<hides, hidden, forgotten>> /\ Pages!Proceed(c)
      BY <1>16 DEF Pages!DeleteHome, Pages!DeletePages, Pages!DeleteRank, Pages!history
    <2>2. Head(r.todo) \in Purges
      BY <1>16, AtChange DEF Pages!DeleteHome, Pages!DeletePages, Pages!DeleteRank, ChangeCall, Purges
    <2>3. x = Next1(r)
      BY <1>1, <2>1, Proceeds DEF Goes, PagesTyped, RequestsTyped
    <2>4. \A n \in hides \ forgotten : n \in hidden
      BY <1>4, <1>5, <2>2 DEF HidesKept, Purges
    <2>5. ASSUME x \in UndoRequest PROVE x.note \notin hides'
      <3>1. r \in UndoRequest /\ x.note = r.note
        <4>1. x # Pages!Idle /\ x \notin HideRequest
          BY <2>5, ChangeOf, PageOf DEF HideRequest, UndoRequest
        <4>2. Head(r.todo) # "delRank"
          BY <1>1, <2>3, <4>1, NextOf
        <4> QED BY <1>1, <2>3, <4>1, <4>2, NextOf DEF ChangeRequest
      <3>2. r.note \notin hides
        BY <1>4, <2>2, <3>1 DEF HidesKept, Purges
      <3> QED BY <2>1, <3>1, <3>2
    <2> QED BY <2>1, <2>2, <2>3, <2>4, <2>5
  <1>17. CASE Pages!DeleteHome(c)
    <2>1. Head(r.todo) = "delHome" /\ raw' = [raw EXCEPT ![0] = Pages!NoPage] /\ rank' = rank
      BY <1>17, AtChange DEF Pages!DeleteHome, ChangeCall, Purges
    <2>2. Pages!ToSet(raw'[0].notes) = {} /\ \A p \in Pages!Start : p # 0 => raw'[p] = raw[p]
      BY <2>1, NothingShown, StartsAt DEF PagesTyped, CachesTyped
    <2>3. r \in HideRequest => x \in HideRequest /\ x.note = r.note /\ Head(x.todo) = "delPages"
      BY <1>1, <1>16, <1>17, <2>1, NextOf
    <2>4. ASSUME NEW n \in hides \ forgotten PROVE OutOfRank(n)' /\ OutOfRaw(n)'
      <3>1. r \in HideRequest /\ r.note = n => /\ HidingAt(n, {"sadd", "delHome", "delPages"})'
                                             /\ HidingAt(n, {"sadd", "delHome", "delPages", "delRank"})'
        BY <1>9, <2>3
      <3>2. OutOfRank(n)'
        BY <1>4, <1>5, <2>1, <3>1 DEF HidesOut, OutOfRank
      <3>3. OutOfRaw(n)'
        BY <1>4, <1>5, <2>2, <3>1 DEF HidesOut, OutOfRaw
      <3> QED BY <3>2, <3>3
    <2> QED BY <1>7, <1>8, <1>10, <1>16, <1>17, <2>4 DEF HidesKept, HidesOut
  <1>18. CASE Pages!DeletePages(c)
    <2>1. /\ Head(r.todo) = "delPages" /\ rank' = rank
          /\ raw' = [p \in Pages!Start |-> IF p = 0 THEN raw[0] ELSE Pages!NoPage]
      BY <1>18, AtChange DEF Pages!DeletePages, ChangeCall, Purges
    <2>2. raw'[0] = raw[0] /\ \A p \in Pages!Start : p # 0 => Pages!ToSet(raw'[p].notes) = {}
      BY <2>1, NothingShown, StartsAt
    <2>3. r \in HideRequest => x \in HideRequest /\ x.note = r.note /\ Head(x.todo) = "delRank"
      BY <1>1, <1>16, <1>18, <2>1, NextOf
    <2>4. ASSUME NEW n \in hides \ forgotten PROVE OutOfRank(n)' /\ OutOfRaw(n)'
      <3>1. r \in HideRequest /\ r.note = n => HidingAt(n, {"sadd", "delHome", "delPages", "delRank"})'
        BY <1>9, <2>3
      <3>2. OutOfRank(n)'
        BY <1>4, <1>5, <2>1, <3>1 DEF HidesOut, OutOfRank
      <3>3. n \notin Pages!ToSet(raw[0].notes)
        BY <1>4, <1>5, <2>1 DEF HidesOut, OutOfRaw
      <3>4. OutOfRaw(n)'
        BY <2>2, <3>3 DEF OutOfRaw
      <3> QED BY <3>2, <3>4
    <2> QED BY <1>7, <1>8, <1>10, <1>16, <1>18, <2>4 DEF HidesKept, HidesOut
  <1>19. CASE Pages!DeleteRank(c)
    <2>1. Head(r.todo) = "delRank" /\ raw' = raw /\ DOMAIN rank' = {}
      BY <1>19, AtChange DEF Pages!DeleteRank, ChangeCall, Purges
    <2>2. ASSUME NEW n \in hides \ forgotten PROVE OutOfRank(n)' /\ OutOfRaw(n)'
      <3>1. \A p \in Pages!Start : n \notin Pages!ToSet(raw[p].notes)
        BY <1>4, <1>5, <2>1 DEF HidesOut, OutOfRaw
      <3>2. n \notin Pages!ToSet(raw[0].notes)
        BY <1>4, <1>5, <2>1 DEF HidesOut, OutOfRaw
      <3> QED BY <2>1, <3>1, <3>2 DEF OutOfRank, OutOfRaw
    <2> QED BY <1>7, <1>8, <1>10, <1>16, <1>19, <2>2 DEF HidesKept, HidesOut
  <1> QED BY <1>2, <1>12, <1>13, <1>14, <1>15, <1>17, <1>18, <1>19 DEF Changes

LEMMA DriftsHidden ==
  ASSUME PagesTyped, HidesRight, Drifts
  PROVE  HidesRight'
  <1> SUFFICES ASSUME ~amiss' PROVE ChangesAlone' /\ HidesKept' /\ HidesOut'
    BY DEF HidesRight
  <1>1. client' = client
    BY DriftsTyped
  <1>2. amiss' = amiss /\ hides' = hides
    BY DEF Drifts, Pages!ExpireRaw, Pages!ExpireRank, Pages!ExpireHidden, Pages!ChangeFeed,
           Pages!history, Pages!redis
  <1>3. ChangesAlone /\ HidesKept /\ HidesOut
    BY <1>2 DEF HidesRight
  <1>4. ChangesAlone' /\ \A n, calls : HidingAt(n, calls)' <=> HidingAt(n, calls)
    BY <1>1, <1>3 DEF ChangesAlone, HidingAt
  <1>5. \A n : OutOfReads(n) => OutOfReads(n)'
    BY <1>1 DEF OutOfReads, OutOf
  <1>6. ASSUME \A n \in hides' \ forgotten' : n \in hides \ forgotten /\ (n \in hidden => n \in hidden'),
               \A n \in DOMAIN rank' : n \in DOMAIN rank,
               \A p \in Pages!Start : raw'[p] = raw[p] \/ Pages!ToSet(raw'[p].notes) = {}
        PROVE  HidesKept' /\ HidesOut'
    <2>1. HidesKept'
      BY <1>1, <1>2, <1>3, <1>4, <1>6 DEF HidesKept
    <2>2. ASSUME NEW n \in hides' \ forgotten' PROVE OutOfRank(n)' /\ OutOfRaw(n)' /\ OutOfReads(n)'
      <3>1. OutOfRank(n) /\ OutOfRaw(n) /\ OutOfReads(n)
        BY <1>3, <1>6, <2>2 DEF HidesOut
      <3>2. OutOfRank(n)'
        BY <1>4, <1>6, <3>1 DEF OutOfRank
      <3>3. OutOfRaw(n)'
        BY <1>4, <1>6, <3>1, StartsAt DEF OutOfRaw
      <3> QED BY <1>5, <3>1, <3>2, <3>3
    <2> QED BY <2>1, <2>2 DEF HidesOut
  <1>7. ASSUME NEW p \in Pages!Start, Pages!ExpireRaw(p) PROVE HidesKept' /\ HidesOut'
    <2>1. \A q \in Pages!Start : raw'[q] = raw[q] \/ Pages!ToSet(raw'[q].notes) = {}
      BY <1>7, NothingShown DEF Pages!ExpireRaw, PagesTyped, CachesTyped
    <2> QED BY <1>6, <1>7, <2>1 DEF Pages!ExpireRaw, Pages!history
  <1>8. CASE Pages!ExpireRank
    <2>1. DOMAIN rank' = {}
      BY <1>8 DEF Pages!ExpireRank
    <2> QED BY <1>4, <1>6, <1>8, <2>1 DEF Pages!ExpireRank, Pages!history
  <1>9. CASE Pages!ExpireHidden
    BY <1>4, <1>6, <1>9 DEF Pages!ExpireHidden
  <1>10. ASSUME NEW o \in Orders, NEW g \in Dropped, Pages!ChangeFeed(o, g) PROVE HidesKept' /\ HidesOut'
    BY <1>6, <1>10 DEF Pages!ChangeFeed, Pages!redis
  <1> QED BY <1>4, <1>7, <1>8, <1>9, <1>10 DEF Drifts

LEMMA HiddenStart == Pages!Init => HidesRight
  <1> SUFFICES ASSUME Pages!Init PROVE HidesRight
    OBVIOUS
  <1>1. hides = {} /\ \A c \in Tab : client[c] = Pages!Idle
    BY DEF Pages!Init
  <1>2. Pages!Idle \notin ChangeRequest
    BY ChangeOf DEF ChangeRequest
  <1> QED BY <1>1, <1>2 DEF HidesRight, ChangesAlone, HidesKept, HidesOut, ChangeRequest

LEMMA HiddenStep ==
  ASSUME PagesTyped, HidesRight, [Pages!Next]_(Pages!vars)
  PROVE  HidesRight'
  <1>1. CASE UNCHANGED Pages!vars
    BY <1>1 DEF Pages!vars, Pages!redis, Pages!history, HidesRight, ChangesAlone, HidesKept, HidesOut,
                OutOfRank, OutOfRaw, OutOfReads, OutOf, HidingAt
  <1>2. CASE Pages!Next
    BY <1>2, PagesSteps, ListHidden, RequestHidden, ReadsHidden, ChangesHidden, DriftsHidden
  <1> QED BY <1>1, <1>2

LEMMA HiddenHolds == ASSUME PagesTyped, HidesRight PROVE Pages!HiddenRespected
  <1> SUFFICES ASSUME Pages!Active = {}, ~amiss, NEW n \in hides \ forgotten
               PROVE  /\ n \notin DOMAIN rank
                      /\ \A p \in Pages!Start : n \notin Pages!ToSet(raw[p].notes)
    BY DEF Pages!HiddenRespected
  <1>1. \A c \in Tab : client[c] = Pages!Idle
    BY DEF Pages!Active
  <1>2. Pages!Idle \notin HideRequest
    BY ChangeOf
  <1> QED BY <1>1, <1>2 DEF HidesRight, HidesOut, OutOfRank, OutOfRaw, HidingAt

(***************************************************************************)
(* What a user has hidden is in none of his cached pages and not in his    *)
(* cached ranking, for any number of tabs, notes and hides, whatever was   *)
(* cached before and whatever reads fail: Hide deletes what was there, and *)
(* whoever rebuilds has read the note in one of the two sets               *)
(* (feed_service.go:718-803).                                              *)
(***************************************************************************)
THEOREM HiddenStaysOutHolds == Pages!Spec => []HiddenStaysOut
  <1> DEFINE Inv == PagesTyped /\ HidesRight
  <1>1. Pages!Init => Inv
    BY PagesStart, HiddenStart
  <1>2. Inv /\ [Pages!Next]_(Pages!vars) => Inv'
    BY PagesTypedStep, HiddenStep
  <1>3. Inv => HiddenStaysOut
    BY HiddenHolds DEF HiddenStaysOut
  <1> QED BY <1>1, <1>2, <1>3, PTL DEF Pages!Spec
-----------------------------------------------------------------------------
(***************************************************************************)
(* Walks.  As long as nothing changes, what is cached and what is being    *)
(* read is cut from one sequence, and a walk has shown it up to where its  *)
(* next page starts.                                                       *)
(***************************************************************************)
Full == Pages!Without(order, hidden)
IdsAt(p) == Slice(Full, p)
ShownAt(p) == Pages!Without(IdsAt(p), gone)
PageAt(p) == [notes |-> ShownAt(p), next |-> Pages!NextCursor(p, IdsAt(p), ShownAt(p))]
Upto(k) == Pages!Without(Prefix(Full, k), gone)

Scores(s) == [n \in Pages!ToSet(s) |-> Pages!Place(n, s) - 1]

RankExact == rank = <<>> \/ rank = Scores(Full)
RawExact == \A p \in Pages!Start : raw[p] = Pages!NoPage \/ raw[p] = PageAt(p)

ReadsExactly(r) ==
  /\ Head(r.todo) \in {"addHidden", "rebuild"} => r.without = hidden
  /\ Head(r.todo) = "zadd" => r.ids = Full
  /\ Head(r.todo) = "fill" => r.ids = IdsAt(r.at)
  /\ Head(r.todo) = "setRaw" => [notes |-> r.ids, next |-> r.next] = PageAt(r.at)

ReadersExact == \A c \in Tab : client[c] \in PageRequest => ReadsExactly(client[c])

\* A walk that has come to its end: after the last note, or at a page that shows none.
Ended(shown) ==
  \/ shown = Upto(Len(Full))
  \/ \E p \in Pages!Start : p < Len(Full) /\ Upto(p + PostsPerPage) = Upto(p) /\ shown = Upto(p)

SeenRight(w) == IF w.over THEN Ended(w.seen) ELSE w.seen = Upto(w.next)

WalkRight(c) ==
  /\ client[c] \in PageRequest => ~walk[c].over /\ client[c].at = walk[c].next
  /\ SeenRight(walk[c])

WalksRight ==
  /\ \A c \in Tab : walk[c].over => walk[c].next = 0
  /\ quiet # {} => settled
  /\ settled => RankExact /\ RawExact /\ ReadersExact
  /\ \A c \in quiet : WalkRight(c)
-----------------------------------------------------------------------------
LEMMA FullOf ==
  ASSUME PagesTyped
  PROVE  Full \in Seq(Post) /\ Distinct(Full) /\ Len(Full) \in Nat
  <1>1. order \in Seq(Post) /\ Distinct(order)
    BY PagesAssumption DEF PagesTyped, Distinct
  <1>2. Full \in Seq(Post) /\ Distinct(Full)
    BY <1>1, WithoutOf DEF Full
  <1> QED BY <1>2

LEMMA SamePages ==
  ASSUME UNCHANGED <<order, hidden, gone>>
  PROVE  /\ Full' = Full
         /\ \A k : IdsAt(k)' = IdsAt(k) /\ PageAt(k)' = PageAt(k) /\ Upto(k)' = Upto(k)
  <1>1. Full' = Full
    BY DEF Full
  <1>2. ASSUME NEW k PROVE IdsAt(k)' = IdsAt(k) 
    BY <1>1 DEF IdsAt, Slice
  <1>3. ASSUME NEW k PROVE PageAt(k)' = PageAt(k)
    BY <1>2 DEF PageAt, ShownAt
  <1>4. ASSUME NEW k PROVE Upto(k)' = Upto(k)
    BY <1>1 DEF Upto, Prefix
  <1> QED BY <1>1, <1>2, <1>3, <1>4

\* What a walk has shown after a page more.
LEMMA UptoNext ==
  ASSUME PagesTyped, NEW p \in Pages!Start
  PROVE  /\ Upto(p + PostsPerPage) = Joined(Upto(p), ShownAt(p))
         /\ Len(Full) <= p => Upto(p) = Upto(Len(Full))
         /\ Upto(0) = <<>> /\ Upto(p) \in Seq(Post)
  <1> DEFINE a == Prefix(Full, p)
             b == Slice(Full, p)
             e == Prefix(Full, p + PostsPerPage)
  <1>1. p \in Nat /\ Full \in Seq(Post)
    BY FullOf, StartsAt
  <1>2. /\ a \in Seq(Post) /\ e = a \o b /\ Prefix(Full, 0) = <<>>
        /\ Len(Full) <= p => a = Prefix(Full, Len(Full))
    BY <1>1, PrefixOf
  <1>3. b \in Seq(Post)
    BY <1>1, SliceOf
  <1> HIDE DEF a, b, e
  <1>4. Pages!Without(e, gone) = Joined(Pages!Without(a, gone), Pages!Without(b, gone))
    BY <1>2, <1>3, WithoutConcat DEF Joined
  <1>5. Pages!Without(a, gone) \in Seq(Post)
    BY <1>2, WithoutOf
  <1> QED BY <1>2, <1>4, <1>5, WithoutNone DEF Upto, ShownAt, IdsAt, a, b, e

\* A walk that shows the page of its position.
LEMMA WalkOn ==
  ASSUME PagesTyped, NEW p \in Pages!Start
  PROVE  /\ PageAt(p).next # 0 => Joined(Upto(p), PageAt(p).notes) = Upto(PageAt(p).next)
         /\ PageAt(p).next = 0 => Ended(Joined(Upto(p), PageAt(p).notes))
  <1> DEFINE ids == IdsAt(p)
             shown == ShownAt(p)
             n == PageAt(p).next
             l == Len(Full)
             m == Len(ids)
  <1>1. /\ Upto(p + PostsPerPage) = Joined(Upto(p), shown)
        /\ l <= p => Upto(p) = Upto(l)
        /\ Upto(p) \in Seq(Post)
    BY UptoNext
  <1>2. p \in Nat /\ Full \in Seq(Post) /\ l \in Nat /\ PostsPerPage \in Nat \ {0}
    BY FullOf, StartsAt, PagesAssumption
  <1>3. /\ PageAt(p).notes = shown
        /\ n = IF m = PostsPerPage /\ shown # <<>> THEN p + PostsPerPage ELSE 0
    BY DEF PageAt, Pages!NextCursor
  <1>4. m = IF p + PostsPerPage <= l THEN PostsPerPage ELSE IF p < l THEN l - p ELSE 0
    BY <1>2, SliceOf DEF IdsAt
  <1> HIDE DEF ids, shown, n, l, m
  <1>5. CASE n # 0
    BY <1>1, <1>2, <1>3, <1>5 DEF n
  <1>6. CASE shown = <<>>
    <2>1. n = 0
      BY <1>3, <1>6
    <2>2. Joined(Upto(p), shown) = Upto(p)
      BY <1>1, <1>6 DEF Joined
    <2>3. Upto(p + PostsPerPage) = Upto(p)
      BY <1>1, <2>2
    <2>4. CASE p < l
      BY <1>3, <2>1, <2>2, <2>3, <2>4 DEF Ended, n, l
    <2>5. CASE l <= p
      BY <1>1, <1>3, <2>1, <2>2, <2>5 DEF Ended, n, l
    <2> QED BY <1>2, <2>4, <2>5
  <1>7. CASE n = 0 /\ shown # <<>>
    <2>1. m # PostsPerPage
      BY <1>2, <1>3, <1>7
    <2>2. l <= p + PostsPerPage
      BY <1>2, <1>4, <2>1
    <2>3. Prefix(Full, p + PostsPerPage) = Prefix(Full, Len(Full))
      <3> DEFINE q == p + PostsPerPage
      <3>1. q \in Nat /\ Len(Full) <= q
        BY <1>2, <2>2 DEF l
      <3> HIDE DEF q
      <3>2. Prefix(Full, q) = Prefix(Full, Len(Full))
        BY <1>2, <3>1, PrefixOf
      <3> QED BY <3>2 DEF q
    <2>4. Upto(p + PostsPerPage) = Upto(Len(Full))
      BY <2>3 DEF Upto
    <2> QED BY <1>1, <1>3, <1>7, <2>4 DEF Ended, n
  <1> QED BY <1>5, <1>6, <1>7

\* A ranking that is read back, and one that is added to itself.
LEMMA ScoresRead ==
  ASSUME PagesTyped, RankExact
  PROVE  /\ rank # <<>> => Pages!Ranking = Full
         /\ Added(Full) = Scores(Full)
  <1>1. Full \in Seq(Post) /\ Distinct(Full)
    BY FullOf
  <1>2. rank # <<>> => Pages!Ranking = Full
    BY <1>1, RankingBack DEF RankExact, Scores
  <1>3. DOMAIN rank \subseteq Pages!ToSet(Full)
    <2>1. CASE rank = <<>>
      <3>1. DOMAIN rank = {}
        BY <2>1
      <3> QED BY <3>1
    <2>2. CASE rank = Scores(Full)
      BY <2>2 DEF Scores
    <2> QED BY <2>1, <2>2 DEF RankExact
  <1>4. Pages!ToSet(Full) \cup DOMAIN rank = Pages!ToSet(Full)
    BY <1>3
  <1>5. Added(Full) = Scores(Full)
    BY <1>4 DEF Added, Scores
  <1> QED BY <1>2, <1>5

LEMMA CutsExact ==
  ASSUME PagesTyped, NEW c \in Tab, NEW x, Cuts(c, x, Full)
  PROVE  x \in PageRequest /\ x.at = client[c].at /\ ReadsExactly(x)
  <1> DEFINE r == client[c]
  <1>1. r \in PageRequest /\ PageRight(r)
    BY DEF Cuts, Turned, PagesTyped, RequestsTyped
  <1>2. r.at \in Pages!Start /\ r.at \in Nat
    BY <1>1, PageOf, StartsAt
  <1>3. CASE Fields(x, r, Slice(Full, r.at), r.next, {}, <<"fill", "setRaw">>)
    <2>1. Head(<<"fill", "setRaw">>) = "fill"
      OBVIOUS
    <2> QED BY <1>3, <2>1 DEF Fields, ReadsExactly, IdsAt
  <1>4. CASE Full = <<>> /\ Fields(x, r, <<>>, r.next, {}, <<"setRaw">>)
    <2>1. Head(<<"setRaw">>) = "setRaw"
      OBVIOUS
    <2>2. r.next = 0
      BY <1>1 DEF Cuts, PageRight
    <2>3. IdsAt(r.at) = <<>>
      <3>1. IdsAt(r.at) \in Seq(Post)
            /\ Len(IdsAt(r.at)) = IF r.at + PostsPerPage <= Len(Full) THEN PostsPerPage
                                  ELSE IF r.at < Len(Full) THEN Len(Full) - r.at ELSE 0
        BY <1>2, FullOf, SliceOf DEF IdsAt
      <3>2. Len(Full) = 0 /\ ~(r.at + PostsPerPage <= 0) /\ ~(r.at < 0)
        BY <1>2, <1>4, PagesAssumption
      <3>3. Len(IdsAt(r.at)) = 0
        BY <3>1, <3>2
      <3> QED BY <3>1, <3>3
    <2>4. ShownAt(r.at) = <<>>
      BY <2>3, WithoutNone DEF ShownAt
    <2>5. PageAt(r.at) = [notes |-> <<>>, next |-> 0]
      BY <2>3, <2>4 DEF PageAt, Pages!NextCursor
    <2> QED BY <1>4, <2>1, <2>2, <2>5 DEF Fields, ReadsExactly
  <1> QED BY <1>3, <1>4 DEF Cuts
-----------------------------------------------------------------------------
LEMMA SameReads ==
  ASSUME UNCHANGED <<order, hidden, gone>>
  PROVE  /\ \A d : ReadsExactly(client[d])' <=> ReadsExactly(client'[d])
         /\ \A d : SeenRight(walk[d])' <=> SeenRight(walk'[d])
  <1>1. Full' = Full
    BY SamePages
  <1>2. ASSUME NEW d PROVE ReadsExactly(client[d])' <=> ReadsExactly(client'[d])
    BY <1>1 DEF ReadsExactly, IdsAt, PageAt, ShownAt
  <1>3. ASSUME NEW d PROVE SeenRight(walk[d])' <=> SeenRight(walk'[d])
    BY <1>1 DEF SeenRight, Ended, Upto
  <1> QED BY <1>2, <1>3

\* A request that goes on, or ends without a page.
LEMMA WalksGoOn ==
  ASSUME PagesTyped, WalksRight, NEW c \in Tab, NEW x, client'[c] = x,
         client[c] \in PageRequest, \A d \in Tab \ {c} : client'[d] = client[d],
         x = Pages!Idle \/ (x \in PageRequest /\ x.at = client[c].at),
         UNCHANGED <<order, gone, hidden, walk, settled, quiet>>,
         settled => RankExact' /\ RawExact' /\ (x \in PageRequest => ReadsExactly(x))
  PROVE  WalksRight'
  <1>1. ASSUME settled PROVE ReadersExact'
    <2> SUFFICES ASSUME NEW d \in Tab, client'[d] \in PageRequest PROVE ReadsExactly(client[d])'
      BY DEF ReadersExact
    <2>1. ReadsExactly(client'[d])
      BY <1>1 DEF WalksRight, ReadersExact
    <2> QED BY <2>1, SameReads
  <1>2. ASSUME NEW d \in quiet PROVE WalkRight(d)'
    <2>1. WalkRight(d) /\ d \in Tab
      BY DEF WalksRight, PagesTyped
    <2>2. client'[d] \in PageRequest => client[d] \in PageRequest /\ client'[d].at = client[d].at
      BY <2>1, PageOf
    <2>3. SeenRight(walk[d])'
      BY <2>1, SameReads DEF WalkRight
    <2> QED BY <2>1, <2>2, <2>3 DEF WalkRight
  <1> QED BY <1>1, <1>2 DEF WalksRight

\* When something changes, nothing is left to say.
LEMMA WalksUnsettle ==
  ASSUME WalksRight, Pages!Unsettle, walk' = walk
  PROVE  WalksRight'
  BY DEF WalksRight, Pages!Unsettle

LEMMA WalksAnswered ==
  ASSUME PagesTyped, WalksRight, NEW c \in Tab, NEW page, Answers(c, page),
         UNCHANGED <<order, gone, hidden, rank, settled, quiet>>,
         settled => page = PageAt(client[c].at),
         raw' = raw \/ raw' = [raw EXCEPT ![client[c].at] = page]
  PROVE  WalksRight'
  <1> DEFINE r == client[c]
             w == walk'[c]
  <1>1. /\ client'[c] = Pages!Idle /\ r \in PageRequest /\ r.at \in Pages!Start
        /\ \A d \in Tab \ {c} : client'[d] = client[d]
    BY KindsTyped, PageOf DEF Answers, Ends, Turned
  <1>2. /\ w.seen = Joined(walk[c].seen, page.notes) /\ w.next = page.next
        /\ w.over = (page.next = 0)
        /\ \A d \in Tab \ {c} : walk'[d] = walk[d]
    BY DEF Answers, PagesTyped, Joined
  <1>3. \A d \in Tab : walk'[d].over => walk'[d].next = 0
    BY <1>2 DEF WalksRight
  <1>4. ASSUME settled PROVE RankExact' /\ RawExact' /\ ReadersExact'
    <2>1. RankExact'
      BY <1>4, SamePages DEF WalksRight, RankExact
    <2>2. RawExact'
      <3> SUFFICES ASSUME NEW p \in Pages!Start PROVE raw'[p] = Pages!NoPage \/ raw'[p] = PageAt(p)'
        BY DEF RawExact
      <3>1. raw[p] = Pages!NoPage \/ raw[p] = PageAt(p)
        BY <1>4 DEF WalksRight, RawExact
      <3>2. raw'[p] = raw[p] \/ (p = r.at /\ raw'[p] = page)
        BY DEF PagesTyped, CachesTyped
      <3>3. PageAt(p)' = PageAt(p)
        BY SamePages
      <3> QED BY <1>4, <3>1, <3>2, <3>3
    <2>3. ReadersExact'
      <3> SUFFICES ASSUME NEW d \in Tab, client'[d] \in PageRequest PROVE ReadsExactly(client[d])'
        BY DEF ReadersExact
      <3>1. d # c
        BY <1>1, PageOf
      <3>2. ReadsExactly(client'[d])
        BY <1>1, <1>4, <3>1 DEF WalksRight, ReadersExact
      <3> QED BY <3>2, SameReads
    <2> QED BY <2>1, <2>2, <2>3
  <1>5. ASSUME NEW d \in quiet PROVE WalkRight(d)'
    <2>1. WalkRight(d) /\ d \in Tab /\ settled
      BY DEF WalksRight, PagesTyped
    <2>2. CASE d # c
      <3>1. SeenRight(walk[d])'
        BY <1>2, <2>1, <2>2, SameReads DEF WalkRight
      <3> QED BY <1>1, <1>2, <2>1, <2>2, <3>1 DEF WalkRight
    <2>3. CASE d = c
      <3>1. ~walk[c].over /\ r.at = walk[c].next
        BY <1>1, <2>1, <2>3 DEF WalkRight
      <3>2. walk[c].seen = Upto(r.at)
        BY <2>1, <2>3, <3>1 DEF WalkRight, SeenRight
      <3>3. page = PageAt(r.at)
        BY <2>1
      <3>4. SeenRight(w)
        <4>1. CASE page.next = 0
          <5>1. w.over /\ Ended(w.seen)
            <6>1. w.over
              BY <1>2, <4>1
            <6>2. Ended(Joined(Upto(r.at), PageAt(r.at).notes))
              BY <1>1, <3>3, <4>1, WalkOn
            <6>3. w.seen = Joined(Upto(r.at), PageAt(r.at).notes)
              BY <1>2, <3>2, <3>3
            <6> QED BY <6>1, <6>2, <6>3
          <5> QED BY <5>1 DEF SeenRight
        <4>2. CASE page.next # 0
          <5>1. ~w.over /\ w.seen = Upto(w.next)
            BY <1>1, <1>2, <3>2, <3>3, <4>2, WalkOn
          <5> QED BY <5>1 DEF SeenRight
        <4> QED BY <4>1, <4>2
      <3>5. SeenRight(walk[d])'
        BY <2>3, <3>4, SameReads
      <3>6. client'[d] \notin PageRequest
        BY <1>1, <2>3, PageOf
      <3> QED BY <3>5, <3>6 DEF WalkRight
    <2> QED BY <2>2, <2>3
  <1>6. quiet' # {} => settled'
    BY DEF WalksRight
  <1> QED BY <1>3, <1>4, <1>5, <1>6 DEF WalksRight

LEMMA ReadsWalks ==
  ASSUME PagesTyped, WalksRight, NEW c \in Tab, Reads(c)
  PROVE  WalksRight'
  <1> DEFINE r == client[c]
  <1>1. UNCHANGED <<order, gone, hides, forgotten, amiss>>
    BY DEF Reads
  <1>2. r \in PageRequest /\ PageRight(r) /\ \A d \in Tab \ {c} : client'[d] = client[d]
    BY ReadsTurn
  <1>3. r.at \in Pages!Start /\ r.without \in SUBSET Post /\ hidden \in SUBSET Post /\ hides \in SUBSET Post
    BY <1>2, PageOf DEF PagesTyped
  <1>4. settled => RankExact /\ RawExact /\ ReadsExactly(r)
    BY <1>2 DEF WalksRight, ReadersExact
  <1>5. UNCHANGED <<hidden, rank>> => (RankExact => RankExact')
    BY <1>1, SamePages DEF RankExact
  <1>6. ASSUME UNCHANGED <<hidden, raw>>, RawExact PROVE RawExact'
    BY <1>1, <1>6, SamePages DEF RawExact
  \* The calls that leave the caches and the walks alone.
  <1>7. ASSUME NEW x, client'[c] = x, x = Pages!Idle \/ (x \in PageRequest /\ x.at = r.at),
               UNCHANGED <<hidden, rank, raw, walk, settled, quiet>>,
               settled /\ x \in PageRequest => ReadsExactly(x)
        PROVE  WalksRight'
    BY <1>1, <1>2, <1>4, <1>5, <1>6, <1>7, WalksGoOn
  <1>8. ASSUME NEW T \in SUBSET Post, NEW x, Knows(c, x, T)
        PROVE  client'[c] = x /\ x \in PageRequest /\ x.at = r.at /\ (T = hidden => ReadsExactly(x))
    <2>1. client'[c] = x
      BY <1>8, KindsTyped
    <2>2. PICK todo \in {<<"rebuild">>, <<"addHidden", "rebuild">>} :
            Fields(x, r, r.ids, r.next, T, todo)
      BY <1>8 DEF Knows
    <2>3. Head(todo) \notin {"zadd", "fill", "setRaw"}
      BY <2>2
    <2> QED BY <2>1, <2>2, <2>3 DEF Fields, ReadsExactly
  <1>9. ASSUME NEW x, NEW s, Cuts(c, x, s)
        PROVE  client'[c] = x /\ x \in PageRequest /\ x.at = r.at /\ (s = Full => ReadsExactly(x))
    <2>1. client'[c] = x
      BY <1>9, KindsTyped
    <2>2. x \in PageRequest /\ x.at = r.at
      BY <1>9 DEF Cuts, Fields
    <2> QED BY <1>9, <2>1, <2>2, CutsExact
  <1>10. CASE ToLook(c)
    <2>1. PICK x : Looks(c, x) /\ Untouched
      BY <1>10 DEF ToLook
    <2>2. client'[c] = x
      BY <2>1, KindsTyped
    <2>3. PICK todo \in {<<"getRank">>, <<"members">>, <<"loadHidden">>} :
            Fields(x, r, r.ids, r.next, r.without, todo)
      BY <2>1 DEF Looks
    <2>4. Head(todo) \notin {"addHidden", "rebuild", "zadd", "fill", "setRaw"}
      BY <2>3
    <2>5. x \in PageRequest /\ x.at = r.at /\ ReadsExactly(x)
      BY <2>3, <2>4 DEF Fields, ReadsExactly
    <2> QED BY <1>7, <2>1, <2>2, <2>5 DEF Untouched
  <1>11. CASE ToMembers(c)
    BY <1>3, <1>7, <1>8, <1>11 DEF ToMembers, Untouched
  <1>12. CASE ToLoad(c)
    <2>1. PICK x : Knows(c, x, hides)
      BY <1>12 DEF ToLoad
    <2>2. CASE hides = hidden
      <3>1. UNCHANGED <<hidden, rank, raw, walk, settled, quiet>>
        BY <1>12, <2>2 DEF ToLoad, SettledUnless
      <3> QED BY <1>3, <1>7, <1>8, <2>1, <2>2, <3>1
    <2>3. CASE hides # hidden
      BY <1>12, <2>3, WalksUnsettle DEF ToLoad, SettledUnless
    <2> QED BY <2>2, <2>3
  <1>13. CASE ToPutBack(c)
    <2>1. PICK x : Knows(c, x, r.without)
      BY <1>13 DEF ToPutBack
    <2>2. CASE hidden' = hidden
      <3>1. UNCHANGED <<hidden, rank, raw, walk, settled, quiet>>
        BY <1>13, <2>2 DEF ToPutBack, SettledUnless
      <3>2. Head(r.todo) = "addHidden"
        BY <1>13 DEF ToPutBack
      <3>3. settled => r.without = hidden
        BY <1>4, <3>2 DEF ReadsExactly
      <3> QED BY <1>3, <1>7, <1>8, <2>1, <3>1, <3>3
    <2>3. CASE hidden' # hidden
      BY <1>13, <2>3, WalksUnsettle DEF ToPutBack, SettledUnless
    <2> QED BY <2>2, <2>3
  <1>14. CASE ToRank(c)
    <2>1. PICK x : Ranks(c, x) /\ Untouched
      BY <1>14 DEF ToRank
    <2>2. /\ client'[c] = x /\ x \in PageRequest /\ x.at = r.at
          /\ x.ids = Pages!Without(order, r.without) /\ x.todo = <<"zadd">>
      BY <2>1, KindsTyped DEF Ranks, Fields
    <2>3. Head(x.todo) = "zadd" /\ Head(r.todo) = "rebuild"
      BY <2>1, <2>2 DEF Ranks
    <2>4. settled => x.ids = Full
      BY <1>4, <2>2, <2>3 DEF ReadsExactly, Full
    <2>5. settled => ReadsExactly(x)
      BY <2>3, <2>4 DEF ReadsExactly
    <2> QED BY <1>7, <2>1, <2>2, <2>5 DEF Untouched
  <1>15. CASE ToNothing(c)
    <2>1. PICK x : Cuts(c, x, <<>>)
      BY <1>15 DEF ToNothing
    <2>2. Head(r.todo) = "rebuild" /\ Pages!Without(order, r.without) = <<>> /\ Untouched
      BY <1>15 DEF ToNothing
    <2>3. settled => Full = <<>>
      BY <1>4, <2>2 DEF ReadsExactly, Full
    <2> QED BY <1>7, <1>9, <2>1, <2>2, <2>3 DEF Untouched
  <1>16. CASE ToCut(c)
    <2>1. PICK x : Cuts(c, x, Pages!Ranking)
      BY <1>16 DEF ToCut
    <2>2. rank # <<>> /\ Untouched
      BY <1>16 DEF ToCut
    <2>3. settled => Pages!Ranking = Full
      BY <1>4, <2>2, ScoresRead
    <2> QED BY <1>7, <1>9, <2>1, <2>2, <2>3 DEF Untouched
  <1>17. CASE ToAdd(c)
    <2>1. PICK x : Cuts(c, x, r.ids)
      BY <1>17 DEF ToAdd
    <2>2. /\ Head(r.todo) = "zadd" /\ rank' \in {rank, Added(r.ids)}
          /\ UNCHANGED <<hidden, raw, walk, settled, quiet>>
      BY <1>17 DEF ToAdd
    <2>3. settled => r.ids = Full
      BY <1>4, <2>2 DEF ReadsExactly
    <2>4. client'[c] = x /\ x \in PageRequest /\ x.at = r.at /\ (settled => ReadsExactly(x))
      BY <1>9, <2>1, <2>3
    <2>5. ASSUME settled PROVE RankExact'
      <3>1. rank' = rank \/ rank' = Scores(Full)
        BY <1>4, <2>2, <2>3, <2>5, ScoresRead
      <3>2. Full' = Full
        BY <1>1, <2>2, SamePages
      <3> QED BY <1>4, <2>5, <3>1, <3>2 DEF RankExact, Scores
    <2>6. settled => RawExact'
      BY <1>4, <1>6, <2>2
    <2> QED BY <1>1, <1>2, <2>2, <2>4, <2>5, <2>6, WalksGoOn
  <1>18. CASE ToFill(c)
    <2>1. PICK x, shown : /\ Fills(c, x, shown)
                          /\ \/ shown = Pages!Without(r.ids, gone) /\ UNCHANGED <<settled, quiet>>
                             \/ Pages!Unsettle
      BY <1>18 DEF ToFill
    <2>2. UNCHANGED <<hidden, rank, raw, walk>>
      BY <1>18 DEF ToFill
    <2>3. /\ client'[c] = x /\ x \in PageRequest /\ x.at = r.at /\ x.ids = shown
          /\ x.next = Pages!NextCursor(r.at, r.ids, shown) /\ x.todo = <<"setRaw">>
      BY <2>1, KindsTyped DEF Fills, Fields
    <2>4. CASE shown = Pages!Without(r.ids, gone) /\ UNCHANGED <<settled, quiet>>
      <3>1. Head(x.todo) = "setRaw" /\ Head(r.todo) = "fill"
        BY <2>1, <2>3 DEF Fills
      <3>2. settled => r.ids = IdsAt(r.at)
        BY <1>4, <3>1 DEF ReadsExactly
      <3>3. settled => [notes |-> x.ids, next |-> x.next] = PageAt(x.at)
        BY <2>3, <2>4, <3>2 DEF PageAt, ShownAt
      <3>4. settled => ReadsExactly(x)
        BY <3>1, <3>3 DEF ReadsExactly
      <3> QED BY <1>7, <2>2, <2>3, <2>4, <3>4
    <2>5. CASE Pages!Unsettle
      BY <2>2, <2>5, WalksUnsettle
    <2> QED BY <2>1, <2>4, <2>5
  <1>19. CASE ToCached(c)
    <2> DEFINE page == raw[r.at]
    <2>1. settled => page = PageAt(r.at)
      BY <1>3, <1>4, <1>19 DEF RawExact, ToCached
    <2>2. Answers(c, page) /\ raw' = raw /\ UNCHANGED <<hidden, rank, settled, quiet>>
      BY <1>19 DEF ToCached
    <2> HIDE DEF page
    <2> QED BY <1>1, <2>1, <2>2, WalksAnswered
  <1>20. CASE ToCache(c)
    <2> DEFINE page == [notes |-> r.ids, next |-> r.next]
    <2>1. /\ Head(r.todo) = "setRaw" /\ Answers(c, page)
          /\ raw' = raw \/ raw' = [raw EXCEPT ![r.at] = page]
          /\ UNCHANGED <<hidden, rank, settled, quiet>>
      BY <1>20 DEF ToCache
    <2>2. settled => page = PageAt(r.at)
      BY <1>4, <2>1 DEF ReadsExactly
    <2> HIDE DEF page
    <2> QED BY <1>1, <2>1, <2>2, WalksAnswered
  <1>21. CASE ToEnd(c)
    <2>1. client'[c] = Pages!Idle
      BY <1>21, KindsTyped DEF ToEnd
    <2>2. Pages!Idle \notin PageRequest
      BY PageOf
    <2> QED BY <1>7, <1>21, <2>1, <2>2 DEF ToEnd, Untouched
  <1> QED BY <1>10, <1>11, <1>12, <1>13, <1>14, <1>15, <1>16, <1>17, <1>18, <1>19, <1>20, <1>21
      DEF Reads
-----------------------------------------------------------------------------
LEMMA ListWalks ==
  ASSUME PagesTyped, WalksRight, NEW c \in Tab, NEW at \in Pages!Start, Pages!List(c, at)
  PROVE  WalksRight'
  <1> DEFINE x == FirstCall(at)
  <1>1. /\ client'[c] = x /\ x \in PageRequest /\ Head(x.todo) = "getRaw" /\ x.at = at
        /\ \A d \in Tab \ {c} : client'[d] = client[d]
    BY ListMade
  <1>2. UNCHANGED <<order, gone, hidden, rank, raw>> /\ at \in {0, walk[c].next}
        /\ client[c] = Pages!Idle
    BY DEF Pages!List, Pages!redis
  <1>3. ReadsExactly(x)
    BY <1>1 DEF ReadsExactly
  <1>4. ASSUME settled' PROVE RankExact' /\ RawExact' /\ ReadersExact'
    <2>1. settled \/ Pages!Clean(c)
      <3>1. settled' = settled \/ settled' = (settled \/ Pages!Clean(c))
        BY DEF Pages!List
      <3> QED BY <1>4, <3>1
    <2>2. RankExact /\ RawExact /\ ReadersExact
      <3>1. CASE settled
        BY <3>1 DEF WalksRight
      <3>2. CASE Pages!Clean(c)
        <4>1. \A d \in Tab : client[d] = Pages!Idle
          BY <1>2, <3>2 DEF Pages!Clean, Pages!Active
        <4>2. Pages!Idle \notin PageRequest
          BY PageOf
        <4> QED BY <3>2, <4>1, <4>2 DEF Pages!Clean, RankExact, RawExact, ReadersExact
      <3> QED BY <2>1, <3>1, <3>2
    <2>3. RankExact' /\ RawExact'
      BY <1>2, <2>2, SamePages DEF RankExact, RawExact
    <2>4. ReadersExact'
      <3> SUFFICES ASSUME NEW d \in Tab, client'[d] \in PageRequest PROVE ReadsExactly(client[d])'
        BY DEF ReadersExact
      <3>1. ReadsExactly(client'[d])
        BY <1>1, <1>3, <2>2 DEF ReadersExact
      <3> QED BY <1>2, <3>1, SameReads
    <2> QED BY <2>3, <2>4
  <1>5. ASSUME NEW d \in quiet, walk'[d] = walk[d], d # c \/ at > 0 PROVE WalkRight(d)'
    <2>1. WalkRight(d) /\ d \in Tab
      BY DEF WalksRight, PagesTyped
    <2>2. SeenRight(walk[d])'
      BY <1>2, <1>5, <2>1, SameReads DEF WalkRight
    <2>3. CASE d # c
      BY <1>1, <1>5, <2>1, <2>2, <2>3 DEF WalkRight
    <2>4. CASE d = c
      <3>1. at \in Nat /\ at # 0
        BY <1>5, <2>4, StartsAt
      <3>2. at = walk[c].next /\ ~walk[c].over
        BY <1>2, <3>1 DEF WalksRight
      <3> QED BY <1>1, <1>5, <2>2, <2>4, <3>2 DEF WalkRight
    <2> QED BY <2>3, <2>4
  <1>6. CASE at > 0
    <2>1. UNCHANGED <<walk, settled, quiet>>
      BY <1>6 DEF Pages!List
    <2>2. \A d \in quiet' : WalkRight(d)'
      BY <1>5, <1>6, <2>1
    <2> QED BY <1>4, <2>1, <2>2 DEF WalksRight
  <1>7. CASE ~(at > 0)
    <2>1. at = 0
      BY <1>7, StartsAt
    <2> DEFINE w == [seen |-> <<>>, next |-> 0, over |-> FALSE]
    <2>2. /\ walk' = [walk EXCEPT ![c] = w]
          /\ settled' = (settled \/ Pages!Clean(c))
          /\ quiet' = IF settled' THEN quiet \cup {c} ELSE quiet \ {c}
      BY <1>7 DEF Pages!List
    <2>3. w.seen = <<>> /\ w.next = 0 /\ ~w.over
      OBVIOUS
    <2> HIDE DEF w
    <2>4. walk'[c] = w /\ \A d \in Tab \ {c} : walk'[d] = walk[d]
      BY <2>2 DEF PagesTyped
    <2>5. \A d \in Tab : walk'[d].over => walk'[d].next = 0
      BY <2>3, <2>4 DEF WalksRight
    <2>6. quiet' # {} => settled'
      <3>1. quiet # {} => settled
        BY DEF WalksRight
      <3>2. settled => settled'
        BY <2>2
      <3> QED BY <2>2, <3>1, <3>2
    <2>7. ASSUME NEW d \in quiet' PROVE WalkRight(d)'
      <3>1. CASE d = c
        <4>1. SeenRight(walk'[c])
          BY <2>3, <2>4, UptoNext, StartsAt DEF SeenRight
        <4>2. SeenRight(walk[d])'
          BY <1>2, <3>1, <4>1, SameReads
        <4> QED BY <1>1, <2>1, <2>3, <2>4, <3>1, <4>2 DEF WalkRight
      <3>2. CASE d # c
        <4>1. d \in quiet /\ d \in Tab
          BY <2>2, <2>7, <3>2 DEF PagesTyped
        <4> QED BY <1>5, <2>4, <3>2, <4>1
      <3> QED BY <3>1, <3>2
    <2> QED BY <1>4, <2>5, <2>6, <2>7 DEF WalksRight
  <1> QED BY <1>6, <1>7

\* What is neither a page nor a change of what the pages depend on.
LEMMA WalksAlone ==
  ASSUME PagesTyped, WalksRight,
         \A d \in Tab : client'[d] = client[d] \/ client'[d] \notin PageRequest,
         UNCHANGED <<order, gone, hidden, walk, settled, quiet>>,
         rank' = rank \/ rank' = <<>>,
         \A p \in Pages!Start : raw'[p] = raw[p] \/ raw'[p] = Pages!NoPage
  PROVE  WalksRight'
  <1>1. ASSUME settled PROVE RankExact' /\ RawExact' /\ ReadersExact'
    <2>1. RankExact'
      BY <1>1, SamePages DEF WalksRight, RankExact
    <2>2. RawExact'
      BY <1>1, SamePages DEF WalksRight, RawExact
    <2>3. ReadersExact'
      <3> SUFFICES ASSUME NEW d \in Tab, client'[d] \in PageRequest PROVE ReadsExactly(client[d])'
        BY DEF ReadersExact
      <3>1. ReadsExactly(client'[d])
        BY <1>1 DEF WalksRight, ReadersExact
      <3> QED BY <3>1, SameReads
    <2> QED BY <2>1, <2>2, <2>3
  <1>2. ASSUME NEW d \in quiet PROVE WalkRight(d)'
    <2>1. WalkRight(d) /\ d \in Tab
      BY DEF WalksRight, PagesTyped
    <2>2. SeenRight(walk[d])'
      BY <2>1, SameReads DEF WalkRight
    <2> QED BY <2>1, <2>2 DEF WalkRight
  <1> QED BY <1>1, <1>2 DEF WalksRight

LEMMA RequestWalks ==
  ASSUME PagesTyped, WalksRight, NEW c \in Tab, NEW n \in Post, NEW op \in {"hide", "undo"},
         Pages!Request(c, op, n)
  PROVE  WalksRight'
  <1>1. \A d \in Tab : client'[d] = client[d] \/ client'[d] \notin PageRequest
    BY RequestChange, ChangeOf
  <1>2. UNCHANGED <<order, gone, hidden, rank, raw, walk, settled, quiet>>
    BY DEF Pages!Request, Pages!redis, Pages!history
  <1> QED BY <1>1, <1>2, WalksAlone

LEMMA ChangesWalks ==
  ASSUME PagesTyped, WalksRight, NEW c \in Tab, Changes(c)
  PROVE  WalksRight'
  <1>1. \A d \in Tab : client'[d] = client[d] \/ client'[d] \notin PageRequest
    <2>1. client[c] \in ChangeRequest /\ client'[c] \in {Pages!Idle, Next1(client[c])}
          /\ \A d \in Tab \ {c} : client'[d] = client[d]
      BY ChangesTurn
    <2>2. Next1(client[c]) \notin PageRequest /\ Pages!Idle \notin PageRequest
      BY <2>1, NextOf, ChangeOf, PageOf DEF ChangeRequest
    <2> QED BY <2>1, <2>2
  <1>2. CASE Pages!SAdd(c) \/ Pages!SRem(c)
    BY <1>2, WalksUnsettle DEF Pages!SAdd, Pages!SRem
  <1>3. CASE Pages!AddFeedHide(c) \/ Pages!RemoveFeedHide(c) \/ Fails(c)
    <2>1. UNCHANGED <<order, gone, hidden, rank, raw, walk, settled, quiet>>
      BY <1>3 DEF Pages!AddFeedHide, Pages!RemoveFeedHide, Fails, Pages!redis, Pages!history
    <2> QED BY <1>1, <2>1, WalksAlone
  <1>4. CASE Pages!DeleteHome(c)
    <2>1. UNCHANGED <<order, gone, hidden, rank, walk, settled, quiet>>
          /\ raw' = [raw EXCEPT ![0] = Pages!NoPage]
      BY <1>4 DEF Pages!DeleteHome, Pages!history
    <2>2. \A p \in Pages!Start : raw'[p] = raw[p] \/ raw'[p] = Pages!NoPage
      BY <2>1 DEF PagesTyped, CachesTyped
    <2> QED BY <1>1, <2>1, <2>2, WalksAlone
  <1>5. CASE Pages!DeletePages(c)
    <2>1. UNCHANGED <<order, gone, hidden, rank, walk, settled, quiet>>
          /\ raw' = [p \in Pages!Start |-> IF p = 0 THEN raw[0] ELSE Pages!NoPage]
      BY <1>5 DEF Pages!DeletePages, Pages!history
    <2>2. \A p \in Pages!Start : raw'[p] = raw[p] \/ raw'[p] = Pages!NoPage
      BY <2>1
    <2> QED BY <1>1, <2>1, <2>2, WalksAlone
  <1>6. CASE Pages!DeleteRank(c)
    BY <1>1, <1>6, WalksAlone DEF Pages!DeleteRank, Pages!history
  <1> QED BY <1>2, <1>3, <1>4, <1>5, <1>6 DEF Changes

LEMMA DriftsWalks ==
  ASSUME PagesTyped, WalksRight, Drifts
  PROVE  WalksRight'
  <1>1. client' = client /\ walk' = walk
    BY DriftsTyped
  <1>2. ASSUME NEW p \in Pages!Start, Pages!ExpireRaw(p) PROVE WalksRight'
    <2>1. UNCHANGED <<order, gone, hidden, rank, settled, quiet>>
          /\ raw' = [raw EXCEPT ![p] = Pages!NoPage]
      BY <1>2 DEF Pages!ExpireRaw, Pages!history
    <2>2. \A q \in Pages!Start : raw'[q] = raw[q] \/ raw'[q] = Pages!NoPage
      BY <2>1 DEF PagesTyped, CachesTyped
    <2> QED BY <1>1, <2>1, <2>2, WalksAlone
  <1>3. CASE Pages!ExpireRank
    BY <1>1, <1>3, WalksAlone DEF Pages!ExpireRank, Pages!history
  <1>4. CASE Pages!ExpireHidden
    BY <1>1, <1>4, WalksUnsettle DEF Pages!ExpireHidden
  <1>5. ASSUME NEW o \in Orders, NEW g \in Dropped, Pages!ChangeFeed(o, g) PROVE WalksRight'
    BY <1>1, <1>5, WalksUnsettle DEF Pages!ChangeFeed
  <1> QED BY <1>2, <1>3, <1>4, <1>5 DEF Drifts

LEMMA WalksStart == Pages!Init => WalksRight
  <1> SUFFICES ASSUME Pages!Init PROVE WalksRight
    OBVIOUS
  <1>1. Pages!Idle \notin PageRequest
    BY PageOf
  <1> QED BY <1>1 DEF Pages!Init, WalksRight, RankExact, RawExact, ReadersExact

LEMMA WalksStep ==
  ASSUME PagesTyped, WalksRight, [Pages!Next]_(Pages!vars)
  PROVE  WalksRight'
  <1>1. CASE UNCHANGED Pages!vars
    <2>1. UNCHANGED <<order, gone, hidden, rank, raw, client, walk, settled, quiet>>
      BY <1>1 DEF Pages!vars, Pages!redis, Pages!history
    <2> QED BY <2>1, WalksAlone
  <1>2. CASE Pages!Next
    BY <1>2, PagesSteps, ListWalks, RequestWalks, ReadsWalks, ChangesWalks, DriftsWalks
  <1> QED BY <1>1, <1>2

LEMMA WalksHold == ASSUME PagesTyped, WalksRight PROVE Pages!WalkExact
  <1> DEFINE U(k) == Pages!Without(SubSeq(Full, 1, Pages!Min({k, Len(Full)})), gone)
  <1>1. \A k : U(k) = Upto(k)
    BY DEF Upto, Prefix
  <1> HIDE DEF U
  <1>2. ASSUME NEW c \in quiet \ Pages!Active
        PROVE  IF ~walk[c].over THEN walk[c].seen = U(walk[c].next)
               ELSE \/ walk[c].seen = U(Len(Full))
                    \/ \E p \in Pages!Start :
                         (p < Len(Full) /\ U(p + PostsPerPage) = U(p)) /\ walk[c].seen = U(p)
    <2>1. SeenRight(walk[c])
      BY DEF WalksRight, WalkRight
    <2> QED BY <1>1, <2>1 DEF SeenRight, Ended
  <1> QED BY <1>2 DEF Pages!WalkExact, Full, U

(***************************************************************************)
(* Who walks a list page after page gets each row that is there all the    *)
(* time once and none twice: in the feed for any number of tabs and of     *)
(* notes, any order, any size of the pages, and however often its caches   *)
(* go away; in a list by cursor for any number of rows, whatever comes and *)
(* goes (feed_service.go:122-184, and the queries Lists names).            *)
(***************************************************************************)
THEOREM WalksExactHolds == Pages!Spec /\ Page!Spec => []WalksExact
  <1> DEFINE Inv == PagesTyped /\ WalksRight
  <1>1. Pages!Init => Inv
    BY PagesStart, WalksStart
  <1>2. Inv /\ [Pages!Next]_(Pages!vars) => Inv'
    BY PagesTypedStep, WalksStep
  <1>3. Inv /\ ListsInv => WalksExact
    BY WalksHold, ShownOnceHolds DEF WalksExact
  <1>4. Page!Spec => []ListsInv
    BY ListsInvariant
  <1> QED BY <1>1, <1>2, <1>3, <1>4, PTL DEF Pages!Spec
=============================================================================
