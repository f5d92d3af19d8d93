------------------------ MODULE Notifications_proofs ------------------------
(***************************************************************************)
(* Proofs about what users are told: notifications, for every set of users *)
(* and of blocks, every number of entries, every batch size and every      *)
(* number of faults; and direct messages, for every set of users, drafts   *)
(* and requests and every number of deletions and faults.                  *)
(***************************************************************************)
EXTENDS NotificationsMC, FunctionTheorems, FiniteSetTheorems, TLAPS

(***************************************************************************)
(* The inductive invariant.  It follows a batch through the handler: what  *)
(* the handler is about to insert was built from entries of the stream;    *)
(* and whoever is to be told of an entry of the batch has a row in hand    *)
(* until ExistsPairs, a row in hand or in the table until the INSERT, and  *)
(* a row in the table after it.                                            *)
(***************************************************************************)
RowsAbout(m) == DirectRows(m) \cup MentionRows(m) \cup ShieldedRows(m)

\* Row r of entry m may be told: across a block only if its check failed.
Allowed(r, m) ==
  \/ r \in DirectRows(m) \cup MentionRows(m)
  \/ r \in ShieldedRows(m) /\ <<r.event, r.user>> \in unchecked

\* The same of a row of the table.
Caused(s, m) ==
  \/ \E x \in DirectRows(m) \cup MentionRows(m) : s = Row(x)
  \/ <<s.event, s.user>> \in unchecked /\ \E x \in ShieldedRows(m) : s = Row(x)

\* Who is to be told of entry m, going by what has failed so far.
Owed(m) == Users(DirectRows(m)) \cup {u \in Users(MentionRows(m)) : faults = 0}

InHand(u, m) == \E r \in worker.new : r.event = evts[m].id /\ r.user = u

StreamRecorded ==
  evts \in Seq([id: 1..MaxMsg, what: Event]) /\ Len(evts) = length

WorkerShape ==
  /\ worker = [pc |-> worker.pc, new |-> worker.new]
  /\ worker.pc \in {"idle", "exists", "insert", "incr"}

\* The handler works on a batch it is not done with.
WorkerOnBatch == worker.pc # "idle" => batch # {} /\ ~done

BuiltFromEntries == \A r \in worker.new : r.entry \in DOMAIN evts /\ Allowed(r, r.entry)

BatchCovered ==
  \A m \in batch : \A u \in Owed(m) :
    /\ worker.pc = "exists" => InHand(u, m)
    /\ worker.pc = "insert" => InHand(u, m) \/ Has(u, m)
    /\ worker.pc = "incr" => Has(u, m)

HandledTold == \A m \in handled : \A u \in Owed(m) : Has(u, m)

NotifyInv ==
  /\ Group!TypeOK /\ StreamRecorded
  /\ WorkerShape /\ WorkerOnBatch /\ BuiltFromEntries
  /\ BatchCovered /\ HandledTold /\ NoSpurious
-----------------------------------------------------------------------------
(***************************************************************************)
(* The stream only grows: entries keep their place.                        *)
(***************************************************************************)
LEMMA AppendKeeps ==
  ASSUME StreamRecorded, NEW x \in [id: 1..MaxMsg, what: Event],
         evts' = Append(evts, x), length' = length + 1
  PROVE  /\ StreamRecorded'
         /\ DOMAIN evts \subseteq DOMAIN evts'
         /\ \A m \in DOMAIN evts : evts'[m] = evts[m]
  BY DEF StreamRecorded

\* An entry of a sequence is of its kind.
LEMMA ElementOfSeq == ASSUME NEW S, NEW s \in Seq(S), NEW i \in DOMAIN s PROVE s[i] \in S
  OBVIOUS

\* Entries that keep their place keep who is told of them.
LEMMA RowsKept ==
  ASSUME NEW m, evts'[m] = evts[m]
  PROVE  /\ DirectRows(m)' = DirectRows(m)
         /\ MentionRows(m)' = MentionRows(m)
         /\ ShieldedRows(m)' = ShieldedRows(m)
         /\ RowsAbout(m)' = RowsAbout(m)
  BY DEF DirectRows, MentionRows, ShieldedRows, RowsAbout, RowsOf

\* And what may be told stays so when more checks fail.
LEMMA AllowedKept ==
  ASSUME NEW m, evts'[m] = evts[m], unchecked \subseteq unchecked'
  PROVE  \A r : (Allowed(r, m) => Allowed(r, m)') /\ (Caused(r, m) => Caused(r, m)')
  BY RowsKept DEF Allowed, Caused

\* A row of an entry is for one the entry names, who did not act himself.
LEMMA RowsOfEntry ==
  ASSUME NEW m, NEW r \in RowsAbout(m)
  PROVE  r.entry = m /\ r.event = evts[m].id /\ r.user # evts[m].what.actor
  BY DEF RowsAbout, DirectRows, MentionRows, ShieldedRows, RowsOf

LEMMA AllowedAbout == ASSUME NEW m, NEW r, Allowed(r, m) PROVE r \in RowsAbout(m)
  BY DEF Allowed, RowsAbout

LEMMA NothingSpurious ==
  NoSpurious <=> \A r \in notifs : \E m \in DOMAIN evts : Caused(r, m) /\ r.user # evts[m].what.actor
  BY DEF NoSpurious, Caused

\* The users of the rows of an entry have rows of that event.
LEMMA UsersHaveRows ==
  ASSUME NEW m, NEW R \in SUBSET RowsAbout(m), NEW u \in Users(R)
  PROVE  \E r \in R : r.event = evts[m].id /\ r.user = u
  BY RowsOfEntry DEF Users

\* Nobody more is owed once something has failed.
LEMMA OwedShrinks ==
  ASSUME NEW m, evts'[m] = evts[m], Group!TypeOK, faults' = faults \/ faults' = faults + 1
  PROVE  Owed(m)' \subseteq Owed(m)
  <1>1. faults \in Nat
    BY DEF Group!TypeOK
  <1>2. faults' = 0 => faults = 0
    BY <1>1
  <1> QED BY <1>2, RowsKept DEF Owed, Users
-----------------------------------------------------------------------------
(***************************************************************************)
(* The group.                                                              *)
(***************************************************************************)
LEMMA GroupStepTyped ==
  ASSUME Group!TypeOK, [Group!Next]_groupVars PROVE Group!TypeOK'
  <1> USE DEF Group!TypeOK
  <1>1. CASE Group!Publish
    BY <1>1, NotificationsAssumption DEF Group!Publish
  <1>2. CASE Group!ReadGroup
    <2>1. last \in Nat /\ length \in Nat /\ last < length
      BY <1>2, NotificationsAssumption DEF Group!ReadGroup
    <2>2. PICK n \in Nat \ {0} : /\ n <= length - last /\ last' = last + n
                                 /\ batch' = (last + 1)..(last + n)
                                 /\ pending' = pending \cup (last + 1)..(last + n)
      <3> DEFINE n == IF length - last < BatchSize THEN length - last ELSE BatchSize
      <3>1. n \in Nat \ {0} /\ n <= length - last
        BY <2>1, NotificationsAssumption
      <3> QED BY <1>2, <3>1 DEF Group!ReadGroup
    <2>3. /\ last' \in 0..length /\ batch' \subseteq 1..last' /\ 1..last \subseteq 1..last'
          /\ pending' = pending \cup batch'
      BY <2>1, <2>2
    <2>4. UNCHANGED <<length, handled, faults>> /\ done' = done
      BY <1>2 DEF Group!ReadGroup
    <2>5. done' \in BOOLEAN
      BY <2>4
    <2> QED BY <2>3, <2>4, <2>5, NotificationsAssumption
  <1>3. CASE Group!HandleOk
    BY <1>3 DEF Group!HandleOk
  <1>4. CASE Group!AckBatch
    BY <1>4 DEF Group!AckBatch
  <1>5. CASE Group!HandleFail \/ Group!AckFail \/ Group!Crash
    <2>1. Group!Abandon
      BY <1>5 DEF Group!HandleFail, Group!AckFail, Group!Crash
    <2>2. /\ batch' = {} /\ faults' \in 0..MaxFaults
          /\ UNCHANGED <<length, last, pending, handled>>
      BY <2>1, NotificationsAssumption DEF Group!Abandon, Group!Fault
    <2>3. done' = FALSE
      BY <2>1 DEF Group!Abandon
    <2> QED BY <2>2, <2>3
  <1>6. CASE Group!ReadNothing \/ UNCHANGED groupVars
    <2>1. UNCHANGED <<length, last, pending, batch, handled, faults>> /\ done' = done
      BY <1>6 DEF Group!ReadNothing, Group!vars, groupVars
    <2> QED BY <2>1
  <1> QED
    BY <1>1, <1>2, <1>3, <1>4, <1>5, <1>6 DEF Group!Next, Group!LoopStep

\* What happens beside the handler, between its batches or during one.
LEMMA AsideKeeps ==
  ASSUME NotifyInv, Group!TypeOK',
         UNCHANGED <<evts, notifs, worker, unchecked, length, handled>>,
         faults' = faults \/ faults' = faults + 1,
         (batch' = batch /\ done' = done) \/ worker.pc = "idle"
  PROVE  NotifyInv'
  <1> USE DEF NotifyInv
  <1>1. StreamRecorded' /\ WorkerShape'
    BY DEF StreamRecorded, WorkerShape
  <1>2. \A m, r : /\ Allowed(r, m) => Allowed(r, m)'
                  /\ Caused(r, m) => Caused(r, m)'
    BY AllowedKept
  <1>7. BuiltFromEntries'
    BY <1>2 DEF BuiltFromEntries
  <1>8. NoSpurious'
    <2> SUFFICES ASSUME NEW r \in notifs
                 PROVE  \E m \in DOMAIN evts' : Caused(r, m)' /\ r.user # evts'[m].what.actor
      BY DEF NoSpurious, Caused
    <2>1. PICK m \in DOMAIN evts : Caused(r, m) /\ r.user # evts[m].what.actor
      BY NothingSpurious
    <2> QED BY <1>2, <2>1
  <1>3. WorkerOnBatch'
    BY DEF WorkerOnBatch
  <1>4. \A m : /\ Owed(m)' \subseteq Owed(m)
               /\ \A u : (InHand(u, m)' <=> InHand(u, m)) /\ (Has(u, m)' <=> Has(u, m))
    BY OwedShrinks DEF InHand, Has
  <1>5. BatchCovered'
    BY <1>4 DEF BatchCovered
  <1>6. HandledTold'
    BY <1>4 DEF HandledTold
  <1> QED BY <1>1, <1>3, <1>5, <1>6, <1>7, <1>8

\* A new entry, or an old one again.
LEMMA PublishKeeps ==
  ASSUME NotifyInv, Group!Publish, UNCHANGED <<notifs, worker, unchecked>>,
         NEW x \in [id: 1..MaxMsg, what: Event], evts' = Append(evts, x)
  PROVE  NotifyInv'
  <1> USE DEF NotifyInv
  <1>1. Group!TypeOK'
    BY GroupStepTyped DEF Group!Next
  <1>2. UNCHANGED <<last, batch, handled, faults>> /\ done' = done /\ length' = length + 1
    BY DEF Group!Publish
  <1>3. /\ StreamRecorded' /\ DOMAIN evts \subseteq DOMAIN evts'
        /\ \A m \in DOMAIN evts : evts'[m] = evts[m]
    BY <1>2, AppendKeeps
  <1>4. WorkerShape' /\ WorkerOnBatch'
    BY <1>2 DEF WorkerShape, WorkerOnBatch
  <1>5. \A m \in DOMAIN evts : \A r : /\ Allowed(r, m) => Allowed(r, m)'
                                      /\ Caused(r, m) => Caused(r, m)'
    BY <1>3, AllowedKept
  <1>6. BuiltFromEntries'
    BY <1>3, <1>5 DEF BuiltFromEntries
  <1>7. NoSpurious'
    <2> SUFFICES ASSUME NEW r \in notifs
                 PROVE  \E m \in DOMAIN evts' : Caused(r, m)' /\ r.user # evts'[m].what.actor
      BY DEF NoSpurious, Caused
    <2>1. PICK m \in DOMAIN evts : Caused(r, m) /\ r.user # evts[m].what.actor
      BY NothingSpurious
    <2> QED BY <1>3, <1>5, <2>1
  <1>8. batch \subseteq DOMAIN evts /\ handled \subseteq DOMAIN evts
    BY NotificationsAssumption DEF Group!TypeOK, StreamRecorded
  <1>9. \A m \in DOMAIN evts :
          /\ Owed(m)' \subseteq Owed(m)
          /\ \A u : (InHand(u, m)' <=> InHand(u, m)) /\ (Has(u, m)' <=> Has(u, m))
    BY <1>2, <1>3, OwedShrinks DEF InHand, Has
  <1>10. BatchCovered' /\ HandledTold'
    BY <1>2, <1>8, <1>9 DEF BatchCovered, HandledTold
  <1> QED BY <1>1, <1>3, <1>4, <1>6, <1>7, <1>10
-----------------------------------------------------------------------------
(***************************************************************************)
(* The handler.                                                            *)
(***************************************************************************)
\* The rows of a batch are built from its entries, for all who are owed one.
LEMMA BuildKeeps == ASSUME NotifyInv, BuildRows PROVE NotifyInv'
  <1> USE DEF NotifyInv
  <1>1. /\ UNCHANGED <<length, last, pending, batch, handled, evts, notifs>> /\ done' = done
        /\ batch # {} /\ ~done
    BY DEF BuildRows
  <1>2. PICK new :
          /\ worker' = [pc |-> "exists", new |-> new]
          /\ unchecked \subseteq unchecked'
          /\ \A r \in new : \E m \in batch :
               \/ r \in DirectRows(m) \cup MentionRows(m)
               \/ r \in ShieldedRows(m) /\ <<r.event, r.user>> \in unchecked'
          /\ \A m \in batch : DirectRows(m) \subseteq new
          /\ \/ UNCHANGED faults /\ \A m \in batch : MentionRows(m) \subseteq new
             \/ Group!Fault
    <2> DEFINE direct == UNION {DirectRows(m) : m \in batch}
               mentions == UNION {MentionRows(m) : m \in batch}
               shielded == UNION {ShieldedRows(m) : m \in batch}
    <2>1. /\ \A r \in direct \cup mentions : \E m \in batch : r \in DirectRows(m) \cup MentionRows(m)
          /\ \A m \in batch : DirectRows(m) \subseteq direct /\ MentionRows(m) \subseteq mentions
          /\ \A r \in shielded : \E m \in batch : r \in ShieldedRows(m)
      OBVIOUS
    <2>2. \/ Built(direct \cup mentions) /\ UNCHANGED <<faults, unchecked>>
          \/ Built(direct) /\ Group!Fault /\ UNCHANGED unchecked
          \/ \E F \in SUBSET shielded :
               /\ Group!Fault /\ Built(direct \cup mentions \cup F)
               /\ unchecked' = unchecked \cup {<<r.event, r.user>> : r \in F}
      BY DEF BuildRows
    <2> HIDE DEF direct, mentions, shielded
    <2>3. CASE Built(direct \cup mentions) /\ UNCHANGED <<faults, unchecked>>
      <3> DEFINE new == direct \cup mentions
      <3>1. /\ worker' = [pc |-> "exists", new |-> new] /\ unchecked' = unchecked /\ UNCHANGED faults
            /\ direct \subseteq new /\ mentions \subseteq new
        BY <2>3 DEF Built
      <3>2. \A r \in new : \E m \in batch : r \in DirectRows(m) \cup MentionRows(m)
        BY <2>1
      <3>3. \A m \in batch : DirectRows(m) \subseteq new /\ MentionRows(m) \subseteq new
        BY <2>1, <3>1
      <3> HIDE DEF new
      <3> QED BY <3>1, <3>2, <3>3
    <2>4. CASE Built(direct) /\ Group!Fault /\ UNCHANGED unchecked
      BY <2>1, <2>4 DEF Built
    <2>5. CASE \E F \in SUBSET shielded :
                 /\ Group!Fault /\ Built(direct \cup mentions \cup F)
                 /\ unchecked' = unchecked \cup {<<r.event, r.user>> : r \in F}
      <3> PICK F \in SUBSET shielded :
            /\ Group!Fault /\ Built(direct \cup mentions \cup F)
            /\ unchecked' = unchecked \cup {<<r.event, r.user>> : r \in F}
        BY <2>5
      <3> DEFINE new == direct \cup mentions \cup F
      <3>1. /\ worker' = [pc |-> "exists", new |-> new] /\ unchecked \subseteq unchecked'
            /\ direct \subseteq new /\ \A r \in F : <<r.event, r.user>> \in unchecked'
        BY DEF Built
      <3>2. \A r \in new : \E m \in batch :
              \/ r \in DirectRows(m) \cup MentionRows(m)
              \/ r \in ShieldedRows(m) /\ <<r.event, r.user>> \in unchecked'
        BY <2>1, <3>1
      <3>3. \A m \in batch : DirectRows(m) \subseteq new
        BY <2>1, <3>1
      <3> HIDE DEF new
      <3> QED BY <3>1, <3>2, <3>3
    <2> QED BY <2>2, <2>3, <2>4, <2>5
  <1>3. batch \subseteq DOMAIN evts
    BY NotificationsAssumption DEF Group!TypeOK, StreamRecorded
  <1>4. faults \in Nat /\ faults' \in 0..MaxFaults /\ (faults' = faults \/ faults' # 0)
    BY <1>2, NotificationsAssumption DEF Group!TypeOK, Group!Fault
  <1>5. Group!TypeOK' /\ StreamRecorded'
    BY <1>1, <1>4 DEF Group!TypeOK, StreamRecorded
  <1>6. WorkerShape' /\ WorkerOnBatch'
    BY <1>1, <1>2 DEF WorkerShape, WorkerOnBatch
  <1>7. \A m : /\ DirectRows(m)' = DirectRows(m) /\ MentionRows(m)' = MentionRows(m)
               /\ ShieldedRows(m)' = ShieldedRows(m)
    BY <1>1, RowsKept
  <1>8. BuiltFromEntries'
    <2> SUFFICES ASSUME NEW r \in new PROVE r.entry \in DOMAIN evts' /\ Allowed(r, r.entry)'
      BY <1>2 DEF BuiltFromEntries
    <2>1. PICK m \in batch : \/ r \in DirectRows(m) \cup MentionRows(m)
                             \/ r \in ShieldedRows(m) /\ <<r.event, r.user>> \in unchecked'
      BY <1>2
    <2>2. r.entry = m
      BY <2>1, RowsOfEntry DEF RowsAbout
    <2> QED BY <1>1, <1>3, <1>7, <2>1, <2>2 DEF Allowed
  <1>9. BatchCovered'
    <2> SUFFICES ASSUME NEW m \in batch, NEW u \in Owed(m)'
                 PROVE  InHand(u, m)'
      BY <1>1, <1>2 DEF BatchCovered
    <2>1. u \in Users(DirectRows(m)) \/ (faults' = 0 /\ u \in Users(MentionRows(m)))
      BY <1>7 DEF Owed, Users
    <2>2. PICK R \in {DirectRows(m), MentionRows(m)} : u \in Users(R) /\ R \subseteq new
      <3>1. faults' = 0 => MentionRows(m) \subseteq new
        BY <1>2, <1>4 DEF Group!Fault, Group!TypeOK
      <3> QED BY <2>1, <3>1, <1>2
    <2>3. PICK r \in R : r.event = evts[m].id /\ r.user = u
      BY <2>2, UsersHaveRows DEF RowsAbout
    <2> QED BY <2>2, <2>3, <1>1, <1>2 DEF InHand
  <1>10. \A m : Owed(m)' \subseteq Owed(m)
    BY <1>7, <1>4 DEF Owed, Users
  <1>11. HandledTold'
    BY <1>1, <1>10 DEF HandledTold, Has
  <1>12. NoSpurious'
    BY <1>1, <1>2, <1>7 DEF NoSpurious
  <1> QED BY <1>5, <1>6, <1>8, <1>9, <1>11, <1>12

\* The other calls of the handler leave the batch and the stream alone.
LEMMA CallKeeps ==
  ASSUME NotifyInv, UNCHANGED <<groupVars, evts, unchecked>>
  PROVE  /\ Group!TypeOK' /\ StreamRecorded'
         /\ \A m : Owed(m)' = Owed(m) /\ \A r : Allowed(r, m) => Allowed(r, m)'
  <1>1. UNCHANGED <<length, last, pending, batch, handled, faults>> /\ done' = done
    BY DEF groupVars
  <1>2. \A m : /\ DirectRows(m)' = DirectRows(m) /\ MentionRows(m)' = MentionRows(m)
               /\ \A r : Allowed(r, m) => Allowed(r, m)'
    BY RowsKept, AllowedKept
  <1>3. \A m : Owed(m)' = Owed(m)
    BY <1>1, <1>2 DEF Owed, Users
  <1>4. Group!TypeOK'
    BY <1>1 DEF NotifyInv, Group!TypeOK
  <1> QED BY <1>1, <1>2, <1>3, <1>4 DEF NotifyInv, StreamRecorded

\* Who loses his row in hand has one in the table.
LEMMA ExistsKeeps == ASSUME NotifyInv, ExistsPairs PROVE NotifyInv'
  <1> USE DEF NotifyInv
  <1> DEFINE new == {r \in worker.new : \A s \in notifs : s.event # r.event \/ s.user # r.user}
  <1>1. /\ worker.pc = "exists" /\ UNCHANGED <<groupVars, evts, notifs, unchecked>>
        /\ worker' = [pc |-> IF new = {} THEN "incr" ELSE "insert", new |-> new]
    BY DEF ExistsPairs
  <1>2. UNCHANGED <<batch, handled>> /\ done' = done
    BY <1>1 DEF groupVars
  <1> HIDE DEF new
  <1>3. /\ Group!TypeOK' /\ StreamRecorded'
        /\ \A m : Owed(m)' = Owed(m) /\ \A r : Allowed(r, m) => Allowed(r, m)'
    BY <1>1, CallKeeps
  <1>4. new \subseteq worker.new
    BY DEF new
  <1>5. WorkerShape' /\ WorkerOnBatch'
    BY <1>1, <1>2 DEF WorkerShape, WorkerOnBatch
  <1>6. BuiltFromEntries'
    BY <1>1, <1>3, <1>4 DEF BuiltFromEntries
  <1>7. BatchCovered'
    <2> SUFFICES ASSUME NEW m \in batch, NEW u \in Owed(m)
                 PROVE  /\ worker'.pc = "insert" => InHand(u, m)' \/ Has(u, m)'
                        /\ worker'.pc = "incr" => Has(u, m)'
      BY <1>1, <1>2, <1>3 DEF BatchCovered
    <2>1. PICK r \in worker.new : r.event = evts[m].id /\ r.user = u
      BY <1>1 DEF BatchCovered, InHand
    <2>2. r \in new \/ Has(u, m)
      BY <2>1 DEF Has, new
    <2> QED BY <1>1, <2>1, <2>2 DEF InHand, Has
  <1>8. HandledTold'
    BY <1>1, <1>2, <1>3 DEF HandledTold, Has
  <1>9. NoSpurious'
    BY <1>1, RowsKept DEF NoSpurious
  <1> QED BY <1>3, <1>5, <1>6, <1>7, <1>8, <1>9

\* Whom a row does not only mention is told directly.
LEMMA ToldDirectly ==
  ASSUME NEW m, NEW r \in RowsAbout(m), r.type # "mentioned"
  PROVE  <<r.user, r.type>> \in Direct(evts[m].what)
  <1> PICK e : e = evts[m].what
    OBVIOUS
  <1>1. PICK S, t : /\ t \in Direct(e) \cup Mentioned(S)
                    /\ r.user = t[1] /\ r.type = t[2]
    <2>1. CASE r \in DirectRows(m)
      BY <2>1 DEF DirectRows, RowsOf
    <2>2. CASE r \in MentionRows(m)
      BY <2>2 DEF MentionRows, RowsOf
    <2>3. CASE r \in ShieldedRows(m)
      BY <2>3 DEF ShieldedRows, RowsOf
    <2> QED BY <2>1, <2>2, <2>3 DEF RowsAbout
  <1>2. t \in Direct(e)
    <2>1. ASSUME t \in Mentioned(S) PROVE FALSE
      <3>1. PICK u : t = <<u, "mentioned">>
        BY <2>1 DEF Mentioned
      <3> QED BY <1>1, <3>1
    <2> QED BY <1>1, <2>1
  <1>3. \E u, k : t = <<u, k>>
    BY <1>2 DEF Direct
  <1> QED BY <1>1, <1>2, <1>3

\* The INSERT leaves a row for every event and user it has one for.
LEMMA InsertedCovers ==
  ASSUME NEW new, NEW r \in new
  PROVE  \E s \in Inserted(new) : s.event = r.event /\ s.user = r.user
  <1> DEFINE direct(x) == \E s \in new : s.type # "mentioned" /\ s.event = x.event /\ s.user = x.user
  <1>1. \A x \in new : (x.type = "mentioned" => ~direct(x)) => Row(x) \in Inserted(new)
    BY DEF Inserted
  <1>2. PICK x \in new : /\ x.event = r.event /\ x.user = r.user
                         /\ x.type = "mentioned" => ~direct(x)
    OBVIOUS
  <1>3. Row(x).event = r.event /\ Row(x).user = r.user
    BY <1>2 DEF Row
  <1> QED BY <1>1, <1>2, <1>3

\* And every row it leaves was caused.
LEMMA InsertedCaused ==
  ASSUME BuiltFromEntries, NEW s \in Inserted(worker.new)
  PROVE  \E m \in DOMAIN evts : Caused(s, m) /\ s.user # evts[m].what.actor
  <1>1. PICK x \in worker.new : s = Row(x)
    BY DEF Inserted
  <1>2. x.entry \in DOMAIN evts /\ Allowed(x, x.entry)
    BY DEF BuiltFromEntries
  <1>3. s.event = x.event /\ s.user = x.user
    BY <1>1 DEF Row
  <1>4. s.user # evts[x.entry].what.actor
    BY <1>2, <1>3, AllowedAbout, RowsOfEntry
  <1>5. Caused(s, x.entry)
    BY <1>1, <1>2, <1>3 DEF Caused, Allowed
  <1> QED BY <1>2, <1>4, <1>5

\* The table after the INSERT, whether or not its answer arrives.
LEMMA InsertKeeps ==
  ASSUME NotifyInv, UNCHANGED <<evts, unchecked>>,
         notifs' = notifs \/ notifs' = notifs \cup Inserted(worker.new)
  PROVE  /\ NoSpurious'
         /\ \A m, u : Has(u, m) => Has(u, m)'
  <1>1. \A m, r : Caused(r, m) => Caused(r, m)'
    BY AllowedKept
  <1>2. \A s \in notifs' :
          \E m \in DOMAIN evts : Caused(s, m) /\ s.user # evts[m].what.actor
    BY InsertedCaused, NothingSpurious DEF NotifyInv
  <1>3. NoSpurious'
    <2> SUFFICES ASSUME NEW r \in notifs'
                 PROVE  \E m \in DOMAIN evts' : Caused(r, m)' /\ r.user # evts'[m].what.actor
      BY DEF NoSpurious, Caused
    <2> QED BY <1>1, <1>2
  <1> QED BY <1>3 DEF Has

LEMMA BulkCreateKeeps == ASSUME NotifyInv, BulkCreate PROVE NotifyInv'
  <1> USE DEF NotifyInv
  <1>1. /\ worker.pc = "insert" /\ UNCHANGED <<groupVars, evts, unchecked>>
        /\ notifs' = notifs \cup Inserted(worker.new)
        /\ worker' = [pc |-> "incr", new |-> worker.new]
    BY DEF BulkCreate, WorkerShape
  <1>2. UNCHANGED <<batch, handled>> /\ done' = done
    BY <1>1 DEF groupVars
  <1>3. /\ Group!TypeOK' /\ StreamRecorded'
        /\ \A m : Owed(m)' = Owed(m) /\ \A r : Allowed(r, m) => Allowed(r, m)'
    BY <1>1, CallKeeps
  <1>4. NoSpurious' /\ \A m, u : Has(u, m) => Has(u, m)'
    BY <1>1, InsertKeeps
  <1>5. WorkerShape' /\ WorkerOnBatch'
    BY <1>1, <1>2 DEF WorkerShape, WorkerOnBatch
  <1>6. BuiltFromEntries'
    BY <1>1, <1>3 DEF BuiltFromEntries
  <1>7. BatchCovered'
    <2> SUFFICES ASSUME NEW m \in batch, NEW u \in Owed(m) PROVE Has(u, m)'
      BY <1>1, <1>2, <1>3 DEF BatchCovered
    <2>1. CASE Has(u, m)
      BY <2>1, <1>4
    <2>2. CASE InHand(u, m)
      <3>1. PICK r \in worker.new : r.event = evts[m].id /\ r.user = u
        BY <2>2 DEF InHand
      <3>2. PICK s \in Inserted(worker.new) : s.event = evts[m].id /\ s.user = u
        BY <3>1, InsertedCovers
      <3> QED BY <3>2, <1>1 DEF Has
    <2> QED BY <2>1, <2>2, <1>1 DEF BatchCovered
  <1>8. HandledTold'
    BY <1>2, <1>3, <1>4 DEF HandledTold
  <1> QED BY <1>3, <1>4, <1>5, <1>6, <1>7, <1>8

\* The handler returns nil: its batch is handled, and everybody has been told.
LEMMA ReturnKeeps ==
  ASSUME NotifyInv, worker.pc = "incr", worker' = Resting, UNCHANGED <<evts, notifs, unchecked>>,
         UNCHANGED <<length, last, pending, batch>>, faults' \in 0..MaxFaults,
         faults' = faults \/ faults' = faults + 1,
         done' = TRUE, handled' = handled \cup batch
  PROVE  NotifyInv'
  <1> USE DEF NotifyInv
  <1>1. Group!TypeOK' /\ StreamRecorded'
    BY DEF Group!TypeOK, StreamRecorded
  <1>2. worker'.pc = "idle" /\ worker'.new = {}
    BY DEF Resting
  <1>3. WorkerShape'
    BY DEF WorkerShape, Resting
  <1>4. WorkerOnBatch' /\ BuiltFromEntries' /\ BatchCovered'
    BY <1>2 DEF WorkerOnBatch, BuiltFromEntries, BatchCovered
  <1>5. \A m : Owed(m)' \subseteq Owed(m)
    BY OwedShrinks
  <1>6. HandledTold'
    BY <1>5 DEF HandledTold, BatchCovered, Has
  <1>7. NoSpurious'
    BY InsertKeeps
  <1> QED BY <1>1, <1>3, <1>4, <1>6, <1>7

\* A batch that fails, or a worker that dies, leaves nothing in hand.
LEMMA AbandonKeeps ==
  ASSUME NotifyInv, Group!Abandon, worker' = Resting, UNCHANGED <<evts, unchecked>>,
         notifs' = notifs \/ notifs' = notifs \cup Inserted(worker.new)
  PROVE  NotifyInv'
  <1> USE DEF NotifyInv
  <1>1. /\ batch' = {} /\ faults' \in 0..MaxFaults /\ faults' = faults + 1
        /\ UNCHANGED <<length, last, pending, handled>>
    BY NotificationsAssumption DEF Group!Abandon, Group!Fault, Group!TypeOK
  <1>2. done' = FALSE
    BY DEF Group!Abandon
  <1>3. Group!TypeOK' /\ StreamRecorded'
    BY <1>1, <1>2 DEF Group!TypeOK, StreamRecorded
  <1>4. WorkerShape' /\ worker'.pc = "idle" /\ worker'.new = {}
    BY DEF WorkerShape, Resting
  <1>5. WorkerOnBatch' /\ BuiltFromEntries' /\ BatchCovered'
    BY <1>1, <1>4 DEF WorkerOnBatch, BuiltFromEntries, BatchCovered
  <1>6. \A m : Owed(m)' \subseteq Owed(m)
    BY <1>1, OwedShrinks
  <1>7. NoSpurious' /\ \A m, u : Has(u, m) => Has(u, m)'
    BY InsertKeeps
  <1>8. HandledTold'
    BY <1>1, <1>6, <1>7 DEF HandledTold
  <1> QED BY <1>3, <1>4, <1>5, <1>7, <1>8
-----------------------------------------------------------------------------
(***************************************************************************)
(* The requests and the expiry of a number touch nothing of the handler    *)
(* and of the group only how much has failed.                              *)
(***************************************************************************)
Requested == (\E u \in User : ExpireUnread(u)) \/ (\E q \in Reader : ReaderStep(q))

LEMMA RequestAside ==
  ASSUME Requested
  PROVE  /\ UNCHANGED <<length, last, pending, batch, handled, evts, notifs, worker, unchecked>>
         /\ done' = done
         /\ faults' = faults \/ Group!Fault
  <1>1. CASE \E u \in User : ExpireUnread(u)
    BY <1>1 DEF ExpireUnread, groupVars
  <1>2. CASE \E q \in Reader : ReaderStep(q)
    <2> PICK q \in Reader : ReaderStep(q)
      BY <1>2
    <2>1. CASE \E u \in User : MarkRead(q, u) \/ UnreadMiss(q, u)
      BY <2>1 DEF MarkRead, UnreadMiss, groupVars, GroupButFaults
    <2>2. CASE DeleteUnread(q) \/ CountUnread(q) \/ SetUnread(q)
      BY <2>2 DEF DeleteUnread, CountUnread, SetUnread, groupVars
    <2>3. CASE DeleteUnreadFail(q) \/ UnreadFail(q)
      BY <2>3 DEF DeleteUnreadFail, UnreadFail, GroupButFaults
    <2> QED BY <2>1, <2>2, <2>3 DEF ReaderStep
  <1> QED BY <1>1, <1>2 DEF Requested
-----------------------------------------------------------------------------
(***************************************************************************)
(* The theorems.                                                           *)
(***************************************************************************)
LEMMA NotifyInvariant == Spec => []NotifyInv
  <1>1. Init => NotifyInv
    <2> SUFFICES ASSUME Init PROVE NotifyInv
      OBVIOUS
    <2>1. /\ length = 0 /\ last = 0 /\ faults = 0 /\ pending = {} /\ batch = {} /\ handled = {}
          /\ evts = <<>> /\ notifs = {}
      BY DEF Init, Group!Init
    <2>2. done = FALSE
      BY DEF Init, Group!Init
    <2>3. Group!TypeOK
      <3>1. 0 \in 0..MaxMsg /\ 0 \in 0..0 /\ 0 \in 0..MaxFaults
        BY NotificationsAssumption
      <3>2. done \in BOOLEAN
        BY <2>2
      <3>3. /\ length \in 0..MaxMsg /\ last \in 0..length /\ faults \in 0..MaxFaults
            /\ pending \subseteq 1..last /\ batch \subseteq 1..last /\ handled \subseteq 1..last
        BY <2>1, <3>1
      <3> QED BY <3>2, <3>3 DEF Group!TypeOK
    <2>4. StreamRecorded
      BY <2>1 DEF StreamRecorded
    <2>5. WorkerShape /\ worker.pc = "idle" /\ worker.new = {}
      BY DEF Init, WorkerShape, Resting
    <2> QED
      BY <2>1, <2>3, <2>4, <2>5
      DEF NotifyInv, WorkerOnBatch, BuiltFromEntries, BatchCovered, HandledTold, NoSpurious
  <1>2. NotifyInv /\ [Next]_vars => NotifyInv'
    <2> SUFFICES ASSUME NotifyInv, [Next]_vars PROVE NotifyInv'
      OBVIOUS
    <2>1. CASE \E e \in Event : Emit(e)
      <3> PICK e \in Event : Emit(e)
        BY <2>1
      <3>1. length' \in 1..MaxMsg
        BY NotificationsAssumption DEF Emit, Group!Publish, NotifyInv, Group!TypeOK
      <3> QED BY <3>1, PublishKeeps DEF Emit
    <2>2. CASE \E m \in DOMAIN evts : Republish(m)
      <3> PICK m \in DOMAIN evts : Republish(m)
        BY <2>2
      <3>1. evts[m] \in [id: 1..MaxMsg, what: Event]
        <4>1. evts \in Seq([id: 1..MaxMsg, what: Event])
          BY DEF NotifyInv, StreamRecorded
        <4> QED BY <4>1, ElementOfSeq
      <3> QED BY <3>1, PublishKeeps DEF Republish
    <2>3. CASE BuildRows \/ ExistsPairs \/ BulkCreate
      BY <2>3, BuildKeeps, ExistsKeeps, BulkCreateKeeps
    <2>4. CASE IncrByMany
      <3>1. UNCHANGED faults /\ faults \in 0..MaxFaults
        BY <2>4 DEF IncrByMany, Group!HandleOk, NotifyInv, Group!TypeOK
      <3> QED BY <2>4, <3>1, ReturnKeeps DEF IncrByMany, Group!HandleOk
    <2>5. CASE IncrByManyFail
      <3>1. faults' = faults + 1 /\ faults' \in 0..MaxFaults
        BY <2>5, NotificationsAssumption
        DEF IncrByManyFail, Group!Fault, NotifyInv, Group!TypeOK
      <3> QED BY <2>5, <3>1, ReturnKeeps DEF IncrByManyFail
    <2>6. CASE HandleFail
      BY <2>6, AbandonKeeps DEF HandleFail, Group!HandleFail
    <2>7. CASE Crash
      BY <2>7, AbandonKeeps DEF Crash, Group!Crash
    <2>8. CASE GroupRead
      <3>1. worker.pc = "idle"
        BY <2>8 DEF GroupRead, Group!ReadGroup, Group!ReadNothing, NotifyInv, WorkerOnBatch
      <3>2. Group!TypeOK'
        BY <2>8, GroupStepTyped DEF NotifyInv, GroupRead, Group!Next, Group!LoopStep
      <3> QED BY <2>8, <3>1, <3>2, AsideKeeps
              DEF GroupRead, Aside, Group!ReadGroup, Group!ReadNothing, Group!vars
    <2>9. CASE GroupAck \/ GroupAckFail
      <3>1. worker.pc = "idle"
        BY <2>9 DEF GroupAck, GroupAckFail, Group!AckBatch, Group!AckFail, NotifyInv, WorkerOnBatch
      <3>2. Group!TypeOK'
        BY <2>9, GroupStepTyped DEF NotifyInv, GroupAck, GroupAckFail, Group!Next, Group!LoopStep
      <3> QED BY <2>9, <3>1, <3>2, AsideKeeps
              DEF GroupAck, GroupAckFail, Aside, Group!AckBatch, Group!AckFail, Group!Abandon,
                  Group!Fault
    <2>10. CASE Requested
      <3>1. /\ UNCHANGED <<length, last, pending, batch, handled, evts, notifs, worker, unchecked>>
            /\ done' = done
            /\ faults' = faults \/ Group!Fault
        BY <2>10, RequestAside
      <3>2. Group!TypeOK' /\ (faults' = faults \/ faults' = faults + 1)
        BY <3>1, NotificationsAssumption DEF NotifyInv, Group!TypeOK, Group!Fault
      <3> QED BY <3>1, <3>2, AsideKeeps
    <2>11. CASE UNCHANGED vars
      <3>1. /\ UNCHANGED <<length, last, pending, batch, handled, faults>> /\ done' = done
            /\ UNCHANGED <<evts, notifs, worker, unchecked>>
        BY <2>11 DEF vars, groupVars
      <3>2. Group!TypeOK'
        BY <3>1 DEF NotifyInv, Group!TypeOK
      <3> QED BY <3>1, <3>2, AsideKeeps
    <2> QED
      BY <2>1, <2>2, <2>3, <2>4, <2>5, <2>6, <2>7, <2>8, <2>9, <2>10, <2>11
      DEF Next, HandlerStep, Requested
  <1> QED BY <1>1, <1>2, PTL DEF Spec

(***************************************************************************)
(* Whatever is redelivered, fails or restarts: everybody an entry that     *)
(* counts as handled is about has a notification of it, and everybody it   *)
(* mentions too if nothing has failed (main.go:416-474).                   *)
(***************************************************************************)
THEOREM AllNotifiedHolds == Spec => []AllNotified
  <1>1. NotifyInv => AllNotified
    <2> SUFFICES ASSUME NotifyInv, NEW m \in handled
                 PROVE  Told(m) /\ (faults = 0 => \A u \in Users(MentionRows(m)) : Has(u, m))
      BY DEF AllNotified
    <2>1. m \in DOMAIN evts
      BY NotificationsAssumption DEF NotifyInv, Group!TypeOK, StreamRecorded
    <2> QED BY <2>1 DEF NotifyInv, HandledTold, Owed, Told
  <1> QED BY <1>1, NotifyInvariant, PTL

(***************************************************************************)
(* Every notification there is was caused by an event that names its user, *)
(* who is not the one that acted, and one for a mention across a block     *)
(* comes from a check for the block that failed (addNotif,                 *)
(* main.go:396-405, 464), for every set of blocks.                         *)
(***************************************************************************)
THEOREM NoSpuriousHolds == Spec => []NoSpurious
  <1>1. NotifyInv => NoSpurious
    BY DEF NotifyInv
  <1> QED BY <1>1, NotifyInvariant, PTL
-----------------------------------------------------------------------------
(***************************************************************************)
(* RunBatch with any handler.  The handler is done with a batch only, and  *)
(* what it was done with is handled.                                       *)
(***************************************************************************)
DoneIsHandled == done => batch # {} /\ batch \subseteq handled

BatchInv == Group!TypeOK /\ DoneIsHandled

\* A read delivers at least one new entry and none that is not there.
LEMMA ReadAdvances ==
  ASSUME Group!TypeOK, Group!ReadGroup
  PROVE  /\ last' \in Nat /\ last < last' /\ last' <= length
         /\ batch' = (last + 1)..last'
         /\ pending' = pending \cup batch'
  <1>1. last \in Nat /\ length \in Nat /\ last < length
    BY NotificationsAssumption DEF Group!TypeOK, Group!ReadGroup
  <1>2. length - last \in Nat /\ length - last > 0
    BY <1>1
  <1>3. PICK n \in Nat \ {0} : /\ n <= length - last /\ last' = last + n
                               /\ batch' = (last + 1)..(last + n)
                               /\ pending' = pending \cup (last + 1)..(last + n)
    <2> DEFINE n == IF length - last < BatchSize THEN length - last ELSE BatchSize
    <2>1. n \in Nat \ {0} /\ n <= length - last
      BY <1>1, <1>2, NotificationsAssumption
    <2> QED BY <2>1 DEF Group!ReadGroup
  <1> QED BY <1>1, <1>3

\* The invariant holds in every reachable state.
LEMMA BatchInvariant == Group!Spec => []BatchInv
  <1>1. Group!Init => BatchInv
    <2> SUFFICES ASSUME Group!Init PROVE BatchInv
      OBVIOUS
    <2>1. /\ length \in 0..MaxMsg /\ last \in 0..length /\ faults \in 0..MaxFaults
          /\ pending = {} /\ batch = {} /\ handled = {}
      BY NotificationsAssumption DEF Group!Init
    <2>2. done = FALSE
      BY DEF Group!Init
    <2> QED BY <2>1, <2>2 DEF BatchInv, Group!TypeOK, DoneIsHandled
  <1>2. BatchInv /\ [Group!Next]_Group!vars => BatchInv'
    <2> SUFFICES ASSUME BatchInv, [Group!Next]_Group!vars PROVE BatchInv'
      OBVIOUS
    <2> USE DEF BatchInv, Group!TypeOK, DoneIsHandled
    <2>1. CASE Group!Publish
      BY <2>1, NotificationsAssumption DEF Group!Publish
    <2>2. CASE Group!ReadGroup
      <3>1. /\ last' \in 0..length /\ batch' \subseteq 1..last'
            /\ 1..last \subseteq 1..last'
            /\ pending' = pending \cup batch'
        BY <2>2, ReadAdvances, NotificationsAssumption
      <3>2. done = FALSE /\ UNCHANGED <<length, done, handled, faults>>
        <4>1. batch = {}
          BY <2>2 DEF Group!ReadGroup
        <4> QED BY <2>2, <4>1 DEF Group!ReadGroup
      <3> QED BY <3>1, <3>2
    <2>3. CASE Group!HandleOk
      BY <2>3 DEF Group!HandleOk
    <2>4. CASE Group!AckBatch
      BY <2>4 DEF Group!AckBatch
    <2>5. CASE Group!HandleFail \/ Group!AckFail \/ Group!Crash
      <3>1. Group!Abandon
        BY <2>5 DEF Group!HandleFail, Group!AckFail, Group!Crash
      <3>2. /\ batch' = {} /\ faults' \in 0..MaxFaults
            /\ UNCHANGED <<length, last, pending, handled>>
        BY <3>1, NotificationsAssumption DEF Group!Abandon, Group!Fault
      <3>3. done' = FALSE
        BY <3>1 DEF Group!Abandon
      <3> QED BY <3>2, <3>3
    <2>6. CASE Group!ReadNothing \/ UNCHANGED Group!vars
      <3>1. /\ UNCHANGED <<length, last, pending, batch, handled, faults>>
            /\ done' = done
        BY <2>6 DEF Group!ReadNothing, Group!vars
      <3> QED BY <3>1
    <2> QED
      BY <2>1, <2>2, <2>3, <2>4, <2>5, <2>6 DEF Group!Next, Group!LoopStep
  <1> QED BY <1>1, <1>2, PTL DEF Group!Spec

(***************************************************************************)
(* Nothing leaves the pending list before a call of the handler that       *)
(* covers it has returned nil, for any number of entries, batches and      *)
(* faults (streams.go:197-242).                                            *)
(***************************************************************************)
THEOREM BatchImplementsDelivery == Group!Spec => Group!ImplementsDelivery
  <1>1. Group!Init => Group!GD!AbsInit
    BY NotificationsAssumption DEF Group!Init, Group!GD!AbsInit
  <1>2. BatchInv /\ [Group!Next]_Group!vars => [Group!GD!AbsNext]_Group!GD!absvars
    <2> SUFFICES ASSUME BatchInv, [Group!Next]_Group!vars PROVE [Group!GD!AbsNext]_Group!GD!absvars
      OBVIOUS
    <2> USE DEF BatchInv, Group!TypeOK
    <2>1. CASE Group!Publish
      BY <2>1 DEF Group!Publish, Group!GD!AbsNext, Group!GD!Publish
    <2>2. CASE Group!ReadGroup
      <3>1. /\ last' \in Nat /\ last < last' /\ last' <= length
            /\ pending' = pending \cup (last + 1)..last'
        BY <2>2, ReadAdvances
      <3>2. (1..last') \ pending' = (1..last) \ pending
        BY <3>1, NotificationsAssumption
      <3> QED BY <2>2, <3>1, <3>2 DEF Group!ReadGroup, Group!GD!AbsNext, Group!GD!Read
    <2>3. CASE Group!HandleOk
      BY <2>3 DEF Group!HandleOk, Group!GD!AbsNext, Group!GD!Handle
    <2>4. CASE Group!AckBatch
      BY <2>4 DEF Group!AckBatch, DoneIsHandled, Group!GD!AbsNext, Group!GD!Ack
    <2>5. CASE Group!HandleFail \/ Group!AckFail \/ Group!Crash
      BY <2>5 DEF Group!HandleFail, Group!AckFail, Group!Crash, Group!Abandon, Group!GD!absvars
    <2>6. CASE Group!ReadNothing \/ UNCHANGED Group!vars
      BY <2>6 DEF Group!ReadNothing, Group!vars, Group!GD!absvars
    <2> QED
      BY <2>1, <2>2, <2>3, <2>4, <2>5, <2>6 DEF Group!Next, Group!LoopStep
  <1> QED
    BY <1>1, <1>2, BatchInvariant, PTL DEF Group!Spec, Group!ImplementsDelivery, Group!GD!AbsSafety
-----------------------------------------------------------------------------
(***************************************************************************)
(* The group, composed with its handler, delivers what it promises.        *)
(***************************************************************************)
DeliveryInv == NotifyInv /\ DoneIsHandled

\* What a step is to the group: the handler may also return nil although an
\* INCRBY has failed, and a query may fail that the handler does without.
LEMMA StepOfGroup ==
  ASSUME [Next]_vars
  PROVE  \/ Group!Publish \/ Group!ReadGroup \/ Group!AckBatch
         \/ /\ done' = TRUE /\ handled' = handled \cup batch /\ worker.pc = "incr"
            /\ UNCHANGED <<length, last, pending, batch>>
         \/ batch' = {} /\ done' = FALSE /\ UNCHANGED <<length, last, pending, handled>>
         \/ UNCHANGED <<length, last, pending, batch, handled>> /\ done' = done
  <1>1. CASE \/ \E e \in Event : Emit(e)
             \/ \E m \in DOMAIN evts : Republish(m)
    BY <1>1 DEF Emit, Republish
  <1>2. CASE BuildRows \/ ExistsPairs \/ BulkCreate
    BY <1>2 DEF BuildRows, ExistsPairs, BulkCreate, groupVars
  <1>3. CASE IncrByMany \/ IncrByManyFail
    BY <1>3 DEF IncrByMany, IncrByManyFail, Group!HandleOk
  <1>4. CASE HandleFail \/ Crash \/ GroupAckFail
    BY <1>4 DEF HandleFail, Crash, GroupAckFail, Group!HandleFail, Group!Crash, Group!AckFail,
                Group!Abandon
  <1>5. CASE GroupRead \/ GroupAck
    BY <1>5 DEF GroupRead, GroupAck, Group!ReadNothing, Group!vars
  <1>6. CASE UNCHANGED vars
    <2>1. UNCHANGED groupVars
      BY <1>6 DEF vars
    <2> QED BY <2>1 DEF groupVars
  <1>7. CASE Requested
    BY <1>7, RequestAside
  <1> QED BY <1>1, <1>2, <1>3, <1>4, <1>5, <1>6, <1>7 DEF Next, HandlerStep, Requested

LEMMA DeliveryInvariant == Spec => []DeliveryInv
  <1>1. Init => DoneIsHandled
    BY DEF Init, Group!Init, DoneIsHandled
  <1>2. NotifyInv /\ DoneIsHandled /\ [Next]_vars => DoneIsHandled'
    <2> SUFFICES ASSUME NotifyInv, DoneIsHandled, [Next]_vars, done' = TRUE
                 PROVE  batch' # {} /\ batch' \subseteq handled'
      BY DEF DoneIsHandled
    <2>1. CASE Group!Publish
      BY <2>1 DEF Group!Publish, DoneIsHandled
    <2>2. CASE Group!ReadGroup
      BY <2>2 DEF Group!ReadGroup, DoneIsHandled
    <2>3. CASE Group!AckBatch
      BY <2>3 DEF Group!AckBatch
    <2>4. CASE /\ handled' = handled \cup batch /\ worker.pc = "incr" /\ batch' = batch
      BY <2>4 DEF NotifyInv, WorkerOnBatch
    <2>5. CASE done' = FALSE
      BY <2>5
    <2>6. CASE UNCHANGED <<batch, handled>> /\ done' = done
      BY <2>6 DEF DoneIsHandled
    <2> QED BY StepOfGroup, <2>1, <2>2, <2>3, <2>4, <2>5, <2>6
  <1> QED BY <1>1, <1>2, NotifyInvariant, PTL DEF Spec, DeliveryInv

(***************************************************************************)
(* The notify group acks nothing its handler has not handled, whatever     *)
(* fails, is redelivered or restarts (streams.go:197-242, main.go:416).    *)
(***************************************************************************)
THEOREM NotifyImplementsDelivery == Spec => ImplementsDelivery
  <1>1. Init => Group!GD!AbsInit
    BY DEF Init, Group!Init, Group!GD!AbsInit
  <1>2. DeliveryInv /\ DeliveryInv' /\ [Next]_vars => [Group!GD!AbsNext]_Group!GD!absvars
    <2> SUFFICES ASSUME DeliveryInv, DeliveryInv', [Next]_vars
                 PROVE  [Group!GD!AbsNext]_Group!GD!absvars
      OBVIOUS
    <2>1. Group!TypeOK /\ Group!TypeOK' /\ DoneIsHandled
      BY DEF DeliveryInv, NotifyInv
    <2>2. CASE Group!Publish
      BY <2>2 DEF Group!Publish, Group!GD!AbsNext, Group!GD!Publish
    <2>3. CASE Group!ReadGroup
      <3>1. /\ last < last' /\ last' <= length
            /\ UNCHANGED <<length, handled>>
            /\ pending' = pending \cup (last + 1)..last'
        BY <2>1, <2>3, NotificationsAssumption DEF Group!ReadGroup, Group!TypeOK
      <3>2. (1..last') \ pending' = (1..last) \ pending
        BY <2>1, <3>1, NotificationsAssumption DEF Group!TypeOK
      <3> QED BY <3>1, <3>2 DEF Group!GD!AbsNext, Group!GD!Read
    <2>4. CASE Group!AckBatch
      BY <2>1, <2>4 DEF Group!AckBatch, DoneIsHandled, Group!GD!AbsNext, Group!GD!Ack
    <2>5. CASE /\ handled' = handled \cup batch
               /\ UNCHANGED <<length, last, pending, batch>>
      BY <2>1, <2>5 DEF Group!TypeOK, Group!GD!AbsNext, Group!GD!Handle
    <2>6. CASE UNCHANGED <<length, last, pending, handled>>
      BY <2>6 DEF Group!GD!absvars
    <2> QED BY StepOfGroup, <2>2, <2>3, <2>4, <2>5, <2>6
  <1> QED
    BY <1>1, <1>2, DeliveryInvariant, PTL
    DEF Spec, ImplementsDelivery, Group!ImplementsDelivery, Group!GD!AbsSafety
-----------------------------------------------------------------------------
(***************************************************************************)
(* An event tells a user once.  Nobody else inserts, so what ExistsPairs   *)
(* has not found is not there before the INSERT; and of the rows that go   *)
(* into it one is left for an event and a user, also when the batch holds  *)
(* two entries of the event.                                               *)
(***************************************************************************)
InHandRow == [entry: 1..MaxMsg, event: 1..MaxMsg, user: User, type: NotifType]

\* An entry published again is the same event.
IdsOfEvents ==
  \A m, k \in DOMAIN evts :
    /\ evts[m].id <= m
    /\ evts[m].id = evts[k].id => evts[m].what = evts[k].what

RowsTyped ==
  /\ worker.new \subseteq InHandRow /\ notifs \subseteq Notification
  /\ unchecked \subseteq (1..MaxMsg) \X User

OneRowEach == \A r, s \in notifs : r.event = s.event /\ r.user = s.user => r = s

NewNotThere ==
  worker.pc = "insert" =>
    \A r \in worker.new, s \in notifs : s.event # r.event \/ s.user # r.user

ReadersTyped ==
  /\ read \subseteq {<<r.event, r.user>> : r \in notifs}
  /\ unread \in [User -> Key]
  /\ reader \in [Reader -> Request \cup {NoRequest}]

OnceInv ==
  /\ NotifyInv /\ IdsOfEvents /\ RowsTyped
  /\ OneRowEach /\ NewNotThere /\ ReadersTyped

\* The direct rows of an event give a user one type, which is no mention.
LEMMA DirectOnce ==
  ASSUME NEW e, NEW u, NEW t1, NEW t2,
         <<u, t1>> \in Direct(e), <<u, t2>> \in Direct(e), e.type # "mentioned"
  PROVE  t1 = t2 /\ t1 # "mentioned"
  BY DEF Direct

\* Of the rows of one event and user the INSERT leaves one.
LEMMA InsertedOnce ==
  ASSUME NotifyInv, IdsOfEvents,
         NEW r \in Inserted(worker.new), NEW s \in Inserted(worker.new),
         r.event = s.event, r.user = s.user
  PROVE  r = s
  <1> DEFINE direct(x) == \E y \in worker.new : y.type # "mentioned" /\ y.event = x.event /\ y.user = x.user
  <1>1. PICK x \in worker.new : r = Row(x) /\ (x.type = "mentioned" => ~direct(x))
    BY DEF Inserted
  <1>2. PICK y \in worker.new : s = Row(y) /\ (y.type = "mentioned" => ~direct(y))
    BY DEF Inserted
  <1>3. x.event = y.event /\ x.user = y.user
    BY <1>1, <1>2 DEF Row
  <1>4. (x.type = "mentioned") <=> (y.type = "mentioned")
    BY <1>1, <1>2, <1>3
  <1>5. CASE x.type = "mentioned"
    BY <1>1, <1>2, <1>3, <1>4, <1>5 DEF Row
  <1>6. CASE x.type # "mentioned"
    <2>1. /\ x.entry \in DOMAIN evts /\ x \in RowsAbout(x.entry)
          /\ y.entry \in DOMAIN evts /\ y \in RowsAbout(y.entry)
      BY AllowedAbout DEF NotifyInv, BuiltFromEntries
    <2>2. evts[x.entry].id = x.event /\ evts[y.entry].id = y.event
      BY <2>1, RowsOfEntry
    <2>3. evts[x.entry].what = evts[y.entry].what
      BY <1>3, <2>1, <2>2 DEF IdsOfEvents
    <2>4. /\ <<x.user, x.type>> \in Direct(evts[x.entry].what)
          /\ <<y.user, y.type>> \in Direct(evts[y.entry].what)
      BY <1>4, <1>6, <2>1, ToldDirectly
    <2>5. evts[x.entry].what.type # "mentioned"
      <3>1. evts[x.entry] \in [id: 1..MaxMsg, what: Event]
        BY <2>1, ElementOfSeq DEF NotifyInv, StreamRecorded
      <3> PICK e : e = evts[x.entry].what
        OBVIOUS
      <3>2. e \in Event
        BY <3>1
      <3> QED BY <3>2 DEF Event
    <2>6. x.type = y.type
      BY <1>3, <2>3, <2>4, <2>5, DirectOnce
    <2> QED BY <1>1, <1>2, <1>3, <2>6 DEF Row
  <1> QED BY <1>5, <1>6

\* Those who are told of an event are users.
LEMMA ToldTyped ==
  ASSUME NEW e \in Event, NEW S \in SUBSET e.mentions, NEW t \in Direct(e) \cup Mentioned(S)
  PROVE  t[1] \in User /\ t[2] \in NotifType
  <1>1. /\ e.author \in User /\ e.mentions \subseteq User
        /\ e.replyTo # Nobody => e.replyTo \in User
        /\ e.type \in {"liked", "followed", "commented"}
    BY DEF Event
  <1>2. CASE t \in Mentioned(S)
    <2>1. PICK u \in S : t = <<u, "mentioned">>
      BY <1>2 DEF Mentioned
    <2> QED BY <1>1, <2>1 DEF NotifType
  <1>3. CASE t \in Direct(e)
    <2>1. CASE e.type = "commented" /\ e.replyTo # Nobody
      <3>1. t = <<e.replyTo, "replied">> \/ t = <<e.author, "commented">>
        BY <1>3, <2>1 DEF Direct
      <3> QED BY <1>1, <2>1, <3>1 DEF NotifType
    <2>2. CASE ~(e.type = "commented" /\ e.replyTo # Nobody)
      <3>1. t = <<e.author, e.type>>
        BY <1>3, <2>2 DEF Direct
      <3> QED BY <1>1, <3>1 DEF NotifType
    <2> QED BY <2>1, <2>2
  <1> QED BY <1>2, <1>3

\* The rows of an entry are rows.
LEMMA RowsOfEntryTyped ==
  ASSUME NotifyInv, NEW m \in DOMAIN evts PROVE RowsAbout(m) \subseteq InHandRow
  <1>1. evts[m] \in [id: 1..MaxMsg, what: Event]
    BY ElementOfSeq DEF NotifyInv, StreamRecorded
  <1>2. m \in 1..MaxMsg
    BY NotificationsAssumption DEF NotifyInv, StreamRecorded, Group!TypeOK
  <1>3. \A S \in SUBSET evts[m].what.mentions : \A t \in Direct(evts[m].what) \cup Mentioned(S) :
          t[1] \in User /\ t[2] \in NotifType
    BY <1>1, ToldTyped
  <1>4. evts[m].id \in 1..MaxMsg
    BY <1>1
  <1> HIDE DEF InHandRow
  <1> SUFFICES ASSUME NEW r \in RowsAbout(m) PROVE r \in InHandRow
    OBVIOUS
  <1>5. \E S \in SUBSET evts[m].what.mentions : \E t \in Direct(evts[m].what) \cup Mentioned(S) :
          r = [entry |-> m, event |-> evts[m].id, user |-> t[1], type |-> t[2]]
    <2> DEFINE e == evts[m].what
    <2>1. Shielded(e) \subseteq e.mentions /\ e.mentions \ Shielded(e) \subseteq e.mentions
      BY DEF Shielded
    <2>2. \/ r \in RowsOf(m, Direct(e))
          \/ r \in RowsOf(m, Mentioned(e.mentions \ Shielded(e)))
          \/ r \in RowsOf(m, Mentioned(Shielded(e)))
      BY DEF RowsAbout, DirectRows, MentionRows, ShieldedRows
    <2>3. \E S \in SUBSET e.mentions : r \in RowsOf(m, Direct(e) \cup Mentioned(S))
      BY <2>1, <2>2 DEF RowsOf
    <2> QED BY <2>3 DEF RowsOf
  <1> QED BY <1>2, <1>3, <1>4, <1>5 DEF InHandRow

\* Only finitely many rows fit into the table, so that they can be counted.
LEMMA RowsFinite == ASSUME RowsTyped, OneRowEach PROVE IsFiniteSet(notifs)
  <1> DEFINE f == [r \in notifs |-> <<r.event, r.user>>]
  <1>1. f \in Injection(notifs, (1..MaxMsg) \X User)
    <2>1. \A r \in notifs : r.event \in 1..MaxMsg /\ r.user \in User
      BY DEF RowsTyped, Notification
    <2>2. f \in [notifs -> (1..MaxMsg) \X User]
      BY <2>1
    <2>3. \A r, s \in notifs : f[r] = f[s] => r = s
      BY DEF OneRowEach
    <2> HIDE DEF f
    <2> QED BY <2>2, <2>3 DEF Injection, IsInjective
  <1>2. IsFiniteSet(1..MaxMsg)
    BY NotificationsAssumption, FS_Interval
  <1>3. IsFiniteSet((1..MaxMsg) \X User)
    BY <1>2, NotificationsAssumption, FS_Product
  <1> HIDE DEF f
  <1> QED BY <1>1, <1>3, FS_Injection

LEMMA InHandFinite == ASSUME RowsTyped PROVE IsFiniteSet(worker.new)
  <1>1. IsFiniteSet(InHandRow)
    <2> DEFINE P == ((1..MaxMsg) \X (1..MaxMsg)) \X (User \X NotifType)
               f == [x \in InHandRow |-> << <<x.entry, x.event>>, <<x.user, x.type>> >>]
    <2>1. f \in Injection(InHandRow, P)
      <3>1. f \in [InHandRow -> P]
        BY DEF InHandRow
      <3>2. \A x, y \in InHandRow : f[x] = f[y] => x = y
        BY DEF InHandRow
      <3> HIDE DEF f, P
      <3> QED BY <3>1, <3>2 DEF Injection, IsInjective
    <2>2. IsFiniteSet(1..MaxMsg)
      BY NotificationsAssumption, FS_Interval
    <2>3. IsFiniteSet((1..MaxMsg) \X (1..MaxMsg))
      BY <2>2, FS_Product
    <2>4. IsFiniteSet(NotifType)
      <3>1. IsFiniteSet({"liked"} \cup {"followed"})
        BY FS_EmptySet, FS_Singleton, FS_Union
      <3>2. IsFiniteSet(({"liked"} \cup {"followed"}) \cup {"commented"})
        BY <3>1, FS_Singleton, FS_Union
      <3>3. IsFiniteSet({"replied"} \cup {"mentioned"})
        BY FS_Singleton, FS_Union
      <3>4. NotifType = (({"liked"} \cup {"followed"}) \cup {"commented"}) \cup ({"replied"} \cup {"mentioned"})
        BY DEF NotifType
      <3> QED BY <3>2, <3>3, <3>4, FS_Union
    <2>5. IsFiniteSet(User \X NotifType)
      BY <2>4, NotificationsAssumption, FS_Product
    <2>6. IsFiniteSet(P)
      BY <2>3, <2>5, FS_Product
    <2> HIDE DEF f, P
    <2> QED BY <2>1, <2>6, FS_Injection
  <1> QED BY <1>1, FS_Subset DEF RowsTyped

LEMMA PublishKeepsOnce ==
  ASSUME OnceInv, UNCHANGED <<notifs, read, worker, unread, reader, unchecked>>,
         length' = length + 1, NEW x \in [id: 1..MaxMsg, what: Event], evts' = Append(evts, x),
         \/ x.id = length + 1
         \/ \E m \in DOMAIN evts : x = evts[m]
  PROVE  IdsOfEvents' /\ RowsTyped' /\ OneRowEach' /\ NewNotThere' /\ ReadersTyped'
  <1>1. /\ evts \in Seq([id: 1..MaxMsg, what: Event]) /\ Len(evts) = length /\ length \in Nat
    BY NotificationsAssumption DEF OnceInv, NotifyInv, StreamRecorded, Group!TypeOK
  <1>2. /\ DOMAIN evts' = 1..(length + 1) /\ DOMAIN evts = 1..length
        /\ \A m \in 1..length : evts'[m] = evts[m]
        /\ evts'[length + 1] = x
    BY <1>1
  <1>3. \A m \in 1..length : evts[m].id <= m /\ evts[m].id \in Nat
    <2> SUFFICES ASSUME NEW m \in 1..length PROVE evts[m].id <= m /\ evts[m].id \in Nat
      OBVIOUS
    <2>1. evts[m] \in [id: 1..MaxMsg, what: Event]
      BY <1>1, <1>2, ElementOfSeq
    <2>2. evts[m].id \in 1..MaxMsg
      BY <2>1
    <2> QED BY <1>2, <2>2, NotificationsAssumption DEF OnceInv, IdsOfEvents
  <1>4. x.id <= length + 1
    BY <1>1, <1>2, <1>3
  <1>5. \A m \in 1..length : evts[m].id = x.id => evts[m].what = x.what
    <2>1. CASE x.id = length + 1
      BY <1>1, <1>3, <2>1
    <2>2. CASE \E m \in DOMAIN evts : x = evts[m]
      BY <1>2, <2>2 DEF OnceInv, IdsOfEvents
    <2> QED BY <2>1, <2>2
  <1>6. IdsOfEvents'
    <2> SUFFICES ASSUME NEW m \in 1..(length + 1), NEW k \in 1..(length + 1)
                 PROVE  /\ evts'[m].id <= m
                        /\ evts'[m].id = evts'[k].id => evts'[m].what = evts'[k].what
      BY <1>2 DEF IdsOfEvents
    <2>1. m \in 1..length \/ m = length + 1
      BY <1>1
    <2>2. k \in 1..length \/ k = length + 1
      BY <1>1
    <2> QED BY <1>2, <1>3, <1>4, <1>5, <2>1, <2>2 DEF OnceInv, IdsOfEvents
  <1>7. RowsTyped' /\ OneRowEach' /\ NewNotThere' /\ ReadersTyped'
    BY DEF OnceInv, RowsTyped, OneRowEach, NewNotThere, ReadersTyped
  <1> QED BY <1>6, <1>7

\* The table after the INSERT.
LEMMA InsertKeepsOnce ==
  ASSUME OnceInv, UNCHANGED read, worker.pc = "insert",
         notifs' = notifs \cup Inserted(worker.new)
  PROVE  /\ OneRowEach' /\ notifs' \subseteq Notification
         /\ read' \subseteq {<<r.event, r.user>> : r \in notifs'}
  <1>1. \A s \in Inserted(worker.new) :
          \E r \in worker.new : s = Row(r) /\ s.event = r.event /\ s.user = r.user
    BY DEF Inserted, Row
  <1>2. Inserted(worker.new) \subseteq Notification
    BY DEF OnceInv, RowsTyped, InHandRow, Inserted, Row, Notification
  <1>3. \A r \in Inserted(worker.new), s \in notifs : s.event # r.event \/ s.user # r.user
    BY <1>1 DEF OnceInv, NewNotThere
  <1>4. \A r, s \in Inserted(worker.new) : r.event = s.event /\ r.user = s.user => r = s
    BY InsertedOnce DEF OnceInv
  <1>5. OneRowEach'
    BY <1>3, <1>4 DEF OnceInv, OneRowEach
  <1> QED BY <1>2, <1>5 DEF OnceInv, RowsTyped, ReadersTyped

\* Numbers stay numbers.
LEMMA IncrementedTyped ==
  ASSUME OnceInv, NEW K PROVE Incremented(K) \in [User -> Key]
  <1> SUFFICES ASSUME NEW u \in User PROVE Incremented(K)[u] \in Key
    BY DEF Incremented
  <1> DEFINE mine == {r \in worker.new : r.user = u}
  <1>1. IsFiniteSet(worker.new)
    BY InHandFinite DEF OnceInv
  <1>2. mine \subseteq worker.new
    OBVIOUS
  <1>3. Cardinality(mine) \in Nat
    <2>1. IsFiniteSet(mine)
      BY <1>1, <1>2, FS_Subset
    <2> QED BY <2>1, FS_CardinalityType
  <1>4. unread[u] \in Key
    BY DEF OnceInv, ReadersTyped
  <1> DEFINE num == Cardinality(mine)
  <1>5. Incremented(K)[u] = IF num = 0 \/ u \notin K THEN unread[u]
                            ELSE [n |-> unread[u].n + num,
                                  ttl |-> IF unread[u] = NoKey THEN "forever" ELSE unread[u].ttl]
    BY DEF Incremented
  <1> HIDE DEF num
  <1>6. num \in Nat
    BY <1>3 DEF num
  <1> QED BY <1>4, <1>5, <1>6 DEF Key

\* What BuildRows builds, and which of it stands for a check that failed.
LEMMA RowsBuilt ==
  ASSUME BuildRows
  PROVE  /\ \A r \in worker'.new : \E m \in batch : r \in RowsAbout(m)
         /\ \E F \in SUBSET worker'.new : unchecked' = unchecked \cup {<<r.event, r.user>> : r \in F}
  <1> DEFINE direct == UNION {DirectRows(m) : m \in batch}
             mentions == UNION {MentionRows(m) : m \in batch}
             shielded == UNION {ShieldedRows(m) : m \in batch}
  <1>1. \A r \in direct \cup mentions \cup shielded : \E m \in batch : r \in RowsAbout(m)
    BY DEF RowsAbout
  <1>2. \/ worker'.new \in {direct, direct \cup mentions} /\ unchecked' = unchecked
        \/ \E F \in SUBSET shielded :
             /\ worker'.new = direct \cup mentions \cup F
             /\ unchecked' = unchecked \cup {<<r.event, r.user>> : r \in F}
    <2>1. \/ Built(direct \cup mentions) /\ unchecked' = unchecked
          \/ Built(direct) /\ unchecked' = unchecked
          \/ \E F \in SUBSET shielded :
               /\ Built(direct \cup mentions \cup F)
               /\ unchecked' = unchecked \cup {<<r.event, r.user>> : r \in F}
      BY DEF BuildRows
    <2> HIDE DEF direct, mentions, shielded
    <2> QED BY <2>1 DEF Built
  <1> HIDE DEF direct, mentions, shielded
  <1>3. CASE worker'.new \in {direct, direct \cup mentions} /\ unchecked' = unchecked
    <2>1. unchecked' = unchecked \cup {<<r.event, r.user>> : r \in {}}
      BY <1>3
    <2> QED BY <1>1, <1>3, <2>1
  <1>4. CASE \E F \in SUBSET shielded :
               /\ worker'.new = direct \cup mentions \cup F
               /\ unchecked' = unchecked \cup {<<r.event, r.user>> : r \in F}
    BY <1>1, <1>4
  <1> QED BY <1>2, <1>3, <1>4

LEMMA UnreadNumber == ASSUME OnceInv, NEW u PROVE Unread(u) \in Nat
  <1>1. IsFiniteSet(notifs)
    BY RowsFinite DEF OnceInv
  <1>2. {r \in notifs : r.user = u /\ <<r.event, u>> \notin read} \subseteq notifs
    OBVIOUS
  <1>3. IsFiniteSet({r \in notifs : r.user = u /\ <<r.event, u>> \notin read})
    BY <1>1, <1>2, FS_Subset
  <1> QED BY <1>3, FS_CardinalityType DEF Unread

\* Requests stay requests and numbers numbers.
LEMMA RequestTyped == ASSUME OnceInv, Requested PROVE ReadersTyped'
  <1>0. /\ ReadersTyped /\ UNCHANGED notifs /\ NoKey \in Key
        /\ \A q \in Reader : reader[q].pc # "idle" => reader[q] \in Request
    BY RequestAside DEF OnceInv, ReadersTyped, NoKey, Key, NoRequest
  <1>1. CASE \E u \in User : ExpireUnread(u)
    BY <1>0, <1>1 DEF ExpireUnread, ReadersTyped
  <1>2. CASE \E q \in Reader : ReaderStep(q)
    <2> PICK q \in Reader : ReaderStep(q)
      BY <1>2
    <2>1. CASE \E u \in User : MarkRead(q, u)
      <3> PICK u \in User : MarkRead(q, u)
        BY <2>1
      <3>1. [pc |-> "marked", user |-> u, n |-> 0] \in Request
        BY DEF Request
      <3>2. reader' \in [Reader -> Request \cup {NoRequest}]
        BY <1>0, <3>1 DEF MarkRead, Turn, ReadersTyped
      <3> QED BY <1>0, <3>2 DEF MarkRead, ReadersTyped
    <2>2. CASE \E u \in User : UnreadMiss(q, u)
      <3> PICK u \in User : UnreadMiss(q, u)
        BY <2>2
      <3>1. [pc |-> "count", user |-> u, n |-> 0] \in Request
        BY DEF Request
      <3>2. reader' \in [Reader -> Request \cup {NoRequest}]
        BY <1>0, <3>1 DEF UnreadMiss, Turn, ReadersTyped
      <3> QED BY <1>0, <3>2 DEF UnreadMiss, ReadersTyped
    <2>3. CASE DeleteUnread(q) \/ DeleteUnreadFail(q) \/ UnreadFail(q)
      <3>1. reader' \in [Reader -> Request \cup {NoRequest}]
        BY <1>0, <2>3 DEF DeleteUnread, DeleteUnreadFail, UnreadFail, End, ReadersTyped
      <3>2. unread' \in [User -> Key] /\ read' = read
        BY <1>0, <2>3 DEF DeleteUnread, DeleteUnreadFail, UnreadFail, ReadersTyped
      <3> QED BY <1>0, <3>1, <3>2 DEF ReadersTyped
    <2>4. CASE CountUnread(q)
      <3>1. reader[q] \in Request
        BY <1>0, <2>4 DEF CountUnread
      <3>2. [pc |-> "set", user |-> reader[q].user, n |-> Unread(reader[q].user)] \in Request
        BY <3>1, UnreadNumber DEF Request
      <3>3. reader' \in [Reader -> Request \cup {NoRequest}]
        BY <1>0, <2>4, <3>2 DEF CountUnread, Turn, ReadersTyped
      <3> QED BY <1>0, <2>4, <3>3 DEF CountUnread, ReadersTyped
    <2>5. CASE SetUnread(q)
      <3>1. reader[q] \in Request
        BY <1>0, <2>5 DEF SetUnread
      <3>2. [n |-> reader[q].n, ttl |-> "minutes"] \in Key
        BY <3>1 DEF Request, Key
      <3>3. /\ reader' \in [Reader -> Request \cup {NoRequest}]
            /\ unread' \in [User -> Key]
        BY <1>0, <2>5, <3>2 DEF SetUnread, End, ReadersTyped
      <3> QED BY <1>0, <2>5, <3>3 DEF SetUnread, ReadersTyped
    <2> QED BY <2>1, <2>2, <2>3, <2>4, <2>5 DEF ReaderStep
  <1> QED BY <1>1, <1>2 DEF Requested

LEMMA OnceInvariant == Spec => []OnceInv
  <1>1. Init => IdsOfEvents /\ RowsTyped /\ OneRowEach /\ NewNotThere /\ ReadersTyped
    BY DEF Init, IdsOfEvents, RowsTyped, OneRowEach, NewNotThere, ReadersTyped, Resting, NoKey, Key
  <1>2. OnceInv /\ NotifyInv' /\ [Next]_vars
          => (IdsOfEvents /\ RowsTyped /\ OneRowEach /\ NewNotThere /\ ReadersTyped)'
    <2> SUFFICES ASSUME OnceInv, NotifyInv', [Next]_vars
                 PROVE  IdsOfEvents' /\ RowsTyped' /\ OneRowEach' /\ NewNotThere' /\ ReadersTyped'
      OBVIOUS
    <2> USE DEF OnceInv
    <2>1. CASE \E e \in Event : Emit(e)
      <3> PICK e \in Event : Emit(e)
        BY <2>1
      <3>1. length' \in 1..MaxMsg /\ length' = length + 1
        BY NotificationsAssumption DEF Emit, Group!Publish, NotifyInv, Group!TypeOK
      <3>2. [id |-> length', what |-> e] \in [id: 1..MaxMsg, what: Event]
        BY <3>1
      <3> QED BY <3>1, <3>2, PublishKeepsOnce DEF Emit
    <2>2. CASE \E m \in DOMAIN evts : Republish(m)
      <3> PICK m \in DOMAIN evts : Republish(m)
        BY <2>2
      <3>1. evts[m] \in [id: 1..MaxMsg, what: Event]
        BY ElementOfSeq DEF NotifyInv, StreamRecorded
      <3>2. length' = length + 1
        BY DEF Republish, Group!Publish
      <3> QED BY <3>1, <3>2, PublishKeepsOnce DEF Republish
    <2>3. CASE BuildRows
      <3>1. UNCHANGED <<evts, notifs, read, unread, reader, batch>> /\ worker'.pc = "exists"
        BY <2>3 DEF BuildRows, Built
      <3>2. /\ \A r \in worker'.new : \E m \in batch : r \in RowsAbout(m)
            /\ \E F \in SUBSET worker'.new : unchecked' = unchecked \cup {<<r.event, r.user>> : r \in F}
        BY <2>3, RowsBuilt
      <3>3. batch \subseteq DOMAIN evts
        BY NotificationsAssumption DEF NotifyInv, Group!TypeOK, StreamRecorded
      <3>4. worker'.new \subseteq InHandRow
        BY <3>2, <3>3, RowsOfEntryTyped
      <3>5. unchecked' \subseteq (1..MaxMsg) \X User
        <4>1. \A r \in worker'.new : r.event \in 1..MaxMsg /\ r.user \in User
          BY <3>4 DEF InHandRow
        <4> QED BY <3>2, <4>1 DEF RowsTyped
      <3> QED BY <3>1, <3>4, <3>5 DEF IdsOfEvents, RowsTyped, OneRowEach, NewNotThere, ReadersTyped
    <2>4. CASE ExistsPairs
      <3>1. /\ UNCHANGED <<evts, notifs, read, unread, reader, unchecked>>
            /\ worker'.new = {r \in worker.new : \A s \in notifs : s.event # r.event \/ s.user # r.user}
        BY <2>4 DEF ExistsPairs
      <3> QED BY <3>1 DEF IdsOfEvents, RowsTyped, OneRowEach, NewNotThere, ReadersTyped
    <2>5. CASE BulkCreate
      <3>1. /\ UNCHANGED <<evts, read, unread, reader, unchecked>>
            /\ notifs' = notifs \cup Inserted(worker.new) /\ worker.pc = "insert"
            /\ worker'.pc = "incr" /\ worker'.new = worker.new
        BY <2>5 DEF BulkCreate, NotifyInv, WorkerShape
      <3> QED BY <3>1, InsertKeepsOnce DEF IdsOfEvents, RowsTyped, NewNotThere, ReadersTyped
    <2>6. CASE IncrByMany \/ IncrByManyFail
      <3>1. /\ UNCHANGED <<evts, notifs, read, reader, unchecked>> /\ worker' = Resting
            /\ \E K : unread' = Incremented(K)
        BY <2>6 DEF IncrByMany, IncrByManyFail
      <3>2. unread' \in [User -> Key]
        BY <3>1, IncrementedTyped
      <3> QED BY <3>1, <3>2 DEF IdsOfEvents, RowsTyped, OneRowEach, NewNotThere, ReadersTyped, Resting
    <2>7. CASE HandleFail \/ Crash
      <3>1. /\ UNCHANGED <<evts, read, unread, reader, unchecked>> /\ worker' = Resting
            /\ \/ notifs' = notifs
               \/ worker.pc = "insert" /\ notifs' = notifs \cup Inserted(worker.new)
        BY <2>7 DEF HandleFail, Crash
      <3>2. IdsOfEvents' /\ NewNotThere' /\ worker'.new = {}
        BY <3>1 DEF IdsOfEvents, NewNotThere, Resting
      <3>3. CASE notifs' = notifs
        BY <3>1, <3>2, <3>3 DEF RowsTyped, OneRowEach, ReadersTyped
      <3>4. CASE worker.pc = "insert" /\ notifs' = notifs \cup Inserted(worker.new)
        BY <3>1, <3>2, <3>4, InsertKeepsOnce DEF RowsTyped, ReadersTyped
      <3> QED BY <3>1, <3>3, <3>4
    <2>8. CASE GroupRead \/ GroupAck \/ GroupAckFail \/ UNCHANGED vars
      <3>1. UNCHANGED <<evts, notifs, read, worker, unread, reader, unchecked>>
        BY <2>8 DEF GroupRead, GroupAck, GroupAckFail, Aside, vars
      <3> QED BY <3>1 DEF IdsOfEvents, RowsTyped, OneRowEach, NewNotThere, ReadersTyped
    <2>9. CASE Requested
      <3>1. UNCHANGED <<evts, notifs, worker, unchecked>> /\ ReadersTyped'
        BY <2>9, RequestAside, RequestTyped
      <3> QED BY <3>1 DEF IdsOfEvents, RowsTyped, OneRowEach, NewNotThere
    <2> QED
      BY <2>1, <2>2, <2>3, <2>4, <2>5, <2>6, <2>7, <2>8, <2>9 DEF Next, HandlerStep, Requested
  <1> QED BY <1>1, <1>2, NotifyInvariant, PTL DEF Spec, OnceInv

(***************************************************************************)
(* The table has one row for an event and a user, however often the event  *)
(* is published, its batch delivered or its handler interrupted            *)
(* (notification_service.go:153-192), and every variable stays of its      *)
(* kind.                                                                   *)
(***************************************************************************)
THEOREM TypeCorrect == Spec => []TypeOK
  <1>1. Init => disturbed \in BOOLEAN
    BY DEF Init
  <1>2. (disturbed \in BOOLEAN) /\ [Next]_vars => (disturbed \in BOOLEAN)'
    <2> SUFFICES ASSUME disturbed \in BOOLEAN, [Next]_vars PROVE disturbed' \in BOOLEAN
      OBVIOUS
    <2>1. CASE BulkCreate
      BY <2>1 DEF BulkCreate
    <2>2. CASE IncrByManyFail \/ HandleFail \/ Crash
      BY <2>2 DEF IncrByManyFail, HandleFail, Crash
    <2>3. CASE \E q \in Reader : (\E u \in User : MarkRead(q, u)) \/ CountUnread(q) \/ DeleteUnreadFail(q)
      BY <2>3 DEF MarkRead, CountUnread, DeleteUnreadFail
    <2>4. CASE disturbed' = disturbed
      BY <2>4
    <2>5. CASE \E q \in Reader : \/ \E u \in User : UnreadMiss(q, u)
                                 \/ DeleteUnread(q) \/ SetUnread(q) \/ UnreadFail(q)
      BY <2>4, <2>5 DEF UnreadMiss, DeleteUnread, SetUnread, UnreadFail
    <2> QED
      BY <2>1, <2>2, <2>3, <2>4, <2>5 DEF Next, HandlerStep, Emit, Republish, BuildRows, ExistsPairs,
         IncrByMany, GroupRead, GroupAck, GroupAckFail, Aside, ReaderStep, ExpireUnread, vars
  <1>3. OnceInv /\ (disturbed \in BOOLEAN) => TypeOK
    BY DEF OnceInv, NotifyInv, TypeOK, StreamRecorded, WorkerShape, RowsTyped, InHandRow,
           OneRowEach, ReadersTyped
  <1>4. Spec => [](disturbed \in BOOLEAN)
    BY <1>1, <1>2, PTL DEF Spec
  <1> QED BY <1>3, <1>4, OnceInvariant, PTL
-----------------------------------------------------------------------------
(***************************************************************************)
(* The number of unread notifications.  What the INSERT has added to the   *)
(* table and the INCRBY has not yet added to the number is in hand: the    *)
(* number and the rows in hand make the unread rows of the table.  A       *)
(* request that has counted holds the number of unread rows, and nothing   *)
(* of its user is in hand; and the number may be wrong while a request     *)
(* that has marked rows is about to delete it.                             *)
(***************************************************************************)
OfUser(u) == {r \in worker.new : r.user = u}

InTable(u) == {r \in notifs : r.user = u /\ <<r.event, u>> \notin read}

\* Rows of u that are inserted and not yet counted.
Uncounted(u) == IF worker.pc = "incr" THEN OfUser(u) ELSE {}

ReaderRight(u) ==
  \A q \in Reader : reader[q].pc = "set" /\ reader[q].user = u =>
    reader[q].n = Unread(u) /\ Uncounted(u) = {}

Marked(u) == \E q \in Reader : reader[q].pc = "marked" /\ reader[q].user = u

NumberRight(u) ==
  unread[u].ttl = "minutes" /\ ~Marked(u) =>
    Unread(u) = unread[u].n + Cardinality(Uncounted(u))

CountInv == ~disturbed => \A u \in User : ReaderRight(u) /\ NumberRight(u)

LEMMA OfUserFinite ==
  ASSUME OnceInv, NEW u
  PROVE  /\ IsFiniteSet(OfUser(u)) /\ Cardinality(OfUser(u)) \in Nat
         /\ IsFiniteSet(InTable(u)) /\ Cardinality(InTable(u)) \in Nat
         /\ Unread(u) = Cardinality(InTable(u))
  <1>1. IsFiniteSet(worker.new) /\ IsFiniteSet(notifs)
    BY InHandFinite, RowsFinite DEF OnceInv
  <1>2. OfUser(u) \subseteq worker.new /\ InTable(u) \subseteq notifs
    BY DEF OfUser, InTable
  <1>3. IsFiniteSet(OfUser(u)) /\ IsFiniteSet(InTable(u))
    BY <1>1, <1>2, FS_Subset
  <1> QED BY <1>3, FS_CardinalityType DEF Unread, InTable

\* Unless a user is told twice, the INSERT adds as many unread rows of his
\* as are in hand.
LEMMA InsertedNumber ==
  ASSUME OnceInv, worker.pc = "insert", ~Twice, UNCHANGED read, NEW u \in User,
         notifs' = notifs \cup Inserted(worker.new)
  PROVE  Unread(u)' = Unread(u) + Cardinality(OfUser(u))
  <1> DEFINE S == OfUser(u)
             T == InTable(u)
             N == {Row(r) : r \in S}
  <1>1. Inserted(worker.new) = {Row(r) : r \in worker.new}
    <2>1. \A x \in worker.new : x.type = "mentioned" =>
            ~ \E y \in worker.new : y.type # "mentioned" /\ y.event = x.event /\ y.user = x.user
      BY DEF Twice
    <2> QED BY <2>1 DEF Inserted
  <1>2. \A r \in S : Row(r).event = r.event /\ Row(r).user = u
    BY DEF Row, OfUser
  <1>3. {r \in notifs' : r.user = u /\ <<r.event, u>> \notin read'} = T \cup N
    <2>1. \A r \in S : <<r.event, u>> \notin read
      BY DEF OnceInv, NewNotThere, ReadersTyped, OfUser
    <2>2. \A r \in worker.new : Row(r).user = u => r \in S
      BY DEF Row, OfUser
    <2> QED BY <1>1, <1>2, <2>1, <2>2 DEF OfUser, InTable
  <1>4. T \cap N = {}
    BY <1>2 DEF OnceInv, NewNotThere, OfUser, InTable
  <1>5. IsFiniteSet(N) /\ Cardinality(N) = Cardinality(S)
    <2> DEFINE f == [r \in S |-> Row(r)]
    <2>1. f \in [S -> N] /\ \A t \in N : \E r \in S : f[r] = t
      OBVIOUS
    <2>2. \A r, s \in S : f[r] = f[s] => r = s
      <3> SUFFICES ASSUME NEW r \in S, NEW s \in S, Row(r) = Row(s) PROVE r = s
        OBVIOUS
      <3>1. Row(r).event = r.event /\ Row(s).event = s.event
        BY <1>2
      <3>2. r.user = u /\ s.user = u /\ r \in worker.new /\ s \in worker.new
        BY DEF OfUser
      <3>3. r.event = s.event
        BY <3>1
      <3> QED BY <3>2, <3>3 DEF Twice
    <2> HIDE DEF f, S, N
    <2>3. f \in Bijection(S, N)
      BY <2>1, <2>2, Fun_IsBij
    <2>4. ExistsBijection(S, N)
      BY <2>3 DEF ExistsBijection
    <2>5. IsFiniteSet(S)
      BY OfUserFinite DEF S
    <2> QED BY <2>4, <2>5, FS_Bijection
  <1>6. IsFiniteSet(T) /\ Cardinality(T) \in Nat /\ Cardinality(S) \in Nat /\ Unread(u) = Cardinality(T)
    BY OfUserFinite
  <1>7. Unread(u)' = Cardinality(T \cup N)
    BY <1>3 DEF Unread
  <1> HIDE DEF S, T, N
  <1>8. Cardinality(T \cup N) = Cardinality(T) + Cardinality(N) - Cardinality(T \cap N)
    BY <1>5, <1>6, FS_Union
  <1>9. Cardinality(T \cap N) = 0
    BY <1>4, FS_EmptySet
  <1>10. Unread(u)' = Unread(u) + Cardinality(S)
    BY <1>5, <1>6, <1>7, <1>8, <1>9
  <1> QED BY <1>10 DEF S

\* What a step leaves alone it leaves right.
LEMMA NumberKept ==
  ASSUME NEW u, ReaderRight(u), NumberRight(u), Unread(u)' = Unread(u),
         unread'[u] = unread[u], reader' = reader, Uncounted(u)' = Uncounted(u)
  PROVE  ReaderRight(u)' /\ NumberRight(u)'
  BY DEF ReaderRight, NumberRight, Marked

LEMMA HandlerKeepsCount ==
  ASSUME OnceInv, CountInv, BuildRows \/ ExistsPairs, ~disturbed', NEW u \in User
  PROVE  ReaderRight(u)' /\ NumberRight(u)'
  <1>1. /\ UNCHANGED <<notifs, read, unread, reader, disturbed>>
        /\ worker.pc # "incr"
        /\ worker'.pc = "incr" => worker'.new = {}
    BY DEF BuildRows, Built, ExistsPairs, Resting
  <1>2. Uncounted(u) = {} /\ Uncounted(u)' = {}
    BY <1>1 DEF Uncounted, OfUser
  <1>3. Unread(u)' = Unread(u)
    BY <1>1 DEF Unread
  <1>4. ReaderRight(u) /\ NumberRight(u)
    BY <1>1 DEF CountInv
  <1> QED BY <1>1, <1>2, <1>3, <1>4, NumberKept

LEMMA InsertKeepsCount ==
  ASSUME OnceInv, CountInv, BulkCreate, ~disturbed', NEW u \in User
  PROVE  ReaderRight(u)' /\ NumberRight(u)'
  <1>1. /\ UNCHANGED <<read, unread, reader>> /\ worker.pc = "insert"
        /\ notifs' = notifs \cup Inserted(worker.new)
        /\ worker'.pc = "incr" /\ worker'.new = worker.new
        /\ ~disturbed /\ ~Twice /\ \A r \in worker.new : ~SetsNumber(r.user)
    BY DEF BulkCreate, OnceInv, NotifyInv, WorkerShape
  <1>2. Unread(u)' = Unread(u) + Cardinality(OfUser(u))
    BY <1>1, InsertedNumber
  <1>3. Uncounted(u) = {} /\ Uncounted(u)' = OfUser(u)
    BY <1>1 DEF Uncounted, OfUser
  <1>4. ReaderRight(u) /\ NumberRight(u)
    BY <1>1 DEF CountInv
  <1>5. Cardinality(Uncounted(u)) = 0
    BY <1>3, FS_EmptySet
  <1>6. SetsNumber(u) => OfUser(u) = {}
    BY <1>1 DEF OfUser
  <1>7. unread[u].n \in Nat /\ Cardinality(OfUser(u)) \in Nat /\ Unread(u) \in Nat
    BY OfUserFinite DEF OnceInv, ReadersTyped, Key
  <1>8. Cardinality(Uncounted(u))' = Cardinality(OfUser(u))
    BY <1>3
  <1>9. ReaderRight(u)'
    <2> SUFFICES ASSUME NEW q \in Reader, reader[q].pc = "set", reader[q].user = u
                 PROVE  reader[q].n = Unread(u)' /\ Uncounted(u)' = {}
      BY <1>1 DEF ReaderRight
    <2>1. OfUser(u) = {} /\ Cardinality(OfUser(u)) = 0
      BY <1>6, FS_EmptySet DEF SetsNumber
    <2>2. reader[q].n = Unread(u)
      BY <1>4 DEF ReaderRight
    <2> QED BY <1>2, <1>3, <1>7, <2>1, <2>2
  <1>10. NumberRight(u)'
    <2>1. Marked(u)' <=> Marked(u)
      BY <1>1 DEF Marked
    <2> QED BY <1>1, <1>2, <1>4, <1>5, <1>7, <1>8, <2>1 DEF NumberRight
  <1> QED BY <1>9, <1>10

LEMMA IncrKeepsCount ==
  ASSUME OnceInv, CountInv, IncrByMany, ~disturbed', NEW u \in User
  PROVE  ReaderRight(u)' /\ NumberRight(u)'
  <1>1. /\ UNCHANGED <<notifs, read, reader, disturbed>> /\ worker.pc = "incr"
        /\ worker' = Resting /\ unread' = Incremented(User)
    BY DEF IncrByMany
  <1>2. Unread(u)' = Unread(u)
    BY <1>1 DEF Unread
  <1>3. Uncounted(u)' = {} /\ Uncounted(u) = OfUser(u)
    BY <1>1 DEF Uncounted, Resting
  <1>4. Cardinality(Uncounted(u)') = 0
    BY <1>3, FS_EmptySet
  <1>5. ReaderRight(u) /\ NumberRight(u)
    BY <1>1 DEF CountInv
  <1>6. ReaderRight(u)'
    BY <1>1, <1>2, <1>3, <1>5 DEF ReaderRight
  <1> DEFINE num == Cardinality(OfUser(u))
  <1>7. unread'[u] = IF num = 0 THEN unread[u]
                     ELSE [n |-> unread[u].n + num,
                           ttl |-> IF unread[u] = NoKey THEN "forever" ELSE unread[u].ttl]
    BY <1>1 DEF Incremented, OfUser
  <1>8. unread[u].n \in Nat /\ num \in Nat
    BY OfUserFinite DEF OnceInv, ReadersTyped, Key
  <1> HIDE DEF num
  <1>9. unread'[u].ttl = "minutes" => unread[u].ttl = "minutes" /\ unread'[u].n = unread[u].n + num
    BY <1>7, <1>8
  <1>10. unread[u].ttl = "minutes" /\ ~Marked(u) => Unread(u) = unread[u].n + num
    BY <1>3, <1>5 DEF NumberRight, num
  <1>11. unread'[u].n \in Nat
    BY <1>7, <1>8
  <1>12. NumberRight(u)'
    <2> SUFFICES ASSUME unread'[u].ttl = "minutes", ~Marked(u)
                 PROVE  Unread(u)' = unread'[u].n + Cardinality(Uncounted(u)')
      BY <1>1 DEF NumberRight, Marked
    <2> QED BY <1>2, <1>4, <1>9, <1>10, <1>11
  <1> QED BY <1>6, <1>12

\* A call of the handler that ends without INCRBY has inserted nothing.
LEMMA FailKeepsCount ==
  ASSUME OnceInv, CountInv, HandleFail \/ Crash, ~disturbed', NEW u \in User
  PROVE  ReaderRight(u)' /\ NumberRight(u)'
  <1>0. ~disturbed
    BY DEF HandleFail, Crash
  <1>1. /\ UNCHANGED <<notifs, read, unread, reader>> /\ worker' = Resting
        /\ worker.pc = "incr" => worker.new = {}
    <2>1. CASE HandleFail
      BY <2>1 DEF HandleFail
    <2>2. CASE Crash
      BY <2>2 DEF Crash
    <2> QED BY <2>1, <2>2
  <1>2. Uncounted(u) = {} /\ Uncounted(u)' = {}
    BY <1>1 DEF Uncounted, OfUser, Resting
  <1>3. Unread(u)' = Unread(u)
    BY <1>1 DEF Unread
  <1>4. ReaderRight(u) /\ NumberRight(u)
    BY <1>0 DEF CountInv
  <1> QED BY <1>1, <1>2, <1>3, <1>4, NumberKept

\* One request moves.  The others that set the number of u set the right
\* one, and it does too if it is about to.
LEMMA ReaderMoves ==
  ASSUME OnceInv, NEW q \in Reader, NEW x, reader' = [reader EXCEPT ![q] = x], NEW u,
         ReaderRight(u), Unread(u)' = Unread(u), Uncounted(u)' = Uncounted(u),
         x.pc = "set" /\ x.user = u => x.n = Unread(u) /\ Uncounted(u) = {}
  PROVE  ReaderRight(u)'
  BY DEF ReaderRight, OnceInv, ReadersTyped

\* What makes the number of u unsure stays while another request moves.
LEMMA MarkedStays ==
  ASSUME OnceInv, NEW q \in Reader, NEW x, reader' = [reader EXCEPT ![q] = x], NEW u,
         ~(reader[q].pc = "marked" /\ reader[q].user = u)
  PROVE  Marked(u) => Marked(u)'
  BY DEF Marked, OnceInv, ReadersTyped

LEMMA ExpireKeepsCount ==
  ASSUME OnceInv, CountInv, ~disturbed', NEW u \in User, NEW v \in User, ExpireUnread(v)
  PROVE  ReaderRight(u)' /\ NumberRight(u)'
  <1>1. UNCHANGED <<notifs, read, worker, reader>> /\ ~disturbed /\ ReaderRight(u) /\ NumberRight(u)
    BY DEF ExpireUnread, CountInv
  <1>2. Uncounted(u)' = Uncounted(u) /\ Unread(u)' = Unread(u) /\ (Marked(u)' <=> Marked(u))
    BY <1>1 DEF Uncounted, OfUser, Unread, Marked
  <1>3. unread'[u] = unread[u] \/ unread'[u].ttl = "missing"
    BY DEF ExpireUnread, OnceInv, ReadersTyped, NoKey
  <1> QED BY <1>1, <1>2, <1>3 DEF ReaderRight, NumberRight

LEMMA RequestKeepsCount ==
  ASSUME OnceInv, CountInv, ~disturbed', NEW u \in User, NEW q \in Reader, ReaderStep(q)
  PROVE  ReaderRight(u)' /\ NumberRight(u)'
  <1>0. ~disturbed /\ UNCHANGED <<notifs, worker>>
    <2>1. UNCHANGED <<notifs, worker>>
      BY RequestAside DEF Requested
    <2>2. CASE \E v \in User : MarkRead(q, v)
      BY <2>1, <2>2 DEF MarkRead
    <2>3. CASE CountUnread(q)
      BY <2>1, <2>3 DEF CountUnread
    <2>4. CASE DeleteUnreadFail(q)
      BY <2>4 DEF DeleteUnreadFail
    <2>5. CASE (\E v \in User : UnreadMiss(q, v)) \/ DeleteUnread(q) \/ SetUnread(q) \/ UnreadFail(q)
      <3>1. disturbed' = disturbed
        BY <2>5 DEF UnreadMiss, DeleteUnread, SetUnread, UnreadFail
      <3> QED BY <2>1, <3>1
    <2> QED BY <2>1, <2>2, <2>3, <2>4, <2>5 DEF ReaderStep
  <1>1. /\ ReaderRight(u) /\ NumberRight(u)
        /\ unread \in [User -> Key] /\ reader \in [Reader -> Request \cup {NoRequest}]
        /\ Uncounted(u)' = Uncounted(u)
    BY <1>0 DEF CountInv, OnceInv, ReadersTyped, Uncounted, OfUser
  <1>2. read' = read => Unread(u)' = Unread(u)
    BY <1>0 DEF Unread
  <1>3. ASSUME NEW v \in User, MarkRead(q, v) PROVE ReaderRight(u)' /\ NumberRight(u)'
    <2>0. ~SetsNumber(v)
      BY <1>3 DEF MarkRead
    <2>1. PICK x : /\ reader' = [reader EXCEPT ![q] = x] /\ x.pc = "marked" /\ x.user = v
                   /\ reader[q].pc = "idle" /\ unread' = unread
      <3>1. Turn(q, "marked", v, 0) /\ reader[q] = NoRequest /\ unread' = unread
        BY <1>3 DEF MarkRead
      <3> PICK x : x = [pc |-> "marked", user |-> v, n |-> 0]
        OBVIOUS
      <3>2. /\ reader' = [reader EXCEPT ![q] = x] /\ x.pc = "marked" /\ x.user = v
            /\ reader[q].pc = "idle"
        BY <3>1 DEF Turn, NoRequest
      <3> QED BY <3>1, <3>2
    <2>2. CASE u # v
      <3>1. \A e : <<e, u>> \in read' <=> <<e, u>> \in read
        BY <1>3, <2>2 DEF MarkRead
      <3>2. Unread(u)' = Unread(u)
        BY <1>0, <3>1 DEF Unread
      <3>3. ReaderRight(u)'
        BY <1>1, <2>1, <3>2, ReaderMoves
      <3>4. Marked(u) => Marked(u)'
        BY <2>1, MarkedStays
      <3> QED BY <1>1, <2>1, <3>2, <3>3, <3>4 DEF NumberRight
    <2>3. CASE u = v
      <3>1. Marked(u)'
        BY <1>1, <2>1, <2>3 DEF Marked
      <3>2. \A p \in Reader : ~(reader'[p].pc = "set" /\ reader'[p].user = u)
        BY <1>1, <2>0, <2>1, <2>3 DEF SetsNumber
      <3> QED BY <3>1, <3>2 DEF ReaderRight, NumberRight
    <2> QED BY <2>2, <2>3
  <1>4. CASE DeleteUnread(q)
    <2>1. PICK x : /\ reader' = [reader EXCEPT ![q] = x] /\ x.pc = "idle" /\ Unread(u)' = Unread(u)
                   /\ unread' = [unread EXCEPT ![reader[q].user] = NoKey]
      BY <1>2, <1>4 DEF DeleteUnread, End, NoRequest
    <2>2. ReaderRight(u)'
      BY <1>1, <2>1, ReaderMoves
    <2>3. CASE reader[q].user = u
      <3>1. unread'[u].ttl = "missing"
        BY <1>1, <2>1, <2>3 DEF NoKey
      <3> QED BY <2>2, <3>1 DEF NumberRight
    <2>4. CASE reader[q].user # u
      <3>1. unread'[u] = unread[u]
        BY <1>1, <2>1, <2>4
      <3>2. Marked(u) => Marked(u)'
        BY <2>1, <2>4, MarkedStays
      <3> QED BY <1>1, <2>1, <2>2, <3>1, <3>2 DEF NumberRight
    <2> QED BY <2>3, <2>4
  <1>5. CASE DeleteUnreadFail(q)
    BY <1>5 DEF DeleteUnreadFail
  <1>6. CASE (\E v \in User : UnreadMiss(q, v)) \/ UnreadFail(q)
    <2>1. PICK x : /\ reader' = [reader EXCEPT ![q] = x] /\ x.pc # "set"
                   /\ reader[q].pc # "marked" /\ UNCHANGED <<unread, read>>
      BY <1>6 DEF UnreadMiss, UnreadFail, Turn, End, NoRequest
    <2>2. ReaderRight(u)' /\ (Marked(u) => Marked(u)')
      BY <1>1, <1>2, <2>1, ReaderMoves, MarkedStays
    <2> QED BY <1>1, <1>2, <2>1, <2>2 DEF NumberRight
  <1>7. CASE CountUnread(q)
    <2> DEFINE v == reader[q].user
    <2>1. PICK x : /\ reader' = [reader EXCEPT ![q] = x]
                   /\ x.pc = "set" /\ x.user = v /\ x.n = Unread(v)
                   /\ reader[q].pc = "count" /\ UNCHANGED <<unread, read>>
                   /\ worker.pc = "incr" => \A r \in worker.new : r.user # v
      BY <1>7 DEF CountUnread, Turn
    <2>2. Uncounted(v) = {}
      BY <2>1 DEF Uncounted, OfUser
    <2> HIDE DEF v
    <2>3. ReaderRight(u)' /\ (Marked(u) => Marked(u)')
      BY <1>1, <1>2, <2>1, <2>2, ReaderMoves, MarkedStays
    <2> QED BY <1>1, <1>2, <2>1, <2>3 DEF NumberRight
  <1>8. CASE SetUnread(q)
    <2> DEFINE v == reader[q].user
    <2>1. PICK x : /\ reader' = [reader EXCEPT ![q] = x] /\ x.pc = "idle"
                   /\ reader[q].pc = "set" /\ read' = read
                   /\ unread' = [unread EXCEPT ![v] = [n |-> reader[q].n, ttl |-> "minutes"]]
      BY <1>8 DEF SetUnread, End, NoRequest
    <2> HIDE DEF v
    <2>2. ReaderRight(u)' /\ (Marked(u) => Marked(u)')
      BY <1>1, <1>2, <2>1, ReaderMoves, MarkedStays
    <2> USE DEF v
    <2>3. CASE v # u
      <3>1. unread'[u] = unread[u]
        BY <1>1, <2>1, <2>3
      <3> QED BY <1>1, <1>2, <2>1, <2>2, <3>1 DEF NumberRight
    <2>4. CASE v = u
      <3>1. reader[q].n = Unread(u) /\ Uncounted(u)' = {} /\ unread'[u].n = reader[q].n
        BY <1>1, <2>1, <2>4 DEF ReaderRight
      <3>2. Cardinality(Uncounted(u)') = 0 /\ Unread(u) \in Nat
        BY <3>1, FS_EmptySet, UnreadNumber
      <3> QED BY <1>2, <2>1, <2>2, <3>1, <3>2 DEF NumberRight
    <2> QED BY <2>3, <2>4
  <1> QED BY <1>3, <1>4, <1>5, <1>6, <1>7, <1>8 DEF ReaderStep

LEMMA CountInvariant == Spec => []CountInv
  <1>1. Init => CountInv
    BY DEF Init, CountInv, ReaderRight, NumberRight, NoKey, NoRequest
  <1>2. OnceInv /\ CountInv /\ [Next]_vars => CountInv'
    <2> SUFFICES ASSUME OnceInv, CountInv, [Next]_vars, ~disturbed', NEW u \in User
                 PROVE  ReaderRight(u)' /\ NumberRight(u)'
      BY DEF CountInv
    <2>1. CASE BuildRows \/ ExistsPairs
      BY <2>1, HandlerKeepsCount
    <2>2. CASE BulkCreate
      BY <2>2, InsertKeepsCount
    <2>3. CASE IncrByMany
      BY <2>3, IncrKeepsCount
    <2>4. CASE IncrByManyFail
      BY <2>4 DEF IncrByManyFail
    <2>5. CASE HandleFail \/ Crash
      BY <2>5, FailKeepsCount
    <2>6. CASE Requested
      BY <2>6, RequestKeepsCount, ExpireKeepsCount DEF Requested
    <2>7. CASE UNCHANGED <<notifs, read, worker, unread, reader, disturbed>>
      <3>1. ReaderRight(u) /\ NumberRight(u)
        BY <2>7 DEF CountInv
      <3>2. Unread(u)' = Unread(u) /\ Uncounted(u)' = Uncounted(u)
        BY <2>7 DEF Unread, Uncounted, OfUser
      <3> QED BY <2>7, <3>1, <3>2, NumberKept
    <2>8. CASE UNCHANGED vars
      BY <2>7, <2>8 DEF vars
    <2>9. CASE (\E e \in Event : Emit(e)) \/ (\E m \in DOMAIN evts : Republish(m))
      BY <2>7, <2>9 DEF Emit, Republish
    <2>10. CASE GroupRead \/ GroupAck \/ GroupAckFail
      BY <2>7, <2>10 DEF GroupRead, GroupAck, GroupAckFail, Aside
    <2> QED
      BY <2>1, <2>2, <2>3, <2>4, <2>5, <2>6, <2>8, <2>9, <2>10 DEF Next, HandlerStep, Requested
  <1> QED BY <1>1, <1>2, OnceInvariant, PTL DEF Spec

(***************************************************************************)
(* The number UnreadCount has cached is right between requests and batches *)
(* (notification_service.go:113-151, 153-192), for any number of requests  *)
(* of a user at a time, unless a batch failed or crashed after its INSERT  *)
(* or told a user twice, rows were inserted or marked in the middle of an  *)
(* UnreadCount of their user, or the DEL after an UPDATE failed.           *)
(***************************************************************************)
THEOREM CountedRightHolds == Spec => []CountedRight
  <1>1. OnceInv /\ CountInv => CountedRight
    <2> SUFFICES ASSUME OnceInv, CountInv, Quiet, ~disturbed, NEW u \in User,
                        unread[u].ttl = "minutes"
                 PROVE  unread[u].n = Unread(u)
      BY DEF CountedRight
    <2>1. Uncounted(u) = {} /\ ~Marked(u)
      BY DEF Quiet, Uncounted, Resting, Marked, NoRequest
    <2>2. Cardinality(Uncounted(u)) = 0
      BY <2>1, FS_EmptySet
    <2>3. unread[u].n \in Nat
      BY DEF OnceInv, ReadersTyped, Key
    <2>4. Unread(u) = unread[u].n + Cardinality(Uncounted(u))
      BY <2>1 DEF CountInv, NumberRight
    <2> QED BY <2>2, <2>3, <2>4
  <1> QED BY <1>1, OnceInvariant, CountInvariant, PTL
-----------------------------------------------------------------------------
(***************************************************************************)
(* Direct messages (module Messages), for every set of users, of drafts    *)
(* and of requests and any number of deletions and faults.                 *)
(***************************************************************************)

(***************************************************************************)
(* The inductive invariant.  Where a request can be in its statements; a   *)
(* request about to delete has found the message and the side its user is  *)
(* on; every message is a draft, and no two have one sender and key; and   *)
(* a side is deleted when its user has asked for it or a moderator.        *)
(***************************************************************************)
Sending == [op: {"send"}, draft: Draft,
            todo: {Talk!Calls.send, <<"isBlocked", "create">>, <<"create">>, <<"getByClientMsgID">>}]

Deleting == [op: {"delete"}, user: User, id: Talk!Id, side: Talk!Side \cup {"none"},
             todo: {Talk!Calls.delete, <<"updateSide">>}]

RequestsPlaced ==
  /\ request = [q \in Call |-> request[q]]
  /\ \A q \in Call : request[q] = Talk!NoRequest \/ request[q] \in Sending \cup Deleting

SideFound ==
  \A q \in Call :
    request[q] \in Deleting /\ request[q].todo = <<"updateSide">> =>
      LET r == request[q]
      IN  /\ r.id \in DOMAIN messages /\ r.user \in {messages[r.id].from, messages[r.id].to}
          /\ r.side = IF messages[r.id].to = r.user THEN "receiverDeleted" ELSE "senderDeleted"

MessagesTyped == messages \in Seq(Talk!Row)

MessagesDrafted ==
  \A i \in DOMAIN messages :
    \E d \in Draft : messages[i].from = d.from /\ messages[i].to = d.to /\ messages[i].key = d.key

KeysUnique ==
  \A i, j \in DOMAIN messages :
    messages[i].from = messages[j].from /\ messages[i].key = messages[j].key => i = j

AnswersRight ==
  /\ told = [d \in Draft |-> told[d]]
  /\ \A d \in Draft : told[d] \subseteq {i \in Talk!WithKey(d) : messages[i].to = d.to}

ChoicesKnown ==
  /\ asked \subseteq User \X DOMAIN messages /\ moderated \subseteq DOMAIN messages
  /\ \A i \in DOMAIN messages :
       /\ messages[i].senderDeleted <=> (<<messages[i].from, i>> \in asked \/ i \in moderated)
       /\ messages[i].receiverDeleted <=> (<<messages[i].to, i>> \in asked \/ i \in moderated)

TalkBounds ==
  /\ blocked \subseteq {{d.from, d.to} : d \in Draft}
  /\ deletes \in 0..MaxDeletes /\ failed \in 0..MaxFaults

TalkInv ==
  /\ RequestsPlaced /\ SideFound /\ MessagesTyped /\ MessagesDrafted /\ KeysUnique
  /\ AnswersRight /\ ChoicesKnown /\ TalkBounds
-----------------------------------------------------------------------------
(***************************************************************************)
(* Requests.                                                               *)
(***************************************************************************)
LEMMA CallsOfTalk ==
  /\ Talk!Calls.send = <<"getReceiver", "isBlocked", "create">>
  /\ Talk!Calls.delete = <<"selectSide", "updateSide">>
  BY DEF Talk!Calls

\* The call a request is at says where it is.
LEMMA PlaceOfCall ==
  ASSUME RequestsPlaced, NEW q, NEW call, Talk!At(q, call)
  PROVE  /\ q \in Call /\ request[q] \in Sending \cup Deleting
         /\ call = "getReceiver" => request[q] \in Sending /\ request[q].todo = Talk!Calls.send
         /\ call = "isBlocked" => request[q] \in Sending /\ request[q].todo = <<"isBlocked", "create">>
         /\ call = "create" => request[q] \in Sending /\ request[q].todo = <<"create">>
         /\ call = "getByClientMsgID" => request[q] \in Sending /\ request[q].todo = <<"getByClientMsgID">>
         /\ call = "selectSide" => request[q] \in Deleting /\ request[q].todo = Talk!Calls.delete
         /\ call = "updateSide" => request[q] \in Deleting /\ request[q].todo = <<"updateSide">>
  <1>1. q \in Call /\ request[q] \in Sending \cup Deleting /\ Head(request[q].todo) = call
    BY DEF RequestsPlaced, Talk!At, Talk!Active
  <1>2. CASE request[q] \in Sending
    <2> PICK t : t = request[q].todo
      OBVIOUS
    <2>1. t \in {Talk!Calls.send, <<"isBlocked", "create">>, <<"create">>, <<"getByClientMsgID">>}
      BY <1>2 DEF Sending
    <2>2. /\ t = Talk!Calls.send => Head(t) = "getReceiver"
          /\ t = <<"isBlocked", "create">> => Head(t) = "isBlocked"
          /\ t = <<"create">> => Head(t) = "create"
          /\ t = <<"getByClientMsgID">> => Head(t) = "getByClientMsgID"
      BY CallsOfTalk
    <2> QED BY <1>1, <1>2, <2>1, <2>2
  <1>3. CASE request[q] \in Deleting
    <2> PICK t : t = request[q].todo
      OBVIOUS
    <2>1. t \in {Talk!Calls.delete, <<"updateSide">>}
      BY <1>3 DEF Deleting
    <2>2. /\ t = Talk!Calls.delete => Head(t) = "selectSide"
          /\ t = <<"updateSide">> => Head(t) = "updateSide"
      BY CallsOfTalk
    <2> QED BY <1>1, <1>3, <2>1, <2>2
  <1> QED BY <1>1, <1>2, <1>3

\* One request moves; what is known of a request about to delete stays.
LEMMA RequestMoves ==
  ASSUME RequestsPlaced, SideFound, NEW q \in Call, NEW x,
         request' = [request EXCEPT ![q] = x],
         x = Talk!NoRequest \/ x \in Sending
           \/ (x \in Deleting /\ x.todo = Talk!Calls.delete),
         DOMAIN messages \subseteq DOMAIN messages',
         \A i \in DOMAIN messages : messages'[i].from = messages[i].from /\ messages'[i].to = messages[i].to
  PROVE  RequestsPlaced' /\ SideFound'
  <1>1. RequestsPlaced'
    BY DEF RequestsPlaced
  <1>2. \A p \in Call : request'[p] = IF p = q THEN x ELSE request[p]
    BY DEF RequestsPlaced
  <1>3. ~(x \in Deleting /\ x.todo = <<"updateSide">>)
    <2>1. x \in Deleting => x \notin Sending /\ x # Talk!NoRequest
      BY DEF Deleting, Sending, Talk!NoRequest
    <2>2. Talk!Calls.delete # <<"updateSide">>
      BY CallsOfTalk
    <2> QED BY <2>1, <2>2
  <1>4. SideFound'
    BY <1>2, <1>3 DEF SideFound
  <1> QED BY <1>1, <1>4

LEMMA RequestStays ==
  ASSUME RequestsPlaced, SideFound, request' = request,
         DOMAIN messages \subseteq DOMAIN messages',
         \A i \in DOMAIN messages : messages'[i].from = messages[i].from /\ messages'[i].to = messages[i].to
  PROVE  RequestsPlaced' /\ SideFound'
  BY DEF RequestsPlaced, SideFound

\* Proceed and Stop.
LEMMA RequestProceeds ==
  ASSUME RequestsPlaced, NEW q, NEW call, Talk!At(q, call), call \in {"getReceiver", "isBlocked"},
         Talk!Proceed(q)
  PROVE  \E x \in Sending : request' = [request EXCEPT ![q] = x]
  <1> DEFINE t == Tail(request[q].todo)
             x == [request[q] EXCEPT !.todo = t]
  <1>1. /\ request[q] \in Sending
        /\ request[q].todo = Talk!Calls.send \/ request[q].todo = <<"isBlocked", "create">>
    BY PlaceOfCall
  <1>2. t = <<"isBlocked", "create">> \/ t = <<"create">>
    <2> PICK s : s = request[q].todo
      OBVIOUS
    <2>1. s = <<"getReceiver", "isBlocked", "create">> \/ s = <<"isBlocked", "create">>
      BY <1>1, CallsOfTalk
    <2>2. /\ Tail(<<"getReceiver", "isBlocked", "create">>) = <<"isBlocked", "create">>
          /\ Tail(<<"isBlocked", "create">>) = <<"create">>
      OBVIOUS
    <2> QED BY <2>1, <2>2
  <1>3. t # <<>>
    BY <1>2
  <1>4. request' = [request EXCEPT ![q] = x]
    BY <1>3 DEF Talk!Proceed, Talk!GoOn
  <1>5. x \in Sending
    BY <1>1, <1>2 DEF Sending
  <1> QED BY <1>4, <1>5

LEMMA RequestStops ==
  ASSUME NEW q, Talk!Stop(q) PROVE request' = [request EXCEPT ![q] = Talk!NoRequest]
  BY DEF Talk!Stop, Talk!GoOn
-----------------------------------------------------------------------------
(***************************************************************************)
(* The table.                                                              *)
(***************************************************************************)
\* An UPDATE changes flags of rows.
LEMMA RowsUpdated ==
  ASSUME MessagesTyped, MessagesDrafted, KeysUnique, AnswersRight,
         DOMAIN messages' = DOMAIN messages, messages' = [i \in DOMAIN messages |-> messages'[i]],
         \A i \in DOMAIN messages :
           /\ messages'[i] \in Talk!Row
           /\ messages'[i].from = messages[i].from /\ messages'[i].to = messages[i].to
           /\ messages'[i].key = messages[i].key,
         told' = told
  PROVE  MessagesTyped' /\ MessagesDrafted' /\ KeysUnique' /\ AnswersRight'
  <1>1. MessagesTyped'
    <2>1. PICK n \in Nat : DOMAIN messages = 1..n
      BY DEF MessagesTyped
    <2>2. messages' \in [1..n -> Talk!Row]
      BY <2>1
    <2> QED BY <2>2 DEF MessagesTyped
  <1>2. MessagesDrafted'
    BY DEF MessagesDrafted
  <1>3. KeysUnique'
    BY DEF KeysUnique
  <1>4. \A d : Talk!WithKey(d)' = Talk!WithKey(d)
    BY DEF Talk!WithKey
  <1>5. AnswersRight'
    BY <1>4 DEF AnswersRight, Talk!WithKey
  <1> QED BY <1>1, <1>2, <1>3, <1>5

\* An INSERT.
LEMMA RowAdded ==
  ASSUME MessagesTyped, MessagesDrafted, KeysUnique, AnswersRight, NEW d \in Draft,
         NEW r \in Talk!Row, r.from = d.from, r.to = d.to, r.key = d.key,
         Talk!WithKey(d) = {}, messages' = Append(messages, r),
         Talk!Answer(d, Len(messages) + 1)
  PROVE  MessagesTyped' /\ MessagesDrafted' /\ KeysUnique' /\ AnswersRight'
  <1>1. /\ Len(messages) \in Nat /\ DOMAIN messages = 1..Len(messages)
        /\ DOMAIN messages' = 1..(Len(messages) + 1)
        /\ \A i \in DOMAIN messages : messages'[i] = messages[i]
        /\ messages'[Len(messages) + 1] = r
        /\ messages' \in Seq(Talk!Row)
    BY DEF MessagesTyped
  <1> DEFINE n == Len(messages) + 1
  <1>2. DOMAIN messages' = DOMAIN messages \cup {n} /\ n \notin DOMAIN messages
    BY <1>1
  <1> HIDE DEF n
  <1>3. \A i \in DOMAIN messages' : (i \in DOMAIN messages /\ messages'[i] = messages[i]) \/ (i = n /\ messages'[i] = r)
    BY <1>1, <1>2 DEF n
  <1>4. MessagesDrafted'
    BY <1>3 DEF MessagesDrafted
  <1>5. \A i \in DOMAIN messages : messages[i].from # d.from \/ messages[i].key # d.key
    BY DEF Talk!WithKey
  <1>6. KeysUnique'
    BY <1>3, <1>5 DEF KeysUnique
  <1>7. \A e \in Draft : Talk!WithKey(e) \subseteq Talk!WithKey(e)'
    BY <1>2, <1>3 DEF Talk!WithKey
  <1>8. n \in Talk!WithKey(d)' /\ messages'[n].to = d.to
    BY <1>1, <1>2 DEF Talk!WithKey, n
  <1>9. told' = [told EXCEPT ![d] = @ \cup {n}]
    BY DEF Talk!Answer, n
  <1>10. AnswersRight'
    <2>1. told' = [e \in Draft |-> told'[e]]
      BY <1>9 DEF AnswersRight
    <2> SUFFICES ASSUME NEW e \in Draft, NEW i \in told'[e]
                 PROVE  i \in Talk!WithKey(e)' /\ messages'[i].to = e.to
      BY <2>1 DEF AnswersRight
    <2>2. CASE i \in told[e]
      <3>1. i \in Talk!WithKey(e) /\ messages[i].to = e.to
        BY <2>2 DEF AnswersRight
      <3> QED BY <1>1, <1>7, <3>1 DEF Talk!WithKey
    <2>3. CASE i \notin told[e]
      <3>1. e = d /\ i = n
        BY <1>9, <2>3 DEF AnswersRight
      <3> QED BY <1>8, <3>1
    <2> QED BY <2>2, <2>3
  <1>11. MessagesTyped'
    BY <1>1 DEF MessagesTyped
  <1> QED BY <1>4, <1>6, <1>10, <1>11
-----------------------------------------------------------------------------
(***************************************************************************)
(* The steps.                                                              *)
(***************************************************************************)
\* Steps that leave the table alone.
LEMMA TableKept ==
  ASSUME TalkInv, UNCHANGED <<messages, asked, moderated>>, RequestsPlaced', SideFound',
         AnswersRight', TalkBounds'
  PROVE  TalkInv'
  BY DEF TalkInv, MessagesTyped, MessagesDrafted, KeysUnique, ChoicesKnown

LEMMA AnswersKept ==
  ASSUME TalkInv, UNCHANGED <<messages, told>> PROVE AnswersRight'
  BY DEF TalkInv, AnswersRight, Talk!WithKey

LEMMA SendKeeps ==
  ASSUME TalkInv, NEW q \in Call, NEW d \in Draft, Talk!Send(q, d) PROVE TalkInv'
  <1> DEFINE x == [op |-> "send", draft |-> d, todo |-> Talk!Calls.send]
  <1>1. x \in Sending
    BY DEF Sending
  <1>2. /\ UNCHANGED <<messages, blocked, told, asked, moderated, deletes, failed>>
        /\ request' = [request EXCEPT ![q] = x]
    BY DEF Talk!Send, Talk!bounds
  <1> HIDE DEF x
  <1>3. RequestsPlaced' /\ SideFound'
    BY <1>1, <1>2, RequestMoves DEF TalkInv
  <1>4. TalkBounds'
    BY <1>2 DEF TalkInv, TalkBounds
  <1> QED BY <1>2, <1>3, <1>4, TableKept, AnswersKept

LEMMA DeleteKeeps ==
  ASSUME TalkInv, NEW q \in Call, NEW u \in User, NEW i \in Talk!Id, Talk!Delete(q, u, i)
  PROVE  TalkInv'
  <1> DEFINE x == [op |-> "delete", user |-> u, id |-> i, side |-> "none", todo |-> Talk!Calls.delete]
  <1>1. x \in Deleting /\ x.todo = Talk!Calls.delete
    BY DEF Deleting
  <1>2. /\ UNCHANGED <<messages, blocked, told, asked, moderated, failed>>
        /\ deletes < MaxDeletes /\ deletes' = deletes + 1
        /\ request' = [request EXCEPT ![q] = x]
    BY DEF Talk!Delete
  <1> HIDE DEF x
  <1>3. RequestsPlaced' /\ SideFound'
    BY <1>1, <1>2, RequestMoves DEF TalkInv
  <1>4. TalkBounds'
    BY <1>2, DraftAssumption DEF TalkInv, TalkBounds
  <1> QED BY <1>2, <1>3, <1>4, TableKept, AnswersKept

LEMMA CheckKeeps ==
  ASSUME TalkInv, NEW q \in Call, Talk!GetReceiver(q) \/ Talk!IsBlockedEitherWay(q)
  PROVE  TalkInv'
  <1>1. UNCHANGED <<messages, blocked, told, asked, moderated, deletes, failed>>
    BY DEF Talk!GetReceiver, Talk!IsBlockedEitherWay, Talk!bounds
  <1>2. \/ \E x \in Sending : request' = [request EXCEPT ![q] = x]
        \/ request' = [request EXCEPT ![q] = Talk!NoRequest]
    <2>1. CASE Talk!GetReceiver(q)
      BY <2>1, RequestProceeds DEF Talk!GetReceiver, TalkInv
    <2>2. CASE Talk!IsBlockedEitherWay(q)
      BY <2>2, RequestProceeds, RequestStops DEF Talk!IsBlockedEitherWay, TalkInv
    <2> QED BY <2>1, <2>2
  <1>3. RequestsPlaced' /\ SideFound'
    BY <1>1, <1>2, RequestMoves DEF TalkInv
  <1>4. TalkBounds'
    BY <1>1 DEF TalkInv, TalkBounds
  <1> QED BY <1>1, <1>3, <1>4, TableKept, AnswersKept

LEMMA CreateKeeps ==
  ASSUME TalkInv, NEW q \in Call, Talk!Create(q) PROVE TalkInv'
  <1> PICK d : d = request[q].draft
    OBVIOUS
  <1>1. d \in Draft
    BY PlaceOfCall DEF Talk!Create, TalkInv, Sending
  <1>2. UNCHANGED <<blocked, asked, moderated, deletes, failed>>
    BY DEF Talk!Create, Talk!bounds
  <1>3. TalkBounds'
    BY <1>2 DEF TalkInv, TalkBounds
  <1>4. CASE Talk!WithKey(d) = {}
    <2> DEFINE r == [from |-> d.from, to |-> d.to, key |-> d.key, isRead |-> FALSE,
                     senderDeleted |-> FALSE, receiverDeleted |-> FALSE]
               n == Len(messages) + 1
    <2>1. messages' = Append(messages, r) /\ Talk!Answer(d, n) /\ Talk!Stop(q)
      BY <1>4 DEF Talk!Create
    <2>2. r \in Talk!Row
      BY <1>1, DraftAssumption DEF Talk!Row
    <2>3. /\ r.from = d.from /\ r.to = d.to /\ r.key = d.key
          /\ ~r.senderDeleted /\ ~r.receiverDeleted
      OBVIOUS
    <2>4. /\ DOMAIN messages' = DOMAIN messages \cup {n} /\ n \notin DOMAIN messages
          /\ \A i \in DOMAIN messages : messages'[i] = messages[i]
          /\ messages'[n] = r
      <3> HIDE DEF r
      <3> QED BY <2>1, <2>2 DEF TalkInv, MessagesTyped
    <2> HIDE DEF r, n
    <2>5. MessagesTyped' /\ MessagesDrafted' /\ KeysUnique' /\ AnswersRight'
      BY <1>1, <1>4, <2>1, <2>2, <2>3, RowAdded DEF TalkInv, n
    <2>6. RequestsPlaced' /\ SideFound'
      BY <2>1, <2>4, RequestStops, RequestMoves DEF TalkInv
    <2>7. ChoicesKnown'
      <3>1. asked' \subseteq User \X DOMAIN messages' /\ moderated' \subseteq DOMAIN messages'
        BY <1>2, <2>4 DEF TalkInv, ChoicesKnown
      <3> SUFFICES ASSUME NEW i \in DOMAIN messages'
                   PROVE  /\ messages'[i].senderDeleted <=> (<<messages'[i].from, i>> \in asked \/ i \in moderated)
                          /\ messages'[i].receiverDeleted <=> (<<messages'[i].to, i>> \in asked \/ i \in moderated)
        BY <1>2, <3>1 DEF ChoicesKnown
      <3>2. CASE i \in DOMAIN messages
        BY <2>4, <3>2 DEF TalkInv, ChoicesKnown
      <3>3. CASE i \notin DOMAIN messages
        <4>1. i = n /\ messages'[i] = r
          BY <2>4, <3>3
        <4>2. i \notin moderated /\ \A v : <<v, i>> \notin asked
          BY <3>3 DEF TalkInv, ChoicesKnown
        <4> QED BY <2>3, <4>1, <4>2
      <3> QED BY <3>2, <3>3
    <2> QED BY <1>3, <2>5, <2>6, <2>7 DEF TalkInv
  <1>5. CASE Talk!WithKey(d) # {}
    <2>1. Talk!GoOn(q, <<"getByClientMsgID">>) /\ UNCHANGED <<messages, told>>
      BY <1>5 DEF Talk!Create
    <2> DEFINE x == [request[q] EXCEPT !.todo = <<"getByClientMsgID">>]
    <2>2. request' = [request EXCEPT ![q] = x]
      BY <2>1 DEF Talk!GoOn
    <2>3. x \in Sending
      BY PlaceOfCall DEF Talk!Create, TalkInv, Sending
    <2> HIDE DEF x
    <2>4. RequestsPlaced' /\ SideFound'
      BY <2>1, <2>2, <2>3, RequestMoves DEF TalkInv
    <2> QED BY <1>2, <1>3, <2>1, <2>4, TableKept, AnswersKept
  <1> QED BY <1>4, <1>5

LEMMA LookUpKeeps ==
  ASSUME TalkInv, NEW q \in Call, Talk!GetByClientMsgID(q) PROVE TalkInv'
  <1> PICK d : d = request[q].draft
    OBVIOUS
  <1>1. d \in Draft
    BY PlaceOfCall DEF Talk!GetByClientMsgID, TalkInv, Sending
  <1>2. /\ UNCHANGED <<messages, blocked, asked, moderated, deletes, failed>> /\ Talk!Stop(q)
        /\ \E i \in Talk!WithKey(d) : Talk!Answer(d, i)
    BY DEF Talk!GetByClientMsgID, Talk!bounds
  <1>3. PICK i \in Talk!WithKey(d) : told' = [told EXCEPT ![d] = @ \cup {i}]
    BY <1>2 DEF Talk!Answer
  <1>4. messages[i].to = d.to
    <2>1. i \in DOMAIN messages /\ messages[i].from = d.from /\ messages[i].key = d.key
      BY DEF Talk!WithKey
    <2>2. PICK e \in Draft : messages[i].from = e.from /\ messages[i].to = e.to /\ messages[i].key = e.key
      BY <2>1 DEF TalkInv, MessagesDrafted
    <2>3. e = d
      BY <1>1, <2>1, <2>2, DraftAssumption
    <2> QED BY <2>2, <2>3
  <1>5. \A e : Talk!WithKey(e)' = Talk!WithKey(e)
    BY <1>2 DEF Talk!WithKey
  <1>6. AnswersRight'
    BY <1>1, <1>2, <1>3, <1>4, <1>5 DEF TalkInv, AnswersRight
  <1>7. TalkBounds'
    BY <1>2 DEF TalkInv, TalkBounds
  <1>8. RequestsPlaced' /\ SideFound'
    BY <1>2, RequestStops, RequestMoves DEF TalkInv
  <1> QED BY <1>2, <1>6, <1>7, <1>8, TableKept

LEMMA SelectSideKeeps ==
  ASSUME TalkInv, NEW q \in Call, Talk!SelectSide(q) PROVE TalkInv'
  <1> PICK r : r = request[q]
    OBVIOUS
  <1>1. r \in Deleting /\ r.todo = Talk!Calls.delete
    BY PlaceOfCall DEF Talk!SelectSide, TalkInv
  <1>2. UNCHANGED <<messages, blocked, told, asked, moderated, deletes, failed>>
    BY DEF Talk!SelectSide, Talk!bounds
  <1>3. TalkBounds'
    BY <1>2 DEF TalkInv, TalkBounds
  <1>4. CASE r.id \in DOMAIN messages /\ r.user \in {messages[r.id].from, messages[r.id].to}
    <2> DEFINE side == IF messages[r.id].to = r.user THEN "receiverDeleted" ELSE "senderDeleted"
               x == [r EXCEPT !.side = side, !.todo = <<"updateSide">>]
    <2>1. request' = [request EXCEPT ![q] = x]
      <3>1. request' = [request EXCEPT ![q].side = side, ![q].todo = Tail(@)]
        BY <1>4 DEF Talk!SelectSide
      <3>2. Tail(r.todo) = <<"updateSide">>
        BY <1>1, CallsOfTalk
      <3> QED BY <3>1, <3>2 DEF TalkInv, RequestsPlaced
    <2>2. side \in Talk!Side
      BY DEF Talk!Side
    <2>3. /\ x \in Deleting /\ x.todo = <<"updateSide">> /\ x.side = side
          /\ x.id = r.id /\ x.user = r.user
      <3> HIDE DEF side
      <3> QED BY <1>1, <2>2 DEF Deleting
    <2> HIDE DEF x
    <2>4. /\ RequestsPlaced'
          /\ \A p \in Call : request'[p] = IF p = q THEN x ELSE request[p]
      BY <2>1, <2>3 DEF TalkInv, RequestsPlaced
    <2>5. SideFound'
      <3> SUFFICES ASSUME NEW p \in Call, request'[p] \in Deleting, request'[p].todo = <<"updateSide">>
                   PROVE  /\ request'[p].id \in DOMAIN messages
                          /\ request'[p].user \in {messages[request'[p].id].from, messages[request'[p].id].to}
                          /\ request'[p].side = IF messages[request'[p].id].to = request'[p].user
                                                THEN "receiverDeleted" ELSE "senderDeleted"
        BY <1>2 DEF SideFound
      <3>1. CASE p = q
        BY <1>4, <2>3, <2>4, <3>1
      <3>2. CASE p # q
        BY <2>4, <3>2 DEF TalkInv, SideFound
      <3> QED BY <3>1, <3>2
    <2> QED BY <1>2, <1>3, <2>4, <2>5, TableKept, AnswersKept
  <1>5. CASE ~(r.id \in DOMAIN messages /\ r.user \in {messages[r.id].from, messages[r.id].to})
    <2>1. Talk!Stop(q)
      BY <1>5 DEF Talk!SelectSide
    <2>2. RequestsPlaced' /\ SideFound'
      BY <1>2, <2>1, RequestStops, RequestMoves DEF TalkInv
    <2> QED BY <1>2, <1>3, <2>2, TableKept, AnswersKept
  <1> QED BY <1>4, <1>5

\* Nobody writes to himself.
LEMMA SidesDiffer ==
  ASSUME TalkInv, NEW i \in DOMAIN messages
  PROVE  /\ messages[i].from \in User /\ messages[i].to \in User
         /\ messages[i].from # messages[i].to
  BY DraftAssumption DEF TalkInv, MessagesDrafted

LEMMA UpdateSideKeeps ==
  ASSUME TalkInv, NEW q \in Call, Talk!UpdateSide(q) PROVE TalkInv'
  <1> PICK r : r = request[q]
    OBVIOUS
  <1>1. r \in Deleting /\ r.todo = <<"updateSide">>
    BY PlaceOfCall DEF Talk!UpdateSide, TalkInv
  <1>2. /\ r.id \in DOMAIN messages /\ r.user \in {messages[r.id].from, messages[r.id].to}
        /\ r.side = IF messages[r.id].to = r.user THEN "receiverDeleted" ELSE "senderDeleted"
        /\ r.user \in User
    BY <1>1 DEF TalkInv, SideFound, Talk!UpdateSide, Talk!At, Talk!Active, Deleting
  <1>3. /\ UNCHANGED <<blocked, told, moderated, deletes, failed>> /\ Talk!Stop(q)
        /\ messages' = [messages EXCEPT ![r.id][r.side] = TRUE]
        /\ asked' = asked \cup {<<r.user, r.id>>}
    BY DEF Talk!UpdateSide, Talk!bounds
  <1>4. \A i \in DOMAIN messages : messages[i] \in Talk!Row
    BY DEF TalkInv, MessagesTyped
  <1>5. PICK m : m = messages[r.id]
    OBVIOUS
  <1>6. m \in Talk!Row /\ m.from # m.to
    BY <1>2, <1>4, <1>5, SidesDiffer
  <1>7. PICK x \in Talk!Row :
          /\ messages' = [messages EXCEPT ![r.id] = x]
          /\ x.from = m.from /\ x.to = m.to /\ x.key = m.key
          /\ x.senderDeleted <=> (m.senderDeleted \/ r.user = m.from)
          /\ x.receiverDeleted <=> (m.receiverDeleted \/ r.user = m.to)
    <2>1. CASE m.to = r.user
      <3> DEFINE x == [m EXCEPT !.receiverDeleted = TRUE]
      <3>1. messages' = [messages EXCEPT ![r.id] = x]
        BY <1>2, <1>3, <1>5, <2>1
      <3>2. x \in Talk!Row /\ x.from = m.from /\ x.to = m.to /\ x.key = m.key
        BY <1>6 DEF Talk!Row
      <3>3. x.receiverDeleted = TRUE /\ x.senderDeleted = m.senderDeleted
        BY <1>6 DEF Talk!Row
      <3> HIDE DEF x
      <3> QED BY <1>6, <2>1, <3>1, <3>2, <3>3
    <2>2. CASE m.to # r.user
      <3> DEFINE x == [m EXCEPT !.senderDeleted = TRUE]
      <3>1. messages' = [messages EXCEPT ![r.id] = x]
        BY <1>2, <1>3, <1>5, <2>2
      <3>2. x \in Talk!Row /\ x.from = m.from /\ x.to = m.to /\ x.key = m.key
        BY <1>6 DEF Talk!Row
      <3>3. x.senderDeleted = TRUE /\ x.receiverDeleted = m.receiverDeleted
        BY <1>6 DEF Talk!Row
      <3>4. r.user = m.from
        BY <1>2, <1>5, <2>2
      <3> HIDE DEF x
      <3> QED BY <2>2, <3>1, <3>2, <3>3, <3>4
    <2> QED BY <2>1, <2>2
  <1>8. /\ DOMAIN messages' = DOMAIN messages /\ messages' = [i \in DOMAIN messages |-> messages'[i]]
        /\ \A i \in DOMAIN messages : messages'[i] = IF i = r.id THEN x ELSE messages[i]
    BY <1>7 DEF TalkInv, MessagesTyped
  <1>9. \A i \in DOMAIN messages :
          /\ messages'[i] \in Talk!Row
          /\ messages'[i].from = messages[i].from /\ messages'[i].to = messages[i].to
          /\ messages'[i].key = messages[i].key
    BY <1>4, <1>5, <1>7, <1>8
  <1>10. MessagesTyped' /\ MessagesDrafted' /\ KeysUnique' /\ AnswersRight'
    BY <1>3, <1>8, <1>9, RowsUpdated DEF TalkInv
  <1>11. RequestsPlaced' /\ SideFound'
    <2>1. request' = [request EXCEPT ![q] = Talk!NoRequest]
      BY <1>3, RequestStops
    <2>2. DOMAIN messages \subseteq DOMAIN messages'
      BY <1>8
    <2> QED BY <1>9, <2>1, <2>2, RequestMoves DEF TalkInv
  <1>12. TalkBounds'
    BY <1>3 DEF TalkInv, TalkBounds
  <1>13. ChoicesKnown'
    <2>1. asked' \subseteq User \X DOMAIN messages' /\ moderated' \subseteq DOMAIN messages'
      BY <1>2, <1>3, <1>8 DEF TalkInv, ChoicesKnown
    <2> SUFFICES ASSUME NEW i \in DOMAIN messages
                 PROVE  /\ messages'[i].senderDeleted <=> (<<messages'[i].from, i>> \in asked' \/ i \in moderated)
                        /\ messages'[i].receiverDeleted <=> (<<messages'[i].to, i>> \in asked' \/ i \in moderated)
      BY <1>3, <1>8, <2>1 DEF ChoicesKnown
    <2>2. /\ messages[i].senderDeleted <=> (<<messages[i].from, i>> \in asked \/ i \in moderated)
          /\ messages[i].receiverDeleted <=> (<<messages[i].to, i>> \in asked \/ i \in moderated)
      BY DEF TalkInv, ChoicesKnown
    <2>3. CASE i # r.id
      <3>1. \A v : <<v, i>> \in asked' <=> <<v, i>> \in asked
        BY <1>3, <2>3
      <3>2. messages'[i] = messages[i]
        BY <1>8, <2>3
      <3> QED BY <2>2, <3>1, <3>2
    <2>4. CASE i = r.id
      <3>1. \A v : <<v, i>> \in asked' <=> (<<v, i>> \in asked \/ v = r.user)
        BY <1>3, <2>4
      <3>2. messages'[i] = x /\ messages[i] = m
        BY <1>5, <1>8, <2>4
      <3>3. /\ <<m.from, i>> \in asked' <=> (<<m.from, i>> \in asked \/ r.user = m.from)
            /\ <<m.to, i>> \in asked' <=> (<<m.to, i>> \in asked \/ r.user = m.to)
        BY <3>1
      <3> QED BY <1>7, <2>2, <3>2, <3>3
    <2> QED BY <2>3, <2>4
  <1> QED BY <1>10, <1>11, <1>12, <1>13 DEF TalkInv

LEMMA ModerateKeeps ==
  ASSUME TalkInv, NEW k \in Talk!Id, Talk!DeleteBothSide(k) PROVE TalkInv'
  <1>1. /\ UNCHANGED <<blocked, request, told, asked, failed>> /\ k \in DOMAIN messages
        /\ deletes < MaxDeletes /\ deletes' = deletes + 1
        /\ moderated' = moderated \cup {k}
        /\ messages' = [messages EXCEPT ![k].senderDeleted = TRUE, ![k].receiverDeleted = TRUE]
    BY DEF Talk!DeleteBothSide
  <1>2. \A i \in DOMAIN messages : messages[i] \in Talk!Row
    BY DEF TalkInv, MessagesTyped
  <1> PICK m : m = messages[k]
    OBVIOUS
  <1> DEFINE x == [m EXCEPT !.senderDeleted = TRUE, !.receiverDeleted = TRUE]
  <1>3. messages' = [messages EXCEPT ![k] = x]
    BY <1>1 DEF TalkInv, MessagesTyped
  <1>4. /\ x \in Talk!Row /\ x.from = m.from /\ x.to = m.to /\ x.key = m.key
        /\ x.senderDeleted /\ x.receiverDeleted
    BY <1>1, <1>2 DEF Talk!Row
  <1> HIDE DEF x
  <1>5. /\ DOMAIN messages' = DOMAIN messages /\ messages' = [i \in DOMAIN messages |-> messages'[i]]
        /\ \A i \in DOMAIN messages : messages'[i] = IF i = k THEN x ELSE messages[i]
    BY <1>3 DEF TalkInv, MessagesTyped
  <1>6. \A i \in DOMAIN messages :
          /\ messages'[i] \in Talk!Row
          /\ messages'[i].from = messages[i].from /\ messages'[i].to = messages[i].to
          /\ messages'[i].key = messages[i].key
    BY <1>2, <1>4, <1>5
  <1>7. MessagesTyped' /\ MessagesDrafted' /\ KeysUnique' /\ AnswersRight'
    BY <1>1, <1>5, <1>6, RowsUpdated DEF TalkInv
  <1>8. RequestsPlaced' /\ SideFound'
    BY <1>1, <1>5, <1>6, RequestStays DEF TalkInv
  <1>9. TalkBounds'
    BY <1>1, DraftAssumption DEF TalkInv, TalkBounds
  <1>10. ChoicesKnown'
    BY <1>1, <1>4, <1>5, <1>6 DEF TalkInv, ChoicesKnown
  <1> QED BY <1>7, <1>8, <1>9, <1>10 DEF TalkInv

LEMMA MarkKeeps ==
  ASSUME TalkInv, NEW u, NEW peer, Talk!MarkReadWithPeer(u, peer) PROVE TalkInv'
  <1>1. /\ UNCHANGED <<blocked, request, told, asked, moderated, deletes, failed>>
        /\ messages' = [i \in DOMAIN messages |->
                          [messages[i] EXCEPT !.isRead = @ \/ Talk!Readable(messages[i], u, peer)]]
    BY DEF Talk!MarkReadWithPeer, Talk!bounds
  <1>2. \A i \in DOMAIN messages : messages[i] \in Talk!Row
    BY DEF TalkInv, MessagesTyped
  <1>3. /\ DOMAIN messages' = DOMAIN messages /\ messages' = [i \in DOMAIN messages |-> messages'[i]]
    BY <1>1
  <1>4. \A i \in DOMAIN messages :
          /\ messages'[i] \in Talk!Row
          /\ messages'[i].from = messages[i].from /\ messages'[i].to = messages[i].to
          /\ messages'[i].key = messages[i].key
          /\ messages'[i].senderDeleted = messages[i].senderDeleted
          /\ messages'[i].receiverDeleted = messages[i].receiverDeleted
    <2> SUFFICES ASSUME NEW i \in DOMAIN messages
                 PROVE  /\ messages'[i] \in Talk!Row
                        /\ messages'[i].from = messages[i].from /\ messages'[i].to = messages[i].to
                        /\ messages'[i].key = messages[i].key
                        /\ messages'[i].senderDeleted = messages[i].senderDeleted
                        /\ messages'[i].receiverDeleted = messages[i].receiverDeleted
      OBVIOUS
    <2>1. PICK y \in BOOLEAN : messages'[i] = [messages[i] EXCEPT !.isRead = y]
      <3> DEFINE y == messages[i].isRead \/ Talk!Readable(messages[i], u, peer)
      <3>1. messages'[i] = [messages[i] EXCEPT !.isRead = y]
        BY <1>1
      <3>2. y \in BOOLEAN
        OBVIOUS
      <3> QED BY <3>1, <3>2
    <2> QED BY <1>2, <2>1 DEF Talk!Row
  <1>5. MessagesTyped' /\ MessagesDrafted' /\ KeysUnique' /\ AnswersRight'
    BY <1>1, <1>3, <1>4, RowsUpdated DEF TalkInv
  <1>6. RequestsPlaced' /\ SideFound'
    BY <1>1, <1>3, <1>4, RequestStays DEF TalkInv
  <1>7. TalkBounds'
    BY <1>1 DEF TalkInv, TalkBounds
  <1>8. ChoicesKnown'
    BY <1>1, <1>3, <1>4 DEF TalkInv, ChoicesKnown
  <1> QED BY <1>5, <1>6, <1>7, <1>8 DEF TalkInv

LEMMA FailOfTalkKeeps ==
  ASSUME TalkInv, NEW q \in Call, Talk!Fail(q) PROVE TalkInv'
  <1>1. /\ UNCHANGED <<messages, blocked, told, asked, moderated, deletes>>
        /\ failed < MaxFaults /\ failed' = failed + 1
    BY DEF Talk!Fail
  <1>2. \/ \E x \in Sending : request' = [request EXCEPT ![q] = x]
        \/ request' = [request EXCEPT ![q] = Talk!NoRequest]
    BY RequestProceeds, RequestStops DEF Talk!Fail, TalkInv
  <1>3. RequestsPlaced' /\ SideFound'
    BY <1>1, <1>2, RequestMoves DEF TalkInv
  <1>4. TalkBounds'
    BY <1>1, NotificationsAssumption DEF TalkInv, TalkBounds
  <1> QED BY <1>1, <1>3, <1>4, TableKept, AnswersKept

LEMMA BlockKeeps ==
  ASSUME TalkInv, (\E d \in Draft : Talk!ChangeBlock({d.from, d.to})) \/ UNCHANGED Talk!vars
  PROVE  TalkInv'
  <1>1. UNCHANGED <<messages, request, told, asked, moderated, deletes, failed>>
    BY DEF Talk!ChangeBlock, Talk!bounds, Talk!vars
  <1>2. blocked' \subseteq blocked \cup {{d.from, d.to} : d \in Draft}
    BY DEF Talk!ChangeBlock, Talk!vars
  <1>3. TalkBounds'
    BY <1>1, <1>2 DEF TalkInv, TalkBounds
  <1>4. RequestsPlaced' /\ SideFound'
    BY <1>1, RequestStays DEF TalkInv
  <1> QED BY <1>1, <1>3, <1>4, TableKept, AnswersKept

LEMMA TalkInvariant == Talk!Spec => []TalkInv
  <1>1. Talk!Init => TalkInv
    <2> SUFFICES ASSUME Talk!Init PROVE TalkInv
      OBVIOUS
    <2> USE DEF Talk!Init
    <2>1. DOMAIN messages = {} /\ MessagesTyped
      BY DEF MessagesTyped
    <2>2. RequestsPlaced
      BY DEF RequestsPlaced
    <2>3. \A q \in Call : request[q] \notin Deleting
      BY DEF Deleting, Talk!NoRequest
    <2>4. TalkBounds
      BY DraftAssumption, NotificationsAssumption DEF TalkBounds
    <2> QED
      BY <2>1, <2>2, <2>3, <2>4
      DEF TalkInv, SideFound, MessagesDrafted, KeysUnique, AnswersRight, ChoicesKnown
  <1>2. TalkInv /\ [Talk!Next]_(Talk!vars) => TalkInv'
    <2> SUFFICES ASSUME TalkInv, Talk!Next \/ UNCHANGED Talk!vars PROVE TalkInv'
      OBVIOUS
    <2> QED
      BY SendKeeps, DeleteKeeps, CheckKeeps, CreateKeeps, LookUpKeeps, SelectSideKeeps,
         UpdateSideKeeps, ModerateKeeps, MarkKeeps, FailOfTalkKeeps, BlockKeeps DEF Talk!Next
  <1> QED BY <1>1, <1>2, PTL DEF Talk!Spec
-----------------------------------------------------------------------------
(***************************************************************************)
(* What the invariant says of types, answers and lists.                    *)
(***************************************************************************)
\* Messages counts as this module does.
LEMMA SameCount == ASSUME NEW S PROVE Talk!Cardinality(S) = Cardinality(S)
  BY DEF Talk!Cardinality, Cardinality

LEMMA MessagesBounded ==
  ASSUME TalkInv
  PROVE  Len(messages) \in Nat /\ DOMAIN messages = 1..Len(messages)
         /\ Cardinality(Draft) \in Nat /\ Len(messages) <= Cardinality(Draft)
  <1>1. Len(messages) \in Nat /\ DOMAIN messages = 1..Len(messages)
    BY DEF TalkInv, MessagesTyped
  <1> DEFINE of(i) == CHOOSE d \in Draft : messages[i].from = d.from /\ messages[i].key = d.key
             f == [i \in DOMAIN messages |-> of(i)]
  <1>2. \A i \in DOMAIN messages :
          of(i) \in Draft /\ messages[i].from = of(i).from /\ messages[i].key = of(i).key
    BY DEF TalkInv, MessagesDrafted
  <1>3. f \in Injection(DOMAIN messages, Draft)
    <2>1. f \in [DOMAIN messages -> Draft]
      BY <1>2
    <2>2. \A i, j \in DOMAIN messages : f[i] = f[j] => i = j
      BY <1>2 DEF TalkInv, KeysUnique
    <2> HIDE DEF f
    <2> QED BY <2>1, <2>2 DEF Injection, IsInjective
  <1> HIDE DEF f
  <1>4. Cardinality(DOMAIN messages) <= Cardinality(Draft)
    BY <1>3, FS_Injection, DraftAssumption
  <1>5. Cardinality(1..Len(messages)) = Len(messages)
    <2>1. \A n \in Nat : Cardinality(1..n) = n
      BY FS_Interval
    <2> QED BY <1>1, <2>1
  <1>6. Cardinality(Draft) \in Nat
    BY DraftAssumption, FS_CardinalityType
  <1> QED BY <1>1, <1>4, <1>5, <1>6

LEMMA TalkTyped == ASSUME TalkInv PROVE Talk!TypeOK
  <1>1. messages \in Seq(Talk!Row) /\ Len(messages) <= Cardinality(Draft)
    BY MessagesBounded DEF TalkInv, MessagesTyped
  <1>2. DOMAIN messages \subseteq Talk!Id
    <2> PICK n, card : n = Len(messages) /\ card = Cardinality(Draft)
      OBVIOUS
    <2>1. n \in Nat /\ card \in Nat /\ n <= card /\ DOMAIN messages = 1..n /\ Talk!Id = 1..card
      BY MessagesBounded, SameCount DEF Talk!Id
    <2>2. 1..n \subseteq 1..card
      BY <2>1
    <2> QED BY <2>1, <2>2
  <1>3. \A q \in Talk!Active :
          /\ request[q].todo # <<>> /\ Talk!ToSet(request[q].todo) \subseteq Talk!Step
          /\ \/ request[q].op = "send" /\ request[q].draft \in Draft
             \/ /\ request[q].op = "delete" /\ request[q].user \in User
                /\ request[q].id \in Talk!Id /\ request[q].side \in Talk!Side \cup {"none"}
    <2> SUFFICES ASSUME NEW q \in Talk!Active
                 PROVE  /\ request[q].todo # <<>> /\ Talk!ToSet(request[q].todo) \subseteq Talk!Step
                        /\ \/ request[q].op = "send" /\ request[q].draft \in Draft
                           \/ /\ request[q].op = "delete" /\ request[q].user \in User
                              /\ request[q].id \in Talk!Id /\ request[q].side \in Talk!Side \cup {"none"}
      OBVIOUS
    <2> PICK t : t = request[q].todo
      OBVIOUS
    <2>1. request[q] \in Sending \cup Deleting
      BY DEF TalkInv, RequestsPlaced, Talk!Active
    <2>2. \/ t \in {<<"getReceiver", "isBlocked", "create">>, <<"isBlocked", "create">>}
          \/ t \in {<<"create">>, <<"getByClientMsgID">>}
          \/ t \in {<<"selectSide", "updateSide">>, <<"updateSide">>}
      BY <2>1, CallsOfTalk DEF Sending, Deleting
    <2>3. t # <<>>
      BY <2>2
    <2>4. Talk!ToSet(t) \subseteq {"getReceiver", "isBlocked", "create", "getByClientMsgID", "selectSide", "updateSide"}
      BY <2>2 DEF Talk!ToSet
    <2>5. {"getReceiver", "isBlocked", "create", "getByClientMsgID", "selectSide", "updateSide"} \subseteq Talk!Step
      <3>1. Talk!ToSet(Talk!Calls.send) = {"getReceiver", "isBlocked", "create"}
        BY CallsOfTalk DEF Talk!ToSet
      <3>2. Talk!ToSet(Talk!Calls.delete) = {"selectSide", "updateSide"}
        BY CallsOfTalk DEF Talk!ToSet
      <3> QED BY <3>1, <3>2 DEF Talk!Step
    <2>6. \/ request[q].op = "send" /\ request[q].draft \in Draft
          \/ /\ request[q].op = "delete" /\ request[q].user \in User
             /\ request[q].id \in Talk!Id /\ request[q].side \in Talk!Side \cup {"none"}
      BY <2>1 DEF Sending, Deleting
    <2> QED BY <2>3, <2>4, <2>5, <2>6
  <1>4. told \in [Draft -> SUBSET Talk!Id]
    BY <1>2 DEF TalkInv, AnswersRight, Talk!WithKey
  <1>5. asked \subseteq User \X Talk!Id /\ moderated \subseteq Talk!Id
    BY <1>2 DEF TalkInv, ChoicesKnown
  <1> QED BY <1>1, <1>3, <1>4, <1>5, SameCount DEF TalkInv, TalkBounds, Talk!TypeOK

LEMMA SentOnceHolds == ASSUME TalkInv PROVE Talk!SentOnce
  <1> SUFFICES ASSUME NEW d \in Draft PROVE Cardinality(Talk!WithKey(d)) <= 1
    BY SameCount DEF Talk!SentOnce, TalkInv, AnswersRight
  <1>1. \A i, j \in Talk!WithKey(d) : i = j
    BY DEF TalkInv, KeysUnique, Talk!WithKey
  <1>2. CASE Talk!WithKey(d) = {}
    BY <1>2, FS_EmptySet
  <1>3. CASE \E i : i \in Talk!WithKey(d)
    <2> PICK i : i \in Talk!WithKey(d)
      BY <1>3
    <2>1. Talk!WithKey(d) = {i}
      BY <1>1
    <2> QED BY <2>1, FS_Singleton
  <1> QED BY <1>2, <1>3

LEMMA GoneByChoiceHolds == ASSUME TalkInv PROVE Talk!GoneByChoice
  <1> SUFFICES ASSUME NEW i \in DOMAIN messages
               PROVE  /\ i \in Talk!ListWithPeer(messages[i].from, messages[i].to)
                           <=> <<messages[i].from, i>> \notin asked /\ i \notin moderated
                      /\ i \in Talk!ListWithPeer(messages[i].to, messages[i].from)
                           <=> <<messages[i].to, i>> \notin asked /\ i \notin moderated
    <2> SUFFICES ASSUME NEW k \in DOMAIN messages,
                        NEW pair \in {<<messages[k].from, messages[k].to>>, <<messages[k].to, messages[k].from>>}
                 PROVE  k \in Talk!ListWithPeer(pair[1], pair[2])
                          <=> <<pair[1], k>> \notin asked /\ k \notin moderated
      BY DEF Talk!GoneByChoice
    <2>1. CASE pair = <<messages[k].from, messages[k].to>>
      BY <2>1
    <2>2. CASE pair = <<messages[k].to, messages[k].from>>
      BY <2>2
    <2> QED BY <2>1, <2>2
  <1>1. messages[i].from # messages[i].to
    BY SidesDiffer
  <1> QED BY <1>1 DEF TalkInv, ChoicesKnown, Talk!ListWithPeer, Talk!Outgoing, Talk!Incoming
-----------------------------------------------------------------------------
(***************************************************************************)
(* The unread numbers.  The unread messages of a user are those of his     *)
(* conversations, and each is in one of them.                              *)
(***************************************************************************)
New(u, p) == {i \in Talk!Incoming(u, p) : ~messages[i].isRead}
Peers(u) == {p \in User : Talk!ListWithPeer(u, p) # {}}

LEMMA RowOfPeer ==
  ASSUME NEW u, NEW p
  PROVE  /\ Talk!Conversation(u, p).peer = p
         /\ Talk!Conversation(u, p).unread = Cardinality(New(u, p))
  BY SameCount DEF Talk!Conversation, New

LEMMA NewFinite ==
  ASSUME TalkInv, NEW u, NEW p
  PROVE  IsFiniteSet(New(u, p)) /\ Cardinality(New(u, p)) \in Nat
         /\ \E f : f \in Bijection(1..Cardinality(New(u, p)), New(u, p))
  <1>1. IsFiniteSet(DOMAIN messages)
    BY MessagesBounded, FS_Interval
  <1>2. New(u, p) \subseteq DOMAIN messages
    BY DEF New, Talk!Incoming
  <1>3. IsFiniteSet(New(u, p))
    BY <1>1, <1>2, FS_Subset
  <1> QED BY <1>3, FS_CardinalityType DEF ExistsBijection

LEMMA BadgeIsSum ==
  ASSUME TalkInv, NEW u \in User
  PROVE  Talk!UnreadCount(u) =
           Cardinality(UNION {{row.peer} \X (1..row.unread) : row \in Talk!ListConversations(u)})
  <1> DEFINE n(p) == Cardinality(New(u, p))
             pairs == UNION {{p} \X (1..n(p)) : p \in Peers(u)}
             mine == {i \in DOMAIN messages : \E p \in User : Talk!Readable(messages[i], u, p)}
             g(p) == CHOOSE f : f \in Bijection(1..n(p), New(u, p))
             F == [t \in pairs |-> g(t[1])[t[2]]]
  <1>1. UNION {{row.peer} \X (1..row.unread) : row \in Talk!ListConversations(u)} = pairs
    <2>1. \A p \in Peers(u) : Talk!Conversation(u, p) \in Talk!ListConversations(u)
      BY DEF Talk!ListConversations, Peers
    <2>2. \A row \in Talk!ListConversations(u) : \E p \in Peers(u) : row = Talk!Conversation(u, p)
      BY DEF Talk!ListConversations, Peers
    <2>3. \A p : Talk!Conversation(u, p).peer = p /\ Talk!Conversation(u, p).unread = n(p)
      BY RowOfPeer
    <2> HIDE DEF n
    <2> SUFFICES ASSUME NEW t
                 PROVE  (\E row \in Talk!ListConversations(u) : t \in {row.peer} \X (1..row.unread))
                          <=> \E p \in Peers(u) : t \in {p} \X (1..n(p))
      OBVIOUS
    <2>4. ASSUME NEW p \in Peers(u), t \in {p} \X (1..n(p))
          PROVE  \E row \in Talk!ListConversations(u) : t \in {row.peer} \X (1..row.unread)
      BY <2>1, <2>3, <2>4
    <2>5. ASSUME NEW row \in Talk!ListConversations(u), t \in {row.peer} \X (1..row.unread)
          PROVE  \E p \in Peers(u) : t \in {p} \X (1..n(p))
      BY <2>2, <2>3, <2>5
    <2> QED BY <2>4, <2>5
  <1>2. \A p : n(p) \in Nat /\ g(p) \in Bijection(1..n(p), New(u, p))
    BY NewFinite
  <1>3. \A i : i \in mine <=> \E p \in Peers(u) : i \in New(u, p)
    <2>1. \A i \in DOMAIN messages : messages[i].from \in User
      BY SidesDiffer
    <2> QED BY <2>1 DEF Talk!Readable, New, Talk!Incoming, Peers, Talk!ListWithPeer
  <1> HIDE DEF g, n, mine
  <1>4. \A p : /\ \A k \in 1..n(p) : g(p)[k] \in New(u, p)
               /\ \A k, l \in 1..n(p) : g(p)[k] = g(p)[l] => k = l
               /\ \A i \in New(u, p) : \E k \in 1..n(p) : g(p)[k] = i
    BY <1>2, Fun_BijectionProperties
  <1>5. \A t : t \in pairs <=> \E p \in Peers(u) : \E k \in 1..n(p) : t = <<p, k>>
    OBVIOUS
  <1> HIDE DEF pairs
  <1>6. \A p \in Peers(u) : \A k \in 1..n(p) : <<p, k>> \in pairs /\ F[<<p, k>>] = g(p)[k]
    BY <1>5
  <1>7. F \in [pairs -> mine]
    <2> SUFFICES ASSUME NEW t \in pairs PROVE F[t] \in mine
      OBVIOUS
    <2>1. PICK p \in Peers(u) : \E k \in 1..n(p) : t = <<p, k>>
      BY <1>5
    <2> PICK k \in 1..n(p) : t = <<p, k>>
      BY <2>1
    <2> HIDE DEF F
    <2> QED BY <1>3, <1>4, <1>6
  <1> HIDE DEF F
  <1>8. \A s, t \in pairs : F[s] = F[t] => s = t
    <2> SUFFICES ASSUME NEW s \in pairs, NEW t \in pairs, F[s] = F[t] PROVE s = t
      OBVIOUS
    <2>a. PICK p \in Peers(u) : \E k \in 1..n(p) : s = <<p, k>>
      BY <1>5
    <2>1. PICK k \in 1..n(p) : s = <<p, k>>
      BY <2>a
    <2>b. PICK q \in Peers(u) : \E l \in 1..n(q) : t = <<q, l>>
      BY <1>5
    <2>2. PICK l \in 1..n(q) : t = <<q, l>>
      BY <2>b
    <2>3. g(p)[k] = g(q)[l] /\ g(p)[k] \in New(u, p) /\ g(q)[l] \in New(u, q)
      BY <1>4, <1>6, <2>1, <2>2
    <2>4. p = q
      BY <2>3 DEF New, Talk!Incoming
    <2>5. k = l
      BY <1>4, <2>3, <2>4
    <2> QED BY <2>1, <2>2, <2>4, <2>5
  <1>9. ASSUME NEW i \in mine PROVE \E t \in pairs : F[t] = i
    <2>1. PICK p \in Peers(u) : i \in New(u, p)
      BY <1>3
    <2>2. PICK k \in 1..n(p) : g(p)[k] = i
      BY <1>4, <2>1
    <2> QED BY <1>6, <2>2
  <1>10. F \in Bijection(pairs, mine)
    BY <1>7, <1>8, <1>9, Fun_IsBij
  <1>11. ExistsBijection(mine, pairs)
    BY <1>10, Fun_ExistsBijSymmetric DEF ExistsBijection
  <1>12. IsFiniteSet(mine)
    <2>1. IsFiniteSet(DOMAIN messages)
      BY MessagesBounded, FS_Interval
    <2>2. mine \subseteq DOMAIN messages
      BY DEF mine
    <2> QED BY <2>1, <2>2, FS_Subset
  <1>13. Cardinality(pairs) = Cardinality(mine)
    BY <1>11, <1>12, FS_Bijection
  <1>14. Talk!UnreadCount(u) = Cardinality(mine)
    BY SameCount DEF Talk!UnreadCount, mine
  <1> QED BY <1>1, <1>13, <1>14

\* Finitely many ids have a greatest one.
LEMMA GreatestOf ==
  ASSUME NEW n \in Nat, NEW T \in SUBSET (1..n), T # {}
  PROVE  \E i \in T : \A j \in T : j <= i
  <1> DEFINE above(i) == {j \in T : i < j}
             R == StrictSubsetOrdering(T)
  <1>1. /\ IsFiniteSet(T) /\ \A i \in T : i \in Nat
    <2>1. IsFiniteSet(1..n)
      BY FS_Interval
    <2>2. IsFiniteSet(T)
      BY <2>1, FS_Subset
    <2>3. \A i \in 1..n : i \in Nat
      OBVIOUS
    <2> QED BY <2>2, <2>3
  <1>2. FiniteSubsetsOf(T) = SUBSET T
    BY <1>1, FS_FiniteSubsetsOfFinite
  <1>3. IsWellFoundedOn(R, SUBSET T)
    BY <1>2, FS_StrictSubsetOrderingWellFounded
  <1>4. \A i : above(i) \in SUBSET T
    OBVIOUS
  <1>5. \A i, j \in T : i < j => /\ above(j) \subseteq above(i)
                                 /\ j \in above(i) /\ j \notin above(j)
    <2> SUFFICES ASSUME NEW i \in T, NEW j \in T, i < j
                 PROVE  /\ \A k \in T : j < k => i < k
                        /\ ~ (j < j)
      OBVIOUS
    <2>1. i \in Nat /\ j \in Nat
      BY <1>1
    <2> QED BY <1>1, <2>1
  <1>6. \A X, Y \in SUBSET T : X \subseteq Y /\ X # Y => <<X, Y>> \in R
    BY DEF StrictSubsetOrdering
  <1> HIDE DEF R, above
  <1> DEFINE A == {above(i) : i \in T}
  <1>7. A \subseteq SUBSET T /\ A # {}
    BY <1>4
  <1>8. PICK X \in A : \A Y \in A : <<Y, X>> \notin R
    <2> HIDE DEF A
    <2> QED BY <1>3, <1>7, WFMin
  <1>9. PICK i \in T : X = above(i)
    OBVIOUS
  <1>10. ASSUME NEW j \in T, i < j PROVE FALSE
    <2>1. above(j) \subseteq above(i) /\ above(j) # above(i)
      BY <1>5, <1>10
    <2> QED BY <1>4, <1>6, <1>8, <1>9, <2>1
  <1> QED BY <1>1, <1>10

LEMMA LastShown ==
  ASSUME TalkInv, NEW u \in User, NEW p \in Peers(u)
  PROVE  Talk!Conversation(u, p).last \in Talk!ListWithPeer(u, p)
  <1> DEFINE T == Talk!ListWithPeer(u, p)
  <1>1. T \in SUBSET (1..Len(messages)) /\ Len(messages) \in Nat /\ T # {}
    BY MessagesBounded DEF Talk!ListWithPeer, Talk!Outgoing, Talk!Incoming, Peers
  <1>2. Talk!Conversation(u, p).last = CHOOSE i \in T : \A j \in T : j <= i
    BY DEF Talk!Conversation
  <1> HIDE DEF T
  <1>3. \E i \in T : \A j \in T : j <= i
    BY <1>1, GreatestOf
  <1>4. Talk!Conversation(u, p).last \in T
    BY <1>2, <1>3
  <1> QED BY <1>4 DEF T

LEMMA BadgeHolds == ASSUME TalkInv PROVE Talk!BadgeAddsUp
  <1>1. \A u \in User : \A row \in Talk!ListConversations(u) : row.last \in Talk!ListWithPeer(u, row.peer)
    <2> SUFFICES ASSUME NEW u \in User, NEW row \in Talk!ListConversations(u)
                 PROVE  row.last \in Talk!ListWithPeer(u, row.peer)
      OBVIOUS
    <2>1. PICK p \in Peers(u) : row = Talk!Conversation(u, p)
      BY DEF Talk!ListConversations, Peers
    <2> QED BY <2>1, LastShown, RowOfPeer
  <1> QED BY <1>1, BadgeIsSum, SameCount DEF Talk!BadgeAddsUp

(***************************************************************************)
(* A draft becomes one message however often it is sent and whatever fails *)
(* or overlaps, every answer names it, a message leaves a conversation     *)
(* only by the choice of its owner or of a moderator, and badge and lists  *)
(* agree (message_service.go:46-182, message_repo.go:30-137).              *)
(***************************************************************************)
THEOREM MessagesRightHolds == Talk!Spec => []MessagesRight
  <1>1. TalkInv => MessagesRight
    BY TalkTyped, SentOnceHolds, GoneByChoiceHolds, BadgeHolds DEF MessagesRight
  <1> QED BY <1>1, TalkInvariant, PTL
=============================================================================
