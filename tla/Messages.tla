------------------------------- MODULE Messages -------------------------------
(***************************************************************************)
(* Direct messages: sending with a key of the client, lists and unread     *)
(* numbers, read marks and deletion for one side                           *)
(* (internal/service/message_service.go, internal/repo/message_repo.go).   *)
(*                                                                         *)
(* A request is a sequence of statements; requests interleave between      *)
(* them, a statement may fail, and a client that has no answer, or got an  *)
(* error, sends the same draft again.  The users exist; blocking is done   *)
(* in SocialGraph and happens here as it pleases.  Contents and times are  *)
(* left out.                                                               *)
(***************************************************************************)
EXTENDS Naturals, FiniteSets, SequencesExt

CONSTANTS User,
          Draft,      \* what the clients send: records of from, to and key
          Request,    \* API requests in progress at the same time
          MaxDeletes, \* bound: deletions, of users and moderators
          MaxFaults   \* bound: statements that fail

VARIABLES messages,  \* the table; AUTO_INCREMENT makes the id the position
          blocked,   \* pairs of users of whom one has blocked the other
          request,   \* requests in progress
          told,      \* history: the ids a client was told for its draft
          asked,     \* history: <<user, id>> a user has deleted
          moderated, \* history: messages a moderator has deleted
          deletes, faults

bounds == <<deletes, faults>>
vars == <<messages, blocked, request, told, asked, moderated, bounds>>

Id == 1..Cardinality(Draft)

Calls ==
  [send   |-> <<"getReceiver", "isBlocked", "create">>,
   delete |-> <<"selectSide", "updateSide">>]

Step == ToSet(Calls.send) \cup ToSet(Calls.delete) \cup {"getByClientMsgID"}

NoRequest == [op |-> "none"]
Active == {q \in Request : request[q] # NoRequest}

Side == {"senderDeleted", "receiverDeleted"}
Row == [from: User, to: User, key: {d.key : d \in Draft}, isRead: BOOLEAN,
        senderDeleted: BOOLEAN, receiverDeleted: BOOLEAN]

TypeOK ==
  /\ messages \in Seq(Row) /\ Len(messages) <= Cardinality(Draft)
  /\ blocked \subseteq {{d.from, d.to} : d \in Draft}
  /\ \A q \in Active :
       /\ request[q].todo # <<>> /\ ToSet(request[q].todo) \subseteq Step
       /\ \/ request[q].op = "send" /\ request[q].draft \in Draft
          \/ /\ request[q].op = "delete" /\ request[q].user \in User
             /\ request[q].id \in Id /\ request[q].side \in Side \cup {"none"}
  /\ told \in [Draft -> SUBSET Id]
  /\ asked \subseteq User \X Id /\ moderated \subseteq Id
  /\ deletes \in 0..MaxDeletes /\ faults \in 0..MaxFaults

Init ==
  /\ messages = <<>> /\ blocked = {}
  /\ request = [q \in Request |-> NoRequest]
  /\ told = [d \in Draft |-> {}]
  /\ asked = {} /\ moderated = {}
  /\ deletes = 0 /\ faults = 0
-----------------------------------------------------------------------------
At(q, call) == q \in Active /\ Head(request[q].todo) = call

GoOn(q, todo) ==
  request' = [request EXCEPT ![q] = IF todo = <<>> THEN NoRequest ELSE [@ EXCEPT !.todo = todo]]

Proceed(q) == GoOn(q, Tail(request[q].todo))
Stop(q) == GoOn(q, <<>>)

\* The client is told id i; if the answer does not reach it, it sends again.
Answer(d, i) == told' = [told EXCEPT ![d] = @ \cup {i}]

\* A client sends a draft, or sends it again.
Send(q, d) ==
  /\ request[q] = NoRequest
  /\ request' = [request EXCEPT ![q] = [op |-> "send", draft |-> d, todo |-> Calls.send]]
  /\ UNCHANGED <<messages, blocked, told, asked, moderated, bounds>>

GetReceiver(q) ==
  /\ At(q, "getReceiver")
  /\ Proceed(q)
  /\ UNCHANGED <<messages, blocked, told, asked, moderated, bounds>>

IsBlockedEitherWay(q) ==
  /\ At(q, "isBlocked")
  /\ LET d == request[q].draft
     IN  IF {d.from, d.to} \in blocked THEN Stop(q) ELSE Proceed(q)
  /\ UNCHANGED <<messages, blocked, told, asked, moderated, bounds>>

\* The rows with the sender and the key of a draft.
WithKey(d) == {i \in DOMAIN messages : messages[i].from = d.from /\ messages[i].key = d.key}

\* The row goes in, or the unique index (sender_id, client_message_id) stops it.
Create(q) ==
  /\ At(q, "create")
  /\ LET d == request[q].draft
     IN  IF WithKey(d) = {}
         THEN /\ messages' = Append(messages, [from |-> d.from, to |-> d.to, key |-> d.key,
                                               isRead |-> FALSE, senderDeleted |-> FALSE,
                                               receiverDeleted |-> FALSE])
              /\ Answer(d, Len(messages) + 1)
              /\ Stop(q)
         ELSE /\ GoOn(q, <<"getByClientMsgID">>)
              /\ UNCHANGED <<messages, told>>
  /\ UNCHANGED <<blocked, asked, moderated, bounds>>

\* Mutant: the message is looked up by the key alone.
GetByKey(q) ==
  /\ At(q, "getByClientMsgID")
  /\ LET d == request[q].draft
     IN  \E i \in DOMAIN messages :
           /\ messages[i].key = d.key /\ \A j \in 1..(i - 1) : messages[j].key # d.key
           /\ Answer(d, i)
  /\ Stop(q)
  /\ UNCHANGED <<messages, blocked, asked, moderated, bounds>>

\* First of the rows with that sender and key, deleted ones included.
GetByClientMsgID(q) ==
  /\ At(q, "getByClientMsgID")
  /\ LET d == request[q].draft
     IN  \E i \in WithKey(d) : (\A j \in WithKey(d) : i <= j) /\ Answer(d, i)
  /\ Stop(q)
  /\ UNCHANGED <<messages, blocked, asked, moderated, bounds>>
-----------------------------------------------------------------------------
Delete(q, u, i) ==
  /\ request[q] = NoRequest
  /\ deletes < MaxDeletes /\ deletes' = deletes + 1
  /\ request' = [request EXCEPT ![q] = [op |-> "delete", user |-> u, id |-> i, side |-> "none",
                                        todo |-> Calls.delete]]
  /\ UNCHANGED <<messages, blocked, told, asked, moderated, faults>>

\* SoftDelete asks for the column first; a message that is not the user's own
\* ends the request.
SelectSide(q) ==
  /\ At(q, "selectSide")
  /\ LET r == request[q]
         own == r.id \in DOMAIN messages /\ r.user \in {messages[r.id].from, messages[r.id].to}
     IN  IF ~own THEN Stop(q)
         ELSE request' = [request EXCEPT
                ![q].side = IF messages[r.id].to = r.user THEN "receiverDeleted" ELSE "senderDeleted",
                ![q].todo = Tail(@)]
  /\ UNCHANGED <<messages, blocked, told, asked, moderated, bounds>>

\* Deleting a second time changes no row, which the user is told as "not found".
UpdateSide(q) ==
  /\ At(q, "updateSide")
  /\ LET r == request[q]
     IN  /\ messages' = [messages EXCEPT ![r.id][r.side] = TRUE]
         /\ asked' = asked \cup {<<r.user, r.id>>}
  /\ Stop(q)
  /\ UNCHANGED <<blocked, told, moderated, bounds>>

\* A report of the message is approved (Reports).
DeleteBothSide(i) ==
  /\ i \in DOMAIN messages
  /\ deletes < MaxDeletes /\ deletes' = deletes + 1
  /\ messages' = [messages EXCEPT ![i].senderDeleted = TRUE, ![i].receiverDeleted = TRUE]
  /\ moderated' = moderated \cup {i}
  /\ UNCHANGED <<blocked, request, told, asked, faults>>

Readable(m, u, peer) == m.to = u /\ m.from = peer /\ ~m.isRead /\ ~m.receiverDeleted

\* One UPDATE.
MarkReadWithPeer(u, peer) ==
  /\ messages' = [i \in DOMAIN messages |->
                    [messages[i] EXCEPT !.isRead = @ \/ Readable(messages[i], u, peer)]]
  /\ UNCHANGED <<blocked, request, told, asked, moderated, bounds>>
-----------------------------------------------------------------------------
\* What a failing statement does to the request: a failed check of the block
\* counts as passed, everything else ends the request with an error.
Fail(q) ==
  /\ faults < MaxFaults /\ faults' = faults + 1
  /\ q \in Active
  /\ IF At(q, "isBlocked") THEN Proceed(q) ELSE Stop(q)
  /\ UNCHANGED <<messages, blocked, told, asked, moderated, deletes>>

ChangeBlock(pair) ==
  /\ blocked' = IF pair \in blocked THEN blocked \ {pair} ELSE blocked \cup {pair}
  /\ UNCHANGED <<messages, request, told, asked, moderated, bounds>>

Next ==
  \/ \E q \in Request :
       \/ \E d \in Draft : Send(q, d)
       \/ \E u \in User, i \in Id : Delete(q, u, i)
       \/ GetReceiver(q) \/ IsBlockedEitherWay(q) \/ Create(q) \/ GetByClientMsgID(q)
       \/ SelectSide(q) \/ UpdateSide(q)
       \/ Fail(q)
  \/ \E i \in Id : DeleteBothSide(i)
  \/ \E u, peer \in User : MarkReadWithPeer(u, peer)
  \/ \E d \in Draft : ChangeBlock({d.from, d.to})

Spec == Init /\ [][Next]_vars
-----------------------------------------------------------------------------
\* What u has sent to peer or got from peer and not deleted.
Outgoing(u, peer) ==
  {i \in DOMAIN messages :
     messages[i].from = u /\ messages[i].to = peer /\ ~messages[i].senderDeleted}

Incoming(u, peer) ==
  {i \in DOMAIN messages :
     messages[i].to = u /\ messages[i].from = peer /\ ~messages[i].receiverDeleted}

\* ListWithPeer without its page: the conversation of u with peer.
ListWithPeer(u, peer) == Outgoing(u, peer) \cup Incoming(u, peer)

\* UnreadCount: the badge of u.
UnreadCount(u) == Cardinality({i \in DOMAIN messages : \E p \in User : Readable(messages[i], u, p)})

\* ListConversations without its page: one row for each peer.
Conversation(u, p) ==
  [peer |-> p,
   last |-> CHOOSE i \in ListWithPeer(u, p) : \A j \in ListWithPeer(u, p) : j <= i,
   unread |-> Cardinality({i \in Incoming(u, p) : ~messages[i].isRead})]

ListConversations(u) == {Conversation(u, p) : p \in {x \in User : ListWithPeer(u, x) # {}}}

(***************************************************************************)
(* However often a client sends a draft, and whatever fails or overlaps,   *)
(* there is one message of it, and every answer with an id names that      *)
(* message (message_service.go:70-76: "same key exists, return the         *)
(* original message").                                                     *)
(***************************************************************************)
SentOnce ==
  \A d \in Draft :
    /\ Cardinality(WithKey(d)) <= 1
    /\ told[d] \subseteq {i \in WithKey(d) : messages[i].to = d.to}

(***************************************************************************)
(* A message is out of a user's conversation exactly when that user or a   *)
(* moderator has deleted it (message_repo.go:121-137), and the lists agree *)
(* on it: the unread numbers of a user's conversations add up to his badge,*)
(* and each conversation shows its last message (message_repo.go:51-107).  *)
(***************************************************************************)
GoneByChoice ==
  \A i \in DOMAIN messages :
    LET m == messages[i]
    IN  \A pair \in {<<m.from, m.to>>, <<m.to, m.from>>} :
          i \in ListWithPeer(pair[1], pair[2])
            <=> <<pair[1], i>> \notin asked /\ i \notin moderated

BadgeAddsUp ==
  \A u \in User :
    /\ UnreadCount(u) =
         Cardinality(UNION {{row.peer} \X (1..row.unread) : row \in ListConversations(u)})
    /\ \A row \in ListConversations(u) : row.last \in ListWithPeer(u, row.peer)
=============================================================================
