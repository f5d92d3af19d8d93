--------------------------- MODULE NotificationsMC ---------------------------
(***************************************************************************)
(* Small instances of what users are told: Notifications and Messages.  A  *)
(* behaviour is one of a single module; the state of the other stays as it *)
(* was.                                                                    *)
(*   worker   the group without requests, with one entry more              *)
(*   all      with requests of b, two at a time, and events that tell him  *)
(*   talk     Messages, three drafts, one request at a time                *)
(*   rush     Messages, two drafts that share a key, two requests          *)
(* The events are a reply to a comment of b that also mentions b, a        *)
(* comment of b on a note of his own that mentions a and c, whom a block   *)
(* separates from b, and a like.                                           *)
(***************************************************************************)
EXTENDS Notifications

CONSTANTS a, b, c, k1, k2, q1, q2,
          Draft, Call, MaxDeletes  \* of Messages

\* Nobody writes to himself (message_service.go:47), and the key a client
\* makes up for a draft is not the key of another draft of that sender.
ASSUME DraftAssumption ==
  /\ IsFiniteSet(Draft) /\ MaxDeletes \in Nat
  /\ \A d \in Draft : d.from \in User /\ d.to \in User \ {d.from}
  /\ \A d, e \in Draft : d.from = e.from /\ d.key = e.key => d = e

ThreeUsers == {a, b, c}
OneBlock == {{b, c}}

Reply == [type |-> "commented", actor |-> a, author |-> a, replyTo |-> b, mentions |-> {b}]
Comment == [type |-> "commented", actor |-> b, author |-> b, replyTo |-> Nobody, mentions |-> {a, c}]
Like == [type |-> "liked", actor |-> a, author |-> b, replyTo |-> Nobody, mentions |-> {}]

VARIABLES setup,
          messages, blocked, request, told, asked, moderated, deletes, failed \* Messages

talkVars == <<messages, blocked, request, told, asked, moderated, deletes, failed>>

Hello == [from |-> a, to |-> b, key |-> k1]
Answer == [from |-> b, to |-> a, key |-> k1]
Question == [from |-> a, to |-> b, key |-> k2]

ThreeDrafts == {Hello, Answer, Question}
TwoRequests == {q1, q2}

Talk == INSTANCE Messages WITH Request <- Call, faults <- failed

MCInit ==
  /\ setup \in {"worker", "all", "talk", "rush"}
  /\ Init /\ Talk!Init

NotifyNext ==
  /\ setup \in {"worker", "all"}
  /\ Next
  /\ \A m \in DOMAIN evts' : evts'[m].what \in {Reply, Comment, Like}
  /\ setup = "worker" => reader' = reader
  /\ setup = "all" => /\ length' <= 2 /\ \A m \in DOMAIN evts' : evts'[m].what # Comment
                      /\ \A q \in Reader : reader'[q].user \in {Nobody, b}
                      /\ reader[q2] = reader'[q2] \/ reader[q1] # NoRequest

TalkNext ==
  /\ setup \in {"talk", "rush"}
  /\ Talk!Next
  /\ setup = "talk" => request'[q2] = Talk!NoRequest
  /\ setup = "rush" =>
       /\ deletes' <= 1
       /\ \A q \in Talk!Active' : request'[q].op = "send" => request'[q].draft # Question

MCNext ==
  /\ \/ NotifyNext /\ UNCHANGED talkVars
     \/ TalkNext /\ UNCHANGED vars
  /\ UNCHANGED setup

\* Fairness as in Notifications.
MCSpec == MCInit /\ [][MCNext]_<<vars, setup, talkVars>> /\ Fairness

(***************************************************************************)
(* A draft becomes one message, however often it is sent, whatever fails   *)
(* and however attempts overlap; a message leaves a conversation only by   *)
(* the choice of its owner or a moderator; and badge, conversations and    *)
(* lists tell the same story (message_service.go:46-182,                   *)
(* message_repo.go:30-137).                                                *)
(***************************************************************************)
MessagesRight == Talk!TypeOK /\ Talk!SentOnce /\ Talk!GoneByChoice /\ Talk!BadgeAddsUp
=============================================================================
