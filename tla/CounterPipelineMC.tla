-------------------------- MODULE CounterPipelineMC --------------------------
(***************************************************************************)
(* Small instances of what is counted: CounterPipeline, StatsFlush and     *)
(* Topics.  A behaviour is one of a single module; the state of the others *)
(* stays as it was.                                                        *)
(*   plain     CounterPipeline with comments deleted by one request of     *)
(*             their author at a time                                      *)
(*   crowded   CounterPipeline with concurrent requests and moderators,    *)
(*             nothing fails                                               *)
(*   stats     StatsFlush                                                  *)
(*   serial    Topics, one request at a time                               *)
(*   parallel  Topics, two requests at a time and no moderator, the list   *)
(*             read by the last ones; nothing fails once they get in each  *)
(*             other's way                                                 *)
(***************************************************************************)
EXTENDS CounterPipeline

CONSTANTS Post,               \* the notes of StatsFlush and of Topics
          Error,              \* StatsFlush: the faults
          MaxReads, MaxErrors, \* and how often it is read, and fails
          Spelling, Subject,  \* Topics: names, topics
          SubjectOf,          \* and which topic a name stands for
          MaxEdits, MaxLapses \* and how many requests write, and statements fail

\* Every name stands for a topic.
ASSUME TopicsAssumption ==
  /\ SubjectOf \in [Spelling -> Subject]
  /\ MaxEdits \in Nat /\ MaxLapses \in Nat

CONSTANTS n1, n2, u1, c1, q1, q2

\* Two spellings of one topic, and another topic.
Languages == {"go", "sql"}
Spellings == {"go", "GO", "sql"}
LanguageOf == [name \in Spellings |-> IF name = "sql" THEN "sql" ELSE "go"]

OneNote == {n1}
TwoNotes == {n1, n2}
OneUser == {u1}
OneComment == {c1}
TwoRequests == {q1, q2}

Likes == {"like"}

AllErrors == {"scan", "again", "get", "add", "delete", "crash"}

AllFaults == {"crash", "dedupErr", "incrErr", "drainErr",
              "flushErr", "flushLost", "rollbackErr"}

VARIABLES setup,
          counts, stats, step, kind, keys, todo, current, val,
          recorded, lost, requests, errors,                       \* StatsFlush
          note, attached, topicCount, hot, call, drift, crossed,
          overtaken, lowered, writes, failed                      \* Topics

statsVars == <<counts, stats, step, kind, keys, todo, current, val,
               recorded, lost, requests, errors>>
topicVars == <<note, attached, topicCount, hot, call, drift, crossed, overtaken, lowered,
               writes, failed>>

plain == setup = "plain"
-----------------------------------------------------------------------------
Stats == INSTANCE StatsFlush WITH Note <- Post, MaxRequests <- MaxReads,
           MaxFaults <- MaxErrors, Fault <- Error, redis <- counts, faults <- errors

Topic == INSTANCE Topics WITH Note <- Post, Name <- Spelling, Topic <- Subject,
           TopicOf <- SubjectOf, MaxWrites <- MaxEdits, MaxFaults <- MaxLapses,
           count <- topicCount, request <- call, faults <- failed
-----------------------------------------------------------------------------
MCInit ==
  /\ setup \in {"plain", "crowded", "stats", "serial", "parallel"}
  /\ Init /\ Stats!Init /\ Topic!Init

CounterNext ==
  /\ setup \in {"plain", "crowded"}
  /\ Next
  /\ plain => \A q \in Request :
                request'[q] # <<>> => q = q1 /\ request'[q][1] = "user"
  /\ ~plain => faults' = {}

TopicNext ==
  /\ setup \in {"serial", "parallel"}
  /\ Topic!Next
  /\ \A q \in Topic!Active' : call'[q].names \in {{}, {"go"}, {"sql"}, {"go", "sql"}, {"go", "GO"}}
  /\ setup = "serial" => call'[q2] = Topic!NoRequest
  /\ setup = "parallel" =>
       /\ \A q \in Topic!Active' : call'[q].op = "hot" => writes = MaxEdits
       /\ \A q \in Topic!Active' : call'[q].names \in {{}, {"go"}, {"go", "sql"}}
       /\ crossed' \/ overtaken' => failed' = 0
       /\ call' = call => note' = note

MCNext ==
  /\ \/ CounterNext /\ UNCHANGED <<statsVars, topicVars>>
     \/ setup = "stats" /\ Stats!Next /\ UNCHANGED <<vars, topicVars>>
     \/ TopicNext /\ UNCHANGED <<vars, statsVars>>
  /\ UNCHANGED setup

MCSpec == MCInit /\ [][MCNext]_<<vars, setup, statsVars, topicVars>> /\ Fairness
-----------------------------------------------------------------------------
(***************************************************************************)
(* Once users stop, and nothing but a flush has failed and no comment was  *)
(* deleted twice or by a moderator, every count in MySQL becomes and stays *)
(* what the rows say (main.go:199-271).                                    *)
(***************************************************************************)
RegularEventuallyExact ==
  \A c \in Counter : <>[](NothingAmiss => count[c] = Rows(c))

(***************************************************************************)
(* Impressions and reads: as long as nothing fails but SCAN, a flush loses *)
(* what is counted between its GET and its DEL of a key and nothing else;  *)
(* the dropped errors of GET and of the UPDATE lose more, and double       *)
(* nothing; that of DEL, a key listed twice and a crash each count what    *)
(* there is once more at most (stats_service.go:82-118).                   *)
(***************************************************************************)
Accounted == Stats!TypeOK /\ Stats!Accounted

(***************************************************************************)
(* Until two requests work on one note at a time, and with any failure     *)
(* between two statements: a topic counts no fewer notes than it has, and  *)
(* exactly those if nothing failed.  And until something fails, or the     *)
(* list of hot topics is read while a note is written, that list is out of *)
(* date only by what notes have lost (topic_service.go:58-96, 103-135).    *)
(***************************************************************************)
TopicsCounted ==
  /\ Topic!TypeOK /\ Topic!CountsCover /\ Topic!CountsExact
  /\ Topic!HotStaleByDetach
=============================================================================
