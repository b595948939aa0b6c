------------------------------ MODULE SqlServer ------------------------------
(***************************************************************************)
(* The server: prodSQL.go with NewExplainResult, ExcuteDbSql, getScore and *)
(* NewExplainDb of lib/explain.go.  A POST starts two goroutines: one      *)
(* appends the body to a Redis list, the other sends it to Kafka.  A timer *)
(* pops bodies and starts one goroutine each that explains the statement,  *)
(* scores it and sends it on the channel SqlExplain; for each message of   *)
(* the channel a goroutine marks the fingerprint as seen by its branch and *)
(* inserts the row.  Goroutines that index an empty Arr, read a column that *)
(* EXPLAIN did not return, or use a producer or a database that could not   *)
(* be opened panic and take the process down.                               *)
(***************************************************************************)
EXTENDS Naturals, Sequences, FiniteSets, Functions

CONSTANTS
  Reqs,            \* the bodies that are posted
  Malformed,       \* those that decode to an empty Arr
  Described,       \* those whose EXPLAIN has no columns of a plan, as a DESCRIBE
  EmptyBodies,     \* those that are the empty string
  Branches, FPs,   \* branches and fingerprints
  NoBranch,        \* not a branch
  BranchOf, FpOf,  \* the fields of a body
  ExplainDBNumber, \* config: pops per timer
  ChanCap,         \* capacity of the channel SqlExplain (10)
  MaxFaults        \* bound: calls to Redis, Kafka and MySQL that fail

ASSUME ServerAssumption ==
  /\ Malformed \subseteq Reqs /\ IsFiniteSet(Malformed)
  /\ Described \subseteq Reqs /\ IsFiniteSet(Described)
  /\ EmptyBodies \subseteq Malformed
  /\ NoBranch \notin Branches
  /\ BranchOf \in [Reqs -> Branches]
  /\ FpOf \in [Reqs -> FPs]
  /\ ExplainDBNumber \in Nat \ {0}
  /\ ChanCap \in Nat \ {0}
  /\ MaxFaults \in Nat

VARIABLES
  list,    \* Redis: the list Redisquename
  uq,      \* Redis: uq[b], the list of the unique queue of branch b
  uqSet,   \* Redis: uqSet[b], its filter set
  topic,   \* Kafka: the bodies in the topic
  rows,    \* MySQL: table sqlexplain
  at,      \* at[r]: where r is on its way to the table
  kafka,   \* kafka[r]: where the Kafka goroutine of r is
  cost,    \* cost[r]: Last_query_cost is known
  flag,    \* flag[r]: the variable flag of the inserting goroutine
  pops,    \* pops NewExplainResult has left before it re-arms its timer
  chan,    \* the channel SqlExplain
  unsaved, \* history: the fingerprints (branch and fingerprint) marked by an
           \* insertion that failed or died
  panics,  \* number of panics so far
  faults   \* number of failed calls so far

storeVars == <<list, uq, uqSet, topic, rows>>
goVars == <<at, kafka, cost, flag, pops, chan>>
histVars == <<unsaved, panics, faults>>
vars == <<storeVars, goVars, histVars>>

UQ == INSTANCE UniqueQueue WITH
        Queues <- Branches, Bodies <- FPs, Empty <- NoBranch, NoQueue <- NoBranch,
        Clients <- {}, MaxClears <- 0, q <- uq, q_set <- uqSet,
        clearing <- <<>>, clears <- 0, torn <- {}, halved <- {}

Table == INSTANCE Ledger

\* The steps of a body on its way to the table, in order.
Places == {"outside", "push", "listed", "explain", "score", "chan", "mark",
           "insert", "done"}

TypeOK ==
  /\ list \in Seq(Reqs)
  /\ UQ!TypeOK
  /\ topic \in SUBSET Reqs
  /\ rows \in Seq([req : Reqs, flag : {0, 1}])
  /\ at \in [Reqs -> Places]
  /\ kafka \in [Reqs -> {"none", "decode", "send"}]
  /\ cost \in [Reqs -> BOOLEAN]
  /\ flag \in [Reqs -> {0, 1}]
  /\ pops \in 0..ExplainDBNumber
  /\ chan \in Seq(Reqs) /\ Len(chan) <= ChanCap
  /\ unsaved \in SUBSET (Branches \X FPs)
  /\ panics \in Nat
  /\ faults \in 0..MaxFaults

Init ==
  /\ list = <<>>
  /\ UQ!Init
  /\ topic = {}
  /\ rows = <<>>
  /\ at = [r \in Reqs |-> "outside"]
  /\ kafka = [r \in Reqs |-> "none"]
  /\ cost = [r \in Reqs |-> FALSE]
  /\ flag = [r \in Reqs |-> 0]
  /\ pops = 0
  /\ chan = <<>>
  /\ unsaved = {} /\ panics = 0 /\ faults = 0

-----------------------------------------------------------------------------

Moved(r, place) == at' = [at EXCEPT ![r] = place]

KeyOf(r) == <<BranchOf[r], FpOf[r]>>

\* A call to Redis, Kafka or MySQL that returns an error.
Fault ==
  /\ faults < MaxFaults
  /\ faults' = faults + 1

\* What a panic destroys.  The process that takes over starts from the stores.
Restart ==
  /\ panics' = panics + 1
  /\ at' = [r \in Reqs |-> IF at[r] \in {"outside", "listed"} THEN at[r] ELSE "done"]
  /\ kafka' = [r \in Reqs |-> "none"]
  /\ pops' = 0
  /\ chan' = <<>>
  /\ unsaved' = unsaved \cup {KeyOf(r) : r \in {s \in Reqs : at[s] = "insert" /\ flag[s] = 1}}
  /\ UNCHANGED <<cost, flag>>

\* handler: both goroutines of a POST start.
Handler(r) ==
  /\ at[r] = "outside"
  /\ Moved(r, "push")
  /\ kafka' = [kafka EXCEPT ![r] = "decode"]
  /\ UNCHANGED <<storeVars, cost, flag, pops, chan, histVars>>

\* handler, first goroutine: ListPush of the body as it came.
ListPush(r) ==
  /\ at[r] = "push"
  /\ list' = Append(list, r)
  /\ Moved(r, "listed")
  /\ UNCHANGED <<uq, uqSet, topic, rows, kafka, cost, flag, pops, chan, histVars>>

\* ListPush fails, its error is dropped; the body may have been appended.
ListPushFault(r) ==
  /\ at[r] = "push"
  /\ Fault
  /\ \/ list' = Append(list, r) /\ Moved(r, "listed")
     \/ UNCHANGED list /\ Moved(r, "done")
  /\ UNCHANGED <<uq, uqSet, topic, rows, kafka, cost, flag, pops, chan, unsaved, panics>>

\* handler, second goroutine: kafkaData.Arr[0] is read, then a producer is made.
KafkaDecode(r) ==
  /\ kafka[r] = "decode"
  /\ r \notin Malformed
  /\ kafka' = [kafka EXCEPT ![r] = "send"]
  /\ UNCHANGED <<storeVars, at, cost, flag, pops, chan, histVars>>

\* Arr[0] of an empty Arr panics.
KafkaDecodePanic(r) ==
  /\ kafka[r] = "decode"
  /\ r \in Malformed
  /\ Restart
  /\ UNCHANGED <<storeVars, faults>>

\* NewSyncProducer fails: the client stays nil and SendMessage on it panics.
KafkaProducerPanic(r) ==
  /\ kafka[r] = "decode"
  /\ r \notin Malformed
  /\ Fault
  /\ Restart
  /\ UNCHANGED storeVars

\* NewMessage: SendMessage and Close.
NewMessage(r) ==
  /\ kafka[r] = "send"
  /\ topic' = topic \cup {r}
  /\ kafka' = [kafka EXCEPT ![r] = "none"]
  /\ UNCHANGED <<list, uq, uqSet, rows, at, cost, flag, pops, chan, histVars>>

\* SendMessage fails: the error is logged, the message may be in the topic.
NewMessageFault(r) ==
  /\ kafka[r] = "send"
  /\ Fault
  /\ topic' \in {topic, topic \cup {r}}
  /\ kafka' = [kafka EXCEPT ![r] = "none"]
  /\ UNCHANGED <<list, uq, uqSet, rows, at, cost, flag, pops, chan, unsaved, panics>>

\* A loop that starts counting at one.
ExplainTimerShort ==
  /\ pops = 0
  /\ pops' = ExplainDBNumber - 1
  /\ UNCHANGED <<storeVars, at, kafka, cost, flag, chan, histVars>>

\* NewExplainResult: the timer fires, the loop of ExplainDBNumber pops begins.
ExplainTimer ==
  /\ pops = 0
  /\ pops' = ExplainDBNumber
  /\ UNCHANGED <<storeVars, at, kafka, cost, flag, chan, histVars>>

\* One round of the loop: ListPop and go ExcuteDbSql.  An empty body reads as an
\* empty list and is skipped.
ExplainPop ==
  /\ pops > 0
  /\ list # <<>>
  /\ pops' = pops - 1
  /\ list' = Tail(list)
  /\ Moved(Head(list), IF Head(list) \in EmptyBodies THEN "done" ELSE "explain")
  /\ UNCHANGED <<uq, uqSet, topic, rows, kafka, cost, flag, chan, histVars>>

\* The list is empty: continue.
ExplainPopNone ==
  /\ pops > 0
  /\ list = <<>>
  /\ pops' = pops - 1
  /\ UNCHANGED <<storeVars, at, kafka, cost, flag, chan, histVars>>

\* ListPop fails: data is "", the popped body, if there was one, is lost.
ExplainPopFault ==
  /\ pops > 0
  /\ Fault
  /\ pops' = pops - 1
  /\ \/ UNCHANGED <<list, at>>
     \/ list # <<>> /\ list' = Tail(list) /\ Moved(Head(list), "done")
  /\ UNCHANGED <<uq, uqSet, topic, rows, kafka, cost, flag, chan, unsaved, panics>>

NewExplainResult == ExplainTimer \/ ExplainPop \/ ExplainPopNone \/ ExplainPopFault

\* ExcuteDbSql: EXPLAIN and Last_query_cost of the first statement.  A query
\* that fails leaves its part of the result empty and the flow goes on, also
\* when it is the EXPLAIN of a statement that would be described.
ExcuteDbSql(r) ==
  /\ at[r] = "explain"
  /\ r \notin Malformed
  /\ \/ r \notin Described /\ cost' = [cost EXCEPT ![r] = TRUE] /\ UNCHANGED faults
     \/ Fault /\ cost' \in {cost, [cost EXCEPT ![r] = TRUE]}
  /\ Moved(r, "score")
  /\ UNCHANGED <<storeVars, kafka, flag, pops, chan, unsaved, panics>>

\* The bodies that panic ExcuteDbSql: sql.Arr[0] of an empty Arr, or the type
\* assertion on a column that is missing.
Unreadable == Malformed \cup Described

\* A panic whose deferred function pushes the body back.
ExcuteDbSqlRequeues(r) ==
  /\ at[r] = "explain"
  /\ r \in Malformed
  /\ panics' = panics + 1
  /\ list' = Append(list, r)
  /\ at' = [s \in Reqs |-> IF s = r THEN "listed" ELSE IF at[s] \in {"outside", "listed"} THEN at[s] ELSE "done"]
  /\ kafka' = [s \in Reqs |-> "none"]
  /\ pops' = 0 /\ chan' = <<>>
  /\ unsaved' = unsaved \cup {KeyOf(t) : t \in {s \in Reqs : at[s] = "insert" /\ flag[s] = 1}}
  /\ UNCHANGED <<uq, uqSet, topic, rows, cost, flag, faults>>

\* ExcuteDbSql panics on such a body, and on any when sql.Open failed and left
\* SQLDB nil.
ExcuteDbSqlPanic(r) ==
  /\ at[r] = "explain"
  /\ \/ r \in Unreadable /\ UNCHANGED faults
     \/ Fault
  /\ Restart
  /\ UNCHANGED storeVars

\* A send that gives up one place of the channel.
GetScoreShort(r) ==
  /\ at[r] = "score"
  /\ Len(chan) + 1 < ChanCap
  /\ chan' = Append(chan, r)
  /\ Moved(r, "chan")
  /\ UNCHANGED <<storeVars, kafka, cost, flag, pops, histVars>>

\* getScore: the result (module Score) is sent, blocking while the channel is full.
GetScore(r) ==
  /\ at[r] = "score"
  /\ Len(chan) < ChanCap
  /\ chan' = Append(chan, r)
  /\ Moved(r, "chan")
  /\ UNCHANGED <<storeVars, kafka, cost, flag, pops, histVars>>

\* NewExplainDb: one goroutine per message.
ExplainDbRecv ==
  /\ chan # <<>>
  /\ chan' = Tail(chan)
  /\ Moved(Head(chan), "mark")
  /\ UNCHANGED <<storeVars, kafka, cost, flag, pops, histVars>>

\* NewExplainDb: UniquePush decides the flag.
Mark(r) ==
  /\ at[r] = "mark"
  /\ UQ!UniquePush(BranchOf[r], FpOf[r])
  /\ flag' = [flag EXCEPT ![r] = UQ!PushResp(BranchOf[r], FpOf[r])]
  /\ Moved(r, "insert")
  /\ UNCHANGED <<list, topic, rows, kafka, cost, pops, chan, histVars>>

\* UniquePush fails: flag stays 0, also when the fingerprint was marked.
MarkFault(r) ==
  /\ at[r] = "mark"
  /\ Fault
  /\ \/ UNCHANGED <<uq, uqSet, unsaved>>
     \/ /\ UQ!UniquePush(BranchOf[r], FpOf[r])
        /\ unsaved' = IF UQ!PushResp(BranchOf[r], FpOf[r]) = 1
                      THEN unsaved \cup {KeyOf(r)} ELSE unsaved
  /\ flag' = [flag EXCEPT ![r] = 0]
  /\ Moved(r, "insert")
  /\ UNCHANGED <<list, topic, rows, kafka, cost, pops, chan, panics>>

\* A row whose flag was never assigned.
RowOfOld(r) == [req |-> r, flag |-> 0]

\* The branch, fingerprint and flag columns of the INSERT.
RowOf(r) == [req |-> r, flag |-> flag[r]]

\* NewExplainDb: INSERT.  Without a cost the statement reads "...,,..." and MySQL
\* rejects it.
Insert(r) ==
  /\ at[r] = "insert"
  /\ IF cost[r]
     THEN rows' = Append(rows, RowOf(r)) /\ UNCHANGED unsaved
     ELSE /\ unsaved' = IF flag[r] = 1 THEN unsaved \cup {KeyOf(r)} ELSE unsaved
          /\ UNCHANGED rows
  /\ Moved(r, "done")
  /\ UNCHANGED <<list, uq, uqSet, topic, kafka, cost, flag, pops, chan, panics, faults>>

\* An INSERT that is repeated after an error.
InsertFaultRetries(r) ==
  /\ at[r] = "insert"
  /\ cost[r]
  /\ Fault
  /\ rows' \in {rows, Append(rows, RowOf(r))}
  /\ UNCHANGED <<list, uq, uqSet, topic, goVars, unsaved, panics>>

\* INSERT fails: the error is logged, the row may be in the table.
InsertFault(r) ==
  /\ at[r] = "insert"
  /\ cost[r]
  /\ Fault
  /\ rows' \in {rows, Append(rows, RowOf(r))}
  /\ unsaved' = IF flag[r] = 1 THEN unsaved \cup {KeyOf(r)} ELSE unsaved
  /\ Moved(r, "done")
  /\ UNCHANGED <<list, uq, uqSet, topic, kafka, cost, flag, pops, chan, panics>>

\* NewExplainDb: sql.Open fails, and Insert on the nil SQLDB panics.
InsertPanic(r) ==
  /\ at[r] = "insert"
  /\ Fault
  /\ Restart
  /\ UNCHANGED storeVars

\* The goroutine that carries r towards the table.
Carry(r) ==
  \/ ListPush(r) \/ ListPushFault(r)
  \/ ExcuteDbSql(r) \/ ExcuteDbSqlPanic(r)
  \/ GetScore(r)
  \/ Mark(r) \/ MarkFault(r)
  \/ Insert(r) \/ InsertFault(r) \/ InsertPanic(r)

\* The goroutine that sends r to Kafka.
ToKafka(r) ==
  \/ KafkaDecode(r) \/ KafkaDecodePanic(r) \/ KafkaProducerPanic(r)
  \/ NewMessage(r) \/ NewMessageFault(r)

Next ==
  \/ \E r \in Reqs : Handler(r) \/ Carry(r) \/ ToKafka(r)
  \/ NewExplainResult
  \/ ExplainDbRecv

Spec == Init /\ [][Next]_vars

\* The runtime schedules every goroutine that can run, the timer is re-armed
\* after each round, and calls to the stores return or fail.
Fairness ==
  /\ \A r \in Reqs : WF_vars(Carry(r)) /\ WF_vars(ToKafka(r))
  /\ WF_vars(NewExplainResult)
  /\ WF_vars(ExplainDbRecv)

FairSpec == Spec /\ Fairness

-----------------------------------------------------------------------------

\* The server implements the promise of module Ledger: no batch has two rows and
\* no branch has two rows with flag = 1 for one fingerprint, whatever goroutines
\* of NewExplainDb interleave, calls fail or panics strike.
ServerKeepsLedger == Table!Spec

\* A fingerprint marked as seen by a branch has its row with flag = 1, or a
\* goroutine is about to insert it.  Only a failed call or a panic between
\* UniquePush and INSERT leaves the mark without the row.
MarkHasRow ==
  \A b \in Branches : \A f \in uqSet[b] :
    \/ <<b, f>> \in unsaved
    \/ \E i \in DOMAIN rows : rows[i].flag = 1 /\ KeyOf(rows[i].req) = <<b, f>>
    \/ \E r \in Reqs : at[r] = "insert" /\ flag[r] = 1 /\ KeyOf(r) = <<b, f>>

\* No crash loop: a body takes the process down at most once in the goroutine that
\* sends it to Kafka, if its Arr is empty, and at most once in ExcuteDbSql, if its
\* Arr is empty or its EXPLAIN lacks a column, because ListPop removes it from
\* Redis before it is decoded.  Every further panic is a producer that could not
\* be made or a database that could not be opened.
PanicsBounded ==
  panics <= Cardinality(Malformed) + Cardinality(Unreadable) + faults

\* A row with flag = 0 is old data: an earlier row has its branch and fingerprint.
OldDataIsOld ==
  \A i \in DOMAIN rows : rows[i].flag = 0 =>
    \E j \in 1..(i - 1) : KeyOf(rows[j].req) = KeyOf(rows[i].req)

\* Every body that is posted gets its row, through the full channel, and reaches
\* Kafka, unless a call failed or a panic struck (the two goroutines of handler).
EveryBodyArrives ==
  \A r \in Reqs \ Malformed :
    /\ at[r] = "push" ~> (\E i \in DOMAIN rows : rows[i].req = r) \/ faults + panics > 0
    /\ kafka[r] = "decode" ~> r \in topic \/ faults + panics > 0

\* The list drains although the timer pops a bounded number of bodies, pops may
\* fail and malformed bodies kill the process that pops them.
ListDrains == \A r \in Reqs : at[r] = "listed" ~> at[r] # "listed"

=============================================================================
