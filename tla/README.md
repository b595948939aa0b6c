# A TLA+ specification of SqlReview

SqlReview samples the SQL statements that test environments run, explains them
on a database and scores their plans. It is two programs that share a library
(`lib/`): the *agent* (`testSQL.go`) and the *server* (`prodSQL.go`). The
repository also carries the clients they use for Redis (`redis/`), Kafka
(`kafka/`) and MySQL (`mysql/`). This directory models both programs and the
parts of the clients whose behaviour is hard to test, checks them with TLC on
small instances, and proves the main results about the two programs with TLAPS
for every value of the constants.

## 1. Inventory

### Data flow

    collector -> Redis lists SQL_i -> AGENT -> POST -> SERVER -> Redis list -> explain, score -> MySQL
                                                          \-> Kafka

### Components

| component | source | state it keeps | operations | module |
|---|---|---|---|---|
| agent | `testSQL.go`, `lib/soar.go` | Redis lists, unique queue per branch, sampling keys; in memory the channel `SqlExplain` and the map `SqlExplainArr` | `dispatch`, `sendData`, `checkBranch`, `ExcuteUnique`, `importToRedis`, `NewExplainData`, `curlURL` | `SqlAgent` |
| server | `prodSQL.go`, `lib/explain.go` | Redis list, unique queue per branch, Kafka topic, table `sqlexplain`; in memory a channel | `handler` (two goroutines), `NewExplainResult`, `ExcuteDbSql`, `getScore`'s send, `NewExplainDb` | `SqlServer` |
| scoring | `lib/explain.go` | the local variables of `getScore` | two loops, the cost bands | `Score` |
| choice of the database | `lib/explain.go`, `lib/mysql_pool.go` | the fields of `AppConfig`, the sessions of the MySQL pool | the two loops of `ExcuteDbSql`, EXPLAIN and the query for its cost | `ExplainDb` |
| fingerprint | `lib/fingerprint.go` | local to one call: states, indexes and a buffer | the loop of `Fingerprint` | `Fingerprint` |
| unique queue | `lib/unique_queue.go` | a list and a filter set in Redis | `UniquePush`, `UniquePop`, `Clear` | `UniqueQueue` |
| priority queue | `lib/priority_queue.go` | a list per priority and a set in Redis | `Push`, `Pop` | `PriorityQueue` |
| configuration | `lib/config.go` | the parsed map, the `AppConfig` | `NewConf`, `NewConfig`, `parse`, `reload`, `getConf` | `Config` |
| Redis pool | `redis/pool.go`, `redis/conn.go`, `lib/redis_pool.go` | idle list, `active`, tokens; per connection the replies that are due | `Get`, `Do`, `Send`, `Close`, the pool's `Close` | `RedisPool` |
| Kafka codec | `kafka/*_encoder.go`, `*_decoder.go`, `*_request.go`, `*_response.go`, `message*.go`, `record*.go` | buffers | both passes of `encode`, `decode` | `KafkaWire`, `KafkaRequests`, `KafkaResponses`, `KafkaRecords`, `KafkaVersions`, `KafkaCodec` |
| Kafka fetch response | `kafka/fetch_response.go` | the record sets of a block | `decode` of a block that the broker cut | `KafkaFetch` |
| Kafka admin | `kafka/admin.go` | - | every call of `ClusterAdmin` | `KafkaAdmin` |
| Kafka connection | `kafka/broker.go` | lock, connection, promises | `Open` with every SASL mechanism, `send`, `responseReceiver`, `Close` | `KafkaBroker` |
| Kafka producer | `kafka/async_producer.go`, `produce_set.go`, `sync_producer.go` | the goroutines' buffers, retry levels, sequence numbers, `inFlight` | `dispatcher`, `partitionProducer`, `brokerProducer`, retries, `shutdown` | `KafkaProducer` |
| Kafka sender, HTTP client, MySQL helpers | `lib/kafka.go`, `request.go`, `mysql_pool.go` | connections | by outcome, inside `SqlAgent` and `SqlServer` | - |
| Kafka client and consumers, mocks, Kerberos; MySQL driver; JSON, log | see section 6 | - | - | not modelled |

### How they interact, and what is hard about it

- **Sampling gate.** `importToRedis` runs in one goroutine per statement. It
  pushes the fingerprint (`UniquePush`), opens the gate if the fingerprint was
  new (`SetKey`), asks the gate (`GetKey`) and sends on the channel. The
  aggregator closes the gate (`DelKey`) when a batch is full and then hands the
  batch over (`HandOver`). These are separate steps, the Redis calls may fail,
  and a panic may strike between any two.
- **Marking before inserting.** `NewExplainDb` marks a fingerprint as seen
  before it inserts the row that carries the mark.
- **Panics.** Goroutines without `recover` take the whole process down. Redis,
  Kafka and MySQL keep what they have; everything else is lost. A body that
  makes its reader panic must not come back after the restart.
- **Bounded channels and bounded pops.** Goroutines block on full channels; a
  timer revives loops that ended.
- **Reload.** The configuration map is replaced while it is being read.
- **Pools.** The Redis pool releases its mutex in the middle of `get` and `put`.
  The MySQL pool may answer the question for the cost of the last statement from
  another session.
- **Connections.** Replies that are late, out of order or of the last borrower
  must not be taken for the answer to another request.
- **Retries.** The producer retries messages through several goroutines and
  must keep order, answer each message once and know when it is done.
- **Two passes.** A Kafka message is encoded twice, for its length and for its
  bytes; peers cut what does not fit.

`PROJECT.json` lists each hazard at its line with the properties that would
catch it. Correctness means: batches and rows are sound and never doubled; a
statement or fingerprint is lost only through a failure that can be named;
lists drain and goroutines end; score, level and text agree and belong to the
statement; the configuration is one of two file versions per field; whoever asks
a pool, a connection or the producer gets one answer, and it is their own.

## 2. Modules

`UniqueQueue` is the queue by itself. `SqlAgent` and `SqlServer` instantiate it
as `UQ` and use its `UniquePush` as part of their own actions. Each of the two
is also shown to implement an abstract specification.

| module | what it is |
|---|---|
| `UniqueQueue` | list, set and the two-step `Clear`; the history variables `torn` and `halved` record which race or failure hit a queue |
| `Sampling` | abstract: the agent hands over batches of the configured size, one fingerprint, different texts, no statement twice |
| `SqlAgent` | the agent; `at[m]` is the place of statement `m`'s goroutine, one action per call that others can interleave with |
| `Ledger` | abstract: rows are only added, one row per body, at most one `flag = 1` row per branch and fingerprint |
| `SqlServer` | the server; `at[r]` and `kafka[r]` are the two goroutines of a body |
| `Score` | `getScore` as the machine of its loops; `Content` is abstracted to the points it lists |
| `Fingerprint` | two statements scanned side by side, one loop iteration per step; they differ in one value |
| `ExplainDb` | the two loops over the fields of `AppConfig`, and a pool of sessions that remember the cost of their last statement |
| `Config` | `NewConf` and `reload` side by side, `parse` as a fold over lines |
| `PriorityQueue` | the lists, the set and the two scripts |
| `RedisPool` | goroutines that borrow connections; `queue` holds the replies a server owes, `pending` the client's count of them |
| `KafkaWire` | the primitive encoders and decoders, as interpreters of a sequence of calls |
| `KafkaRequests`, `KafkaResponses`, `KafkaRecords` | `encode` and `decode` of each message as such a sequence |
| `KafkaVersions` | broker versions, `key`, `version` and `requiredVersion` of each request |
| `KafkaCodec` | one message on its way through both passes, a cut and `decode` |
| `KafkaFetch` | one partition of a fetch response, cut at any byte |
| `KafkaAdmin` | one administrative call after another, and the goroutines of `ListConsumerGroups` |
| `KafkaBroker` | callers, `Open`, `Close` and `responseReceiver` around one connection |
| `KafkaProducer` | the goroutines of `asyncProducer` and the partitions at Kafka |
| `MC*` | the instances for TLC |
| `ListLemmas`, `*Types`, `SqlAgentFlow`, `*Proofs` | lemmas and proofs |

`MCRedis`, `MCStatement`, `MCKafkaMessages` and `MCKafkaClient` each hold several
components that share no state. The initial state chooses the one that runs, the
others rest; a run is then the union of the runs of its components.

Actions keep the names of the functions they model. An action named `...Fault`
is the same call returning an error; when the command may have taken effect
before its reply was lost, both outcomes are possible. Operators placed just
above an action with the comment "A push that ..." are deliberately wrong
variants; each shows that a property can fail.

Abstractions: a statement, body, fingerprint, branch or text is a model value.
`md5` is taken as injective; `SqlAgent` takes `Fingerprint` as a function of the
statement. `InfoOf[m] = NoInfo` stands for an element that cannot be decoded,
`Malformed` for a body that decodes to an empty `Arr`, `Described` for one whose
text makes the `EXPLAIN` answer without the columns of a plan (`EXPLAIN` of a
table's name is a `DESCRIBE`). In `Score` the texts
`Extra` are reduced to the three questions the code asks of them. In
`Fingerprint` a word that the code compares with is one atom as wide as the
word. In `KafkaWire` a buffer is a sequence of values with widths, so that
lengths and cuts are exact; compression changes a length and can be undone. In
`KafkaProducer` a buffer that is not empty may be flushed at any time, which
stands for all settings of `Producer.Flush`; a full one must be before the next
message is added (`WaitForSpace`).

External, modelled from how the code uses them: the collector (`Collect`), the
supervisor that restarts a server that panicked (`Restart`), the person who
edits the file (`Edit`), the Redis server behind `RedisPool`, the brokers
behind the Kafka modules. The repository contains no supervisor; restarting is
an assumption, and the harder case for safety.

## 3. Runs

| run | instance | checks | distinct states |
|---|---|---|---|
| `redis` | unique queue: 3 bodies (one empty), 2 clients, 3 Clears; priority queue: 5 pushes of priorities 0 to 3; pools of 1 and 2 connections with and without `Wait` | `UniqueWhileIntact`, `NoStuckBody`, `FilteredIffWaiting`, `PoolAccounts`, `IdleIsClean`, `OwnReply`, `WaitersGoOn` | 144 thousand |
| `agent_faults` | 4 statements, one text twice, an empty element, 2 branches, batches of 2, 2 `sendData`, a channel of 1, 1 failure, 1 panic | `SampledBehindGate`, `NoLostGate`, `BatchCost`, `AgentKeepsPromise` | 1.7 million |
| `agent_live` | 2 lists, an undecodable element and one that is only a comment, 1 panic, no failing call, fair | `StatementsFinish`, `BatchReachesServer` | 52 thousand |
| `agent_oversampling` | 4 statements, no failure | **violates** `SampledAsConfigured` | - |
| `server_faults` | 2 bodies of one fingerprint, or 1 with a malformed, an empty or a described one, or 2 of those, 2 failures, 1 pop per timer, a channel of 1, fair | `MarkHasRow`, `PanicsBounded`, `ServerKeepsLedger`, `EveryBodyArrives`, `ListDrains` | 52 thousand |
| `server_old_data` | 2 bodies, no failure | **violates** `OldDataIsOld` | - |
| `statement` | plans of up to 3 rows over 7 types and 3 column sets, 5 costs; statements of up to 4 of 19 pieces behind 4 beginnings, with values; configurations of 2 blocks over 3 texts | `ContentExplainsScore`, `ValuesAreReplacedElsewhere`, `OverrunByShortLists`, `NamedBlockIsUsed`, `CostIsOfStatement` | 1.6 million |
| `config_reload` | 3 file contents or none, 2 edits | `ParseIsLastLine`, `OneSwitch` | 852 |
| `config_every_five` | the same, fair | **violates** `EditIsLoaded` | - |
| `kafka_messages` | 66 messages in all versions and 5 shapes; logs of up to 2 of 7 record sets, cut at every byte; 2 administrative calls at 7 broker versions, 3 brokers | `PrepIsExact`, `RoundTrip`, `CutIsRejected`, `WholeRecordsReturned`, `NilMeansDone`, `CallsReturn` | 138 thousand |
| `kafka_client` | producers of 2 to 4 messages: with 2 retries, with 2 partitions, without retries, idempotent with 2 retries, with 2 brokers and with 3 retries; 3 callers on a connection opened twice with 7 mechanisms, 2 requests under way; up to 3 failures | `AnsweredOnce`, `OrderKept`, `AcknowledgedIsStored`, `NoDuplicates`, `NoCrossedReply`, `AuthFirst`, `ClosedOwesNothing` | 1.2 million |
| `kafka_client_live` | producers with a message that cannot be encoded, and idempotent with 2 retries and 3 failures; 2 callers; fair | `CallersReturn`, `CloseReturns` | 202 thousand |

Types are not checked by runs of their own: `QueueTypes`, `AgentTypes`,
`ServerTypes` and `ScoreTypes` prove them.

### Where the code and its documentation disagree

- `SampledAsConfigured`. `env/test.conf:9` calls `RedisSampling` the number of
  statements sampled. Statements that passed `GetKey` before a flush arrive
  after it, start a new entry and fill another batch. This needs no failure.
  That the number is meant per fingerprint is our reading: the gate is opened
  and closed per fingerprint, but the comment does not say so.
- `OldDataIsOld`. `sql/SqlExplain.sql:34` says `flag` 0 is old data and 1 new.
  Two goroutines may mark in one order and insert in the other, so that the
  "old" row is stored first.
- `EditIsLoaded`. `lib/config.go:148` says the file is reloaded every five
  seconds. The ticker is commented out and `reload` runs once.

### What the passing runs do not say

Many properties hold *with named exceptions*; they say that nothing else breaks
the promise, not that the exceptions never happen.

- `NoLostGate` and `MarkHasRow`: `orphaned` and `unsaved` collect the
  fingerprints hit by a failure or panic at the critical place. For the gate
  there are two: between `UniquePush` and `SetKey` (`soar.go:144-149`), and
  between `DelKey` and the hand-over of the batch (`soar.go:279-282`).
- `PanicsBounded`: a malformed body panics twice and a described one once
  (`explain.go:122-131`); further panics come with a failed call, a producer that
  was not made or a database that was not opened (`mysql_pool.go:48-62`).
- `UniqueWhileIntact` and `NoStuckBody`: queues hit by a racing or half-failed
  `Clear`.
- `BatchReachesServer` and `EveryBodyArrives` promise nothing once a call failed
  or a panic struck. `agent_live` has no failing call at all, so that a `Post`
  that times out is only in `agent_faults`.
- `FilteredIffWaiting`: a body pushed with priority zero, or above the queue's,
  waits in a list that no `Pop` scans and is filtered for ever.
- `NamedBlockIsUsed`: another text of the configuration that equals the name of
  the database hides the block. `env/prod.conf` has such a pair: `Comjia` and
  `Comjia_MysqlUser` are both `comj`.
- `CostIsOfStatement`: the cost may be another statement's when a connection
  broke or the pool keeps none.
- `ValuesAreReplacedElsewhere`: a column called `value` keeps what follows it
  (`fingerprint.go:697`, `:294`). `OverrunByShortLists`: a list of one byte, as
  in `in(1)`, is replaced by a longer text and may overrun the buffer
  (`fingerprint.go:76`); so may such a column before a closing parenthesis, as in
  `max( value )`, which is taken for a list (`fingerprint.go:697`, `:301-304`).
- `IdleIsClean`: a command that ends a WATCH clears the client's flag also when
  Redis refuses it, as a `DISCARD` without `MULTI` (`commandinfo.go:37-38`;
  `zpop_example_test.go:26-45` does that). The connection goes back to the pool
  with the watch (`stray`).
- `RoundTrip`: a negative replica ID is read as none (`offset_request.go:74`);
  the messages have no other exception than those `SameField` and
  `VersionForgotten` list.
- `NilMeansDone`: `DeleteRecords`, `CreateACL` and `DeleteACL` do not look at the
  errors of items, `AlterConfig` not at their codes; `validateOnly` is dropped
  below 0.11 (`admin.go:145`, against `:17`). `ListConsumerGroups` ignores the
  error code of a broker and returns without its groups (`admin.go:569`). `ListTopics` needs 0.11
  (`admin.go:274`, against `:10-11`), which no property is about.
- `AnsweredOnce`: a refusal during the shutdown may be sent on a closed channel
  (`async_producer.go:322`).
- The idempotent producer with more than one retry (`MayStray`): `retryBatch`
  raises the level of its messages without asking the `partitionProducer`
  (`async_producer.go:937`). A chaser may then meet a `brokerProducer` that does
  not wait for it and is buffered like a message, or a message is added out of
  sequence and refused while it stays in the batch (`produce_set.go:80-84`);
  `strayed` has the partitions where that happened. Or a retry level starts
  without a `brokerProducer` (`async_producer.go:586`), a panic. Then messages may
  be answered twice, acknowledged without being stored, or never answered, and
  `Close` may hang. `AnsweredOnce` says that no other producer comes there, and
  the producer's properties are claimed for what did not stray.
- The number of a message that failed is taken (`async_producer.go:391`), and the
  batches after the gap may have numbers Kafka knows. `OrderKept`,
  `AcknowledgedIsStored` and `NoDuplicates` claim nothing of an idempotent
  partition with a failed message (`Numbered`).
- `OrderKept` claims nothing without retries. `CloseReturns` also excepts
  idempotent batches of several messages: `retryBatch` answers the first and
  forgets the others (`async_producer.go:932-935`).
- `NoCrossedReply`: after a write that failed half-way the next request gets the
  same correlation ID (`broker.go:688-693`). If the server completes the part
  with what follows and answers it (`ServeTorn`), that answer is taken for the
  next request's (`torn`).
- `ClosedOwesNothing`: `opened` stays set after an invalid configuration
  (`broker.go:143`), and one request more than `MaxOpenRequests` may be under
  way (`config.go:32-33`).
- `CallersReturn`: the reads of the SASL exchange have no deadline and happen
  under the lock (`broker.go:888`). The dial through a proxy (`broker.go:162`) has
  none either; the model takes it to end.

### Bounds

The agent runs have enough statements of one fingerprint to start, extend,
repeat, fill and flush an entry of the aggregator and to start another; a channel
of one place is full as soon as one goroutine has sent. One failure and one panic
of the agent, and two failures of the server, reach each case of a single fault;
combinations of more are covered for the safety of agent and server by the proofs
only. `MaxWorkers` and `Checkers` bound goroutines that the code does not bound.
The server run has one branch, and at most two bodies arrive (`Pairs`); the proofs
have neither restriction.

A pool of one or two connections with three goroutines has every kind of
contention; `MaxConns` bounds the connections dialled. Four pieces behind a
beginning bring the scanner into each pair of its states; a value is placed once.
Both versions of a record set after each other show what the first leaves to the
second.

The plain producer has two retries and two failures, which take a message to its
last level. The idempotent one has that with three messages (`Idem`) and with a
leader that changes (`TwoLeaders`), and with two messages the default of three
retries (`config.go:411`) and three failures (`ManyRetries`), so that a message
reaches level three. In these a chaser strays, a level starts without a
`brokerProducer`, and messages are answered twice or acknowledged unstored; that
a message is then stored twice is not reached at these bounds. With two partitions there is one retry. `MaxBps` bounds the `brokerProducer`s made. The
callers of a connection are alike and begin in the order of their names
(`InOrder`). No `SYMMETRY` is used: the statements differ, and liveness is checked
with the rest.

Runs that say `CHECK_DEADLOCK FALSE` are of components that end when their work
is done; the agent's and the server's never end.

### Fairness

Weak fairness of each goroutine: Go's scheduler runs what can run, `main` and
`NewExplainResult` re-arm their timers, `Post` has timeouts, and a store answers
or its connection breaks. In `RedisPool` a borrower returns its connection, and
goroutines that wait for a token are served in the order in which they came, as
receivers of a Go channel are. `KafkaBroker` takes the lock under strong
fairness: a Go mutex hands itself to a goroutine that has waited long (its
starvation mode). In the Kafka modules a request is answered or its
connection fails or times out. Nothing is assumed of the collector, of clients
that post, of failures or of panics.

## 4. Proofs

All theorems hold for any sets of statements, bodies, branches and fingerprints
and any number of failures and panics, from the assumptions named in the
modules.

| theorem | states |
|---|---|
| `QueueTypes`, `QueueUnique`, `QueueNotStuck` | `TypeOK`, `UniqueWhileIntact` and `NoStuckBody` of `UniqueQueue` |
| `AgentTypes` | `Spec => []TypeOK`, with the channel's capacity |
| `AgentImplementsSampling` | `Spec => AgentKeepsPromise`, a refinement of `Sampling` |
| `SampledOnlyBehindGate`, `GateNeverLost` | `SampledBehindGate`, `NoLostGate` |
| `ServerTypes` | `Spec => []TypeOK`, with the channel's capacity |
| `ServerImplementsLedger` | `Spec => ServerKeepsLedger`, a refinement of `Ledger` |
| `MarkNeverLost`, `NoCrashLoop` | `MarkHasRow`, `PanicsBounded` |
| `ScoreTypes`, `ContentCorrect`, `ScoreBounded`, `LevelCorrect` | `TypeOK`, `ContentExplainsScore`, `ScoreRange` and `LevelIsWorst` of `Score`, for plans of any length |

**Agent.** That a statement is never handed over twice is not inductive: one has
to know where each statement can be. `IInv` is `TypeOK` with `Flow`, which says
that lists hold only statements whose place is "listed", the channel only
those whose place is "chan", map entries and batches only those that are "gone";
that no statement is twice in a list or in the channel; that an entry has one
fingerprint, different texts and at most `BatchLen` statements, none of them
handed over before; and that an entry being flushed is full. `SqlAgentTypes`
defines `IInv` and shows that the types are kept, `SqlAgentFlow` shows with one
lemma per kind of step that `Flow` is kept, and `SqlAgentProofs` derives the
theorems.

**Server.** `FlowInv` (`SqlServerTypes`) says where a body can be: once in the
list when its place is "listed", once in the channel when it is "chan". On it
rests `Books`, from which both `ServerImplementsLedger` and `MarkNeverLost`
follow: a body with a row is done, so no body gets two; the fingerprint of a new
row is marked; and a goroutine that won the mark and is about to insert is alone
with its fingerprint, no other goroutine and no new row has it. The last is what
makes "at most one new row" survive the gap between marking and inserting. Only
`Mark` and `Insert` can disturb `Books`; the lemma `OtherSteps` covers the rest.
`NoCrashLoop` rests on `PanicInv`, a count: panics so far, plus the malformed
bodies that may still panic the Kafka goroutine, plus the malformed or described
ones (`Unreadable`) that may still panic `ExcuteDbSql`, never exceed the malformed
bodies, plus the unreadable ones, plus the failures. Each
panic removes a body from one of the two sets or uses up a failure, since the
body that caused it was popped before.

**Score.** The invariant ties `scoreType` to `Content` at each program point and
`scoreTypeTmp` to the worst row seen. Between the loops the worst type's points
are deducted but not listed yet; the invariant also says that, unless they are
zero, the second loop will meet a row that lists them.

**Only model-checked:** all liveness properties, which the prover cannot treat;
`BatchCost`; `Config`, `Fingerprint`, `ExplainDb`, `PriorityQueue`, `RedisPool`;
the Kafka modules. Those of the codec use recursive operators over data, whose
induction is out of the prover's reach. The inductive invariants themselves are
used by the proofs only and are not invariants of a run.

## 5. Plan

Done: both programs with their abstract specifications and proofs, the parts of
`lib/`, the Redis pool, and of the Kafka client the codec, the connection, the
producer and the administration. Left, most important first:

1. A composition of agent and server over the POST, with duplicated and lost
   batches; the promise of `Sampling` as the assumption of `Ledger`.
2. Proofs of `PoolAccounts` and `NoCrossedReply`, whose modules have no
   recursion, then of `OneSwitch` and `BatchCost`.
3. `kafka/client.go`: the metadata that it caches and refreshes in the background.
4. Retries that `RequiredAcks = NoResponse` does not report, and the settings of
   `Producer.Flush` as they are.

## 6. Not modelled

- **Kafka client and consumers** (`client.go`, `consumer.go`,
  `consumer_group.go`, `offset_manager.go`, `balance_strategy.go`): neither
  program reaches the consumers. The metadata of the client appears by its
  outcome: the leader of a partition may change or be unknown.
- **Kafka mocks and tools, Kerberos**: test doubles with fixed answers; tokens
  computed by a library that is not in the repository. `KafkaBroker` has the
  GSSAPI exchange without its contents.
- **MySQL driver** (`mysql/`): a copy of go-sql-driver, of which the programs see
  outcomes. Those are in `SqlServer` and `ExplainDb`.
- **JSON, log, md5** (`lib/json.go`, `log.go`, `tool.go`): encoding. What a failure
  to decode leads to is modelled in the agent and the server.
- **Functions that neither program calls**: `ExcuteSql`, `execCommand`, the
  consumer of `lib/kafka.go`, the MySQL transactions, `GetIntDefault` and the
  notifiers of `lib/config.go`.
- **Redis replies**: `RedisPool` has whose reply it is, not its contents. When
  `SELECT` fails in the `Dial` of `NewRedisPool` the code returns a closed
  connection without an error; the model treats it as a broken connection.
