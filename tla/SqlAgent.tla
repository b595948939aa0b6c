------------------------------ MODULE SqlAgent ------------------------------
(***************************************************************************)
(* The agent: testSQL.go with importToRedis, NewExplainData and curlURL of *)
(* lib/soar.go.  Statements arrive in the Redis lists SQL_0, SQL_1, ...;   *)
(* sendData goroutines pop them; one goroutine per statement fingerprints  *)
(* it, pushes the fingerprint on the unique queue of its branch and, while *)
(* the sampling key of the fingerprint exists, passes the statement to the *)
(* aggregator; the aggregator deletes the key and posts the batch when it  *)
(* has enough.  Redis outlives the process; everything else is lost when a *)
(* goroutine panics.                                                       *)
(***************************************************************************)
EXTENDS Naturals, Sequences, FiniteSets, Functions

CONSTANTS
  Msgs,          \* the statements the collector writes to Redis
  EmptyBodies,   \* those whose list element is the empty string
  Infos, NoInfo, \* statement texts; the text of an undecodable element
  FPs, Blank,    \* fingerprints; the fingerprint of a comment
  Branches,      \* values of the branch field
  InfoOf, FpOf, BranchOf, ListOf, \* the fields of a statement and its list
  BranchActive,  \* config: number of lists
  RedisSampling, \* config: statements per batch
  ChanCap,       \* capacity of the channel SqlExplain (10 in main)
  Checkers,      \* bound: checkBranch goroutines alive at the same time
  MaxWorkers,    \* bound: sendData goroutines of one list at the same time
  MaxFaults,     \* bound: Redis and HTTP calls that fail
  MaxCrashes     \* bound: panics followed by a restart

Lists == 1..BranchActive

ASSUME AgentAssumption ==
  /\ EmptyBodies \subseteq Msgs
  /\ NoInfo \notin Infos
  /\ Blank \notin FPs \cup Branches
  /\ InfoOf \in [Msgs -> Infos \cup {NoInfo}]
  /\ FpOf \in [Msgs -> FPs \cup {Blank}]
  /\ BranchOf \in [Msgs -> Branches]
  /\ BranchActive \in Nat
  /\ ListOf \in [Msgs -> Lists]
  /\ RedisSampling \in Nat
  /\ ChanCap \in Nat \ {0}
  /\ MaxWorkers \in Nat \ {0}
  /\ MaxFaults \in Nat
  /\ MaxCrashes \in Nat

VARIABLES
  list,     \* Redis: list[l], the statements waiting in list l
  uq,       \* Redis: uq[b], the list of the unique queue of branch b
  uqSet,    \* Redis: uqSet[b], its filter set
  key,      \* Redis: the fingerprints whose sampling key exists
  at,       \* at[m]: where the goroutine of statement m is
  workers,  \* workers[l]: number of sendData goroutines on list l
  check,    \* check[c]: the list checkBranch goroutine c looks at next
  chan,     \* the channel SqlExplain
  samples,  \* SqlExplainArr: samples[f], <<>> when there is no entry
  agg,      \* the fingerprint whose key NewExplainData is about to delete, or Blank
  handing,  \* the fingerprint whose batch it hands over after that, or Blank
  outbox,   \* the batches (their numbers) that curlURL goroutines are posting
  posted,   \* the batches (their numbers) the server received
  batches,  \* history: the batches handed to curlURL, in order
  orphaned, \* history: fingerprints a failure left filtered and not sampled
  faults,   \* number of failed calls so far
  crashes   \* number of panics so far

redisVars == <<list, uq, uqSet, key>>
goVars == <<at, workers, check, chan, samples, agg, handing, outbox>>
histVars == <<posted, batches, orphaned, faults, crashes>>
vars == <<redisVars, goVars, histVars>>

UQ == INSTANCE UniqueQueue WITH
        Queues <- Branches, Bodies <- FPs, Empty <- Blank, NoQueue <- Blank,
        Clients <- {}, MaxClears <- 0, q <- uq, q_set <- uqSet,
        clearing <- <<>>, clears <- 0, torn <- {}, halved <- {}

Promise == INSTANCE Sampling

\* The steps of a statement's life, in order.
Places == {"outside", "listed", "unique", "push", "setkey", "getkey", "send",
           "chan", "gone"}

TypeOK ==
  /\ list \in [Lists -> Seq(Msgs)]
  /\ UQ!TypeOK
  /\ key \in SUBSET FPs
  /\ at \in [Msgs -> Places]
  /\ workers \in [Lists -> 0..MaxWorkers]
  /\ check \in [Checkers -> 0..BranchActive]
  /\ chan \in Seq(Msgs) /\ Len(chan) <= ChanCap
  /\ samples \in [FPs -> Seq(Msgs)]
  /\ agg \in FPs \cup {Blank}
  /\ handing \in FPs \cup {Blank}
  /\ batches \in Seq(Seq(Msgs))
  /\ outbox \in SUBSET DOMAIN batches
  /\ posted \in SUBSET DOMAIN batches
  /\ orphaned \in SUBSET FPs
  /\ faults \in 0..MaxFaults
  /\ crashes \in 0..MaxCrashes

\* main: dispatch("ALL") starts one sendData per list.
Init ==
  /\ list = [l \in Lists |-> <<>>]
  /\ UQ!Init
  /\ key = {}
  /\ at = [m \in Msgs |-> "outside"]
  /\ workers = [l \in Lists |-> 1]
  /\ check = [c \in Checkers |-> 0]
  /\ chan = <<>>
  /\ samples = [f \in FPs |-> <<>>]
  /\ agg = Blank /\ handing = Blank
  /\ outbox = {} /\ posted = {} /\ batches = <<>>
  /\ orphaned = {}
  /\ faults = 0 /\ crashes = 0

-----------------------------------------------------------------------------

Moved(m, place) == at' = [at EXCEPT ![m] = place]

\* A call to Redis or to the server that returns an error.
Fault ==
  /\ faults < MaxFaults
  /\ faults' = faults + 1

\* The collector in front of the agent appends a statement to its list.
Collect(m) ==
  /\ at[m] = "outside"
  /\ list' = [list EXCEPT ![ListOf[m]] = Append(@, m)]
  /\ Moved(m, "listed")
  /\ UNCHANGED <<uq, uqSet, key, workers, check, chan, samples, agg, handing, outbox, histVars>>

\* One round of sendData: ListPop takes the first element.  The empty string is
\* consumed but looks like an empty list, so the goroutine ends.
SendDataPop(l) ==
  /\ workers[l] > 0
  /\ list[l] # <<>>
  /\ list' = [list EXCEPT ![l] = Tail(@)]
  /\ IF Head(list[l]) \in EmptyBodies
     THEN /\ Moved(Head(list[l]), "gone")
          /\ workers' = [workers EXCEPT ![l] = @ - 1]
     ELSE /\ Moved(Head(list[l]), "unique")
          /\ UNCHANGED workers
  /\ UNCHANGED <<uq, uqSet, key, check, chan, samples, agg, handing, outbox, histVars>>

\* The list is empty: sendData breaks out of its loop.
SendDataEnd(l) ==
  /\ workers[l] > 0
  /\ list[l] = <<>>
  /\ workers' = [workers EXCEPT ![l] = @ - 1]
  /\ UNCHANGED <<redisVars, at, check, chan, samples, agg, handing, outbox, histVars>>

\* ListPop fails: data is "" and sendData ends.  The script may have run before
\* the reply was lost; then the element is gone from the list.
SendDataFault(l) ==
  /\ workers[l] > 0
  /\ Fault
  /\ workers' = [workers EXCEPT ![l] = @ - 1]
  /\ \/ UNCHANGED <<list, at>>
     \/ /\ list[l] # <<>>
        /\ list' = [list EXCEPT ![l] = Tail(@)]
        /\ Moved(Head(list[l]), "gone")
  /\ UNCHANGED <<uq, uqSet, key, check, chan, samples, agg, handing, outbox,
                 posted, batches, orphaned, crashes>>

SendData(l) == SendDataPop(l) \/ SendDataEnd(l) \/ SendDataFault(l)

\* The timer of main fires and starts checkBranch goroutine c.
Tick(c) ==
  /\ check[c] = 0
  /\ BranchActive > 0
  /\ check' = [check EXCEPT ![c] = 1]
  /\ UNCHANGED <<redisVars, at, workers, chan, samples, agg, handing, outbox, histVars>>

\* checkBranch after its look at one list: on to the next, or done.
NextList(c) ==
  check' = [check EXCEPT ![c] = IF @ < BranchActive THEN @ + 1 ELSE 0]

\* checkBranch: ListCount on one list, and a further sendData if it has elements.
CheckBranch(c) ==
  /\ check[c] > 0
  /\ IF list[check[c]] # <<>>
     THEN /\ workers[check[c]] < MaxWorkers
          /\ workers' = [workers EXCEPT ![check[c]] = @ + 1]
     ELSE UNCHANGED workers
  /\ NextList(c)
  /\ UNCHANGED <<redisVars, at, chan, samples, agg, handing, outbox, histVars>>

\* ListCount fails: data is 0, no sendData is started.
CheckBranchFault(c) ==
  /\ check[c] > 0
  /\ Fault
  /\ NextList(c)
  /\ UNCHANGED <<redisVars, at, workers, chan, samples, agg, handing, outbox,
                 posted, batches, orphaned, crashes>>

\* ExcuteUnique: an undecodable element has no text and ends here; any other
\* statement is fingerprinted and handed to importToRedis.
ExcuteUnique(m) ==
  /\ at[m] = "unique"
  /\ Moved(m, IF InfoOf[m] = NoInfo THEN "gone" ELSE "push")
  /\ UNCHANGED <<redisVars, workers, check, chan, samples, agg, handing, outbox, histVars>>

\* importToRedis returns at once when the fingerprint is empty.
ImportBlank(m) ==
  /\ at[m] = "push"
  /\ FpOf[m] = Blank
  /\ Moved(m, "gone")
  /\ UNCHANGED <<redisVars, workers, check, chan, samples, agg, handing, outbox, histVars>>

\* importToRedis: UniquePush on the queue of the branch.
ImportPush(m) ==
  /\ at[m] = "push"
  /\ FpOf[m] # Blank
  /\ UQ!UniquePush(BranchOf[m], FpOf[m])
  /\ Moved(m, IF UQ!PushResp(BranchOf[m], FpOf[m]) = 1 THEN "setkey" ELSE "getkey")
  /\ UNCHANGED <<list, key, workers, check, chan, samples, agg, handing, outbox, histVars>>

\* UniquePush returns an error: resp is 0 and SetKey is skipped, also when the
\* script did run and the fingerprint is now filtered.
ImportPushFault(m) ==
  /\ at[m] = "push"
  /\ FpOf[m] # Blank
  /\ Fault
  /\ \/ UNCHANGED <<uq, uqSet, orphaned>>
     \/ /\ UQ!UniquePush(BranchOf[m], FpOf[m])
        /\ orphaned' = IF UQ!PushResp(BranchOf[m], FpOf[m]) = 1
                       THEN orphaned \cup {FpOf[m]} ELSE orphaned
  /\ Moved(m, "getkey")
  /\ UNCHANGED <<list, key, workers, check, chan, samples, agg, handing, outbox,
                 posted, batches, crashes>>

\* A SetKey that is forgotten.
ImportSetKeyForgotten(m) ==
  /\ at[m] = "setkey"
  /\ Moved(m, "getkey")
  /\ UNCHANGED <<redisVars, workers, check, chan, samples, agg, handing, outbox, histVars>>

\* importToRedis: SetKey opens the sampling of a fingerprint that was new.
ImportSetKey(m) ==
  /\ at[m] = "setkey"
  /\ key' = key \cup {FpOf[m]}
  /\ Moved(m, "getkey")
  /\ UNCHANGED <<list, uq, uqSet, workers, check, chan, samples, agg, handing, outbox, histVars>>

\* SetKey fails and its error is dropped.
ImportSetKeyFault(m) ==
  /\ at[m] = "setkey"
  /\ Fault
  /\ \/ UNCHANGED key
     \/ key' = key \cup {FpOf[m]}
  /\ orphaned' = orphaned \cup {FpOf[m]}
  /\ Moved(m, "getkey")
  /\ UNCHANGED <<list, uq, uqSet, workers, check, chan, samples, agg, handing, outbox,
                 posted, batches, crashes>>

\* A statement that is sampled whatever GetKey says.
ImportGetKeyIgnored(m) ==
  /\ at[m] = "getkey"
  /\ Moved(m, "send")
  /\ UNCHANGED <<redisVars, workers, check, chan, samples, agg, handing, outbox, histVars>>

\* importToRedis: GetKey decides whether the statement is sampled.
ImportGetKey(m) ==
  /\ at[m] = "getkey"
  /\ Moved(m, IF FpOf[m] \in key THEN "send" ELSE "gone")
  /\ UNCHANGED <<redisVars, workers, check, chan, samples, agg, handing, outbox, histVars>>

\* GetKey fails: SqlKey is "" and the statement is dropped.
ImportGetKeyFault(m) ==
  /\ at[m] = "getkey"
  /\ Fault
  /\ Moved(m, "gone")
  /\ UNCHANGED <<redisVars, workers, check, chan, samples, agg, handing, outbox,
                 posted, batches, orphaned, crashes>>

\* A send that gives up one place of the channel.
ImportSendShort(m) ==
  /\ at[m] = "send"
  /\ Len(chan) + 1 < ChanCap
  /\ chan' = Append(chan, m)
  /\ Moved(m, "chan")
  /\ UNCHANGED <<redisVars, workers, check, samples, agg, handing, outbox, histVars>>

\* importToRedis: the send on SqlExplain blocks while the channel is full.
ImportSend(m) ==
  /\ at[m] = "send"
  /\ Len(chan) < ChanCap
  /\ chan' = Append(chan, m)
  /\ Moved(m, "chan")
  /\ UNCHANGED <<redisVars, workers, check, samples, agg, handing, outbox, histVars>>

Import(m) ==
  \/ ExcuteUnique(m)
  \/ ImportBlank(m)
  \/ ImportPush(m) \/ ImportPushFault(m)
  \/ ImportSetKey(m) \/ ImportSetKeyFault(m)
  \/ ImportGetKey(m) \/ ImportGetKeyFault(m)
  \/ ImportSend(m)

\* The entry of m's fingerprint has a statement with the same text.
SameInfo(m) ==
  \E i \in DOMAIN samples[FpOf[m]] : InfoOf[samples[FpOf[m]][i]] = InfoOf[m]

\* An aggregator that keeps statements it already has.
RecvDuplicates(m) ==
  \/ /\ Len(samples[FpOf[m]]) < Promise!BatchLen
     /\ samples' = [samples EXCEPT ![FpOf[m]] = Append(@, m)]
     /\ UNCHANGED agg
  \/ /\ Len(samples[FpOf[m]]) >= Promise!BatchLen
     /\ agg' = FpOf[m]
     /\ UNCHANGED samples

\* What NewExplainData does with a statement: start an entry, extend it unless
\* the text is a duplicate, or, the entry being full, drop the statement and
\* flush the entry.
RecvCase(m) ==
  \/ /\ samples[FpOf[m]] = <<>>
     /\ samples' = [samples EXCEPT ![FpOf[m]] = <<m>>]
     /\ UNCHANGED agg
  \/ /\ samples[FpOf[m]] # <<>>
     /\ Len(samples[FpOf[m]]) < RedisSampling
     /\ samples' = IF SameInfo(m) THEN samples
                   ELSE [samples EXCEPT ![FpOf[m]] = Append(@, m)]
     /\ UNCHANGED agg
  \/ /\ samples[FpOf[m]] # <<>>
     /\ Len(samples[FpOf[m]]) >= RedisSampling
     /\ agg' = FpOf[m]
     /\ UNCHANGED samples

\* NewExplainData receives from SqlExplain.
Recv ==
  /\ agg = Blank /\ handing = Blank
  /\ chan # <<>>
  /\ chan' = Tail(chan)
  /\ Moved(Head(chan), "gone")
  /\ RecvCase(Head(chan))
  /\ UNCHANGED <<redisVars, workers, check, handing, outbox, histVars>>

\* NewExplainData on a full entry: DelKey closes the sampling.  Its error is
\* dropped.
DelKey ==
  /\ agg # Blank
  /\ \/ key' = key \ {agg} /\ UNCHANGED faults
     \/ Fault /\ key' \in {key, key \ {agg}}
  /\ handing' = agg
  /\ agg' = Blank
  /\ UNCHANGED <<list, uq, uqSet, at, workers, check, chan, samples, outbox, posted, batches,
                 orphaned, crashes>>

\* A hand-over that leaves the entry in the map.
EvictKeeps == UNCHANGED samples

\* delete(SqlExplainArr, ...).
Evict == samples' = [samples EXCEPT ![handing] = <<>>]

\* After DelKey: delete and go curlURL, which no other goroutine can tell apart.
HandOver ==
  /\ handing # Blank
  /\ Evict
  /\ batches' = Append(batches, samples[handing])
  /\ outbox' = outbox \cup {Len(batches')}
  /\ handing' = Blank
  /\ UNCHANGED <<redisVars, at, workers, check, chan, agg, posted, orphaned, faults, crashes>>

\* A Post that reports success without having sent anything.
PostNothing(i) ==
  /\ outbox' = outbox \ {i}
  /\ UNCHANGED <<redisVars, at, workers, check, chan, samples, agg, handing, histVars>>

\* curlURL: the server has the batch when Post returns without error.
Post(i) ==
  /\ outbox' = outbox \ {i}
  /\ posted' = posted \cup {i}
  /\ UNCHANGED <<redisVars, at, workers, check, chan, samples, agg, handing,
                 batches, orphaned, faults, crashes>>

\* curlURL: Post fails or times out and the batch is dropped; after a timeout the
\* server may have it all the same.
PostFault(i) ==
  /\ Fault
  /\ outbox' = outbox \ {i}
  /\ posted' \in {posted, posted \cup {i}}
  /\ UNCHANGED <<redisVars, at, workers, check, chan, samples, agg, handing,
                 batches, orphaned, crashes>>

curlURL == \E i \in outbox : Post(i) \/ PostFault(i)

\* A panic in any goroutine ends the process (parseBody, Fingerprint); a new
\* process starts from what Redis holds.  Posts under way may have arrived.
Crash ==
  /\ crashes < MaxCrashes
  /\ crashes' = crashes + 1
  /\ at' = [m \in Msgs |-> IF at[m] \in {"outside", "listed"} THEN at[m] ELSE "gone"]
  /\ orphaned' = orphaned \cup {FpOf[m] : m \in {n \in Msgs : at[n] = "setkey"}}
                          \cup ({handing} \ (key \cup {Blank}))
  /\ workers' = [l \in Lists |-> 1]
  /\ check' = [c \in Checkers |-> 0]
  /\ chan' = <<>>
  /\ samples' = [f \in FPs |-> <<>>]
  /\ agg' = Blank /\ handing' = Blank
  /\ outbox' = {}
  /\ \E sent \in SUBSET outbox : posted' = posted \cup sent
  /\ UNCHANGED <<redisVars, batches, faults>>

Next ==
  \/ \E m \in Msgs : Collect(m) \/ Import(m)
  \/ \E l \in Lists : SendData(l)
  \/ \E c \in Checkers : Tick(c) \/ CheckBranch(c) \/ CheckBranchFault(c)
  \/ Recv
  \/ DelKey
  \/ HandOver
  \/ curlURL
  \/ Crash

Spec == Init /\ [][Next]_vars

\* The runtime schedules every goroutine that can run, main re-arms its timer, a
\* Post has timeouts, and Redis answers or its connection breaks.
Fairness ==
  /\ \A m \in Msgs : WF_vars(Import(m))
  /\ \A l \in Lists : WF_vars(SendData(l))
  /\ \A c \in Checkers : WF_vars(Tick(c)) /\ WF_vars(CheckBranch(c) \/ CheckBranchFault(c))
  /\ WF_vars(Recv)
  /\ WF_vars(DelKey)
  /\ WF_vars(HandOver)
  /\ WF_vars(curlURL)

FairSpec == Spec /\ Fairness

-----------------------------------------------------------------------------

\* The batches of fingerprint f so far.
BatchesOf(f) == {i \in DOMAIN batches : FpOf[batches[i][1]] = f}

\* The agent implements the promise of module Sampling: RedisSampling statements
\* per batch, one fingerprint, different texts, no statement handed over twice,
\* also across panics and lost replies (NewExplainData).
AgentKeepsPromise == Promise!Spec

\* A statement is on its way to the aggregator, or in its map, only if somebody
\* opened the sampling of its fingerprint before (the GetKey of importToRedis):
\* the key exists, or NewExplainData deleted it for a batch.
SampledBehindGate ==
  \A f \in FPs :
    (\/ samples[f] # <<>>
     \/ \E m \in Msgs : FpOf[m] = f /\ at[m] \in {"send", "chan"})
      => f \in key \cup {handing} \/ BatchesOf(f) # {}

\* A fingerprint that a branch's queue filters has had its sampling opened, or
\* will by the goroutine between UniquePush and SetKey.  Only two failures leave it
\* filtered without ever being sampled: a lost call or a panic right there, and a
\* panic between DelKey and go curlURL, when the key is gone and the batch is not
\* under way yet.  At any other moment of a flush either the key is still there or
\* the batch was handed over.
NoLostGate ==
  \A b \in Branches : \A f \in uqSet[b] :
    \/ f \in key \cup orphaned \cup {handing}
    \/ BatchesOf(f) # {}
    \/ \E m \in Msgs : at[m] = "setkey" /\ FpOf[m] = f /\ BranchOf[m] = b

\* Every batch cost one statement more than it holds, the one that found the
\* entry full and was dropped (the else branch of NewExplainData).
BatchCost ==
  \A f \in FPs :
    Cardinality(BatchesOf(f)) * (Promise!BatchLen + 1)
      <= Cardinality({m \in Msgs : FpOf[m] = f /\ at[m] = "gone"})

\* RedisSampling is the number of statements sampled per fingerprint: a
\* fingerprint of a single branch is never handed over twice.
SampledAsConfigured ==
  \A f \in FPs :
    Cardinality({b \in Branches : f \in uqSet[b]}) <= 1 => Cardinality(BatchesOf(f)) <= 1

\* A statement in a list is popped some day and its goroutine ends: the timer
\* revives sendData after it ended on an empty list, an empty element, an error or
\* a panic, and the aggregator empties the channel that importToRedis waits for.
StatementsFinish == \A m \in Msgs : at[m] = "listed" ~> at[m] = "gone"

\* The statements of f that are past the gate and not yet handed over.
Admitted(f) ==
  {m \in Msgs : FpOf[m] = f /\ at[m] \in {"send", "chan"}} \cup Range(samples[f])

\* More different statements past the gate than a batch holds lead to a batch at
\* the server, unless a call failed or the process panicked.
BatchReachesServer ==
  \A f \in FPs :
    Cardinality({InfoOf[m] : m \in Admitted(f)}) > Promise!BatchLen
      ~> BatchesOf(f) \cap posted # {} \/ faults + crashes > 0
=============================================================================
