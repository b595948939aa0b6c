--------------------------- MODULE SqlAgentTypes ----------------------------
(***************************************************************************)
(* The inductive invariant of the agent, and the proof that its steps keep *)
(* the types.                                                              *)
(***************************************************************************)
EXTENDS SqlAgent, ListLemmas

\* A statement waits in one list, its own, and in one place of it.
ListInv ==
  \A l \in Lists :
    /\ IsInjective(list[l])
    /\ \A m \in Range(list[l]) : at[m] = "listed" /\ ListOf[m] = l

\* A statement is in the channel once.
ChanInv ==
  /\ IsInjective(chan)
  /\ \A m \in Range(chan) : at[m] = "chan"

\* Past the first return of importToRedis the fingerprint is not blank.
FpInv ==
  \A m \in Msgs : at[m] \in {"setkey", "getkey", "send", "chan"} => FpOf[m] \in FPs

\* An entry of the aggregator: statements it received, of one fingerprint and
\* with different texts, never more than a batch.
SampleInv ==
  \A f \in FPs :
    /\ Len(samples[f]) <= Promise!BatchLen
    /\ \A m \in Range(samples[f]) : at[m] = "gone" /\ FpOf[m] = f
    /\ \A n, k \in 1..Len(samples[f]) : InfoOf[samples[f][n]] = InfoOf[samples[f][k]] => n = k

\* What was handed over is not in the aggregator any more.
BatchInv ==
  \A n \in DOMAIN batches : \A m \in Range(batches[n]) :
    at[m] = "gone" /\ \A f \in FPs : m \notin Range(samples[f])

\* Only a full entry is flushed, and one at a time.
AggInv ==
  /\ agg # Blank => agg \in FPs /\ Len(samples[agg]) = Promise!BatchLen
  /\ handing # Blank => handing \in FPs /\ Len(samples[handing]) = Promise!BatchLen
  /\ agg = Blank \/ handing = Blank

Flow == ListInv /\ ChanInv /\ FpInv /\ SampleInv /\ BatchInv /\ AggInv

IInv == TypeOK /\ Flow

flowVars == <<list, at, chan, samples, batches, agg, handing>>

-----------------------------------------------------------------------------

\* Initial states have the right types.
LEMMA InitTypes == Init => TypeOK
<1> SUFFICES ASSUME Init PROVE TypeOK
  OBVIOUS
<1>1. UQ!TypeOK
  BY DEF Init, UQ!Init, UQ!TypeOK
<1>2. <<>> \in Seq(Msgs) /\ Len(<<>>) = 0 /\ <<>> \in Seq(Seq(Msgs))
  OBVIOUS
<1> QED
  BY <1>1, <1>2, AgentAssumption DEF Init, TypeOK, Places

\* Initial states have empty lists, channel, aggregator and history.
LEMMA InitFlow == Init => Flow
<1> SUFFICES ASSUME Init PROVE Flow
  OBVIOUS
<1>1. IsInjective(<<>>) /\ Range(<<>>) = {} /\ Len(<<>>) = 0
  BY DEF IsInjective, Range
<1>2. ListInv /\ ChanInv
  BY <1>1 DEF Init, ListInv, ChanInv
<1>3. FpInv /\ BatchInv /\ AggInv
  BY DEF Init, FpInv, BatchInv, AggInv
<1>4. SampleInv
  <2> SUFFICES ASSUME NEW f \in FPs
               PROVE  Len(<<>>) <= Promise!BatchLen
    BY <1>1 DEF Init, SampleInv
  <2> QED
    BY <1>1, AgentAssumption DEF Promise!BatchLen
<1> QED
  BY <1>2, <1>3, <1>4 DEF Flow

-----------------------------------------------------------------------------

\* Every step of the agent keeps the types: the channel within its capacity, the
\* sampling keys and the queues over fingerprints that are not blank.
LEMMA NextTypes == IInv /\ [Next]_vars => TypeOK'
<1> SUFFICES ASSUME IInv, [Next]_vars PROVE TypeOK'
  OBVIOUS
<1> USE DEF IInv, Flow
<1>1. ASSUME NEW m \in Msgs, Collect(m) PROVE TypeOK'
  <2>1. UQ!TypeOK'
    BY <1>1 DEF TypeOK, Collect, UQ!TypeOK
  <2>2. ListOf[m] \in Lists /\ Append(list[ListOf[m]], m) \in Seq(Msgs)
    BY AgentAssumption DEF TypeOK
  <2>3. list' \in [Lists -> Seq(Msgs)]
    BY <1>1, <2>2 DEF TypeOK, Collect
  <2>4. at' \in [Msgs -> Places]
    BY <1>1 DEF TypeOK, Collect, Moved, Places
  <2> QED
    BY <1>1, <2>1, <2>3, <2>4 DEF TypeOK, Collect, histVars
<1>2. ASSUME NEW l \in Lists, SendData(l) PROVE TypeOK'
  <2>1. UQ!TypeOK'
    BY <1>2 DEF TypeOK, SendData, SendDataPop, SendDataEnd, SendDataFault, redisVars, UQ!TypeOK
  <2>2. list[l] # <<>> => Head(list[l]) \in Msgs /\ Tail(list[l]) \in Seq(Msgs)
    BY TailRange DEF TypeOK
  <2>3. workers[l] > 0 => workers[l] - 1 \in 0..MaxWorkers
    BY AgentAssumption DEF TypeOK
  <2>4. CASE SendDataPop(l)
    BY Zenon, <2>1, <2>2, <2>3, <2>4 DEF TypeOK, SendDataPop, Moved, Places, histVars
  <2>5. CASE SendDataEnd(l)
    BY <2>1, <2>3, <2>5 DEF TypeOK, SendDataEnd, redisVars, histVars
  <2>6. CASE SendDataFault(l)
    <3>1. list' \in [Lists -> Seq(Msgs)] /\ at' \in [Msgs -> Places]
      BY Zenon, <2>2, <2>6 DEF TypeOK, SendDataFault, Moved, Places
    <3>2. workers' \in [Lists -> 0..MaxWorkers]
      BY <2>3, <2>6 DEF TypeOK, SendDataFault
    <3>3. faults' \in 0..MaxFaults
      BY <2>6, AgentAssumption DEF TypeOK, SendDataFault, Fault
    <3> QED
      BY <2>1, <2>6, <3>1, <3>2, <3>3 DEF TypeOK, SendDataFault
  <2> QED
    BY <1>2, <2>4, <2>5, <2>6 DEF SendData
<1>3. ASSUME NEW c \in Checkers, Tick(c) \/ CheckBranch(c) \/ CheckBranchFault(c)
      PROVE  TypeOK'
  <2>1. UQ!TypeOK'
    BY <1>3 DEF TypeOK, Tick, CheckBranch, CheckBranchFault, redisVars, UQ!TypeOK
  <2>2. check[c] > 0 => check[c] \in Lists
    BY AgentAssumption DEF TypeOK, Lists
  <2>3. NextList(c) => check' \in [Checkers -> 0..BranchActive]
    <3>1. check \in [Checkers -> 0..BranchActive]
      BY DEF TypeOK
    <3>2. BranchActive \in Nat
      BY AgentAssumption
    <3> QED
      BY <3>1, <3>2 DEF NextList
  <2>4. CASE Tick(c)
    BY <2>1, <2>4, AgentAssumption DEF TypeOK, Tick, redisVars, histVars
  <2>5. CASE CheckBranch(c)
    <3>1. workers' \in [Lists -> 0..MaxWorkers]
      <4>1. PICK l \in Lists : l = check[c]
        BY <2>2, <2>5 DEF CheckBranch
      <4>2. workers[l] < MaxWorkers => workers[l] + 1 \in 0..MaxWorkers
        BY <4>1, AgentAssumption DEF TypeOK
      <4> QED
        <5>1. workers \in [Lists -> 0..MaxWorkers]
          BY DEF TypeOK
        <5>2. \/ workers[l] < MaxWorkers /\ workers' = [workers EXCEPT ![l] = workers[l] + 1]
              \/ workers' = workers
          BY Zenon, <2>5, <4>1 DEF CheckBranch
        <5> QED
          BY <4>2, <5>1, <5>2
    <3>2. check' \in [Checkers -> 0..BranchActive]
      BY <2>5, <2>3 DEF CheckBranch
    <3> QED
      BY <2>1, <2>5, <3>1, <3>2 DEF TypeOK, CheckBranch, redisVars, histVars
  <2>6. CASE CheckBranchFault(c)
    <3>1. faults' \in 0..MaxFaults
      BY <2>6, AgentAssumption DEF TypeOK, CheckBranchFault, Fault
    <3> QED
      BY <2>1, <2>6, <2>3, <3>1 DEF TypeOK, CheckBranchFault, redisVars
  <2> QED
    BY <1>3, <2>4, <2>5, <2>6
<1>4. ASSUME NEW m \in Msgs, Import(m) PROVE TypeOK'
  <2>1. at[m] = "push" /\ FpOf[m] # Blank /\ UQ!UniquePush(BranchOf[m], FpOf[m]) => UQ!TypeOK'
    <3> SUFFICES ASSUME FpOf[m] # Blank, UQ!UniquePush(BranchOf[m], FpOf[m])
                 PROVE  UQ!TypeOK'
      OBVIOUS
    <3>1. BranchOf[m] \in Branches /\ FpOf[m] \in FPs
      BY AgentAssumption
    <3>2. Append(uq[BranchOf[m]], FpOf[m]) \in Seq(FPs)
      BY <3>1, AppendRange DEF TypeOK, UQ!TypeOK
    <3> QED
      BY <3>1, <3>2 DEF TypeOK, UQ!TypeOK, UQ!UniquePush
  <2>2. UNCHANGED <<uq, uqSet>> => UQ!TypeOK'
    BY DEF TypeOK, UQ!TypeOK
  <2>3. CASE ExcuteUnique(m)
    BY <2>2, <2>3 DEF TypeOK, ExcuteUnique, Moved, Places, redisVars, histVars
  <2>4. CASE ImportBlank(m)
    BY <2>2, <2>4 DEF TypeOK, ImportBlank, Moved, Places, redisVars, histVars
  <2>5. CASE ImportPush(m)
    BY <2>1, <2>5 DEF TypeOK, ImportPush, Moved, Places, histVars
  <2>6. CASE ImportPushFault(m)
    <3>1. UQ!TypeOK'
      BY <2>1, <2>2, <2>6 DEF ImportPushFault
    <3>2. orphaned' \in SUBSET FPs
      BY <2>6, AgentAssumption DEF TypeOK, ImportPushFault
    <3>3. faults' \in 0..MaxFaults
      BY <2>6, AgentAssumption DEF TypeOK, ImportPushFault, Fault
    <3>4. at' \in [Msgs -> Places]
      BY <2>6 DEF TypeOK, ImportPushFault, Moved, Places
    <3> QED
      BY <2>6, <3>1, <3>2, <3>3, <3>4 DEF TypeOK, ImportPushFault
  <2>7. CASE ImportSetKey(m)
    BY <2>2, <2>7 DEF TypeOK, FpInv, ImportSetKey, Moved, Places, histVars
  <2>8. CASE ImportSetKeyFault(m)
    BY <2>2, <2>8, AgentAssumption DEF TypeOK, FpInv, ImportSetKeyFault, Fault, Moved, Places
  <2>9. CASE ImportGetKey(m)
    BY <2>2, <2>9 DEF TypeOK, ImportGetKey, Moved, Places, redisVars, histVars
  <2>10. CASE ImportGetKeyFault(m)
    BY <2>2, <2>10, AgentAssumption DEF TypeOK, ImportGetKeyFault, Fault, Moved, Places, redisVars
  <2>11. CASE ImportSend(m)
    BY <2>2, <2>11, AgentAssumption DEF TypeOK, ImportSend, Moved, Places, redisVars, histVars
  <2> QED
    BY <1>4, <2>3, <2>4, <2>5, <2>6, <2>7, <2>8, <2>9, <2>10, <2>11 DEF Import
<1>5. ASSUME Recv PROVE TypeOK'
  <2>1. UQ!TypeOK'
    BY <1>5 DEF TypeOK, Recv, redisVars, UQ!TypeOK
  <2>2. Head(chan) \in Msgs /\ Tail(chan) \in Seq(Msgs) /\ Len(Tail(chan)) <= ChanCap
    BY <1>5, TailRange, AgentAssumption DEF TypeOK, Recv
  <2>3. FpOf[Head(chan)] \in FPs
    BY <1>5, <2>2, TailRange DEF TypeOK, FpInv, ChanInv, Recv
  <2>4. samples' \in [FPs -> Seq(Msgs)] /\ agg' \in FPs \cup {Blank}
    <3>1. samples[FpOf[Head(chan)]] \in Seq(Msgs)
      BY <2>3 DEF TypeOK
    <3>2. <<Head(chan)>> \in Seq(Msgs) /\ Append(samples[FpOf[Head(chan)]], Head(chan)) \in Seq(Msgs)
      BY <2>2, <3>1
    <3> QED
      BY Zenon, <1>5, <2>3, <3>2 DEF TypeOK, Recv, RecvCase
  <2> QED
    BY <1>5, <2>1, <2>2, <2>4 DEF TypeOK, Recv, Moved, Places, redisVars, histVars
<1>6. ASSUME DelKey PROVE TypeOK'
  <2>1. UQ!TypeOK'
    BY <1>6 DEF TypeOK, DelKey, UQ!TypeOK
  <2>2. key' \in SUBSET FPs
    BY <1>6, Zenon DEF TypeOK, DelKey
  <2>3. faults' \in 0..MaxFaults
    BY <1>6, AgentAssumption DEF TypeOK, DelKey, Fault
  <2>4. handing' \in FPs \cup {Blank} /\ agg' \in FPs \cup {Blank}
    BY <1>6, Zenon DEF TypeOK, DelKey
  <2> QED
    BY <1>6, <2>1, <2>2, <2>3, <2>4 DEF TypeOK, DelKey
<1>10. ASSUME HandOver PROVE TypeOK'
  <2>1. UQ!TypeOK'
    BY <1>10 DEF TypeOK, HandOver, redisVars, UQ!TypeOK
  <2>2. handing \in FPs /\ samples[handing] \in Seq(Msgs)
    BY <1>10 DEF TypeOK, HandOver
  <2>3. batches' \in Seq(Seq(Msgs)) /\ Len(batches') = Len(batches) + 1
    BY <1>10, <2>2 DEF TypeOK, HandOver
  <2>4. DOMAIN batches \subseteq DOMAIN batches' /\ Len(batches') \in DOMAIN batches'
    BY <2>3 DEF TypeOK
  <2>5. samples' \in [FPs -> Seq(Msgs)]
    BY <1>10 DEF TypeOK, HandOver, Evict
  <2>6. outbox' \in SUBSET DOMAIN batches' /\ posted' \in SUBSET DOMAIN batches'
    BY <1>10, <2>4 DEF TypeOK, HandOver
  <2> QED
    BY <1>10, <2>1, <2>3, <2>5, <2>6 DEF TypeOK, HandOver, redisVars
<1>7. ASSUME NEW i \in outbox, Post(i) \/ PostFault(i) PROVE TypeOK'
  <2>1. UQ!TypeOK'
    BY <1>7 DEF TypeOK, Post, PostFault, redisVars, UQ!TypeOK
  <2>2. outbox' \in SUBSET DOMAIN batches' /\ posted' \in SUBSET DOMAIN batches'
    BY <1>7 DEF TypeOK, Post, PostFault
  <2>3. faults' \in 0..MaxFaults
    BY <1>7, AgentAssumption DEF TypeOK, Post, PostFault, Fault
  <2> QED
    BY <1>7, <2>1, <2>2, <2>3 DEF TypeOK, Post, PostFault, redisVars
<1>8. ASSUME Crash PROVE TypeOK'
  <2>1. UQ!TypeOK'
    BY <1>8 DEF TypeOK, Crash, redisVars, UQ!TypeOK
  <2>2. <<>> \in Seq(Msgs) /\ Len(<<>>) = 0
    OBVIOUS
  <2>3. orphaned' \in SUBSET FPs
    <3>1. \A n \in Msgs : at[n] = "setkey" => FpOf[n] \in FPs
      BY Zenon DEF FpInv
    <3> QED
      BY <1>8, <3>1 DEF TypeOK, Crash
  <2> QED
    BY <1>8, <2>1, <2>2, <2>3, AgentAssumption DEF TypeOK, Crash, Places, redisVars
<1>9. CASE UNCHANGED vars
  BY <1>9 DEF TypeOK, vars, redisVars, goVars, histVars, UQ!TypeOK
<1> QED
  BY <1>1, <1>2, <1>3, <1>4, <1>5, <1>6, <1>7, <1>8, <1>9, <1>10 DEF Next, curlURL
=============================================================================
