--------------------------- MODULE SqlAgentFlow -----------------------------
(***************************************************************************)
(* Where the statements are: every step of the agent keeps Flow, so that   *)
(* IInv of SqlAgentTypes is an invariant.                                  *)
(***************************************************************************)
EXTENDS SqlAgentTypes

\* Lists, channel, aggregator and batches hold collected statements.
LEMMA Holds ==
  ASSUME TypeOK
  PROVE  /\ \A l \in Lists : Range(list[l]) \subseteq Msgs
         /\ Range(chan) \subseteq Msgs
         /\ \A f \in FPs : Range(samples[f]) \subseteq Msgs
         /\ \A n \in DOMAIN batches : Range(batches[n]) \subseteq Msgs
<1>1. \A s \in Seq(Msgs) : Range(s) \subseteq Msgs
  BY DEF Range
<1>2. \A n \in DOMAIN batches : batches[n] \in Seq(Msgs)
  BY DEF TypeOK
<1> QED
  BY <1>1, <1>2 DEF TypeOK

\* A step that moves no statement keeps Flow: the timer, checkBranch, curlURL and
\* a sendData that ends.
LEMMA QuietFlow ==
  ASSUME Flow, UNCHANGED flowVars
  PROVE  Flow'
BY DEF Flow, flowVars, ListInv, ChanInv, FpInv, SampleInv, BatchInv, AggInv

\* A goroutine of importToRedis that only goes on to its next call keeps Flow.
LEMMA MoveFlow ==
  ASSUME TypeOK, Flow, NEW m \in Msgs, NEW p \in Places,
         at[m] \in {"unique", "push", "setkey", "getkey"},
         p \in {"push", "gone"} \/ (p \in {"setkey", "getkey", "send"} /\ FpOf[m] \in FPs),
         Moved(m, p),
         UNCHANGED <<list, chan, samples, batches, agg, handing>>
  PROVE  Flow'
<1> USE DEF Flow
<1>1. \A n \in Msgs : at[n] \in {"listed", "chan", "gone"} => at'[n] = at[n]
  BY DEF TypeOK, Moved
<1>2. ListInv'
  BY <1>1, Holds DEF ListInv
<1>3. ChanInv'
  BY <1>1, Holds DEF ChanInv
<1>4. FpInv'
  BY DEF TypeOK, FpInv, Moved
<1>5. SampleInv'
  BY <1>1, Holds DEF SampleInv
<1>6. BatchInv'
  BY <1>1, Holds DEF BatchInv
<1>7. AggInv'
  BY DEF AggInv
<1> QED
  BY <1>2, <1>3, <1>4, <1>5, <1>6, <1>7

\* The collector appends a statement that is nowhere else.
LEMMA CollectFlow ==
  ASSUME TypeOK, Flow, NEW m \in Msgs, Collect(m)
  PROVE  Flow'
<1> USE DEF Flow
<1>1. \A n \in Msgs : at[n] \in {"listed", "chan", "gone"} => at'[n] = at[n]
  BY DEF TypeOK, Collect, Moved
<1>2. ListInv'
  <2> SUFFICES ASSUME NEW l \in Lists
               PROVE  /\ IsInjective(list'[l])
                      /\ \A n \in Range(list'[l]) : at'[n] = "listed" /\ ListOf[n] = l
    BY DEF ListInv
  <2>1. CASE l = ListOf[m]
    <3>1. list[l] \in Seq(Msgs) /\ list'[l] = Append(list[l], m) /\ m \notin Range(list[l])
      BY <2>1 DEF TypeOK, Collect, ListInv
    <3>2. Range(list'[l]) = Range(list[l]) \cup {m} /\ IsInjective(list'[l])
      BY <3>1, AppendRange DEF ListInv
    <3>3. at'[m] = "listed"
      BY DEF TypeOK, Collect, Moved
    <3> QED
      BY <1>1, <2>1, <3>2, <3>3, Holds DEF ListInv
  <2>2. CASE l # ListOf[m]
    <3>1. list'[l] = list[l]
      BY <2>2 DEF TypeOK, Collect
    <3> QED
      BY <1>1, <3>1, Holds DEF ListInv
  <2> QED
    BY <2>1, <2>2
<1>3. ChanInv'
  BY <1>1, Holds DEF ChanInv, Collect
<1>4. FpInv'
  BY DEF TypeOK, FpInv, Collect, Moved
<1>5. SampleInv'
  BY <1>1, Holds DEF SampleInv, Collect
<1>6. BatchInv'
  BY <1>1, Holds DEF BatchInv, Collect, histVars
<1>7. AggInv'
  BY DEF AggInv, Collect
<1> QED
  BY <1>2, <1>3, <1>4, <1>5, <1>6, <1>7

\* ListPop takes the first statement of a list, and nobody else has it.
LEMMA PopFlow ==
  ASSUME TypeOK, Flow, NEW l \in Lists, list[l] # <<>>, NEW p \in {"gone", "unique"},
         list' = [list EXCEPT ![l] = Tail(@)],
         Moved(Head(list[l]), p),
         UNCHANGED <<chan, samples, batches, agg, handing>>
  PROVE  Flow'
<1> USE DEF Flow
<1>1. list[l] \in Seq(Msgs) /\ Head(list[l]) \in Msgs /\ Head(list[l]) \in Range(list[l])
  BY TailRange DEF TypeOK
<1> PICK h \in Msgs : h = Head(list[l])
  BY <1>1
<1>2. at[h] = "listed" /\ ListOf[h] = l
  BY <1>1 DEF ListInv
<1>3. \A n \in Msgs : n # h => at'[n] = at[n]
  BY DEF TypeOK, Moved
<1>4. ListInv'
  <2> SUFFICES ASSUME NEW k \in Lists
               PROVE  /\ IsInjective(list'[k])
                      /\ \A n \in Range(list'[k]) : at'[n] = "listed" /\ ListOf[n] = k
    BY DEF ListInv
  <2>1. CASE k = l
    <3>1. list'[k] = Tail(list[l])
      BY <2>1 DEF TypeOK
    <3>2. /\ Range(list'[k]) \subseteq Range(list[l]) /\ h \notin Range(list'[k])
          /\ IsInjective(list'[k])
      BY <1>1, <3>1, TailRange DEF ListInv
    <3> QED
      BY <1>3, <2>1, <3>2, Holds DEF ListInv
  <2>2. CASE k # l
    <3>1. list'[k] = list[k] /\ h \notin Range(list[k])
      BY <1>2, <2>2 DEF TypeOK, ListInv
    <3> QED
      BY <1>3, <3>1, Holds DEF ListInv
  <2> QED
    BY <2>1, <2>2
<1>5. ChanInv'
  BY <1>2, <1>3, Holds DEF ChanInv
<1>6. FpInv'
  BY <1>3 DEF TypeOK, FpInv, Moved
<1>7. SampleInv'
  BY <1>2, <1>3, Holds DEF SampleInv
<1>8. BatchInv'
  BY <1>2, <1>3, Holds DEF BatchInv
<1>9. AggInv'
  BY DEF AggInv
<1> QED
  BY <1>4, <1>5, <1>6, <1>7, <1>8, <1>9

\* The send on SqlExplain puts a statement in the channel once.
LEMMA SendFlow ==
  ASSUME TypeOK, Flow, NEW m \in Msgs, ImportSend(m)
  PROVE  Flow'
<1> USE DEF Flow
<1>1. /\ at[m] = "send" /\ at'[m] = "chan"
      /\ \A n \in Msgs : n # m => at'[n] = at[n]
      /\ UNCHANGED <<list, samples, batches, agg, handing>>
  BY DEF TypeOK, ImportSend, Moved, redisVars, histVars
<1>2. ListInv'
  BY <1>1, Holds DEF ListInv
<1>3. ChanInv'
  <2>1. chan' = Append(chan, m) /\ m \notin Range(chan)
    BY <1>1 DEF ImportSend, ChanInv
  <2>2. Range(chan') = Range(chan) \cup {m} /\ IsInjective(chan')
    BY <2>1, AppendRange DEF TypeOK, ChanInv
  <2> QED
    BY <1>1, <2>2, Holds DEF ChanInv
<1>4. FpInv'
  BY <1>1 DEF FpInv
<1>5. SampleInv'
  BY <1>1, Holds DEF SampleInv
<1>6. BatchInv'
  BY <1>1, Holds DEF BatchInv
<1>7. AggInv'
  BY <1>1 DEF AggInv
<1> QED
  BY <1>2, <1>3, <1>4, <1>5, <1>6, <1>7

\* NewExplainData adds a statement to the entry of its fingerprint only when the
\* entry has room and not its text.
LEMMA RecvFlow ==
  ASSUME TypeOK, Flow, Recv
  PROVE  Flow'
<1> USE DEF Flow
<1>1. Head(chan) \in Msgs /\ Head(chan) \in Range(chan)
  BY TailRange DEF TypeOK, Recv
<1> PICK h \in Msgs : h = Head(chan)
  BY <1>1
<1>2. at[h] = "chan" /\ FpOf[h] \in FPs
  BY <1>1 DEF ChanInv, FpInv
<1> PICK f \in FPs : f = FpOf[h]
  BY <1>2
<1>3. /\ at'[h] = "gone"
      /\ \A n \in Msgs : n # h => at'[n] = at[n]
      /\ UNCHANGED <<list, batches>>
      /\ chan # <<>> /\ chan' = Tail(chan) /\ agg = Blank /\ handing' = Blank
  BY DEF TypeOK, Recv, Moved, redisVars, histVars
<1> PICK B \in Nat : B = Promise!BatchLen
  BY AgentAssumption DEF Promise!BatchLen
<1>4. B >= 1 /\ RedisSampling <= B /\ (RedisSampling = B \/ B = 1)
  BY AgentAssumption DEF Promise!BatchLen
<1>5. samples[f] \in Seq(Msgs) /\ Len(samples[f]) <= B
  BY DEF TypeOK, SampleInv
<1>6. /\ Len(samples'[f]) <= B
      /\ Range(samples'[f]) \subseteq Range(samples[f]) \cup {h}
      /\ \A n, k \in 1..Len(samples'[f]) :
           InfoOf[samples'[f][n]] = InfoOf[samples'[f][k]] => n = k
      /\ \A g \in FPs : g # f => samples'[g] = samples[g]
      /\ agg' # Blank => agg' = f /\ samples' = samples /\ Len(samples[f]) = B
  <2>1. CASE samples[f] = <<>> /\ samples' = [samples EXCEPT ![f] = <<h>>] /\ UNCHANGED agg
    <3>1. samples'[f] = <<h>> /\ Len(<<h>>) = 1 /\ Range(<<h>>) = {h}
      BY <2>1 DEF TypeOK, Range
    <3>2. \A n, k \in 1..Len(samples'[f]) : n = k
      BY <3>1
    <3>3. Len(samples'[f]) <= B
      BY <1>4, <3>1
    <3>4. \A g \in FPs : g # f => samples'[g] = samples[g]
      BY <2>1 DEF TypeOK
    <3> QED
      BY <1>3, <2>1, <3>1, <3>2, <3>3, <3>4
  <2>2. CASE samples' = samples /\ UNCHANGED agg
    BY <1>3, <1>5, <2>2 DEF SampleInv
  <2>3. CASE /\ Len(samples[f]) < RedisSampling
             /\ ~SameInfo(h)
             /\ samples' = [samples EXCEPT ![f] = Append(@, h)]
             /\ UNCHANGED agg
    <3>1. samples'[f] = Append(samples[f], h)
      BY <2>3 DEF TypeOK
    <3>2. /\ Len(samples'[f]) = Len(samples[f]) + 1
          /\ \A n \in 1..Len(samples[f]) : samples'[f][n] = samples[f][n]
          /\ samples'[f][Len(samples[f]) + 1] = h
          /\ Range(samples'[f]) = Range(samples[f]) \cup {h}
      <4>1. PICK q \in Seq(Msgs) : q = samples[f]
        BY <1>5
      <4>2. Range(Append(q, h)) = Range(q) \cup {h}
        BY <1>5, AppendRange
      <4>3. /\ Len(Append(q, h)) = Len(q) + 1
            /\ \A n \in 1..Len(q) : Append(q, h)[n] = q[n]
            /\ Append(q, h)[Len(q) + 1] = h
        BY <1>5
      <4> QED
        BY <3>1, <4>1, <4>2, <4>3
    <3>3. \A n \in 1..Len(samples[f]) : InfoOf[samples[f][n]] # InfoOf[h]
      <4>1. DOMAIN samples[f] = 1..Len(samples[f])
        BY <1>5
      <4>2. \A n \in DOMAIN samples[f] : InfoOf[samples[f][n]] # InfoOf[h]
        BY <2>3, Zenon DEF SameInfo
      <4> QED
        BY <4>1, <4>2, Zenon
    <3>4. \A n, k \in 1..Len(samples[f]) : InfoOf[samples[f][n]] = InfoOf[samples[f][k]] => n = k
      BY DEF SampleInv
    <3>5. Len(samples'[f]) <= B
      BY <1>4, <1>5, <2>3, <3>2, AgentAssumption
    <3>7. \A n, k \in 1..Len(samples'[f]) :
            InfoOf[samples'[f][n]] = InfoOf[samples'[f][k]] => n = k
      <4>1. PICK s \in Seq(Msgs) : s = samples[f]
        BY <1>5
      <4>2. PICK t \in Seq(Msgs) : t = samples'[f] /\ t = Append(s, h)
        <5>1. Append(s, h) \in Seq(Msgs) /\ samples'[f] = Append(s, h)
          BY <3>1, <4>1
        <5> QED
          BY <5>1, Zenon
      <4>3. \A n \in 1..Len(s) : InfoOf[s[n]] # InfoOf[h]
        BY <3>3, <4>1
      <4>4. \A n, k \in 1..Len(s) : InfoOf[s[n]] = InfoOf[s[k]] => n = k
        BY <3>4, <4>1
      <4>5. \A n, k \in 1..Len(t) : InfoOf[t[n]] = InfoOf[t[k]] => n = k
        BY <4>2, <4>3, <4>4, AppendDistinct
      <4> QED
        BY <4>2, <4>5
    <3>8. \A g \in FPs : g # f => samples'[g] = samples[g]
      BY <2>3 DEF TypeOK
    <3> QED
      BY Zenon, <1>3, <2>3, <3>2, <3>5, <3>7, <3>8
  <2>4. CASE samples[f] # <<>> /\ Len(samples[f]) >= RedisSampling /\ agg' = f /\ samples' = samples
    <3>1. Len(samples[f]) >= 1
      BY <1>5, <2>4, EmptySeq, LenProperties
    <3> QED
      <4>1. Len(samples[f]) = B
        BY <1>4, <1>5, <2>4, <3>1, AgentAssumption
      <4> QED
        BY <1>5, <2>4, <4>1 DEF SampleInv
  <2> QED
    BY Zenon, <2>1, <2>2, <2>3, <2>4 DEF Recv, RecvCase
<1>7. ListInv'
  BY <1>2, <1>3, Holds DEF ListInv
<1>8. ChanInv'
  <2>1. IsInjective(chan') /\ h \notin Range(chan') /\ Range(chan') \subseteq Range(chan)
    BY <1>3, TailRange DEF TypeOK, ChanInv
  <2> QED
    BY <1>3, <2>1, Holds DEF ChanInv
<1>9. FpInv'
  BY <1>3 DEF FpInv
<1>10. SampleInv'
  <2> SUFFICES ASSUME NEW g \in FPs
               PROVE  /\ Len(samples'[g]) <= B
                      /\ \A m \in Range(samples'[g]) : at'[m] = "gone" /\ FpOf[m] = g
                      /\ \A n, k \in 1..Len(samples'[g]) :
                           InfoOf[samples'[g][n]] = InfoOf[samples'[g][k]] => n = k
    BY DEF SampleInv
  <2>1. CASE g = f
    <3>1. \A m \in Range(samples[f]) : m \in Msgs /\ at[m] = "gone" /\ FpOf[m] = f
      BY Holds DEF SampleInv
    <3>2. \A m \in Range(samples[f]) : at'[m] = "gone" /\ FpOf[m] = f
      BY <1>3, <3>1
    <3>3. \A m \in Range(samples'[f]) : at'[m] = "gone" /\ FpOf[m] = f
      BY <1>3, <1>6, <3>2
    <3> QED
      BY <1>6, <2>1, <3>3, Zenon
  <2>2. CASE g # f
    BY <1>2, <1>3, <1>6, <2>2, Holds DEF SampleInv
  <2> QED
    BY <2>1, <2>2
<1>11. BatchInv'
  <2>1. \A n \in DOMAIN batches : h \notin Range(batches[n])
    BY <1>2 DEF BatchInv
  <2>2. \A g \in FPs : Range(samples'[g]) \subseteq Range(samples[g]) \cup {h}
    BY <1>6
  <2> QED
    BY Zenon, <1>3, <2>1, <2>2, Holds DEF BatchInv
<1>12. AggInv'
  <2>1. agg' # Blank => agg' \in FPs /\ Len(samples'[agg']) = Promise!BatchLen
    BY <1>6, Zenon
  <2> QED
    BY <1>3, <2>1, Zenon DEF AggInv
<1> QED
  BY <1>7, <1>8, <1>9, <1>10, <1>11, <1>12

\* DelKey moves no statement, and the entry stays as it is.
LEMMA DelKeyFlow ==
  ASSUME TypeOK, Flow, DelKey
  PROVE  Flow'
<1> USE DEF Flow
<1>1. UNCHANGED <<list, at, chan, samples, batches>> /\ agg # Blank /\ handing' = agg /\ agg' = Blank
  BY Zenon DEF DelKey
<1>2. ListInv' /\ ChanInv' /\ FpInv' /\ SampleInv' /\ BatchInv'
  BY <1>1 DEF ListInv, ChanInv, FpInv, SampleInv, BatchInv
<1>3. AggInv'
  BY <1>1, Zenon DEF AggInv
<1> QED
  BY <1>2, <1>3

\* A hand-over takes a whole entry out of the aggregator.
LEMMA HandOverFlow ==
  ASSUME TypeOK, Flow, HandOver
  PROVE  Flow'
<1> USE DEF Flow
<1>1. handing \in FPs /\ samples[handing] \in Seq(Msgs) /\ UNCHANGED <<list, at, chan, agg>> /\ handing' = Blank
  BY DEF TypeOK, HandOver, redisVars
<1>2. /\ samples'[handing] = <<>> /\ Len(<<>>) = 0 /\ Range(<<>>) = {}
      /\ \A g \in FPs : g # handing => samples'[g] = samples[g]
  BY <1>1 DEF TypeOK, HandOver, Evict, Range
<1>3. ListInv' /\ ChanInv' /\ FpInv'
  BY <1>1 DEF ListInv, ChanInv, FpInv
<1>6. AggInv'
  BY <1>1, <1>2, Zenon DEF TypeOK, AggInv, HandOver
<1>4. SampleInv'
  <2>1. 0 <= Promise!BatchLen
    BY AgentAssumption DEF Promise!BatchLen
  <2> SUFFICES ASSUME NEW g \in FPs
               PROVE  /\ Len(samples'[g]) <= Promise!BatchLen
                      /\ \A m \in Range(samples'[g]) : at[m] = "gone" /\ FpOf[m] = g
                      /\ \A n, k \in 1..Len(samples'[g]) :
                           InfoOf[samples'[g][n]] = InfoOf[samples'[g][k]] => n = k
    BY <1>1 DEF SampleInv
  <2>2. CASE g = handing
    BY <1>2, <2>1, <2>2
  <2>3. CASE g # handing
    BY <1>2, <2>3 DEF SampleInv
  <2> QED
    BY <2>2, <2>3
<1>5. BatchInv'
  <2>1. /\ DOMAIN batches' = DOMAIN batches \cup {Len(batches) + 1}
        /\ \A n \in DOMAIN batches : batches'[n] = batches[n]
        /\ batches'[Len(batches) + 1] = samples[handing]
    BY <1>1 DEF TypeOK, HandOver
  <2>2. \A g \in FPs : \A m \in Range(samples'[g]) : g # handing /\ m \in Range(samples[g])
    BY <1>2
  <2>3. ASSUME NEW m \in Range(samples[handing]), NEW g \in FPs, m \in Range(samples'[g]) PROVE FALSE
    <3>1. g # handing /\ m \in Range(samples[g])
      BY <2>2, <2>3
    <3>2. FpOf[m] = g /\ FpOf[m] = handing
      BY <1>1, <3>1 DEF SampleInv
    <3> QED
      BY <3>1, <3>2
  <2>4. ASSUME NEW n \in DOMAIN batches', NEW m \in Range(batches'[n])
        PROVE  at[m] = "gone" /\ \A g \in FPs : m \notin Range(samples'[g])
    <3>1. CASE n \in DOMAIN batches
      BY <2>1, <2>2, <2>4, <3>1 DEF BatchInv
    <3>2. CASE n = Len(batches) + 1
      BY <1>1, <2>1, <2>3, <2>4, <3>2 DEF SampleInv
    <3> QED
      BY <2>1, <3>1, <3>2
  <2> QED
    BY <1>1, <2>4 DEF BatchInv
<1> QED
  BY <1>3, <1>4, <1>5, <1>6

\* A panic empties channel and aggregator; the lists survive in Redis.
LEMMA CrashFlow ==
  ASSUME TypeOK, Flow, Crash
  PROVE  Flow'
<1> USE DEF Flow
<1>1. /\ \A n \in Msgs : at[n] \in {"listed", "gone"} => at'[n] = at[n]
      /\ \A n \in Msgs : at'[n] \in {"outside", "listed", "gone"}
      /\ UNCHANGED <<list, batches>>
      /\ chan' = <<>> /\ agg' = Blank /\ handing' = Blank /\ \A f \in FPs : samples'[f] = <<>>
  BY DEF Crash, redisVars
<1>2. IsInjective(<<>>) /\ Range(<<>>) = {} /\ Len(<<>>) = 0
  BY DEF IsInjective, Range
<1>3. ListInv'
  BY <1>1, Holds DEF ListInv
<1>4. ChanInv' /\ FpInv' /\ AggInv'
  BY <1>1, <1>2 DEF ChanInv, FpInv, AggInv
<1>5. SampleInv'
  <2>1. 0 <= Promise!BatchLen
    BY AgentAssumption DEF Promise!BatchLen
  <2> QED
    BY <1>1, <1>2, <2>1 DEF SampleInv
<1>6. BatchInv'
  BY <1>1, <1>2, Holds DEF BatchInv
<1> QED
  BY <1>3, <1>4, <1>5, <1>6

\* Every step of the agent keeps Flow.
LEMMA NextFlow == IInv /\ [Next]_vars => Flow'
<1> SUFFICES ASSUME TypeOK, Flow, [Next]_vars PROVE Flow'
  BY DEF IInv
<1>1. ASSUME NEW l \in Lists, SendData(l) PROVE Flow'
  <2>1. CASE SendDataPop(l)
    BY Zenon, <2>1, PopFlow DEF SendDataPop, histVars
  <2>2. CASE SendDataEnd(l)
    BY <2>2, QuietFlow DEF SendDataEnd, flowVars, redisVars, histVars
  <2>3. CASE SendDataFault(l)
    <3>1. CASE UNCHANGED <<list, at>>
      BY <2>3, <3>1, QuietFlow DEF SendDataFault, flowVars
    <3>2. CASE ~UNCHANGED <<list, at>>
      BY <2>3, <3>2, PopFlow DEF SendDataFault
    <3> QED
      BY <3>1, <3>2
  <2> QED
    BY <1>1, <2>1, <2>2, <2>3 DEF SendData
<1>2. ASSUME NEW c \in Checkers, Tick(c) \/ CheckBranch(c) \/ CheckBranchFault(c)
      PROVE  Flow'
  BY <1>2, QuietFlow DEF Tick, CheckBranch, CheckBranchFault, flowVars, redisVars, histVars
<1>3. ASSUME NEW m \in Msgs, Import(m) PROVE Flow'
  <2> USE DEF Places
  <2>1. CASE ExcuteUnique(m)
    BY <2>1, MoveFlow DEF ExcuteUnique, redisVars, histVars
  <2>2. CASE ImportBlank(m)
    BY <2>2, MoveFlow DEF ImportBlank, redisVars, histVars
  <2>3. CASE ImportPush(m)
    BY <2>3, MoveFlow, AgentAssumption DEF ImportPush, histVars
  <2>4. CASE ImportPushFault(m)
    BY <2>4, MoveFlow, AgentAssumption DEF ImportPushFault
  <2>5. CASE ImportSetKey(m)
    BY <2>5, MoveFlow DEF ImportSetKey, Flow, FpInv, histVars
  <2>6. CASE ImportSetKeyFault(m)
    BY <2>6, MoveFlow DEF ImportSetKeyFault, Flow, FpInv
  <2>7. CASE ImportGetKey(m)
    BY <2>7, MoveFlow DEF ImportGetKey, Flow, FpInv, redisVars, histVars
  <2>8. CASE ImportGetKeyFault(m)
    BY <2>8, MoveFlow DEF ImportGetKeyFault, redisVars
  <2>9. CASE ImportSend(m)
    BY <2>9, SendFlow
  <2> QED
    BY <1>3, <2>1, <2>2, <2>3, <2>4, <2>5, <2>6, <2>7, <2>8, <2>9 DEF Import
<1>4. ASSUME NEW i \in outbox, Post(i) \/ PostFault(i) PROVE Flow'
  BY <1>4, QuietFlow DEF Post, PostFault, flowVars, redisVars
<1>5. CASE UNCHANGED vars
  BY <1>5, QuietFlow DEF flowVars, vars, redisVars, goVars, histVars
<1> QED
  BY <1>1, <1>2, <1>3, <1>4, <1>5, CollectFlow, RecvFlow, DelKeyFlow, HandOverFlow, CrashFlow
     DEF Next, curlURL

\* The inductive invariant holds in every reachable state.
LEMMA Invariance == Spec => []IInv
<1>1. Init => IInv
  BY InitTypes, InitFlow DEF IInv
<1>2. IInv /\ [Next]_vars => IInv'
  BY NextTypes, NextFlow DEF IInv
<1> QED
  BY <1>1, <1>2, PTL DEF Spec

-----------------------------------------------------------------------------

\* The types hold in every reachable state; with them, that SqlExplain never
\* holds more than its capacity and that importToRedis never queues a blank
\* fingerprint nor opens its sampling.
THEOREM AgentTypes == Spec => []TypeOK
BY Invariance, PTL DEF IInv

\* Only NewExplainData touches the batches.
LEMMA OnlyHandOver == [Next]_vars /\ ~HandOver => UNCHANGED batches
BY Zenon DEF Next, vars, redisVars, goVars, histVars, Collect, Import, ExcuteUnique, ImportBlank,
       ImportPush, ImportPushFault, ImportSetKey, ImportSetKeyFault, ImportGetKey,
       ImportGetKeyFault, ImportSend, SendData, SendDataPop, SendDataEnd, SendDataFault,
       Tick, CheckBranch, CheckBranchFault, Recv, DelKey, curlURL, Post, PostFault, Crash
=============================================================================
