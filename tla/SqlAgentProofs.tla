--------------------------- MODULE SqlAgentProofs ---------------------------
(***************************************************************************)
(* The agent keeps its promise to the server and loses no fingerprint,     *)
(* for any statements, branches, lists, channel capacity and number of     *)
(* samples, with any number of failed calls and panics.                    *)
(***************************************************************************)
EXTENDS SqlAgentFlow

\* NewExplainData hands over a sound batch of statements never handed over before.
LEMMA HandOverKeepsPromise == IInv /\ HandOver => Promise!Next
<1> SUFFICES ASSUME TypeOK, Flow, HandOver PROVE Promise!Next
  BY DEF IInv
<1> USE DEF Flow
<1>1. handing \in FPs /\ samples[handing] \in Seq(Msgs) /\ Len(samples[handing]) = Promise!BatchLen
  BY DEF TypeOK, AggInv, HandOver
<1>2. /\ Len(batches') = Len(batches) + 1
      /\ batches' = Append(batches, samples[handing])
      /\ batches'[Len(batches')] = samples[handing]
  BY <1>1 DEF TypeOK, HandOver
<1>3. Promise!SoundBatch(samples[handing])
  <2>1. \A n \in 1..Len(samples[handing]) : FpOf[samples[handing][n]] = handing
    BY <1>1 DEF SampleInv, Range
  <2> QED
    BY <1>1, <2>1 DEF Promise!SoundBatch, SampleInv
<1>4. Promise!Fresh(samples[handing])
  <2>1. \A n \in DOMAIN batches : Range(samples[handing]) \cap Range(batches[n]) = {}
    BY <1>1 DEF BatchInv
  <2> QED
    BY <2>1 DEF Promise!Fresh, Promise!Range, Range
<1> QED
  BY <1>2, <1>3, <1>4 DEF Promise!Next

\* The agent implements module Sampling: full batches of one fingerprint with
\* different texts, and no statement in two batches, whatever fails or panics.
THEOREM AgentImplementsSampling == Spec => AgentKeepsPromise
<1>1. Init => Promise!Init
  BY DEF Init, Promise!Init
<1>2. IInv /\ [Next]_vars => [Promise!Next]_batches
  BY HandOverKeepsPromise, OnlyHandOver
<1> QED
  BY <1>1, <1>2, Invariance, PTL DEF Spec, AgentKeepsPromise, Promise!Spec

-----------------------------------------------------------------------------

\* The sampling of f is or was open.
Opened(f) == f \in key \cup {handing} \/ BatchesOf(f) # {}

\* Statements of f are on their way to the aggregator or in its map.
Wanted(f) ==
  \/ samples[f] # <<>>
  \/ \E m \in Msgs : FpOf[m] = f /\ at[m] \in {"send", "chan"}

\* A hand-over leaves a batch of the fingerprint it closes.
LEMMA HandOverLeavesBatch ==
  ASSUME IInv, HandOver
  PROVE  \A f \in FPs : f = handing \/ BatchesOf(f) # {} => BatchesOf(f)' # {}
<1> USE DEF IInv, Flow
<1>1. handing \in FPs /\ samples[handing] \in Seq(Msgs) /\ Len(samples[handing]) >= 1
  <2>1. handing \in FPs /\ samples[handing] \in Seq(Msgs) /\ Len(samples[handing]) = Promise!BatchLen
    BY DEF TypeOK, AggInv, HandOver
  <2>2. Promise!BatchLen >= 1
    BY AgentAssumption DEF Promise!BatchLen
  <2> QED
    BY <2>1, <2>2
<1>2. FpOf[samples[handing][1]] = handing
  <2> PICK s \in Seq(Msgs) : s = samples[handing]
    BY <1>1
  <2>1. \A m \in Range(s) : FpOf[m] = handing
    BY <1>1 DEF SampleInv
  <2>2. s[1] \in Range(s)
    BY <1>1 DEF Range
  <2> QED
    BY <2>1, <2>2
<1>3. /\ Len(batches) + 1 \in DOMAIN batches' /\ batches'[Len(batches) + 1] = samples[handing]
      /\ DOMAIN batches \subseteq DOMAIN batches'
      /\ \A n \in DOMAIN batches : batches'[n] = batches[n]
  BY <1>1 DEF TypeOK, HandOver
<1>4. handing \in FPs /\ \E n \in DOMAIN batches' : FpOf[batches'[n][1]] = handing
  BY <1>1, <1>2, <1>3
<1>5. ASSUME NEW f \in FPs, NEW n \in DOMAIN batches, FpOf[batches[n][1]] = f
      PROVE  \E k \in DOMAIN batches' : FpOf[batches'[k][1]] = f
  BY <1>3, <1>5
<1> QED
  BY <1>4, <1>5 DEF BatchesOf

\* A sampling that was opened counts as opened for ever, since a key is deleted
\* only for a batch, unless a panic strikes between DelKey and go curlURL.
LEMMA OpenedStays ==
  ASSUME IInv, [Next]_vars, NEW f \in FPs, Opened(f)
  PROVE  Opened(f)' \/ (Crash /\ f \in orphaned')
<1>1. f # Blank
  BY AgentAssumption
<1>2. CASE DelKey
  <2>1. handing = Blank /\ handing' = agg /\ batches' = batches
    BY <1>2, Zenon DEF IInv, Flow, AggInv, DelKey
  <2>2. f \in key => f \in key' \/ f = agg
    BY <1>2, Zenon DEF DelKey
  <2> QED
    BY <1>1, <2>1, <2>2, Zenon DEF Opened, BatchesOf
<1>3. CASE HandOver
  <2>1. key' = key
    BY <1>3, Zenon DEF HandOver, redisVars
  <2> QED
    BY <1>3, <2>1, HandOverLeavesBatch, Zenon DEF Opened
<1>4. CASE Crash
  <2>1. key' = key /\ batches' = batches
    BY <1>4, Zenon DEF Crash, redisVars
  <2>2. f = handing => f \in key' \/ f \in orphaned'
    BY <1>1, <1>4, <2>1, Zenon DEF Crash
  <2> QED
    BY <1>4, <2>1, <2>2, Zenon DEF Opened, BatchesOf
<1>5. CASE ~DelKey /\ ~HandOver /\ ~Crash
  <2>1. key \subseteq key' /\ handing' = handing
    BY Zenon, <1>5
       DEF Next, vars, redisVars, goVars, Collect, Import, ExcuteUnique, ImportBlank, ImportPush,
           ImportPushFault, ImportSetKey, ImportSetKeyFault, ImportGetKey, ImportGetKeyFault,
           ImportSend, SendData, SendDataPop, SendDataEnd, SendDataFault, Tick, CheckBranch,
           CheckBranchFault, Recv, curlURL, Post, PostFault
  <2>2. batches' = batches
    BY <1>5, OnlyHandOver, Zenon
  <2> QED
    BY <2>1, <2>2, Zenon DEF Opened, BatchesOf
<1> QED
  BY <1>2, <1>3, <1>4, <1>5, Zenon

\* A statement enters the way to the aggregator only through GetKey, and what
\* the aggregator holds came that way.
LEMMA WantedStep ==
  ASSUME IInv, [Next]_vars, NEW f \in FPs, Wanted(f)', ~Wanted(f)
  PROVE  f \in key
<1> USE DEF IInv, Flow
<1>1. \A m \in Msgs : FpOf[m] = f => at[m] \notin {"send", "chan"}
  BY DEF Wanted
<1>2. samples[f] = <<>>
  BY DEF Wanted
<1>3. ASSUME NEW m \in Msgs, Collect(m) PROVE FALSE
  BY <1>1, <1>2, <1>3 DEF TypeOK, Wanted, Collect, Moved
<1>4. ASSUME NEW l \in Lists, SendData(l) PROVE FALSE
  <2>1. samples' = samples
    BY <1>4 DEF SendData, SendDataPop, SendDataEnd, SendDataFault
  <2>2. list[l] # <<>> => Head(list[l]) \in Msgs
    BY TailRange DEF TypeOK
  <2>3. \A m \in Msgs : at'[m] \in {at[m], "gone", "unique"}
    BY <1>4, <2>2 DEF TypeOK, SendData, SendDataPop, SendDataEnd, SendDataFault, Moved
  <2> QED
    BY <1>1, <1>2, <2>1, <2>3 DEF Wanted
<1>5. ASSUME NEW c \in Checkers, Tick(c) \/ CheckBranch(c) \/ CheckBranchFault(c)
      PROVE  FALSE
  BY <1>1, <1>2, <1>5 DEF Wanted, Tick, CheckBranch, CheckBranchFault
<1>6. ASSUME NEW m \in Msgs, Import(m) PROVE f \in key
  <2>1. samples' = samples /\ batches' = batches
    BY <1>6 DEF Import, ExcuteUnique, ImportBlank, ImportPush, ImportPushFault, ImportSetKey,
                ImportSetKeyFault, ImportGetKey, ImportGetKeyFault, ImportSend, histVars
  <2>2. \A n \in Msgs : n # m => at'[n] = at[n]
    BY <1>6 DEF TypeOK, Import, ExcuteUnique, ImportBlank, ImportPush, ImportPushFault,
                ImportSetKey, ImportSetKeyFault, ImportGetKey, ImportGetKeyFault, ImportSend, Moved
  <2>3. FpOf[m] = f /\ at'[m] \in {"send", "chan"}
    BY <1>1, <1>2, <2>1, <2>2 DEF Wanted
  <2>4. at[m] \notin {"send", "chan"}
    BY <1>1, <2>3
  <2> QED
    BY <1>6, <2>3, <2>4
       DEF TypeOK, Import, ExcuteUnique, ImportBlank, ImportPush, ImportPushFault, ImportSetKey,
           ImportSetKeyFault, ImportGetKey, ImportGetKeyFault, ImportSend, Moved
<1>7. ASSUME Recv PROVE FALSE
  <2>1. Head(chan) \in Msgs /\ at[Head(chan)] = "chan"
    BY <1>7, TailRange DEF TypeOK, Recv, ChanInv
  <2>2. FpOf[Head(chan)] \in FPs /\ FpOf[Head(chan)] # f
    BY <1>1, <2>1 DEF FpInv
  <2>3. samples'[f] = samples[f]
    BY <1>7, <2>2 DEF TypeOK, Recv, RecvCase
  <2>4. \A m \in Msgs : at'[m] \in {at[m], "gone"}
    BY <1>7, <2>1 DEF TypeOK, Recv, Moved
  <2> QED
    BY <1>1, <1>2, <2>3, <2>4 DEF Wanted
<1>8. ASSUME HandOver PROVE FALSE
  <2>1. samples'[f] = <<>>
    BY <1>2, <1>8 DEF TypeOK, HandOver, Evict
  <2> QED
    BY <1>1, <1>8, <2>1, Zenon DEF Wanted, HandOver
<1>12. ASSUME DelKey PROVE FALSE
  BY <1>1, <1>2, <1>12, Zenon DEF Wanted, DelKey
<1>9. ASSUME NEW i \in outbox, Post(i) \/ PostFault(i) PROVE FALSE
  BY <1>1, <1>2, <1>9 DEF Wanted, Post, PostFault
<1>10. ASSUME Crash PROVE FALSE
  BY <1>10 DEF Wanted, Crash
<1>11. CASE UNCHANGED vars
  BY <1>1, <1>2, <1>11 DEF Wanted, vars, goVars
<1> QED
  BY <1>3, <1>4, <1>5, <1>6, <1>7, <1>8, <1>9, <1>10, <1>11, <1>12 DEF Next, curlURL

\* A statement is never sampled unless the sampling of its fingerprint was opened:
\* the check of GetKey is never overtaken by anything but a batch.
THEOREM SampledOnlyBehindGate == Spec => []SampledBehindGate
<1>1. Init => SampledBehindGate
  BY DEF Init, SampledBehindGate
<1>2. IInv /\ SampledBehindGate /\ [Next]_vars => SampledBehindGate'
  <2> SUFFICES ASSUME IInv, SampledBehindGate, [Next]_vars, NEW f \in FPs, Wanted(f)'
               PROVE  Opened(f)'
    BY DEF SampledBehindGate, Wanted, Opened
  <2>1. Wanted(f) => Opened(f)
    BY DEF SampledBehindGate, Wanted, Opened
  <2>2. ~Wanted(f) => Opened(f)
    BY WantedStep, Zenon DEF Opened
  <2>3. ~Crash
    BY DEF Wanted, Crash
  <2> QED
    BY <2>1, <2>2, <2>3, OpenedStays, Zenon
<1> QED
  BY <1>1, <1>2, Invariance, PTL DEF Spec

\* A goroutine that will open the sampling of f for branch b.
Opening(b, f) == \E m \in Msgs : at[m] = "setkey" /\ FpOf[m] = f /\ BranchOf[m] = b

\* Only UniquePush filters a further fingerprint, and its goroutine goes on to
\* SetKey, or the reply was lost.
LEMMA FilteredStep ==
  ASSUME IInv, [Next]_vars, NEW b \in Branches, NEW f \in FPs, f \in uqSet'[b], f \notin uqSet[b]
  PROVE  f \in orphaned' \/ Opening(b, f)'
<1>1. ~UNCHANGED uqSet
  OBVIOUS
<1>2. PICK m \in Msgs : ImportPush(m) \/ ImportPushFault(m)
  BY Zenon, <1>1
     DEF Next, vars, redisVars, Collect, Import, ExcuteUnique, ImportBlank, ImportSetKey,
         ImportSetKeyFault, ImportGetKey, ImportGetKeyFault, ImportSend, SendData,
         SendDataPop, SendDataEnd, SendDataFault, Tick, CheckBranch, CheckBranchFault,
         Recv, DelKey, HandOver, curlURL, Post, PostFault, Crash
<1>3. UQ!UniquePush(BranchOf[m], FpOf[m])
  BY <1>1, <1>2 DEF ImportPush, ImportPushFault
<1>4. b = BranchOf[m] /\ f = FpOf[m]
  BY <1>3, AgentAssumption DEF IInv, TypeOK, UQ!TypeOK, UQ!UniquePush
<1>5. UQ!PushResp(BranchOf[m], FpOf[m]) = 1
  BY <1>4 DEF UQ!PushResp
<1>6. CASE ImportPush(m)
  BY <1>4, <1>5, <1>6 DEF IInv, TypeOK, ImportPush, Moved, Opening
<1>7. CASE ImportPushFault(m)
  BY <1>1, <1>4, <1>5, <1>7 DEF ImportPushFault
<1> QED
  BY <1>2, <1>6, <1>7

\* The goroutine between UniquePush and SetKey opens the sampling, or its failure
\* or the panic that ended it is on record.
LEMMA OpeningStep ==
  ASSUME IInv, [Next]_vars, NEW b \in Branches, NEW f \in FPs, Opening(b, f)
  PROVE  Opening(b, f)' \/ f \in key' \cup orphaned'
<1>1. PICK m \in Msgs : at[m] = "setkey" /\ FpOf[m] = f /\ BranchOf[m] = b
  BY DEF Opening
<1>2. CASE at'[m] = "setkey"
  BY <1>1, <1>2 DEF Opening
<1>3. CASE at'[m] # "setkey"
  <2>1. ASSUME NEW n \in Msgs, Collect(n) PROVE FALSE
    BY <1>1, <1>3, <2>1 DEF IInv, TypeOK, Collect, Moved
  <2>2. ASSUME NEW l \in Lists, SendData(l) PROVE FALSE
    <3>1. list[l] # <<>> => Head(list[l]) \in Msgs /\ at[Head(list[l])] = "listed"
      BY TailRange DEF IInv, Flow, TypeOK, ListInv
    <3> QED
      BY <1>1, <1>3, <2>2, <3>1
         DEF IInv, TypeOK, SendData, SendDataPop, SendDataEnd, SendDataFault, Moved
  <2>3. ASSUME NEW c \in Checkers, Tick(c) \/ CheckBranch(c) \/ CheckBranchFault(c)
        PROVE  FALSE
    BY <1>1, <1>3, <2>3 DEF Tick, CheckBranch, CheckBranchFault
  <2>4. ASSUME NEW n \in Msgs, Import(n) PROVE f \in key' \cup orphaned'
    <3>1. n = m
      BY Zenon, <1>1, <1>3, <2>4
         DEF IInv, TypeOK, Import, ExcuteUnique, ImportBlank, ImportPush, ImportPushFault,
             ImportSetKey, ImportSetKeyFault, ImportGetKey, ImportGetKeyFault, ImportSend, Moved
    <3>2. ImportSetKey(m) \/ ImportSetKeyFault(m)
      BY Zenon, <1>1, <2>4, <3>1
         DEF Import, ExcuteUnique, ImportBlank, ImportPush, ImportPushFault, ImportGetKey,
             ImportGetKeyFault, ImportSend
    <3> QED
      BY <1>1, <3>2 DEF ImportSetKey, ImportSetKeyFault
  <2>5. ASSUME Recv PROVE FALSE
    <3>1. Head(chan) \in Msgs /\ at[Head(chan)] = "chan"
      BY <2>5, TailRange DEF IInv, Flow, TypeOK, Recv, ChanInv
    <3> QED
      BY Zenon, <1>1, <1>3, <2>5, <3>1 DEF IInv, TypeOK, Recv, Moved
  <2>6. ASSUME DelKey \/ HandOver PROVE FALSE
    BY Zenon, <1>1, <1>3, <2>6 DEF DelKey, HandOver
  <2>7. ASSUME NEW i \in outbox, Post(i) \/ PostFault(i) PROVE FALSE
    BY Zenon, <1>1, <1>3, <2>7 DEF Post, PostFault
  <2>8. ASSUME Crash PROVE f \in orphaned'
    BY <1>1, <2>8 DEF Crash
  <2>9. CASE UNCHANGED vars
    BY <1>1, <1>3, <2>9 DEF vars, goVars
  <2> QED
    BY <2>1, <2>2, <2>3, <2>4, <2>5, <2>6, <2>7, <2>8, <2>9 DEF Next, curlURL
<1> QED
  BY <1>2, <1>3

\* A fingerprint that importToRedis filters from now on has its sampling opened,
\* will have, or the failure that prevented it is on record: nothing loses it but
\* a failed call or a panic between UniquePush and SetKey, and a panic between
\* DelKey and go curlURL (NewExplainData).
THEOREM GateNeverLost == Spec => []NoLostGate
<1>1. Init => NoLostGate
  BY DEF Init, UQ!Init, NoLostGate
<1>2. IInv /\ NoLostGate /\ [Next]_vars => NoLostGate'
  <2> SUFFICES ASSUME IInv, NoLostGate, [Next]_vars, IInv',
                      NEW b \in Branches, NEW f \in uqSet'[b]
               PROVE  Opened(f)' \/ f \in orphaned' \/ Opening(b, f)'
    BY NextTypes, NextFlow DEF IInv, NoLostGate, Opened, Opening
  <2>1. f \in FPs
    BY DEF IInv, TypeOK, UQ!TypeOK
  <2>2. CASE f \notin uqSet[b]
    BY <2>1, <2>2, FilteredStep
  <2>3. CASE f \in uqSet[b]
    <3>1. Opened(f) \/ f \in orphaned \/ Opening(b, f)
      BY <2>3 DEF NoLostGate, Opened, Opening
    <3>2. orphaned \subseteq orphaned'
      BY Zenon DEF Next, vars, histVars, Collect, Import, ExcuteUnique, ImportBlank, ImportPush,
             ImportPushFault, ImportSetKey, ImportSetKeyFault, ImportGetKey,
             ImportGetKeyFault, ImportSend, SendData, SendDataPop, SendDataEnd,
             SendDataFault, Tick, CheckBranch, CheckBranchFault, Recv, DelKey, HandOver,
             curlURL, Post, PostFault, Crash
    <3> QED
      BY <2>1, <3>1, <3>2, OpenedStays, OpeningStep, Zenon DEF Opened
  <2> QED
    BY <2>2, <2>3
<1> QED
  BY <1>1, <1>2, Invariance, PTL DEF Spec
=============================================================================
