--------------------------- MODULE SqlServerTypes ---------------------------
(***************************************************************************)
(* The server's types, and where a body can be: the first half of its      *)
(* inductive invariant.                                                    *)
(***************************************************************************)
EXTENDS SqlServer, ListLemmas

\* A body waits once in the Redis list and once in the channel.
ListInv == IsInjective(list) /\ \A r \in Range(list) : at[r] = "listed"
ChanInv == IsInjective(chan) /\ \A r \in Range(chan) : at[r] = "chan"

FlowInv == TypeOK /\ ListInv /\ ChanInv

-----------------------------------------------------------------------------

\* UniquePush keeps the types of a branch's queue.
LEMMA PushTypes ==
  ASSUME TypeOK, NEW r \in Reqs, UQ!UniquePush(BranchOf[r], FpOf[r])
  PROVE  UQ!TypeOK'
<1>1. BranchOf[r] \in Branches /\ FpOf[r] \in FPs
  BY ServerAssumption
<1>2. Append(uq[BranchOf[r]], FpOf[r]) \in Seq(FPs)
  BY <1>1, AppendRange DEF TypeOK, UQ!TypeOK
<1> QED
  BY <1>1, <1>2 DEF TypeOK, UQ!TypeOK, UQ!UniquePush

\* Steps that leave the queues alone keep their types.
LEMMA QueueTypesKept == TypeOK /\ UNCHANGED <<uq, uqSet>> => UQ!TypeOK'
BY DEF TypeOK, UQ!TypeOK

\* What a panic leaves has the right types.
LEMMA RestartTypes ==
  ASSUME TypeOK, Restart
  PROVE  /\ at' \in [Reqs -> Places] /\ kafka' \in [Reqs -> {"none", "decode", "send"}]
         /\ cost' \in [Reqs -> BOOLEAN] /\ flag' \in [Reqs -> {0, 1}]
         /\ pops' \in 0..ExplainDBNumber /\ chan' \in Seq(Reqs) /\ Len(chan') <= ChanCap
         /\ unsaved' \in SUBSET (Branches \X FPs) /\ panics' \in Nat
<1>1. \A r \in Reqs : KeyOf(r) \in Branches \X FPs
  BY ServerAssumption DEF KeyOf
<1>2. unsaved' \in SUBSET (Branches \X FPs)
  BY <1>1 DEF TypeOK, Restart
<1>3. chan' \in Seq(Reqs) /\ Len(chan') <= ChanCap
  BY ServerAssumption DEF Restart
<1>4. at' \in [Reqs -> Places]
  BY DEF TypeOK, Restart, Places
<1>5. pops' \in 0..ExplainDBNumber /\ panics' \in Nat
  BY ServerAssumption DEF TypeOK, Restart
<1> QED
  BY <1>2, <1>3, <1>4, <1>5 DEF TypeOK, Restart

\* Every step of the goroutine that carries a body keeps the types.
LEMMA CarryTypes ==
  ASSUME TypeOK, NEW r \in Reqs, Carry(r)
  PROVE  TypeOK'
<1>1. KeyOf(r) \in Branches \X FPs
  BY ServerAssumption DEF KeyOf
<1>2. Fault => faults' \in 0..MaxFaults
  BY ServerAssumption DEF TypeOK, Fault
<1>3. \A p \in Places : Moved(r, p) => at' \in [Reqs -> Places]
  BY DEF TypeOK, Moved
<1>4. Append(list, r) \in Seq(Reqs)
  BY DEF TypeOK
<1>5. Append(rows, RowOf(r)) \in Seq([req : Reqs, flag : {0, 1}])
  BY DEF TypeOK, RowOf
<1>6. CASE ListPush(r)
  BY <1>3, <1>4, <1>6, QueueTypesKept DEF TypeOK, ListPush, Places, histVars
<1>7. CASE ListPushFault(r)
  <2>1. list' \in Seq(Reqs) /\ at' \in [Reqs -> Places]
    BY <1>3, <1>4, <1>7 DEF TypeOK, ListPushFault, Places
  <2> QED
    BY <1>2, <1>7, <2>1, QueueTypesKept DEF TypeOK, ListPushFault
<1>8. CASE ExcuteDbSql(r)
  <2>1. cost' \in [Reqs -> BOOLEAN]
    <3>1. cost \in [Reqs -> BOOLEAN] /\ [cost EXCEPT ![r] = TRUE] \in [Reqs -> BOOLEAN]
      BY DEF TypeOK
    <3>2. cost' \in {cost, [cost EXCEPT ![r] = TRUE]}
      BY <1>8 DEF ExcuteDbSql
    <3> QED
      BY <3>1, <3>2
  <2>2. at' \in [Reqs -> Places]
    BY <1>3, <1>8 DEF ExcuteDbSql, Places
  <2>3. faults' \in 0..MaxFaults
    BY <1>2, <1>8 DEF TypeOK, ExcuteDbSql
  <2> QED
    BY <1>8, <2>1, <2>2, <2>3, QueueTypesKept DEF TypeOK, ExcuteDbSql, storeVars
<1>9. CASE ExcuteDbSqlPanic(r) \/ InsertPanic(r)
  <2>1. Restart /\ UNCHANGED storeVars /\ faults' \in 0..MaxFaults
    BY <1>2, <1>9 DEF TypeOK, ExcuteDbSqlPanic, InsertPanic
  <2> QED
    BY <2>1, RestartTypes, QueueTypesKept DEF TypeOK, storeVars
<1>10. CASE GetScore(r)
  <2>1. chan' \in Seq(Reqs) /\ Len(chan') <= ChanCap
    BY <1>10, ServerAssumption DEF TypeOK, GetScore
  <2>2. at' \in [Reqs -> Places]
    BY <1>3, <1>10 DEF GetScore, Places
  <2> QED
    BY <1>10, <2>1, <2>2, QueueTypesKept DEF TypeOK, GetScore, storeVars, histVars
<1>11. CASE Mark(r)
  <2>1. flag' \in [Reqs -> {0, 1}]
    BY <1>11 DEF TypeOK, Mark, UQ!PushResp
  <2>2. at' \in [Reqs -> Places]
    BY <1>3, <1>11 DEF Mark, Places
  <2>3. UQ!TypeOK'
    BY <1>11, PushTypes DEF Mark
  <2> QED
    BY <1>11, <2>1, <2>2, <2>3 DEF TypeOK, Mark, histVars
<1>12. CASE MarkFault(r)
  <2>1. flag' \in [Reqs -> {0, 1}]
    BY <1>12 DEF TypeOK, MarkFault
  <2>2. at' \in [Reqs -> Places]
    BY <1>3, <1>12 DEF MarkFault, Places
  <2>3. UQ!TypeOK'
    BY <1>12, PushTypes, QueueTypesKept DEF MarkFault
  <2>4. unsaved' \in SUBSET (Branches \X FPs)
    BY <1>1, <1>12 DEF TypeOK, MarkFault
  <2> QED
    BY <1>2, <1>12, <2>1, <2>2, <2>3, <2>4 DEF TypeOK, MarkFault
<1>13. CASE Insert(r)
  <2>1. rows' \in Seq([req : Reqs, flag : {0, 1}])
    <3>1. rows \in Seq([req : Reqs, flag : {0, 1}])
      BY DEF TypeOK
    <3>2. rows' = Append(rows, RowOf(r)) \/ rows' = rows
      BY <1>13 DEF Insert
    <3> QED
      BY <1>5, <3>1, <3>2
  <2>2. unsaved' \in SUBSET (Branches \X FPs)
    <3>1. unsaved \in SUBSET (Branches \X FPs)
      BY DEF TypeOK
    <3>2. unsaved' = unsaved \cup {KeyOf(r)} \/ unsaved' = unsaved
      BY <1>13 DEF Insert
    <3> QED
      BY <1>1, <3>1, <3>2
  <2>3. at' \in [Reqs -> Places]
    BY <1>3, <1>13 DEF Insert, Places
  <2> QED
    BY <1>13, <2>1, <2>2, <2>3, QueueTypesKept DEF TypeOK, Insert
<1>14. CASE InsertFault(r)
  <2>1. rows' \in Seq([req : Reqs, flag : {0, 1}])
    <3>1. rows \in Seq([req : Reqs, flag : {0, 1}])
      BY DEF TypeOK
    <3>2. rows' = Append(rows, RowOf(r)) \/ rows' = rows
      BY <1>14 DEF InsertFault
    <3> QED
      BY <1>5, <3>1, <3>2
  <2>2. unsaved' \in SUBSET (Branches \X FPs)
    <3>1. unsaved \in SUBSET (Branches \X FPs)
      BY DEF TypeOK
    <3>2. unsaved' = unsaved \cup {KeyOf(r)} \/ unsaved' = unsaved
      BY <1>14 DEF InsertFault
    <3> QED
      BY <1>1, <3>1, <3>2
  <2>3. at' \in [Reqs -> Places]
    BY <1>3, <1>14 DEF InsertFault, Places
  <2> QED
    BY <1>2, <1>14, <2>1, <2>2, <2>3, QueueTypesKept DEF TypeOK, InsertFault
<1> QED
  BY <1>6, <1>7, <1>8, <1>9, <1>10, <1>11, <1>12, <1>13, <1>14 DEF Carry

\* Initial states have the right types and nothing in the list or the channel.
LEMMA InitFlow == Init => FlowInv
<1> SUFFICES ASSUME Init PROVE FlowInv
  OBVIOUS
<1>1. UQ!TypeOK
  BY DEF Init, UQ!Init, UQ!TypeOK
<1>2. /\ <<>> \in Seq(Reqs) /\ Len(<<>>) = 0 /\ <<>> \in Seq([req : Reqs, flag : {0, 1}])
      /\ IsInjective(<<>>) /\ Range(<<>>) = {}
  BY DEF IsInjective, Range
<1>3. TypeOK
  BY <1>1, <1>2, ServerAssumption DEF Init, TypeOK, Places
<1> QED
  BY <1>2, <1>3 DEF Init, FlowInv, ListInv, ChanInv

\* Every step keeps the types, the capacity of the channel among them.
LEMMA NextTypes == FlowInv /\ [Next]_vars => TypeOK'
<1> SUFFICES ASSUME TypeOK, [Next]_vars PROVE TypeOK'
  BY DEF FlowInv
<1>1. Fault => faults' \in 0..MaxFaults
  BY ServerAssumption DEF TypeOK, Fault
<1>2. ASSUME NEW r \in Reqs, Handler(r) PROVE TypeOK'
  BY <1>2, QueueTypesKept DEF TypeOK, Handler, Moved, Places, storeVars, histVars
<1>3. ASSUME NEW r \in Reqs, ToKafka(r) PROVE TypeOK'
  <2>1. CASE KafkaDecode(r)
    BY <2>1, QueueTypesKept DEF TypeOK, KafkaDecode, storeVars, histVars
  <2>2. CASE KafkaDecodePanic(r)
    BY <2>2, RestartTypes, QueueTypesKept DEF TypeOK, KafkaDecodePanic, storeVars
  <2>3. CASE KafkaProducerPanic(r)
    BY <1>1, <2>3, RestartTypes, QueueTypesKept DEF TypeOK, KafkaProducerPanic, storeVars
  <2>4. CASE NewMessage(r)
    BY <2>4, QueueTypesKept DEF TypeOK, NewMessage, histVars
  <2>5. CASE NewMessageFault(r)
    BY <1>1, <2>5, QueueTypesKept DEF TypeOK, NewMessageFault
  <2> QED
    BY <1>3, <2>1, <2>2, <2>3, <2>4, <2>5 DEF ToKafka
<1>4. ASSUME NewExplainResult PROVE TypeOK'
  <2>1. list # <<>> => Head(list) \in Reqs /\ Tail(list) \in Seq(Reqs)
    BY TailRange DEF TypeOK
  <2>2. pops > 0 => pops - 1 \in 0..ExplainDBNumber
    BY ServerAssumption DEF TypeOK
  <2>3. CASE ExplainTimer
    BY <2>3, QueueTypesKept, ServerAssumption DEF TypeOK, ExplainTimer, storeVars, histVars
  <2>4. CASE ExplainPop
    <3>1. at' \in [Reqs -> Places]
      BY <2>1, <2>4 DEF TypeOK, ExplainPop, Moved, Places
    <3> QED
      BY <2>1, <2>2, <2>4, <3>1, QueueTypesKept DEF TypeOK, ExplainPop, histVars
  <2>5. CASE ExplainPopNone
    BY <2>2, <2>5, QueueTypesKept DEF TypeOK, ExplainPopNone, storeVars, histVars
  <2>6. CASE ExplainPopFault
    <3>1. list' \in Seq(Reqs) /\ at' \in [Reqs -> Places]
      BY <2>1, <2>6 DEF TypeOK, ExplainPopFault, Moved, Places
    <3> QED
      BY <1>1, <2>2, <2>6, <3>1, QueueTypesKept DEF TypeOK, ExplainPopFault
  <2> QED
    BY <1>4, <2>3, <2>4, <2>5, <2>6 DEF NewExplainResult
<1>5. ASSUME ExplainDbRecv PROVE TypeOK'
  <2>1. Head(chan) \in Reqs /\ Tail(chan) \in Seq(Reqs) /\ Len(Tail(chan)) <= ChanCap
    BY <1>5, TailRange, ServerAssumption DEF TypeOK, ExplainDbRecv
  <2>2. at' \in [Reqs -> Places]
    BY <1>5, <2>1 DEF TypeOK, ExplainDbRecv, Moved, Places
  <2> QED
    BY <1>5, <2>1, <2>2, QueueTypesKept DEF TypeOK, ExplainDbRecv, storeVars, histVars
<1>6. CASE UNCHANGED vars
  BY <1>6, QueueTypesKept DEF TypeOK, vars, storeVars, goVars, histVars
<1> QED
  BY <1>2, <1>3, <1>4, <1>5, <1>6, CarryTypes DEF Next

-----------------------------------------------------------------------------

\* A step that moves one body, which is neither in the list nor in the channel
\* at its new place, and changes neither.
LEMMA MoveKeepsFlow ==
  ASSUME FlowInv, NEW r \in Reqs, NEW p, Moved(r, p), at[r] \notin {"listed", "chan"},
         UNCHANGED <<list, chan>>
  PROVE  ListInv' /\ ChanInv'
BY DEF FlowInv, TypeOK, ListInv, ChanInv, Moved

\* A panic empties the channel and leaves the list.
LEMMA RestartKeepsFlow ==
  ASSUME FlowInv, Restart, UNCHANGED list
  PROVE  ListInv' /\ ChanInv'
<1>1. IsInjective(<<>>) /\ Range(<<>>) = {}
  BY DEF IsInjective, Range
<1>2. Range(list) \subseteq Reqs
  BY DEF FlowInv, TypeOK, Range
<1> QED
  BY <1>1, <1>2 DEF FlowInv, TypeOK, ListInv, ChanInv, Restart

\* A push appends a body that was not in the list.
LEMMA PushKeepsFlow ==
  ASSUME FlowInv, NEW r \in Reqs, at[r] = "push", list' = Append(list, r), Moved(r, "listed"),
         UNCHANGED chan
  PROVE  ListInv' /\ ChanInv'
<1>1. r \notin Range(list) /\ r \notin Range(chan)
  BY DEF FlowInv, ListInv, ChanInv
<1>2. IsInjective(list') /\ Range(list') = Range(list) \cup {r}
  BY <1>1, AppendRange DEF FlowInv, TypeOK, ListInv
<1> QED
  BY <1>1, <1>2 DEF FlowInv, TypeOK, ListInv, ChanInv, Moved

\* A pop takes a body out of the list for good.
LEMMA PopKeepsFlow ==
  ASSUME FlowInv, list # <<>>, list' = Tail(list), NEW p, Moved(Head(list), p), UNCHANGED chan
  PROVE  ListInv' /\ ChanInv'
<1>1. /\ Head(list) \in Reqs /\ IsInjective(Tail(list)) /\ Head(list) \notin Range(Tail(list))
      /\ Range(list) = Range(Tail(list)) \cup {Head(list)}
  BY TailRange DEF FlowInv, TypeOK, ListInv
<1>2. at[Head(list)] = "listed" /\ Head(list) \notin Range(chan)
  BY <1>1 DEF FlowInv, ListInv, ChanInv
<1> QED
  BY <1>1, <1>2 DEF FlowInv, TypeOK, ListInv, ChanInv, Moved

\* A send of getScore puts a body in the channel that was not there.
LEMMA SendKeepsFlow ==
  ASSUME FlowInv, NEW r \in Reqs, GetScore(r)
  PROVE  ListInv' /\ ChanInv'
<1>1. r \notin Range(list) /\ r \notin Range(chan)
  BY DEF FlowInv, ListInv, ChanInv, GetScore
<1>2. IsInjective(chan') /\ Range(chan') = Range(chan) \cup {r}
  BY <1>1, AppendRange DEF FlowInv, TypeOK, ChanInv, GetScore
<1> QED
  BY <1>1, <1>2 DEF FlowInv, TypeOK, ListInv, ChanInv, GetScore, Moved, storeVars

\* A receive takes a body out of the channel for good.
LEMMA RecvKeepsFlow ==
  ASSUME FlowInv, ExplainDbRecv
  PROVE  ListInv' /\ ChanInv'
<1>1. /\ Head(chan) \in Reqs /\ IsInjective(Tail(chan)) /\ Head(chan) \notin Range(Tail(chan))
      /\ Range(chan) = Range(Tail(chan)) \cup {Head(chan)}
  BY TailRange DEF FlowInv, TypeOK, ChanInv, ExplainDbRecv
<1>2. at[Head(chan)] = "chan" /\ Head(chan) \notin Range(list)
  BY <1>1 DEF FlowInv, ListInv, ChanInv
<1> QED
  BY <1>1, <1>2 DEF FlowInv, TypeOK, ListInv, ChanInv, ExplainDbRecv, Moved, storeVars

\* Every step keeps bodies once in the list and once in the channel.
LEMMA NextFlow == FlowInv /\ [Next]_vars => FlowInv'
<1> SUFFICES ASSUME FlowInv, [Next]_vars PROVE ListInv' /\ ChanInv'
  BY NextTypes DEF FlowInv
<1>1. ASSUME UNCHANGED <<list, chan, at>> PROVE ListInv' /\ ChanInv'
  BY <1>1 DEF FlowInv, ListInv, ChanInv
<1>2. ASSUME NEW r \in Reqs, Handler(r) PROVE ListInv' /\ ChanInv'
  BY <1>2, MoveKeepsFlow DEF Handler, storeVars
<1>3. ASSUME NEW r \in Reqs, Carry(r) PROVE ListInv' /\ ChanInv'
  <2>1. CASE ListPush(r)
    BY <2>1, PushKeepsFlow DEF ListPush
  <2>2. CASE ListPushFault(r)
    BY <2>2, PushKeepsFlow, MoveKeepsFlow DEF ListPushFault
  <2>3. CASE ExcuteDbSql(r)
    BY <2>3, MoveKeepsFlow DEF ExcuteDbSql, storeVars
  <2>4. CASE ExcuteDbSqlPanic(r) \/ InsertPanic(r)
    BY <2>4, RestartKeepsFlow DEF ExcuteDbSqlPanic, InsertPanic, storeVars
  <2>5. CASE GetScore(r)
    BY <2>5, SendKeepsFlow
  <2>6. CASE Mark(r)
    BY <2>6, MoveKeepsFlow DEF Mark
  <2>7. CASE MarkFault(r)
    BY <2>7, MoveKeepsFlow DEF MarkFault
  <2>8. CASE Insert(r)
    BY <2>8, MoveKeepsFlow DEF Insert
  <2>9. CASE InsertFault(r)
    BY <2>9, MoveKeepsFlow DEF InsertFault
  <2> QED
    BY <1>3, <2>1, <2>2, <2>3, <2>4, <2>5, <2>6, <2>7, <2>8, <2>9 DEF Carry
<1>4. ASSUME NEW r \in Reqs, ToKafka(r) PROVE ListInv' /\ ChanInv'
  <2>1. CASE KafkaDecodePanic(r) \/ KafkaProducerPanic(r)
    BY <2>1, RestartKeepsFlow DEF KafkaDecodePanic, KafkaProducerPanic, storeVars
  <2>2. CASE KafkaDecode(r) \/ NewMessage(r) \/ NewMessageFault(r)
    BY <1>1, <2>2 DEF KafkaDecode, NewMessage, NewMessageFault, storeVars
  <2> QED
    BY <1>4, <2>1, <2>2 DEF ToKafka
<1>5. ASSUME NewExplainResult PROVE ListInv' /\ ChanInv'
  <2>1. CASE ExplainPop
    BY <2>1, PopKeepsFlow DEF ExplainPop
  <2>2. CASE ExplainPopFault
    BY <1>1, <2>2, PopKeepsFlow DEF ExplainPopFault
  <2>3. CASE ExplainTimer \/ ExplainPopNone
    BY <1>1, <2>3 DEF ExplainTimer, ExplainPopNone, storeVars
  <2> QED
    BY <1>5, <2>1, <2>2, <2>3 DEF NewExplainResult
<1>6. CASE UNCHANGED vars
  BY <1>1, <1>6 DEF vars, storeVars, goVars
<1> QED
  BY <1>2, <1>3, <1>4, <1>5, <1>6, RecvKeepsFlow DEF Next

\* The server's types hold for any bodies, any capacity and any number of
\* failures: the channel SqlExplain never holds more than its capacity, and the
\* loop of NewExplainResult never pops more than ExplainDBNumber bodies.
THEOREM ServerTypes == Spec => []TypeOK
<1>1. FlowInv => TypeOK
  BY DEF FlowInv
<1> QED
  BY <1>1, InitFlow, NextFlow, PTL DEF Spec
=============================================================================
