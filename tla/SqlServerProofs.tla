--------------------------- MODULE SqlServerProofs ---------------------------
(***************************************************************************)
(* The server keeps the promise of module Ledger, loses a mark only through *)
(* a recorded failure and is not taken down again and again, for any       *)
(* bodies, branches and fingerprints and any number of failed calls.       *)
(***************************************************************************)
EXTENDS SqlServerTypes, FiniteSetTheorems

\* r's goroutine has won the mark of its fingerprint and is about to insert.
Inserting(r) == at[r] = "insert" /\ flag[r] = 1

\* A body with a row is done, and the fingerprint of a new row is marked.
RowInv ==
  \A i \in DOMAIN rows :
    /\ at[rows[i].req] = "done"
    /\ rows[i].flag = 1 => FpOf[rows[i].req] \in uqSet[BranchOf[rows[i].req]]

\* Whoever is about to insert a new row is alone with its fingerprint.
NewInv ==
  \A r \in Reqs : Inserting(r) =>
    /\ FpOf[r] \in uqSet[BranchOf[r]]
    /\ \A i \in DOMAIN rows : rows[i].flag = 1 => KeyOf(rows[i].req) # KeyOf(r)
    /\ \A s \in Reqs : Inserting(s) /\ KeyOf(s) = KeyOf(r) => s = r

Books == FlowInv /\ RowInv /\ NewInv /\ MarkHasRow

-----------------------------------------------------------------------------

\* Steps that neither mark nor insert: rows, marks and finished bodies stay, and a
\* goroutine about to insert goes away only in a panic, which is recorded.
LEMMA OtherSteps ==
  ASSUME FlowInv, [Next]_vars,
         ~\E r \in Reqs : Mark(r) \/ MarkFault(r) \/ Insert(r) \/ InsertFault(r)
  PROVE  /\ UNCHANGED <<rows, uqSet>> /\ unsaved \subseteq unsaved'
         /\ \A s \in Reqs :
              /\ at[s] = "done" => at'[s] = "done"
              /\ Inserting(s)' => Inserting(s)
              /\ Inserting(s) => Inserting(s)' \/ KeyOf(s) \in unsaved'
<1> DEFINE Goal ==
         /\ UNCHANGED <<rows, uqSet>> /\ unsaved \subseteq unsaved'
         /\ \A s \in Reqs :
              /\ at[s] = "done" => at'[s] = "done"
              /\ Inserting(s)' => Inserting(s)
              /\ Inserting(s) => Inserting(s)' \/ KeyOf(s) \in unsaved'
<1> SUFFICES Goal
  OBVIOUS
<1>1. ASSUME UNCHANGED <<rows, uqSet, at, flag, unsaved>> PROVE Goal
  BY <1>1 DEF Inserting
<1>2. ASSUME NEW r \in Reqs, NEW p \in Places \ {"insert"}, Moved(r, p), at[r] \notin {"insert", "done"},
             UNCHANGED <<rows, uqSet, flag, unsaved>>
      PROVE  Goal
  BY <1>2 DEF FlowInv, TypeOK, Moved, Inserting
<1>3. ASSUME Restart, UNCHANGED <<rows, uqSet>> PROVE Goal
  BY <1>3 DEF FlowInv, TypeOK, Restart, Inserting
<1>4. ASSUME NEW r \in Reqs, Handler(r) PROVE Goal
  BY <1>2, <1>4 DEF Handler, storeVars, histVars, Places
<1>5. ASSUME NEW r \in Reqs, Carry(r) PROVE Goal
  <2>1. CASE ListPush(r) \/ ListPushFault(r) \/ ExcuteDbSql(r) \/ GetScore(r)
    BY <1>2, <2>1 DEF ListPush, ListPushFault, ExcuteDbSql, GetScore, storeVars, histVars, Places
  <2>2. CASE ExcuteDbSqlPanic(r) \/ InsertPanic(r)
    BY <1>3, <2>2 DEF ExcuteDbSqlPanic, InsertPanic, storeVars
  <2> QED
    BY <1>5, <2>1, <2>2 DEF Carry
<1>6. ASSUME NEW r \in Reqs, ToKafka(r) PROVE Goal
  <2>1. CASE KafkaDecodePanic(r) \/ KafkaProducerPanic(r)
    BY <1>3, <2>1 DEF KafkaDecodePanic, KafkaProducerPanic, storeVars
  <2>2. CASE KafkaDecode(r) \/ NewMessage(r) \/ NewMessageFault(r)
    BY <1>1, <2>2 DEF KafkaDecode, NewMessage, NewMessageFault, storeVars, histVars
  <2> QED
    BY <1>6, <2>1, <2>2 DEF ToKafka
<1>7. ASSUME NewExplainResult PROVE Goal
  <2>1. list # <<>> => Head(list) \in Reqs /\ at[Head(list)] = "listed"
    BY TailRange DEF FlowInv, TypeOK, ListInv
  <2>2. CASE ExplainPop
    BY <1>2, <2>1, <2>2 DEF ExplainPop, histVars, Places
  <2>3. CASE ExplainPopFault
    BY <1>1, <1>2, <2>1, <2>3 DEF ExplainPopFault, Places
  <2>4. CASE ExplainTimer \/ ExplainPopNone
    BY <1>1, <2>4 DEF ExplainTimer, ExplainPopNone, storeVars, histVars
  <2> QED
    BY <1>7, <2>2, <2>3, <2>4 DEF NewExplainResult
<1>8. ASSUME ExplainDbRecv PROVE Goal
  <2>1. Head(chan) \in Reqs /\ at[Head(chan)] = "chan"
    BY <1>8, TailRange DEF FlowInv, TypeOK, ChanInv, ExplainDbRecv
  <2> QED
    BY <1>2, <1>8, <2>1 DEF ExplainDbRecv, storeVars, histVars, Places
<1>9. CASE UNCHANGED vars
  BY <1>1, <1>9 DEF vars, storeVars, goVars, histVars
<1> QED
  BY <1>4, <1>5, <1>6, <1>7, <1>8, <1>9 DEF Next

\* The columns of the rows.
LEMMA RowTypes ==
  FlowInv => \A i \in DOMAIN rows : rows[i].req \in Reqs /\ rows[i].flag \in {0, 1}
<1>1. ASSUME NEW S, NEW s \in Seq(S) PROVE \A i \in DOMAIN s : s[i] \in S
  BY <1>1
<1>2. FlowInv => rows \in Seq([req : Reqs, flag : {0, 1}])
  BY DEF FlowInv, TypeOK
<1>3. FlowInv => \A i \in DOMAIN rows : rows[i] \in [req : Reqs, flag : {0, 1}]
  BY <1>1, <1>2
<1> QED
  BY <1>3

\* A mark, whether its reply arrives or not, leaves rows and marks in order.
LEMMA MarkKeepsBooks ==
  ASSUME Books, NEW r \in Reqs, Mark(r) \/ MarkFault(r)
  PROVE  RowInv' /\ NewInv' /\ MarkHasRow'
<1> DEFINE b == BranchOf[r]
           f == FpOf[r]
<1> USE DEF Books, FlowInv
<1>1. /\ b \in Branches /\ f \in FPs /\ at[r] = "mark" /\ UNCHANGED rows
      /\ at \in [Reqs -> Places] /\ flag \in [Reqs -> {0, 1}] /\ uqSet \in [Branches -> SUBSET FPs]
      /\ \A i \in DOMAIN rows : rows[i].req \in Reqs
  <2>1. b \in Branches /\ f \in FPs /\ at[r] = "mark" /\ UNCHANGED rows
    BY ServerAssumption DEF Mark, MarkFault
  <2>2. uqSet \in [Branches -> SUBSET FPs]
    BY DEF TypeOK, UQ!TypeOK
  <2>3. \A i \in DOMAIN rows : rows[i].req \in Reqs
    BY RowTypes
  <2> QED
    BY <2>1, <2>2, <2>3 DEF TypeOK
<1>2. at' = [at EXCEPT ![r] = "insert"]
  BY DEF Mark, MarkFault, Moved
<1>3. /\ uqSet' = uqSet \/ uqSet' = [uqSet EXCEPT ![b] = @ \cup {f}]
      /\ flag' = [flag EXCEPT ![r] = flag'[r]]
      /\ flag'[r] = 1 => uqSet' = [uqSet EXCEPT ![b] = @ \cup {f}] /\ f \notin uqSet[b]
      /\ f \in uqSet'[b] /\ f \notin uqSet[b] => flag'[r] = 1 \/ KeyOf(r) \in unsaved'
      /\ unsaved \subseteq unsaved'
  <2>1. CASE Mark(r)
    BY <1>1, <2>1 DEF Mark, UQ!UniquePush, UQ!PushResp, histVars
  <2>2. CASE MarkFault(r)
    <3>1. flag' = [flag EXCEPT ![r] = 0] /\ flag'[r] = 0
      BY <1>1, <2>2 DEF MarkFault
    <3>2. CASE UNCHANGED <<uq, uqSet, unsaved>>
      BY <1>1, <3>1, <3>2
    <3>3. CASE /\ UQ!UniquePush(BranchOf[r], FpOf[r])
               /\ unsaved' = IF UQ!PushResp(BranchOf[r], FpOf[r]) = 1
                             THEN unsaved \cup {KeyOf(r)} ELSE unsaved
      BY <1>1, <3>1, <3>3 DEF UQ!UniquePush, UQ!PushResp
    <3> QED
      BY <2>2, <3>2, <3>3 DEF MarkFault
  <2> QED
    BY <2>1, <2>2
<1>4. \A c \in Branches : uqSet[c] \subseteq uqSet'[c]
  BY <1>1, <1>3
<1>5. RowInv'
  <2> SUFFICES ASSUME NEW i \in DOMAIN rows
               PROVE  /\ at'[rows[i].req] = "done"
                      /\ rows[i].flag = 1 => FpOf[rows[i].req] \in uqSet'[BranchOf[rows[i].req]]
    BY <1>1 DEF RowInv
  <2>1. rows[i].req \in Reqs /\ at[rows[i].req] = "done" /\ BranchOf[rows[i].req] \in Branches
    BY <1>1, ServerAssumption DEF RowInv
  <2> QED
    BY <1>1, <1>2, <1>4, <2>1 DEF RowInv
<1>6. ASSUME NEW s \in Reqs, s # r PROVE Inserting(s)' <=> Inserting(s)
  BY <1>1, <1>2, <1>3, <1>6 DEF Inserting
<1>7. ASSUME Inserting(r)'
      PROVE  /\ f \in uqSet'[b] /\ f \notin uqSet[b]
  BY <1>1, <1>2, <1>3, <1>7 DEF Inserting
<1>8. ASSUME Inserting(r)', NEW s \in Reqs, KeyOf(s) = KeyOf(r)
      PROVE  /\ FpOf[s] \notin uqSet[BranchOf[s]]
             /\ ~Inserting(s)
             /\ \A i \in DOMAIN rows : rows[i].req = s => rows[i].flag # 1
  <2>1. FpOf[s] = f /\ BranchOf[s] = b
    BY <1>8 DEF KeyOf
  <2> QED
    BY <1>7, <1>8, <2>1 DEF NewInv, RowInv
<1>9. NewInv'
  <2> SUFFICES ASSUME NEW s \in Reqs, Inserting(s)'
               PROVE  /\ FpOf[s] \in uqSet'[BranchOf[s]]
                      /\ \A i \in DOMAIN rows : rows[i].flag = 1 => KeyOf(rows[i].req) # KeyOf(s)
                      /\ \A t \in Reqs : Inserting(t)' /\ KeyOf(t) = KeyOf(s) => t = s
    BY <1>1 DEF NewInv
  <2>1. CASE s = r
    BY <1>1, <1>6, <1>7, <1>8, <2>1
  <2>2. CASE s # r
    <3>1. Inserting(s) /\ BranchOf[s] \in Branches
      BY <1>6, <2>2, ServerAssumption
    <3>2. \A t \in Reqs : Inserting(t)' /\ KeyOf(t) = KeyOf(s) => t = s
      BY <1>6, <1>8, <3>1 DEF NewInv
    <3> QED
      BY <1>4, <3>1, <3>2 DEF NewInv
  <2> QED
    BY <2>1, <2>2
<1>10. MarkHasRow'
  <2> SUFFICES ASSUME NEW c \in Branches, NEW g \in uqSet'[c]
               PROVE  \/ <<c, g>> \in unsaved'
                      \/ \E i \in DOMAIN rows : rows[i].flag = 1 /\ KeyOf(rows[i].req) = <<c, g>>
                      \/ \E s \in Reqs : Inserting(s)' /\ KeyOf(s) = <<c, g>>
    BY <1>1 DEF MarkHasRow, Inserting
  <2>1. CASE g \in uqSet[c]
    <3>1. \/ <<c, g>> \in unsaved
          \/ \E i \in DOMAIN rows : rows[i].flag = 1 /\ KeyOf(rows[i].req) = <<c, g>>
          \/ \E s \in Reqs : Inserting(s) /\ KeyOf(s) = <<c, g>>
      BY <2>1 DEF MarkHasRow, Inserting
    <3>2. ~Inserting(r)
      BY <1>1 DEF Inserting
    <3> QED
      BY <1>3, <1>6, <3>1, <3>2
  <2>2. CASE g \notin uqSet[c]
    <3>1. c = b /\ g = f
      BY <1>1, <1>3, <2>2
    <3>2. flag'[r] = 1 \/ KeyOf(r) \in unsaved'
      BY <1>3, <2>2, <3>1
    <3>3. flag'[r] = 1 => Inserting(r)'
      BY <1>1, <1>2 DEF Inserting
    <3> QED
      BY <3>1, <3>2, <3>3 DEF KeyOf
  <2> QED
    BY <2>1, <2>2
<1> QED
  BY <1>5, <1>9, <1>10

\* An INSERT, whether it reaches the table or not, leaves rows and marks in order;
\* a row that it adds is admissible.
LEMMA InsertKeepsBooks ==
  ASSUME Books, NEW r \in Reqs, Insert(r) \/ InsertFault(r)
  PROVE  RowInv' /\ NewInv' /\ MarkHasRow' /\ (Table!Next \/ UNCHANGED rows)
<1> USE DEF Books, FlowInv
<1>1. /\ at[r] = "insert" /\ at' = [at EXCEPT ![r] = "done"] /\ UNCHANGED <<flag, uqSet>>
      /\ rows' = rows \/ rows' = Append(rows, RowOf(r))
      /\ unsaved \subseteq unsaved'
      /\ flag[r] = 1 => KeyOf(r) \in unsaved' \/ rows' = Append(rows, RowOf(r))
  <2>1. CASE Insert(r)
    BY <2>1 DEF Insert, Moved
  <2>2. CASE InsertFault(r)
    BY <2>2 DEF InsertFault, Moved
  <2> QED
    BY <2>1, <2>2
<1>2. at \in [Reqs -> Places] /\ flag[r] \in {0, 1} /\ rows \in Seq([req : Reqs, flag : {0, 1}])
  BY DEF TypeOK
<1>3. \A s \in Reqs : Inserting(s)' <=> Inserting(s) /\ s # r
  BY <1>1, <1>2 DEF Inserting
<1>4. \A s \in Reqs : at'[s] = IF s = r THEN "done" ELSE at[s]
  BY <1>1, <1>2
<1>5. \A i \in DOMAIN rows : rows[i].req \in Reqs /\ rows[i].req # r
  BY <1>1, RowTypes DEF RowInv
<1>6. CASE rows' = rows
  <2>1. RowInv'
    BY <1>1, <1>4, <1>5, <1>6 DEF RowInv
  <2>2. NewInv'
    BY <1>1, <1>3, <1>6 DEF NewInv
  <2>3. flag[r] = 1 => KeyOf(r) \in unsaved'
    <3>1. rows # Append(rows, RowOf(r))
      BY <1>2 DEF RowOf
    <3> QED
      BY <1>1, <1>6, <3>1
  <2>4. MarkHasRow'
    BY <1>1, <1>3, <1>6, <2>3 DEF MarkHasRow, Inserting
  <2> QED
    BY <1>6, <2>1, <2>2, <2>4
<1>7. CASE rows' = Append(rows, RowOf(r))
  <2>1. /\ Len(rows') = Len(rows) + 1 /\ DOMAIN rows' = DOMAIN rows \cup {Len(rows')}
        /\ rows'[Len(rows')] = RowOf(r) /\ \A i \in DOMAIN rows : rows'[i] = rows[i]
    BY <1>2, <1>7 DEF RowOf
  <2>2. RowOf(r).req = r /\ RowOf(r).flag = flag[r] /\ RowOf(r) \in [req : Reqs, flag : {0, 1}]
    BY <1>2 DEF RowOf
  <2>3. RowInv'
    <3> SUFFICES ASSUME NEW i \in DOMAIN rows'
                 PROVE  /\ at'[rows'[i].req] = "done"
                        /\ rows'[i].flag = 1 => FpOf[rows'[i].req] \in uqSet[BranchOf[rows'[i].req]]
      BY <1>1 DEF RowInv
    <3>1. CASE i \in DOMAIN rows
      BY <1>4, <1>5, <2>1, <3>1 DEF RowInv
    <3>2. CASE i = Len(rows')
      BY <1>1, <1>4, <2>1, <2>2, <3>2 DEF NewInv, Inserting
    <3> QED
      BY <2>1, <3>1, <3>2
  <2>4. NewInv'
    <3> SUFFICES ASSUME NEW s \in Reqs, Inserting(s)'
                 PROVE  /\ FpOf[s] \in uqSet[BranchOf[s]]
                        /\ \A i \in DOMAIN rows' : rows'[i].flag = 1 => KeyOf(rows'[i].req) # KeyOf(s)
                        /\ \A t \in Reqs : Inserting(t)' /\ KeyOf(t) = KeyOf(s) => t = s
      BY <1>1 DEF NewInv
    <3>1. Inserting(s) /\ s # r
      BY <1>3
    <3>2. ASSUME NEW i \in DOMAIN rows', rows'[i].flag = 1 PROVE KeyOf(rows'[i].req) # KeyOf(s)
      <4>1. CASE i \in DOMAIN rows
        BY <2>1, <3>1, <3>2, <4>1 DEF NewInv
      <4>2. CASE i = Len(rows')
        BY <1>1, <2>1, <2>2, <3>1, <3>2, <4>2 DEF NewInv, Inserting
      <4> QED
        BY <2>1, <4>1, <4>2
    <3> QED
      BY <1>3, <3>1, <3>2 DEF NewInv
  <2>5. MarkHasRow'
    <3> SUFFICES ASSUME NEW c \in Branches, NEW g \in uqSet[c]
                 PROVE  \/ <<c, g>> \in unsaved'
                        \/ \E i \in DOMAIN rows' : rows'[i].flag = 1 /\ KeyOf(rows'[i].req) = <<c, g>>
                        \/ \E s \in Reqs : Inserting(s)' /\ KeyOf(s) = <<c, g>>
      BY <1>1 DEF MarkHasRow, Inserting
    <3>1. \/ <<c, g>> \in unsaved
          \/ \E i \in DOMAIN rows : rows[i].flag = 1 /\ KeyOf(rows[i].req) = <<c, g>>
          \/ \E s \in Reqs : Inserting(s) /\ KeyOf(s) = <<c, g>>
      BY DEF MarkHasRow, Inserting
    <3>2. CASE \E i \in DOMAIN rows : rows[i].flag = 1 /\ KeyOf(rows[i].req) = <<c, g>>
      BY <2>1, <3>2
    <3>3. CASE \E s \in Reqs : Inserting(s) /\ KeyOf(s) = <<c, g>>
      <4>1. PICK s \in Reqs : Inserting(s) /\ KeyOf(s) = <<c, g>>
        BY <3>3
      <4>2. CASE s = r
        BY <2>1, <2>2, <4>1, <4>2 DEF Inserting
      <4>3. CASE s # r
        BY <1>3, <4>1, <4>3
      <4> QED
        BY <4>2, <4>3
    <3> QED
      BY <1>1, <3>1, <3>2, <3>3
  <2>6. ASSUME NEW i \in DOMAIN rows, flag[r] = 1, rows[i].flag = 1
        PROVE  ~Table!SameKey(rows[i].req, r)
    <3>1. KeyOf(rows[i].req) # KeyOf(r)
      BY <1>1, <2>6 DEF NewInv, Inserting
    <3> QED
      BY <3>1 DEF KeyOf, Table!SameKey
  <2>7. Table!Next
    BY <1>5, <1>7, <2>1, <2>2, <2>6 DEF Table!Next, Table!Admissible
  <2> QED
    BY <2>3, <2>4, <2>5, <2>7
<1> QED
  BY <1>1, <1>6, <1>7

\* Every step keeps the books, and adds to the table what Ledger admits.
LEMMA NextBooks == Books /\ [Next]_vars => Books' /\ [Table!Next]_rows
<1> SUFFICES ASSUME Books, [Next]_vars PROVE Books' /\ (Table!Next \/ UNCHANGED rows)
  OBVIOUS
<1>1. FlowInv /\ FlowInv'
  BY NextFlow DEF Books
<1>2. CASE \E r \in Reqs : Mark(r) \/ MarkFault(r)
  BY <1>1, <1>2, MarkKeepsBooks DEF Books, Mark, MarkFault
<1>3. CASE \E r \in Reqs : Insert(r) \/ InsertFault(r)
  BY <1>1, <1>3, InsertKeepsBooks DEF Books
<1>4. CASE ~\E r \in Reqs : Mark(r) \/ MarkFault(r) \/ Insert(r) \/ InsertFault(r)
  <2>1. /\ UNCHANGED <<rows, uqSet>> /\ unsaved \subseteq unsaved'
        /\ \A s \in Reqs :
             /\ at[s] = "done" => at'[s] = "done"
             /\ Inserting(s)' => Inserting(s)
             /\ Inserting(s) => Inserting(s)' \/ KeyOf(s) \in unsaved'
    BY <1>1, <1>4, OtherSteps
  <2>2. RowInv'
    BY <1>1, <2>1, RowTypes DEF Books, RowInv
  <2>3. NewInv'
    BY <2>1 DEF Books, NewInv
  <2>4. MarkHasRow'
    <3> SUFFICES ASSUME NEW c \in Branches, NEW g \in uqSet[c]
                 PROVE  \/ <<c, g>> \in unsaved'
                        \/ \E i \in DOMAIN rows : rows[i].flag = 1 /\ KeyOf(rows[i].req) = <<c, g>>
                        \/ \E s \in Reqs : Inserting(s)' /\ KeyOf(s) = <<c, g>>
      BY <2>1 DEF MarkHasRow, Inserting
    <3>1. \/ <<c, g>> \in unsaved
          \/ \E i \in DOMAIN rows : rows[i].flag = 1 /\ KeyOf(rows[i].req) = <<c, g>>
          \/ \E s \in Reqs : Inserting(s) /\ KeyOf(s) = <<c, g>>
      BY DEF Books, MarkHasRow, Inserting
    <3> QED
      BY <2>1, <3>1
  <2> QED
    BY <1>1, <2>1, <2>2, <2>3, <2>4 DEF Books
<1> QED
  BY <1>2, <1>3, <1>4

\* Initial states have no rows and no marks.
LEMMA InitBooks == Init => Books
<1> SUFFICES ASSUME Init PROVE RowInv /\ NewInv /\ MarkHasRow
  BY InitFlow DEF Books
<1>1. DOMAIN rows = {} /\ \A r \in Reqs : at[r] = "outside"
  BY DEF Init
<1>2. \A b \in Branches : uqSet[b] = {}
  BY DEF Init, UQ!Init
<1> QED
  BY <1>1, <1>2 DEF RowInv, NewInv, MarkHasRow, Inserting

\* The server implements module Ledger: however the goroutines of NewExplainDb
\* interleave, whatever fails or panics, no body gets two rows and no branch two
\* rows with flag = 1 for one fingerprint.
THEOREM ServerImplementsLedger == Spec => ServerKeepsLedger
<1>1. Init => Table!Init
  BY DEF Init, Table!Init
<1> QED
  BY <1>1, InitBooks, NextBooks, PTL DEF Spec, ServerKeepsLedger, Table!Spec

\* Only a failed call or a panic between UniquePush and INSERT, which unsaved
\* records, leaves a fingerprint marked without its new row.
THEOREM MarkNeverLost == Spec => []MarkHasRow
<1>1. Books => MarkHasRow
  BY DEF Books
<1> QED
  BY <1>1, InitBooks, NextBooks, PTL DEF Spec

-----------------------------------------------------------------------------

\* The bodies that may still panic the Kafka goroutine, and ExcuteDbSql.
KafkaOwed == {r \in Malformed : kafka[r] = "decode" \/ at[r] = "outside"}
DbOwed == {r \in Unreadable : at[r] \in {"outside", "push", "listed", "explain"}}

\* The Kafka goroutine of a body starts when the body arrives, and every panic so
\* far is paid for by a body that cannot panic any more, or by a failure.
PanicInv ==
  /\ FlowInv
  /\ \A r \in Reqs : kafka[r] # "none" => at[r] # "outside"
  /\ panics + Cardinality(KafkaOwed) + Cardinality(DbOwed)
       <= Cardinality(Malformed) + Cardinality(Unreadable) + faults

\* There are finitely many bodies that panic.
LEMMA OwedFinite ==
  /\ Malformed \subseteq Reqs /\ Unreadable \subseteq Reqs
  /\ IsFiniteSet(Malformed) /\ IsFiniteSet(Unreadable)
  /\ Cardinality(Malformed) \in Nat /\ Cardinality(Unreadable) \in Nat
<1>1. IsFiniteSet(Malformed) /\ IsFiniteSet(Unreadable)
  BY FS_Union, ServerAssumption DEF Unreadable
<1> QED
  BY <1>1, FS_CardinalityType, ServerAssumption DEF Unreadable

\* The cardinality of sets that shrink.
LEMMA Shrinks ==
  ASSUME NEW S, IsFiniteSet(S), NEW T \in SUBSET S
  PROVE  /\ Cardinality(S) \in Nat /\ Cardinality(T) \in Nat
         /\ Cardinality(T) <= Cardinality(S)
         /\ \A x \in S \ T : Cardinality(T) + 1 <= Cardinality(S)
<1>1. IsFiniteSet(T)
  BY FS_Subset
<1>2. Cardinality(S) \in Nat /\ Cardinality(T) \in Nat
  BY <1>1, FS_CardinalityType
<1>3. Cardinality(T) <= Cardinality(S) /\ (Cardinality(S) = Cardinality(T) => S = T)
  BY <1>1, FS_Subset
<1> QED
  BY <1>2, <1>3

\* What a step does to the bodies that may still panic.
LEMMA OwedSteps ==
  ASSUME FlowInv, \A r \in Reqs : kafka[r] # "none" => at[r] # "outside", [Next]_vars
  PROVE  /\ \A r \in Reqs : kafka'[r] # "none" => at'[r] # "outside"
         /\ KafkaOwed' \subseteq KafkaOwed /\ DbOwed' \subseteq DbOwed
         /\ \/ panics' = panics /\ faults' \in {faults, faults + 1}
            \/ panics' = panics + 1 /\ faults' = faults /\ KafkaOwed \ KafkaOwed' # {}
            \/ panics' = panics + 1 /\ faults' = faults /\ DbOwed \ DbOwed' # {}
            \/ panics' = panics + 1 /\ faults' = faults + 1
<1> DEFINE Fresh == \A r \in Reqs : kafka'[r] # "none" => at'[r] # "outside"
           Fewer == KafkaOwed' \subseteq KafkaOwed /\ DbOwed' \subseteq DbOwed
           Paid == panics' = panics /\ faults' \in {faults, faults + 1}
<1> USE DEF FlowInv
<1>1. Malformed \subseteq Reqs /\ Unreadable \subseteq Reqs
  BY OwedFinite
<1>2. ASSUME NEW r \in Reqs, NEW p \in Places \ {"outside"}, Moved(r, p), UNCHANGED kafka,
             p \in {"push", "listed", "explain"} => at[r] \in {"push", "listed"}
      PROVE  Fresh /\ Fewer
  BY <1>1, <1>2 DEF TypeOK, Moved, KafkaOwed, DbOwed
<1>3. ASSUME Restart PROVE Fresh /\ Fewer /\ panics' = panics + 1
  BY <1>1, <1>3 DEF TypeOK, Restart, KafkaOwed, DbOwed
<1>4. ASSUME UNCHANGED <<at, kafka>> PROVE Fresh /\ Fewer
  BY <1>4 DEF KafkaOwed, DbOwed
<1>5. ASSUME NEW r \in Reqs, Handler(r) PROVE Fresh /\ Fewer /\ Paid
  BY <1>1, <1>5 DEF TypeOK, Handler, Moved, histVars, KafkaOwed, DbOwed
<1>6. ASSUME NEW r \in Reqs, Carry(r), ~(ExcuteDbSqlPanic(r) \/ InsertPanic(r)) PROVE Fresh /\ Fewer /\ Paid
  <2>1. CASE ListPush(r) \/ ListPushFault(r)
    BY <1>2, <2>1 DEF ListPush, ListPushFault, Fault, histVars, Places
  <2>2. CASE ExcuteDbSql(r) \/ GetScore(r)
    BY <1>2, <2>2 DEF ExcuteDbSql, GetScore, Fault, histVars, Places
  <2>3. CASE Mark(r) \/ MarkFault(r)
    BY <1>2, <2>3 DEF Mark, MarkFault, Fault, histVars, Places
  <2>4. CASE Insert(r) \/ InsertFault(r)
    BY <1>2, <2>4 DEF Insert, InsertFault, Fault, histVars, Places
  <2> QED
    BY <1>6, <2>1, <2>2, <2>3, <2>4 DEF Carry
<1>7. ASSUME NEW r \in Reqs, ExcuteDbSqlPanic(r)
      PROVE  /\ Restart
             /\ \/ faults' = faults /\ DbOwed \ DbOwed' # {}
                \/ faults' = faults + 1
  <2>1. Restart /\ at[r] = "explain"
    BY <1>7 DEF ExcuteDbSqlPanic
  <2>2. CASE Fault
    BY <2>1, <2>2 DEF Fault
  <2>3. CASE r \in Unreadable /\ UNCHANGED faults
    <3>1. at'[r] = "done"
      BY <2>1 DEF TypeOK, Restart
    <3>2. r \in DbOwed \ DbOwed'
      BY <2>1, <2>3, <3>1 DEF DbOwed
    <3> QED
      BY <2>1, <2>3, <3>2
  <2> QED
    BY <1>7, <2>2, <2>3 DEF ExcuteDbSqlPanic
<1>8. ASSUME NEW r \in Reqs, KafkaDecodePanic(r) PROVE r \in KafkaOwed \ KafkaOwed'
  BY <1>1, <1>8 DEF TypeOK, KafkaDecodePanic, Restart, KafkaOwed
<1>9. ASSUME NEW r \in Reqs, KafkaDecode(r) \/ NewMessage(r) \/ NewMessageFault(r)
      PROVE  Fresh /\ Fewer /\ Paid
  BY <1>1, <1>9 DEF TypeOK, KafkaDecode, NewMessage, NewMessageFault, Fault, histVars, KafkaOwed, DbOwed
<1>10. ASSUME NewExplainResult PROVE Fresh /\ Fewer /\ Paid
  <2>1. list # <<>> => Head(list) \in Reqs /\ at[Head(list)] = "listed"
    BY TailRange DEF TypeOK, ListInv
  <2>2. CASE ExplainPop
    BY <1>2, <2>1, <2>2 DEF ExplainPop, histVars, Places
  <2>3. CASE ExplainPopFault
    BY <1>2, <1>4, <2>1, <2>3 DEF ExplainPopFault, Fault, Places
  <2>4. CASE ExplainTimer \/ ExplainPopNone
    BY <1>4, <2>4 DEF ExplainTimer, ExplainPopNone, histVars
  <2> QED
    BY <1>10, <2>2, <2>3, <2>4 DEF NewExplainResult
<1>11. ASSUME ExplainDbRecv PROVE Fresh /\ Fewer /\ Paid
  <2>1. Head(chan) \in Reqs
    BY <1>11, TailRange DEF TypeOK, ExplainDbRecv
  <2> QED
    BY <1>2, <1>11, <2>1 DEF ExplainDbRecv, histVars, Places
<1>12. CASE UNCHANGED vars
  BY <1>4, <1>12 DEF vars, goVars, histVars
<1>13. ASSUME NEW r \in Reqs, KafkaDecodePanic(r) PROVE Restart /\ faults' = faults
  BY <1>13 DEF KafkaDecodePanic
<1>14. ASSUME NEW r \in Reqs, KafkaProducerPanic(r) \/ InsertPanic(r)
       PROVE  Restart /\ faults' = faults + 1
  BY <1>14 DEF KafkaProducerPanic, InsertPanic, Fault
<1> DEFINE Panic(r) == KafkaDecodePanic(r) \/ ExcuteDbSqlPanic(r) \/ KafkaProducerPanic(r) \/ InsertPanic(r)
<1>15. CASE \E r \in Reqs : Panic(r)
  BY <1>3, <1>7, <1>8, <1>13, <1>14, <1>15
<1>16. CASE ~\E r \in Reqs : Panic(r)
  BY <1>5, <1>6, <1>9, <1>10, <1>11, <1>12, <1>16 DEF Next, ToKafka
<1> QED
  BY <1>15, <1>16

\* No crash loop, for any finite number of bodies that panic: one with an empty
\* Arr takes the process down at most twice, one whose EXPLAIN lacks a column at
\* most once, and any further panic is a producer or a database that failed.
THEOREM NoCrashLoop == Spec => []PanicsBounded
<1>1. Init => PanicInv
  <2> SUFFICES ASSUME Init PROVE PanicInv
    OBVIOUS
  <2>1. KafkaOwed = Malformed /\ DbOwed = Unreadable /\ panics = 0 /\ faults = 0
    BY OwedFinite DEF Init, KafkaOwed, DbOwed
  <2> QED
    BY <2>1, OwedFinite, InitFlow DEF Init, PanicInv
<1>2. PanicInv /\ [Next]_vars => PanicInv'
  <2> SUFFICES ASSUME PanicInv, [Next]_vars
               PROVE  panics' + Cardinality(KafkaOwed') + Cardinality(DbOwed')
                        <= Cardinality(Malformed) + Cardinality(Unreadable) + faults'
    BY NextFlow, OwedSteps DEF PanicInv
  <2>1. /\ KafkaOwed' \subseteq KafkaOwed /\ DbOwed' \subseteq DbOwed
        /\ \/ panics' = panics /\ faults' \in {faults, faults + 1}
           \/ panics' = panics + 1 /\ faults' = faults /\ KafkaOwed \ KafkaOwed' # {}
           \/ panics' = panics + 1 /\ faults' = faults /\ DbOwed \ DbOwed' # {}
           \/ panics' = panics + 1 /\ faults' = faults + 1
    BY OwedSteps DEF PanicInv
  <2>2. IsFiniteSet(KafkaOwed) /\ IsFiniteSet(DbOwed)
    BY OwedFinite, FS_Subset DEF KafkaOwed, DbOwed
  <2>3. PICK k \in Nat, k1 \in Nat, d \in Nat, d1 \in Nat, n \in Nat, m \in Nat :
          /\ k = Cardinality(KafkaOwed) /\ k1 = Cardinality(KafkaOwed') /\ k1 <= k
          /\ d = Cardinality(DbOwed) /\ d1 = Cardinality(DbOwed') /\ d1 <= d
          /\ n = Cardinality(Malformed) /\ m = Cardinality(Unreadable)
          /\ KafkaOwed \ KafkaOwed' # {} => k1 + 1 <= k
          /\ DbOwed \ DbOwed' # {} => d1 + 1 <= d
    BY <2>1, <2>2, Shrinks, OwedFinite
  <2>4. panics \in Nat /\ faults \in Nat /\ panics + k + d <= n + m + faults
    BY <2>3, ServerAssumption DEF PanicInv, FlowInv, TypeOK
  <2>5. panics' + k1 + d1 <= n + m + faults'
    BY <2>1, <2>3, <2>4
  <2> QED
    BY <2>3, <2>5
<1>3. PanicInv => PanicsBounded
  <2> SUFFICES ASSUME PanicInv PROVE PanicsBounded
    OBVIOUS
  <2>1. Cardinality(KafkaOwed) \in Nat /\ Cardinality(DbOwed) \in Nat
    BY OwedFinite, FS_Subset, FS_CardinalityType DEF KafkaOwed, DbOwed
  <2>2. panics \in Nat /\ faults \in Nat
    BY ServerAssumption DEF PanicInv, FlowInv, TypeOK
  <2> QED
    BY <2>1, <2>2, OwedFinite DEF PanicInv, PanicsBounded
<1> QED
  BY <1>1, <1>2, <1>3, PTL DEF Spec
=============================================================================
