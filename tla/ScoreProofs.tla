---------------------------- MODULE ScoreProofs ----------------------------
(***************************************************************************)
(* What Score promises, for plans of any length and any cost.              *)
(***************************************************************************)
EXTENDS Score, TLAPS

\* No row before the loop's index is a full scan or worse than scoreTypeTmp.
SeenUpTo(n) ==
  \A k \in 1..n : ~FullScan(plan[k]) /\ TypeScore(plan[k].Type) <= scoreTypeTmp

\* A positive scoreTypeTmp comes from a row of the plan that the second loop
\* will charge.
Witness(from) ==
  scoreTypeTmp > 0 =>
    \E k \in from..Len(plan) : Charged(plan[k]) /\ TypeScore(plan[k].Type) = scoreTypeTmp

HasScan == \E k \in DOMAIN plan : FullScan(plan[k])

\* The level is right from the end of the first loop on.
LevelRight ==
  \/ Level = "L1" /\ HasScan
  \/ Level = LevelOfScore(scoreTypeTmp) /\ SeenUpTo(Len(plan))

\* The books: how scoreType and Content differ, and their size, at each pc.
Books ==
  /\ pc = "type" => scoreType = 0 /\ Content = 0
  /\ pc = "worst" => scoreType = Content /\ Content <= 45
  /\ pc = "others" => scoreType = Content + scoreTypeTmp /\ Content <= 45
  /\ pc = "cost" => scoreType = Content /\ Content <= 90
  /\ pc = "done" => score = 100 - Content /\ Content <= 140

Progress ==
  /\ flag = 0 <=> scoreTypeTmp = 0
  /\ Witness(1)
  /\ pc = "type" => Level = "none" /\ SeenUpTo(i - 1)
  /\ pc = "worst" => \/ Level = "L1" /\ HasScan
                     \/ Level = "none" /\ SeenUpTo(Len(plan))
  /\ pc = "others" => Witness(i)
  /\ pc \in {"others", "cost", "done"} => LevelRight

IInv == TypeOK /\ Books /\ Progress

-----------------------------------------------------------------------------

\* The points of one row are bounded, whatever the row.
LEMMA PointsBounded ==
  ASSUME NEW row \in Rows
  PROVE  /\ OtherPoints(row) \in 0..30
         /\ ScanPoints(row) \in 0..45
<1> DEFINE keyPoints == IF row.Key THEN 0 ELSE 5
           extraPoints == IF ~row.index THEN 5 ELSE IF ~row.where THEN 3 ELSE 0
<1>1. RowsPoints(row.Rows) \in 0..20
  BY DEF RowsPoints, Rows
<1>2. keyPoints \in {0, 5}
  BY Zenon
<1>3. extraPoints \in {0, 3, 5}
  BY Zenon
<1>4. OtherPoints(row) = keyPoints + extraPoints + RowsPoints(row.Rows)
  BY Zenon DEF OtherPoints
<1> HIDE DEF keyPoints, extraPoints
<1>5. OtherPoints(row) \in 0..30
  BY <1>1, <1>2, <1>3, <1>4
<1>6. ScanPoints(row) \in {1, 15 + OtherPoints(row)}
  BY Zenon DEF ScanPoints
<1> QED
  BY <1>5, <1>6

\* The points of the cost are bounded, whatever the cost.
LEMMA CostBounded ==
  ASSUME NEW c \in Int
  PROVE  CostPoints(c) \in 0..50
BY DEF CostPoints

\* A type that costs points has the level those points stand for.
LEMMA ScoreLevel ==
  ASSUME NEW t \in STRING
  PROVE  /\ TypeScore(t) \in {0, 5, 10, 15}
         /\ TypeScore(t) > 0 => ExplainType(t) = LevelOfScore(TypeScore(t))
<1>1. ExplainType(t) \in Levels \cup {"none"}
  BY DEF ExplainType, Levels
<1>2. CASE ExplainType(t) = "L1"
  BY <1>2 DEF TypeScore, LevelScore, LevelOfScore
<1>3. CASE ExplainType(t) = "L2"
  BY <1>3 DEF TypeScore, LevelScore, LevelOfScore
<1>4. CASE ExplainType(t) = "L3"
  BY <1>4 DEF TypeScore, LevelScore, LevelOfScore
<1>5. CASE ExplainType(t) \in {"L4", "none"}
  BY <1>5 DEF TypeScore, LevelScore
<1> QED
  BY <1>1, <1>2, <1>3, <1>4, <1>5 DEF Levels

\* The maps ExplainTypeScore and ExplainTypeScoreTmp are inverse to each other.
LEMMA LevelInverse ==
  ASSUME NEW s \in {0, 5, 10, 15}
  PROVE  /\ LevelOfScore(s) \in Levels
         /\ LevelScore(LevelOfScore(s)) = s
         /\ LevelOfScore(s) # "L4" => s > 0
BY DEF LevelOfScore, LevelScore, Levels

\* Every row of a plan is a row of EXPLAIN.
LEMMA PlanRows ==
  ASSUME TypeOK
  PROVE  /\ Len(plan) \in Nat
         /\ DOMAIN plan = 1..Len(plan)
         /\ \A k \in 1..Len(plan) : plan[k] \in Rows /\ plan[k].Type \in STRING
<1>1. plan \in Seq(Rows)
  BY DEF TypeOK
<1>2. \A k \in 1..Len(plan) : plan[k] \in Rows
  BY <1>1
<1> QED
  BY <1>1, <1>2 DEF Rows

\* Initial states satisfy the inductive invariant.
LEMMA InitInv == Init => IInv
<1> SUFFICES ASSUME Init PROVE IInv
  OBVIOUS
<1>1. plan \in Seq(Rows) /\ cost \in Int
  BY ScoreAssumption DEF Init
<1>2. Len(plan) \in Nat
  BY <1>1
<1>3. TypeOK
  BY <1>1, <1>2 DEF Init, TypeOK, Levels
<1>4. Books
  BY DEF Init, Books
<1>5. Witness(1) /\ SeenUpTo(i - 1)
  BY DEF Init, SeenUpTo, Witness
<1>6. Progress
  BY <1>5 DEF Init, Progress
<1> QED
  BY <1>3, <1>4, <1>6 DEF IInv

\* Types are preserved.
LEMMA StepTypes == TypeOK /\ Books /\ [Next]_vars => TypeOK'
<1> SUFFICES ASSUME TypeOK, Books, [Next]_vars PROVE TypeOK'
  OBVIOUS
<1>1. Len(plan) \in Nat /\ \A k \in 1..Len(plan) : plan[k] \in Rows /\ plan[k].Type \in STRING
  BY PlanRows
<1>2. CASE TypeScan
  <2>1. i \in 1..Len(plan)
    BY <1>1, <1>2 DEF TypeScan, TypeOK
  <2>2. PICK p \in 0..45 : p = ScanPoints(plan[i])
    BY <1>1, <2>1, PointsBounded
  <2>3. scoreType' = scoreType + p /\ Content' = Content + p
    BY <1>2, <2>2 DEF TypeScan, Deduct, List
  <2>4. scoreType' \in Nat /\ Content' \in Nat
    BY <2>3 DEF TypeOK
  <2> QED
    BY <1>2, <2>4 DEF TypeScan, TypeOK, Levels
<1>3. CASE TypeRow
  <2>1. i \in 1..Len(plan)
    BY <1>1, <1>3 DEF TypeRow, TypeOK
  <2>2. TypeScore(plan[i].Type) \in {0, 5, 10, 15}
    BY <1>1, <2>1, ScoreLevel
  <2>3. scoreTypeTmp' \in {0, 5, 10, 15} /\ flag' \in {0, 5, 10, 15}
    BY <1>3, <2>2 DEF TypeRow, TypeOK, Worst
  <2> QED
    BY <1>3, <2>1, <2>3 DEF TypeRow, TypeOK
<1>4. CASE TypeEnd
  BY <1>4 DEF TypeEnd, TypeOK
<1>5. CASE WorstType
  <2>1. LevelOfScore(scoreTypeTmp) \in Levels
    BY LevelInverse DEF TypeOK
  <2> QED
    BY <1>1, <1>5, <2>1 DEF WorstType, TypeOK, Deduct
<1>6. CASE OthersCharge
  <2>1. i \in 1..Len(plan)
    BY <1>1, <1>6 DEF OthersCharge, TypeOK
  <2>2. PICK p \in 0..30 : p = OtherPoints(plan[i])
    BY <1>1, <2>1, PointsBounded
  <2>3. scoreType' = scoreType + p /\ Content' = Content + (scoreTypeTmp + p)
    BY <1>6, <2>2 DEF OthersCharge, Deduct, List
  <2>4. scoreType' \in Nat /\ Content' \in Nat
    BY <2>3 DEF TypeOK
  <2> QED
    BY <1>6, <2>4 DEF OthersCharge, TypeOK
<1>7. CASE OthersSkip
  BY <1>1, <1>7 DEF OthersSkip, TypeOK
<1>8. CASE OthersEnd
  BY <1>8 DEF OthersEnd, TypeOK
<1>9. CASE CostAndScore
  <2>1. cost \in Int
    BY DEF TypeOK
  <2>2. PICK p \in 0..50 : p = CostPoints(cost)
    BY <2>1, CostBounded
  <2>3. scoreType' = scoreType + p /\ Content' = Content + p /\ score' = 100 - scoreType'
    BY <1>9, <2>2 DEF CostAndScore, Deduct, List
  <2>4. scoreType' \in Nat /\ Content' \in Nat /\ score' \in Int
    BY <2>3 DEF TypeOK
  <2> QED
    BY <1>9, <2>4 DEF CostAndScore, TypeOK
<1>10. CASE UNCHANGED vars
  BY <1>10 DEF vars, TypeOK
<1> QED
  BY <1>2, <1>3, <1>4, <1>5, <1>6, <1>7, <1>8, <1>9, <1>10 DEF Next

\* The books balance after every step; the end of the second loop needs the
\* witness that a positive scoreTypeTmp has been listed by then.
LEMMA StepBooks == IInv /\ [Next]_vars => Books'
<1> SUFFICES ASSUME IInv, [Next]_vars PROVE Books'
  OBVIOUS
<1> USE DEF IInv
<1>1. Len(plan) \in Nat /\ \A k \in 1..Len(plan) : plan[k] \in Rows /\ plan[k].Type \in STRING
  BY PlanRows
<1>2. CASE TypeScan
  <2>1. i \in 1..Len(plan)
    BY <1>1, <1>2 DEF TypeScan, TypeOK
  <2>2. PICK p \in 0..45 : p = ScanPoints(plan[i])
    BY <1>1, <2>1, PointsBounded
  <2>3. scoreType' = scoreType + p /\ Content' = Content + p /\ pc' = "worst"
    BY <1>2, <2>2 DEF TypeScan, Deduct, List
  <2>4. scoreType = 0 /\ Content = 0
    BY <1>2 DEF TypeScan, Books
  <2> QED
    BY <2>3, <2>4 DEF Books
<1>3. CASE TypeRow
  BY <1>3 DEF TypeRow, Books
<1>4. CASE TypeEnd
  BY <1>4 DEF TypeEnd, Books
<1>5. CASE WorstType
  BY <1>5 DEF WorstType, Books, Deduct
<1>6. CASE OthersCharge
  <2>1. i \in 1..Len(plan)
    BY <1>1, <1>6 DEF OthersCharge, TypeOK
  <2>2. PICK p \in 0..30 : p = OtherPoints(plan[i])
    BY <1>1, <2>1, PointsBounded
  <2>3. /\ scoreType' = scoreType + p
        /\ Content' = Content + (scoreTypeTmp + p)
        /\ pc' = "cost"
    BY <1>6, <2>2 DEF OthersCharge, Deduct, List
  <2>4. scoreType = Content + scoreTypeTmp /\ Content <= 45
    BY <1>6 DEF OthersCharge, Books
  <2>5. scoreType' = Content' /\ Content' <= 90
    BY <2>3, <2>4 DEF TypeOK
  <2> QED
    BY <2>3, <2>5 DEF Books
<1>7. CASE OthersSkip
  BY <1>7 DEF OthersSkip, Books
<1>8. CASE OthersEnd
  <2>1. i..Len(plan) = {}
    BY <1>1, <1>8 DEF OthersEnd, TypeOK
  <2>2. scoreTypeTmp = 0
    BY <1>8, <2>1 DEF OthersEnd, Progress, Witness, TypeOK
  <2> QED
    BY <1>8, <2>2 DEF OthersEnd, Books, TypeOK
<1>9. CASE CostAndScore
  <2>1. cost \in Int
    BY DEF TypeOK
  <2>2. PICK p \in 0..50 : p = CostPoints(cost)
    BY <2>1, CostBounded
  <2>3. /\ scoreType' = scoreType + p
        /\ Content' = Content + p
        /\ score' = 100 - scoreType'
        /\ pc' = "done"
    BY <1>9, <2>2 DEF CostAndScore, Deduct, List
  <2>4. scoreType = Content /\ Content <= 90
    BY <1>9 DEF CostAndScore, Books
  <2>5. score' = 100 - Content' /\ Content' <= 140
    BY <2>3, <2>4 DEF TypeOK
  <2> QED
    BY <2>3, <2>5 DEF Books
<1>10. CASE UNCHANGED vars
  BY <1>10 DEF vars, Books
<1> QED
  BY <1>2, <1>3, <1>4, <1>5, <1>6, <1>7, <1>8, <1>9, <1>10 DEF Next

\* The worst type so far is the maximum of the types seen: flag = 0 exactly while
\* all of them cost nothing.
LEMMA WorstIsMax ==
  ASSUME TypeOK, NEW t \in {0, 5, 10, 15}, Worst(t), flag = 0 <=> scoreTypeTmp = 0
  PROVE  /\ flag' = 0 <=> scoreTypeTmp' = 0
         /\ t <= scoreTypeTmp' /\ scoreTypeTmp <= scoreTypeTmp'
         /\ scoreTypeTmp' \in {t, scoreTypeTmp}
BY DEF Worst, TypeOK

\* Loop progress is preserved.
LEMMA StepProgress == IInv /\ [Next]_vars => Progress'
<1> SUFFICES ASSUME IInv, [Next]_vars PROVE Progress'
  OBVIOUS
<1> USE DEF IInv
<1>1. /\ Len(plan) \in Nat /\ DOMAIN plan = 1..Len(plan)
      /\ \A k \in 1..Len(plan) : plan[k] \in Rows /\ plan[k].Type \in STRING
  BY PlanRows
<1>2. CASE TypeScan
  <2>1. i \in DOMAIN plan
    BY <1>1, <1>2 DEF TypeScan, TypeOK
  <2>2. HasScan'
    BY <1>2, <2>1 DEF TypeScan, HasScan, FullScan
  <2>3. Witness(1)'
    BY <1>2 DEF TypeScan, Progress, Witness, Charged
  <2> QED
    BY <1>2, <2>2, <2>3 DEF TypeScan, Progress
<1>3. CASE TypeRow
  <2>1. i \in 1..Len(plan)
    BY <1>1, <1>3 DEF TypeRow, TypeOK
  <2> DEFINE t == TypeScore(plan[i].Type)
  <2>2. t \in {0, 5, 10, 15}
    BY <1>1, <2>1, ScoreLevel
  <2>3. /\ Worst(t)
        /\ flag = 0 <=> scoreTypeTmp = 0
    BY <1>3 DEF TypeRow, Progress
  <2> HIDE DEF t
  <2>4. /\ flag' = 0 <=> scoreTypeTmp' = 0
        /\ t <= scoreTypeTmp' /\ scoreTypeTmp <= scoreTypeTmp'
        /\ scoreTypeTmp' \in {t, scoreTypeTmp}
    BY <2>2, <2>3, WorstIsMax
  <2>5. SeenUpTo(i - 1)'
    <3>1. i' - 1 = i /\ plan' = plan /\ ~FullScan(plan[i])
      BY <1>3, <2>1 DEF TypeRow
    <3>2. \A k \in 1..(i - 1) : ~FullScan(plan[k]) /\ TypeScore(plan[k].Type) <= scoreTypeTmp
      BY <1>3 DEF TypeRow, Progress, SeenUpTo
    <3>3. \A k \in 1..(i - 1) : TypeScore(plan[k].Type) \in {0, 5, 10, 15}
      <4> TAKE k \in 1..(i - 1)
      <4>1. plan[k].Type \in STRING
        BY <1>1, <2>1
      <4> QED
        BY <4>1, ScoreLevel
    <3>4. scoreTypeTmp \in Int /\ scoreTypeTmp' \in Int
      BY <2>2, <2>4 DEF TypeOK
    <3>5. \A k \in 1..(i - 1) : TypeScore(plan[k].Type) <= scoreTypeTmp'
      BY <2>4, <3>2, <3>3, <3>4
    <3>6. \A k \in 1..i : ~FullScan(plan[k]) /\ TypeScore(plan[k].Type) <= scoreTypeTmp'
      BY <2>1, <2>4, <3>1, <3>2, <3>5 DEF t
    <3> QED
      BY <3>1, <3>6 DEF SeenUpTo
  <2>6. Witness(1)'
    <3>1. plan' = plan /\ ~FullScan(plan[i])
      BY <1>3 DEF TypeRow
    <3>2. CASE scoreTypeTmp' = scoreTypeTmp
      BY <3>1, <3>2 DEF Progress, Witness, Charged
    <3>3. CASE scoreTypeTmp' = t
      <4> SUFFICES ASSUME t > 0
                   PROVE  ExplainType(plan[i].Type) = LevelOfScore(t)
        BY <2>1, <3>1, <3>3 DEF Witness, Charged, t
      <4> QED
        BY <1>1, <2>1, ScoreLevel DEF t
    <3> QED
      BY <2>4, <3>2, <3>3
  <2> QED
    BY <1>3, <2>4, <2>5, <2>6 DEF TypeRow, Progress
<1>4. CASE TypeEnd
  <2>1. i = Len(plan) + 1
    BY <1>1, <1>4 DEF TypeEnd, TypeOK
  <2>2. SeenUpTo(Len(plan))'
    BY <1>1, <1>4, <2>1 DEF TypeEnd, Progress, SeenUpTo
  <2>3. Witness(1)'
    BY <1>4 DEF TypeEnd, Progress, Witness, Charged
  <2> QED
    BY <1>4, <2>2, <2>3 DEF TypeEnd, Progress
<1>5. CASE WorstType
  <2>1. Witness(1)'
    BY <1>5 DEF WorstType, Progress, Witness, Charged
  <2>2. LevelRight'
    BY <1>5 DEF WorstType, Progress, LevelRight, SeenUpTo, HasScan
  <2> QED
    BY <1>5, <2>1, <2>2 DEF WorstType, Progress
<1>6. CASE OthersCharge
  BY <1>6 DEF OthersCharge, Progress, Witness, Charged, LevelRight, SeenUpTo, HasScan
<1>7. CASE OthersSkip
  <2>1. i \in 1..Len(plan) /\ i' = i + 1
    BY <1>1, <1>7 DEF OthersSkip, TypeOK
  <2>2. Witness(i)'
    BY <1>1, <1>7, <2>1 DEF OthersSkip, Progress, Witness, Charged
  <2>3. Witness(1)' /\ LevelRight'
    BY <1>7 DEF OthersSkip, Progress, Witness, Charged, LevelRight, SeenUpTo, HasScan
  <2> QED
    BY <1>7, <2>2, <2>3 DEF OthersSkip, Progress
<1>8. CASE OthersEnd
  BY <1>8 DEF OthersEnd, Progress, Witness, Charged, LevelRight, SeenUpTo, HasScan
<1>9. CASE CostAndScore
  BY <1>9 DEF CostAndScore, Progress, Witness, Charged, LevelRight, SeenUpTo, HasScan
<1>10. CASE UNCHANGED vars
  BY <1>10 DEF vars, Progress, Witness, Charged, LevelRight, SeenUpTo, HasScan
<1> QED
  BY <1>2, <1>3, <1>4, <1>5, <1>6, <1>7, <1>8, <1>9, <1>10 DEF Next

\* The inductive invariant holds in every state.
LEMMA Invariance == Spec => []IInv
<1>1. IInv /\ [Next]_vars => IInv'
  BY StepTypes, StepBooks, StepProgress DEF IInv
<1> QED
  BY InitInv, <1>1, PTL DEF Spec

\* getScore stays within its types: scoreTypeTmp takes only the values of the map
\* ExplainTypeScore, so that the inverse map always has it.
THEOREM ScoreTypes == Spec => []TypeOK
<1>1. IInv => TypeOK
  BY DEF IInv
<1> QED
  BY Invariance, <1>1, PTL

\* For every plan, the points listed in Content are exactly those deducted.
THEOREM ContentCorrect == Spec => []ContentExplainsScore
<1>1. IInv => ContentExplainsScore
  BY DEF IInv, Books, ContentExplainsScore
<1> QED
  BY Invariance, <1>1, PTL

\* For every plan and cost the score lies between -40 and 100.
THEOREM ScoreBounded == Spec => []ScoreRange
<1>1. IInv => ScoreRange
  BY DEF IInv, TypeOK, Books, ScoreRange
<1> QED
  BY Invariance, <1>1, PTL

\* For every plan the level is that of its worst row, in any order of the rows.
THEOREM LevelCorrect == Spec => []LevelIsWorst
<1>1. IInv => LevelIsWorst
  <2> SUFFICES ASSUME IInv, pc = "done" PROVE LevelIsWorst
    BY DEF LevelIsWorst
  <2> USE DEF IInv
  <2>1. DOMAIN plan = 1..Len(plan)
    BY PlanRows
  <2>2. LevelRight
    BY DEF Progress
  <2>3. CASE Level = "L1" /\ HasScan
    BY <2>3 DEF LevelIsWorst, HasScan
  <2>4. CASE Level = LevelOfScore(scoreTypeTmp) /\ SeenUpTo(Len(plan))
    <3>1. LevelScore(Level) = scoreTypeTmp /\ (Level # "L4" => scoreTypeTmp > 0)
      BY <2>4, LevelInverse DEF TypeOK
    <3>2. scoreTypeTmp > 0 => \E k \in DOMAIN plan : TypeScore(plan[k].Type) = scoreTypeTmp
      BY <2>1 DEF Progress, Witness
    <3>3. \A k \in DOMAIN plan : ~FullScan(plan[k]) /\ TypeScore(plan[k].Type) <= scoreTypeTmp
      BY <2>1, <2>4 DEF SeenUpTo
    <3> QED
      BY <3>1, <3>2, <3>3 DEF LevelIsWorst
  <2> QED
    BY <2>2, <2>3, <2>4 DEF LevelRight
<1> QED
  BY Invariance, <1>1, PTL
=============================================================================
