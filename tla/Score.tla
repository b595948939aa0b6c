------------------------------- MODULE Score -------------------------------
(***************************************************************************)
(* getScore of lib/explain.go: the score and level of an execution plan.   *)
(* A first loop looks for the worst access type and stops at the first     *)
(* full scan; a second loop charges the first row of that type for its     *)
(* other columns; the cost of the query comes last.  Strings are abstracted *)
(* to what the code asks of them, the text Content to the points it lists. *)
(***************************************************************************)
EXTENDS Integers, Sequences

CONSTANTS
  Plans, \* the plans EXPLAIN can return: sequences of rows
  Costs  \* the values of int(Last_query_cost); 0 when it is missing

Levels == {"L1", "L2", "L3", "L4"}

\* A row of EXPLAIN.  The empty Type is written "Null", as in Content.  Of Extra the
\* code asks whether it contains "index", "where" and "const table".
Rows ==
  [Type : STRING, Key : BOOLEAN, index : BOOLEAN, where : BOOLEAN,
   constTable : BOOLEAN, Rows : Nat]

ASSUME ScoreAssumption ==
  /\ Plans \subseteq Seq(Rows)
  /\ Costs \subseteq Int

VARIABLES
  plan,         \* sql.Explain
  cost,         \* int(sql.Last_query_cost)
  pc,           \* "type" and "others" (the loops), "worst", "cost", "done"
  i,            \* index of the row the loop is at
  scoreType,    \* points deducted so far
  scoreTypeTmp, \* points of the worst type so far
  flag,         \* the first type that costs points
  Level,        \* sql.Level
  Content,      \* the points listed in sql.Content, added up
  score         \* sql.Score

vars == <<plan, cost, pc, i, scoreType, scoreTypeTmp, flag, Level, Content, score>>

TypeOK ==
  /\ plan \in Seq(Rows)
  /\ cost \in Int
  /\ pc \in {"type", "worst", "others", "cost", "done"}
  /\ i \in 1..(Len(plan) + 1)
  /\ scoreType \in Nat
  /\ scoreTypeTmp \in {0, 5, 10, 15}
  /\ flag \in {0, 5, 10, 15}
  /\ Level \in Levels \cup {"none"}
  /\ Content \in Nat
  /\ score \in Int

\* The agent posts results whose level, score and content are empty.
Init ==
  /\ plan \in Plans
  /\ cost \in Costs
  /\ pc = "type"
  /\ i = 1
  /\ scoreType = 0 /\ scoreTypeTmp = 0 /\ flag = 0
  /\ Level = "none"
  /\ Content = 0
  /\ score = 0

-----------------------------------------------------------------------------

\* The map ExplainType; a type it does not have yields the
\* empty string, here "none".
ExplainType(t) ==
  CASE t \in {"ALL", "index"} -> "L1"
    [] t \in {"range", "index_subquery", "unique_subquery", "index_merge",
              "ref_or_null", "fulltext"} -> "L2"
    [] t \in {"ref", "eq_ref"} -> "L3"
    [] t \in {"const", "system"} -> "L4"
    [] OTHER -> "none"

\* The map ExplainTypeScore.
LevelScore(l) == CASE l = "L1" -> 15 [] l = "L2" -> 10 [] l = "L3" -> 5 [] OTHER -> 0

\* ExplainTypeScore of a type's level; "none" is not in the map and yields 0.
TypeScore(t) == LevelScore(ExplainType(t))

\* The inverse map ExplainTypeScoreTmp.
LevelOfScore(s) ==
  CASE s = 15 -> "L1" [] s = 10 -> "L2" [] s = 5 -> "L3" [] OTHER -> "L4"

\* Points for the number of rows.  The bounds themselves cost nothing, and neither
\* do ten million rows and more.
RowsPoints(n) ==
  CASE n > 5000 /\ n < 10000 -> 5
    [] n > 10000 /\ n < 100000 -> 10
    [] n > 100000 /\ n < 1000000 -> 15
    [] n > 1000000 /\ n < 10000000 -> 20
    [] OTHER -> 0

\* Points for the cost of the query, with the same gaps.
CostPoints(c) ==
  CASE c > 500 /\ c < 1000 -> 5
    [] c > 1000 /\ c < 10000 -> 10
    [] c > 10000 /\ c < 50000 -> 15
    [] c > 50000 /\ c < 100000 -> 20
    [] c > 100000 /\ c < 150000 -> 25
    [] c > 150000 /\ c < 200000 -> 30
    [] c > 200000 /\ c < 500000 -> 35
    [] c > 500000 /\ c < 1000000 -> 40
    [] c > 1000000 /\ c < 10000000 -> 50
    [] OTHER -> 0

\* Points for the columns key, Extra and rows of one row.
OtherPoints(row) ==
  (IF row.Key THEN 0 ELSE 5)
  + (IF ~row.index THEN 5 ELSE IF ~row.where THEN 3 ELSE 0)
  + RowsPoints(row.Rows)

\* A row at which the first loop stops.
FullScan(row) == row.Type \in {"Null", "ALL"}

\* Points of such a row.
ScanPoints(row) ==
  IF row.Type = "Null" /\ row.constTable THEN 1 ELSE 15 + OtherPoints(row)

Deduct(points) == scoreType' = scoreType + points

List(points) == Content' = Content + points

\* First loop, a full scan: level L1, its points, break.
TypeScan ==
  /\ pc = "type"
  /\ i <= Len(plan)
  /\ FullScan(plan[i])
  /\ Level' = "L1"
  /\ Deduct(ScanPoints(plan[i]))
  /\ List(ScanPoints(plan[i]))
  /\ pc' = "worst"
  /\ UNCHANGED <<plan, cost, i, scoreTypeTmp, flag, score>>

\* The two ifs at the end of the first loop: scoreTypeTmp becomes the larger
\* value, through flag until one is not zero.
Worst(t) ==
  LET raised == IF scoreTypeTmp # 0 /\ scoreTypeTmp < t THEN t ELSE scoreTypeTmp
  IN  IF flag = 0 THEN scoreTypeTmp' = t /\ flag' = t
                  ELSE scoreTypeTmp' = raised /\ UNCHANGED flag

\* First loop, any other row.
TypeRow ==
  /\ pc = "type"
  /\ i <= Len(plan)
  /\ ~FullScan(plan[i])
  /\ Worst(TypeScore(plan[i].Type))
  /\ i' = i + 1
  /\ UNCHANGED <<plan, cost, pc, scoreType, Level, Content, score>>

\* First loop, no row left.
TypeEnd ==
  /\ pc = "type"
  /\ i > Len(plan)
  /\ pc' = "worst"
  /\ UNCHANGED <<plan, cost, i, scoreType, scoreTypeTmp, flag, Level, Content, score>>

\* A second loop that goes on where the first one stopped.
WorstTypeNoReset ==
  /\ pc = "worst"
  /\ Level' = IF Level = "none" THEN LevelOfScore(scoreTypeTmp) ELSE Level
  /\ Deduct(scoreTypeTmp)
  /\ pc' = "others"
  /\ UNCHANGED <<plan, cost, i, scoreTypeTmp, flag, Content, score>>

\* Between the loops: the level, if there was no full scan, and the points of the
\* worst type.  Content does not list them yet.
WorstType ==
  /\ pc = "worst"
  /\ Level' = IF Level = "none" THEN LevelOfScore(scoreTypeTmp) ELSE Level
  /\ Deduct(scoreTypeTmp)
  /\ pc' = "others"
  /\ i' = 1
  /\ UNCHANGED <<plan, cost, scoreTypeTmp, flag, Content, score>>

\* A row the second loop charges.
Charged(row) ==
  ~FullScan(row) /\ ExplainType(row.Type) = LevelOfScore(scoreTypeTmp)

\* Second loop, the first row of the worst type: its points are listed with those
\* of the type, break.
OthersCharge ==
  /\ pc = "others"
  /\ i <= Len(plan)
  /\ Charged(plan[i])
  /\ Deduct(OtherPoints(plan[i]))
  /\ List(scoreTypeTmp + OtherPoints(plan[i]))
  /\ pc' = "cost"
  /\ UNCHANGED <<plan, cost, i, scoreTypeTmp, flag, Level, score>>

\* Second loop, any other row.
OthersSkip ==
  /\ pc = "others"
  /\ i <= Len(plan)
  /\ ~Charged(plan[i])
  /\ i' = i + 1
  /\ UNCHANGED <<plan, cost, pc, scoreType, scoreTypeTmp, flag, Level, Content, score>>

\* Second loop, no row left.
OthersEnd ==
  /\ pc = "others"
  /\ i > Len(plan)
  /\ pc' = "cost"
  /\ UNCHANGED <<plan, cost, i, scoreType, scoreTypeTmp, flag, Level, Content, score>>

\* The cost of the query and the final score.
CostAndScore ==
  /\ pc = "cost"
  /\ Deduct(CostPoints(cost))
  /\ List(CostPoints(cost))
  /\ score' = 100 - scoreType'
  /\ pc' = "done"
  /\ UNCHANGED <<plan, cost, i, scoreTypeTmp, flag, Level>>

Next ==
  \/ TypeScan \/ TypeRow \/ TypeEnd
  \/ WorstType
  \/ OthersCharge \/ OthersSkip \/ OthersEnd
  \/ CostAndScore

Spec == Init /\ [][Next]_vars

-----------------------------------------------------------------------------

\* The score a reader sees is 100 minus the points the text Content accounts for:
\* nothing is deducted silently and nothing is listed without being deducted, in
\* whatever order the rows come and wherever the loops break.
ContentExplainsScore == pc = "done" => score = 100 - Content

\* The level is that of the worst row, however the rows are ordered: L1 if there
\* is a full scan, else the level of the type that costs most, L4 without rows.
LevelIsWorst ==
  pc = "done" =>
    \/ Level = "L1" /\ \E k \in DOMAIN plan : FullScan(plan[k])
    \/ /\ \A k \in DOMAIN plan :
            /\ ~FullScan(plan[k])
            /\ TypeScore(plan[k].Type) <= LevelScore(Level)
       /\ \/ Level = "L4"
          \/ \E k \in DOMAIN plan : TypeScore(plan[k].Type) = LevelScore(Level)

\* A full scan, an earlier index scan and the most expensive cost together are
\* the worst case: no score leaves the interval that column score shows.
ScoreRange == pc = "done" => score \in -40..100
=============================================================================
