---------------------------- MODULE MCStatement ----------------------------
(***************************************************************************)
(* What happens to one statement, for TLC: Fingerprint, the settings that  *)
(* it is explained with (ExplainDb) and Score.  The three share no state;  *)
(* the initial state chooses the one that runs.                            *)
(***************************************************************************)
EXTENDS Score, TLC

CONSTANTS MaxRows, MaxPieces, \* bounds: rows of a plan, pieces of a statement
          empty, x, y         \* texts of a configuration

VARIABLES part,
          a, b, form, done,
          conf, db, place, index, DbUpon, got, idle, keeps, lastCost, breaks

-----------------------------------------------------------------------------
\* All plans over one type of every kind and the cheapest, a middling and the
\* dearest other columns.
MCTypes == {"Null", "ALL", "index", "range", "ref", "const", "unknown"}
MCColumns ==
  { [Key |-> TRUE, index |-> TRUE, where |-> TRUE, constTable |-> TRUE, Rows |-> 10000],
    [Key |-> TRUE, index |-> TRUE, where |-> FALSE, constTable |-> FALSE, Rows |-> 5001],
    [Key |-> FALSE, index |-> FALSE, where |-> TRUE, constTable |-> FALSE, Rows |-> 1000001] }
MCRows == { [Type |-> t] @@ c : t \in MCTypes, c \in MCColumns }
MCPlans == UNION { [1..n -> MCRows] : n \in 0..MaxRows }
MCCosts == {0, 500, 501, 9999999, 10000000}

\* Statements: c and t stand for any text without a value.
Select == <<"c", " ", "t", " ">>
Beginnings == {Select, <<"call", " ", "t">>, <<"use", " ">>, <<"administrator", " ", "t">>}
Pieces ==
  { <<"c">>, <<" ">>, <<"=">>, <<"(">>, <<")">>, <<",">>, <<"in", "(", "1", ")">>, <<"values">>,
    <<"order", " ", "by", " ">>, <<"asc">>, <<"null">>, <<"+">>, <<":">>, <<"#", "c", "nl">>,
    <<"/", "*", "c", "*", "/">>, <<"/", "*", "!", "1", " ">>, <<"-", "-", " ", "c", "nl">>,
    <<"bt", "c", "bt">>, <<"key", " ", "update", " ">> }
Values ==
  { << <<"1">>, <<"1", "2">> >>, << <<"1">>, <<"-", "1", ".", "2">> >>,
    << <<"'", "t", "'">>, <<"dq", "(", "bs", "dq", "dq">> >> }
Scan == INSTANCE Fingerprint

\* Two blocks and a field of another kind, in the order of AppConfig.
Field(block, name) == [block |-> block, part |-> name]
Fields ==
  << Field("Kafka", "Topic"),
     Field("Comjia", "Name"), Field("Comjia", "MysqlUser"), Field("Comjia", "MysqlMaxIdleConns"),
     Field("Esf", "Name"), Field("Esf", "MysqlUser"), Field("Esf", "MysqlMaxIdleConns") >>
Explain ==
  INSTANCE ExplainDb WITH Contents <- {empty, x, y}, Empty <- empty, MaxBreaks <- 1,
    Settings <- {"MysqlUser", "MysqlMaxIdleConns"}, Texts <- {"Topic", "Name", "MysqlUser"},
    pc <- place, i <- index, cost <- lastCost

-----------------------------------------------------------------------------
scanVars == <<a, b, form, done>>
explainVars == <<conf, db, place, index, DbUpon, got, idle, keeps, lastCost, breaks>>
allVars == <<part, vars, scanVars, explainVars>>

RestScore == Init /\ plan = <<>> /\ cost = 0
RestScan == a = {} /\ b = {} /\ form = <<>> /\ done = FALSE
RestExplain ==
  /\ conf = <<>> /\ db = empty /\ place = "rest" /\ index = 0 /\ DbUpon = 0
  /\ got = <<>> /\ idle = <<>> /\ keeps = TRUE /\ lastCost = "none" /\ breaks = 0
StatementInit ==
  \/ part = "score" /\ Init /\ RestScan /\ RestExplain
  \/ part = "scan" /\ RestScore /\ Scan!Init /\ RestExplain
  \/ part = "explain" /\ RestScore /\ RestScan /\ Explain!Init
StatementNext ==
  \/ part = "score" /\ Next /\ UNCHANGED <<part, scanVars, explainVars>>
  \/ part = "scan" /\ Scan!Next /\ UNCHANGED <<part, vars, explainVars>>
  \/ part = "explain" /\ Explain!Next /\ UNCHANGED <<part, vars, scanVars>>
StatementSpec == StatementInit /\ [][StatementNext]_allVars

-----------------------------------------------------------------------------
\* See Fingerprint: a value leaves no trace in the fingerprint.
ValuesAreReplacedElsewhere == part = "scan" => Scan!ValuesAreReplacedElsewhere
\* See Fingerprint: only lists of one byte overrun the buffer.
OverrunByShortLists == part = "scan" => Scan!OverrunByShortLists
\* See ExplainDb: the settings are those of the block that sql.Db names.
NamedBlockIsUsed == part = "explain" => Explain!NamedBlockIsUsed
\* See ExplainDb: the cost is that of the statement.
CostIsOfStatement == part = "explain" => Explain!CostIsOfStatement
=============================================================================
