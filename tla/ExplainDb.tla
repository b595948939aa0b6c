------------------------------ MODULE ExplainDb ------------------------------
(***************************************************************************)
(* How ExcuteDbSql (lib/explain.go) finds the database of a statement.     *)
(* It looks through the fields of AppConfig for a text equal to sql.Db,    *)
(* takes the name of the field as the name of a block of settings, and     *)
(* explains the statement on a pool of its own.  A field is a record of    *)
(* its block and its part: [block |-> "Esf", part |-> "Name"] is the field *)
(* Esf, and part "MysqlHost" the field Esf_MysqlHost.                      *)
(***************************************************************************)
EXTENDS Integers, Sequences, FiniteSets

CONSTANTS Fields,    \* the fields of AppConfig, in their order
          Contents,  \* the values of the fields that are texts
          Empty,     \* the empty text
          Settings,  \* the parts that are settings of a connection
          Texts,     \* the parts of type string
          MaxBreaks  \* bound: connections that break

VARIABLES conf,      \* the AppConfig
          db,        \* sql.Db
          pc, i,     \* where the call is, and the index of its loop
          DbUpon,    \* the index of the field found, 0 for the empty text
          got,       \* Host, Db, User and so on
          idle,      \* the connections that the pool keeps: the last cost of each
          keeps,     \* whether the pool keeps connections that are not in use
          cost,      \* Last_query_cost of the result
          breaks     \* connections that broke so far
vars == <<conf, db, pc, i, DbUpon, got, idle, keeps, cost, breaks>>

NumField == Len(Fields)
FieldName(block, part) == {k \in DOMAIN Fields : Fields[k] = [block |-> block, part |-> part]}
Unset == [s \in Settings |-> Empty]

Init ==
  /\ conf \in [DOMAIN Fields -> Contents]
  /\ db \in Contents
  /\ pc = "find" /\ i = 1
  /\ DbUpon = 0
  /\ got = Unset
  /\ idle = <<>>
  /\ keeps = TRUE
  /\ cost = "none"
  /\ breaks = 0

(* The first loop: the last field whose text is sql.Db.  A loop that       *)
(* forgets the field when the next one differs.                            *)
FindForgets ==
  /\ pc = "find"
  /\ DbUpon' = IF Fields[i].part \in Texts /\ conf[i] = db THEN i ELSE 0
  /\ i' = IF i = NumField THEN 1 ELSE i + 1
  /\ pc' = IF i = NumField THEN "read" ELSE "find"
  /\ UNCHANGED <<conf, db, got, idle, keeps, cost, breaks>>
Find ==
  /\ pc = "find"
  /\ DbUpon' = IF Fields[i].part \in Texts /\ conf[i] = db THEN i ELSE DbUpon
  /\ i' = IF i = NumField THEN 1 ELSE i + 1
  /\ pc' = IF i = NumField THEN "read" ELSE "find"
  /\ UNCHANGED <<conf, db, got, idle, keeps, cost, breaks>>

(* The second loop: the fields called DbUpon + "_MysqlHost" and so on.     *)
(* A field that holds a setting is itself no name of a block.              *)
Read ==
  /\ pc = "read"
  /\ got' = IF /\ Fields[i].part \in Settings
               /\ DbUpon # 0 /\ Fields[DbUpon] = [block |-> Fields[i].block, part |-> "Name"]
            THEN [got EXCEPT ![Fields[i].part] = conf[i]] ELSE got
  /\ i' = IF i = NumField THEN 1 ELSE i + 1
  /\ pc' = IF i = NumField THEN "open" ELSE "read"
  /\ UNCHANGED <<conf, db, DbUpon, idle, keeps, cost, breaks>>

-----------------------------------------------------------------------------
(* InitMySQLPool.  A failed Ping leaves the pool with its own limits; else *)
(* MaxIdleConns decides whether it keeps connections.                      *)
Open ==
  /\ pc = "open"
  /\ \/ idle' = <<>> /\ UNCHANGED keeps
     \/ /\ keeps' = (got["MysqlMaxIdleConns"] # Empty)
        /\ idle' = IF keeps' THEN <<"zero">> ELSE <<>>
  /\ pc' = "explain"
  /\ UNCHANGED <<conf, db, i, DbUpon, got, cost, breaks>>

(* A query uses the connection that was put back last, or a new one, and   *)
(* puts it back.  c is the last cost of the session, before and after.   *)
Session == IF idle = <<>> THEN "zero" ELSE idle[Len(idle)]
(* A client that holds on to its rows, so that the next query takes        *)
(* another connection.                                                     *)
PutBackLater(c) == idle' = <<>>
PutBack(c) ==
  idle' = IF ~keeps THEN <<>> ELSE IF idle = <<>> THEN <<c>> ELSE [idle EXCEPT ![Len(idle)] = c]

Explain ==
  /\ pc = "explain"
  /\ \/ PutBack("statement") \/ PutBack("failed")
  /\ pc' = "cost"
  /\ UNCHANGED <<conf, db, i, DbUpon, got, keeps, cost, breaks>>
LastQueryCost ==
  /\ pc = "cost"
  /\ \/ cost' = Session /\ PutBack(Session)
     \/ UNCHANGED <<cost, idle>>
  /\ pc' = "score"
  /\ UNCHANGED <<conf, db, i, DbUpon, got, keeps, breaks>>

(* The server closes a connection that is idle. *)
Break ==
  /\ idle # <<>> /\ breaks < MaxBreaks
  /\ breaks' = breaks + 1
  /\ idle' = SubSeq(idle, 1, Len(idle) - 1)
  /\ UNCHANGED <<conf, db, pc, i, DbUpon, got, keeps, cost>>

(* defer mysql_client.Close(), and go getScore. *)
Close ==
  /\ pc = "score"
  /\ pc' = "done"
  /\ idle' = <<>>
  /\ UNCHANGED <<conf, db, i, DbUpon, got, keeps, cost, breaks>>

Next == Find \/ Read \/ Open \/ Explain \/ LastQueryCost \/ Break \/ Close
Spec == Init /\ [][Next]_vars

-----------------------------------------------------------------------------
Holders == {k \in DOMAIN Fields : Fields[k].part \in Texts /\ conf[k] = db}
SettingsOf(block) ==
  [s \in Settings |-> conf[CHOOSE k \in FieldName(block, s) : TRUE]]

(* NamedBlockIsUsed: the settings are those of one block, or all empty;    *)
(* the host of one database never goes with the password of another        *)
(* (explain.go:71).  When no other text of the configuration is equal to   *)
(* the name of a block, statements of that database are explained with its *)
(* settings (explain.go:65).  A user, a topic or an empty text that equals *)
(* sql.Db and comes later hides the block.                                 *)
NamedBlockIsUsed ==
  /\ pc \notin {"find", "read"} =>
       got = Unset \/ \E k \in DOMAIN Fields : Fields[k].part = "Name" /\ got = SettingsOf(Fields[k].block)
  /\ \A k \in Holders :
     pc \notin {"find", "read"} /\ Holders = {k} /\ Fields[k].part = "Name" => got = SettingsOf(Fields[k].block)

(* CostIsOfStatement: the cost that is stored with a statement is the cost *)
(* of that statement, unless it could not be explained, a connection broke *)
(* or the pool keeps no connection: Last_query_cost belongs to a session   *)
(* and the two queries are separate calls of the pool (explain.go:135).    *)
CostIsOfStatement ==
  cost = "zero" => breaks > 0 \/ ~keeps
=============================================================================
