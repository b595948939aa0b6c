----------------------------- MODULE KafkaAdmin -----------------------------
(***************************************************************************)
(* ClusterAdmin (kafka/admin.go): the administrative calls on a cluster.   *)
(* A call builds a request in a version that depends on conf.Version, the  *)
(* gate of Broker.send refuses a request that this version does not know,  *)
(* and the cluster applies the request, refuses its item in the response,  *)
(* or the connection fails.  ListConsumerGroups asks all brokers at once.  *)
(***************************************************************************)
EXTENDS KafkaVersions, FiniteSets

CONSTANTS ClusterVersions,     \* the values of conf.Version
          Brokers,      \* the brokers of the cluster
          Groups,       \* the consumer groups
          CoordinatorOf,\* the broker of each group
          MaxCalls      \* bound: calls

VARIABLES version,   \* conf.Version
          calls,     \* calls so far
          op, only,  \* the call, and its argument validateOnly
          pc,        \* where it is
          req,       \* the request that was sent
          reply,     \* what the cluster said of the item
          applied,   \* whether the cluster did what the call asks
          ret,       \* what the call returned
          at,        \* the goroutine of each broker in ListConsumerGroups
          groupMaps, errors,  \* its channels: a broker with its groups, a broker
          result     \* the groups returned or collected so far
fanVars == <<at, groupMaps, errors>>
vars == <<version, calls, op, only, pc, req, reply, applied, ret, at, groupMaps, errors, result>>

Atleast(w) == IsAtLeast(version, w)
NoRequest == [key |-> -1, version |-> 0, requires |-> MinVersion]

Init ==
  /\ version \in ClusterVersions
  /\ calls = 0
  /\ op = "none" /\ only = FALSE /\ pc = "new" /\ ret = "none"
  /\ req = NoRequest /\ reply = "none" /\ applied = FALSE
  /\ at = [b \in Brokers |-> "none"] /\ groupMaps = {} /\ errors = <<>>
  /\ result = {}

Return(e) == ret' = e /\ pc' = "idle"

(* NewClusterAdmin makes sure that there is a controller, which only       *)
(* brokers from 0.10.0.0 on report.                                        *)
NewClusterAdmin ==
  /\ pc = "new"
  /\ \/ Atleast(V0_10_0_0) /\ Return("none")
     \/ pc' = "failed" /\ UNCHANGED ret
  /\ UNCHANGED <<version, calls, op, only, req, reply, applied, fanVars, result>>

Close ==
  /\ pc = "idle"
  /\ pc' = "closed"
  /\ UNCHANGED <<version, calls, op, only, req, reply, applied, ret, fanVars, result>>

-----------------------------------------------------------------------------
(* The gate of Broker.send. *)
Sends(api) ==
  IF Atleast(api.requires)
  THEN req' = api /\ pc' = "sent" /\ UNCHANGED ret
  ELSE Return("ErrUnsupportedVersion") /\ UNCHANGED req

Begin(o, v) ==
  /\ pc = "idle" /\ calls < MaxCalls
  /\ calls' = calls + 1
  /\ op' = o /\ only' = v
  /\ reply' = "none" /\ applied' = FALSE /\ result' = {}
  /\ UNCHANGED version

(* A call that asks one broker: the controller, which may be unknown, the  *)
(* coordinator of a group, or any broker.                                  *)
Ask(o, v, api) ==
  /\ Begin(o, v)
  /\ \/ Sends(api)
     \/ Return("ErrControllerNotAvailable") /\ UNCHANGED req
  /\ UNCHANGED fanVars

CreateTopicVersionOf == IF Atleast(V1_0_0_0) THEN 2 ELSE IF Atleast(V0_11_0_0) THEN 1 ELSE 0
CreateTopic(v) == Ask("CreateTopic", v, CreateTopicsRequestApi(CreateTopicVersionOf))
DescribeTopics ==
  Ask("DescribeTopics", FALSE,
      MetadataRequestApi(IF Atleast(V1_0_0_0) THEN 5 ELSE IF Atleast(V0_11_0_0) THEN 4 ELSE 0))
DescribeCluster == Ask("DescribeCluster", FALSE, MetadataRequestApi(0))
ListTopics == Ask("ListTopics", FALSE, MetadataRequestApi(0))
DeleteTopic == Ask("DeleteTopic", FALSE, DeleteTopicsRequestApi(IF Atleast(V0_11_0_0) THEN 1 ELSE 0))
CreatePartitions(v) == Ask("CreatePartitions", v, CreatePartitionsRequestApi(0))
DeleteRecords == Ask("DeleteRecords", FALSE, DeleteRecordsRequestApi(0))
DescribeConfig == Ask("DescribeConfig", FALSE, DescribeConfigsRequestApi(0))
AlterConfig(v) == Ask("AlterConfig", v, AlterConfigsRequestApi(0))
CreateACL == Ask("CreateACL", FALSE, CreateAclsRequestApi(0))
ListAcls == Ask("ListAcls", FALSE, DescribeAclsRequestApi(0))
DeleteACL(v) == Ask("DeleteACL", v, DeleteAclsRequestApi(0))
ListConsumerGroupOffsets ==
  Ask("ListConsumerGroupOffsets", FALSE, OffsetFetchRequestApi(IF Atleast(V0_8_2_2) THEN 1 ELSE 0))

(* validateOnly as it goes over the wire: version 0 of CreateTopicsRequest *)
(* has no such field, and two calls never set it.                          *)
OnTheWire ==
  only /\ (op = "AlterConfig" \/ (op = "CreateTopic" /\ req.version >= 1))

(* The cluster: it applies the item, refuses it with or without a message, *)
(* or leaves it out of the response.                                       *)
Serve(r) ==
  /\ pc = "sent"
  /\ pc' = "answered"
  /\ reply' = r
  /\ applied' = (r = "done" /\ ~OnTheWire)
  /\ UNCHANGED <<version, calls, op, only, req, ret, fanVars, result>>

(* The connection fails, before or after the cluster got the request. *)
Fail ==
  /\ pc = "sent"
  /\ Return("io error")
  /\ applied' \in {FALSE, ~OnTheWire}
  /\ UNCHANGED <<version, calls, op, only, req, reply, fanVars, result>>

(* What the calls make of the response.  One that reports only refusals    *)
(* with a message.                                                         *)
ItemErrors == {"CreateTopic", "DeleteTopic", "CreatePartitions"}
ResultByMessage ==
  CASE op \in ItemErrors \cup {"AlterConfig", "DescribeConfig"} /\ reply = "refused" -> "item error"
    [] op \in ItemErrors \cup {"DeleteRecords"} /\ reply = "left out" -> "ErrIncompleteResponse"
    [] OTHER -> "nil"
Result ==
  CASE op \in ItemErrors /\ reply \in {"refused", "refused silently"} -> "item error"
    [] op \in ItemErrors \cup {"DeleteRecords"} /\ reply = "left out" -> "ErrIncompleteResponse"
    [] op \in {"AlterConfig", "DescribeConfig"} /\ reply = "refused" -> "item error"
    [] OTHER -> "nil"
Answer ==
  /\ pc = "answered"
  /\ IF op = "ListTopics" /\ req.key = MetadataRequestApi(0).key
     THEN Sends(DescribeConfigsRequestApi(0))
     ELSE Return(Result) /\ UNCHANGED req
  /\ UNCHANGED <<version, calls, op, only, reply, applied, fanVars, result>>

-----------------------------------------------------------------------------
(* ListConsumerGroups: one goroutine per broker, two channels with a place *)
(* for each, a WaitGroup.  Channels with one place only.                   *)
GroupsOf(b) == {g \in Groups : CoordinatorOf[g] = b}
ListConsumerGroups ==
  /\ Begin("ListConsumerGroups", FALSE)
  /\ at' = [b \in Brokers |-> "running"] /\ groupMaps' = {} /\ errors' = <<>>
  /\ pc' = "wait"
  /\ UNCHANGED <<req, ret>>

OnePlace(n) == n < 1
Place(n) == n < Cardinality(Brokers)
(* The broker lists its groups or answers with an error code and none; the *)
(* goroutine does not look at the code.                                    *)
ListBroker(b) ==
  /\ pc = "wait" /\ at[b] = "running"
  /\ \/ /\ Place(Cardinality(groupMaps))
        /\ \E gs \in {GroupsOf(b), {}} : groupMaps' = groupMaps \cup {<<b, gs>>}
        /\ Atleast(ListGroupsRequestApi(0).requires)
        /\ UNCHANGED errors
     \/ /\ Place(Len(errors)) /\ errors' = Append(errors, b)
        /\ UNCHANGED groupMaps
  /\ at' = [at EXCEPT ![b] = "done"]
  /\ UNCHANGED <<version, calls, op, only, pc, req, reply, applied, ret, result>>

ListWait ==
  /\ pc = "wait"
  /\ \A b \in Brokers : at[b] = "done"
  /\ result' = UNION {m[2] : m \in groupMaps}
  /\ Return(IF errors = <<>> THEN "nil" ELSE "io error")
  /\ UNCHANGED <<version, calls, op, only, req, reply, applied, fanVars>>
(* DescribeConsumerGroups finds the coordinators of the groups, and asks   *)
(* them one after the other in the order of a map.                         *)
DescribeConsumerGroups(gs) ==
  /\ Begin("DescribeConsumerGroups", FALSE)
  /\ \/ at' = [b \in Brokers |-> IF \E g \in gs : CoordinatorOf[g] = b THEN "running" ELSE "none"]
        /\ pc' = "describe" /\ UNCHANGED ret
     \/ Return("ErrConsumerCoordinatorNotAvailable") /\ UNCHANGED at
  /\ UNCHANGED <<req, groupMaps, errors>>
DescribeBroker(b) ==
  /\ pc = "describe" /\ at[b] = "running"
  /\ \/ /\ Atleast(DescribeGroupsRequestApi(0).requires)
        /\ result' = result \cup GroupsOf(b)
        /\ at' = [at EXCEPT ![b] = "done"]
        /\ UNCHANGED <<pc, ret>>
     \/ Return("io error") /\ result' = {} /\ UNCHANGED at
  /\ UNCHANGED <<version, calls, op, only, req, reply, applied, groupMaps, errors>>
DescribeEnd ==
  /\ pc = "describe"
  /\ \A b \in Brokers : at[b] # "running"
  /\ Return("nil")
  /\ UNCHANGED <<version, calls, op, only, req, reply, applied, fanVars, result>>

Call ==
  \/ \E v \in BOOLEAN : CreateTopic(v) \/ CreatePartitions(v) \/ AlterConfig(v) \/ DeleteACL(v)
  \/ DescribeTopics \/ DescribeCluster \/ ListTopics \/ DeleteTopic \/ DeleteRecords \/ DescribeConfig
  \/ CreateACL \/ ListAcls \/ ListConsumerGroupOffsets \/ ListConsumerGroups
  \/ DescribeConsumerGroups(Groups)
Step ==
  \/ Answer \/ ListWait \/ DescribeEnd
  \/ \E b \in Brokers : ListBroker(b) \/ DescribeBroker(b)
Cluster == Fail \/ \E r \in {"done", "refused", "refused silently", "left out"} : Serve(r)
Next == NewClusterAdmin \/ Close \/ Call \/ Step \/ Cluster
(* A request is answered, or its connection times out. *)
Fairness == WF_vars(Step) /\ WF_vars(Cluster)
Spec == Init /\ [][Next]_vars /\ Fairness

-----------------------------------------------------------------------------
(* NilMeansDone: a call that changes the cluster returns nil only when the *)
(* cluster did what was asked.  Exempt are the calls that do not look at   *)
(* the errors of the items, and AlterConfig, which looks at the message    *)
(* but not at the code of an error (admin.go:397, :461, :479).  A list of  *)
(* groups returned without an error has those of all brokers (admin.go:554), *)
(* except of one that answered with an error code, which ListConsumerGroups *)
(* does not look at (admin.go:569); descriptions are of all groups.        *)
(* Nor is more done than asked: CreateTopic with validateOnly creates      *)
(* nothing, except below 0.11, although admin.go:17 promises it from       *)
(* 0.10.2.0 on; the request has no such field yet (admin.go:145).          *)
Unchecked == {"DeleteRecords", "CreateACL", "DeleteACL"}
NilMeansDone ==
  /\ pc = "idle" /\ ret = "nil" /\ ~only /\ ~applied =>
       \/ op \in Unchecked
       \/ op = "AlterConfig" /\ reply \in {"refused silently", "left out"}
       \/ op \notin ItemErrors \cup {"AlterConfig"}
  /\ pc = "idle" /\ ret = "nil" /\ op = "DescribeConsumerGroups" => result = Groups
  /\ pc = "idle" /\ ret = "nil" /\ op = "ListConsumerGroups" =>
       \A g \in Groups \ result : <<CoordinatorOf[g], {}>> \in groupMaps
  /\ op = "CreateTopic" /\ only /\ applied => ~Atleast(V0_11_0_0)

(* CallsReturn: every call returns; in particular no goroutine of          *)
(* ListConsumerGroups waits for ever on its channel (admin.go:559).        *)
CallsReturn == pc # "idle" /\ pc # "new" ~> pc \in {"idle", "failed", "closed"}
=============================================================================
