--------------------------- MODULE MCKafkaMessages ---------------------------
(***************************************************************************)
(* For TLC: the messages of the protocol (KafkaCodec), the records of a    *)
(* fetch response (KafkaFetch) and the administrative calls (KafkaAdmin).  *)
(* They share no state; the initial state chooses the one that runs.       *)
(***************************************************************************)
EXTENDS KafkaCodec

CONSTANTS b1, b2, b3, g1, g2

VARIABLES part,
          log, wire, block,
          version, calls, op, only, pc, req, reply, applied, ret, place, groupMaps, errors, result

-----------------------------------------------------------------------------
(* Every message. *)
MCNames == {"ProduceRequest", "FetchRequest", "OffsetRequest", 
"MetadataRequest", "OffsetCommitRequest", "OffsetFetchRequest", 
"FindCoordinatorRequest", "JoinGroupRequest", "HeartbeatRequest", 
"LeaveGroupRequest", "SyncGroupRequest", "DescribeGroupsRequest", 
"ListGroupsRequest", "SaslHandshakeRequest", "ApiVersionsRequest", 
"CreateTopicsRequest", "DeleteTopicsRequest", "DeleteRecordsRequest", 
"InitProducerIDRequest", "AddPartitionsToTxnRequest", 
"AddOffsetsToTxnRequest", "EndTxnRequest", "TxnOffsetCommitRequest", 
"DescribeAclsRequest", "CreateAclsRequest", "DeleteAclsRequest", 
"DescribeConfigsRequest", "AlterConfigsRequest", "SaslAuthenticateRequest", 
"CreatePartitionsRequest", "DeleteGroupsRequest", "ConsumerMetadataRequest", 
"ConsumerGroupMemberMetadata", "ConsumerGroupMemberAssignment", 
"HeartbeatResponse", "LeaveGroupResponse", "SyncGroupResponse", 
"SaslHandshakeResponse", "SaslAuthenticateResponse", "EndTxnResponse", 
"AddOffsetsToTxnResponse", "InitProducerIDResponse", "ListGroupsResponse", 
"DeleteGroupsResponse", "FindCoordinatorResponse", 
"ConsumerMetadataResponse", "MetadataResponse", "DescribeAclsResponse", 
"CreateAclsResponse", "DeleteAclsResponse", "ApiVersionsResponse", 
"AlterConfigsResponse", "DescribeConfigsResponse", 
"CreatePartitionsResponse", "CreateTopicsResponse", "DeleteTopicsResponse", 
"DeleteRecordsResponse", "JoinGroupResponse", "DescribeGroupsResponse", 
"OffsetResponse", "OffsetFetchResponse", "OffsetCommitResponse", 
"AddPartitionsToTxnResponse", "TxnOffsetCommitResponse", "ProduceResponse", 
"FetchResponse"}

-----------------------------------------------------------------------------
(* Message sets of both versions, compressed and not, batches compressed,  *)
(* empty and with a transaction marker, one or two after each other.       *)
MC_Value(i) == [n |-> i, id |-> <<i>>]
MC_Message(magic, i) ==
  [Offset |-> i, Msg |-> [Version |-> magic, Codec |-> 0, LogAppendTime |-> FALSE,
     Timestamp |-> IF magic = 1 THEN Millisecond * i ELSE ZeroTime, Key |-> Nil, Value |-> MC_Value(i), Set |-> <<>>]]
MC_Compressed(i, ms) ==
  [Offset |-> i, Msg |-> [Version |-> 1, Codec |-> 2, LogAppendTime |-> FALSE, Timestamp |-> ZeroTime,
     Key |-> Nil, Value |-> Packed(Encoded(MessageSetEncode(ms))), Set |-> ms]]
MC_Record(i, key, value) ==
  [Attributes |-> 0, TimestampDelta |-> 0, OffsetDelta |-> i, Key |-> key, Value |-> value,
   Headers |-> IF i = 1 THEN <<[Key |-> MC_Value(3), Value |-> Nil]>> ELSE <<>>]
MC_Batch(codec, control, first, epoch, records) ==
  [FirstOffset |-> first, PartitionLeaderEpoch |-> 0, Version |-> 2, Codec |-> codec, Control |-> control,
   LogAppendTime |-> FALSE, IsTransactional |-> control, LastOffsetDelta |-> 1, FirstTimestamp |-> ZeroTime,
   MaxTimestamp |-> ZeroTime, ProducerID |-> 5, ProducerEpoch |-> epoch, FirstSequence |-> 0,
   Records |-> records, Partial |-> FALSE]
MC_Marker(type) ==
  LET c == ControlRecordEncode([Version |-> 0, Type |-> type, CoordinatorEpoch |-> 3])
  IN  MC_Batch(0, TRUE, 9, type, <<MC_Record(0, c.Key, c.Value)>>)

MC_Parts ==
  {Legacy(<<MC_Message(0, 1), MC_Message(1, 2)>>),
   Legacy(<<MC_Compressed(4, <<MC_Message(1, 3), MC_Message(1, 4)>>)>>),
   Default(MC_Batch(0, FALSE, 5, 0, <<MC_Record(0, Nil, MC_Value(2)), MC_Record(1, MC_Value(1), MC_Value(4))>>)),
   Default(MC_Batch(1, FALSE, 7, 0, <<MC_Record(0, Nil, MC_Value(70))>>)),
   Default(MC_Batch(0, FALSE, 8, 0, <<>>)),
   Default(MC_Marker(ControlRecordAbort)), Default(MC_Marker(ControlRecordCommit))}
MC_Logs == {<<p>> : p \in MC_Parts} \cup {<<p, q>> : p \in MC_Parts, q \in MC_Parts}
Fetch == INSTANCE KafkaFetch WITH Logs <- MC_Logs

-----------------------------------------------------------------------------
(* The versions at which a call changes its request. *)
Admin ==
  INSTANCE KafkaAdmin WITH
    ClusterVersions <- {V0_9_0_0, V0_10_0_0, V0_10_1_0, V0_10_2_0, V0_11_0_0, V1_0_0_0, V2_2_0_0},
    Brokers <- {b1, b2, b3}, Groups <- {g1, g2}, MaxCalls <- 2,
    CoordinatorOf <- [g \in {g1, g2} |-> IF g = g1 THEN b1 ELSE b2],
    at <- place

-----------------------------------------------------------------------------
fetchVars == <<log, wire, block>>
adminVars == <<version, calls, op, only, pc, req, reply, applied, ret, place, groupMaps, errors, result>>
allVars == <<part, vars, fetchVars, adminVars>>

RestCodec == at = "rest" /\ sent = <<>> /\ todo = <<>> /\ prep = <<>> /\ real = <<>> /\ buf = <<>> /\ got = <<>>
RestFetch == log = <<>> /\ wire = <<>> /\ block = Fetch!NoBlock
RestAdmin == Admin!Init /\ version = V2_2_0_0
MessagesInit ==
  \/ part = "codec" /\ Init /\ RestFetch /\ RestAdmin
  \/ part = "fetch" /\ RestCodec /\ Fetch!Init /\ RestAdmin
  \/ part = "admin" /\ RestCodec /\ RestFetch /\ Admin!Init
MessagesNext ==
  \/ part = "codec" /\ Next /\ UNCHANGED <<part, fetchVars, adminVars>>
  \/ part = "fetch" /\ Fetch!Next /\ UNCHANGED <<part, vars, adminVars>>
  \/ part = "admin" /\ Admin!Next /\ UNCHANGED <<part, vars, fetchVars>>
(* Admin at rest has no step to take. *)
MessagesSpec == MessagesInit /\ [][MessagesNext]_allVars /\ Admin!Fairness

-----------------------------------------------------------------------------
(* See KafkaFetch: the records that arrived completely are returned, and a *)
(* block without any is known to be partial.                               *)
WholeRecordsReturned == Fetch!WholeRecordsReturned
(* See KafkaAdmin: the cluster did what was asked, no less and no more.    *)
NilMeansDone == Admin!NilMeansDone
(* See KafkaAdmin: every call returns.                                     *)
CallsReturn == Admin!CallsReturn
=============================================================================
