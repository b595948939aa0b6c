----------------------------- MODULE KafkaRequests -----------------------------
(***************************************************************************)
(* encode() and decode() of the requests, kafka/*_request.go.  encode is a *)
(* function of the request, decode a program for the version v.  An        *)
(* embedded structure's fields are fields of the outer one, a map's values *)
(* are records, and a nil slice or map is an empty one unless said.        *)
(***************************************************************************)
EXTENDS KafkaWire

ListGroupsRequestEncode(r) == <<>>
ListGroupsRequestDecode(v) == <<>>
ApiVersionsRequestEncode(r) == <<>>
ApiVersionsRequestDecode(v) == <<>>
SaslAuthenticateRequestEncode(r) == PutBytes(r.SaslAuthBytes)
SaslAuthenticateRequestDecode(v) == GetBytes("SaslAuthBytes")
DeleteGroupsRequestEncode(r) == PutStringArray(r.Groups)
DeleteGroupsRequestDecode(v) == GetStringArray("Groups")
DescribeGroupsRequestEncode(r) == PutStringArray(r.Groups)
DescribeGroupsRequestDecode(v) == GetStringArray("Groups")
SaslHandshakeRequestEncode(r) == PutString(r.Mechanism)
SaslHandshakeRequestDecode(v) == GetString("Mechanism")
LeaveGroupRequestEncode(r) == PutString(r.GroupId) \o PutString(r.MemberId)
LeaveGroupRequestDecode(v) == GetString("GroupId") \o GetString("MemberId")
HeartbeatRequestEncode(r) == PutString(r.GroupId) \o PutInt32(r.GenerationId) \o PutString(r.MemberId)
HeartbeatRequestDecode(v) == GetString("GroupId") \o GetInt32("GenerationId") \o GetString("MemberId")

FindCoordinatorRequestEncode(r) ==
  PutString(r.CoordinatorKey) \o When(r.Version >= 1, PutInt8(r.CoordinatorType))
FindCoordinatorRequestDecode(v) ==
  GetString("CoordinatorKey") \o When(v >= 1, SetField("Version", v) \o GetInt8("CoordinatorType"))

(* The coordinator type is CoordinatorGroup, which version 0 does not send. *)
ConsumerMetadataRequestEncode(r) ==
  FindCoordinatorRequestEncode([Version |-> 0, CoordinatorKey |-> r.ConsumerGroup, CoordinatorType |-> 0])
ConsumerMetadataRequestDecode(v) == <<[FindCoordinatorRequestDecode(v)[1] EXCEPT !.f = "ConsumerGroup"]>>

InitProducerIDRequestEncode(r) == PutNullableString(r.TransactionalID) \o PutMillis(r.TransactionTimeout)
InitProducerIDRequestDecode(v) == GetNullableString("TransactionalID") \o GetMillis("TransactionTimeout")

DeleteTopicsRequestEncode(r) == PutStringArray(r.Topics) \o PutMillis(r.Timeout)
DeleteTopicsRequestDecode(v) == GetStringArray("Topics") \o GetMillis("Timeout") \o SetField("Version", v)

EndTxnRequestEncode(r) == PutString(r.TransactionalID) \o PutInt64(r.ProducerID)
                          \o PutInt16(r.ProducerEpoch) \o PutBool(r.TransactionResult)
EndTxnRequestDecode(v) == GetString("TransactionalID") \o GetInt64("ProducerID")
                          \o GetInt16("ProducerEpoch") \o GetBool("TransactionResult")
AddOffsetsToTxnRequestEncode(r) == PutString(r.TransactionalID) \o PutInt64(r.ProducerID)
                                   \o PutInt16(r.ProducerEpoch) \o PutString(r.GroupID)
AddOffsetsToTxnRequestDecode(v) == GetString("TransactionalID") \o GetInt64("ProducerID")
                                   \o GetInt16("ProducerEpoch") \o GetString("GroupID")
AddPartitionsToTxnRequestEncode(r) ==
  PutString(r.TransactionalID) \o PutInt64(r.ProducerID) \o PutInt16(r.ProducerEpoch)
  \o PutMap(r.TopicPartitions, LAMBDA topic, p : PutString(topic) \o PutInt32Array(p.v))
AddPartitionsToTxnRequestDecode(v) ==
  GetString("TransactionalID") \o GetInt64("ProducerID") \o GetInt16("ProducerEpoch")
  \o GetMap("TopicPartitions", "string", GetInt32Array("v"))

-----------------------------------------------------------------------------
(* Access control lists. *)
AclFilterEncode(a, version) ==
  PutInt8(a.ResourceType) \o PutNullableString(a.ResourceName)
  \o When(version = 1, PutInt8(a.ResourcePatternTypeFilter))
  \o PutNullableString(a.Principal) \o PutNullableString(a.Host)
  \o PutInt8(a.Operation) \o PutInt8(a.PermissionType)
AclFilterDecode(version) ==
  GetInt8("ResourceType") \o GetNullableString("ResourceName")
  \o When(version = 1, GetInt8("ResourcePatternTypeFilter"))
  \o GetNullableString("Principal") \o GetNullableString("Host")
  \o GetInt8("Operation") \o GetInt8("PermissionType")

DescribeAclsRequestEncode(r) == AclFilterEncode(r, r.Version)
DescribeAclsRequestDecode(v) == SetField("Version", v) \o AclFilterDecode(v)
DeleteAclsRequestEncode(r) == PutArray(r.Filters, LAMBDA f : AclFilterEncode(f, r.Version))
DeleteAclsRequestDecode(v) == SetField("Version", v) \o GetArray("Filters", AclFilterDecode(v))

AclPatternUnknown == 0
AclPatternLiteral == 3
ResourceEncode(r, version) ==
  PutInt8(r.ResourceType) \o PutString(r.ResourceName)
  \o When(version = 1, PutInt8(IF r.ResourcePatternType = AclPatternUnknown
                               THEN AclPatternLiteral ELSE r.ResourcePatternType))
ResourceDecode(version) == GetInt8("ResourceType") \o GetString("ResourceName")
                           \o When(version = 1, GetInt8("ResourcePatternType"))
AclEncode(a) == PutString(a.Principal) \o PutString(a.Host) \o PutInt8(a.Operation) \o PutInt8(a.PermissionType)
AclDecode == GetString("Principal") \o GetString("Host") \o GetInt8("Operation") \o GetInt8("PermissionType")
ResourceAclsEncode(r, version) == ResourceEncode(r, version) \o PutArray(r.Acls, AclEncode)
ResourceAclsDecode(version) == ResourceDecode(version) \o GetArray("Acls", AclDecode)

AclCreationEncode(a, version) == ResourceEncode(a, version) \o AclEncode(a)
AclCreationDecode(version) == ResourceDecode(version) \o AclDecode
CreateAclsRequestEncode(r) == PutArray(r.AclCreations, LAMBDA a : AclCreationEncode(a, r.Version))
CreateAclsRequestDecode(v) == SetField("Version", v) \o GetArray("AclCreations", AclCreationDecode(v))

-----------------------------------------------------------------------------
(* Topics, metadata and configuration. *)
(* An encode whose version test is off by one. *)
OffByOneMetadataEncode(r) ==
  PutStringArray(r.Topics) \o When(r.Version > 4, PutBool(r.AllowAutoTopicCreation))
MetadataRequestEncode(r) ==
  IF r.Version < 0 \/ r.Version > 5 THEN Fail
  ELSE (IF r.Version = 0 \/ r.Topics # <<>> THEN PutStringArray(r.Topics) ELSE PutInt32(-1))
       \o When(r.Version > 3, PutBool(r.AllowAutoTopicCreation))
MetadataRequestDecode(v) == SetField("Version", v) \o GetCountedStrings("Topics")
                            \o When(v > 3, GetBool("AllowAutoTopicCreation"))

PutConfigResource(c) ==
  PutInt8(c.Type) \o PutString(c.Name)
  \o (IF c.ConfigNames = <<>> THEN PutInt32(-1) ELSE PutStringArray(c.ConfigNames))
DescribeConfigsRequestEncode(r) == PutArray(r.Resources, PutConfigResource)
                                   \o When(r.Version >= 1, PutBool(r.IncludeSynonyms))
DescribeConfigsRequestDecode(v) ==
  GetArray("Resources", GetInt8("Type") \o GetString("Name") \o GetOptionalStrings("ConfigNames"))
  \o SetField("Version", v) \o When(v >= 1, GetBool("IncludeSynonyms"))

AlterConfigsResourceEncode(r) ==
  PutInt8(r.Type) \o PutString(r.Name)
  \o PutMap(r.ConfigEntries, LAMBDA key, value : PutString(key) \o PutNullableString(value.v))
AlterConfigsResourceDecode == GetInt8("Type") \o GetString("Name")
                              \o GetMap("ConfigEntries", "string", GetNullableString("v"))
AlterConfigsRequestEncode(r) == PutArray(r.Resources, AlterConfigsResourceEncode) \o PutBool(r.ValidateOnly)
AlterConfigsRequestDecode(v) == GetArray("Resources", AlterConfigsResourceDecode) \o GetBool("ValidateOnly")

TopicPartitionEncode(t) ==
  PutInt32(t.Count)
  \o (IF t.Assignment = <<>> THEN PutInt32(-1) ELSE PutArray(t.Assignment, LAMBDA a : PutInt32Array(a.v)))
TopicPartitionDecode == GetInt32("Count") \o GetCountedArray("Assignment", GetInt32Array("v"))
CreatePartitionsRequestEncode(r) ==
  PutMap(r.TopicPartitions, LAMBDA topic, p : PutString(topic) \o TopicPartitionEncode(p))
  \o PutMillis(r.Timeout) \o PutBool(r.ValidateOnly)
CreatePartitionsRequestDecode(v) == GetMap("TopicPartitions", "string", TopicPartitionDecode)
                                    \o GetMillis("Timeout") \o GetBool("ValidateOnly")

TopicDetailEncode(t) ==
  PutInt32(t.NumPartitions) \o PutInt16(t.ReplicationFactor)
  \o PutMap(t.ReplicaAssignment, LAMBDA partition, a : PutInt32(partition) \o PutInt32Array(a.v))
  \o PutMap(t.ConfigEntries, LAMBDA key, value : PutString(key) \o PutNullableString(value.v))
TopicDetailDecode == GetInt32("NumPartitions") \o GetInt16("ReplicationFactor")
                     \o GetMap("ReplicaAssignment", "int32", GetInt32Array("v"))
                     \o GetMap("ConfigEntries", "string", GetNullableString("v"))
CreateTopicsRequestEncode(r) ==
  PutMap(r.TopicDetails, LAMBDA topic, d : PutString(topic) \o TopicDetailEncode(d))
  \o PutMillis(r.Timeout) \o When(r.Version >= 1, PutBool(r.ValidateOnly))
CreateTopicsRequestDecode(v) ==
  GetMap("TopicDetails", "string", TopicDetailDecode) \o GetMillis("Timeout")
  \o When(v >= 1, GetBool("ValidateOnly") \o SetField("Version", v))

DeleteRecordsRequestTopicEncode(t) ==
  PutMap(t.PartitionOffsets, LAMBDA partition, offset : PutInt32(partition) \o PutInt64(offset.v))
DeleteRecordsRequestTopicDecode == GetMap("PartitionOffsets", "int32", GetInt64("v"))
DeleteRecordsRequestEncode(r) ==
  PutMap(r.Topics, LAMBDA topic, t : PutString(topic) \o DeleteRecordsRequestTopicEncode(t)) \o PutMillis(r.Timeout)
DeleteRecordsRequestDecode(v) == GetMap("Topics", "string", DeleteRecordsRequestTopicDecode) \o GetMillis("Timeout")

-----------------------------------------------------------------------------
(* Groups and their offsets. *)
ConsumerGroupMemberMetadataEncode(m) == PutInt16(m.Version) \o PutStringArray(m.Topics) \o PutBytes(m.UserData)
ConsumerGroupMemberMetadataDecode(v) == GetInt16("Version") \o GetStringArray("Topics") \o GetBytes("UserData")
ConsumerGroupMemberAssignmentEncode(m) ==
  PutInt16(m.Version) \o PutMap(m.Topics, LAMBDA topic, p : PutString(topic) \o PutInt32Array(p.v))
  \o PutBytes(m.UserData)
ConsumerGroupMemberAssignmentDecode(v) ==
  GetInt16("Version") \o GetMap("Topics", "string", GetInt32Array("v")) \o GetBytes("UserData")

(* A request made by hand fills one of the two protocol fields, decode     *)
(* fills both, and both together are refused.                              *)
GroupProtocolEncode(p) == PutString(p.Name) \o PutBytes(p.Metadata)
GroupProtocolDecode == GetString("Name") \o GetBytes("Metadata")
JoinGroupRequestEncode(r) ==
  PutString(r.GroupId) \o PutInt32(r.SessionTimeout)
  \o When(r.Version >= 1, PutInt32(r.RebalanceTimeout))
  \o PutString(r.MemberId) \o PutString(r.ProtocolType)
  \o CASE r.GroupProtocols # <<>> /\ r.OrderedGroupProtocols # <<>> -> Fail
       [] r.GroupProtocols # <<>> /\ r.OrderedGroupProtocols = <<>> ->
            PutMap(r.GroupProtocols, LAMBDA name, metadata : PutString(name) \o PutBytes(metadata.v))
       [] OTHER -> PutArray(r.OrderedGroupProtocols, GroupProtocolEncode)
JoinGroupRequestDecode(v) ==
  SetField("Version", v) \o GetString("GroupId") \o GetInt32("SessionTimeout")
  \o When(v >= 1, GetInt32("RebalanceTimeout"))
  \o GetString("MemberId") \o GetString("ProtocolType")
  \o GetArray("OrderedGroupProtocols", GroupProtocolDecode)
  \o IndexBy("GroupProtocols", "OrderedGroupProtocols", "Name", "Metadata")

SyncGroupRequestEncode(r) ==
  PutString(r.GroupId) \o PutInt32(r.GenerationId) \o PutString(r.MemberId)
  \o PutMap(r.GroupAssignments, LAMBDA member, a : PutString(member) \o PutBytes(a.v))
SyncGroupRequestDecode(v) ==
  GetString("GroupId") \o GetInt32("GenerationId") \o GetString("MemberId")
  \o GetMap("GroupAssignments", "string", GetBytes("v"))

(* From version 2 on no partitions at all, nil, asks for all of them. *)
OffsetFetchRequestEncode(r) ==
  IF r.Version < 0 \/ r.Version > 5 THEN Fail
  ELSE PutString(r.ConsumerGroup)
       \o (IF r.Version >= 2 /\ r.partitions.nil THEN PutInt32(-1)
           ELSE PutMap(r.partitions.m, LAMBDA topic, p : PutString(topic) \o PutInt32Array(p.v)))
OffsetFetchRequestDecode(v) ==
  SetField("Version", v) \o GetString("ConsumerGroup")
  \o GetNullableMap("partitions", "string", GetInt32Array("v"), v < 2)

offsetCommitRequestBlockEncode(b, version) ==
  PutInt64(b.offset) \o When(version = 1, PutInt64(b.timestamp)) \o PutString(b.metadata)
offsetCommitRequestBlockDecode(version) ==
  GetInt64("offset") \o When(version = 1, GetInt64("timestamp")) \o GetString("metadata")
OffsetCommitRequestEncode(r) ==
  IF r.Version < 0 \/ r.Version > 4 THEN Fail
  ELSE PutString(r.ConsumerGroup)
       \o When(r.Version >= 1, PutInt32(r.ConsumerGroupGeneration) \o PutString(r.ConsumerID))
       \o When(r.Version >= 2, PutInt64(r.RetentionTime))
       \o PutTopics(r.blocks, LAMBDA b : offsetCommitRequestBlockEncode(b, r.Version))
OffsetCommitRequestDecode(v) ==
  SetField("Version", v) \o GetString("ConsumerGroup")
  \o When(v >= 1, GetInt32("ConsumerGroupGeneration") \o GetString("ConsumerID"))
  \o When(v >= 2, GetInt64("RetentionTime"))
  \o GetTopics("blocks", offsetCommitRequestBlockDecode(v))

PartitionOffsetMetadataEncode(p) == PutInt32(p.Partition) \o PutInt64(p.Offset) \o PutNullableString(p.Metadata)
PartitionOffsetMetadataDecode == GetInt32("Partition") \o GetInt64("Offset") \o GetNullableString("Metadata")
TxnOffsetCommitRequestEncode(r) ==
  PutString(r.TransactionalID) \o PutString(r.GroupID) \o PutInt64(r.ProducerID) \o PutInt16(r.ProducerEpoch)
  \o PutMap(r.Topics, LAMBDA topic, p : PutString(topic) \o PutArray(p.v, PartitionOffsetMetadataEncode))
TxnOffsetCommitRequestDecode(v) ==
  GetString("TransactionalID") \o GetString("GroupID") \o GetInt64("ProducerID") \o GetInt16("ProducerEpoch")
  \o GetMap("Topics", "string", GetArray("v", PartitionOffsetMetadataDecode))

(* A replica identifier of -1 stands for one that was not set. *)
offsetRequestBlockEncode(b, version) == PutInt64(b.time) \o When(version = 0, PutInt32(b.maxOffsets))
offsetRequestBlockDecode(version) == GetInt64("time") \o When(version = 0, GetInt32("maxOffsets"))
OffsetRequestEncode(r) ==
  PutInt32(IF r.replicaID.set THEN r.replicaID.id ELSE -1)
  \o PutTopics(r.blocks, LAMBDA b : offsetRequestBlockEncode(b, r.Version))
OffsetRequestDecode(v) == SetField("Version", v) \o Get("replica", "replicaID") \o GetTopics("blocks", offsetRequestBlockDecode(v))

fetchRequestBlockEncode(b) == PutInt64(b.fetchOffset) \o PutInt32(b.maxBytes)
fetchRequestBlockDecode == GetInt64("fetchOffset") \o GetInt32("maxBytes")
FetchRequestEncode(r) ==
  PutInt32(-1) \o PutInt32(r.MaxWaitTime) \o PutInt32(r.MinBytes)
  \o When(r.Version >= 3, PutInt32(r.MaxBytes)) \o When(r.Version >= 4, PutInt8(r.Isolation))
  \o PutTopics(r.blocks, fetchRequestBlockEncode)
FetchRequestDecode(v) ==
  SetField("Version", v) \o SkipInt32 \o GetInt32("MaxWaitTime") \o GetInt32("MinBytes")
  \o When(v >= 3, GetInt32("MaxBytes")) \o When(v >= 4, GetInt8("Isolation"))
  \o GetTopics("blocks", fetchRequestBlockDecode)
=============================================================================
