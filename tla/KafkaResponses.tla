---------------------------- MODULE KafkaResponses ----------------------------
(***************************************************************************)
(* encode() and decode() of the responses, kafka/*_response.go, and of the *)
(* broker addresses in them.  Produce responses are here, fetch responses  *)
(* with the record formats in KafkaRecords.                                *)
(***************************************************************************)
EXTENDS KafkaRequests

HeartbeatResponseEncode(r) == PutInt16(r.Err)
HeartbeatResponseDecode(v) == GetInt16("Err")
LeaveGroupResponseEncode(r) == PutInt16(r.Err)
LeaveGroupResponseDecode(v) == GetInt16("Err")
SyncGroupResponseEncode(r) == PutInt16(r.Err) \o PutBytes(r.MemberAssignment)
SyncGroupResponseDecode(v) == GetInt16("Err") \o GetBytes("MemberAssignment")
SaslHandshakeResponseEncode(r) == PutInt16(r.Err) \o PutStringArray(r.EnabledMechanisms)
SaslHandshakeResponseDecode(v) == GetInt16("Err") \o GetStringArray("EnabledMechanisms")
SaslAuthenticateResponseEncode(r) == PutInt16(r.Err) \o PutNullableString(r.ErrorMessage) \o PutBytes(r.SaslAuthBytes)
SaslAuthenticateResponseDecode(v) == GetInt16("Err") \o GetNullableString("ErrorMessage") \o GetBytes("SaslAuthBytes")
EndTxnResponseEncode(r) == PutMillis(r.ThrottleTime) \o PutInt16(r.Err)
EndTxnResponseDecode(v) == GetMillis("ThrottleTime") \o GetInt16("Err")
AddOffsetsToTxnResponseEncode(r) == PutMillis(r.ThrottleTime) \o PutInt16(r.Err)
AddOffsetsToTxnResponseDecode(v) == GetMillis("ThrottleTime") \o GetInt16("Err")
InitProducerIDResponseEncode(r) ==
  PutMillis(r.ThrottleTime) \o PutInt16(r.Err) \o PutInt64(r.ProducerID) \o PutInt16(r.ProducerEpoch)
InitProducerIDResponseDecode(v) ==
  GetMillis("ThrottleTime") \o GetInt16("Err") \o GetInt64("ProducerID") \o GetInt16("ProducerEpoch")
ListGroupsResponseEncode(r) ==
  PutInt16(r.Err) \o PutMap(r.Groups, LAMBDA group, type : PutString(group) \o PutString(type.v))
ListGroupsResponseDecode(v) == GetInt16("Err") \o GetMap("Groups", "string", GetString("v"))
DeleteGroupsResponseEncode(r) ==
  PutMillis(r.ThrottleTime) \o PutMap(r.GroupErrorCodes, LAMBDA group, code : PutString(group) \o PutInt16(code.v))
DeleteGroupsResponseDecode(v) == GetMillis("ThrottleTime") \o GetMap("GroupErrorCodes", "string", GetInt16("v"))

-----------------------------------------------------------------------------
(* A broker's address is a host and a port; the nil broker is NilBroker.   *)
NilBroker == [id |-> -2, host |-> Empty, port |-> -2]
NoNode == [id |-> -1, host |-> Empty, port |-> -1]
BrokerEncode(b, version) == PutInt32(b.id) \o PutString(b.host) \o PutInt32(b.port)
                            \o When(version >= 1, PutNullableString(b.rack))
BrokerDecode(version) == GetInt32("id") \o GetString("host") \o GetInt32("port")
                         \o When(version >= 1, GetNullableString("rack"))

FindCoordinatorResponseEncode(r) ==
  When(r.Version >= 1, PutMillis(r.ThrottleTime)) \o PutInt16(r.Err)
  \o When(r.Version >= 1, PutNullableString(r.ErrMsg))
  \o BrokerEncode(IF r.Coordinator = NilBroker THEN NoNode ELSE r.Coordinator, 0)
FindCoordinatorResponseDecode(v) ==
  When(v >= 1, SetField("Version", v) \o GetMillis("ThrottleTime")) \o GetInt16("Err")
  \o When(v >= 1, GetNullableString("ErrMsg"))
  \o GetStruct("Coordinator", BrokerDecode(0)) \o ForgetBroker("Coordinator", NilBroker)

(* The deprecated CoordinatorID, Host and Port are the broker's fields, or *)
(* make the broker when there is none.                                     *)
ConsumerMetadataResponseEncode(r) ==
  FindCoordinatorResponseEncode([Version |-> 0, Err |-> r.Err, Coordinator |->
    IF r.Coordinator = NilBroker THEN r.Deprecated ELSE r.Coordinator])
ConsumerMetadataResponseDecode(v) == FindCoordinatorResponseDecode(v) \o CopyField("Deprecated", "Coordinator")

PartitionMetadataEncode(pm, version) ==
  PutInt16(pm.Err) \o PutInt32(pm.ID) \o PutInt32(pm.Leader) \o PutInt32Array(pm.Replicas)
  \o PutInt32Array(pm.Isr) \o When(version >= 5, PutInt32Array(pm.OfflineReplicas))
PartitionMetadataDecode(version) ==
  GetInt16("Err") \o GetInt32("ID") \o GetInt32("Leader") \o GetInt32Array("Replicas")
  \o GetInt32Array("Isr") \o When(version >= 5, GetInt32Array("OfflineReplicas"))
TopicMetadataEncode(tm, version) ==
  PutInt16(tm.Err) \o PutString(tm.Name) \o When(version >= 1, PutBool(tm.IsInternal))
  \o PutArray(tm.Partitions, LAMBDA pm : PartitionMetadataEncode(pm, version))
TopicMetadataDecode(version) ==
  GetInt16("Err") \o GetString("Name") \o When(version >= 1, GetBool("IsInternal"))
  \o GetArray("Partitions", PartitionMetadataDecode(version))
MetadataResponseEncode(r) ==
  When(r.Version >= 3, PutInt32(r.ThrottleTimeMs))
  \o PutArray(r.Brokers, LAMBDA b : BrokerEncode(b, r.Version))
  \o When(r.Version >= 2, PutNullableString(r.ClusterID))
  \o When(r.Version >= 1, PutInt32(r.ControllerID))
  \o PutArray(r.Topics, LAMBDA tm : TopicMetadataEncode(tm, r.Version))
MetadataResponseDecode(v) ==
  SetField("Version", v) \o When(v >= 3, GetInt32("ThrottleTimeMs"))
  \o GetArray("Brokers", BrokerDecode(v))
  \o When(v >= 2, GetNullableString("ClusterID"))
  \o (IF v >= 1 THEN GetInt32("ControllerID") ELSE SetField("ControllerID", -1))
  \o GetArray("Topics", TopicMetadataDecode(v))

-----------------------------------------------------------------------------
(* Access control lists. *)
DescribeAclsResponseEncode(r) ==
  PutMillis(r.ThrottleTime) \o PutInt16(r.Err) \o PutNullableString(r.ErrMsg)
  \o PutArray(r.ResourceAcls, LAMBDA a : ResourceAclsEncode(a, r.Version))
DescribeAclsResponseDecode(v) ==
  GetMillis("ThrottleTime") \o GetInt16("Err") \o Get("emptyasnil", "ErrMsg")
  \o GetArray("ResourceAcls", ResourceAclsDecode(v))
AclCreationResponseEncode(a) == PutInt16(a.Err) \o PutNullableString(a.ErrMsg)
AclCreationResponseDecode == GetInt16("Err") \o GetNullableString("ErrMsg")
CreateAclsResponseEncode(r) == PutMillis(r.ThrottleTime) \o PutArray(r.AclCreationResponses, AclCreationResponseEncode)
CreateAclsResponseDecode(v) == GetMillis("ThrottleTime") \o GetArray("AclCreationResponses", AclCreationResponseDecode)
MatchingAclEncode(m, version) ==
  PutInt16(m.Err) \o PutNullableString(m.ErrMsg) \o ResourceEncode(m, version) \o AclEncode(m)
MatchingAclDecode(version) == GetInt16("Err") \o GetNullableString("ErrMsg") \o ResourceDecode(version) \o AclDecode
FilterResponseEncode(f, version) ==
  PutInt16(f.Err) \o PutNullableString(f.ErrMsg) \o PutArray(f.MatchingAcls, LAMBDA m : MatchingAclEncode(m, version))
FilterResponseDecode(version) ==
  GetInt16("Err") \o GetNullableString("ErrMsg") \o GetArray("MatchingAcls", MatchingAclDecode(version))
DeleteAclsResponseEncode(r) ==
  PutMillis(r.ThrottleTime) \o PutArray(r.FilterResponses, LAMBDA f : FilterResponseEncode(f, r.Version))
DeleteAclsResponseDecode(v) == GetMillis("ThrottleTime") \o GetArray("FilterResponses", FilterResponseDecode(v))

-----------------------------------------------------------------------------
(* Topics and configuration. *)
ApiVersionsResponseBlockEncode(b) == PutInt16(b.ApiKey) \o PutInt16(b.MinVersion) \o PutInt16(b.MaxVersion)
ApiVersionsResponseBlockDecode == GetInt16("ApiKey") \o GetInt16("MinVersion") \o GetInt16("MaxVersion")
ApiVersionsResponseEncode(r) == PutInt16(r.Err) \o PutArray(r.ApiVersions, ApiVersionsResponseBlockEncode)
ApiVersionsResponseDecode(v) == GetInt16("Err") \o GetArray("ApiVersions", ApiVersionsResponseBlockDecode)

(* A string that is too long ends the first pass without an error. *)
AlterConfigsResponseEncode(r) ==
  PutMillis(r.ThrottleTime)
  \o PutArray(r.Resources, LAMBDA c : PutInt16(c.ErrorCode) \o PutStringQuietly(c.ErrorMsg)
                                      \o PutInt8(c.Type) \o PutStringQuietly(c.Name))
AlterConfigsResponseDecode(v) ==
  GetMillis("ThrottleTime")
  \o GetArray("Resources", GetInt16("ErrorCode") \o GetString("ErrorMsg") \o GetInt8("Type") \o GetString("Name"))

ConfigSynonymEncode(c) == PutString(c.ConfigName) \o PutString(c.ConfigValue) \o PutInt8(c.Source)
ConfigSynonymDecode == GetQuietly(GetString("ConfigName") \o GetString("ConfigValue") \o GetInt8("Source"))
ConfigEntryEncode(c, version) ==
  PutString(c.Name) \o PutString(c.Value) \o PutBool(c.ReadOnly)
  \o (IF version <= 0 THEN PutBool(c.Default) \o PutBool(c.Sensitive)
      ELSE PutInt8(c.Source) \o PutBool(c.Sensitive) \o PutArray(c.Synonyms, ConfigSynonymEncode))
ConfigEntryDecode(version) ==
  When(version = 0, SetField("Source", 0))
  \o GetString("Name") \o GetString("Value") \o GetBool("ReadOnly")
  \o (IF version = 0 THEN GetBool("Default") ELSE GetInt8("Source")) \o GetBool("Sensitive")
  \o When(version > 0, GetArray("Synonyms", ConfigSynonymDecode))
ResourceResponseEncode(r, version) ==
  PutInt16(r.ErrorCode) \o PutString(r.ErrorMsg) \o PutInt8(r.Type) \o PutString(r.Name)
  \o PutArray(r.Configs, LAMBDA c : ConfigEntryEncode(c, version))
ResourceResponseDecode(version) ==
  GetInt16("ErrorCode") \o GetString("ErrorMsg") \o GetInt8("Type") \o GetString("Name")
  \o GetArray("Configs", ConfigEntryDecode(version))
DescribeConfigsResponseEncode(r) ==
  PutMillis(r.ThrottleTime) \o PutArray(r.Resources, LAMBDA c : ResourceResponseEncode(c, r.Version))
DescribeConfigsResponseDecode(v) ==
  SetField("Version", v) \o GetMillis("ThrottleTime") \o GetArray("Resources", ResourceResponseDecode(v))

TopicPartitionErrorEncode(t) == PutInt16(t.Err) \o PutNullableString(t.ErrMsg)
TopicPartitionErrorDecode == GetInt16("Err") \o GetNullableString("ErrMsg")
CreatePartitionsResponseEncode(r) ==
  PutMillis(r.ThrottleTime)
  \o PutMap(r.TopicPartitionErrors, LAMBDA topic, e : PutString(topic) \o TopicPartitionErrorEncode(e))
CreatePartitionsResponseDecode(v) ==
  GetMillis("ThrottleTime") \o GetMap("TopicPartitionErrors", "string", TopicPartitionErrorDecode)
TopicErrorEncode(t, version) == PutInt16(t.Err) \o When(version >= 1, PutNullableString(t.ErrMsg))
TopicErrorDecode(version) == GetInt16("Err") \o When(version >= 1, GetNullableString("ErrMsg"))
CreateTopicsResponseEncode(r) ==
  When(r.Version >= 2, PutMillis(r.ThrottleTime))
  \o PutMap(r.TopicErrors, LAMBDA topic, e : PutString(topic) \o TopicErrorEncode(e, r.Version))
CreateTopicsResponseDecode(v) ==
  SetField("Version", v) \o When(v >= 2, GetMillis("ThrottleTime"))
  \o GetMap("TopicErrors", "string", TopicErrorDecode(v))
DeleteTopicsResponseEncode(r) ==
  When(r.Version >= 1, PutMillis(r.ThrottleTime))
  \o PutMap(r.TopicErrorCodes, LAMBDA topic, code : PutString(topic) \o PutInt16(code.v))
DeleteTopicsResponseDecode(v) ==
  When(v >= 1, GetMillis("ThrottleTime") \o SetField("Version", v))
  \o GetMap("TopicErrorCodes", "string", GetInt16("v"))
DeleteRecordsResponsePartitionEncode(p) == PutInt64(p.LowWatermark) \o PutInt16(p.Err)
DeleteRecordsResponsePartitionDecode == GetInt64("LowWatermark") \o GetInt16("Err")
DeleteRecordsResponseTopicEncode(t) ==
  PutMap(t.Partitions, LAMBDA partition, p : PutInt32(partition) \o DeleteRecordsResponsePartitionEncode(p))
DeleteRecordsResponseTopicDecode == GetMap("Partitions", "int32", DeleteRecordsResponsePartitionDecode)
DeleteRecordsResponseEncode(r) ==
  PutMillis(r.ThrottleTime)
  \o PutMap(r.Topics, LAMBDA topic, t : PutString(topic) \o DeleteRecordsResponseTopicEncode(t))
DeleteRecordsResponseDecode(v) ==
  SetField("Version", v) \o GetMillis("ThrottleTime") \o GetMap("Topics", "string", DeleteRecordsResponseTopicDecode)

-----------------------------------------------------------------------------
(* Groups, offsets and transactions. *)
JoinGroupResponseEncode(r) ==
  When(r.Version >= 2, PutInt32(r.ThrottleTime)) \o PutInt16(r.Err) \o PutInt32(r.GenerationId)
  \o PutString(r.GroupProtocol) \o PutString(r.LeaderId) \o PutString(r.MemberId)
  \o PutMap(r.Members, LAMBDA member, metadata : PutString(member) \o PutBytes(metadata.v))
JoinGroupResponseDecode(v) ==
  SetField("Version", v) \o When(v >= 2, GetInt32("ThrottleTime")) \o GetInt16("Err") \o GetInt32("GenerationId")
  \o GetString("GroupProtocol") \o GetString("LeaderId") \o GetString("MemberId")
  \o GetMap("Members", "string", GetBytes("v"))

GroupMemberDescriptionEncode(m) ==
  PutString(m.ClientId) \o PutString(m.ClientHost) \o PutBytes(m.MemberMetadata) \o PutBytes(m.MemberAssignment)
GroupMemberDescriptionDecode ==
  GetString("ClientId") \o GetString("ClientHost") \o GetBytes("MemberMetadata") \o GetBytes("MemberAssignment")
GroupDescriptionEncode(g) ==
  PutInt16(g.Err) \o PutString(g.GroupId) \o PutString(g.State) \o PutString(g.ProtocolType) \o PutString(g.Protocol)
  \o PutMap(g.Members, LAMBDA member, m : PutString(member) \o GroupMemberDescriptionEncode(m))
GroupDescriptionDecode ==
  GetInt16("Err") \o GetString("GroupId") \o GetString("State") \o GetString("ProtocolType") \o GetString("Protocol")
  \o GetMap("Members", "string", GroupMemberDescriptionDecode)
DescribeGroupsResponseEncode(r) == PutArray(r.Groups, GroupDescriptionEncode)
DescribeGroupsResponseDecode(v) == GetArray("Groups", GroupDescriptionDecode)

(* Version 1 has one offset, which also fills the list of version 0. *)
OffsetResponseBlockEncode(b, version) ==
  PutInt16(b.Err) \o (IF version = 0 THEN PutInt64Array(b.Offsets) ELSE PutInt64(b.Timestamp) \o PutInt64(b.Offset))
OffsetResponseBlockDecode(version) ==
  GetInt16("Err") \o (IF version = 0 THEN GetInt64Array("Offsets")
                      ELSE GetInt64("Timestamp") \o GetInt64("Offset") \o ListOf("Offsets", "Offset"))
OffsetResponseEncode(r) == PutTopics(r.Blocks, LAMBDA b : OffsetResponseBlockEncode(b, r.Version))
OffsetResponseDecode(v) == GetTopics("Blocks", OffsetResponseBlockDecode(v))

OffsetFetchResponseBlockEncode(b, version) ==
  PutInt64(b.Offset) \o When(version >= 5, PutInt32(b.LeaderEpoch)) \o PutString(b.Metadata) \o PutInt16(b.Err)
OffsetFetchResponseBlockDecode(version) ==
  GetInt64("Offset") \o When(version >= 5, GetInt32("LeaderEpoch")) \o GetString("Metadata") \o GetInt16("Err")
OffsetFetchResponseEncode(r) ==
  When(r.Version >= 3, PutInt32(r.ThrottleTimeMs))
  \o PutTopics(r.Blocks, LAMBDA b : OffsetFetchResponseBlockEncode(b, r.Version))
  \o When(r.Version >= 2, PutInt16(r.Err))
OffsetFetchResponseDecode(v) ==
  SetField("Version", v) \o When(v >= 3, GetInt32("ThrottleTimeMs"))
  \o GetTopics("Blocks", OffsetFetchResponseBlockDecode(v)) \o When(v >= 2, GetInt16("Err"))

OffsetCommitResponseEncode(r) ==
  When(r.Version >= 3, PutInt32(r.ThrottleTimeMs)) \o PutTopics(r.Errors, LAMBDA e : PutInt16(e.v))
OffsetCommitResponseDecode(v) ==
  SetField("Version", v) \o When(v >= 3, GetInt32("ThrottleTimeMs")) \o GetTopics("Errors", GetInt16("v"))

PartitionErrorEncode(p) == PutInt32(p.Partition) \o PutInt16(p.Err)
PartitionErrorDecode == GetInt32("Partition") \o GetInt16("Err")
AddPartitionsToTxnResponseEncode(r) ==
  PutMillis(r.ThrottleTime)
  \o PutMap(r.Errors, LAMBDA topic, e : PutString(topic) \o PutArray(e.v, PartitionErrorEncode))
AddPartitionsToTxnResponseDecode(v) ==
  GetMillis("ThrottleTime") \o GetMap("Errors", "string", GetArray("v", PartitionErrorDecode))
TxnOffsetCommitResponseEncode(r) ==
  PutMillis(r.ThrottleTime)
  \o PutMap(r.Topics, LAMBDA topic, e : PutString(topic) \o PutArray(e.v, PartitionErrorEncode))
TxnOffsetCommitResponseDecode(v) ==
  GetMillis("ThrottleTime") \o GetMap("Topics", "string", GetArray("v", PartitionErrorDecode))

ProduceResponseBlockEncode(b, version) ==
  PutInt16(b.Err) \o PutInt64(b.Offset) \o When(version >= 2, PutTime(b.Timestamp))
ProduceResponseBlockDecode(version) ==
  GetInt16("Err") \o GetInt64("Offset") \o When(version >= 2, GetTime("Timestamp"))
ProduceResponseEncode(r) ==
  PutTopics(r.Blocks, LAMBDA b : ProduceResponseBlockEncode(b, r.Version))
  \o When(r.Version >= 1, PutMillis(r.ThrottleTime))
ProduceResponseDecode(v) ==
  SetField("Version", v) \o GetTopics("Blocks", ProduceResponseBlockDecode(v))
  \o When(v >= 1, GetMillis("ThrottleTime"))
=============================================================================
